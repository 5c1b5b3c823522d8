---------------------------- MODULE JobQueueProofs ----------------------------
(***************************************************************************)
(* Proofs about JobQueue, for every set of services and jobs and every     *)
(* limit.                                                                  *)
(***************************************************************************)
EXTENDS JobQueue, FiniteSetTheorems, TLAPS

--------------------------------------------------------------------------------
(* Type correctness. *)

\* The statuses of StatusAfterExpiry are statuses.
LEMMA ExpiryTyped ==
  ASSUME TypeOK
  PROVE  StatusAfterExpiry \in
           [Jobs -> Finished \cup Stages \cup {"none", "queued", "running"}]
BY DEF TypeOK, StatusAfterExpiry, Finished

\* An attempt is counted only while attempts are left.
LEMMA NextAttemptTyped ==
  ASSUME TypeOK, NEW j \in Jobs, NextAttempt(j)
  PROVE  /\ attempt' \in [Jobs -> 0 .. MaxAttempts]
         /\ deadline' \in [Jobs -> {"none", "ahead", "past"}]
         /\ due' \in [Jobs -> BOOLEAN]
BY LimitsAssumption DEF TypeOK, NextAttempt

\* Every step keeps the types.
LEMMA TypeNext == TypeOK /\ [Next]_vars => TypeOK'
<1> SUFFICES ASSUME TypeOK, [Next]_vars PROVE TypeOK'
  OBVIOUS
<1>1. CASE Requests
  <2>1. ASSUME NEW s \in Services, NEW d \in Deployments,
               NEW k \in Keys \cup {NoKey}, EnqueueDeployment(s, d, k)
        PROVE  TypeOK'
    BY <2>1 DEF EnqueueDeployment, Insert, TypeOK, Jobs, serviceVars, claimVars
  <2>2. ASSUME NEW s \in Services, NEW a \in Actions, NEW k \in ActionKinds,
               NEW c \in BOOLEAN, EnqueueAction(s, a, k, c)
        PROVE  TypeOK'
    BY <2>2 DEF EnqueueAction, Insert, TypeOK, Jobs, serviceVars, claimVars
  <2>3. ASSUME NEW d \in Deployments, Cancel(d)
        PROVE  TypeOK'
    BY <2>3
    DEF Cancel, StatusOnCancel, TypeOK, Jobs, Finished, serviceVars, claimVars
  <2>4. ASSUME NEW s \in Services, SaveCronSchedule(s)
        PROVE  TypeOK'
    BY <2>4 DEF SaveCronSchedule, TypeOK, claimVars, requestVars
  <2> QED BY <1>1, <2>1, <2>2, <2>3, <2>4 DEF Requests
<1>2. CASE Claim
  <2>1. ASSUME NEW a \in Actions, ClaimAction(a)
        PROVE  TypeOK'
    BY <2>1, ExpiryTyped, NextAttemptTyped
    DEF ClaimAction, TypeOK, Jobs, serviceVars, requestVars
  <2>2. ASSUME NEW d \in Deployments, ClaimDeployment(d)
        PROVE  TypeOK'
    BY <2>2, ExpiryTyped, NextAttemptTyped
    DEF ClaimDeployment, TypeOK, Jobs, serviceVars, requestVars
  <2>3. ASSUME NEW r \in CronRuns, ClaimCronRun(r)
        PROVE  TypeOK'
    BY <2>3, ExpiryTyped, NextAttemptTyped
    DEF ClaimCronRun, TypeOK, Jobs, serviceVars, requestVars
  <2>4. ASSUME NEW s \in Services, NEW r \in CronRuns, StartCronRun(s, r)
        PROVE  TypeOK'
    BY <2>4, ExpiryTyped, NextAttemptTyped
    DEF StartCronRun, TypeOK, Jobs
  <2>5. CASE ClaimNothing
    BY <2>5, ExpiryTyped
    DEF ClaimNothing, TypeOK, serviceVars, claimVars, requestVars
  <2> QED BY <1>2, <2>1, <2>2, <2>3, <2>4, <2>5 DEF Claim
<1>3. CASE Reports
  <2>1. ASSUME NEW d \in Deployments, NEW t \in 1 .. MaxAttempts,
               NEW st \in Stages \cup {"failed"}, ReportStage(d, t, st)
        PROVE  TypeOK'
    BY <2>1
    DEF ReportStage, TypeOK, Jobs, Finished, serviceVars, claimVars, requestVars
  <2>2. ASSUME NEW d \in Deployments, NEW t \in 1 .. MaxAttempts, ReportActive(d, t)
        PROVE  TypeOK'
    BY <2>2
    DEF ReportActive, Supersede, TypeOK, Jobs, Finished, claimVars, requestVars
  <2>3. ASSUME NEW a \in Actions, NEW t \in 1 .. MaxAttempts,
               NEW st \in {"done", "failed"}, ReportAction(a, t, st)
        PROVE  TypeOK'
    BY <2>3
    DEF ReportAction, TypeOK, Jobs, Finished, claimVars, requestVars
  <2>4. ASSUME NEW r \in CronRuns, NEW t \in 1 .. MaxAttempts,
               NEW st \in {"succeeded", "failed"}, ReportCronRun(r, t, st)
        PROVE  TypeOK'
    BY <2>4
    DEF ReportCronRun, TypeOK, Jobs, Finished, serviceVars, claimVars, requestVars
  <2> QED BY <1>3, <2>1, <2>2, <2>3, <2>4 DEF Reports
<1>4. CASE Clock
  <2>1. ASSUME NEW j \in Jobs, BackoffElapses(j)
        PROVE  TypeOK'
    BY <2>1 DEF BackoffElapses, TypeOK, serviceVars, requestVars
  <2>2. ASSUME NEW j \in Jobs, DeadlinePasses(j)
        PROVE  TypeOK'
    BY <2>2 DEF DeadlinePasses, TypeOK, serviceVars, requestVars
  <2>3. ASSUME NEW s \in Services, CronTick(s)
        PROVE  TypeOK'
    BY <2>3 DEF CronTick, TypeOK, claimVars, requestVars
  <2> QED BY <1>4, <2>1, <2>2, <2>3 DEF Clock
<1>5. CASE UNCHANGED vars
  BY <1>5 DEF TypeOK, vars, serviceVars, claimVars, requestVars
<1> QED BY <1>1, <1>2, <1>3, <1>4, <1>5 DEF Next

\* The queue's rows have their types in every reachable state.
THEOREM TypeCorrect == Spec => []TypeOK
<1>1. Init => TypeOK
  BY JobsAssumption, ServicesAssumption, LimitsAssumption
  DEF Init, TypeOK, Jobs, NoJob, Finished
<1> QED BY <1>1, TypeNext, PTL DEF Spec

--------------------------------------------------------------------------------
(* The inductive invariant.  TypeOK alone says nothing about which rows belong *)
(* together; the safety properties support one another:                        *)
(*  - a row that exists belongs to a service (RowsOwned), which an activation  *)
(*    needs to find the pointer it moves;                                      *)
(*  - an activation keeps OneLive because the row it supersedes is the only    *)
(*    active one of its service;                                               *)
(*  - RunsReleased needs OneLive, since a run is bound to the active release.  *)

RowsOwned == \A j \in Jobs : status[j] # "none" => owner[j] \in Services

IInv == TypeOK /\ RowsOwned /\ OneLive /\ CancelledNeverServes /\ WorkExcludes
                /\ RunsReleased /\ KeyNamesOne

\* A claim's expiry fails unfinished rows and touches no other.
LEMMA ExpiryOnlyFails ==
  ASSUME NEW j \in Jobs
  PROVE  StatusAfterExpiry[j] = status[j]
         \/ (StatusAfterExpiry[j] = "failed" /\ Pending(j))
BY DEF StatusAfterExpiry, Expired

\* What every step that inserts no row and activates nothing has in common.
Settles ==
  /\ owner' = owner /\ active' = active
  /\ \A j \in Jobs :
       \/ status'[j] = status[j]
       \/ /\ Pending(j)
          /\ status'[j] \notin {"none", "active", "superseded"}

\* Claims of existing rows settle.
LEMMA ClaimsSettle ==
  ASSUME TypeOK,
         \/ \E a \in Actions : ClaimAction(a)
         \/ \E d \in Deployments : ClaimDeployment(d)
         \/ \E r \in CronRuns : ClaimCronRun(r)
         \/ ClaimNothing
  PROVE  Settles /\ UNCHANGED requestVars
<1>1. ASSUME NEW a \in Actions, ClaimAction(a) PROVE Settles /\ UNCHANGED requestVars
  <2>1. Pending(a) /\ a \in Jobs
    BY <1>1 DEF ClaimAction, Oldest, Ready, Jobs
  <2>2. status' = [StatusAfterExpiry EXCEPT ![a] = "running"]
    BY <1>1 DEF ClaimAction
  <2> QED
    BY <1>1, <2>1, <2>2, ExpiryOnlyFails
    DEF ClaimAction, Settles, serviceVars, StatusAfterExpiry
<1>2. ASSUME NEW d \in Deployments, ClaimDeployment(d)
      PROVE Settles /\ UNCHANGED requestVars
  BY <1>2, ExpiryOnlyFails DEF ClaimDeployment, Settles, serviceVars
<1>3. ASSUME NEW r \in CronRuns, ClaimCronRun(r) PROVE Settles /\ UNCHANGED requestVars
  <2>1. Pending(r) /\ r \in Jobs
    BY <1>3 DEF ClaimCronRun, Oldest, Ready, Jobs
  <2>2. status' = [StatusAfterExpiry EXCEPT ![r] = "running"]
    BY <1>3 DEF ClaimCronRun
  <2> QED
    BY <1>3, <2>1, <2>2, ExpiryOnlyFails
    DEF ClaimCronRun, Settles, serviceVars, StatusAfterExpiry
<1>4. ASSUME ClaimNothing PROVE Settles /\ UNCHANGED requestVars
  BY <1>4, ExpiryOnlyFails DEF ClaimNothing, Settles, serviceVars, requestVars
<1> QED BY <1>1, <1>2, <1>3, <1>4

\* Reports of a stage, a failure, an action's or a run's outcome settle.
LEMMA ReportsSettle ==
  ASSUME TypeOK,
         \/ \E d \in Deployments, t \in 1 .. MaxAttempts,
              st \in Stages \cup {"failed"} : ReportStage(d, t, st)
         \/ \E a \in Actions, t \in 1 .. MaxAttempts, st \in {"done", "failed"} :
              ReportAction(a, t, st)
         \/ \E r \in CronRuns, t \in 1 .. MaxAttempts, st \in {"succeeded", "failed"} :
              ReportCronRun(r, t, st)
  PROVE  Settles /\ UNCHANGED requestVars
<1>1. ASSUME NEW d \in Deployments, NEW t \in 1 .. MaxAttempts,
             NEW st \in Stages \cup {"failed"}, ReportStage(d, t, st)
      PROVE  Settles /\ UNCHANGED requestVars
  BY <1>1, StagesAssumption
  DEF ReportStage, Settles, serviceVars, requestVars, TypeOK, Jobs
<1>2. ASSUME NEW a \in Actions, NEW t \in 1 .. MaxAttempts,
             NEW st \in {"done", "failed"}, ReportAction(a, t, st)
      PROVE  Settles /\ UNCHANGED requestVars
  BY <1>2 DEF ReportAction, Settles, requestVars, TypeOK, Jobs
<1>3. ASSUME NEW r \in CronRuns, NEW t \in 1 .. MaxAttempts,
             NEW st \in {"succeeded", "failed"}, ReportCronRun(r, t, st)
      PROVE  Settles /\ UNCHANGED requestVars
  BY <1>3 DEF ReportCronRun, Settles, serviceVars, requestVars, TypeOK, Jobs
<1> QED BY <1>1, <1>2, <1>3

\* A settling step that leaves the requests alone keeps the invariant.
LEMMA SettlingKeeps ==
  ASSUME IInv, TypeOK', Settles, UNCHANGED requestVars
  PROVE  IInv'
<1> USE JobsAssumption DEF Settles, requestVars
<1>1. \A j \in Jobs : Pending(j)' => Pending(j)
  BY DEF Pending, Finished
<1>2. RowsOwned'
  BY DEF IInv, RowsOwned, Pending
<1>3. OneLive'
  BY DEF IInv, OneLive, TypeOK, Jobs, Pending, Finished
<1>4. CancelledNeverServes'
  BY DEF IInv, CancelledNeverServes, Jobs
<1>5. WorkExcludes'
  BY <1>1 DEF IInv, WorkExcludes, PendingOf, Jobs
<1>6. RunsReleased'
  BY DEF IInv, RunsReleased, Jobs, Pending, Finished
<1>7. KeyNamesOne'
  BY DEF IInv, KeyNamesOne
<1> QED BY <1>2, <1>3, <1>4, <1>5, <1>6, <1>7 DEF IInv

\* Inserting a row that was not there.
LEMMA EnqueueDeploymentKeeps ==
  ASSUME IInv, TypeOK', NEW s \in Services, NEW d \in Deployments,
         NEW k \in Keys \cup {NoKey}, EnqueueDeployment(s, d, k)
  PROVE  IInv'
<1> USE JobsAssumption DEF EnqueueDeployment, Insert
<1>1. /\ status[d] = "none" /\ d \in Jobs /\ d # NoJob
      /\ \A j \in Jobs : j # d => status'[j] = status[j] /\ owner'[j] = owner[j]
      /\ status'[d] = "queued" /\ owner'[d] = s
      /\ active' = active /\ cancelled' = cancelled /\ release' = release
  BY DEF IInv, TypeOK, Jobs, serviceVars
<1>2. RowsOwned'
  BY <1>1 DEF IInv, RowsOwned
<1>3. OneLive'
  BY <1>1 DEF IInv, OneLive, TypeOK, Jobs
<1>4. CancelledNeverServes'
  BY <1>1 DEF IInv, CancelledNeverServes, Jobs
<1>5. WorkExcludes'
  <2>1. \A j \in Jobs : j # d => Pending(j)' = Pending(j)
    BY <1>1 DEF Pending
  <2>2. d \notin Actions /\ d \notin CronRuns
    OBVIOUS
  <2>3. \A a \in Actions : Pending(a) => owner[a] # s
    BY DEF PendingOf
  <2> QED
    BY <1>1, <2>1, <2>2, <2>3 DEF IInv, WorkExcludes, PendingOf, Jobs
<1>6. RunsReleased'
  BY <1>1 DEF IInv, RunsReleased, Jobs
<1>7. KeyNamesOne'
  BY <1>1 DEF IInv, KeyNamesOne, KeyUnused, TypeOK, Jobs
<1> QED BY <1>2, <1>3, <1>4, <1>5, <1>6, <1>7 DEF IInv

LEMMA EnqueueActionKeeps ==
  ASSUME IInv, TypeOK', NEW s \in Services, NEW a \in Actions,
         NEW k \in ActionKinds, NEW c \in BOOLEAN, EnqueueAction(s, a, k, c)
  PROVE  IInv'
<1> USE JobsAssumption DEF EnqueueAction, Insert
<1>1. /\ status[a] = "none" /\ a \in Jobs
      /\ \A j \in Jobs : j # a => status'[j] = status[j] /\ owner'[j] = owner[j]
      /\ status'[a] = "queued" /\ owner'[a] = s
      /\ active' = active /\ UNCHANGED <<cancelled, key, release>>
  BY DEF IInv, TypeOK, Jobs, serviceVars
<1>2. RowsOwned'
  BY <1>1 DEF IInv, RowsOwned
<1>3. OneLive'
  BY <1>1 DEF IInv, OneLive, TypeOK, Jobs
<1>4. CancelledNeverServes'
  BY <1>1 DEF IInv, CancelledNeverServes, Jobs
<1>5. WorkExcludes'
  <2>1. \A j \in Jobs : j # a => Pending(j)' = Pending(j)
    BY <1>1 DEF Pending
  <2>2. a \notin Deployments /\ a \notin CronRuns
    OBVIOUS
  <2>3. \A j \in Jobs : Pending(j) => owner[j] # s
    BY DEF Busy, PendingOf
  <2> QED
    BY <1>1, <2>1, <2>2, <2>3 DEF IInv, WorkExcludes, PendingOf, Jobs
<1>6. RunsReleased'
  BY <1>1 DEF IInv, RunsReleased, Jobs
<1>7. KeyNamesOne'
  BY <1>1 DEF IInv, KeyNamesOne, Jobs
<1> QED BY <1>2, <1>3, <1>4, <1>5, <1>6, <1>7 DEF IInv

LEMMA StartCronRunKeeps ==
  ASSUME IInv, TypeOK', NEW s \in Services, NEW r \in CronRuns, StartCronRun(s, r)
  PROVE  IInv'
<1> USE JobsAssumption DEF StartCronRun
<1>1. /\ status[r] = "none" /\ r \in Jobs /\ status' [r] = "running" /\ owner'[r] = s
      /\ \A j \in Jobs : j # r => /\ owner'[j] = owner[j]
                                 /\ \/ status'[j] = status[j]
                                    \/ status'[j] = "failed" /\ Pending(j)
      /\ active' = active /\ UNCHANGED <<cancelled, key>>
      /\ release' = [release EXCEPT ![r] = active[s]]
  BY ExpiryOnlyFails DEF IInv, TypeOK, Jobs, StatusAfterExpiry
<1>2. /\ active[s] \in Deployments /\ owner[active[s]] = s
      /\ status[active[s]] = "active"
  BY DEF DueServices, IInv, OneLive, TypeOK
<1>3. \A j \in Jobs : j # r /\ Pending(j)' => Pending(j)
  BY <1>1 DEF Pending, Finished
<1>4. RowsOwned'
  BY <1>1 DEF IInv, RowsOwned, Pending
<1>5. OneLive'
  BY <1>1 DEF IInv, OneLive, TypeOK, Jobs, Pending, Finished
<1>6. CancelledNeverServes'
  BY <1>1 DEF IInv, CancelledNeverServes, Jobs
<1>7. WorkExcludes'
  <2>1. r \notin Deployments /\ r \notin Actions
    OBVIOUS
  <2>2. \A q \in CronRuns : q # r /\ owner[q] = s => ~Pending(q)'
    <3> SUFFICES ASSUME NEW q \in CronRuns, q # r, owner[q] = s, Pending(q)'
                 PROVE  FALSE
      OBVIOUS
    <3>1. Expired(q)
      BY <1>3 DEF DueServices, PendingOf, Jobs
    <3>2. status'[q] = "failed"
      BY <3>1 DEF StatusAfterExpiry, Jobs
    <3> QED BY <3>2 DEF Pending, Finished
  <2> QED
    BY <1>1, <1>3, <2>1, <2>2 DEF IInv, WorkExcludes, PendingOf, Jobs
<1>8. RunsReleased'
  BY <1>1, <1>2 DEF IInv, RunsReleased, TypeOK, Jobs, Pending, Finished
<1>9. KeyNamesOne'
  BY <1>1 DEF IInv, KeyNamesOne, Jobs
<1> QED BY <1>4, <1>5, <1>6, <1>7, <1>8, <1>9 DEF IInv

\* An activation moves the pointer and both statuses together.
LEMMA ReportActiveKeeps ==
  ASSUME IInv, TypeOK', NEW d \in Deployments, NEW t \in 1 .. MaxAttempts,
         ReportActive(d, t)
  PROVE  IInv'
<1> USE JobsAssumption DEF ReportActive
<1> DEFINE s == owner[d]
<1>1. /\ d \in Jobs /\ d # NoJob /\ s \in Services /\ Pending(d)
  BY DEF IInv, RowsOwned, Pending, Jobs
<1>2. /\ status'[d] = "active" /\ active'[s] = d
      /\ \A x \in Services : x # s => active'[x] = active[x]
      /\ \A j \in Jobs : j # d =>
           \/ status'[j] = status[j] /\ ~(j = active[s] /\ status[j] = "active")
           \/ status'[j] = "superseded" /\ status[j] = "active" /\ j = active[s]
      /\ UNCHANGED <<owner, cancelled, key, release, kind>>
  BY <1>1 DEF IInv, TypeOK, Supersede, requestVars
<1>3. \A j \in Jobs : Pending(j)' => Pending(j)
  BY <1>1, <1>2 DEF Pending, Finished
<1>4. RowsOwned'
  BY <1>1, <1>2 DEF IInv, RowsOwned
<1>5. OneLive'
  <2>1. ASSUME NEW x \in Services, active'[x] # NoJob
        PROVE  owner[active'[x]] = x /\ status'[active'[x]] = "active"
    <3>1. CASE x = s
      BY <3>1, <1>2
    <3>2. CASE x # s
      <4>1. active'[x] = active[x] /\ active[x] \in Deployments
            /\ owner[active[x]] = x /\ status[active[x]] = "active"
        BY <1>2, <2>1, <3>2 DEF IInv, OneLive, TypeOK
      <4>2. active[x] # d /\ active[x] # active[s] /\ active[x] \in Jobs
        BY <4>1, <3>2, <1>1 DEF IInv, OneLive, Jobs, Pending, Finished
      <4> QED BY <1>2, <4>1, <4>2
    <3> QED BY <3>1, <3>2
  <2>2. ASSUME NEW e \in Deployments, status'[e] = "active"
        PROVE  active'[owner[e]] = e
    <3>1. CASE e = d
      BY <3>1, <1>2
    <3>2. CASE e # d
      <4>1. status[e] = "active" /\ e # active[s] /\ e \in Jobs
        BY <3>2, <2>2, <1>2 DEF Jobs
      <4>2. active[owner[e]] = e /\ owner[e] \in Services
        BY <4>1 DEF IInv, OneLive, RowsOwned
      <4>3. owner[e] # s
        BY <4>1, <4>2
      <4> QED BY <1>2, <4>2, <4>3
    <3> QED BY <3>1, <3>2
  <2> QED BY <1>2, <2>1, <2>2 DEF OneLive
<1>6. CancelledNeverServes'
  BY <1>2 DEF IInv, CancelledNeverServes, MayActivate, Jobs
<1>7. WorkExcludes'
  BY <1>2, <1>3 DEF IInv, WorkExcludes, PendingOf, Jobs
<1>8. RunsReleased'
  <2> SUFFICES ASSUME NEW r \in CronRuns, status'[r] # "none"
               PROVE  /\ release[r] \in Deployments
                      /\ owner[release[r]] = owner[r]
                      /\ status'[release[r]] \in {"active", "superseded"}
    BY <1>2 DEF RunsReleased
  <2>1. status[r] # "none"
    BY <1>2 DEF Jobs
  <2> QED BY <1>2, <2>1 DEF IInv, RunsReleased, Jobs
<1>9. KeyNamesOne'
  BY <1>2 DEF IInv, KeyNamesOne
<1> QED BY <1>4, <1>5, <1>6, <1>7, <1>8, <1>9 DEF IInv

LEMMA CancelKeeps ==
  ASSUME IInv, TypeOK', NEW d \in Deployments, Cancel(d)
  PROVE  IInv'
<1> USE JobsAssumption DEF Cancel
<1>1. /\ d \in Jobs /\ Pending(d)
      /\ \A j \in Jobs : j # d => status'[j] = status[j]
      /\ status'[d] = status[d] \/ status'[d] = "failed"
      /\ cancelled' = [cancelled EXCEPT ![d] = TRUE]
      /\ UNCHANGED <<active, owner, key, release>>
  BY DEF IInv, TypeOK, Jobs, StatusOnCancel, serviceVars
<1>2. \A j \in Jobs : Pending(j)' => Pending(j)
  BY <1>1 DEF Pending, Finished
<1>3. RowsOwned'
  BY <1>1 DEF IInv, RowsOwned, Pending
<1>4. OneLive'
  BY <1>1 DEF IInv, OneLive, TypeOK, Jobs, Pending, Finished
<1>5. CancelledNeverServes'
  BY <1>1 DEF IInv, CancelledNeverServes, TypeOK, Jobs, Pending, Finished
<1>6. WorkExcludes'
  BY <1>1, <1>2 DEF IInv, WorkExcludes, PendingOf, Jobs
<1>7. RunsReleased'
  BY <1>1 DEF IInv, RunsReleased, Jobs, Pending, Finished
<1>8. KeyNamesOne'
  BY <1>1 DEF IInv, KeyNamesOne
<1> QED BY <1>3, <1>4, <1>5, <1>6, <1>7, <1>8 DEF IInv

\* Every step keeps the invariant.
LEMMA IInvNext == IInv /\ [Next]_vars => IInv'
<1> SUFFICES ASSUME IInv, [Next]_vars PROVE IInv'
  OBVIOUS
<1>0. TypeOK /\ TypeOK'
  BY TypeNext DEF IInv
<1>1. CASE Requests
  <2>1. ASSUME NEW s \in Services, SaveCronSchedule(s) PROVE IInv'
    <3>1. Settles /\ UNCHANGED requestVars
      BY <2>1 DEF SaveCronSchedule, Settles
    <3> QED BY <1>0, <3>1, SettlingKeeps
  <2> QED
    BY <1>0, <1>1, <2>1, EnqueueDeploymentKeeps, EnqueueActionKeeps, CancelKeeps
    DEF Requests
<1>2. CASE Claim
  BY <1>0, <1>2, ClaimsSettle, SettlingKeeps, StartCronRunKeeps DEF Claim
<1>3. CASE Reports
  BY <1>0, <1>3, ReportsSettle, SettlingKeeps, ReportActiveKeeps DEF Reports
<1>4. CASE Clock
  <2>1. Settles /\ UNCHANGED requestVars
    BY <1>4 DEF Clock, BackoffElapses, DeadlinePasses, CronTick, Settles, serviceVars
  <2> QED BY <1>0, <2>1, SettlingKeeps
<1>5. CASE UNCHANGED vars
  <2>1. Settles /\ UNCHANGED requestVars
    BY <1>5 DEF vars, Settles, serviceVars
  <2> QED BY <1>0, <2>1, SettlingKeeps
<1> QED BY <1>1, <1>2, <1>3, <1>4, <1>5 DEF Next

\* The inductive invariant holds in every reachable state.
THEOREM InductiveInvariant == Spec => []IInv
<1>1. Init => IInv
  BY JobsAssumption, ServicesAssumption, LimitsAssumption
  DEF Init, IInv, TypeOK, RowsOwned, OneLive, CancelledNeverServes, WorkExcludes,
      RunsReleased, KeyNamesOne, Pending, Jobs, NoJob, Finished
<1> QED BY <1>1, IInvNext, PTL DEF Spec

\* services.active_id and the active deployment agree in every reachable state.
THEOREM OneLiveAlways == Spec => []OneLive
BY InductiveInvariant, PTL DEF IInv

\* A cancelled deployment is never served.
THEOREM CancelledNeverServesAlways == Spec => []CancelledNeverServes
BY InductiveInvariant, PTL DEF IInv

\* Actions, deployments and cron runs of a service exclude one another.
THEOREM WorkExcludesAlways == Spec => []WorkExcludes
BY InductiveInvariant, PTL DEF IInv

\* Cron runs execute releases of their own service that went live.
THEOREM RunsReleasedAlways == Spec => []RunsReleased
BY InductiveInvariant, PTL DEF IInv

\* An idempotency key names one deployment of a service.
THEOREM KeyNamesOneAlways == Spec => []KeyNamesOne
BY InductiveInvariant, PTL DEF IInv

\* While an action is unfinished its service's active release stays put.
THEOREM ReleaseHeldAlways == Spec => ReleaseHeld
<1>1. IInv /\ [Next]_vars =>
        [\A a \in Actions : Pending(a) => active'[owner[a]] = active[owner[a]]]_vars
  <2> SUFFICES ASSUME IInv, Next, NEW a \in Actions, Pending(a)
               PROVE  active'[owner[a]] = active[owner[a]]
    OBVIOUS
  <2>1. ASSUME NEW d \in Deployments, NEW t \in 1 .. MaxAttempts, ReportActive(d, t)
        PROVE  active'[owner[a]] = active[owner[a]]
    <3>1. d \in PendingOf(owner[d], Deployments)
      BY <2>1 DEF ReportActive, PendingOf
    <3>2. owner[a] # owner[d]
      BY <3>1 DEF IInv, WorkExcludes
    <3> QED BY <2>1, <3>2 DEF ReportActive, IInv, TypeOK
  <2>2. CASE Requests
    BY <2>2 DEF Requests, EnqueueDeployment, EnqueueAction, Cancel,
       SaveCronSchedule, serviceVars
  <2>3. CASE Claim
    BY <2>3 DEF Claim, ClaimAction, ClaimDeployment, ClaimCronRun, StartCronRun,
       ClaimNothing, serviceVars
  <2>4. CASE Reports
    BY <2>1, <2>4 DEF Reports, ReportStage, ReportAction, ReportCronRun, serviceVars
  <2>5. CASE Clock
    BY <2>5 DEF Clock, BackoffElapses, DeadlinePasses, CronTick, serviceVars
  <2> QED BY <2>2, <2>3, <2>4, <2>5 DEF Next
<1> QED BY <1>1, InductiveInvariant, PTL DEF Spec, ReleaseHeld

\* A finished job stays as it is, or its release is superseded.
LEMMA FinalNext ==
  ASSUME IInv, Next, NEW j \in Jobs, status[j] \in Finished
  PROVE  \/ status'[j] = status[j]
         \/ status[j] = "active" /\ status'[j] = "superseded"
<1>0. TypeOK /\ ~Pending(j) /\ status[j] # "none"
  BY DEF IInv, Pending, Finished
<1>1. CASE Requests
  BY <1>0, <1>1 DEF Requests, EnqueueDeployment, EnqueueAction, Insert, Cancel,
     SaveCronSchedule, TypeOK
<1>2. ASSUME NEW s \in Services, NEW r \in CronRuns, StartCronRun(s, r)
      PROVE  status'[j] = status[j]
  BY <1>0, <1>2, ExpiryOnlyFails DEF StartCronRun, StatusAfterExpiry
<1>3. ASSUME NEW d \in Deployments, NEW t \in 1 .. MaxAttempts, ReportActive(d, t)
      PROVE  \/ status'[j] = status[j]
             \/ status[j] = "active" /\ status'[j] = "superseded"
  BY <1>0, <1>3 DEF ReportActive, Supersede
<1>4. Settles => status'[j] = status[j]
  BY <1>0 DEF Settles
<1>5. CASE Claim
  BY <1>0, <1>2, <1>4, <1>5, ClaimsSettle DEF Claim
<1>6. CASE Reports
  BY <1>0, <1>3, <1>4, <1>6, ReportsSettle DEF Reports
<1>7. CASE Clock
  BY <1>7 DEF Clock, BackoffElapses, DeadlinePasses, CronTick
<1> QED BY <1>1, <1>5, <1>6, <1>7 DEF Next

\* Outcomes are final: no late report, retry or expiry revives a finished job.
THEOREM OutcomeIsFinalAlways == Spec => OutcomeIsFinal
<1>1. IInv /\ [Next]_vars =>
        [\A j \in Jobs : status[j] \in Finished =>
           \/ status'[j] = status[j]
           \/ status[j] = "active" /\ status'[j] = "superseded"]_vars
  <2> SUFFICES ASSUME IInv, Next, NEW j \in Jobs, status[j] \in Finished
               PROVE  \/ status'[j] = status[j]
                      \/ status[j] = "active" /\ status'[j] = "superseded"
    OBVIOUS
  <2> QED BY FinalNext
<1> QED BY <1>1, InductiveInvariant, PTL DEF Spec, OutcomeIsFinal

--------------------------------------------------------------------------------
(* Time: what a job has used up of its attempts, backoffs and deadlines. *)

\* Only a claim, the end of a backoff and a passing deadline touch them.
LEMMA TimePasses ==
  ASSUME Next
  PROVE  \/ UNCHANGED claimVars
         \/ \E i \in Jobs : NextAttempt(i) \/ BackoffElapses(i) \/ DeadlinePasses(i)
<1>1. CASE Requests
  BY <1>1 DEF Requests, EnqueueDeployment, EnqueueAction, Cancel, SaveCronSchedule
<1>2. CASE Claim
  BY <1>2 DEF Claim, ClaimAction, ClaimDeployment, ClaimCronRun, StartCronRun, ClaimNothing,
     Jobs
<1>3. CASE Reports
  BY <1>3 DEF Reports, ReportStage, ReportActive, ReportAction, ReportCronRun
<1>4. CASE Clock
  BY <1>4 DEF Clock, CronTick
<1> QED BY <1>1, <1>2, <1>3, <1>4 DEF Next

\* A claim uses up more than the backoff and the deadline it renews.
LEMMA UsedGrows ==
  ASSUME TypeOK, Next, NEW j \in Jobs
  PROVE  Used(j)' > Used(j) \/ UNCHANGED <<attempt[j], due[j], deadline[j]>>
<1>1. /\ attempt \in [Jobs -> 0 .. MaxAttempts] /\ due \in [Jobs -> BOOLEAN]
      /\ deadline \in [Jobs -> {"none", "ahead", "past"}] /\ MaxAttempts \in Nat
  BY LimitsAssumption DEF TypeOK
<1>2. ASSUME NEW i \in Jobs, NextAttempt(i)
      PROVE  Used(j)' > Used(j) \/ UNCHANGED <<attempt[j], due[j], deadline[j]>>
  <2>1. CASE i # j
    BY <1>1, <1>2, <2>1 DEF NextAttempt
  <2>2. CASE i = j
    <3>1. /\ attempt'[j] = attempt[j] + 1 /\ ~due'[j] /\ deadline'[j] = "ahead"
          /\ deadline[j] # "past"
      BY <1>1, <1>2, <2>2 DEF NextAttempt
    <3>2. Used(j)' = 3 * (attempt[j] + 1) + 0 + 0
      <4>1. (IF due'[j] THEN 1 ELSE 0) = 0 /\ (IF deadline'[j] = "past" THEN 1 ELSE 0) = 0
        BY <3>1, Zenon
      <4> QED BY <3>1, <4>1, Zenon DEF Used
    <3>3. Used(j) = 3 * attempt[j] + (IF due[j] THEN 1 ELSE 0) + 0
      <4>1. (IF deadline[j] = "past" THEN 1 ELSE 0) = 0
        BY <3>1, Zenon
      <4> QED BY <4>1, Zenon DEF Used
    <3>4. (IF due[j] THEN 1 ELSE 0) \in {0, 1}
      BY Zenon
    <3> QED BY <1>1, <3>2, <3>3, <3>4
  <2> QED BY <2>1, <2>2
<1>3. ASSUME NEW i \in Jobs, BackoffElapses(i)
      PROVE  Used(j)' > Used(j) \/ UNCHANGED <<attempt[j], due[j], deadline[j]>>
  <2>1. UNCHANGED <<attempt, deadline>> /\ ~due[i] /\ due' = [due EXCEPT ![i] = TRUE]
    BY <1>3 DEF BackoffElapses
  <2>2. CASE i # j
    BY <1>1, <2>1, <2>2
  <2>3. CASE i = j
    <3>1. ~due[j] /\ due'[j] /\ UNCHANGED <<attempt, deadline>>
      BY <1>1, <2>1, <2>3
    <3>2. (IF due[j] THEN 1 ELSE 0) = 0 /\ (IF due'[j] THEN 1 ELSE 0) = 1
      BY <3>1, Zenon
    <3> DEFINE late == IF deadline[j] = "past" THEN 1 ELSE 0
    <3>3. Used(j) = 3 * attempt[j] + 0 + late /\ Used(j)' = 3 * attempt[j] + 1 + late
      BY <3>1, <3>2, Zenon DEF Used
    <3>4. late \in {0, 1}
      BY Zenon
    <3> HIDE DEF late
    <3> QED BY <1>1, <3>3, <3>4
  <2> QED BY <2>2, <2>3
<1>4. ASSUME NEW i \in Jobs, DeadlinePasses(i)
      PROVE  Used(j)' > Used(j) \/ UNCHANGED <<attempt[j], due[j], deadline[j]>>
  <2>1. /\ UNCHANGED <<attempt, due>> /\ deadline[i] = "ahead"
        /\ deadline' = [deadline EXCEPT ![i] = "past"]
    BY <1>4 DEF DeadlinePasses
  <2>2. CASE i # j
    BY <1>1, <2>1, <2>2
  <2>3. CASE i = j
    <3>1. deadline[j] # "past" /\ deadline'[j] = "past" /\ UNCHANGED <<attempt, due>>
      BY <1>1, <2>1, <2>3
    <3>2. /\ (IF deadline[j] = "past" THEN 1 ELSE 0) = 0
          /\ (IF deadline'[j] = "past" THEN 1 ELSE 0) = 1
      BY <3>1, Zenon
    <3> DEFINE ready == IF due[j] THEN 1 ELSE 0
    <3>3. Used(j) = 3 * attempt[j] + ready + 0 /\ Used(j)' = 3 * attempt[j] + ready + 1
      BY <3>1, <3>2, Zenon DEF Used
    <3>4. ready \in {0, 1}
      BY Zenon
    <3> HIDE DEF ready
    <3> QED BY <1>1, <3>3, <3>4
  <2> QED BY <2>2, <2>3
<1> QED BY <1>2, <1>3, <1>4, TimePasses DEF claimVars

\* No request, claim or report gives a job back an attempt, a backoff or a deadline
\* it has used up, whatever the number of attempts.  This is the measure on which
\* the liveness of the queue rests.
THEOREM TimeRunsOutAlways == Spec => TimeRunsOut
<1>1. TypeOK /\ [Next]_vars =>
        [\A j \in Jobs :
           Used(j)' > Used(j) \/ UNCHANGED <<attempt[j], due[j], deadline[j]>>]_vars
  BY UsedGrows
<1> QED BY <1>1, TypeCorrect, PTL DEF Spec, TimeRunsOut

\* Nothing but the expiry reaches a job whose deadline has passed.
LEMMA LateJob ==
  ASSUME TypeOK, Next, NEW j \in Jobs, Pending(j), deadline[j] = "past"
  PROVE  /\ status'[j] \in {status[j], "failed"}
         /\ UNCHANGED <<attempt[j], deadline[j]>>
<1>1. status[j] # "none" /\ status[j] # "active" /\ Expired(j)
  BY DEF Pending, Finished, Expired
<1>2. UNCHANGED <<attempt[j], deadline[j]>>
  <2>1. attempt \in [Jobs -> 0 .. MaxAttempts] /\ deadline \in [Jobs -> {"none", "ahead", "past"}]
    BY DEF TypeOK
  <2>2. ASSUME NEW i \in Jobs, NextAttempt(i) \/ BackoffElapses(i) \/ DeadlinePasses(i)
        PROVE  UNCHANGED <<attempt[j], deadline[j]>>
    BY <2>1, <2>2 DEF NextAttempt, BackoffElapses, DeadlinePasses
  <2> QED BY <2>2, TimePasses DEF claimVars
<1>3. CASE Requests
  <2>1. status \in [Jobs -> Finished \cup Stages \cup {"none", "queued", "running"}]
    BY DEF TypeOK
  <2>2. ASSUME NEW i, NEW s, NEW st, Insert(i, s, st) PROVE status'[j] = status[j]
    BY <1>1, <2>1, <2>2 DEF Insert
  <2>3. ASSUME NEW d \in Deployments, Cancel(d)
        PROVE  status'[j] \in {status[j], "failed"}
    BY <2>1, <2>3 DEF Cancel, StatusOnCancel
  <2>4. ASSUME NEW s, SaveCronSchedule(s) PROVE status'[j] = status[j]
    BY <2>4 DEF SaveCronSchedule
  <2> QED
    BY <1>2, <1>3, <2>2, <2>3, <2>4 DEF Requests, EnqueueDeployment, EnqueueAction
<1>4. CASE Claim
  <2>1. StatusAfterExpiry[j] = "failed"
    BY <1>1 DEF StatusAfterExpiry
  <2>2. ASSUME NEW i, status' = [StatusAfterExpiry EXCEPT ![i] = "running"], i # j
        PROVE  status'[j] = "failed"
    BY <2>1, <2>2 DEF StatusAfterExpiry
  <2>3. j \notin Ready(Actions) /\ j \notin Ready(CronRuns)
    BY <1>1 DEF Ready
  <2>4. ASSUME NEW i, ClaimAction(i) \/ ClaimCronRun(i) PROVE status'[j] = "failed"
    <3>1. i # j /\ status' = [StatusAfterExpiry EXCEPT ![i] = "running"]
      BY <2>3, <2>4 DEF ClaimAction, ClaimCronRun, Oldest
    <3> QED BY <2>2, <3>1
  <2>5. ASSUME NEW s, NEW r, StartCronRun(s, r) PROVE status'[j] = "failed"
    <3>1. r # j /\ status' = [StatusAfterExpiry EXCEPT ![r] = "running"]
      BY <1>1, <2>5 DEF StartCronRun
    <3> QED BY <2>2, <3>1
  <2> QED BY <1>2, <1>4, <2>1, <2>4, <2>5 DEF Claim, ClaimDeployment, ClaimNothing
<1>5. CASE Reports
  <2>1. ASSUME NEW i, NEW t, CheckAttempt(i, t) PROVE i # j
    BY <2>1 DEF CheckAttempt
  <2>2. ASSUME NEW d \in Deployments, NEW t, ReportActive(d, t) PROVE status'[j] = status[j]
    <3>1. d # j
      BY <2>1, <2>2 DEF ReportActive, MayActivate
    <3> QED BY <1>1, <2>2, <3>1 DEF ReportActive, Supersede
  <2>3. ASSUME NEW i, NEW t, NEW st,
               ReportStage(i, t, st) \/ ReportAction(i, t, st) \/ ReportCronRun(i, t, st)
        PROVE  status'[j] = status[j]
    <3>1. i # j /\ status' = [status EXCEPT ![i] = st]
      BY <2>1, <2>3 DEF ReportStage, ReportAction, ReportCronRun
    <3> QED BY <3>1 DEF TypeOK
  <2> QED BY <1>2, <1>5, <2>2, <2>3 DEF Reports
<1>6. CASE Clock
  BY <1>2, <1>6 DEF Clock, BackoffElapses, DeadlinePasses, CronTick
<1> QED BY <1>3, <1>4, <1>5, <1>6 DEF Next

\* An attempt whose deadline has passed cannot succeed any more, and its job fails:
\* a late answer and the next claim may come in either order.
THEOREM LateOnlyFailsAlways == Spec => LateOnlyFails
<1>1. TypeOK /\ [Next]_vars =>
        [\A j \in Jobs : Pending(j) /\ deadline[j] = "past" =>
           /\ status'[j] \in {status[j], "failed"}
           /\ UNCHANGED <<attempt[j], deadline[j]>>]_vars
  BY LateJob
<1> QED BY <1>1, TypeCorrect, PTL DEF Spec, LateOnlyFails

--------------------------------------------------------------------------------
(* The queue limit: a count, so the argument is about finite sets. *)

\* A new element adds at most one.
LEMMA OneMore ==
  ASSUME NEW S, IsFiniteSet(S), NEW x
  PROVE  /\ IsFiniteSet(S \cup {x})
         /\ Cardinality(S \cup {x}) <= Cardinality(S) + 1
<1>1. Cardinality(S) \in Nat
  BY FS_CardinalityType
<1>2. /\ IsFiniteSet(S \cup {x})
      /\ Cardinality(S \cup {x}) = Cardinality(S)
         \/ Cardinality(S \cup {x}) = Cardinality(S) + 1
  BY FS_AddElement, Zenon
<1> QED BY <1>1, <1>2

\* A queue that only loses deployments stays within its limit.
LEMMA ShrunkenQueueBounded ==
  ASSUME QueueBounded, NEW s \in Services,
         PendingOf(s, Deployments)' \subseteq PendingOf(s, Deployments)
  PROVE  Cardinality(PendingOf(s, Deployments)') <= QueueLimit
<1>1. IsFiniteSet(PendingOf(s, Deployments))
  BY FS_Subset, JobsAssumption DEF PendingOf
<1>2. /\ IsFiniteSet(PendingOf(s, Deployments)')
      /\ Cardinality(PendingOf(s, Deployments)') <= Cardinality(PendingOf(s, Deployments))
  BY <1>1, FS_Subset
<1>3. /\ Cardinality(PendingOf(s, Deployments)) \in Nat
      /\ Cardinality(PendingOf(s, Deployments)') \in Nat
  BY <1>1, <1>2, FS_CardinalityType
<1> QED BY <1>2, <1>3, LimitsAssumption DEF QueueBounded

\* Only an accepted request adds to a queue, and it found room there.
LEMMA EnqueueDeploymentBounded ==
  ASSUME TypeOK, QueueBounded, NEW s \in Services, NEW d \in Deployments,
         NEW k \in Keys \cup {NoKey}, EnqueueDeployment(s, d, k)
  PROVE  QueueBounded'
<1> SUFFICES ASSUME NEW x \in Services
             PROVE  Cardinality(PendingOf(x, Deployments)') <= QueueLimit
  BY DEF QueueBounded
<1> USE DEF EnqueueDeployment, Insert
<1>1. /\ \A e \in Deployments : e # d => status'[e] = status[e] /\ owner'[e] = owner[e]
      /\ status'[d] = "queued" /\ owner'[d] = s
  BY DEF TypeOK, Jobs
<1>2. CASE x # s
  <2>1. PendingOf(x, Deployments)' \subseteq PendingOf(x, Deployments)
    BY <1>1, <1>2 DEF PendingOf, Pending
  <2> QED BY <2>1, ShrunkenQueueBounded
<1>3. CASE x = s
  <2>1. PendingOf(s, Deployments)' \subseteq PendingOf(s, Deployments) \cup {d}
    BY <1>1 DEF PendingOf, Pending
  <2>2. IsFiniteSet(PendingOf(s, Deployments))
    BY FS_Subset, JobsAssumption DEF PendingOf
  <2>3. /\ IsFiniteSet(PendingOf(s, Deployments) \cup {d})
        /\ Cardinality(PendingOf(s, Deployments) \cup {d})
             <= Cardinality(PendingOf(s, Deployments)) + 1
    BY <2>2, OneMore
  <2>4. /\ IsFiniteSet(PendingOf(s, Deployments)')
        /\ Cardinality(PendingOf(s, Deployments)')
             <= Cardinality(PendingOf(s, Deployments) \cup {d})
    BY <2>1, <2>3, FS_Subset
  <2>5. /\ Cardinality(PendingOf(s, Deployments)) \in Nat
        /\ Cardinality(PendingOf(s, Deployments)') \in Nat
        /\ Cardinality(PendingOf(s, Deployments) \cup {d}) \in Nat
    BY <2>2, <2>3, <2>4, FS_CardinalityType
  <2>6. Cardinality(PendingOf(s, Deployments)) < QueueLimit
    BY DEF QueueHasRoom
  <2> QED BY <1>3, <2>3, <2>4, <2>5, <2>6, LimitsAssumption
<1> QED BY <1>2, <1>3

\* No service ever has more unfinished deployments than the limit.
THEOREM QueueBoundedAlways == Spec => []QueueBounded
<1>1. Init => QueueBounded
  <2> SUFFICES ASSUME Init, NEW s \in Services
               PROVE  Cardinality(PendingOf(s, Deployments)) <= QueueLimit
    BY DEF QueueBounded
  <2>1. PendingOf(s, Deployments) = {}
    BY DEF Init, PendingOf, Pending, Jobs
  <2> QED BY <2>1, FS_EmptySet, LimitsAssumption
<1>2. IInv /\ QueueBounded /\ [Next]_vars => QueueBounded'
  <2> SUFFICES ASSUME IInv, QueueBounded, [Next]_vars PROVE QueueBounded'
    OBVIOUS
  <2>0. TypeOK
    BY DEF IInv
  <2> DEFINE Shrinks == \A s \in Services :
                  PendingOf(s, Deployments)' \subseteq PendingOf(s, Deployments)
  <2>1. Shrinks => QueueBounded'
    BY ShrunkenQueueBounded DEF QueueBounded
  <2>2. Settles => Shrinks
    BY DEF Settles, PendingOf, Pending, Jobs
  <2>3. CASE Requests
    <3>1. ASSUME NEW s \in Services, NEW a \in Actions, NEW k \in ActionKinds,
                 NEW c \in BOOLEAN, EnqueueAction(s, a, k, c)
          PROVE  Shrinks
      BY <2>0, <3>1, JobsAssumption
      DEF EnqueueAction, Insert, TypeOK, PendingOf, Pending, Jobs
    <3>2. ASSUME NEW d \in Deployments, Cancel(d) PROVE Shrinks
      BY <2>0, <3>2
      DEF Cancel, StatusOnCancel, TypeOK, PendingOf, Pending, Finished, Jobs
    <3>3. ASSUME NEW s \in Services, SaveCronSchedule(s) PROVE Shrinks
      BY <3>3 DEF SaveCronSchedule, PendingOf, Pending
    <3> QED
      BY <2>0, <2>1, <2>3, <3>1, <3>2, <3>3, EnqueueDeploymentBounded DEF Requests
  <2>4. CASE Claim
    <3>1. ASSUME NEW s \in Services, NEW r \in CronRuns, StartCronRun(s, r)
          PROVE  Shrinks
      <4>1. \A d \in Deployments : /\ owner'[d] = owner[d]
                                   /\ status'[d] = StatusAfterExpiry[d]
        BY <2>0, <3>1, JobsAssumption DEF StartCronRun, TypeOK, StatusAfterExpiry, Jobs
      <4> QED BY <4>1, ExpiryOnlyFails DEF PendingOf, Pending, Finished, Jobs
    <3> QED BY <2>0, <2>1, <2>2, <2>4, <3>1, ClaimsSettle DEF Claim
  <2>5. CASE Reports
    <3>1. ASSUME NEW d \in Deployments, NEW t \in 1 .. MaxAttempts, ReportActive(d, t)
          PROVE  Shrinks
      BY <3>1 DEF ReportActive, Supersede, PendingOf, Pending, Finished, Jobs,
         requestVars, claimVars
    <3> QED BY <2>0, <2>1, <2>2, <2>5, <3>1, ReportsSettle DEF Reports
  <2>6. CASE Clock
    BY <2>1, <2>6 DEF Clock, BackoffElapses, DeadlinePasses, CronTick, PendingOf, Pending
  <2>7. CASE UNCHANGED vars
    BY <2>1, <2>7 DEF vars, PendingOf, Pending
  <2> QED BY <2>3, <2>4, <2>5, <2>6, <2>7 DEF Next
<1> QED BY <1>1, <1>2, InductiveInvariant, PTL DEF Spec

--------------------------------------------------------------------------------
(* JobQueue implements Release: under the mapping of Promise every step of    *)
(* the queue is a step of the abstract specification or leaves its state      *)
(* alone.  The mapping needs the inductive invariant in two places: an        *)
(* activation must find the row of a service (RowsOwned), and what it         *)
(* supersedes must be exactly the live release (OneLive).                     *)

\* What the mapping sees of the state.

fateBar == [d \in Deployments |-> FateOf(status[d])]
ownerBar == [d \in Deployments |-> owner[d]]
barredBar == {d \in Deployments : cancelled[d]}

MappedUnchanged ==
  active' = active /\ fateBar' = fateBar /\ ownerBar' = ownerBar /\ barredBar' = barredBar

\* An unfinished deployment is a pending release.
LEMMA PendingFate ==
  ASSUME NEW d \in Deployments, Pending(d)
  PROVE  fateBar[d] = "pending"
BY DEF fateBar, FateOf, Pending, Finished

LEMMA InitMaps == Init => Promise!Init
BY DEF Init, Promise!Init, FateOf, Jobs

\* An accepted deployment is an accepted release.
LEMMA EnqueueDeploymentMaps ==
  ASSUME TypeOK, NEW s \in Services, NEW d \in Deployments,
         NEW k \in Keys \cup {NoKey}, EnqueueDeployment(s, d, k)
  PROVE  Promise!Accept(s, d)
<1> USE DEF EnqueueDeployment, Insert
<1>1. fateBar[d] = "unknown"
  BY DEF fateBar, FateOf
<1>2. fateBar' = [fateBar EXCEPT ![d] = "pending"]
  BY DEF fateBar, FateOf, TypeOK, Jobs
<1>3. ownerBar' = [ownerBar EXCEPT ![d] = s]
  BY DEF ownerBar, TypeOK, Jobs
<1>4. active' = active /\ barredBar' = barredBar
  BY DEF serviceVars, barredBar
<1> QED BY <1>1, <1>2, <1>3, <1>4
    DEF Promise!Accept, fateBar, ownerBar, barredBar

\* A cancellation bars the release, and drops it when nobody claimed it.
LEMMA CancelMaps ==
  ASSUME TypeOK, NEW d \in Deployments, Cancel(d)
  PROVE  Promise!Bar(d)
<1> USE DEF Cancel
<1>1. fateBar[d] = "pending"
  BY PendingFate
<1>2. fateBar' \in {fateBar, [fateBar EXCEPT ![d] = "dropped"]}
  <2>1. CASE StatusOnCancel(d) = status[d]
    <3>1. \A e \in Deployments : status'[e] = status[e]
      BY <2>1 DEF TypeOK, Jobs
    <3> QED BY <3>1 DEF fateBar
  <2>2. CASE StatusOnCancel(d) = "failed"
    <3>1. \A e \in Deployments :
            status'[e] = IF e = d THEN "failed" ELSE status[e]
      BY <2>2 DEF TypeOK, Jobs
    <3>2. \A e \in Deployments :
            FateOf(status[e])' = IF e = d THEN "dropped" ELSE FateOf(status[e])
      BY <3>1 DEF FateOf
    <3>3. fateBar' = [fateBar EXCEPT ![d] = "dropped"]
      BY <3>2 DEF fateBar
    <3> QED BY <3>3
  <2> QED BY <2>1, <2>2 DEF StatusOnCancel
<1>3. barredBar' = barredBar \cup {d}
  BY DEF barredBar, TypeOK
<1>4. active' = active /\ ownerBar' = ownerBar
  BY DEF serviceVars, ownerBar
<1> QED BY <1>1, <1>2, <1>3, <1>4
    DEF Promise!Bar, fateBar, ownerBar, barredBar

\* What a claim expires is dropped, all at once.
LEMMA ExpiryMaps ==
  ASSUME TypeOK, \A d \in Deployments : status'[d] = StatusAfterExpiry[d],
         active' = active, ownerBar' = ownerBar, barredBar' = barredBar
  PROVE  Promise!Drop({d \in Deployments : Expired(d)})
<1> DEFINE R == {d \in Deployments : Expired(d)}
<1>1. \A r \in R : fateBar[r] = "pending"
  BY PendingFate DEF Expired
<1>2. fateBar' = [r \in Deployments |-> IF r \in R THEN "dropped" ELSE fateBar[r]]
  BY DEF fateBar, FateOf, StatusAfterExpiry, Jobs
<1> HIDE DEF R
<1>3. Promise!Drop(R)
  BY <1>1, <1>2 DEF Promise!Drop, fateBar, ownerBar, barredBar
<1> QED BY <1>3 DEF R

\* A claim drops what it expires and changes nothing else of a release.
LEMMA ClaimMaps ==
  ASSUME TypeOK, Claim
  PROVE  Promise!Drop({d \in Deployments : Expired(d)})
<1>1. \A d \in Deployments : status'[d] = StatusAfterExpiry[d]
  <2>1. ASSUME NEW i \in Actions \cup CronRuns,
               status' = [StatusAfterExpiry EXCEPT ![i] = "running"]
        PROVE  \A d \in Deployments : status'[d] = StatusAfterExpiry[d]
    <3>1. i \notin Deployments
      BY JobsAssumption
    <3> QED BY <2>1, <3>1 DEF StatusAfterExpiry, Jobs
  <2> QED BY <2>1
      DEF Claim, ClaimAction, ClaimDeployment, ClaimCronRun, StartCronRun, ClaimNothing
<1>2. active' = active /\ barredBar' = barredBar
  BY DEF Claim, ClaimAction, ClaimDeployment, ClaimCronRun, StartCronRun,
         ClaimNothing, serviceVars, requestVars, barredBar
<1>3. ownerBar' = ownerBar
  <2>1. \A d \in Deployments : owner'[d] = owner[d]
    BY JobsAssumption
    DEF Claim, ClaimAction, ClaimDeployment, ClaimCronRun, StartCronRun,
        ClaimNothing, TypeOK, Jobs
  <2> QED BY <2>1 DEF ownerBar
<1> QED BY <1>1, <1>2, <1>3, ExpiryMaps

\* A stage keeps the release pending; a failure drops it.
LEMMA ReportStageMaps ==
  ASSUME TypeOK, NEW d \in Deployments, NEW t \in 1 .. MaxAttempts,
         NEW st \in Stages \cup {"failed"}, ReportStage(d, t, st)
  PROVE  Promise!Drop({d}) \/ MappedUnchanged
<1>1. fateBar[d] = "pending"
  BY PendingFate DEF ReportStage
<1>2. \A e \in Deployments : status'[e] = IF e = d THEN st ELSE status[e]
  BY DEF ReportStage, TypeOK, Jobs
<1>3. active' = active /\ ownerBar' = ownerBar /\ barredBar' = barredBar
  BY DEF ReportStage, serviceVars, requestVars, ownerBar, barredBar
<1>4. CASE st = "failed"
  <2>1. fateBar' = [r \in Deployments |-> IF r \in {d} THEN "dropped" ELSE fateBar[r]]
    BY <1>2, <1>4 DEF fateBar, FateOf
  <2> QED BY <1>1, <1>3, <2>1 DEF Promise!Drop, fateBar, ownerBar, barredBar
<1>5. CASE st \in Stages
  <2>1. FateOf(st) = "pending"
    BY <1>5, StagesAssumption DEF FateOf
  <2>2. fateBar' = fateBar
    BY <1>1, <1>2, <2>1 DEF fateBar
  <2> QED BY <1>3, <2>2 DEF MappedUnchanged
<1> QED BY <1>4, <1>5

\* An activation makes the release live and retires the one it replaces.
LEMMA ReportActiveMaps ==
  ASSUME IInv, NEW d \in Deployments, NEW t \in 1 .. MaxAttempts, ReportActive(d, t)
  PROVE  Promise!GoLive(d)
<1> USE DEF ReportActive
<1>0. TypeOK /\ OneLive /\ Pending(d) /\ owner[d] \in Services
  BY DEF IInv, RowsOwned, Pending, Jobs
<1>1. fateBar[d] = "pending" /\ d \notin barredBar
  BY PendingFate DEF MayActivate, barredBar
<1>2. fateBar' = [x \in Deployments |->
                    IF x = d THEN "live"
                    ELSE IF x = active[owner[d]] THEN "retired"
                    ELSE fateBar[x]]
  <2>1. \A x \in Deployments : x # d /\ x = active[owner[d]] => status[x] = "active"
    BY <1>0, JobsAssumption DEF OneLive, Jobs
  <2>2. \A x \in Deployments :
          status'[x] = IF x = d THEN "active"
                       ELSE IF x = active[owner[d]] THEN "superseded"
                       ELSE status[x]
    BY <2>1 DEF Supersede, Jobs
  <2> QED BY <2>2 DEF fateBar, FateOf
<1>3. active' = [active EXCEPT ![ownerBar[d]] = d]
  BY DEF ownerBar
<1>4. ownerBar' = ownerBar /\ barredBar' = barredBar
  BY DEF requestVars, ownerBar, barredBar
<1> QED BY <1>1, <1>2, <1>3, <1>4
    DEF Promise!GoLive, fateBar, ownerBar, barredBar

\* The rest of the queue is not about releases.
LEMMA OthersStutter ==
  ASSUME TypeOK,
         \/ \E s \in Services, a \in Actions, k \in ActionKinds, c \in BOOLEAN :
              EnqueueAction(s, a, k, c)
         \/ \E s \in Services : SaveCronSchedule(s)
         \/ \E a \in Actions, t \in 1 .. MaxAttempts, st \in {"done", "failed"} :
              ReportAction(a, t, st)
         \/ \E r \in CronRuns, t \in 1 .. MaxAttempts, st \in {"succeeded", "failed"} :
              ReportCronRun(r, t, st)
         \/ Clock
         \/ UNCHANGED vars
  PROVE  MappedUnchanged
<1>1. active' = active /\ barredBar' = barredBar
  BY DEF EnqueueAction, SaveCronSchedule, ReportAction, ReportCronRun, Clock,
         BackoffElapses, DeadlinePasses, CronTick, vars, serviceVars, requestVars,
         barredBar
<1>2. \A d \in Deployments : status'[d] = status[d] /\ owner'[d] = owner[d]
  BY JobsAssumption
  DEF EnqueueAction, Insert, SaveCronSchedule, ReportAction, ReportCronRun, Clock,
      BackoffElapses, DeadlinePasses, CronTick, vars, TypeOK, Jobs
<1>3. fateBar' = fateBar /\ ownerBar' = ownerBar
  BY <1>2 DEF fateBar, ownerBar
<1> QED BY <1>1, <1>3 DEF MappedUnchanged

\* The queue keeps the promise of Release.
THEOREM PromiseKept == Spec => KeepsPromise
<1>1. IInv /\ [Next]_vars => [Promise!Next]_(Promise!releaseVars)
  <2> SUFFICES ASSUME IInv, [Next]_vars
               PROVE  Promise!Next \/ MappedUnchanged
    BY DEF MappedUnchanged, Promise!releaseVars, fateBar, ownerBar, barredBar
  <2>0. TypeOK
    BY DEF IInv
  <2>1. CASE Requests
    BY <2>0, <2>1, EnqueueDeploymentMaps, CancelMaps, OthersStutter
    DEF Requests, Promise!Next
  <2>2. CASE Claim
    <3>1. {d \in Deployments : Expired(d)} \in SUBSET Deployments
      OBVIOUS
    <3> QED BY <2>0, <2>2, <3>1, ClaimMaps DEF Promise!Next
  <2>3. CASE Reports
    <3>1. \A d \in Deployments : {d} \in SUBSET Deployments
      OBVIOUS
    <3> QED BY <2>0, <2>3, <3>1, ReportStageMaps, ReportActiveMaps, OthersStutter
        DEF Reports, Promise!Next
  <2>4. CASE Clock \/ UNCHANGED vars
    BY <2>0, <2>4, OthersStutter
  <2> QED BY <2>1, <2>2, <2>3, <2>4 DEF Next
<1> QED BY <1>1, InitMaps, InductiveInvariant, PTL
    DEF Spec, KeepsPromise, Promise!Spec
================================================================================
