------------------------------ MODULE BuildsProofs ------------------------------
(***************************************************************************)
(* Proofs about Builds, for every set of services, builds, requests and    *)
(* deployments and every limit.                                            *)
(***************************************************************************)
EXTENDS Builds, FiniteSetTheorems, TLAPS

--------------------------------------------------------------------------------
(* Type correctness. *)

\* The statuses after an expiry are statuses.
LEMMA ExpiryTyped ==
  ASSUME BuildsTypeOK
  PROVE  StatusAfterExpiry \in
    [SourceBuilds -> {"none", "queued", "building", "succeeded", "failed", "cancelled"}]
BY DEF BuildsTypeOK, StatusAfterExpiry

\* A claim is counted only while claims are left.
LEMMA ClaimTyped ==
  ASSUME BuildsTypeOK, Claim
  PROVE  BuildsTypeOK'
<1>1. ASSUME NEW b \in Ready,
             attempt' = [attempt EXCEPT ![b] = @ + 1],
             deadline' = [deadline EXCEPT ![b] = "ahead"],
             due' = [due EXCEPT ![b] = FALSE]
      PROVE  /\ attempt' \in [SourceBuilds -> 0 .. MaxAttempts]
             /\ deadline' \in [SourceBuilds -> {"none", "ahead", "past"}]
             /\ due' \in [SourceBuilds -> BOOLEAN]
  <2>1. b \in SourceBuilds /\ attempt[b] + 1 \in 0 .. MaxAttempts
    BY <1>1, BuildsAssumption DEF BuildsTypeOK, Ready, Expired
  <2> QED BY <1>1, <2>1 DEF BuildsTypeOK
<1>2. status' \in
    [SourceBuilds -> {"none", "queued", "building", "succeeded", "failed", "cancelled"}]
  BY ExpiryTyped DEF Claim
<1>3. /\ attempt' \in [SourceBuilds -> 0 .. MaxAttempts]
      /\ deadline' \in [SourceBuilds -> {"none", "ahead", "past"}]
      /\ due' \in [SourceBuilds -> BOOLEAN]
  BY <1>1 DEF Claim, BuildsTypeOK, claimVars
<1> QED BY <1>2, <1>3 DEF Claim, BuildsTypeOK, storeVars, flushVars

\* New rows have the type of rows.
LEMMA InsertTyped ==
  ASSUME BuildsTypeOK, NEW New, DOMAIN New \subseteq Services, NEW q \in Requests \cup {NoRequest},
         InsertBuilds(New, q), delivered' \subseteq Deliveries
  PROVE  BuildsTypeOK'
<1> DEFINE Of(b) == CHOOSE s \in DOMAIN New : New[s] = b
<1>1. \A b \in {New[s] : s \in DOMAIN New} : Of(b) \in Services
  OBVIOUS
<1>2. service' \in [SourceBuilds -> Services \cup {NoService}]
  <2>1. \A b \in SourceBuilds :
          (IF b \in {New[s] : s \in DOMAIN New} THEN Of(b) ELSE service[b])
            \in Services \cup {NoService}
    BY <1>1 DEF BuildsTypeOK
  <2> HIDE DEF Of
  <2>2. service' = [b \in SourceBuilds |->
                      IF b \in {New[s] : s \in DOMAIN New} THEN Of(b) ELSE service[b]]
    BY DEF InsertBuilds, Of
  <2> QED BY <2>1, <2>2
<1>3. /\ status' \in [SourceBuilds ->
           {"none", "queued", "building", "succeeded", "failed", "cancelled"}]
      /\ request' \in [SourceBuilds -> Requests \cup {NoRequest}]
  BY DEF InsertBuilds, BuildsTypeOK
<1> QED BY <1>2, <1>3 DEF InsertBuilds, BuildsTypeOK, claimVars, storeVars, flushVars

\* The rows of the builds, of their deployments and of the flush have their types
\* in every reachable state.
THEOREM BuildsTypeCorrect == Spec => []BuildsTypeOK
<1>1. Init => BuildsTypeOK
  BY BuildsAssumption DEF Init, BuildsTypeOK, Store!Init, Store!Fates
<1>2. BuildsTypeOK /\ [Next]_vars => BuildsTypeOK'
  <2> SUFFICES ASSUME BuildsTypeOK, [Next]_vars PROVE BuildsTypeOK'
    OBVIOUS
  <2>1. CASE Ask
    <3>1. ASSUME NEW s \in Services, NEW b \in SourceBuilds,
                 NEW q \in (Requests \ Deliveries) \cup {NoRequest}, Enqueue(s, b, q)
          PROVE  BuildsTypeOK'
      <4>1. delivered' \subseteq Deliveries
        BY <3>1 DEF Enqueue, BuildsTypeOK
      <4> QED BY <3>1, <4>1, InsertTyped DEF Enqueue
    <3>2. ASSUME NEW q \in Deliveries, Push(q)
          PROVE  BuildsTypeOK'
      <4>1. delivered' \subseteq Deliveries
        BY <3>2 DEF Push, BuildsTypeOK
      <4>2. PICK New \in [{s \in AutoDeploy : Stored(s, q) = {}} -> SourceBuilds] :
              InsertBuilds(New, q)
        BY <3>2 DEF Push
      <4> QED BY <4>1, <4>2, InsertTyped, BuildsAssumption
    <3>3. ASSUME NEW b \in SourceBuilds, Cancel(b)
          PROVE  BuildsTypeOK'
      BY <3>3 DEF Cancel, BuildsTypeOK, claimVars, storeVars, flushVars
    <3> QED BY <2>1, <3>1, <3>2, <3>3 DEF Ask
  <2>2. CASE Work
    <3>1. ASSUME NEW b \in SourceBuilds, NEW t \in 1 .. MaxAttempts,
                 NEW outcome \in {"building", "succeeded", "failed", "cancelled"},
                 Report(b, t, outcome)
          PROVE  BuildsTypeOK'
      BY <3>1 DEF Report, BuildsTypeOK, claimVars, storeVars, flushVars
    <3>2. ASSUME NEW b \in SourceBuilds, BackoffElapses(b) \/ DeadlinePasses(b)
          PROVE  BuildsTypeOK'
      BY <3>2 DEF BackoffElapses, DeadlinePasses, BuildsTypeOK, storeVars, flushVars
    <3> QED BY <2>2, <3>1, <3>2, ClaimTyped DEF Work
  <2>3. CASE Flush \/ FlushFails
    <3>1. CASE FlushRead \/ FlushFails
      BY <3>1
      DEF FlushRead, FlushFails, Awaiting, BuildsTypeOK, buildVars, claimVars, storeVars
    <3>2. ASSUME NEW b \in SourceBuilds, FlushFind(b) \/ FlushRefused(b) \/ FlushStore(b)
          PROVE  BuildsTypeOK'
      BY <3>2 DEF FlushFind, FlushRefused, FlushStore, Deployed, BuildsTypeOK,
         buildVars, claimVars, storeVars
    <3>3. ASSUME NEW b \in SourceBuilds, NEW r \in Releases, FlushDeploy(b, r)
          PROVE  BuildsTypeOK'
      BY <3>3 DEF FlushDeploy, Store!Accept, Store!Fates, BuildsTypeOK, buildVars, claimVars
    <3> QED BY <2>3, <3>1, <3>2, <3>3 DEF Flush, FlushEnqueue, FlushRecord
  <2>4. CASE Deploy
    <3>1. ASSUME NEW s \in Services, StartAction(s) \/ FinishAction(s) \/ SaveCronSchedule(s)
          PROVE  BuildsTypeOK'
      BY <3>1 DEF StartAction, FinishAction, SaveCronSchedule, BuildsTypeOK,
         buildVars, claimVars, flushVars
    <3>2. ASSUME NEW r \in Releases, Conclude(r) \/ CancelRelease(r)
          PROVE  BuildsTypeOK'
      BY <3>2 DEF Conclude, CancelRelease, Store!GoLive, Store!Drop, Store!Bar,
         Store!Fates, BuildsTypeOK, buildVars, claimVars, flushVars
    <3>3. ASSUME NEW s \in Services, NEW r \in Releases, DeployDirectly(s, r)
          PROVE  BuildsTypeOK'
      BY <3>3 DEF DeployDirectly, Store!Accept, Store!Fates, BuildsTypeOK,
         buildVars, claimVars, flushVars
    <3> QED BY <2>4, <3>1, <3>2, <3>3 DEF Deploy
  <2>5. CASE UNCHANGED vars
    BY <2>5 DEF BuildsTypeOK, vars, buildVars, claimVars, storeVars, flushVars
  <2> QED BY <2>1, <2>2, <2>3, <2>4, <2>5 DEF Next
<1> QED BY <1>1, <1>2, PTL DEF Spec

--------------------------------------------------------------------------------
(* The inductive invariant.  Why a build is deployed only once lies in what the  *)
(* flush knows between its statements:                                           *)
(*  - what it read as successful is still so when it asks for the deployment     *)
(*    (BatchSucceeded), since a cancelled build cannot have been (CancelledEnds);*)
(*  - the deployment it holds is the one stored for the build it is at           *)
(*    (FlushingBuilt);                                                           *)
(*  - a deployment that is not stored yet belongs to no build (FreshUnbuilt).    *)

CancelledEnds ==
  \A b \in SourceBuilds : cancelled[b] => status[b] \in {"building", "cancelled"}

BatchSucceeded == \A b \in batch : status[b] = "succeeded"

FlushingBuilt ==
  flushing # None => \A b \in batch : First(b) => builtBy[flushing] = b

FreshUnbuilt == \A r \in Releases : fate[r] = "unknown" => builtBy[r] = None

IInv == BuildsTypeOK /\ CancelledEnds /\ BatchSucceeded /\ FlushingBuilt /\ FreshUnbuilt
                     /\ DeploysSuccess /\ DeploysOnce /\ BuildsOnce

\* What cancellations, claims and reports have in common.
RowsSettle ==
  /\ UNCHANGED <<service, request, deployment, storeVars, flushVars>>
  /\ \A b \in SourceBuilds :
       ~Unfinished(b) => status'[b] = status[b] /\ cancelled'[b] = cancelled[b]
  /\ CancelledEnds'

\* A claim ends unfinished builds and touches no other.
LEMMA ClaimSettles ==
  ASSUME IInv, Claim
  PROVE  RowsSettle
<1> USE DEF IInv
<1>1. \A b \in SourceBuilds :
        \/ ~Expired(b) /\ StatusAfterExpiry[b] = status[b]
        \/ Expired(b) /\ cancelled[b] /\ StatusAfterExpiry[b] = "cancelled"
        \/ Expired(b) /\ ~cancelled[b] /\ StatusAfterExpiry[b] = "failed"
  BY DEF StatusAfterExpiry
<1>2. \A b \in SourceBuilds :
        \/ status'[b] = StatusAfterExpiry[b]
        \/ Unfinished(b) /\ status'[b] = "building"
  BY ExpiryTyped DEF Claim, Ready
<1>3. \A b \in SourceBuilds : Expired(b) => Unfinished(b)
  BY DEF Expired
<1>4. cancelled' = cancelled
  BY DEF Claim
<1>5. CancelledEnds'
  BY <1>1, <1>2, <1>4 DEF CancelledEnds
<1> QED BY <1>1, <1>2, <1>3, <1>4, <1>5 DEF RowsSettle, Claim

\* No report and no cancellation reaches a build that has ended.
LEMMA ReportsSettle ==
  ASSUME IInv, NEW b \in SourceBuilds,
         \/ Cancel(b) \/ BackoffElapses(b) \/ DeadlinePasses(b)
         \/ \E t \in 1 .. MaxAttempts :
              \E outcome \in {"building", "succeeded", "failed", "cancelled"} :
                Report(b, t, outcome)
  PROVE  RowsSettle
<1> USE DEF IInv, BuildsTypeOK, RowsSettle
<1>1. CASE Cancel(b)
  BY <1>1 DEF Cancel, Cancellable, Unfinished, CancelledEnds
<1>2. CASE BackoffElapses(b) \/ DeadlinePasses(b)
  BY <1>2 DEF BackoffElapses, DeadlinePasses, CancelledEnds
<1>3. ASSUME NEW t \in 1 .. MaxAttempts,
             NEW outcome \in {"building", "succeeded", "failed", "cancelled"},
             Report(b, t, outcome)
      PROVE  RowsSettle
  <2>1. /\ Unfinished(b) \/ status[b] = outcome
        /\ ~(cancelled[b] /\ outcome = "succeeded")
    BY <1>3 DEF Report, Accepts
  <2>2. /\ \A c \in SourceBuilds : c # b => status'[c] = status[c]
        /\ \/ status'[b] = outcome /\ (cancelled[b] => outcome = "building")
           \/ status'[b] = "cancelled" /\ cancelled[b] /\ outcome # "building"
    BY <1>3 DEF Report
  <2>3. cancelled' = cancelled
    BY <1>3 DEF Report
  <2>4. CancelledEnds'
    BY <2>2, <2>3 DEF CancelledEnds
  <2>5. ~Unfinished(b) => status'[b] = status[b]
    BY <2>1, <2>2 DEF CancelledEnds, Unfinished
  <2> QED BY <1>3, <2>2, <2>3, <2>4, <2>5 DEF Report
<1> QED BY <1>1, <1>2, <1>3

\* Steps that settle rows keep the invariant.
LEMMA SettledKeeps ==
  ASSUME IInv, RowsSettle, BuildsTypeOK'
  PROVE  IInv'
<1> USE DEF IInv, RowsSettle, storeVars, flushVars
<1>1. BatchSucceeded' /\ FlushingBuilt' /\ FreshUnbuilt'
  BY DEF BatchSucceeded, FlushingBuilt, FreshUnbuilt, First, Unfinished, BuildsTypeOK
<1>2. DeploysSuccess'
  BY DEF DeploysSuccess, Unfinished, BuildsTypeOK
<1>3. DeploysOnce' /\ BuildsOnce'
  BY DEF DeploysOnce, BuildsOnce
<1> QED BY <1>1, <1>2, <1>3

\* New rows are queued, and no service gets a second one for a request.
LEMMA InsertKeeps ==
  ASSUME IInv, BuildsTypeOK', NEW q \in Requests \cup {NoRequest},
         NEW New, DOMAIN New \subseteq Services, InsertBuilds(New, q),
         \A s \in DOMAIN New : Stored(s, q) = {}
  PROVE  IInv'
<1> DEFINE Rows == {New[s] : s \in DOMAIN New}
           Of(b) == CHOOSE s \in DOMAIN New : New[s] = b
<1> USE DEF IInv
<1>1. \A b \in SourceBuilds \cap Rows :
        /\ status[b] = "none" /\ status'[b] = "queued"
        /\ request'[b] = q /\ service'[b] = Of(b)
        /\ Of(b) \in DOMAIN New /\ New[Of(b)] = b
  <2>1. \A b \in Rows : Of(b) \in DOMAIN New /\ New[Of(b)] = b
    OBVIOUS
  <2> QED BY <2>1 DEF InsertBuilds
<1>2. \A b \in SourceBuilds \ Rows :
        status'[b] = status[b] /\ request'[b] = request[b] /\ service'[b] = service[b]
  BY DEF InsertBuilds
<1> HIDE DEF Rows, Of
<1>3. UNCHANGED <<cancelled, deployment, storeVars, flushVars>>
  BY DEF InsertBuilds
<1> USE DEF storeVars, flushVars
<1>4. CancelledEnds'
  BY <1>1, <1>2, <1>3 DEF CancelledEnds
<1>5. BatchSucceeded' /\ FlushingBuilt' /\ FreshUnbuilt'
  BY <1>1, <1>2, <1>3 DEF BatchSucceeded, FlushingBuilt, FreshUnbuilt, First, BuildsTypeOK
<1>6. DeploysSuccess'
  BY <1>1, <1>2, <1>3 DEF DeploysSuccess, BuildsTypeOK
<1>7. DeploysOnce'
  BY <1>3 DEF DeploysOnce
<1>8. BuildsOnce'
  <2> SUFFICES ASSUME NEW b \in SourceBuilds, NEW c \in SourceBuilds,
                      request'[b] # NoRequest, request'[b] = request'[c],
                      service'[b] = service'[c]
               PROVE  b = c
    BY DEF BuildsOnce
  <2>1. ASSUME NEW x \in SourceBuilds \cap Rows, NEW y \in SourceBuilds \ Rows,
               q # NoRequest, request'[y] = q, service'[y] = service'[x]
        PROVE  FALSE
    <3>1. y \in Stored(Of(x), q)
      BY <1>1, <1>2, <2>1 DEF Stored
    <3> QED BY <1>1, <3>1
  <2>2. CASE b \in Rows /\ c \in Rows
    BY <1>1, <2>2
  <2>3. CASE b \notin Rows /\ c \notin Rows
    BY <1>2, <2>3 DEF BuildsOnce
  <2> QED BY <1>1, <2>1, <2>2, <2>3
<1> QED BY <1>3, <1>4, <1>5, <1>6, <1>7, <1>8

\* The build the loop is at is determined.
LEMMA FirstUnique ==
  ASSUME BuildsTypeOK, NEW b \in batch, NEW c \in batch, First(b), First(c)
  PROVE  b = c
<1>1. b \in Nat /\ c \in Nat /\ b <= c /\ c <= b
  BY BuildsAssumption DEF First, BuildsTypeOK
<1> QED BY <1>1

\* A step of the flush leaves every build with one deployment at most.
LEMMA FlushKeeps ==
  ASSUME IInv, Flush \/ FlushFails, BuildsTypeOK'
  PROVE  IInv'
<1> USE DEF IInv, buildVars, claimVars
<1>1. CASE FlushRead \/ FlushFails
  <2>1. /\ UNCHANGED <<buildVars, storeVars>> /\ flushing' = None
        /\ \A b \in batch' : status[b] = "succeeded"
    BY <1>1, Zenon DEF FlushRead, FlushFails, FlushIdle, Awaiting
  <2> QED BY <2>1 DEF storeVars, CancelledEnds, BatchSucceeded, FlushingBuilt, FreshUnbuilt,
       DeploysSuccess, DeploysOnce, BuildsOnce
<1>2. ASSUME NEW b \in SourceBuilds, FlushFind(b) \/ FlushRefused(b)
      PROVE  IInv'
  <2>1. FlushingBuilt'
    BY <1>2, FirstUnique
    DEF FlushFind, FlushRefused, FlushingBuilt, Deployed, First, BuildsTypeOK, storeVars
  <2> QED BY <1>2, <2>1 DEF FlushFind, FlushRefused, storeVars, CancelledEnds,
     BatchSucceeded, FreshUnbuilt, DeploysSuccess, DeploysOnce, BuildsOnce
<1>3. ASSUME NEW b \in SourceBuilds, NEW r \in Releases, FlushDeploy(b, r)
      PROVE  IInv'
  <2>1. /\ fate[r] = "unknown" /\ builtBy[r] = None
        /\ b \in batch /\ First(b) /\ status[b] = "succeeded" /\ ~cancelled[b]
        /\ Deployed(b) = {}
    BY <1>3 DEF FlushDeploy, First, Store!Accept, FreshUnbuilt, BatchSucceeded, CancelledEnds
  <2>2. /\ builtBy'[r] = b /\ owner'[r] = service[b] /\ fate'[r] = "pending"
        /\ \A x \in Releases : x # r => /\ builtBy'[x] = builtBy[x]
                                        /\ owner'[x] = owner[x]
                                        /\ fate'[x] = fate[x]
    BY <1>3 DEF FlushDeploy, Store!Accept, BuildsTypeOK
  <2>3. flushing' = r /\ batch' = batch
    BY <1>3 DEF FlushDeploy
  <2>4. UNCHANGED buildVars
    BY <1>3 DEF FlushDeploy
  <2>5. FlushingBuilt'
    BY <2>1, <2>2, <2>3, FirstUnique DEF FlushingBuilt, First
  <2>6. FreshUnbuilt'
    BY <2>2 DEF FreshUnbuilt
  <2>7. DeploysSuccess'
    BY <2>1, <2>2, <2>4 DEF DeploysSuccess
  <2>8. DeploysOnce'
    BY <2>1, <2>2, <2>4, BuildsAssumption DEF DeploysOnce, Deployed, BuildsTypeOK
  <2> QED BY <2>3, <2>4, <2>5, <2>6, <2>7, <2>8 DEF CancelledEnds, BatchSucceeded, BuildsOnce
<1>4. ASSUME NEW b \in SourceBuilds, FlushStore(b)
      PROVE  IInv'
  <2>1. builtBy[flushing] = b /\ flushing # None
    BY <1>4 DEF FlushStore, FlushingBuilt, First
  <2>2. DeploysOnce'
    BY <1>4, <2>1 DEF FlushStore, DeploysOnce, BuildsTypeOK, storeVars
  <2> QED BY <1>4, <2>2 DEF FlushStore, storeVars, CancelledEnds, BatchSucceeded,
     FlushingBuilt, FreshUnbuilt, DeploysSuccess, BuildsOnce
<1> QED BY <1>1, <1>2, <1>3, <1>4 DEF Flush, FlushEnqueue, FlushRecord

\* The rest of the deployment store touches neither the builds nor what delivers them.
LEMMA DeployLeaves ==
  ASSUME IInv, Deploy
  PROVE  /\ UNCHANGED <<buildVars, flushVars, builtBy>>
         /\ \A r \in Releases : /\ fate'[r] = "unknown" => fate[r] = "unknown"
                                /\ builtBy[r] # None => owner'[r] = owner[r]
<1> DEFINE Leaves ==
      /\ UNCHANGED <<buildVars, flushVars, builtBy>>
      /\ \A r \in Releases : /\ fate'[r] = "unknown" => fate[r] = "unknown"
                             /\ builtBy[r] # None => owner'[r] = owner[r]
<1> USE DEF IInv
<1>1. ASSUME NEW s \in Services, StartAction(s) \/ FinishAction(s) \/ SaveCronSchedule(s)
      PROVE  Leaves
  BY <1>1 DEF StartAction, FinishAction, SaveCronSchedule
<1>2. ASSUME NEW r \in Releases, Conclude(r) \/ CancelRelease(r)
      PROVE  Leaves
  BY <1>2 DEF Conclude, CancelRelease, Store!GoLive, Store!Drop, Store!Bar, BuildsTypeOK
<1>3. ASSUME NEW s \in Services, NEW r \in Releases, DeployDirectly(s, r)
      PROVE  Leaves
  BY <1>3 DEF DeployDirectly, Store!Accept, FreshUnbuilt, BuildsTypeOK
<1> QED BY <1>1, <1>2, <1>3 DEF Deploy

\* What the deployment store does otherwise concerns no build.
LEMMA DeployKeeps ==
  ASSUME IInv, Deploy, BuildsTypeOK'
  PROVE  IInv'
<1> USE DEF IInv
<1>1. /\ UNCHANGED <<buildVars, flushVars, builtBy>>
      /\ \A r \in Releases : /\ fate'[r] = "unknown" => fate[r] = "unknown"
                             /\ builtBy[r] # None => owner'[r] = owner[r]
  BY DeployLeaves
<1> USE DEF buildVars, claimVars, flushVars
<1>2. CancelledEnds' /\ BatchSucceeded' /\ FlushingBuilt' /\ FreshUnbuilt'
  BY <1>1 DEF CancelledEnds, BatchSucceeded, FlushingBuilt, First, FreshUnbuilt
<1>3. DeploysSuccess' /\ DeploysOnce' /\ BuildsOnce'
  BY <1>1 DEF DeploysSuccess, DeploysOnce, BuildsOnce
<1> QED BY <1>2, <1>3

\* The invariant is preserved by every step.
LEMMA IInvKept ==
  ASSUME IInv, [Next]_vars, BuildsTypeOK'
  PROVE  IInv'
<1>1. CASE Ask
  <2>1. ASSUME NEW s \in Services, NEW b \in SourceBuilds,
               NEW q \in (Requests \ Deliveries) \cup {NoRequest}, Enqueue(s, b, q)
        PROVE  IInv'
    BY <2>1, InsertKeeps DEF Enqueue
  <2>2. ASSUME NEW q \in Deliveries, Push(q)
        PROVE  IInv'
    <3>1. PICK New \in [{s \in AutoDeploy : Stored(s, q) = {}} -> SourceBuilds] :
            InsertBuilds(New, q)
      BY <2>2 DEF Push
    <3> QED BY <3>1, InsertKeeps, BuildsAssumption
  <2> QED BY <1>1, <2>1, <2>2, ReportsSettle, SettledKeeps DEF Ask
<1>2. CASE Work
  BY <1>2, ClaimSettles, ReportsSettle, SettledKeeps DEF Work
<1>3. CASE UNCHANGED vars
  BY <1>3 DEF IInv, vars, buildVars, claimVars, storeVars, flushVars, CancelledEnds,
     BatchSucceeded, FlushingBuilt, First, FreshUnbuilt, DeploysSuccess, DeploysOnce, BuildsOnce
<1> QED BY <1>1, <1>2, <1>3, FlushKeeps, DeployKeeps DEF Next

\* The safety properties of the source builds and what they rest on.
THEOREM BuildsInvariant == Spec => []IInv
<1>1. Init => IInv
  <2> SUFFICES ASSUME Init PROVE IInv
    OBVIOUS
  <2>1. BuildsTypeOK
    BY BuildsAssumption DEF Init, BuildsTypeOK, Store!Init, Store!Fates
  <2> QED BY <2>1 DEF IInv, Init, CancelledEnds, BatchSucceeded, FlushingBuilt, FreshUnbuilt,
       DeploysSuccess, DeploysOnce, BuildsOnce
<1>2. IInv /\ [Next]_vars /\ BuildsTypeOK' => IInv'
  BY IInvKept
<1> QED BY <1>1, <1>2, BuildsTypeCorrect, PTL DEF Spec

\* Only successful, uncancelled builds are deployed, on their own service.
THEOREM DeploysSuccessAlways == Spec => []DeploysSuccess
<1>1. IInv => DeploysSuccess
  BY DEF IInv
<1> QED BY <1>1, BuildsInvariant, PTL

\* A build is deployed once at most, wherever the server crashes.
THEOREM DeploysOnceAlways == Spec => []DeploysOnce
<1>1. IInv => DeploysOnce
  BY DEF IInv
<1> QED BY <1>1, BuildsInvariant, PTL

\* A repeated request or delivery builds a service once.
THEOREM BuildsOnceAlways == Spec => []BuildsOnce
<1>1. IInv => BuildsOnce
  BY DEF IInv
<1> QED BY <1>1, BuildsInvariant, PTL

\* The end of a build and its deployment are final.
THEOREM BuildIsFinalAlways == Spec => BuildIsFinal
<1> DEFINE Kept(b) ==
      /\ status[b] \in {"succeeded", "failed", "cancelled"} => status'[b] = status[b]
      /\ deployment[b] # None => deployment'[b] = deployment[b]
<1>1. IInv /\ [Next]_vars => [\A b \in SourceBuilds : Kept(b)]_vars
  <2> SUFFICES ASSUME IInv, Next, NEW b \in SourceBuilds PROVE Kept(b)
    OBVIOUS
  <2>0. BuildsTypeOK
    BY DEF IInv
  <2>1. RowsSettle => Kept(b)
    BY DEF RowsSettle, Unfinished
  <2>2. ASSUME NEW q, NEW New, InsertBuilds(New, q)
        PROVE  Kept(b)
    BY <2>2 DEF InsertBuilds
  <2>3. CASE Ask
    BY <2>1, <2>2, <2>3, ReportsSettle DEF Ask, Enqueue, Push
  <2>4. CASE Work
    BY <2>1, <2>4, ClaimSettles, ReportsSettle DEF Work
  <2>5. ASSUME NEW c \in SourceBuilds, FlushStore(c)
        PROVE  Kept(b)
    BY <2>0, <2>5 DEF FlushStore, BuildsTypeOK
  <2>6. CASE Flush \/ FlushFails
    BY <2>5, <2>6 DEF Flush, FlushFails, FlushRead, FlushEnqueue, FlushFind, FlushDeploy,
       FlushRefused, FlushRecord, buildVars
  <2>7. CASE Deploy
    BY <2>7 DEF Deploy, StartAction, FinishAction, SaveCronSchedule, Conclude, CancelRelease,
       DeployDirectly, buildVars
  <2> QED BY <2>3, <2>4, <2>6, <2>7 DEF Next
<1> QED BY <1>1, BuildsInvariant, PTL DEF Spec, BuildIsFinal

--------------------------------------------------------------------------------
(* The limit of unfinished builds: a count, so the argument is about finite sets. *)

\* The builds of a service are finitely many, and so their number is one.
LEMMA UnfinishedFinite ==
  ASSUME NEW s \in Services
  PROVE  IsFiniteSet(UnfinishedOf(s)) /\ Cardinality(UnfinishedOf(s)) \in Nat
BY FS_Subset, FS_CardinalityType, BuildsAssumption DEF UnfinishedOf

\* A service that only loses unfinished builds stays within the limit.
LEMMA ShrunkenBounded ==
  ASSUME BuildsBounded, NEW s \in Services, UnfinishedOf(s)' \subseteq UnfinishedOf(s)
  PROVE  Cardinality(UnfinishedOf(s)') <= BuildLimit
<1>1. /\ IsFiniteSet(UnfinishedOf(s)')
      /\ Cardinality(UnfinishedOf(s)') <= Cardinality(UnfinishedOf(s))
  BY UnfinishedFinite, FS_Subset
<1>2. Cardinality(UnfinishedOf(s)') \in Nat
  BY <1>1, FS_CardinalityType
<1> QED BY <1>1, <1>2, UnfinishedFinite, BuildsAssumption DEF BuildsBounded

\* A service with room that gets one build stays within the limit.
LEMMA GrownBounded ==
  ASSUME NEW s \in Services, HasRoom(s), NEW b,
         UnfinishedOf(s)' \subseteq UnfinishedOf(s) \cup {b}
  PROVE  Cardinality(UnfinishedOf(s)') <= BuildLimit
<1> DEFINE Grown == UnfinishedOf(s) \cup {b}
<1>1. /\ IsFiniteSet(Grown)
      /\ \/ Cardinality(Grown) = Cardinality(UnfinishedOf(s))
         \/ Cardinality(Grown) = Cardinality(UnfinishedOf(s)) + 1
  BY UnfinishedFinite, FS_AddElement, Zenon
<1>2. /\ IsFiniteSet(UnfinishedOf(s)')
      /\ Cardinality(UnfinishedOf(s)') <= Cardinality(Grown)
  BY <1>1, FS_Subset
<1>3. Cardinality(Grown) \in Nat /\ Cardinality(UnfinishedOf(s)') \in Nat
  BY <1>1, <1>2, FS_CardinalityType
<1> HIDE DEF Grown
<1> QED BY <1>1, <1>2, <1>3, UnfinishedFinite, BuildsAssumption DEF HasRoom

\* A transaction inserts one build at most for every service, where it found room.
LEMMA InsertBounded ==
  ASSUME BuildsBounded, NEW q, NEW New, InsertBuilds(New, q),
         \A s \in DOMAIN New : HasRoom(s)
  PROVE  BuildsBounded'
<1> DEFINE Rows == {New[s] : s \in DOMAIN New}
           Of(b) == CHOOSE s \in DOMAIN New : New[s] = b
<1> SUFFICES ASSUME NEW s \in Services
             PROVE  Cardinality(UnfinishedOf(s)') <= BuildLimit
  BY DEF BuildsBounded
<1>1. \A b \in SourceBuilds \cap Rows :
        service'[b] = Of(b) /\ Of(b) \in DOMAIN New /\ New[Of(b)] = b
  <2>1. \A b \in Rows : Of(b) \in DOMAIN New /\ New[Of(b)] = b
    OBVIOUS
  <2> QED BY <2>1 DEF InsertBuilds
<1>2. \A b \in SourceBuilds \ Rows :
        status'[b] = status[b] /\ service'[b] = service[b]
  BY DEF InsertBuilds
<1> HIDE DEF Rows, Of
<1>3. CASE s \in DOMAIN New
  <2>1. UnfinishedOf(s)' \subseteq UnfinishedOf(s) \cup {New[s]}
    BY <1>1, <1>2 DEF UnfinishedOf, Unfinished
  <2> QED BY <1>3, <2>1, GrownBounded
<1>4. CASE s \notin DOMAIN New
  <2>1. UnfinishedOf(s)' \subseteq UnfinishedOf(s)
    BY <1>1, <1>2, <1>4 DEF UnfinishedOf, Unfinished
  <2> QED BY <2>1, ShrunkenBounded
<1> QED BY <1>3, <1>4

\* No service has more unfinished builds than the limit, whatever is pushed.
THEOREM BuildsBoundedAlways == Spec => []BuildsBounded
<1>1. Init => BuildsBounded
  <2> SUFFICES ASSUME Init, NEW s \in Services
               PROVE  Cardinality(UnfinishedOf(s)) <= BuildLimit
    BY DEF BuildsBounded
  <2>1. UnfinishedOf(s) = {}
    BY DEF Init, UnfinishedOf, Unfinished
  <2> QED BY <2>1, FS_EmptySet, BuildsAssumption
<1>2. IInv /\ BuildsBounded /\ [Next]_vars => BuildsBounded'
  <2> SUFFICES ASSUME IInv, BuildsBounded, [Next]_vars PROVE BuildsBounded'
    OBVIOUS
  <2> DEFINE Shrinks == \A s \in Services : UnfinishedOf(s)' \subseteq UnfinishedOf(s)
  <2>1. Shrinks => BuildsBounded'
    BY ShrunkenBounded DEF BuildsBounded
  <2>2. RowsSettle => Shrinks
    BY DEF RowsSettle, UnfinishedOf, Unfinished
  <2>3. UNCHANGED <<service, status>> => Shrinks
    BY DEF UnfinishedOf, Unfinished
  <2> HIDE DEF Shrinks
  <2>4. CASE Ask
    <3>1. ASSUME NEW s \in Services, NEW b \in SourceBuilds,
                 NEW q \in (Requests \ Deliveries) \cup {NoRequest}, Enqueue(s, b, q)
          PROVE  BuildsBounded'
      BY <3>1, InsertBounded DEF Enqueue
    <3>2. ASSUME NEW q \in Deliveries, Push(q)
          PROVE  BuildsBounded'
      <4>1. PICK New \in [{s \in AutoDeploy : Stored(s, q) = {}} -> SourceBuilds] :
              InsertBuilds(New, q)
        BY <3>2 DEF Push
      <4>2. \A s \in DOMAIN New : HasRoom(s)
        BY <3>2 DEF Push
      <4> QED BY <4>1, <4>2, InsertBounded
    <3> QED BY <2>1, <2>2, <2>4, <3>1, <3>2, ReportsSettle DEF Ask
  <2>5. CASE Work
    BY <2>1, <2>2, <2>5, ClaimSettles, ReportsSettle DEF Work
  <2>6. CASE Flush \/ FlushFails \/ Deploy \/ UNCHANGED vars
    <3>1. UNCHANGED <<service, status>>
      BY <2>6 DEF Flush, FlushFails, FlushRead, FlushEnqueue, FlushFind, FlushDeploy,
         FlushRefused, FlushRecord, FlushStore, Deploy, StartAction, FinishAction,
         SaveCronSchedule, Conclude, CancelRelease, DeployDirectly, buildVars, vars
    <3> QED BY <2>1, <2>3, <3>1
  <2> QED BY <2>4, <2>5, <2>6 DEF Next
<1> QED BY <1>1, <1>2, BuildsInvariant, PTL DEF Spec

--------------------------------------------------------------------------------
(* The deployment store beside the builds. *)

\* A requested build has a service.
Placed == \A b \in SourceBuilds : status[b] # "none" => service[b] \in Services

\* New rows are queued for services.
LEMMA InsertPlaced ==
  ASSUME Placed, BuildsTypeOK, NEW S \in SUBSET Services, NEW New \in [S -> SourceBuilds],
         NEW q, InsertBuilds(New, q)
  PROVE  Placed'
<1> DEFINE Rows == {New[s] : s \in DOMAIN New}
           Of(b) == CHOOSE s \in DOMAIN New : New[s] = b
<1>1. \A b \in Rows : Of(b) \in Services
  OBVIOUS
<1>2. \A b \in SourceBuilds :
        /\ service'[b] = IF b \in Rows THEN Of(b) ELSE service[b]
        /\ status'[b] = IF b \in Rows THEN "queued" ELSE status[b]
  BY DEF InsertBuilds
<1> HIDE DEF Rows, Of
<1> QED BY <1>1, <1>2 DEF Placed

\* A build that has no status gets one from a request only.
LEMMA PlacedNext == ASSUME IInv, Placed, [Next]_vars PROVE Placed'
<1>1. BuildsTypeOK
  BY DEF IInv
<1>2. CASE UNCHANGED <<service, status>>
  BY <1>2 DEF Placed
<1>3. CASE UNCHANGED service /\ \A b \in SourceBuilds : status'[b] # "none" => status[b] # "none"
  BY <1>3 DEF Placed
<1>4. CASE Ask
  <2>1. ASSUME NEW s \in Services, NEW b \in SourceBuilds, NEW q, Enqueue(s, b, q) PROVE Placed'
    <3>1. [u \in {s} |-> b] \in [{s} -> SourceBuilds] /\ {s} \in SUBSET Services
      OBVIOUS
    <3> QED BY <1>1, <2>1, <3>1, InsertPlaced DEF Enqueue
  <2>2. ASSUME NEW q \in Deliveries, Push(q) PROVE Placed'
    <3> DEFINE S == {s \in AutoDeploy : Stored(s, q) = {}}
    <3>1. S \in SUBSET Services
      BY BuildsAssumption
    <3>2. PICK New \in [S -> SourceBuilds] : InsertBuilds(New, q)
      BY <2>2 DEF Push
    <3> HIDE DEF S
    <3> QED BY <1>1, <3>1, <3>2, InsertPlaced
  <2>3. ASSUME NEW b \in SourceBuilds, Cancel(b) PROVE Placed'
    <3>1. status[b] # "none"
      BY <2>3 DEF Cancel, Cancellable, Unfinished
    <3> QED BY <1>1, <1>3, <2>3, <3>1 DEF Cancel, BuildsTypeOK
  <2> QED BY <1>4, <2>1, <2>2, <2>3 DEF Ask
<1>5. CASE Work
  <2>1. CASE Claim
    BY <1>1, <1>3, <2>1 DEF Claim, StatusAfterExpiry, Expired, Unfinished, Ready, BuildsTypeOK
  <2>2. ASSUME NEW b \in SourceBuilds, NEW t \in 1 .. MaxAttempts,
               NEW outcome \in {"building", "succeeded", "failed", "cancelled"},
               Report(b, t, outcome)
        PROVE  Placed'
    <3>1. status[b] # "none"
      BY <2>2 DEF Report, Accepts, Unfinished
    <3> QED BY <1>1, <1>3, <2>2, <3>1 DEF Report, BuildsTypeOK
  <2> QED BY <1>2, <1>5, <2>1, <2>2 DEF Work, BackoffElapses, DeadlinePasses
<1>6. CASE Flush \/ FlushFails \/ Deploy \/ UNCHANGED vars
  BY <1>2, <1>6 DEF Flush, FlushFails, FlushRead, FlushEnqueue, FlushFind, FlushDeploy,
     FlushRefused, FlushRecord, FlushStore, Deploy, StartAction, FinishAction,
     SaveCronSchedule, Conclude, CancelRelease, DeployDirectly, buildVars, vars
<1> QED BY <1>4, <1>5, <1>6 DEF Next

\* A step of the builds is a step of Release or leaves it alone.
LEMMA StoreSteps ==
  ASSUME IInv, Placed, [Next]_vars PROVE Store!Next \/ UNCHANGED Store!releaseVars
<1>1. CASE UNCHANGED storeVars
  BY <1>1 DEF storeVars, Store!releaseVars
<1>2. CASE Ask
  BY <1>1, <1>2 DEF Ask, Enqueue, Push, InsertBuilds, Cancel
<1>3. CASE Work
  BY <1>1, <1>3 DEF Work, Claim, Report, BackoffElapses, DeadlinePasses
<1>4. CASE Flush \/ FlushFails
  <2>1. ASSUME NEW b \in SourceBuilds, NEW r \in Releases, FlushDeploy(b, r) PROVE Store!Next
    <3>1. b \in batch
      BY <2>1 DEF FlushDeploy, First
    <3>2. service[b] \in Services
      BY <3>1 DEF IInv, BatchSucceeded, Placed
    <3> QED BY <2>1, <3>2 DEF FlushDeploy, Store!Next
  <2> QED BY <1>1, <1>4, <2>1
      DEF Flush, FlushFails, FlushRead, FlushEnqueue, FlushFind, FlushRefused, FlushRecord, FlushStore
<1>5. CASE Deploy
  <2>1. ASSUME NEW r \in Releases, Conclude(r) \/ CancelRelease(r) PROVE Store!Next
    <3>1. {r} \in SUBSET Releases
      OBVIOUS
    <3> QED BY <2>1, <3>1 DEF Conclude, CancelRelease, Store!Next
  <2>2. ASSUME NEW s \in Services, NEW r \in Releases, DeployDirectly(s, r) PROVE Store!Next
    BY <2>2 DEF DeployDirectly, Store!Next
  <2>3. ASSUME NEW s \in Services, StartAction(s) \/ FinishAction(s) \/ SaveCronSchedule(s)
        PROVE  UNCHANGED Store!releaseVars
    BY <2>3 DEF StartAction, FinishAction, SaveCronSchedule, Store!releaseVars
  <2> QED BY <1>5, <2>1, <2>2, <2>3 DEF Deploy
<1>6. CASE UNCHANGED vars
  BY <1>1, <1>6 DEF vars
<1> QED BY <1>2, <1>3, <1>4, <1>5, <1>6 DEF Next

\* The deployments beside the builds live the abstract life of a release, which
\* the queue implements (PromiseKept): Flush, the owner and the agent do nothing
\* to them that Release does not allow.
THEOREM BuildsUseRelease == Spec => Store!Spec
<1>1. Init => Store!Init /\ Placed
  BY DEF Init, Placed
<1>2. IInv /\ Placed /\ [Next]_vars => Placed'
  BY PlacedNext
<1>3. IInv /\ Placed /\ [Next]_vars => [Store!Next]_(Store!releaseVars)
  BY StoreSteps
<1> QED BY <1>1, <1>2, <1>3, BuildsInvariant, PTL DEF Spec, Store!Spec
--------------------------------------------------------------------------------
(* The refinement of Delivery, one lemma for each kind of step.                  *)

lifeBar == [b \in SourceBuilds |-> LifeOf(status[b])]
refusedBar == {b \in SourceBuilds : cancelled[b]}
homeBar == [r \in Releases |-> IF builtBy[r] = None THEN NoService ELSE owner[r]]

MappedUnchanged ==
  /\ lifeBar' = lifeBar /\ refusedBar' = refusedBar /\ homeBar' = homeBar
  /\ UNCHANGED <<service, request, builtBy, deployment>>

\* Where a status is in the life of a build.
LEMMA LifeCases ==
  ASSUME NEW b \in SourceBuilds
  PROVE  /\ status[b] = "none" => lifeBar[b] = "unknown"
         /\ Unfinished(b) => lifeBar[b] = "open"
         /\ status[b] = "succeeded" => lifeBar[b] = "succeeded"
         /\ status[b] \in {"failed", "cancelled"} => lifeBar[b] = "ended"
BY DEF lifeBar, LifeOf, Unfinished

\* A step that leaves the rows alone leaves them where they are in their lives.
LEMMA HomeKept ==
  ASSUME builtBy' = builtBy,
         \A r \in Releases : builtBy[r] # None => owner'[r] = owner[r]
  PROVE  homeBar' = homeBar
BY DEF homeBar

\* Rows inserted for a request are accepted together.
LEMMA InsertMaps ==
  ASSUME IInv, IInv', NEW S \in SUBSET Services, NEW New \in [S -> SourceBuilds],
         NEW q \in Requests \cup {NoRequest}, InsertBuilds(New, q)
  PROVE  Promise!Next
<1> DEFINE Rows == {New[s] : s \in DOMAIN New}
           Of(b) == CHOOSE s \in DOMAIN New : New[s] = b
           place == [b \in Rows |-> Of(b)]
<1>1. \A b \in Rows : Of(b) \in Services
  OBVIOUS
<1>2. Rows \in SUBSET SourceBuilds
  OBVIOUS
<1>3. /\ \A b \in Rows : status[b] = "none"
      /\ service' = [b \in SourceBuilds |-> IF b \in Rows THEN Of(b) ELSE service[b]]
      /\ status' = [b \in SourceBuilds |-> IF b \in Rows THEN "queued" ELSE status[b]]
      /\ request' = [b \in SourceBuilds |-> IF b \in Rows THEN q ELSE request[b]]
      /\ UNCHANGED <<cancelled, deployment, storeVars>>
  BY DEF InsertBuilds
<1> HIDE DEF Rows, Of
<1>4. place \in [Rows -> Services] /\ DOMAIN place = Rows
  BY <1>1
<1>5. \A b \in Rows : lifeBar[b] = "unknown"
  BY <1>2, <1>3, LifeCases
<1>6. lifeBar' = [b \in SourceBuilds |-> IF b \in Rows THEN "open" ELSE lifeBar[b]]
  <2>1. \A b \in SourceBuilds :
          LifeOf(status'[b]) = IF b \in Rows THEN "open" ELSE LifeOf(status[b])
    BY <1>3 DEF LifeOf
  <2> QED BY <2>1 DEF lifeBar
<1>7. service' = [b \in SourceBuilds |-> IF b \in Rows THEN place[b] ELSE service[b]]
  BY <1>3
<1>8. ASSUME q # NoRequest, NEW b \in Rows, NEW c \in SourceBuilds, b # c, request'[c] = q
      PROVE  service'[c] # service'[b]
  BY <1>2, <1>3, <1>8 DEF IInv, BuildsOnce
<1>9. refusedBar' = refusedBar /\ homeBar' = homeBar /\ UNCHANGED <<builtBy, deployment>>
  BY <1>3 DEF refusedBar, homeBar, storeVars
<1> HIDE DEF place
<1>10. Promise!Accept(place, q)
  BY <1>3, <1>4, <1>5, <1>6, <1>7, <1>8, <1>9
  DEF Promise!Accept, lifeBar, refusedBar, homeBar
<1> QED BY <1>2, <1>4, <1>10 DEF Promise!Next

\* A cancellation refuses the build, and ends it when nobody works on it.
LEMMA CancelMaps ==
  ASSUME IInv, NEW b \in SourceBuilds, Cancel(b)
  PROVE  Promise!Refuse(b)
<1>1. BuildsTypeOK /\ Unfinished(b)
  BY DEF IInv, Cancel, Cancellable
<1>2. lifeBar[b] = "open"
  BY <1>1, LifeCases
<1>3. refusedBar' = refusedBar \cup {b}
  BY <1>1 DEF Cancel, refusedBar, BuildsTypeOK
<1>4. \/ status'[b] = status[b]
      \/ status'[b] = "cancelled"
  BY <1>1 DEF Cancel, BuildsTypeOK
<1>5. \A c \in SourceBuilds \ {b} : status'[c] = status[c]
  BY <1>1 DEF Cancel, BuildsTypeOK
<1>6. lifeBar' \in {lifeBar, [lifeBar EXCEPT ![b] = "ended"]}
  <2>1. CASE status'[b] = status[b]
    BY <1>5, <2>1 DEF lifeBar
  <2>2. CASE status'[b] = "cancelled"
    <3>1. LifeOf(status'[b]) = "ended"
      BY <2>2 DEF LifeOf
    <3> QED BY <1>5, <3>1 DEF lifeBar
  <2> QED BY <1>4, <2>1, <2>2
<1>7. homeBar' = homeBar /\ UNCHANGED <<service, request, builtBy, deployment>>
  BY HomeKept DEF Cancel, storeVars
<1> QED BY <1>2, <1>3, <1>6, <1>7 DEF Promise!Refuse, lifeBar, refusedBar, homeBar

\* Builds that end together, without a result.
LEMMA EndMaps ==
  ASSUME NEW B \in SUBSET SourceBuilds, \A b \in B : Unfinished(b),
         \A b \in B : status'[b] \in {"failed", "cancelled"},
         \A b \in SourceBuilds \ B :
           status'[b] = status[b] \/ (Unfinished(b) /\ Unfinished(b)'),
         UNCHANGED <<service, request, cancelled, deployment, storeVars>>
  PROVE  Promise!End(B)
<1>1. \A b \in B : lifeBar[b] = "open"
  BY LifeCases
<1>2. \A b \in SourceBuilds :
        LifeOf(status'[b]) = IF b \in B THEN "ended" ELSE LifeOf(status[b])
  BY DEF LifeOf, Unfinished
<1>3. lifeBar' = [b \in SourceBuilds |-> IF b \in B THEN "ended" ELSE lifeBar[b]]
  BY <1>2 DEF lifeBar
<1>4. refusedBar' = refusedBar /\ homeBar' = homeBar /\ UNCHANGED builtBy
  BY HomeKept DEF refusedBar, storeVars
<1> QED BY <1>1, <1>3, <1>4 DEF Promise!End, lifeBar, refusedBar, homeBar

\* A claim ends what has expired; what it hands out stays open.
LEMMA ClaimMaps ==
  ASSUME IInv, Claim
  PROVE  Promise!End({b \in SourceBuilds : Expired(b)})
<1> DEFINE B == {b \in SourceBuilds : Expired(b)}
<1>1. \A b \in SourceBuilds : Expired(b) => Unfinished(b)
  BY DEF Expired
<1>2. \A b \in SourceBuilds :
        \/ ~Expired(b) /\ StatusAfterExpiry[b] = status[b]
        \/ Expired(b) /\ StatusAfterExpiry[b] \in {"failed", "cancelled"}
  BY DEF StatusAfterExpiry
<1>3. \A b \in SourceBuilds :
        \/ status'[b] = StatusAfterExpiry[b]
        \/ Unfinished(b) /\ ~Expired(b) /\ status'[b] = "building"
  BY ExpiryTyped DEF Claim, Ready, IInv
<1>4. UNCHANGED <<service, request, cancelled, deployment, storeVars>>
  BY DEF Claim
<1>5. \A b \in SourceBuilds : status'[b] = "building" => Unfinished(b)'
  BY DEF Unfinished
<1>6. /\ \A b \in B : Unfinished(b) /\ status'[b] \in {"failed", "cancelled"}
      /\ \A b \in SourceBuilds \ B :
           status'[b] = status[b] \/ (Unfinished(b) /\ Unfinished(b)')
  BY <1>1, <1>2, <1>3, <1>5
<1> HIDE DEF B
<1>7. B \in SUBSET SourceBuilds
  BY DEF B
<1>8. Promise!End(B)
  BY <1>4, <1>6, <1>7, EndMaps
<1> QED BY <1>8 DEF B

\* A report of an open build leaves it open, succeeds unless it was refused, or
\* ends it; no other report is accepted.
LEMMA ReportMaps ==
  ASSUME IInv, NEW b \in SourceBuilds, NEW t \in 1 .. MaxAttempts,
         NEW outcome \in {"building", "succeeded", "failed", "cancelled"},
         Report(b, t, outcome)
  PROVE  Promise!Next \/ MappedUnchanged
<1>1. /\ \A c \in SourceBuilds \ {b} : status'[c] = status[c]
      /\ status'[b] = IF cancelled[b] /\ outcome # "building" THEN "cancelled" ELSE outcome
      /\ UNCHANGED <<service, request, cancelled, deployment, storeVars>>
  BY DEF Report, IInv, BuildsTypeOK
<1>2. ~(cancelled[b] /\ outcome = "succeeded")
  BY DEF Report, Accepts
<1>3. refusedBar' = refusedBar /\ homeBar' = homeBar /\ UNCHANGED builtBy
  BY <1>1, HomeKept DEF refusedBar, storeVars
<1>4. CASE lifeBar' = lifeBar
  BY <1>1, <1>3, <1>4 DEF MappedUnchanged
<1>5. CASE ~Unfinished(b)
  <2>1. status'[b] = status[b]
    BY <1>5, ReportsSettle DEF RowsSettle
  <2> QED BY <1>1, <1>4, <2>1 DEF lifeBar
<1>6. CASE Unfinished(b) /\ outcome = "building"
  <2>1. LifeOf(status[b]) = "open" /\ LifeOf(status'[b]) = "open"
    BY <1>1, <1>6 DEF LifeOf, Unfinished
  <2> QED BY <1>1, <1>4, <2>1 DEF lifeBar
<1>7. CASE Unfinished(b) /\ outcome = "succeeded"
  <2>1. lifeBar[b] = "open" /\ b \notin refusedBar
    BY <1>2, <1>7, LifeCases DEF refusedBar
  <2>2. LifeOf(status'[b]) = "succeeded"
    BY <1>1, <1>2, <1>7 DEF LifeOf
  <2>3. lifeBar' = [lifeBar EXCEPT ![b] = "succeeded"]
    BY <1>1, <2>2 DEF lifeBar
  <2>4. Promise!Succeed(b)
    BY <1>1, <1>3, <2>1, <2>3 DEF Promise!Succeed, lifeBar, refusedBar, homeBar
  <2> QED BY <2>4 DEF Promise!Next
<1>8. CASE Unfinished(b) /\ outcome \in {"failed", "cancelled"}
  <2>1. status'[b] \in {"failed", "cancelled"}
    BY <1>1, <1>8
  <2>2. Promise!End({b})
    BY <1>1, <1>8, <2>1, EndMaps
  <2>3. {b} \in SUBSET SourceBuilds
    OBVIOUS
  <2> QED BY <2>2, <2>3 DEF Promise!Next
<1> QED BY <1>5, <1>6, <1>7, <1>8

\* The deployment the flush requests delivers the build it is at.
LEMMA FlushDeployMaps ==
  ASSUME IInv, NEW b \in SourceBuilds, NEW r \in Releases, FlushDeploy(b, r)
  PROVE  Promise!Deliver(b, r)
<1>1. /\ BuildsTypeOK /\ b \in batch /\ status[b] = "succeeded" /\ ~cancelled[b]
      /\ fate[r] = "unknown" /\ builtBy[r] = None
  BY DEF FlushDeploy, First, Store!Accept, IInv, FreshUnbuilt, BatchSucceeded, CancelledEnds
<1>2. lifeBar[b] = "succeeded" /\ b \notin refusedBar
  BY <1>1, LifeCases DEF refusedBar
<1>3. \A x \in Releases : builtBy[x] # b
  BY DEF FlushDeploy, Deployed
<1>4. /\ builtBy' = [builtBy EXCEPT ![r] = b]
      /\ owner' = [owner EXCEPT ![r] = service[b]]
      /\ UNCHANGED buildVars
  BY DEF FlushDeploy, Store!Accept
<1>5. b # None
  BY BuildsAssumption
<1>6. homeBar' = [homeBar EXCEPT ![r] = service[b]]
  <2>1. \A x \in Releases : (IF builtBy'[x] = None THEN NoService ELSE owner'[x]) =
          IF x = r THEN service[b] ELSE IF builtBy[x] = None THEN NoService ELSE owner[x]
    BY <1>1, <1>4, <1>5 DEF BuildsTypeOK
  <2> QED BY <2>1 DEF homeBar
<1>7. /\ lifeBar' = lifeBar /\ refusedBar' = refusedBar
      /\ UNCHANGED <<service, request, deployment>>
  BY <1>4 DEF buildVars, lifeBar, refusedBar
<1> QED BY <1>1, <1>2, <1>3, <1>4, <1>6, <1>7
    DEF Promise!Deliver, lifeBar, refusedBar, homeBar

\* The deployment the flush stores is the build's, and is stored once.
LEMMA FlushStoreMaps ==
  ASSUME IInv, NEW b \in SourceBuilds, FlushStore(b)
  PROVE  Promise!Next \/ MappedUnchanged
<1>1. BuildsTypeOK /\ flushing \in Releases /\ builtBy[flushing] = b
  BY DEF FlushStore, First, IInv, FlushingBuilt, BuildsTypeOK
<1>2. /\ deployment' = [deployment EXCEPT ![b] = IF @ = None THEN flushing ELSE @]
      /\ UNCHANGED <<service, status, cancelled, request, storeVars>>
  BY DEF FlushStore
<1>3. /\ lifeBar' = lifeBar /\ refusedBar' = refusedBar /\ homeBar' = homeBar
      /\ UNCHANGED builtBy
  BY <1>2, HomeKept DEF lifeBar, refusedBar, storeVars
<1>4. CASE deployment[b] = None
  <2>1. deployment' = [deployment EXCEPT ![b] = flushing]
    BY <1>2, <1>4
  <2>2. Promise!Record(b, flushing)
    BY <1>1, <1>2, <1>3, <1>4, <2>1 DEF Promise!Record, lifeBar, refusedBar, homeBar
  <2> QED BY <1>1, <2>2 DEF Promise!Next
<1>5. CASE deployment[b] # None
  <2>1. deployment' = deployment
    BY <1>1, <1>2, <1>5 DEF BuildsTypeOK
  <2> QED BY <1>2, <1>3, <2>1 DEF MappedUnchanged
<1> QED BY <1>4, <1>5

\* The rest is not about what the builds promise.
LEMMA OthersStutter ==
  ASSUME IInv,
         \/ \E b \in SourceBuilds : BackoffElapses(b) \/ DeadlinePasses(b)
         \/ \E b \in SourceBuilds : FlushFind(b) \/ FlushRefused(b)
         \/ FlushRead \/ FlushFails \/ Deploy
         \/ UNCHANGED vars
  PROVE  MappedUnchanged
<1>1. UNCHANGED <<service, status, request, cancelled, deployment, builtBy>>
  BY DeployLeaves
  DEF BackoffElapses, DeadlinePasses, FlushFind, FlushRefused, FlushRead, FlushFails,
      vars, buildVars, storeVars
<1>2. \A r \in Releases : builtBy[r] # None => owner'[r] = owner[r]
  BY DeployLeaves
  DEF BackoffElapses, DeadlinePasses, FlushFind, FlushRefused, FlushRead, FlushFails,
      vars, storeVars
<1>3. homeBar' = homeBar
  BY <1>1, <1>2, HomeKept
<1>4. lifeBar' = lifeBar /\ refusedBar' = refusedBar
  BY <1>1 DEF lifeBar, refusedBar
<1> QED BY <1>1, <1>3, <1>4 DEF MappedUnchanged

\* The builds implement Delivery: with all their claims, late reports, expiry and
\* rounds of the flush that stop between two statements, they do nothing to a build
\* or its deployment that Delivery does not allow.
THEOREM DeliveryKept == Spec => KeepsDelivery
<1>1. Init => Promise!Init
  BY DEF Init, Promise!Init, LifeOf
<1>2. IInv /\ IInv' /\ [Next]_vars => [Promise!Next]_(Promise!deliveryVars)
  <2> SUFFICES ASSUME IInv, IInv', [Next]_vars
               PROVE  Promise!Next \/ MappedUnchanged
    BY DEF MappedUnchanged, Promise!deliveryVars, lifeBar, refusedBar, homeBar
  <2>1. CASE Ask
    <3>1. ASSUME NEW s \in Services, NEW b \in SourceBuilds,
                 NEW q \in (Requests \ Deliveries) \cup {NoRequest}, Enqueue(s, b, q)
          PROVE  Promise!Next
      <4>1. [u \in {s} |-> b] \in [{s} -> SourceBuilds] /\ {s} \in SUBSET Services
        OBVIOUS
      <4>2. InsertBuilds([u \in {s} |-> b], q)
        BY <3>1 DEF Enqueue
      <4> QED BY <4>1, <4>2, InsertMaps
    <3>2. ASSUME NEW q \in Deliveries, Push(q)
          PROVE  Promise!Next
      <4> DEFINE S == {s \in AutoDeploy : Stored(s, q) = {}}
      <4>1. S \in SUBSET Services /\ q \in Requests
        BY BuildsAssumption
      <4>2. PICK New \in [S -> SourceBuilds] : InsertBuilds(New, q)
        BY <3>2 DEF Push
      <4> HIDE DEF S
      <4> QED BY <4>1, <4>2, InsertMaps
    <3>3. ASSUME NEW b \in SourceBuilds, Cancel(b) PROVE Promise!Next
      BY <3>3, CancelMaps DEF Promise!Next
    <3> QED BY <2>1, <3>1, <3>2, <3>3 DEF Ask
  <2>2. CASE Work
    <3>1. CASE Claim
      <4>1. {b \in SourceBuilds : Expired(b)} \in SUBSET SourceBuilds
        OBVIOUS
      <4> QED BY <3>1, <4>1, ClaimMaps DEF Promise!Next
    <3> QED BY <2>2, <3>1, ReportMaps, OthersStutter DEF Work
  <2>3. CASE Flush \/ FlushFails
    <3>1. ASSUME NEW b \in SourceBuilds, NEW r \in Releases, FlushDeploy(b, r)
          PROVE  Promise!Next
      BY <3>1, FlushDeployMaps DEF Promise!Next
    <3> QED BY <2>3, <3>1, FlushStoreMaps, OthersStutter
        DEF Flush, FlushEnqueue, FlushRecord
  <2> QED BY <2>1, <2>2, <2>3, OthersStutter DEF Next
<1> QED BY <1>1, <1>2, BuildsInvariant, PTL DEF Spec, KeepsDelivery, Promise!Spec
================================================================================
