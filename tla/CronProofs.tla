------------------------------- MODULE CronProofs -------------------------------
(***************************************************************************)
(* Proofs about CronExecution, for any number of runs, attempts and faults. *)
(* The queue's own properties hold beside the agent, because every step of  *)
(* the agent is a step of the queue or leaves it alone.                     *)
(***************************************************************************)
EXTENDS CronExecution, JobQueueProofs

--------------------------------------------------------------------------------
(* What the agent and the containers know of one another. *)

Ended == {"succeeded", "failed"}
Labels == {"inspect", "create", "start", "watch", "report", "reportFailed", "remove"}

\* Which work and which late reports there are.
WorkTyped ==
  /\ pc \in Labels \cup {"claim", "cleanup"}
  /\ pc \in Labels => work.job \in CronRuns
  /\ late # NoReport => late.job \in CronRuns /\ late.outcome \in Ended

\* A container is created before its command starts, and a command that has
\* started is never forgotten.
BoxesTell ==
  \A r \in CronRuns :
    /\ starts[r] \in {0, 1}
    /\ starts[r] = 0 => exit[r] = "none" /\ box[r] \in {"absent", "created"}
    /\ box[r] = "created" => starts[r] = 0
    /\ box[r] = "running" => exit[r] = "none"

\* An unfinished run without a container has not been executed: the container of
\* one that has is removed when the run has ended.
UnfinishedFresh ==
  \A r \in CronRuns : status[r] \notin Ended /\ box[r] = "absent" => starts[r] = 0

\* What the agent has found out still holds at its next call.
AgentKnows ==
  /\ pc = "inspect" => (box[work.job] = "absent" => starts[work.job] = 0)
  /\ pc \in {"create", "start"} => starts[work.job] = 0
  /\ pc = "remove" => status[work.job] \in Ended

\* A success on its way is one.
LateTrue == late.outcome = "succeeded" => exit[late.job] = "zero"

RunsInv == WorkTyped /\ BoxesTell /\ UnfinishedFresh /\ AgentKnows /\ LateTrue /\ SuccessIsReal

CronInv == IInv /\ CronTypeOK /\ RunsInv

LEMMA CronConstants ==
  /\ MaxAttempts \in Nat \ {0} /\ MaxFaults \in Nat
  /\ CronRuns \subseteq Jobs /\ Jobs \subseteq Nat \ {NoJob} /\ NoJob \notin CronRuns
BY JobsAssumption, LimitsAssumption, CronAssumption DEF Jobs

--------------------------------------------------------------------------------
(* Every step is one of the queue. *)

LEMMA ReportIsStep ==
  ASSUME CronTypeOK, NEW r \in CronRuns, NEW t \in 0 .. MaxAttempts, NEW st \in Ended,
         ReportCronRun(r, t, st)
  PROVE  Next
<1>1. t \in 1 .. MaxAttempts
  BY CronConstants DEF ReportCronRun, CheckAttempt
<1> QED BY <1>1 DEF Next, Reports, Ended

LEMMA QueueSteps == CronTypeOK /\ RunsInv /\ [NextCron]_<<vars, cronVars>> => [Next]_vars
<1> SUFFICES ASSUME CronTypeOK, RunsInv, NextCron PROVE Next \/ UNCHANGED vars
  BY DEF cronVars
<1>1. CASE ClaimWork
  BY <1>1 DEF ClaimWork, Received, Next, Claim
<1>2. CASE RunCron
  <2>1. work.job \in CronRuns /\ work.token \in 0 .. MaxAttempts
    BY <1>2 DEF RunCron, CronTypeOK
  <2>2. ASSUME NEW label, NEW outcome \in Ended, Report(label, outcome)
        PROVE  Next \/ UNCHANGED vars
    BY <2>1, <2>2, ReportIsStep DEF Report
  <2>3. Verdict(work.job) \in Ended /\ "failed" \in Ended
    BY DEF Verdict, Ended
  <2> QED BY <1>2, <2>2, <2>3 DEF RunCron, DockerCall, Remove
<1>3. CASE CleanUp
  BY <1>3 DEF CleanUp
<1>4. CASE World
  <2>1. CASE Requests \/ Time
    BY <2>1 DEF Time, Next, Clock
  <2>2. CASE LateReport
    <3>1. late.job \in CronRuns /\ late.outcome \in Ended /\ late.token \in 0 .. MaxAttempts
      BY <2>2 DEF LateReport, RunsInv, WorkTyped, CronTypeOK
    <3> QED BY <2>2, <3>1, ReportIsStep DEF LateReport
  <2> QED BY <1>4, <2>1, <2>2 DEF World, CommandEnds, FiveMinutesPass, Crash
<1> QED BY <1>1, <1>2, <1>3, <1>4 DEF NextCron, Agent

\* What steps of the queue that are no reports of runs do to runs.
RunsKept ==
  \A r \in CronRuns :
    /\ status[r] \in Ended => status'[r] = status[r]
    /\ status'[r] = "succeeded" => status[r] = "succeeded"

\* Runs that have ended stay ended.
LEMMA EndedStays ==
  ASSUME IInv, [Next]_vars, NEW r \in CronRuns, status[r] \in Ended
  PROVE  status'[r] = status[r]
BY FinalNext, CronConstants DEF Ended, Finished, vars

LEMMA OthersKeepRuns ==
  ASSUME IInv, Requests \/ Claim \/ Clock \/ UNCHANGED vars
  PROVE  RunsKept
<1>1. \A r \in CronRuns : status[r] \in Ended => status'[r] = status[r]
  BY EndedStays DEF Next
<1>2. ASSUME NEW r \in CronRuns, status'[r] = "succeeded" PROVE status[r] = "succeeded"
  <2>1. r \in Jobs /\ status \in [Jobs -> Finished \cup Stages \cup {"none", "queued", "running"}]
    BY CronConstants DEF IInv, TypeOK
  <2>2. StatusAfterExpiry[r] = "succeeded" => status[r] = "succeeded"
    BY <2>1, ExpiryOnlyFails
  <2>3. CASE Requests
    BY <1>2, <2>1, <2>3
    DEF Requests, EnqueueDeployment, EnqueueAction, Insert, Cancel, StatusOnCancel, SaveCronSchedule
  <2>4. CASE Claim
    BY <1>2, <2>1, <2>2, <2>4
    DEF Claim, ClaimAction, ClaimDeployment, ClaimCronRun, StartCronRun, ClaimNothing,
        StatusAfterExpiry
  <2>5. CASE Clock \/ UNCHANGED vars
    BY <1>2, <2>5 DEF Clock, BackoffElapses, DeadlinePasses, CronTick, vars
  <2> QED BY <2>3, <2>4, <2>5
<1> QED BY <1>1, <1>2 DEF RunsKept

--------------------------------------------------------------------------------
(* Steps that leave the containers alone. *)

LEMMA ContainersStay ==
  ASSUME RunsInv, RunsKept, UNCHANGED boxVars
  PROVE  BoxesTell' /\ UnfinishedFresh' /\ SuccessIsReal'
<1>1. UNCHANGED <<box, exit, starts>>
  BY DEF boxVars
<1>2. UnfinishedFresh'
  BY <1>1 DEF RunsInv, UnfinishedFresh, RunsKept
<1>3. SuccessIsReal'
  BY <1>1 DEF RunsInv, SuccessIsReal, RunsKept
<1>4. BoxesTell'
  BY <1>1 DEF RunsInv, BoxesTell
<1> QED BY <1>2, <1>3, <1>4

\* The world's requests and clock, and claims nobody hears the answer of.
LEMMA QueueKeepsRuns ==
  ASSUME CronInv, RunsKept, UNCHANGED <<boxVars, late>>,
         UNCHANGED <<pc, work>> \/ Leave
  PROVE  RunsInv'
<1>1. UNCHANGED <<box, exit, starts>>
  BY DEF boxVars
<1>2. WorkTyped'
  BY DEF CronInv, RunsInv, WorkTyped, Leave, Labels
<1>3. AgentKnows'
  <2>1. CASE Leave
    BY <2>1 DEF Leave, AgentKnows
  <2>2. CASE UNCHANGED <<pc, work>>
    BY <1>1, <2>2 DEF CronInv, RunsInv, WorkTyped, AgentKnows, RunsKept, Labels
  <2> QED BY <2>1, <2>2
<1>4. LateTrue'
  BY <1>1 DEF CronInv, RunsInv, LateTrue
<1> QED BY <1>2, <1>3, <1>4, ContainersStay DEF CronInv, RunsInv

LEMMA ClaimKeepsRuns == ASSUME CronInv, ClaimWork PROVE RunsInv'
<1>1. UNCHANGED <<boxVars, box, exit, starts, late>>
  BY DEF ClaimWork, boxVars
<1>2. RunsKept
  BY OthersKeepRuns DEF ClaimWork, Received, Claim, CronInv
<1>3. ASSUME NEW r \in CronRuns, ClaimCronRun(r) \/ \E s \in Services : StartCronRun(s, r),
             work' = [job |-> r, token |-> attempt'[r]], pc' = "inspect"
      PROVE  RunsInv'
  <2>1. status[r] \notin Ended
    BY <1>3 DEF ClaimCronRun, StartCronRun, Oldest, Ready, Pending, Ended, Finished
  <2>2. work'.job = r /\ (box[r] = "absent" => starts[r] = 0)
    BY <1>3, <2>1 DEF CronInv, RunsInv, UnfinishedFresh
  <2>3. AgentKnows'
    BY <1>1, <1>3, <2>2 DEF AgentKnows
  <2>4. WorkTyped' /\ LateTrue'
    BY <1>1, <1>3, <2>2 DEF CronInv, RunsInv, WorkTyped, LateTrue, Labels
  <2> QED BY <1>1, <1>2, <2>3, <2>4, ContainersStay DEF CronInv, RunsInv
<1>4. CASE pc' = "cleanup"
  <2>1. WorkTyped' /\ AgentKnows' /\ LateTrue'
    BY <1>1, <1>4 DEF CronInv, RunsInv, WorkTyped, AgentKnows, LateTrue, Labels
  <2> QED BY <1>1, <1>2, <2>1, ContainersStay DEF CronInv, RunsInv
<1>5. CASE UNCHANGED <<pc, work>>
  BY <1>1, <1>2, <1>5, QueueKeepsRuns
<1> QED BY <1>3, <1>4, <1>5 DEF ClaimWork, Received

--------------------------------------------------------------------------------
(* The agent's calls. *)

\* After an error the agent returns or reports a failure.
LEMMA ErrorsKnow ==
  ASSUME RunsInv, pc \in Labels, OnError, UNCHANGED late
  PROVE  WorkTyped' /\ AgentKnows'
BY DEF RunsInv, OnError, Leave, Go, WorkTyped, AgentKnows, Labels

LEMMA UnchangedKeepsRuns == ASSUME UNCHANGED vars PROVE RunsKept
BY DEF RunsKept, vars

\* A call that leaves the containers alone: inspect and watch.
LEMMA LookingKeepsRuns ==
  ASSUME CronInv, RunCron, NEW label \in {"inspect", "watch"}, NEW next \in Labels \ {"remove"},
         DockerCall(label, UNCHANGED boxVars, next),
         next = "inspect" => FALSE,
         next \in {"create", "start"} => starts[work.job] = 0
  PROVE  RunsInv'
<1>1. UNCHANGED <<vars, boxVars, box, exit, starts, late>> /\ pc \in Labels
  BY DEF DockerCall, boxVars, Labels
<1>2. WorkTyped' /\ AgentKnows'
  <2>1. CASE Go(next)
    BY <1>1, <2>1 DEF CronInv, RunsInv, Go, WorkTyped, AgentKnows
  <2>2. CASE OnError
    BY <1>1, <2>2, ErrorsKnow DEF CronInv
  <2> QED BY <2>1, <2>2 DEF DockerCall
<1>3. LateTrue'
  BY <1>1 DEF CronInv, RunsInv, LateTrue
<1> QED BY <1>1, <1>2, <1>3, UnchangedKeepsRuns, ContainersStay DEF CronInv, RunsInv

LEMMA CreateKeepsRuns ==
  ASSUME CronInv, RunCron, DockerCall("create", Create(work.job), "start")
  PROVE  RunsInv'
<1>1. PICK r \in CronRuns : r = work.job
  BY DEF RunCron
<1>2. /\ UNCHANGED <<vars, late, status, exit, starts>> /\ pc = "create" /\ pc \in Labels
      /\ starts[r] = 0
  BY <1>1 DEF DockerCall, Create, boxVars, vars, Labels, CronInv, RunsInv, AgentKnows
<1>3. /\ box'[r] \in {box[r], "created"}
      /\ \A q \in CronRuns \ {r} : box'[q] = box[q]
  BY <1>1 DEF DockerCall, Create, Become, boxVars, CronInv, CronTypeOK
<1>4. BoxesTell' /\ UnfinishedFresh' /\ SuccessIsReal'
  BY <1>2, <1>3 DEF CronInv, RunsInv, BoxesTell, UnfinishedFresh, SuccessIsReal
<1>5. WorkTyped' /\ AgentKnows'
  <2>1. CASE Go("start")
    BY <1>1, <1>2, <2>1 DEF CronInv, RunsInv, Go, WorkTyped, AgentKnows, Labels
  <2>2. CASE OnError
    BY <1>2, <2>2, ErrorsKnow DEF CronInv
  <2> QED BY <2>1, <2>2 DEF DockerCall
<1>6. LateTrue'
  BY <1>2 DEF CronInv, RunsInv, LateTrue
<1> QED BY <1>4, <1>5, <1>6 DEF RunsInv

LEMMA StartKeepsRuns ==
  ASSUME CronInv, RunCron, DockerCall("start", Start(work.job), "watch")
  PROVE  RunsInv'
<1>1. PICK r \in CronRuns : r = work.job
  BY DEF RunCron
<1>2. /\ UNCHANGED <<vars, late, status, exit>> /\ pc = "start" /\ pc \in Labels
      /\ starts[r] = 0
  BY <1>1 DEF DockerCall, Start, boxVars, vars, Labels, CronInv, RunsInv, AgentKnows
<1>3. box[r] \in {"absent", "created"} /\ exit[r] = "none"
  BY <1>2 DEF CronInv, RunsInv, BoxesTell
<1>4. /\ \/ box'[r] = box[r] /\ starts'[r] = starts[r]
         \/ box'[r] = "running" /\ starts'[r] = 1
      /\ \A q \in CronRuns \ {r} : box'[q] = box[q] /\ starts'[q] = starts[q]
  BY <1>1, <1>2, <1>3 DEF DockerCall, Start, Become, boxVars, CronInv, CronTypeOK
<1>5. BoxesTell' /\ UnfinishedFresh'
  BY <1>2, <1>3, <1>4 DEF CronInv, RunsInv, BoxesTell, UnfinishedFresh
<1>6. SuccessIsReal'
  <2> SUFFICES ASSUME NEW q \in CronRuns, status[q] = "succeeded"
               PROVE  starts'[q] = 1 /\ exit[q] = "zero"
    BY <1>2 DEF SuccessIsReal
  <2>1. starts[q] = 1 /\ exit[q] = "zero"
    BY DEF CronInv, RunsInv, SuccessIsReal
  <2> QED BY <1>2, <1>4, <2>1
<1>7. WorkTyped' /\ AgentKnows'
  <2>1. CASE Go("watch")
    BY <1>1, <1>2, <2>1 DEF CronInv, RunsInv, Go, WorkTyped, AgentKnows, Labels
  <2>2. CASE OnError
    BY <1>2, <2>2, ErrorsKnow DEF CronInv
  <2> QED BY <2>1, <2>2 DEF DockerCall
<1>8. LateTrue'
  BY <1>2 DEF CronInv, RunsInv, LateTrue
<1> QED BY <1>5, <1>6, <1>7, <1>8 DEF RunsInv

\* A report is accepted.
LEMMA AcceptedKeepsRuns ==
  ASSUME CronInv, NEW r \in CronRuns, NEW t, NEW st \in Ended, ReportCronRun(r, t, st),
         st = "succeeded" => exit[r] = "zero", UNCHANGED boxVars
  PROVE  /\ BoxesTell' /\ UnfinishedFresh' /\ SuccessIsReal'
         /\ status'[r] = st /\ \A q \in CronRuns \ {r} : status'[q] = status[q]
<1>1. /\ status'[r] = st /\ \A q \in CronRuns \ {r} : status'[q] = status[q]
      /\ UNCHANGED <<box, exit, starts>>
  BY CronConstants DEF ReportCronRun, boxVars, CronInv, IInv, TypeOK
<1>2. exit[r] = "zero" => starts[r] = 1
  BY DEF CronInv, RunsInv, BoxesTell
<1>3. SuccessIsReal'
  BY <1>1, <1>2 DEF CronInv, RunsInv, SuccessIsReal
<1>4. BoxesTell' /\ UnfinishedFresh'
  BY <1>1 DEF CronInv, RunsInv, BoxesTell, UnfinishedFresh
<1> QED BY <1>1, <1>3, <1>4

LEMMA ReportKeepsRuns ==
  ASSUME CronInv, RunCron, NEW label \in {"report", "reportFailed"}, NEW st \in Ended,
         st = "succeeded" => exit[work.job] = "zero", Report(label, st)
  PROVE  RunsInv'
<1>1. PICK r \in CronRuns : r = work.job
  BY DEF RunCron
<1>2. UNCHANGED <<boxVars, box, exit, starts>>
  BY DEF Report, boxVars
<1>3. /\ \/ ReportCronRun(r, work.token, st)
         \/ UNCHANGED vars
      /\ BoxesTell' /\ UnfinishedFresh' /\ SuccessIsReal'
  <2>1. ReportCronRun(r, work.token, st) \/ UNCHANGED vars
    BY <1>1 DEF Report
  <2>2. CASE ReportCronRun(r, work.token, st)
    BY <1>1, <1>2, <2>2, AcceptedKeepsRuns
  <2>3. CASE UNCHANGED vars
    BY <1>2, <2>3, UnchangedKeepsRuns, ContainersStay DEF CronInv
  <2> QED BY <2>1, <2>2, <2>3
<1>4. WorkTyped' /\ AgentKnows'
  <2>1. late' = late \/ late' = [job |-> r, token |-> work.token, outcome |-> st]
    BY <1>1 DEF Report
  <2>2. CASE Leave
    BY <2>1, <2>2 DEF Leave, CronInv, RunsInv, WorkTyped, AgentKnows, Labels
  <2>3. CASE Go("remove")
    <3>1. status'[r] \in Ended
      <4>1. CASE ReportCronRun(r, work.token, st)
        BY <1>1, <1>2, <4>1, AcceptedKeepsRuns
      <4>2. CASE status[r] = st /\ UNCHANGED vars
        BY <4>2 DEF vars
      <4> QED BY <1>1, <2>3, <4>1, <4>2 DEF Report, Leave, Go
    <3> QED BY <1>1, <2>1, <2>3, <3>1 DEF Go, CronInv, RunsInv, WorkTyped, AgentKnows, Labels
  <2> QED BY <2>2, <2>3 DEF Report
<1>5. LateTrue'
  BY <1>1, <1>2 DEF Report, CronInv, RunsInv, LateTrue
<1> QED BY <1>3, <1>4, <1>5 DEF RunsInv

\* Containers of runs that have ended are removed.
LEMMA RemovedKeepsRuns ==
  ASSUME CronInv, NEW R \in SUBSET CronRuns, \A r \in R : status[r] \in Ended,
         Removed(R) \/ UNCHANGED boxVars, UNCHANGED <<vars, late>>, Leave
  PROVE  RunsInv'
<1>1. CASE UNCHANGED boxVars
  BY <1>1, QueueKeepsRuns, UnchangedKeepsRuns
<1>2. CASE Removed(R)
  <2>1. /\ UNCHANGED <<starts, status, late>>
        /\ \A r \in CronRuns :
             /\ box'[r] = IF r \in R THEN "absent" ELSE box[r]
             /\ exit'[r] = IF r \in R /\ box[r] = "running" THEN "nonzero" ELSE exit[r]
    BY <1>2 DEF Removed, vars
  <2>2. BoxesTell'
    BY <2>1 DEF CronInv, RunsInv, BoxesTell
  <2>3. UnfinishedFresh'
    BY <2>1 DEF CronInv, RunsInv, UnfinishedFresh
  <2>4. \A r \in CronRuns : exit[r] = "zero" => exit'[r] = "zero"
    BY <2>1 DEF CronInv, RunsInv, BoxesTell
  <2>5. SuccessIsReal'
    BY <2>1, <2>4 DEF CronInv, RunsInv, SuccessIsReal
  <2>6. LateTrue'
    BY <2>1, <2>4 DEF CronInv, RunsInv, LateTrue, WorkTyped, NoReport
  <2>7. WorkTyped' /\ AgentKnows'
    BY <2>1 DEF Leave, CronInv, RunsInv, WorkTyped, AgentKnows, Labels
  <2> QED BY <2>2, <2>3, <2>5, <2>6, <2>7 DEF RunsInv
<1> QED BY <1>1, <1>2

LEMMA RunCronKeepsRuns == ASSUME CronInv, RunCron PROVE RunsInv'
<1>1. PICK r \in CronRuns : r = work.job
  BY DEF RunCron
<1>2. CASE DockerCall("inspect", UNCHANGED boxVars, Found(r))
  <2>1. Found(r) \in Labels \ {"remove", "inspect"}
        /\ (Found(r) \in {"create", "start"} => starts[r] = 0)
    BY <1>1, <1>2 DEF Found, Labels, DockerCall, CronInv, RunsInv, AgentKnows, BoxesTell
  <2> QED BY <1>1, <1>2, <2>1, LookingKeepsRuns
<1>3. CASE DockerCall("watch", UNCHANGED boxVars, "report")
  BY <1>3, LookingKeepsRuns DEF Labels
<1>4. CASE pc = "watch" /\ OnError /\ UNCHANGED <<vars, boxVars, late>>
  <2>1. WorkTyped' /\ AgentKnows'
    BY <1>4, ErrorsKnow DEF CronInv, Labels
  <2>2. LateTrue'
    BY <1>4 DEF CronInv, RunsInv, LateTrue, boxVars
  <2> QED BY <1>4, <2>1, <2>2, UnchangedKeepsRuns, ContainersStay DEF CronInv, RunsInv
<1>5. CASE Report("report", Verdict(r))
  BY <1>1, <1>5, ReportKeepsRuns DEF Verdict, Ended
<1>6. CASE Report("reportFailed", "failed")
  BY <1>6, ReportKeepsRuns DEF Ended
<1>7. CASE Remove
  <2>1. status[r] \in Ended
    BY <1>1, <1>7 DEF Remove, CronInv, RunsInv, AgentKnows
  <2> QED BY <1>1, <1>7, <2>1, RemovedKeepsRuns DEF Remove
<1> QED BY <1>1, <1>2, <1>3, <1>4, <1>5, <1>6, <1>7, CreateKeepsRuns, StartKeepsRuns DEF RunCron

LEMMA WorldKeepsRuns == ASSUME CronInv, World PROVE RunsInv'
<1>1. CASE (Requests \/ Time) /\ UNCHANGED cronVars
  <2>1. RunsKept
    BY <1>1, OthersKeepRuns DEF Time, Clock, CronInv
  <2> QED BY <1>1, <2>1, QueueKeepsRuns DEF cronVars
<1>2. CASE LateReport
  <2>1. /\ late.job \in CronRuns /\ late.outcome \in Ended
        /\ (late.outcome = "succeeded" => exit[late.job] = "zero")
        /\ UNCHANGED <<pc, work, boxVars, box, exit, starts>> /\ late' = NoReport
    BY <1>2 DEF LateReport, CronInv, RunsInv, WorkTyped, LateTrue, boxVars
  <2>2. CASE ReportCronRun(late.job, late.token, late.outcome)
    <3>1. /\ BoxesTell' /\ UnfinishedFresh' /\ SuccessIsReal'
          /\ status'[late.job] \in Ended
          /\ \A q \in CronRuns \ {late.job} : status'[q] = status[q]
      BY <2>1, <2>2, AcceptedKeepsRuns
    <3>2. WorkTyped' /\ AgentKnows' /\ LateTrue'
      BY <2>1, <3>1 DEF CronInv, RunsInv, WorkTyped, AgentKnows, LateTrue, NoReport, Labels
    <3> QED BY <3>1, <3>2 DEF RunsInv
  <2>3. CASE UNCHANGED vars
    <3>1. WorkTyped' /\ AgentKnows' /\ LateTrue'
      BY <2>1, <2>3 DEF CronInv, RunsInv, WorkTyped, AgentKnows, LateTrue, NoReport, vars
    <3> QED BY <2>1, <2>3, <3>1, UnchangedKeepsRuns, ContainersStay DEF CronInv, RunsInv
  <2> QED BY <1>2, <2>2, <2>3 DEF LateReport
<1>3. ASSUME NEW r \in CronRuns, CommandEnds(r) PROVE RunsInv'
  <2>1. /\ UNCHANGED <<status, starts, pc, work, late>>
        /\ box[r] = "running" /\ box'[r] = "exited" /\ exit[r] = "none"
        /\ \A q \in CronRuns \ {r} : box'[q] = box[q] /\ exit'[q] = exit[q]
    BY <1>3 DEF CommandEnds, Become, vars, CronInv, CronTypeOK, RunsInv, BoxesTell
  <2>2. BoxesTell' /\ UnfinishedFresh'
    BY <2>1 DEF CronInv, RunsInv, BoxesTell, UnfinishedFresh
  <2>3. \A q \in CronRuns : exit[q] = "zero" => exit'[q] = "zero"
    BY <2>1
  <2>4. SuccessIsReal' /\ LateTrue'
    BY <2>1, <2>3 DEF CronInv, RunsInv, SuccessIsReal, LateTrue, WorkTyped, NoReport
  <2>5. WorkTyped' /\ AgentKnows'
    BY <2>1 DEF CronInv, RunsInv, WorkTyped, AgentKnows
  <2> QED BY <2>2, <2>4, <2>5 DEF RunsInv
<1>4. CASE FiveMinutesPass
  BY <1>4, QueueKeepsRuns, UnchangedKeepsRuns DEF FiveMinutesPass
<1>5. CASE Crash
  BY <1>5, QueueKeepsRuns, UnchangedKeepsRuns DEF Crash
<1> QED BY <1>1, <1>2, <1>3, <1>4, <1>5 DEF World

LEMMA RunsNext == CronInv /\ [NextCron]_<<vars, cronVars>> => RunsInv'
<1> SUFFICES ASSUME CronInv, [NextCron]_<<vars, cronVars>> PROVE RunsInv'
  OBVIOUS
<1>1. CASE UNCHANGED <<vars, cronVars>>
  BY <1>1, QueueKeepsRuns, UnchangedKeepsRuns DEF cronVars
<1>2. CASE CleanUp
  <2>1. PICK R \in SUBSET Leftovers : Removed(R)
    BY <1>2 DEF CleanUp
  <2>2. R \in SUBSET CronRuns /\ \A r \in R : status[r] \in Ended
    BY <2>1 DEF Leftovers, Ended
  <2> QED BY <1>2, <2>1, <2>2, RemovedKeepsRuns DEF CleanUp
<1> QED BY <1>1, <1>2, ClaimKeepsRuns, RunCronKeepsRuns, WorldKeepsRuns DEF NextCron, Agent

--------------------------------------------------------------------------------
(* Types. *)

Cursor == work' \in [job : Jobs \cup {NoJob}, token : 0 .. MaxAttempts]
          /\ ctx' \in {"open", "over"}

Boxes == /\ box' \in [CronRuns -> {"absent", "created", "running", "exited"}]
         /\ exit' \in [CronRuns -> {"none", "zero", "nonzero"}]
         /\ starts' \in [CronRuns -> 0 .. MaxAttempts]

LateTyped == late' \in [job : CronRuns \cup {NoJob}, token : 0 .. MaxAttempts,
                        outcome : {"none", "succeeded", "failed"}]

FaultsTyped == faults' \in 0 .. MaxFaults

LEMMA FaultsStayTyped == ASSUME CronTypeOK, Fault \/ UNCHANGED faults PROVE FaultsTyped
BY CronConstants DEF CronTypeOK, Fault, FaultsTyped

LEMMA CursorStaysTyped ==
  ASSUME CronTypeOK, NEW next, Leave \/ Go(next) \/ UNCHANGED <<work, ctx>>
  PROVE  Cursor
BY CronConstants DEF CronTypeOK, Leave, Go, NoWork, Cursor

LEMMA ErrorStaysTyped == ASSUME CronTypeOK, OnError PROVE Cursor
BY CursorStaysTyped DEF OnError

LEMMA BoxesStayTyped == ASSUME CronTypeOK, UNCHANGED boxVars PROVE Boxes
BY DEF CronTypeOK, boxVars, Boxes

LEMMA StartStaysTyped ==
  ASSUME CronTypeOK, NEW r \in CronRuns, starts[r] = 0, Start(r)
  PROVE  Boxes
<1>1. starts' \in [CronRuns -> 0 .. MaxAttempts]
  BY CronConstants DEF CronTypeOK, Start
<1> QED BY <1>1 DEF CronTypeOK, Start, Become, Boxes

LEMMA RemovedStaysTyped ==
  ASSUME CronTypeOK, NEW R, Removed(R) PROVE Boxes
BY DEF CronTypeOK, Removed, Boxes

LEMMA RunCronTyped == ASSUME CronTypeOK, RunsInv, RunCron PROVE CronTypeOK'
<1>1. PICK r \in CronRuns : r = work.job
  BY DEF RunCron
<1>2. ASSUME NEW label, NEW Effect, NEW next, DockerCall(label, Effect, next)
      PROVE  FaultsTyped /\ Cursor /\ LateTyped
  <2>1. FaultsTyped
    BY <1>2, FaultsStayTyped DEF DockerCall
  <2>2. Cursor
    BY <1>2, CursorStaysTyped, ErrorStaysTyped DEF DockerCall
  <2>3. LateTyped
    BY <1>2 DEF DockerCall, LateTyped, CronTypeOK
  <2> QED BY <2>1, <2>2, <2>3
<1>3. CASE \E next : DockerCall("inspect", UNCHANGED boxVars, next)
                     \/ DockerCall("watch", UNCHANGED boxVars, next)
  <2>1. UNCHANGED boxVars
    BY <1>3 DEF DockerCall
  <2> QED BY <1>2, <1>3, <2>1, BoxesStayTyped
      DEF CronTypeOK, FaultsTyped, Cursor, LateTyped, Boxes
<1>4. CASE DockerCall("create", Create(r), "start")
  <2>1. Boxes
    BY <1>4 DEF DockerCall, Create, Become, boxVars, CronTypeOK, Boxes
  <2> QED BY <1>2, <1>4, <2>1 DEF CronTypeOK, FaultsTyped, Cursor, LateTyped, Boxes
<1>5. CASE DockerCall("start", Start(r), "watch")
  <2>1. starts[r] = 0 /\ (Start(r) \/ UNCHANGED boxVars)
    BY <1>1, <1>5 DEF DockerCall, RunsInv, AgentKnows
  <2>2. Boxes
    BY <2>1, StartStaysTyped, BoxesStayTyped
  <2> QED BY <1>2, <1>5, <2>2 DEF CronTypeOK, FaultsTyped, Cursor, LateTyped, Boxes
<1>6. CASE /\ OnError /\ UNCHANGED <<vars, boxVars, late>>
           /\ ctx = "over" \/ Fault
           /\ ctx = "over" => UNCHANGED faults
  <2>1. FaultsTyped
    BY <1>6, FaultsStayTyped
  <2> QED BY <1>6, <2>1, ErrorStaysTyped, BoxesStayTyped
      DEF CronTypeOK, FaultsTyped, Cursor, LateTyped, Boxes
<1>7. ASSUME NEW label, NEW st \in Ended, Report(label, st) PROVE CronTypeOK'
  <2>1. FaultsTyped
    BY <1>7, FaultsStayTyped DEF Report
  <2>2. Cursor
    BY <1>7, CursorStaysTyped DEF Report
  <2>3. LateTyped
    BY <1>1, <1>7 DEF Report, CronTypeOK, LateTyped, Ended
  <2>4. Boxes
    BY <1>7, BoxesStayTyped DEF Report
  <2> QED BY <2>1, <2>2, <2>3, <2>4 DEF CronTypeOK, FaultsTyped, Cursor, LateTyped, Boxes
<1>8. CASE Remove
  <2>1. FaultsTyped /\ Cursor
    BY <1>8, FaultsStayTyped, CursorStaysTyped DEF Remove
  <2>2. Boxes
    BY <1>8, RemovedStaysTyped, BoxesStayTyped DEF Remove
  <2>3. LateTyped
    BY <1>8 DEF Remove, CronTypeOK, LateTyped
  <2> QED BY <2>1, <2>2, <2>3 DEF CronTypeOK, FaultsTyped, Cursor, LateTyped, Boxes
<1>9. Verdict(r) \in Ended /\ "failed" \in Ended
  BY DEF Verdict, Ended
<1> QED BY <1>1, <1>3, <1>4, <1>5, <1>6, <1>7, <1>8, <1>9 DEF RunCron

LEMMA CronTypeNext ==
  ASSUME CronInv, TypeOK', [NextCron]_<<vars, cronVars>>
  PROVE  CronTypeOK'
<1>0. CronTypeOK /\ RunsInv
  BY DEF CronInv
<1>1. CASE ClaimWork
  <2>1. FaultsTyped
    BY <1>0, <1>1, FaultsStayTyped DEF ClaimWork
  <2>2. Cursor
    <3>1. ASSUME NEW r \in CronRuns, work' = [job |-> r, token |-> attempt'[r]]
          PROVE  work' \in [job : Jobs \cup {NoJob}, token : 0 .. MaxAttempts]
      <4>1. attempt'[r] \in 0 .. MaxAttempts /\ r \in Jobs
        BY CronConstants DEF TypeOK
      <4> QED BY <3>1, <4>1
    <3>2. NoWork \in [job : Jobs \cup {NoJob}, token : 0 .. MaxAttempts]
      BY CronConstants DEF NoWork
    <3>3. work' \in [job : Jobs \cup {NoJob}, token : 0 .. MaxAttempts]
      BY <1>0, <1>1, <3>1, <3>2 DEF ClaimWork, Received, CronTypeOK
    <3> QED BY <1>0, <1>1, <3>3 DEF ClaimWork, CronTypeOK, Cursor
  <2>3. Boxes /\ LateTyped
    BY <1>0, <1>1, BoxesStayTyped DEF ClaimWork, CronTypeOK, LateTyped
  <2> QED BY <2>1, <2>2, <2>3 DEF CronTypeOK, FaultsTyped, Cursor, LateTyped, Boxes
<1>2. CASE CleanUp
  <2>1. FaultsTyped /\ Cursor
    BY <1>0, <1>2, FaultsStayTyped, CursorStaysTyped DEF CleanUp
  <2>2. Boxes
    BY <1>0, <1>2, RemovedStaysTyped DEF CleanUp
  <2>3. LateTyped
    BY <1>0, <1>2 DEF CleanUp, CronTypeOK, LateTyped
  <2> QED BY <2>1, <2>2, <2>3 DEF CronTypeOK, FaultsTyped, Cursor, LateTyped, Boxes
<1>3. CASE UNCHANGED cronVars
  BY <1>0, <1>3 DEF cronVars, boxVars, CronTypeOK
<1>4. CASE LateReport
  BY <1>0, <1>4, CronConstants DEF LateReport, NoReport, boxVars, CronTypeOK
<1>5. ASSUME NEW r \in CronRuns, CommandEnds(r) PROVE CronTypeOK'
  BY <1>0, <1>5 DEF CommandEnds, Become, CronTypeOK
<1>6. CASE FiveMinutesPass
  BY <1>0, <1>6 DEF FiveMinutesPass, boxVars, CronTypeOK
<1>7. CASE Crash
  <2>1. FaultsTyped /\ Cursor /\ Boxes
    BY <1>0, <1>7, FaultsStayTyped, CursorStaysTyped, BoxesStayTyped DEF Crash
  <2> QED BY <1>0, <1>7, <2>1 DEF Crash, CronTypeOK, FaultsTyped, Cursor, Boxes
<1> QED BY <1>0, <1>1, <1>2, <1>3, <1>4, <1>5, <1>6, <1>7, RunCronTyped
    DEF NextCron, Agent, World, cronVars

--------------------------------------------------------------------------------
(* The theorems. *)

\* The state after the first activation is one the queue can be in.
LEMMA CronInit == InitCron => CronInv
<1> SUFFICES ASSUME InitCron PROVE CronInv
  OBVIOUS
<1>1. PICK u : Services = {u}
  BY CronAssumption, FS_Singleton
<1>2. Deployments = {Release} /\ Release # NoJob
  <2>1. PICK d : Deployments = {d}
    BY CronAssumption, JobsAssumption, FS_Singleton
  <2> QED BY <2>1, JobsAssumption DEF Release, Jobs, NoJob
<1>3. /\ active = [s \in Services |-> Release]
      /\ owner = [j \in Jobs |-> IF j = Release THEN u ELSE NoService]
      /\ u \in Services
  BY <1>1 DEF InitCron
<1>4. TypeOK
  BY <1>2, <1>3, JobsAssumption, LimitsAssumption, CronAssumption
  DEF InitCron, TypeOK, Jobs, Finished
<1>5. RowsOwned /\ OneLive /\ CancelledNeverServes /\ WorkExcludes /\ RunsReleased
      /\ KeyNamesOne
  BY <1>1, <1>2, <1>3, JobsAssumption
  DEF InitCron, RowsOwned, OneLive, CancelledNeverServes, WorkExcludes, RunsReleased,
      KeyNamesOne, Pending, Jobs, Finished
<1>6. CronTypeOK
  BY CronConstants DEF InitCron, CronTypeOK, NoWork, NoReport
<1>7. \A r \in CronRuns : status[r] = "none"
  BY <1>2, JobsAssumption DEF InitCron, Jobs
<1>8. RunsInv
  BY <1>7 DEF InitCron, RunsInv, WorkTyped, BoxesTell, UnfinishedFresh, AgentKnows, LateTrue,
     SuccessIsReal, Labels, NoReport, Ended
<1> QED BY <1>4, <1>5, <1>6, <1>8 DEF CronInv, IInv

LEMMA CronNext == CronInv /\ [NextCron]_<<vars, cronVars>> => CronInv'
<1> SUFFICES ASSUME CronInv, [NextCron]_<<vars, cronVars>> PROVE CronInv'
  OBVIOUS
<1>1. IInv'
  BY QueueSteps, IInvNext DEF CronInv
<1>2. TypeOK'
  BY <1>1 DEF IInv
<1> QED BY <1>1, <1>2, CronTypeNext, RunsNext DEF CronInv

\* The queue and the agent's runs support one another in every reachable state.
THEOREM CronInvariant == SpecCron => []CronInv
BY CronInit, CronNext, PTL DEF SpecCron

\* The agent's work, its late reports and the containers have their types, and a
\* command is started no more often than its run is attempted.
THEOREM CronTypeCorrect == SpecCron => []CronTypeOK
BY CronInvariant, PTL DEF CronInv

\* A run's command is executed at most once, over every retry, crash, lost answer
\* and clean-up.
THEOREM ExecutedOnceAlways == SpecCron => []ExecutedOnce
<1>1. CronInv => ExecutedOnce
  BY DEF CronInv, RunsInv, BoxesTell, ExecutedOnce
<1> QED BY <1>1, CronInvariant, PTL

\* A run recorded as succeeded ran, and its command exited with zero.
THEOREM SuccessIsRealAlways == SpecCron => []SuccessIsReal
BY CronInvariant, PTL DEF CronInv, RunsInv

\* The queue's promises hold beside the agent: work on a service excludes other
\* work, and its runs execute a release that went live.
THEOREM QueueHoldsBesideAgent == SpecCron => [](WorkExcludes /\ RunsReleased /\ OneLive)
BY CronInvariant, PTL DEF CronInv, IInv

\* No late answer of the cron agent changes how a run, or any job, ended.
THEOREM OutcomeIsFinalBesideAgent == SpecCron => OutcomeIsFinal
<1>1. CronInv /\ [NextCron]_<<vars, cronVars>> =>
        [\A j \in Jobs : status[j] \in Finished =>
           \/ status'[j] = status[j]
           \/ status[j] = "active" /\ status'[j] = "superseded"]_vars
  <2> SUFFICES ASSUME CronInv, [NextCron]_<<vars, cronVars>>, ~UNCHANGED vars,
                      NEW j \in Jobs, status[j] \in Finished
               PROVE  \/ status'[j] = status[j]
                      \/ status[j] = "active" /\ status'[j] = "superseded"
    OBVIOUS
  <2>1. IInv /\ Next
    BY QueueSteps DEF CronInv
  <2> QED BY <2>1, FinalNext
<1> QED BY <1>1, CronInvariant, PTL DEF SpecCron, OutcomeIsFinal
================================================================================
