----------------------------- MODULE RolloutProofs -----------------------------
(***************************************************************************)
(* Proofs about Rollout, for any number of releases, actions, attempts and *)
(* faults.  Every step of the agent is a step of the queue or leaves it    *)
(* alone, so what JobQueueProofs shows holds beside the agent.             *)
(***************************************************************************)
EXTENDS Rollout, JobQueueProofs

--------------------------------------------------------------------------------
(* The inductive invariant: which work each call is made for. *)

Repairs == {"clearRoute", "clearAndHalt", "halt", "revive", "reviveReady", "reviveRoute"}
Idle == {"reconcile", "claim", "cleanup"}
Undoing == {"revivePrevious", "previousReady", "restoreRoute", "checkPrevious",
            "removeCandidate", "reportFailed"}
Advancing == {"start", "checking", "ready", "routing", "switch", "verify", "activate",
              "retire"}
TakingDown == {"takeDown", "stopWriter"}
Rollouts == {"pulling", "prepare", "starting", "dropCandidate"} \cup TakingDown
            \cup Advancing \cup Undoing
ActionLabels == {"quiesce", "actionStop", "actionStart", "actionReady", "actionRoute",
                 "actionVerify", "actionDone", "actionFailed", "actionReportFailed"}

WorkKnown ==
  /\ pc \in Idle \cup Repairs \cup Rollouts \cup ActionLabels
  /\ pc \in Idle \cup Repairs => work.job = NoJob
  /\ pc \in ActionLabels => work.job \in Actions
  /\ pc \in Rollouts => work.job \in Deployments /\ work.previous # work.job

\* The release that is replaced went live, and has been superseded when it is retired.
PreviousKnown ==
  pc \in Rollouts =>
    /\ work.previous # NoJob => status[work.previous] \in {"active", "superseded"}
    /\ pc = "retire" => work.previous # NoJob /\ status[work.previous] = "superseded"
    /\ pc \in TakingDown => Swaps

\* A late report is one of a deployment or an action.
LateKnown ==
  late # NoReport =>
    \/ late.job \in Deployments /\ late.outcome \in {"active", "failed"}
    \/ late.job \in Actions /\ late.outcome \in {"done", "failed"}

\* Which of the two writers is down: the replaced release on the way forward,
\* the candidate on the way back.
WriterDown ==
  volume /\ work.previous # NoJob =>
    /\ pc \in Advancing => container[work.previous] # "running"
    /\ pc \in Undoing => container[work.job] # "running"

RolloutInv == IInv /\ RolloutTypeOK /\ WorkKnown /\ PreviousKnown /\ LateKnown /\ WriterDown

LEMMA RolloutConstants ==
  /\ MaxAttempts \in Nat \ {0} /\ MaxFaults \in Nat
  /\ Jobs = Deployments \cup Actions /\ NoJob \notin Jobs
  /\ Deployments \cap Actions = {}
  /\ Service \in Services /\ \A s \in Services : s = Service
<1>1. PICK u : Services = {u}
  BY RolloutAssumption, FS_Singleton
<1>2. Service \in Services /\ \A s \in Services : s = Service
  BY <1>1 DEF Service
<1> QED BY <1>2, JobsAssumption, LimitsAssumption, RolloutAssumption DEF Jobs

--------------------------------------------------------------------------------
(* Every step is one of the queue. *)

\* A report that is accepted is one of the queue's.
LEMMA AcceptedIsStep ==
  ASSUME NEW j, NEW t \in 0 .. MaxAttempts,
         \/ j \in Deployments /\ \/ ReportActive(j, t)
                                 \/ \E st \in Stages \cup {"failed"} : ReportStage(j, t, st)
         \/ j \in Actions /\ \E st \in {"done", "failed"} : ReportAction(j, t, st)
  PROVE  Next
<1>1. t \in 1 .. MaxAttempts
  BY RolloutConstants
  DEF ReportActive, ReportStage, ReportAction, MayActivate, CheckAttempt
<1> QED BY <1>1 DEF Next, Reports

LEMMA QueueSteps ==
  RolloutTypeOK /\ WorkKnown /\ LateKnown /\ [NextRollout]_<<vars, rolloutVars>> => [Next]_vars
<1> SUFFICES ASSUME RolloutTypeOK, WorkKnown, LateKnown, NextRollout
             PROVE  Next \/ UNCHANGED vars
  OBVIOUS
<1>0. work.token \in 0 .. MaxAttempts /\ late.token \in 0 .. MaxAttempts
  BY DEF RolloutTypeOK
<1>1. CASE Reconcile
  BY <1>1 DEF Reconcile, FetchState, SetRoute, Call, Probe
<1>2. CASE ClaimWork
  BY <1>2 DEF ClaimWork, Received, Next, Claim
<1>3. CASE CleanUp
  BY <1>3 DEF CleanUp
<1>4. CASE Run
  <2>1. ASSUME NEW label \in {"pulling", "starting", "checking", "routing"}, NEW next,
               SendStage(label, next)
        PROVE  Next \/ UNCHANGED vars
    <3>1. work.job \in Deployments /\ label \in Stages
      BY <2>1, RolloutAssumption
      DEF SendStage, Send, WorkKnown, Rollouts, Advancing
    <3> QED BY <1>0, <2>1, <3>1, AcceptedIsStep DEF SendStage, Send
  <2>2. ASSUME NEW ACTION Ok, SendActive("activate", Ok) PROVE Next \/ UNCHANGED vars
    <3>1. work.job \in Deployments
      BY <2>2 DEF SendActive, Send, WorkKnown, Rollouts, Advancing
    <3> QED BY <1>0, <2>2, <3>1, AcceptedIsStep DEF SendActive, Send
  <2> QED BY <1>4, <2>1, <2>2 DEF Run, Call, SetRoute, Probe
<1>5. CASE Fail
  <2>1. CASE SendFailed("reportFailed")
    <3>1. work.job \in Deployments
      BY <2>1 DEF SendFailed, Send, WorkKnown, Rollouts, Undoing
    <3> QED BY <1>0, <2>1, <3>1, AcceptedIsStep DEF SendFailed, Send
  <2> QED BY <1>5, <2>1 DEF Fail, Call, SetRoute, Probe
<1>6. CASE RunAction
  <2>1. ASSUME NEW label, NEW st \in {"done", "failed"}, work.job \in Actions,
               SendAction(label, st)
        PROVE  Next \/ UNCHANGED vars
    BY <1>0, <2>1, AcceptedIsStep DEF SendAction, Send
  <2> QED BY <1>6, <2>1 DEF RunAction, Call, SetRoute, Probe
<1>7. CASE World
  <2>1. CASE Requests \/ Time
    BY <2>1 DEF Time, Next, Clock
  <2>2. CASE LateReport
    BY <1>0, <2>2, AcceptedIsStep, RolloutConstants DEF LateReport, LateKnown
  <2> QED BY <1>7, <2>1, <2>2 DEF World, ContextEnds, Crash
<1> QED BY <1>1, <1>2, <1>3, <1>4, <1>5, <1>6, <1>7 DEF NextRollout, Agent

\* What a step of the queue does to the release that is replaced.
PreviousStays ==
  \A p \in Deployments :
    /\ status[p] \in {"active", "superseded"} => status'[p] \in {"active", "superseded"}
    /\ status[p] = "superseded" => status'[p] = "superseded"

LEMMA QueueKeepsPrevious == ASSUME IInv, [Next]_vars PROVE PreviousStays
BY FinalNext, RolloutConstants DEF PreviousStays, Finished, vars

--------------------------------------------------------------------------------
(* Types. *)

WorkTyped ==
  /\ work' \in [job : Jobs \cup {NoJob}, token : 0 .. MaxAttempts,
                release : Deployments \cup {NoJob}, previous : Deployments \cup {NoJob}]
  /\ ctx' \in {"open", "over", "recovery"}

NodeTyped ==
  /\ container' \in [Deployments -> {"absent", "stopped", "running"}]
  /\ route' \in Deployments \cup {NoJob}

LateTyped ==
  late' \in [job : Jobs \cup {NoJob}, token : 0 .. MaxAttempts,
             outcome : {"none", "active", "failed", "done"}]

FaultsTyped == faults' \in 0 .. MaxFaults

LEMMA FaultsStayTyped ==
  ASSUME RolloutTypeOK,
         Fails \/ UNCHANGED faults \/ (faults < MaxFaults /\ faults' = faults + 1)
  PROVE  FaultsTyped
BY RolloutConstants DEF RolloutTypeOK, Fails, FaultsTyped

LEMMA NodeStaysTyped ==
  ASSUME RolloutTypeOK,
         \/ Nothing
         \/ \E d : Ensure(d) \/ Stop(d) \/ Remove(d)
         \/ \E d \in Deployments \cup {NoJob} : route' = d /\ UNCHANGED container
  PROVE  NodeTyped
BY DEF RolloutTypeOK, Nothing, nodeVars, Ensure, Stop, Remove, Become, NodeTyped

LEMMA RouteStaysTyped ==
  ASSUME RolloutTypeOK, NEW d \in Deployments \cup {NoJob},
         \/ route' = (IF Web THEN d ELSE NoJob) /\ UNCHANGED container
         \/ UNCHANGED nodeVars
  PROVE  NodeTyped
BY NodeStaysTyped DEF Nothing

LEMMA WorkStaysTyped ==
  ASSUME RolloutTypeOK,
         \/ UNCHANGED <<work, ctx>>
         \/ Leave \/ Abort \/ ActionFails
         \/ \E next : Go(next)
  PROVE  WorkTyped
BY RolloutConstants DEF RolloutTypeOK, Leave, Abort, ActionFails, Go, NoWork, WorkTyped

\* What becomes of the work after a call.
Onward == Leave \/ Abort \/ ActionFails \/ \E next : Go(next)

LEMMA CallTyped ==
  ASSUME RolloutTypeOK, NEW label, NEW ACTION Effect, NEW ACTION Ok, NEW ACTION Err,
         Call(label, Effect, Ok, Err),
         Effect => NodeTyped, Ok \/ Err => Onward
  PROVE  FaultsTyped /\ WorkTyped /\ LateTyped /\ NodeTyped
<1>1. FaultsTyped
  BY FaultsStayTyped DEF Call
<1>2. WorkTyped
  BY WorkStaysTyped DEF Call, Onward
<1>3. NodeTyped
  BY NodeStaysTyped DEF Call, Nothing
<1> QED BY <1>1, <1>2, <1>3 DEF Call, RolloutTypeOK, LateTyped

LEMMA SetRouteTyped ==
  ASSUME RolloutTypeOK, NEW label, NEW d \in Deployments \cup {NoJob},
         NEW ACTION Ok, NEW ACTION Err, SetRoute(label, d, Ok, Err),
         Ok \/ Err => Onward
  PROVE  FaultsTyped /\ WorkTyped /\ LateTyped /\ NodeTyped
<1>1. FaultsTyped
  BY FaultsStayTyped DEF SetRoute
<1>2. WorkTyped
  BY WorkStaysTyped DEF SetRoute, Onward
<1>3. NodeTyped
  BY RouteStaysTyped DEF SetRoute
<1> QED BY <1>1, <1>2, <1>3 DEF SetRoute, RolloutTypeOK, LateTyped

LEMMA ProbeTyped ==
  ASSUME RolloutTypeOK, NEW label, NEW d, NEW through, NEW ACTION Ok, NEW ACTION Err,
         Probe(label, d, through, Ok, Err),
         Ok \/ Err => Onward
  PROVE  FaultsTyped /\ WorkTyped /\ LateTyped /\ NodeTyped
<1>1. FaultsTyped
  BY FaultsStayTyped DEF Probe
<1>2. WorkTyped
  BY WorkStaysTyped DEF Probe, Onward
<1>3. NodeTyped
  BY NodeStaysTyped DEF Probe, Nothing
<1> QED BY <1>1, <1>2, <1>3 DEF Probe, RolloutTypeOK, LateTyped

LEMMA SendTyped ==
  ASSUME RolloutTypeOK, NEW label, NEW ACTION Accept, NEW STATE refused, NEW ACTION Ok,
         NEW STATE delayed, Send(label, Accept, refused, Ok, delayed),
         delayed \in [job : Jobs \cup {NoJob}, token : 0 .. MaxAttempts,
                      outcome : {"none", "active", "failed", "done"}],
         Ok => Onward
  PROVE  FaultsTyped /\ WorkTyped /\ LateTyped /\ NodeTyped
<1>1. FaultsTyped
  BY FaultsStayTyped DEF Send
<1>2. WorkTyped
  BY WorkStaysTyped DEF Send, Onward
<1>3. NodeTyped
  BY NodeStaysTyped DEF Send, Nothing
<1>4. LateTyped
  BY DEF Send, RolloutTypeOK, LateTyped
<1> QED BY <1>1, <1>2, <1>3, <1>4

LEMMA OutcomeTyped ==
  ASSUME RolloutTypeOK, NEW outcome \in {"active", "failed", "done"}
  PROVE  Outcome(outcome) \in [job : Jobs \cup {NoJob}, token : 0 .. MaxAttempts,
                               outcome : {"none", "active", "failed", "done"}]
BY DEF RolloutTypeOK, Outcome

LEMMA ReconcileTyped ==
  ASSUME RolloutTypeOK, TypeOK, Reconcile
  PROVE  FaultsTyped /\ WorkTyped /\ LateTyped /\ NodeTyped
<1>0. work.release \in Deployments \cup {NoJob} /\ NoJob \in Deployments \cup {NoJob}
  BY DEF RolloutTypeOK
<1>1. Go("claim") => Onward
  BY DEF Onward
<1>2. \A d : Stop(d) \/ Ensure(d) => NodeTyped
  BY NodeStaysTyped
<1>3. CASE FetchState
  <2>1. FaultsTyped /\ NodeTyped
    BY <1>3, FaultsStayTyped, NodeStaysTyped DEF FetchState, Nothing
  <2>2. WorkTyped /\ LateTyped
    BY <1>3, RolloutConstants DEF FetchState, RolloutTypeOK, TypeOK, NoWork, WorkTyped, LateTyped
  <2> QED BY <2>1, <2>2
<1>4. CASE SetRoute("clearRoute", NoJob, Go("claim"), Go("claim"))
  BY <1>0, <1>1, <1>4, SetRouteTyped
<1>5. CASE SetRoute("clearAndHalt", NoJob, Go("halt"), Go("claim"))
  BY <1>0, <1>5, SetRouteTyped DEF Onward
<1>6. CASE Call("halt", Stop(work.release), Go("claim"), Go("claim"))
  BY <1>1, <1>2, <1>6, CallTyped
<1>7. CASE Call("revive", Ensure(work.release), Go("reviveReady"), Go("claim"))
  BY <1>2, <1>7, CallTyped DEF Onward
<1>8. CASE Probe("reviveReady", work.release, FALSE, Go("reviveRoute"), Go("claim"))
  BY <1>8, ProbeTyped DEF Onward
<1>9. CASE SetRoute("reviveRoute", work.release, Go("claim"), Go("claim"))
  BY <1>0, <1>1, <1>9, SetRouteTyped
<1> QED BY <1>3, <1>4, <1>5, <1>6, <1>7, <1>8, <1>9 DEF Reconcile

LEMMA ClaimTyped ==
  ASSUME RolloutTypeOK, TypeOK, TypeOK', ClaimWork
  PROVE  FaultsTyped /\ WorkTyped /\ LateTyped /\ NodeTyped
<1>1. FaultsTyped /\ NodeTyped /\ LateTyped
  BY FaultsStayTyped, NodeStaysTyped DEF ClaimWork, Nothing, RolloutTypeOK, LateTyped
<1>2. active[Service] \in Deployments \cup {NoJob} /\ Previous \in Deployments \cup {NoJob}
  BY RolloutConstants DEF TypeOK, Previous
<1>3. \A j \in Jobs : attempt'[j] \in 0 .. MaxAttempts
  BY DEF TypeOK
<1>4. NoWork \in [job : Jobs \cup {NoJob}, token : 0 .. MaxAttempts,
                  release : Deployments \cup {NoJob}, previous : Deployments \cup {NoJob}]
  BY RolloutConstants DEF NoWork
<1>5. WorkTyped
  BY <1>2, <1>3, <1>4, RolloutConstants DEF ClaimWork, Received, RolloutTypeOK, WorkTyped
<1> QED BY <1>1, <1>5

LEMMA RunTyped ==
  ASSUME RolloutTypeOK, WorkKnown, Run
  PROVE  FaultsTyped /\ WorkTyped /\ LateTyped /\ NodeTyped
<1> DEFINE d == work.job
           p == work.previous
           Typed == FaultsTyped /\ WorkTyped /\ LateTyped /\ NodeTyped
<1>0. NoJob \in Deployments \cup {NoJob}
  OBVIOUS
<1>1. Leave => Onward
  BY DEF Onward
<1>2. Abort => Onward
  BY DEF Onward
<1>3. \A next : Go(next) => Onward
  BY DEF Onward
<1>4. \A e : Stop(e) \/ Ensure(e) => NodeTyped
  BY NodeStaysTyped
<1>5. Nothing => NodeTyped
  BY NodeStaysTyped
<1>6. ASSUME NEW label, NEW next, SendStage(label, next) PROVE Typed
  BY <1>3, <1>6, SendTyped DEF SendStage, RolloutTypeOK
<1>7. CASE Call("prepare", Nothing, Go("starting"), Abort \/ Leave)
  BY <1>5, <1>7, CallTyped DEF Onward
<1>8. CASE SetRoute("takeDown", NoJob, Go("stopWriter"), Leave)
  BY <1>0, <1>1, <1>3, <1>8, SetRouteTyped
<1>9. CASE Call("stopWriter", Stop(p), Go("start"), Leave)
  BY <1>1, <1>3, <1>4, <1>9, CallTyped
<1>10. CASE Call("start", Ensure(d), Go("checking"), Abort)
  BY <1>2, <1>3, <1>4, <1>10, CallTyped
<1>11. CASE Probe("ready", d, FALSE, Go("routing"), Abort)
  BY <1>11, ProbeTyped DEF Onward
<1>12. CASE SetRoute("switch", d, Go(IF Web THEN "verify" ELSE "activate"), Go(FailStart))
  <2>1. d \in Deployments \cup {NoJob}
    BY <1>12 DEF WorkKnown, Rollouts, Advancing, SetRoute
  <2> QED BY <1>3, <1>12, <2>1, SetRouteTyped
<1>13. CASE Probe("verify", d, TRUE, Go("activate"), Abort)
  BY <1>13, ProbeTyped DEF Onward
<1>14. CASE SendActive("activate", IF p = NoJob THEN Leave ELSE Go("retire"))
  BY <1>1, <1>3, <1>14, SendTyped, OutcomeTyped DEF SendActive
<1>15. CASE Call("retire", Stop(p), Leave, Leave)
  BY <1>1, <1>4, <1>15, CallTyped
<1> QED BY <1>6, <1>7, <1>8, <1>9, <1>10, <1>11, <1>12, <1>13, <1>14, <1>15 DEF Run

LEMMA FailTyped ==
  ASSUME RolloutTypeOK, Fail
  PROVE  FaultsTyped /\ WorkTyped /\ LateTyped /\ NodeTyped
<1> DEFINE d == work.job
           p == work.previous
<1>1. p \in Deployments \cup {NoJob}
  BY DEF RolloutTypeOK
<1>2. \A e : Ensure(e) \/ Remove(e) => NodeTyped
  BY NodeStaysTyped
<1>3. CASE Call("dropCandidate", Remove(d),
                Go(IF p = NoJob THEN "restoreRoute" ELSE "revivePrevious"), Leave)
  BY <1>2, <1>3, CallTyped DEF Onward
<1>4. CASE Call("revivePrevious", Ensure(p), Go("previousReady"), Leave)
  BY <1>2, <1>4, CallTyped DEF Onward
<1>5. CASE Probe("previousReady", p, FALSE, Go("restoreRoute"), Leave)
  BY <1>5, ProbeTyped DEF Onward
<1>6. CASE SetRoute("restoreRoute", p,
                    Go(IF p # NoJob /\ Web THEN "checkPrevious" ELSE "removeCandidate"),
                    Leave)
  BY <1>1, <1>6, SetRouteTyped DEF Onward
<1>7. CASE Probe("checkPrevious", p, TRUE, Go("removeCandidate"), Leave)
  BY <1>7, ProbeTyped DEF Onward
<1>8. CASE Call("removeCandidate", Remove(d), Go("reportFailed"), Leave)
  BY <1>2, <1>8, CallTyped DEF Onward
<1>9. CASE SendFailed("reportFailed")
  BY <1>9, SendTyped, OutcomeTyped DEF SendFailed, Onward
<1> QED BY <1>3, <1>4, <1>5, <1>6, <1>7, <1>8, <1>9 DEF Fail

LEMMA RunActionTyped ==
  ASSUME RolloutTypeOK, RunAction
  PROVE  FaultsTyped /\ WorkTyped /\ LateTyped /\ NodeTyped
<1> DEFINE r == work.release
           k == kind[work.job]
<1>1. r \in Deployments \cup {NoJob} /\ NoJob \in Deployments \cup {NoJob}
  BY DEF RolloutTypeOK
<1>2. \A e : Ensure(e) \/ Stop(e) => NodeTyped
  BY NodeStaysTyped
<1>3. CASE SetRoute("quiesce", NoJob,
                    Go(IF k = "start" THEN "actionStart" ELSE "actionStop"), ActionFails)
  BY <1>1, <1>3, SetRouteTyped DEF Onward
<1>4. CASE Call("actionStop", Stop(r),
                Go(IF k = "stop" THEN "actionDone" ELSE "actionStart"), ActionFails)
  BY <1>2, <1>4, CallTyped DEF Onward
<1>5. CASE Call("actionStart", Ensure(r), Go("actionReady"), ActionFails)
  BY <1>2, <1>5, CallTyped DEF Onward
<1>6. CASE Probe("actionReady", r, FALSE, Go("actionRoute"), ActionFails)
  BY <1>6, ProbeTyped DEF Onward
<1>7. CASE SetRoute("actionRoute", r, Go(IF Web THEN "actionVerify" ELSE "actionDone"),
                    ActionFails)
  BY <1>1, <1>7, SetRouteTyped DEF Onward
<1>8. CASE Probe("actionVerify", r, TRUE, Go("actionDone"), ActionFails)
  BY <1>8, ProbeTyped DEF Onward
<1>9. CASE SetRoute("actionFailed", NoJob, Go("actionReportFailed"),
                    Go("actionReportFailed"))
  BY <1>1, <1>9, SetRouteTyped DEF Onward
<1>10. ASSUME NEW label, NEW outcome \in {"done", "failed"}, SendAction(label, outcome)
       PROVE  FaultsTyped /\ WorkTyped /\ LateTyped /\ NodeTyped
  BY <1>10, SendTyped, OutcomeTyped DEF SendAction, Onward
<1> QED BY <1>3, <1>4, <1>5, <1>6, <1>7, <1>8, <1>9, <1>10 DEF RunAction

LEMMA RolloutTypeNext ==
  ASSUME IInv, IInv', RolloutTypeOK, WorkKnown, [NextRollout]_<<vars, rolloutVars>>
  PROVE  RolloutTypeOK'
<1> DEFINE Typed == FaultsTyped /\ WorkTyped /\ LateTyped /\ NodeTyped
<1>0. TypeOK /\ TypeOK'
  BY DEF IInv
<1>1. CASE UNCHANGED rolloutVars
  BY <1>1 DEF rolloutVars, agentVars, nodeVars, RolloutTypeOK
<1>2. ASSUME volume' = volume, Typed
      PROVE  RolloutTypeOK'
  BY <1>2 DEF RolloutTypeOK, FaultsTyped, WorkTyped, LateTyped, NodeTyped
<1>3. ASSUME CleanUp PROVE Typed
  <2>1. FaultsTyped /\ WorkTyped /\ LateTyped
    BY <1>3, FaultsStayTyped, WorkStaysTyped DEF CleanUp, RolloutTypeOK, LateTyped
  <2>2. NodeTyped
    BY <1>3 DEF CleanUp, RolloutTypeOK, NodeTyped
  <2> QED BY <2>1, <2>2
<1>4. ASSUME Agent PROVE Typed
  BY <1>0, <1>3, <1>4, ReconcileTyped, ClaimTyped, RunTyped, FailTyped, RunActionTyped DEF Agent
<1>5. ASSUME LateReport PROVE Typed
  <2>1. FaultsTyped /\ WorkTyped /\ NodeTyped
    BY <1>5, FaultsStayTyped, WorkStaysTyped, NodeStaysTyped DEF LateReport, agentVars, Nothing
  <2>2. LateTyped
    BY <1>5, RolloutConstants DEF LateReport, NoReport, LateTyped
  <2> QED BY <2>1, <2>2
<1>6. ASSUME ContextEnds PROVE Typed
  <2>1. FaultsTyped /\ NodeTyped
    BY <1>6, FaultsStayTyped, NodeStaysTyped DEF ContextEnds, Nothing
  <2>2. WorkTyped /\ LateTyped
    BY <1>6 DEF ContextEnds, RolloutTypeOK, WorkTyped, LateTyped
  <2> QED BY <2>1, <2>2
<1>7. ASSUME Crash PROVE Typed
  <2>1. FaultsTyped /\ NodeTyped
    BY <1>7, FaultsStayTyped, NodeStaysTyped DEF Crash, Nothing
  <2>2. WorkTyped /\ LateTyped
    BY <1>7, RolloutConstants DEF Crash, NoWork, RolloutTypeOK, WorkTyped, LateTyped
  <2> QED BY <2>1, <2>2
<1> QED BY <1>1, <1>2, <1>4, <1>5, <1>6, <1>7 DEF NextRollout, World, rolloutVars

--------------------------------------------------------------------------------
(* What the agent knows at its next call. *)

Known == WorkKnown /\ PreviousKnown /\ WriterDown

LEMMA NoRolloutKnown ==
  ASSUME \/ pc' \in Idle \cup Repairs /\ work'.job = NoJob
         \/ pc' \in ActionLabels /\ work'.job \in Actions
  PROVE  Known'
BY DEF Known, WorkKnown, PreviousKnown, WriterDown, Idle, Repairs, Rollouts, ActionLabels,
       TakingDown, Advancing, Undoing

\* The agent stays where it is.
LEMMA StandingKnown ==
  ASSUME RolloutTypeOK, Known, PreviousStays, UNCHANGED <<pc, work, container, volume>>
  PROVE  Known'
<1>1. WorkKnown' /\ WriterDown'
  BY DEF Known, WorkKnown, WriterDown
<1>2. PreviousKnown'
  BY DEF RolloutTypeOK, Known, PreviousKnown, PreviousStays, Swaps
<1> QED BY <1>1, <1>2 DEF Known

\* A rollout goes on with one of the two writers down.
LEMMA GoingKnown ==
  ASSUME RolloutTypeOK, Known, PreviousStays, pc \in Rollouts, UNCHANGED volume,
         NEW next \in Rollouts \ TakingDown, Go(next),
         next = "retire" =>
           work.previous # NoJob /\ status'[work.previous] = "superseded",
         volume /\ work.previous # NoJob =>
           /\ next \in Advancing => container'[work.previous] # "running"
           /\ next \in Undoing => container'[work.job] # "running"
  PROVE  Known'
<1>1. WorkKnown'
  BY DEF Known, WorkKnown, Go, Rollouts, Idle, Repairs, ActionLabels, TakingDown, Advancing,
     Undoing
<1>2. WriterDown'
  BY DEF WriterDown, Go
<1>3. PreviousKnown'
  BY DEF RolloutTypeOK, Known, PreviousKnown, PreviousStays, Go
<1> QED BY <1>1, <1>2, <1>3 DEF Known

\* A failing deployment is undone from the start.
LEMMA FailingKnown ==
  ASSUME RolloutTypeOK, Known, PreviousStays, pc \in Rollouts, UNCHANGED volume,
         Leave \/ Abort \/ Go(FailStart)
  PROVE  Known'
<1>1. CASE Go(FailStart)
  <2>1. FailStart \in Rollouts \ TakingDown /\ FailStart # "retire"
        /\ FailStart \notin Advancing /\ (volume => FailStart \notin Undoing)
    BY DEF FailStart, Rollouts, TakingDown, Advancing, Undoing
  <2> QED BY <1>1, <2>1, GoingKnown
<1>2. CASE Leave
  <2>1. CASE pc' = "reconcile" /\ work' = NoWork
    BY <2>1, NoRolloutKnown DEF NoWork, Idle
  <2>2. CASE pc' = FailStart /\ UNCHANGED work
    <3>1. pc' \in Rollouts \ (TakingDown \cup Advancing) /\ pc' # "retire"
          /\ (volume => pc' \notin Undoing)
      BY <2>2 DEF FailStart, Rollouts, TakingDown, Advancing, Undoing
    <3>2. WorkKnown'
      BY <2>2, <3>1 DEF Known, WorkKnown, Rollouts, Idle, Repairs, ActionLabels, TakingDown,
         Advancing, Undoing
    <3>3. PreviousKnown'
      BY <2>2, <3>1 DEF RolloutTypeOK, Known, PreviousKnown, PreviousStays
    <3>4. WriterDown'
      BY <2>2, <3>1 DEF WriterDown
    <3> QED BY <3>2, <3>3, <3>4 DEF Known
  <2> QED BY <1>2, <2>1, <2>2 DEF Leave
<1> QED BY <1>1, <1>2 DEF Abort

LEMMA ReconcileKnown == ASSUME WorkKnown, Reconcile PROVE Known'
<1>1. pc \in Idle \cup Repairs
  BY DEF Reconcile, FetchState, Call, SetRoute, Probe, Idle, Repairs
<1>2. work'.job = NoJob
  BY <1>1 DEF WorkKnown, Reconcile, FetchState, Call, SetRoute, Probe, Go, NoWork
<1>3. pc' \in Idle \cup Repairs
  BY DEF Reconcile, FetchState, Call, SetRoute, Probe, Go, Repair, Idle, Repairs
<1> QED BY <1>2, <1>3, NoRolloutKnown

LEMMA ClaimKnown == ASSUME IInv, PreviousStays, ClaimWork PROVE Known'
<1>1. ASSUME NEW d \in Deployments, ClaimDeployment(d),
             work' = [job |-> d, token |-> attempt'[d], release |-> d, previous |-> Previous],
             pc' = "pulling"
      PROVE  Known'
  <2>1. status[d] \notin {"active", "superseded"}
    BY <1>1 DEF ClaimDeployment, Oldest, Heads, Ready, Pending, Finished
  <2>2. Previous # NoJob => Previous \in Deployments /\ status[Previous] = "active"
    BY RolloutConstants DEF Previous, IInv, OneLive, TypeOK
  <2>3. WorkKnown'
    BY <1>1, <2>1, <2>2, RolloutConstants DEF WorkKnown, Idle, Repairs, Rollouts, ActionLabels,
       TakingDown, Advancing, Undoing
  <2>4. PreviousKnown'
    BY <1>1, <2>2 DEF PreviousKnown, PreviousStays, TakingDown
  <2>5. WriterDown'
    BY <1>1 DEF WriterDown, Advancing, Undoing
  <2> QED BY <2>3, <2>4, <2>5 DEF Known
<1>2. CASE pc' \in {"cleanup", "reconcile"} /\ work' = NoWork
  BY <1>2, NoRolloutKnown DEF Idle, NoWork
<1>3. ASSUME NEW a \in Actions, pc' = "quiesce", work'.job = a PROVE Known'
  BY <1>3, NoRolloutKnown DEF ActionLabels
<1> QED BY <1>1, <1>2, <1>3 DEF ClaimWork, Received

LEMMA RunActionKnown ==
  ASSUME RolloutTypeOK, RunAction PROVE Known'
<1>1. /\ \/ Leave \/ ActionFails
         \/ \E next \in ActionLabels : Go(next)
      /\ work.job \in Actions
  BY DEF RunAction, Call, SetRoute, Probe, SendAction, Send, ActionLabels
<1>2. Leave => pc' \in Idle /\ work'.job = NoJob
  BY <1>1, RolloutConstants DEF Leave, NoWork, Idle
<1>3. ActionFails => Leave \/ Go("actionFailed")
  BY DEF ActionFails
<1> QED BY <1>1, <1>2, <1>3, NoRolloutKnown DEF Go, ActionLabels

\* The replaced writer is being taken down.
LEMMA TakingKnown ==
  ASSUME RolloutTypeOK, Known, PreviousStays, pc \in Rollouts, UNCHANGED volume, Swaps,
         NEW next \in TakingDown, Go(next)
  PROVE  Known'
<1>1. WorkKnown'
  BY DEF Known, WorkKnown, Go, Rollouts, Idle, Repairs, ActionLabels, TakingDown, Advancing,
     Undoing
<1>2. WriterDown'
  BY DEF WriterDown, Go, TakingDown, Advancing, Undoing
<1>3. PreviousKnown'
  BY DEF RolloutTypeOK, Known, PreviousKnown, PreviousStays, Go, TakingDown, Swaps
<1> QED BY <1>1, <1>2, <1>3 DEF Known

\* The activation supersedes the release it replaces.
LEMMA ActivationSupersedes ==
  ASSUME IInv, Known, PreviousStays, pc = "activate", work.previous \in Deployments,
         ReportActive(work.job, work.token)
  PROVE  status'[work.previous] = "superseded"
<1> DEFINE d == work.job
           p == work.previous
<1>1. d \in Deployments /\ p # d /\ p # NoJob /\ status[p] \in {"active", "superseded"}
  BY RolloutConstants DEF Known, WorkKnown, PreviousKnown, Rollouts, Advancing
<1>2. status'[p] = "active" => p # active[owner[d]] /\ status[p] = "active"
  BY <1>1, RolloutConstants DEF ReportActive, Supersede
<1>3. status[d] # "none" /\ status[p] # "none"
  BY <1>1 DEF ReportActive, Pending
<1>4. owner[d] = owner[p]
  BY <1>1, <1>3, RolloutConstants DEF IInv, RowsOwned
<1>5. status[p] = "active" => active[owner[p]] = p
  BY DEF IInv, OneLive
<1> QED BY <1>1, <1>2, <1>4, <1>5 DEF PreviousStays

LEMMA RunKnown ==
  ASSUME IInv, RolloutTypeOK, Known, PreviousStays, UNCHANGED volume, Run PROVE Known'
<1> DEFINE d == work.job
           p == work.previous
<1>0. pc \in Rollouts
  BY DEF Run, SendStage, SendActive, Send, Call, SetRoute, Probe, Rollouts, TakingDown, Advancing
<1>1. /\ d \in Deployments /\ p \in Deployments \cup {NoJob} /\ p # d
      /\ volume /\ p # NoJob /\ pc \in Advancing => container[p] # "running"
  BY <1>0 DEF RolloutTypeOK, Known, WorkKnown, WriterDown
<1>2. CASE Leave \/ Abort \/ Go(FailStart)
  BY <1>0, <1>2, FailingKnown
<1>3. ASSUME NEW next \in {"checking", "ready", "routing", "switch", "verify", "activate"},
             pc \in Advancing, container'[p] = container[p], Go(next)
      PROVE  Known'
  BY <1>0, <1>1, <1>3, GoingKnown DEF Rollouts, TakingDown, Advancing, Undoing
<1>4. ASSUME NEW next \in {"prepare", "starting"}, Go(next) PROVE Known'
  BY <1>0, <1>4, GoingKnown DEF Rollouts, TakingDown, Advancing, Undoing
<1>5. CASE SendStage("pulling", "prepare")
  BY <1>2, <1>4, <1>5 DEF SendStage, Send
<1>6. CASE Call("prepare", Nothing, Go("starting"), Abort \/ Leave)
  BY <1>2, <1>4, <1>6 DEF Call
<1>7. CASE SendStage("starting", IF Swaps THEN "takeDown" ELSE "start")
  <2>1. CASE Swaps /\ Go("takeDown")
    BY <1>0, <2>1, TakingKnown DEF TakingDown
  <2>2. CASE ~Swaps /\ Go("start")
    BY <1>0, <2>2, GoingKnown DEF Swaps, Rollouts, TakingDown, Advancing
  <2> QED BY <1>2, <1>7, <2>1, <2>2 DEF SendStage, Send
<1>8. CASE SetRoute("takeDown", NoJob, Go("stopWriter"), Leave)
  <2>1. Swaps
    BY <1>0, <1>8 DEF SetRoute, Known, PreviousKnown, TakingDown
  <2>2. CASE Go("stopWriter")
    BY <1>0, <2>1, <2>2, TakingKnown DEF TakingDown
  <2> QED BY <1>2, <1>8, <2>2 DEF SetRoute
<1>9. CASE Call("stopWriter", Stop(p), Go("start"), Leave)
  <2>1. CASE Stop(p) /\ Go("start")
    <3>1. p \in Deployments => container'[p] # "running"
      BY <2>1 DEF Stop, Become, RolloutTypeOK
    <3> QED BY <1>0, <1>1, <2>1, <3>1, GoingKnown DEF Rollouts, TakingDown, Advancing, Undoing
  <2> QED BY <1>2, <1>9, <2>1 DEF Call
<1>10. CASE Call("start", Ensure(d), Go("checking"), Abort)
  <2>1. Ensure(d) => container'[p] = container[p]
    BY <1>1 DEF Ensure, Become, RolloutTypeOK
  <2> QED BY <1>2, <1>3, <1>10, <2>1 DEF Call, Advancing
<1>11. CASE SendStage("checking", "ready") \/ SendStage("routing", "switch")
  BY <1>2, <1>3, <1>11 DEF SendStage, Send, nodeVars, Advancing
<1>12. CASE \/ Probe("ready", d, FALSE, Go("routing"), Abort)
            \/ Probe("verify", d, TRUE, Go("activate"), Abort)
  BY <1>2, <1>3, <1>12 DEF Probe, nodeVars, Advancing
<1>13. CASE SetRoute("switch", d, Go(IF Web THEN "verify" ELSE "activate"), Go(FailStart))
  BY <1>2, <1>3, <1>13 DEF SetRoute, nodeVars, Advancing
<1>14. CASE SendActive("activate", IF p = NoJob THEN Leave ELSE Go("retire"))
  <2>1. CASE p # NoJob /\ Go("retire") /\ ReportActive(d, work.token) /\ pc = "activate"
                 /\ UNCHANGED nodeVars
    <3>1. status'[p] = "superseded"
      BY <1>1, <2>1, ActivationSupersedes
    <3> QED BY <1>0, <1>1, <2>1, <3>1, GoingKnown
        DEF nodeVars, Rollouts, TakingDown, Advancing, Undoing
  <2> QED BY <1>2, <1>14, <2>1 DEF SendActive, Send
<1>15. CASE Call("retire", Stop(p), Leave, Leave)
  BY <1>2, <1>15 DEF Call
<1> QED BY <1>5, <1>6, <1>7, <1>8, <1>9, <1>10, <1>11, <1>12, <1>13, <1>14, <1>15 DEF Run

LEMMA FailKnown ==
  ASSUME RolloutTypeOK, Known, PreviousStays, UNCHANGED volume, Fail PROVE Known'
<1> DEFINE d == work.job
           p == work.previous
<1>0. pc \in Rollouts
  BY DEF Fail, SendFailed, Send, Call, SetRoute, Probe, Rollouts, Undoing
<1>1. /\ d \in Deployments /\ p \in Deployments \cup {NoJob} /\ p # d
      /\ volume /\ p # NoJob /\ pc \in Undoing => container[d] # "running"
  BY <1>0 DEF RolloutTypeOK, Known, WorkKnown, WriterDown
<1>2. CASE Leave
  BY <1>0, <1>2, FailingKnown
<1>3. ASSUME NEW next \in Undoing, Go(next),
             volume /\ p # NoJob => container'[d] # "running"
      PROVE  Known'
  BY <1>0, <1>3, GoingKnown DEF Rollouts, TakingDown, Advancing, Undoing
<1>4. Remove(d) => container'[d] # "running"
  BY <1>1 DEF Remove, Become, RolloutTypeOK
<1>5. CASE Call("dropCandidate", Remove(d),
                Go(IF p = NoJob THEN "restoreRoute" ELSE "revivePrevious"), Leave)
  BY <1>2, <1>3, <1>4, <1>5 DEF Call, Undoing
<1>6. CASE Call("revivePrevious", Ensure(p), Go("previousReady"), Leave)
  <2>1. Ensure(p) => container'[d] = container[d]
    BY <1>1 DEF Ensure, Become, RolloutTypeOK
  <2> QED BY <1>1, <1>2, <1>3, <1>6, <2>1 DEF Call, Undoing
<1>7. CASE \/ Probe("previousReady", p, FALSE, Go("restoreRoute"), Leave)
           \/ Probe("checkPrevious", p, TRUE, Go("removeCandidate"), Leave)
  BY <1>1, <1>2, <1>3, <1>7 DEF Probe, nodeVars, Undoing
<1>8. CASE SetRoute("restoreRoute", p,
                    Go(IF p # NoJob /\ Web THEN "checkPrevious" ELSE "removeCandidate"),
                    Leave)
  BY <1>1, <1>2, <1>3, <1>8 DEF SetRoute, nodeVars, Undoing
<1>9. CASE Call("removeCandidate", Remove(d), Go("reportFailed"), Leave)
  BY <1>2, <1>3, <1>4, <1>9 DEF Call, Undoing
<1>10. CASE SendFailed("reportFailed")
  BY <1>2, <1>10 DEF SendFailed, Send
<1> QED BY <1>5, <1>6, <1>7, <1>8, <1>9, <1>10 DEF Fail

LEMMA KnownNext ==
  ASSUME IInv, RolloutTypeOK, Known, PreviousStays, [NextRollout]_<<vars, rolloutVars>>
  PROVE  Known'
<1>1. CASE UNCHANGED <<pc, work, container, volume>>
  BY <1>1, StandingKnown
<1>2. CASE CleanUp
  BY <1>2, NoRolloutKnown DEF CleanUp, Known, WorkKnown, Idle
<1>3. CASE Agent /\ UNCHANGED volume
  BY <1>2, <1>3, ReconcileKnown, ClaimKnown, RunKnown, FailKnown, RunActionKnown
  DEF Agent, Known
<1>4. CASE World /\ UNCHANGED volume
  <2>1. CASE Crash
    BY <2>1, NoRolloutKnown DEF Crash, NoWork, Idle
  <2> QED BY <1>1, <1>4, <2>1 DEF World, LateReport, ContextEnds, rolloutVars, agentVars, nodeVars
<1> QED BY <1>1, <1>3, <1>4 DEF NextRollout, rolloutVars, agentVars, nodeVars

LEMMA LateNext ==
  ASSUME LateKnown, WorkKnown, [NextRollout]_<<vars, rolloutVars>>
  PROVE  LateKnown'
<1>1. CASE UNCHANGED late
  BY <1>1 DEF LateKnown
<1>2. ASSUME NEW outcome \in {"active", "failed"}, pc \in Rollouts, late' = Outcome(outcome)
      PROVE  LateKnown'
  BY <1>2 DEF WorkKnown, LateKnown, Outcome
<1>3. ASSUME NEW outcome \in {"done", "failed"}, work.job \in Actions,
             late' = Outcome(outcome)
      PROVE  LateKnown'
  BY <1>3 DEF LateKnown, Outcome
<1>4. CASE Run
  BY <1>1, <1>2, <1>4 DEF Run, Call, SetRoute, Probe, SendStage, SendActive, Send, Rollouts,
     Advancing
<1>5. CASE Fail
  BY <1>1, <1>2, <1>5 DEF Fail, Call, SetRoute, Probe, SendFailed, Send, Rollouts, Undoing
<1>6. CASE RunAction
  BY <1>1, <1>3, <1>6 DEF RunAction, Call, SetRoute, Probe, SendAction, Send
<1>7. CASE Reconcile \/ ClaimWork \/ CleanUp
  BY <1>1, <1>7 DEF Reconcile, FetchState, Call, SetRoute, Probe, ClaimWork, CleanUp
<1>8. CASE World
  BY <1>1, <1>8 DEF World, LateReport, ContextEnds, Crash, rolloutVars, LateKnown
<1> QED BY <1>1, <1>4, <1>5, <1>6, <1>7, <1>8 DEF NextRollout, Agent, rolloutVars

--------------------------------------------------------------------------------
(* The theorems. *)

LEMMA RolloutInit == InitRollout => RolloutInv
<1> SUFFICES ASSUME InitRollout PROVE RolloutInv
  OBVIOUS
<1>1. IInv
  BY JobsAssumption, ServicesAssumption, LimitsAssumption
  DEF InitRollout, Init, IInv, TypeOK, RowsOwned, OneLive, CancelledNeverServes, WorkExcludes,
      RunsReleased, KeyNamesOne, Pending, Jobs, NoJob, Finished
<1>2. RolloutTypeOK
  BY RolloutConstants DEF InitRollout, RolloutTypeOK, NoWork, NoReport
<1>3. Idle \cap Rollouts = {} /\ "reconcile" \in Idle /\ Idle \cap ActionLabels = {}
  BY DEF Idle, Rollouts, ActionLabels, TakingDown, Advancing, Undoing
<1>4. WorkKnown /\ PreviousKnown /\ LateKnown /\ WriterDown
  BY <1>3 DEF InitRollout, NoWork, WorkKnown, PreviousKnown, LateKnown, WriterDown, Rollouts
<1> QED BY <1>1, <1>2, <1>4 DEF RolloutInv

LEMMA RolloutNext == RolloutInv /\ [NextRollout]_<<vars, rolloutVars>> => RolloutInv'
<1> SUFFICES ASSUME RolloutInv, [NextRollout]_<<vars, rolloutVars>> PROVE RolloutInv'
  OBVIOUS
<1>1. [Next]_vars /\ IInv'
  BY QueueSteps, IInvNext DEF RolloutInv
<1>2. RolloutTypeOK'
  BY <1>1, RolloutTypeNext DEF RolloutInv
<1>3. Known'
  BY <1>1, QueueKeepsPrevious, KnownNext DEF RolloutInv, Known
<1>4. LateKnown'
  BY LateNext DEF RolloutInv
<1> QED BY <1>1, <1>2, <1>3, <1>4 DEF RolloutInv, Known

\* The queue, the agent and the node support one another in every reachable state.
THEOREM RolloutInvariant == SpecRollout => []RolloutInv
BY RolloutInit, RolloutNext, PTL DEF SpecRollout

\* The agent's work, its late reports, the containers and the route have their types.
THEOREM RolloutTypeCorrect == SpecRollout => []RolloutTypeOK
BY RolloutInvariant, PTL DEF RolloutInv

\* The agent beside the queue behaves like any agent the queue allows for: its
\* reports are reports the queue accepts, whatever fails, is lost or comes late.
THEOREM RolloutImplementsQueue == SpecRollout => Spec
<1>1. InitRollout => Init
  BY DEF InitRollout
<1>2. RolloutInv /\ [NextRollout]_<<vars, rolloutVars>> => [Next]_vars
  BY QueueSteps DEF RolloutInv
<1> QED BY <1>1, <1>2, RolloutInvariant, PTL DEF SpecRollout, Spec

\* A cancelled deployment is never served, with the agent's real calls around it.
THEOREM CancelledNeverServesBesideAgent == SpecRollout => []CancelledNeverServes
BY RolloutInvariant, PTL DEF RolloutInv, IInv

\* While an action is unfinished its service's active release stays put.
THEOREM ReleaseHeldBesideAgent == SpecRollout => ReleaseHeld
BY RolloutImplementsQueue, ReleaseHeldAlways, PTL

\* An attempt on a shared volume never runs its candidate and the release it
\* replaces together.
THEOREM WritersSwapAlways == SpecRollout => []WritersSwap
<1>1. RolloutInv => WritersSwap
  <2>1. SwappedLabels = Advancing \cup Undoing /\ SwappedLabels \subseteq Rollouts
    BY DEF SwappedLabels, Advancing, Undoing, Rollouts
  <2> QED BY <2>1 DEF RolloutInv, WriterDown, WritersSwap
<1> QED BY <1>1, RolloutInvariant, PTL

\* Which containers a call may take down.
LEMMA OthersKeepRunning ==
  ASSUME RolloutInv, NextRollout, ~volume, work.job \in Deployments,
         NEW p \in Deployments, p # work.job, status[p] = "active",
         container[p] = "running"
  PROVE  container'[p] = "running"
<1>0. pc \in Rollouts
  BY RolloutConstants DEF RolloutInv, WorkKnown
<1>1. ~(Reconcile \/ ClaimWork \/ CleanUp)
  BY <1>0 DEF Reconcile, FetchState, Call, SetRoute, Probe, ClaimWork, CleanUp, Rollouts,
     TakingDown, Advancing, Undoing
<1>2. ~RunAction
  BY RolloutConstants DEF RunAction
<1>3. CASE UNCHANGED nodeVars \/ UNCHANGED container
  BY <1>3 DEF nodeVars
<1>4. CASE \E e : Ensure(e)
  BY <1>4 DEF Ensure, Become, RolloutInv, RolloutTypeOK
<1>5. CASE Remove(work.job)
  BY <1>5 DEF Remove, Become, RolloutInv, RolloutTypeOK
<1>6. CASE Run
  <2>1. CASE Call("stopWriter", Stop(work.previous), Go("start"), Leave)
    BY <1>0, <2>1 DEF Call, RolloutInv, PreviousKnown, TakingDown, Swaps
  <2>2. CASE Call("retire", Stop(work.previous), Leave, Leave)
    <3>1. p # work.previous
      BY <1>0, <2>2 DEF Call, RolloutInv, PreviousKnown
    <3> QED BY <1>3, <2>2, <3>1 DEF Call, Stop, Become, RolloutInv, RolloutTypeOK
  <2> QED BY <1>3, <1>4, <1>6, <2>1, <2>2
      DEF Run, Call, SetRoute, Probe, SendStage, SendActive, Send, Nothing
<1>7. CASE Fail
  BY <1>3, <1>4, <1>5, <1>7 DEF Fail, Call, SetRoute, Probe, SendFailed, Send
<1>8. CASE World
  BY <1>3, <1>8 DEF World, LateReport, ContextEnds, Crash, rolloutVars
<1> QED BY <1>1, <1>2, <1>6, <1>7, <1>8 DEF NextRollout, Agent

\* Where no volume is shared, a rollout takes no other live release down.
THEOREM PreviousRetainedAlways == SpecRollout => PreviousRetained
<1>1. RolloutInv /\ [NextRollout]_<<vars, rolloutVars>> =>
        [~volume /\ work.job \in Deployments =>
           \A p \in Deployments \ {work.job} :
             status[p] = "active" /\ container[p] = "running" =>
               container'[p] = "running"]_<<vars, rolloutVars>>
  BY OthersKeepRunning
<1> QED BY <1>1, RolloutInvariant, PTL DEF SpecRollout, PreviousRetained

\* The life of a release is kept with the agent's real calls around it.
THEOREM PromiseKeptBesideAgent == SpecRollout => KeepsPromise
BY RolloutImplementsQueue, PromiseKept, PTL

\* No late answer of the agent changes how a job ended.
THEOREM OutcomeIsFinalBesideAgent == SpecRollout => OutcomeIsFinal
BY RolloutImplementsQueue, OutcomeIsFinalAlways, PTL
================================================================================
