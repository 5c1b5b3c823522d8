-------------------------------- MODULE Rollout --------------------------------
(***************************************************************************)
(* The execution agent working off the queue of one service: cmd/agent's   *)
(* loop and internal/agent's Run, fail, RunAction and Reconcile, against   *)
(* the containers and the route file of the node.                          *)
(*                                                                         *)
(* The agent is one process (a file lock keeps a second one out) and does  *)
(* one call at a time, so each call is one action here, and between two    *)
(* calls anything else may happen: an owner's request, a deadline, a       *)
(* cancellation, the end of the five-minute job context, a crash.  A call  *)
(* that fails may or may not have had its effect.  Crashes, failing calls  *)
(* and contexts that run out are counted and bounded by MaxFaults.         *)
(*                                                                         *)
(* Abstractions.  Pulling the image and the pre-deploy command are one     *)
(* call without effect on the node.  A release that becomes ready once is  *)
(* ready whenever it runs; one in Broken never is.  Containers do not exit *)
(* by themselves.  Data services and their backups are left out.           *)
(***************************************************************************)
EXTENDS JobQueue

CONSTANTS
  Web,       \* the service has a public route
  Volumes,   \* whether its releases mount one volume: the cases to consider
  Broken,    \* releases that never become ready
  MaxFaults  \* bound on failing calls, expired contexts and crashes

ASSUME RolloutAssumption ==
  /\ IsFiniteSet(Services) /\ Cardinality(Services) = 1
  /\ CronServices = {} /\ CronRuns = {}
  /\ {"pulling", "starting", "checking", "routing"} \subseteq Stages
  /\ \A s \in Services : BackupState[s] = "never"
  /\ Web \in BOOLEAN /\ Volumes \subseteq BOOLEAN
  /\ Broken \subseteq Deployments
  /\ MaxFaults \in Nat

VARIABLES
  pc,         \* the call the agent makes next
  work,       \* the claimed work, or what reconciliation was told
  ctx,        \* the context of that work: "open", "over", or "recovery"
  container,  \* each release's container: "absent", "stopped", "running"
  route,      \* the release the route file names, or NoJob
  late,       \* a report the agent gave up on and the server may still get
  volume,     \* the releases mount one volume, chosen once
  faults      \* faults so far

agentVars == <<pc, work, ctx>>
nodeVars == <<container, route>>
rolloutVars == <<agentVars, nodeVars, late, volume, faults>>

Service == CHOOSE s \in Services : TRUE

NoWork == [job |-> NoJob, token |-> 0, release |-> NoJob, previous |-> NoJob]
NoReport == [job |-> NoJob, token |-> 0, outcome |-> "none"]

InitRollout ==
  /\ Init
  /\ pc = "reconcile" /\ work = NoWork /\ ctx = "open"
  /\ container = [d \in Deployments |-> "absent"]
  /\ route = NoJob
  /\ late = NoReport
  /\ volume \in Volumes
  /\ faults = 0

--------------------------------------------------------------------------------
(* Calls and what becomes of the work when one fails. *)

\* Within an expired context every call fails; otherwise a failure is a fault.
Fails ==
  IF ctx = "over" THEN UNCHANGED faults
  ELSE faults < MaxFaults /\ faults' = faults + 1

Go(next) == pc' = next /\ UNCHANGED <<work, ctx>>

\* Where fail begins: a shared volume is freed of the candidate first.
FailStart == IF volume THEN "dropCandidate" ELSE "restoreRoute"

\* The handler returned.  A deployment whose context is over is recovered under
\* a context of its own; everything else waits for the next round of the loop.
Leave ==
  IF ctx = "over" /\ work.job \in Deployments
  THEN pc' = FailStart /\ ctx' = "recovery" /\ UNCHANGED work
  ELSE pc' = "reconcile" /\ ctx' = "open" /\ work' = NoWork

\* if ctx.Err() != nil { return ctx.Err() }; return r.fail(...)
Abort == IF ctx = "over" THEN Leave ELSE Go(FailStart)

\* A call to Docker or to the control plane that reads or changes nodeVars.
Call(label, Effect, Ok, Err) ==
  /\ pc = label
  /\ \/ ctx # "over" /\ Effect /\ Ok /\ UNCHANGED faults
     \/ Fails /\ (Effect \/ UNCHANGED nodeVars) /\ Err
  /\ UNCHANGED <<vars, late>>

Nothing == UNCHANGED nodeVars

Become(d, c) == container' = [container EXCEPT ![d] = c] /\ UNCHANGED route

\* Mutant: Docker's own word for a container that does not run.
StopExited(d) == Become(d, IF container[d] = "absent" THEN "absent" ELSE "exited")

Ensure(d) == Become(d, "running")
Stop(d) == Become(d, IF container[d] = "absent" THEN "absent" ELSE "stopped")
Remove(d) == Become(d, "absent")

\* The route file is written under no context.
SetRoute(label, d, Ok, Err) ==
  /\ pc = label
  /\ LET Written == route' = (IF Web THEN d ELSE NoJob) /\ UNCHANGED container
     IN  \/ Written /\ Ok /\ UNCHANGED faults
         \/ /\ faults < MaxFaults /\ faults' = faults + 1
            /\ Written \/ UNCHANGED nodeVars
            /\ Err
  /\ UNCHANGED <<vars, late>>

Healthy(d) == d \notin Broken /\ container[d] = "running"

\* candidateReady asks the container, check asks it through the proxy.
Probe(label, d, throughProxy, Ok, Err) ==
  LET ready == Healthy(d) /\ (throughProxy => route = d)
  IN  /\ pc = label
      /\ \/ ctx # "over" /\ ready /\ Ok /\ UNCHANGED faults
         \/ ctx # "over" /\ ~ready /\ Err /\ UNCHANGED faults
         \/ Fails /\ Err
      /\ UNCHANGED <<vars, nodeVars, late>>

--------------------------------------------------------------------------------
(* Reports.  Answered, refused, lost on the way there or on the way back, or *)
(* still on its way after the agent gave up.                                 *)

Outcome(outcome) == [job |-> work.job, token |-> work.token, outcome |-> outcome]

Send(label, Accept, refused, Ok, delayed) ==
  /\ pc = label
  /\ \/ ctx # "over" /\ Accept /\ Ok /\ UNCHANGED <<late, faults>>
     \/ ctx # "over" /\ refused /\ Leave /\ UNCHANGED <<vars, late, faults>>
     \/ Fails /\ Leave /\ \/ Accept /\ UNCHANGED late
                          \/ UNCHANGED <<vars, late>>
                          \/ late' = delayed /\ UNCHANGED vars
  /\ UNCHANGED nodeVars

Settled == ~CheckAttempt(work.job, work.token) \/ ~Pending(work.job)

SendStage(label, next) ==
  Send(label, ReportStage(work.job, work.token, label), Settled, Go(next), late)

SendFailed(label) ==
  Send(label, ReportStage(work.job, work.token, "failed"), Settled, Leave,
       Outcome("failed"))

SendActive(label, Ok) ==
  Send(label, ReportActive(work.job, work.token),
       ~MayActivate(work.job, work.token) \/ ~Pending(work.job), Ok,
       Outcome("active"))

SendAction(label, outcome) ==
  Send(label, ReportAction(work.job, work.token, outcome), Settled, Leave,
       Outcome(outcome))

\* The late report arrives, is accepted or refused like any other, or is lost.
LateReport ==
  /\ late # NoReport
  /\ \/ IF late.job \in Actions
        THEN ReportAction(late.job, late.token, late.outcome)
        ELSE IF late.outcome = "active" THEN ReportActive(late.job, late.token)
        ELSE ReportStage(late.job, late.token, late.outcome)
     \/ UNCHANGED vars
  /\ late' = NoReport
  /\ UNCHANGED <<agentVars, nodeVars, faults>>

--------------------------------------------------------------------------------
(* The loop: reconcile, claim, execute, or clean up when there is no work.   *)

Repair ==
  IF active[Service] = NoJob THEN "clearRoute"
  ELSE IF desired[Service] = "stopped" THEN "clearAndHalt"
  ELSE "revive"

\* GET /internal/reconcile: what is told now is acted upon in the next calls.
FetchState ==
  /\ pc = "reconcile"
  /\ \/ /\ pc' = Repair
        /\ work' = [NoWork EXCEPT !.release = active[Service]]
        /\ UNCHANGED faults
     \/ Fails /\ pc' = "claim" /\ UNCHANGED work
  /\ UNCHANGED <<vars, ctx, nodeVars, late>>

Reconcile ==
  LET r == work.release
      Claims == Go("claim")
  IN  \/ FetchState
      \/ SetRoute("clearRoute", NoJob, Claims, Claims)
      \/ SetRoute("clearAndHalt", NoJob, Go("halt"), Claims)
      \/ Call("halt", Stop(r), Claims, Claims)
      \/ Call("revive", Ensure(r), Go("reviveReady"), Claims)
      \/ Probe("reviveReady", r, FALSE, Go("reviveRoute"), Claims)
      \/ SetRoute("reviveRoute", r, Claims, Claims)

\* Previous is the active release unless the service is stopped.
Previous == IF desired[Service] = "stopped" THEN NoJob ELSE active[Service]

Received ==
  \/ \E a \in Actions :
       /\ ClaimAction(a)
       /\ work' = [job |-> a, token |-> attempt'[a], release |-> active[Service],
                   previous |-> NoJob]
       /\ pc' = "quiesce"
  \/ \E d \in Deployments :
       /\ ClaimDeployment(d)
       /\ work' = [job |-> d, token |-> attempt'[d], release |-> d,
                   previous |-> Previous]
       /\ pc' = "pulling"
  \/ ClaimNothing /\ work' = NoWork /\ pc' = "cleanup"

ClaimWork ==
  /\ pc = "claim"
  /\ \/ Received /\ UNCHANGED faults
     \/ Fails /\ (Claim \/ UNCHANGED vars) /\ work' = NoWork /\ pc' = "reconcile"
  /\ UNCHANGED <<ctx, nodeVars, late>>

\* Mutant: forgets the candidates of deployments that failed.
LeftoversSuperseded == {d \in Deployments :
                          status[d] = "superseded" /\ container[d] # "absent"}

Leftovers == {d \in Deployments :
                status[d] \in {"superseded", "failed"} /\ container[d] # "absent"}

\* A removal that fails is tried again the next time the agent is idle.
CleanUp ==
  /\ pc = "cleanup"
  /\ \E R \in SUBSET Leftovers :
       /\ IF R = Leftovers THEN UNCHANGED faults ELSE Fails
       /\ container' = [d \in Deployments |-> IF d \in R THEN "absent" ELSE container[d]]
  /\ pc' = "reconcile"
  /\ UNCHANGED <<vars, work, ctx, route, late>>

--------------------------------------------------------------------------------
(* Deploying: Run. *)

\* Mutant: a replacement does not wait for the old writer.
SwapsNever == FALSE

\* Mutant: stops the previous release even where nothing is shared.
SwapsAlways == work.previous # NoJob

\* Two releases must not write to one volume: the old one is stopped first.
Swaps == volume /\ work.previous # NoJob

Run ==
  LET d == work.job
      p == work.previous
  IN  \/ SendStage("pulling", "prepare")
      \/ Call("prepare", Nothing, Go("starting"), Abort \/ Leave)
      \/ SendStage("starting", IF Swaps THEN "takeDown" ELSE "start")
      \/ SetRoute("takeDown", NoJob, Go("stopWriter"), Leave)
      \/ Call("stopWriter", Stop(p), Go("start"), Leave)
      \/ Call("start", Ensure(d), Go("checking"), Abort)
      \/ SendStage("checking", "ready")
      \/ Probe("ready", d, FALSE, Go("routing"), Abort)
      \/ SendStage("routing", "switch")
      \/ SetRoute("switch", d, Go(IF Web THEN "verify" ELSE "activate"), Go(FailStart))
      \/ Probe("verify", d, TRUE, Go("activate"), Abort)
      \/ SendActive("activate", IF p = NoJob THEN Leave ELSE Go("retire"))
      \/ Call("retire", Stop(p), Leave, Leave)

(* Undoing a deployment: fail, from Run or from RecoverCancellation. *)

Fail ==
  LET d == work.job
      p == work.previous
  IN  \/ Call("dropCandidate", Remove(d),
              Go(IF p = NoJob THEN "restoreRoute" ELSE "revivePrevious"), Leave)
      \/ Call("revivePrevious", Ensure(p), Go("previousReady"), Leave)
      \/ Probe("previousReady", p, FALSE, Go("restoreRoute"), Leave)
      \/ SetRoute("restoreRoute", p,
                  Go(IF p # NoJob /\ Web THEN "checkPrevious" ELSE "removeCandidate"),
                  Leave)
      \/ Probe("checkPrevious", p, TRUE, Go("removeCandidate"), Leave)
      \/ Call("removeCandidate", Remove(d), Go("reportFailed"), Leave)
      \/ SendFailed("reportFailed")

(* Start, stop and restart: RunAction. *)

ActionFails == IF ctx = "over" THEN Leave ELSE Go("actionFailed")

RunAction ==
  LET r == work.release
      k == kind[work.job]
  IN  /\ work.job \in Actions
      /\ \/ SetRoute("quiesce", NoJob, Go(IF k = "start" THEN "actionStart" ELSE "actionStop"),
                     ActionFails)
         \/ Call("actionStop", Stop(r), Go(IF k = "stop" THEN "actionDone" ELSE "actionStart"),
                 ActionFails)
         \/ Call("actionStart", Ensure(r), Go("actionReady"), ActionFails)
         \/ Probe("actionReady", r, FALSE, Go("actionRoute"), ActionFails)
         \/ SetRoute("actionRoute", r, Go(IF Web THEN "actionVerify" ELSE "actionDone"),
                     ActionFails)
         \/ Probe("actionVerify", r, TRUE, Go("actionDone"), ActionFails)
         \/ SendAction("actionDone", "done")
         \/ SetRoute("actionFailed", NoJob, Go("actionReportFailed"), Go("actionReportFailed"))
         \/ SendAction("actionReportFailed", "failed")

--------------------------------------------------------------------------------
(* The world around the agent. *)

\* The job's five minutes are up, or the watcher saw the cancellation.
ContextEnds ==
  /\ ctx = "open" /\ work.job # NoJob
  /\ \/ work.job \in Deployments /\ cancelled[work.job] /\ UNCHANGED faults
     \/ Fails
  /\ ctx' = "over"
  /\ UNCHANGED <<vars, pc, work, nodeVars, late>>

Crash ==
  /\ faults < MaxFaults /\ faults' = faults + 1
  /\ pc' = "reconcile" /\ work' = NoWork /\ ctx' = "open"
  /\ UNCHANGED <<vars, nodeVars, late>>

Agent == Reconcile \/ ClaimWork \/ CleanUp \/ Run \/ Fail \/ RunAction

\* A first attempt, with its recovery five and a half minutes at most, is over
\* before the job's ten-minute deadline.
Time ==
  \E j \in Jobs :
    \/ BackoffElapses(j)
    \/ DeadlinePasses(j) /\ ~(work.job = j /\ attempt[j] = 1)

World ==
  \/ (Requests \/ Time) /\ UNCHANGED rolloutVars
  \/ LateReport
  \/ ContextEnds
  \/ Crash

NextRollout == (Agent \/ World) /\ UNCHANGED volume

SpecRollout == InitRollout /\ [][NextRollout]_<<vars, rolloutVars>>

\* The agent keeps working and backoffs end; no request, fault or late report
\* has to happen.
FairRollout ==
  /\ SpecRollout
  /\ WF_<<vars, rolloutVars>>(Agent /\ UNCHANGED volume)
  /\ \A j \in Jobs : WF_<<vars, rolloutVars>>(BackoffElapses(j) /\ UNCHANGED rolloutVars)

--------------------------------------------------------------------------------
(* Properties. *)

RolloutTypeOK ==
  /\ work \in [job : Jobs \cup {NoJob}, token : 0 .. MaxAttempts,
               release : Deployments \cup {NoJob}, previous : Deployments \cup {NoJob}]
  /\ ctx \in {"open", "over", "recovery"}
  /\ container \in [Deployments -> {"absent", "stopped", "running"}]
  /\ route \in Deployments \cup {NoJob}
  /\ volume \in Volumes
  /\ late \in [job : Jobs \cup {NoJob}, token : 0 .. MaxAttempts,
               outcome : {"none", "active", "failed", "done"}]
  /\ faults \in 0 .. MaxFaults

\* A volume is mounted by one running container at a time.
OneWriter ==
  volume => \A d, e \in Deployments :
              container[d] = "running" /\ container[e] = "running" => d = e

\* An attempt on a shared volume never runs its candidate and the release it
\* replaces together, from stopping that release on, and also while undoing it.
SwappedLabels == {"start", "checking", "ready", "routing", "switch", "verify",
                  "activate", "retire", "revivePrevious", "previousReady",
                  "restoreRoute", "checkPrevious", "removeCandidate", "reportFailed"}

WritersSwap ==
  volume /\ work.previous # NoJob /\ pc \in SwappedLabels =>
    container[work.job] # "running" \/ container[work.previous] # "running"

\* A rollout keeps the release it replaces, where no volume is shared: while one
\* is executed, and until its activation is committed, no failure, timeout,
\* cancellation or undoing takes the container of another live release down.
PreviousRetained ==
  [][~volume /\ work.job \in Deployments =>
       \A p \in Deployments \ {work.job} :
         status[p] = "active" /\ container[p] = "running" =>
           container'[p] = "running"]_<<vars, rolloutVars>>

\* The node is as the control plane wants it: the live release runs and is
\* routed, or nothing is, and no finished release keeps a container.
AsDesired ==
  LET a == active[Service]
      serving == a # NoJob /\ desired[Service] = "running"
  IN  /\ route = IF serving /\ Web THEN a ELSE NoJob
      /\ serving => container[a] = "running"
      /\ a # NoJob /\ ~serving => container[a] # "running"
      /\ \A d \in Deployments : d # a => container[d] = "absent"

\* Whatever failed, was cancelled or crashed, once faults and requests end the
\* node ends up as desired and stays so.
Converges == <>[]AsDesired
================================================================================
