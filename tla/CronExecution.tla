----------------------------- MODULE CronExecution -----------------------------
(***************************************************************************)
(* The agent executing the runs of one scheduled service: cmd/agent's loop *)
(* with RunCron and the Docker client's runOneShot, on top of JobQueue.    *)
(*                                                                         *)
(* A run's container is created, started and watched until it exits; its   *)
(* exit code is reported, and then it is removed.  The watching attempt    *)
(* may end earlier: after five minutes, or when the agent crashes.  The    *)
(* container does not end with it.                                         *)
(*                                                                         *)
(* Abstractions.  The service has its first release already and gets no    *)
(* other one, nor actions.  Failing calls and crashes are bounded by       *)
(* MaxFaults; the end of an attempt's five minutes is no fault.  A command *)
(* may take any time.                                                      *)
(***************************************************************************)
EXTENDS JobQueue

CONSTANT MaxFaults  \* bound on failing calls and crashes

ASSUME CronAssumption ==
  /\ IsFiniteSet(Services) /\ Cardinality(Services) = 1 /\ CronServices = Services
  /\ Cardinality(Deployments) = 1 /\ Actions = {}
  /\ \A s \in Services : BackupState[s] = "never"
  /\ MaxFaults \in Nat

VARIABLES
  pc,      \* the call the agent makes next
  work,    \* the claimed work
  ctx,     \* "over" once its five minutes are up
  box,     \* each run's container: "absent", "created", "running", "exited"
  exit,    \* the exit code of its command: "none" before it ended
  starts,  \* how often a run's command was started (history)
  late,    \* a report the agent gave up on and the server may still get
  faults

boxVars == <<box, exit, starts>>
cronVars == <<pc, work, ctx, boxVars, late, faults>>

Release == CHOOSE d \in Deployments : TRUE

NoWork == [job |-> NoJob, token |-> 0]
NoReport == [job |-> NoJob, token |-> 0, outcome |-> "none"]

\* The state after the first activation, as a sequence of JobQueue's steps.
InitCron ==
  /\ \A s \in Services :
       /\ active = [u \in Services |-> Release]
       /\ owner = [j \in Jobs |-> IF j = Release THEN s ELSE NoService]
  /\ desired = [s \in Services |-> "running"]
  /\ scheduled = [s \in Services |-> TRUE]
  /\ cronDue = [s \in Services |-> FALSE]
  /\ status = [j \in Jobs |-> IF j = Release THEN "active" ELSE "none"]
  /\ attempt = [j \in Jobs |-> IF j = Release THEN 1 ELSE 0]
  /\ deadline = [j \in Jobs |-> IF j = Release THEN "ahead" ELSE "none"]
  /\ due = [j \in Jobs |-> j # Release]
  /\ cancelled = [d \in Deployments |-> FALSE]
  /\ key = [d \in Deployments |-> NoKey]
  /\ kind = [a \in Actions |-> "none"]
  /\ release = [r \in CronRuns |-> NoJob]
  /\ pc = "claim" /\ work = NoWork /\ ctx = "open"
  /\ box = [r \in CronRuns |-> "absent"]
  /\ exit = [r \in CronRuns |-> "none"]
  /\ starts = [r \in CronRuns |-> 0]
  /\ late = NoReport
  /\ faults = 0

--------------------------------------------------------------------------------
Go(next) == pc' = next /\ UNCHANGED <<work, ctx>>

Leave == pc' = "claim" /\ work' = NoWork /\ ctx' = "open"

Fault == faults < MaxFaults /\ faults' = faults + 1

Become(r, b) == box' = [box EXCEPT ![r] = b]

\* An error under an open context is the run's failure, under an expired one it
\* is nobody's.
OnError == IF ctx = "over" THEN Leave ELSE Go("reportFailed")

\* A call of runOneShot, with an effect on the container.
DockerCall(label, Effect, next) ==
  /\ pc = label
  /\ \/ ctx = "open" /\ Effect /\ Go(next) /\ UNCHANGED faults
     \/ /\ IF ctx = "over" THEN UNCHANGED faults ELSE Fault
        /\ Effect \/ UNCHANGED boxVars
        /\ OnError
  /\ UNCHANGED <<vars, late>>

\* Mutant: starts a container that has exited once more.
FoundRestarting(r) ==
  IF box[r] = "absent" THEN "create"
  ELSE IF box[r] = "running" THEN "watch"
  ELSE "start"

\* What runOneShot makes of the container it finds under the run's name.
Found(r) ==
  IF box[r] = "absent" THEN "create"
  ELSE IF box[r] = "created" THEN "start"
  ELSE IF box[r] = "running" THEN "watch"
  ELSE "report"

Create(r) == Become(r, "created") /\ UNCHANGED <<exit, starts>>

Start(r) ==
  /\ Become(r, "running")
  /\ starts' = [starts EXCEPT ![r] = IF box[r] = "running" THEN @ ELSE @ + 1]
  /\ UNCHANGED exit

\* Mutant: reports a run as succeeded that was merely watched to its end.
VerdictOfWatching(r) == "succeeded"

\* Mutant: the vocabulary of the actions.
VerdictOfActions(r) == IF exit[r] = "zero" THEN "done" ELSE "failed"

Verdict(r) == IF exit[r] = "zero" THEN "succeeded" ELSE "failed"

\* The answer to the report may be lost, or come too late for the agent.
Report(label, outcome) ==
  LET r == work.job
      t == work.token
  IN  /\ pc = label
      /\ \/ /\ ctx = "open" /\ ReportCronRun(r, t, outcome) /\ Go("remove")
            /\ UNCHANGED <<late, faults>>
         \/ /\ ctx = "open" /\ ~(CheckAttempt(r, t) /\ Pending(r)) /\ UNCHANGED vars
            /\ IF status[r] = outcome THEN Go("remove") ELSE Leave
            /\ UNCHANGED <<late, faults>>
         \/ /\ IF ctx = "over" THEN UNCHANGED faults ELSE Fault
            /\ Leave
            /\ \/ ReportCronRun(r, t, outcome) /\ UNCHANGED late
               \/ UNCHANGED <<vars, late>>
               \/ late' = [job |-> r, token |-> t, outcome |-> outcome] /\ UNCHANGED vars
      /\ UNCHANGED boxVars

LateReport ==
  /\ late # NoReport
  /\ ReportCronRun(late.job, late.token, late.outcome) \/ UNCHANGED vars
  /\ late' = NoReport
  /\ UNCHANGED <<pc, work, ctx, boxVars, faults>>

\* DELETE ?force=true ends a command that still runs.
Removed(R) ==
  /\ box' = [r \in CronRuns |-> IF r \in R THEN "absent" ELSE box[r]]
  /\ exit' = [r \in CronRuns |-> IF r \in R /\ box[r] = "running" THEN "nonzero" ELSE exit[r]]
  /\ UNCHANGED starts

\* A removal that fails is left to the idle agent.
Remove ==
  /\ pc = "remove" /\ Leave
  /\ \/ Removed({work.job}) /\ UNCHANGED faults
     \/ Fault /\ UNCHANGED boxVars
  /\ UNCHANGED <<vars, late>>

RunCron ==
  LET r == work.job
  IN  /\ r \in CronRuns
      /\ \/ DockerCall("inspect", UNCHANGED boxVars, Found(r))
         \/ DockerCall("create", Create(r), "start")
         \/ DockerCall("start", Start(r), "watch")
         \/ box[r] = "exited" /\ DockerCall("watch", UNCHANGED boxVars, "report")
         \/ box[r] # "exited" /\ (ctx = "over" \/ Fault) /\ pc = "watch" /\ OnError
            /\ (ctx = "over" => UNCHANGED faults) /\ UNCHANGED <<vars, boxVars, late>>
         \/ Report("report", Verdict(r))
         \/ Report("reportFailed", "failed")
         \/ Remove

--------------------------------------------------------------------------------
(* The loop.  Reconciliation only clears the route of a cron service: it     *)
(* leaves its runs alone.                                                    *)

Received ==
  \/ \E r \in CronRuns :
       /\ ClaimCronRun(r) \/ \E s \in Services : StartCronRun(s, r)
       /\ work' = [job |-> r, token |-> attempt'[r]] /\ pc' = "inspect"
  \/ ClaimNothing /\ work' = NoWork /\ pc' = "cleanup"

ClaimWork ==
  /\ pc = "claim"
  /\ \/ Received /\ UNCHANGED faults
     \/ Fault /\ (Claim \/ UNCHANGED vars) /\ UNCHANGED <<pc, work>>
  /\ UNCHANGED <<ctx, boxVars, late>>

\* Mutant: forgets the containers of the runs that failed.
LeftoversSucceeded == {r \in CronRuns : status[r] = "succeeded" /\ box[r] # "absent"}

Leftovers == {r \in CronRuns : status[r] \in {"succeeded", "failed"} /\ box[r] # "absent"}

CleanUp ==
  /\ pc = "cleanup" /\ Leave
  /\ \E R \in SUBSET Leftovers :
       Removed(R) /\ IF R = Leftovers THEN UNCHANGED faults ELSE Fault
  /\ UNCHANGED <<vars, late>>

Agent == ClaimWork \/ RunCron \/ CleanUp

--------------------------------------------------------------------------------
(* The world around the agent. *)

CommandEnds(r) ==
  /\ box[r] = "running"
  /\ Become(r, "exited")
  /\ \E code \in {"zero", "nonzero"} : exit' = [exit EXCEPT ![r] = code]
  /\ UNCHANGED <<vars, pc, work, ctx, starts, late, faults>>

FiveMinutesPass ==
  /\ work # NoWork /\ ctx = "open" /\ ctx' = "over"
  /\ UNCHANGED <<vars, pc, work, boxVars, late, faults>>

Crash ==
  /\ Fault /\ Leave
  /\ UNCHANGED <<vars, boxVars, late>>

\* An attempt's five minutes end before the job's ten.
Time ==
  \/ \E j \in Jobs : BackoffElapses(j)
  \/ \E j \in Jobs : DeadlinePasses(j) /\ ~(work.job = j /\ attempt[j] = 1)
  \/ \E s \in Services : CronTick(s)

World ==
  \/ (Requests \/ Time) /\ UNCHANGED cronVars
  \/ LateReport
  \/ \E r \in CronRuns : CommandEnds(r)
  \/ FiveMinutesPass
  \/ Crash

NextCron == Agent \/ World

SpecCron == InitCron /\ [][NextCron]_<<vars, cronVars>>

\* The agent keeps working, backoffs and five minutes end; no command has to.
FairCron ==
  /\ SpecCron
  /\ WF_<<vars, cronVars>>(Agent)
  /\ WF_<<vars, cronVars>>(FiveMinutesPass)
  /\ \A j \in Jobs : WF_<<vars, cronVars>>(BackoffElapses(j) /\ UNCHANGED cronVars)

--------------------------------------------------------------------------------
(* Properties. *)

CronTypeOK ==
  /\ work \in [job : Jobs \cup {NoJob}, token : 0 .. MaxAttempts]
  /\ ctx \in {"open", "over"}
  /\ box \in [CronRuns -> {"absent", "created", "running", "exited"}]
  /\ exit \in [CronRuns -> {"none", "zero", "nonzero"}]
  /\ starts \in [CronRuns -> 0 .. MaxAttempts]
  /\ late \in [job : CronRuns \cup {NoJob}, token : 0 .. MaxAttempts,
               outcome : {"none", "succeeded", "failed"}]
  /\ faults \in 0 .. MaxFaults

\* A run's command is executed at most once, over every retry, crash, lost
\* answer and clean-up.
ExecutedOnce == \A r \in CronRuns : starts[r] <= 1

\* The history tells the truth: a run that is recorded as succeeded ran, and
\* its command exited with zero.
SuccessIsReal ==
  \A r \in CronRuns : status[r] = "succeeded" => starts[r] = 1 /\ exit[r] = "zero"

\* The runs of a service do not overlap.
NoOverlap ==
  \A q, r \in CronRuns : box[q] = "running" /\ box[r] = "running" => q = r

\* The runs end and leave nothing behind, even those whose command never ends.
RunsLeaveNothing ==
  \A r \in CronRuns : status[r] # "none" ~>
    status[r] \in {"succeeded", "failed"} /\ box[r] = "absent"
================================================================================
