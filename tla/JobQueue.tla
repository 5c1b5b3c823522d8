------------------------------- MODULE JobQueue -------------------------------
(***************************************************************************)
(* The control plane's durable queue: internal/deployment's Store as the   *)
(* API handlers and the execution agent see it.                            *)
(*                                                                         *)
(* Three tables hold jobs: deployments, service_actions and cron_runs.  A  *)
(* claim hands out one due job with a fresh attempt token, a deadline and  *)
(* an exponential backoff; reports carry the token back.  Every operation  *)
(* is one transaction and one action here: the operations that insert work *)
(* for a service lock its row first, the reports lock the job's row.       *)
(*                                                                         *)
(* Abstractions.  A job's number is its rank by (created_at, id).  Rows    *)
(* may appear in any rank order, because created_at is the start of the    *)
(* inserting transaction and not its commit.  The attempt token is the     *)
(* attempt's number: both are new with every claim.  Of the clock only     *)
(* what the queries compare survives: whether a job's deadline is unset,   *)
(* ahead or past, whether next_attempt and cron_next_run have been reached.*)
(* A request the store refuses changes nothing and is no step.             *)
(***************************************************************************)
EXTENDS Naturals, FiniteSets

CONSTANTS
  Services,      \* rows of table services
  CronServices,  \* those with workload_mode = 'cron'
  BackupState,   \* desired_state a backup or restore needs: "running" for a
                 \* database, "stopped" for a volume, "never" without data
  Deployments,   \* ranks of table deployments
  Actions,       \* ranks of table service_actions
  CronRuns,      \* ranks of table cron_runs
  Stages,        \* the stages a deployment reports between queued and its end
  Keys,          \* Idempotency-Key values a client may send
  NoKey,         \* a request without a key
  NoService,     \* the owner of a row that is not there yet
  QueueLimit,    \* unfinished deployments a service may have (10 in the code)
  MaxAttempts    \* claims a job may use up (3 in the code)

Jobs == Deployments \cup Actions \cup CronRuns
NoJob == 0
ActionKinds == {"start", "stop", "restart", "backup", "restore"}

ASSUME JobsAssumption ==
  /\ Jobs \subseteq Nat \ {NoJob}
  /\ Deployments \cap Actions = {}
  /\ Deployments \cap CronRuns = {}
  /\ Actions \cap CronRuns = {}
  /\ IsFiniteSet(Deployments)

ASSUME ServicesAssumption ==
  /\ CronServices \subseteq Services
  /\ NoService \notin Services
  /\ BackupState \in [Services -> {"running", "stopped", "never"}]

ASSUME LimitsAssumption ==
  /\ NoKey \notin Keys
  /\ QueueLimit \in Nat
  /\ MaxAttempts \in Nat \ {0}

ASSUME StagesAssumption ==
  Stages \cap {"none", "queued", "running", "active", "failed", "superseded",
               "done", "succeeded"} = {}

VARIABLES
  active,     \* services.active_id
  desired,    \* services.desired_state
  scheduled,  \* services.cron_schedule <> ''
  cronDue,    \* services.cron_next_run <= now()
  owner,      \* service_id of each job
  status,     \* status of each job; "none" before the row exists
  attempt,    \* claims used so far, the token of the last one
  deadline,   \* "none", "ahead" or "past"
  due,        \* next_attempt <= now()
  cancelled,  \* deployments.cancel_requested
  key,        \* deployments.request_key
  kind,       \* service_actions.kind
  release     \* cron_runs.deployment_id

serviceVars == <<active, desired, scheduled, cronDue>>
claimVars == <<attempt, deadline, due>>
requestVars == <<cancelled, key, kind, release>>
vars == <<serviceVars, owner, status, claimVars, requestVars>>

--------------------------------------------------------------------------------
(* The vocabulary of the queries. *)

Finished == {"active", "failed", "superseded", "done", "succeeded"}

Pending(j) == status[j] \notin Finished \cup {"none"}

PendingOf(s, T) == {j \in T : owner[j] = s /\ Pending(j)}

\* Mutant: forgets the deployments that are still queued or running.
BusyWithoutDeployments(s) == PendingOf(s, Actions \cup CronRuns) # {}

\* A service in use, as every exclusive request asks it.
Busy(s) == PendingOf(s, Jobs) # {}

Init ==
  /\ active = [s \in Services |-> NoJob]
  /\ desired = [s \in Services |-> "running"]
  /\ scheduled = [s \in Services |-> FALSE]
  /\ cronDue = [s \in Services |-> FALSE]
  /\ owner = [j \in Jobs |-> NoService]
  /\ status = [j \in Jobs |-> "none"]
  /\ attempt = [j \in Jobs |-> 0]
  /\ deadline = [j \in Jobs |-> "none"]
  /\ due = [j \in Jobs |-> TRUE]
  /\ cancelled = [d \in Deployments |-> FALSE]
  /\ key = [d \in Deployments |-> NoKey]
  /\ kind = [a \in Actions |-> "none"]
  /\ release = [r \in CronRuns |-> NoJob]

Insert(j, s, st) ==
  /\ status[j] = "none"
  /\ owner' = [owner EXCEPT ![j] = s]
  /\ status' = [status EXCEPT ![j] = st]

--------------------------------------------------------------------------------
(* Requests of the owner. *)

KeyUnused(s, k) ==
  k # NoKey => \A e \in Deployments : owner[e] = s => key[e] # k

QueueHasRoom(s) == Cardinality(PendingOf(s, Deployments)) < QueueLimit

\* POST /api/services/{id}/deployments, and the builds' flush.  A request whose
\* key is already stored returns the stored row (or a conflict) and inserts
\* nothing.
EnqueueDeployment(s, d, k) ==
  /\ s \in CronServices => scheduled[s]
  /\ KeyUnused(s, k)
  /\ PendingOf(s, Actions) = {}
  /\ QueueHasRoom(s)
  /\ Insert(d, s, "queued")
  /\ key' = [key EXCEPT ![d] = k]
  /\ UNCHANGED <<serviceVars, claimVars, cancelled, kind, release>>

\* volumeChanged: the volume in the service's settings is no longer the one in
\* the active release's snapshot.  Whether the backup to restore exists is left
\* open.
EnqueueAction(s, a, k, volumeChanged) ==
  /\ active[s] # NoJob
  /\ k \in {"start", "restart"} => ~volumeChanged
  /\ k \in {"backup", "restore"} => desired[s] = BackupState[s]
  /\ ~Busy(s)
  /\ Insert(a, s, "queued")
  /\ kind' = [kind EXCEPT ![a] = k]
  /\ UNCHANGED <<serviceVars, claimVars, cancelled, key, release>>

\* Mutant: the builds' vocabulary, which this table does not know.
StatusOnCancelOfBuilds(d) ==
  IF status[d] = "queued" /\ attempt[d] = 0 THEN "cancelled" ELSE status[d]

StatusOnCancel(d) ==
  IF status[d] = "queued" /\ attempt[d] = 0 THEN "failed" ELSE status[d]

\* A queued deployment nobody claimed yet fails at once; a claimed one only
\* remembers the request, and the agent or the expiry ends it.
Cancel(d) ==
  /\ Pending(d)
  /\ cancelled' = [cancelled EXCEPT ![d] = TRUE]
  /\ status' = [status EXCEPT ![d] = StatusOnCancel(d)]
  /\ UNCHANGED <<serviceVars, owner, claimVars, key, kind, release>>

SaveCronSchedule(s) ==
  /\ s \in CronServices
  /\ scheduled' = [scheduled EXCEPT ![s] = TRUE]
  /\ cronDue' = [cronDue EXCEPT ![s] = FALSE]
  /\ UNCHANGED <<active, desired, owner, status, claimVars, requestVars>>

--------------------------------------------------------------------------------
(* Claims.  One transaction expires what ran out of time or attempts, then   *)
(* takes a due action, else a due deployment at the head of its service,     *)
(* else a due cron run, else starts the run of a due schedule.               *)

\* Mutant: the expiry forgets to leave finished rows alone.
ExpiredFinishedToo(j) ==
  /\ status[j] # "none"
  /\ \/ deadline[j] = "past"
     \/ attempt[j] >= MaxAttempts /\ due[j]

\* Mutant: lets a job wait for one attempt more than NextAttempt grants.
ExpiredTooLate(j) ==
  /\ Pending(j)
  /\ \/ deadline[j] = "past"
     \/ attempt[j] > MaxAttempts /\ due[j]

Expired(j) ==
  /\ Pending(j)
  /\ \/ deadline[j] = "past"
     \/ attempt[j] >= MaxAttempts /\ due[j]

Ready(T) == {j \in T : Pending(j) /\ due[j] /\ ~Expired(j)}

Heads == {d \in Ready(Deployments) :
            \A e \in PendingOf(owner[d], Deployments) : ~Expired(e) => d <= e}

\* Mutant: schedules a service that has no release yet.
DueServicesUnreleased == {s \in CronServices :
                  /\ desired[s] = "running"
                  /\ scheduled[s] /\ cronDue[s]
                  /\ \A r \in PendingOf(s, CronRuns) : Expired(r)}

DueServices == {s \in CronServices :
                  /\ desired[s] = "running"
                  /\ active[s] # NoJob
                  /\ scheduled[s] /\ cronDue[s]
                  /\ \A r \in PendingOf(s, CronRuns) : Expired(r)}

Oldest(j, T) == j \in T /\ \A i \in T : j <= i

StatusAfterExpiry == [j \in Jobs |-> IF Expired(j) THEN "failed" ELSE status[j]]

NextAttempt(j) ==
  /\ attempt[j] < MaxAttempts
  /\ deadline[j] # "past"
  /\ attempt' = [attempt EXCEPT ![j] = @ + 1]
  /\ deadline' = [deadline EXCEPT ![j] = "ahead"]
  /\ due' = [due EXCEPT ![j] = FALSE]

ClaimAction(a) ==
  /\ Oldest(a, Ready(Actions))
  /\ status' = [StatusAfterExpiry EXCEPT ![a] = "running"]
  /\ NextAttempt(a)
  /\ UNCHANGED <<serviceVars, owner, requestVars>>

ClaimDeployment(d) ==
  /\ Ready(Actions) = {}
  /\ Oldest(d, Heads)
  /\ status' = StatusAfterExpiry
  /\ NextAttempt(d)
  /\ UNCHANGED <<serviceVars, owner, requestVars>>

ClaimCronRun(r) ==
  /\ Ready(Actions) = {} /\ Heads = {}
  /\ Oldest(r, Ready(CronRuns))
  /\ status' = [StatusAfterExpiry EXCEPT ![r] = "running"]
  /\ NextAttempt(r)
  /\ UNCHANGED <<serviceVars, owner, requestVars>>

\* The occurrence is bound to the release that is active now, and the schedule
\* advances past the current time: missed occurrences coalesce.
StartCronRun(s, r) ==
  /\ Ready(Actions) = {} /\ Heads = {} /\ Ready(CronRuns) = {}
  /\ s \in DueServices
  /\ status[r] = "none"
  /\ owner' = [owner EXCEPT ![r] = s]
  /\ status' = [StatusAfterExpiry EXCEPT ![r] = "running"]
  /\ release' = [release EXCEPT ![r] = active[s]]
  /\ cronDue' = [cronDue EXCEPT ![s] = FALSE]
  /\ NextAttempt(r)
  /\ UNCHANGED <<active, desired, scheduled, cancelled, key, kind>>

\* Nothing to hand out: only the expiry is committed.  A due service may be
\* passed over, because the query skips rows another transaction has locked.
ClaimNothing ==
  /\ Ready(Actions) = {} /\ Heads = {} /\ Ready(CronRuns) = {}
  /\ status' = StatusAfterExpiry
  /\ UNCHANGED <<serviceVars, owner, claimVars, requestVars>>

Claim ==
  \/ \E a \in Actions : ClaimAction(a)
  \/ \E d \in Deployments : ClaimDeployment(d)
  \/ \E r \in CronRuns : ClaimCronRun(r)
  \/ \E s \in Services, r \in CronRuns : StartCronRun(s, r)
  \/ ClaimNothing

--------------------------------------------------------------------------------
(* Reports.  t is the token the agent sends: of any claim it ever received.  *)

\* Mutant: the token alone admits a report.
CheckToken(j, t) == t # 0 /\ attempt[j] = t

CheckAttempt(j, t) ==
  /\ t # 0
  /\ attempt[j] = t
  /\ deadline[j] = "ahead"

\* Mutant: activation does not look at the cancellation.
MayActivateCancelled(d, t) == CheckAttempt(d, t)

MayActivate(d, t) == CheckAttempt(d, t) /\ ~cancelled[d]

ReportStage(d, t, st) ==
  /\ CheckAttempt(d, t)
  /\ Pending(d)
  /\ status' = [status EXCEPT ![d] = st]
  /\ UNCHANGED <<serviceVars, owner, claimVars, requestVars>>

\* Mutant: leaves the previous release active.
SupersedeNothing(s, d) == [status EXCEPT ![d] = "active"]

\* The previous active release is superseded in the same transaction.
Supersede(s, d) ==
  [j \in Jobs |->
     IF j = d THEN "active"
     ELSE IF j = active[s] /\ status[j] = "active" THEN "superseded"
     ELSE status[j]]

ReportActive(d, t) ==
  /\ MayActivate(d, t)
  /\ Pending(d)
  /\ status' = Supersede(owner[d], d)
  /\ active' = [active EXCEPT ![owner[d]] = d]
  /\ desired' = [desired EXCEPT ![owner[d]] = "running"]
  /\ UNCHANGED <<scheduled, cronDue, owner, claimVars, requestVars>>

ReportAction(a, t, st) ==
  /\ CheckAttempt(a, t)
  /\ Pending(a)
  /\ status' = [status EXCEPT ![a] = st]
  /\ desired' = IF st = "done" /\ kind[a] \in {"start", "stop", "restart"}
                THEN [desired EXCEPT ![owner[a]] =
                        IF kind[a] = "stop" THEN "stopped" ELSE "running"]
                ELSE desired
  /\ UNCHANGED <<active, scheduled, cronDue, owner, claimVars, requestVars>>

ReportCronRun(r, t, st) ==
  /\ Pending(r)
  /\ CheckAttempt(r, t)
  /\ status' = [status EXCEPT ![r] = st]
  /\ UNCHANGED <<serviceVars, owner, claimVars, requestVars>>

--------------------------------------------------------------------------------
(* The clock. *)

BackoffElapses(j) ==
  /\ Pending(j) /\ ~due[j]
  /\ due' = [due EXCEPT ![j] = TRUE]
  /\ UNCHANGED <<serviceVars, owner, status, attempt, deadline, requestVars>>

DeadlinePasses(j) ==
  /\ Pending(j) /\ deadline[j] = "ahead"
  /\ deadline' = [deadline EXCEPT ![j] = "past"]
  /\ UNCHANGED <<serviceVars, owner, status, attempt, due, requestVars>>

CronTick(s) ==
  /\ scheduled[s] /\ ~cronDue[s]
  /\ cronDue' = [cronDue EXCEPT ![s] = TRUE]
  /\ UNCHANGED <<active, desired, scheduled, owner, status, claimVars, requestVars>>

--------------------------------------------------------------------------------
Requests ==
  \/ \E s \in Services, d \in Deployments, k \in Keys \cup {NoKey} :
       EnqueueDeployment(s, d, k)
  \/ \E s \in Services, a \in Actions, k \in ActionKinds, c \in BOOLEAN :
       EnqueueAction(s, a, k, c)
  \/ \E d \in Deployments : Cancel(d)
  \/ \E s \in Services : SaveCronSchedule(s)

Reports ==
  \/ \E d \in Deployments, t \in 1 .. MaxAttempts :
       \/ \E st \in Stages \cup {"failed"} : ReportStage(d, t, st)
       \/ ReportActive(d, t)
  \/ \E a \in Actions, t \in 1 .. MaxAttempts, st \in {"done", "failed"} :
       ReportAction(a, t, st)
  \/ \E r \in CronRuns, t \in 1 .. MaxAttempts, st \in {"succeeded", "failed"} :
       ReportCronRun(r, t, st)

Clock ==
  \/ \E j \in Jobs : BackoffElapses(j) \/ DeadlinePasses(j)
  \/ \E s \in Services : CronTick(s)

Next == Requests \/ Claim \/ Reports \/ Clock

Spec == Init /\ [][Next]_vars

\* The agent polls every two seconds and the clock runs; nobody has to report.
Fairness ==
  /\ WF_vars(Claim)
  /\ \A j \in Jobs : WF_vars(BackoffElapses(j))

FairSpec == Spec /\ Fairness

--------------------------------------------------------------------------------
(* Properties. *)

TypeOK ==
  /\ active \in [Services -> Deployments \cup {NoJob}]
  /\ desired \in [Services -> {"running", "stopped"}]
  /\ scheduled \in [Services -> BOOLEAN]
  /\ cronDue \in [Services -> BOOLEAN]
  /\ owner \in [Jobs -> Services \cup {NoService}]
  /\ status \in [Jobs -> Finished \cup Stages \cup {"none", "queued", "running"}]
  /\ attempt \in [Jobs -> 0 .. MaxAttempts]
  /\ deadline \in [Jobs -> {"none", "ahead", "past"}]
  /\ due \in [Jobs -> BOOLEAN]
  /\ cancelled \in [Deployments -> BOOLEAN]
  /\ key \in [Deployments -> Keys \cup {NoKey}]
  /\ kind \in [Actions -> ActionKinds \cup {"none"}]
  /\ release \in [CronRuns -> Deployments \cup {NoJob}]

\* services.active_id and the deployments' statuses agree: the pointer names an
\* active deployment of that service, and a deployment is active only while its
\* service points at it.  Report moves both, and Claim's expiry, Cancel and late
\* reports must move neither alone.
OneLive ==
  /\ \A s \in Services : active[s] # NoJob =>
       owner[active[s]] = s /\ status[active[s]] = "active"
  /\ \A d \in Deployments : status[d] = "active" => active[owner[d]] = d

\* A deployment whose cancellation was accepted is never served, whatever
\* reports of older or current attempts are still on their way.
CancelledNeverServes ==
  \A d \in Deployments : cancelled[d] => status[d] \notin {"active", "superseded"}

\* Work on a service excludes other work: an unfinished action is alone among
\* the service's actions and deployments, and a service has at most one
\* unfinished cron run.
WorkExcludes ==
  /\ \A a \in Actions : Pending(a) =>
       /\ PendingOf(owner[a], Actions) = {a}
       /\ PendingOf(owner[a], Deployments) = {}
  /\ \A r \in CronRuns : Pending(r) => PendingOf(owner[r], CronRuns) = {r}

\* A cron run executes a release of its own service that really went live.
RunsReleased ==
  \A r \in CronRuns : status[r] # "none" =>
    /\ release[r] \in Deployments
    /\ owner[release[r]] = owner[r]
    /\ status[release[r]] \in {"active", "superseded"}

\* The per-service queue never exceeds its limit.
QueueBounded ==
  \A s \in Services : Cardinality(PendingOf(s, Deployments)) <= QueueLimit

\* A retried request is one deployment: a key names at most one row per service.
KeyNamesOne ==
  \A d, e \in Deployments :
    key[d] # NoKey /\ key[d] = key[e] /\ owner[d] = owner[e] => d = e

\* An outcome is final: a finished job never changes again, except that the next
\* activation supersedes an active deployment.
OutcomeIsFinal ==
  [][\A j \in Jobs : status[j] \in Finished =>
       \/ status'[j] = status[j]
       \/ status[j] = "active" /\ status'[j] = "superseded"]_vars

\* An action works on the release it was requested for: while it is unfinished
\* the service's active release does not move, over every retry of the action.
ReleaseHeld ==
  [][\A a \in Actions : Pending(a) => active'[owner[a]] = active[owner[a]]]_vars

\* A job whose deadline has passed can only fail: no report of its attempt is late
\* but accepted, no claim renews it, and only the expiry ends it.
LateOnlyFails ==
  [][\A j \in Jobs : Pending(j) /\ deadline[j] = "past" =>
       /\ status'[j] \in {status[j], "failed"}
       /\ UNCHANGED <<attempt[j], deadline[j]>>]_vars

\* How much of its attempts, backoffs and deadlines a job has used up.
Used(j) ==
  3 * attempt[j] + (IF due[j] THEN 1 ELSE 0) + (IF deadline[j] = "past" THEN 1 ELSE 0)

\* Nobody gives a job time back: whatever changes its attempt, backoff or deadline
\* uses up more of them.  They are limited, which is why every job finishes.
TimeRunsOut ==
  [][\A j \in Jobs : Used(j)' > Used(j) \/ UNCHANGED <<attempt[j], due[j], deadline[j]>>]_vars

\* No job waits forever, even if the agent never reports anything: claims run
\* out and the expiry ends it, and a job behind it in the queue gets its turn.
EveryJobFinishes == \A j \in Jobs : []<>~Pending(j)

\* The queue implements the abstract promise of Release.
FateOf(st) ==
  IF st = "none" THEN "unknown"
  ELSE IF st = "active" THEN "live"
  ELSE IF st = "superseded" THEN "retired"
  ELSE IF st = "failed" THEN "dropped"
  ELSE "pending"

Promise == INSTANCE Release WITH
  Releases <- Deployments,
  None <- NoJob,
  serving <- active,
  fate <- [d \in Deployments |-> FateOf(status[d])],
  owner <- [d \in Deployments |-> owner[d]],
  barred <- {d \in Deployments : cancelled[d]}

KeepsPromise == Promise!Spec
================================================================================
