# Cloudrail in TLA+

Specifications of cloudrail's control plane and execution agent, model-checked
with TLC and, where it says so, proved with TLAPS. Every definition follows the
Go source; `PROJECT.json` names the lines each one stands for.

## The system

Cloudrail is a single-owner, single-node platform: a server with a Postgres
database, and one agent that drives Docker and the Traefik route file of the
node.

| Component | State | Operations | Modelled in |
| --- | --- | --- | --- |
| deployment queue (`deployment.Store`) | `services`, `deployments`, `service_actions`, `cron_runs` | enqueue, cancel, claim with expiry, three reports, cron schedule | `JobQueue`, promise in `Release` |
| execution agent (`cmd/agent`, `internal/agent`) | claimed work, job context | reconcile, claim, `Run`, `fail`, `RunAction`, `RunCron`, recovery, idle clean-up | `Rollout`, `CronExecution` |
| Docker runtime, proxy routes | containers, route file | ensure, stop, remove, run once, set route | by effect, in `Rollout` and `CronExecution` |
| source builds (`builds.Store`, server loop) | `source_builds`, `github_deliveries` | enqueue, push, cancel, claim, report, flush | `Builds`, promise in `Delivery` |
| volumes, networking, settings, databases | settings, `volumes`, `volume_attachments` | create, attach, detach, save settings, save networking, create database | `Volumes` |
| variables, references, buckets | `service_variables`, `service_references`, `buckets`, `bucket_bindings` | set, rename, delete, refer, bind, rotate, unbind, bind database | `References` |
| backup and restore on the node | `backups`, archive files, volume data | dump, register, check, clear, unpack, import | `Backups` |
| enrollment, PKI, owner, sessions | `nodes`, `owners`, `sessions` | enroll, revoke, setup, login | not modelled |
| canvas, metrics, state and logs | derived | read | not modelled: display |
| secrets, GitHub client, migrations, web interface, scripts | — | — | not modelled: cryptography, external requests, one-off setup, rendering |

They interact through rows of the database only. The owner's requests and the
webhook insert rows; the agent polls `POST /internal/claim`, works, and reports
with the attempt's token; when there is no job it asks for a build, and then
cleans up. The server's flush loop turns successful builds into deployments.

### What is hard

* A job is delivered up to three times within ten minutes, reports may be lost,
  refused or late, and a new attempt fences the old one by its token.
* The agent's work on a job is a long sequence of calls. Between any two of
  them the owner cancels, a deadline passes, the job's five minutes end or the
  process dies, and what it started keeps running.
* Reconciliation repairs the node from the control plane's state alone, without
  knowing what an interrupted attempt left behind.
* Success of a build and its deployment are two commits.
* The owner's forms check and write in transactions that lock some rows of what
  they checked, in different orders, or none.
* A restore's process inside a database container does not end with the attempt
  that started it.

`PROJECT.json` lists these hazards line by line, with the properties that watch
them.

## The modules

### `Release`: what a service's owner can rely on

A release is accepted, pending, then live or dropped; only the next live
release retires it; a barred (cancelled) release never goes live. No queue, no
attempts, no agent.

### `JobQueue`: the store

One action per transaction: `EnqueueDeployment`, `EnqueueAction`, `Cancel`,
`SaveCronSchedule`; `Claim`, which first expires what ran out of time or
attempts and then hands out an action, else the head of a service's deployment
queue, else a cron run, else starts the run of a due schedule; `ReportStage`,
`ReportActive`, `ReportAction`, `ReportCronRun`; and the clock. The
transactions that insert work for a service lock its row first and reports lock
the job's row, which is why one action per transaction is right. Jobs are
numbers, their ranks by `(created_at, id)`; a row may appear in any rank order,
because `created_at` is the start of its transaction. A report carries the
token of *any* attempt the agent ever had, so every late or repeated report is
covered. The code's limits (10 queued deployments, 3 attempts) are constants.

### `Rollout`: the agent and one service

Extends `JobQueue` with the agent's program counter, the work it was handed,
the job's context, the containers, the route file and one report in flight.
Each call of `Run`, `failWithLogs`, `RunAction` and `Reconcile` is an action
that succeeds, fails without effect or fails after its effect. `Leave` is the
return to the loop, with `RecoverCancellation` when a deployment's context is
over. `work.previous` and `work.release` are what the claim or the
reconciliation *was told*, and may be stale when used. A job's first attempt is
over (5 minutes and 30 seconds at most) before its deadline (10 minutes).

`PreviousRetained` speaks of rollouts only: a reconciliation told that a service is
stopped stops it even if the late report of a start is accepted meanwhile, and the
next round starts it again (`Converges`).

### `CronExecution`: the agent and the runs of a schedule

Extends `JobQueue` with one container per run. `RunCron` finds it absent,
created, running or exited and goes on from there; the command may take any
time; the attempt ends after five minutes and the container does not.

### `Delivery`: what a source build promises

A build is accepted with the others of its request, open, then succeeded or ended. A
success its owner did not cancel is delivered as one release of the service it was
built for and recorded on the build; nothing else is. No claims, tokens, deadlines or
flush: `Builds` maps its rows to these few states (`LifeOf`), the build in a
deployment's request key to `origin` and `deployment_id` to `recorded`.

### `Builds`: from a push to a deployment

The build table with its own claim, expiry and reports, and `Flush` as the
sequence of its transactions, over an instance of `Release` in the place of the
deployment store (`JobQueue` implements it). Only what `EnqueueBuilt` is refused
for is added to it: an unfinished action, a full queue, a missing schedule.

### `Volumes`: which service may use which volume

`AttachVolume` and `DetachVolume` lock the volume's row and then the service's;
`SaveSettings` the service's and then the volume's. Such a request is two
actions, `Begin...` (the first lock and what is read under it) and `Finish...`
(the second lock, the other checks, the writes), with a record in `session`
between them, so that two requests may wait for each other; `Rollback` is a
refusal or the end of a deadlock. Requests with one lock are one action that
needs the lock free. A deployment is the volume in its snapshot: `Uses(s)`, the
volumes the containers of a service may be writing to, comes from the active and
the candidate release, the desired state and the action.

### `References`: variables, references, buckets

`SetReference`, `RenameVariable`, `DeleteVariable`, `BindBucket`,
`RotateBucketCredentials` and `BindDatabase` check and then write without a lock
on what they checked (bindings and rotations lock the bucket only). Each is a
`Check...`, which puts the request with what it read into `open`, and a write.
The statements of `BindDatabase` are committed one by one. `Resolved` is
`resolveVariable`: what a deployment would get. Which requests may be open
together is the constant `Serial`; see the next section for why it is not empty.

### `Backups`: backup and restore on the node

One agent, its attempts, and what goes on without it: clients write to running
services, and the process a restore started inside a container imports by
itself. Data, dumps and archives are sets of items; a checksum is the set itself.
A call may fail (`Fail`), the five minutes may be over (`ContextEnds`), the agent
may crash; a report may commit unanswered. `dumped` is a history variable. The
queue is the part of `JobQueue` that actions need: one unfinished action a
service, attempts, expiry.

## What the runs show

Two attempts per job stand for three, except where noted: a first and a later
attempt are all that fencing and expiry distinguish.

| Run | Instance | Shows |
| --- | --- | --- |
| `queue` | scheduled service, 2 deployments, action, run, one stage, limit 1, fair | `TypeOK`; `OneLive`: pointer and status agree; `WorkExcludes`; `RunsReleased`; `OutcomeIsFinal`; `LateOnlyFails`: a job past its deadline can only fail; `KeepsPromise`: the queue implements `Release`; `EveryJobFinishes` |
| `rollout` | web service with and without a volume, 2 deployments, action, 1 fault, fair | `RolloutTypeOK`; `WritersSwap`: an attempt never runs both writers; `CancelledNeverServes`; `PreviousRetained`: a failing rollout keeps the live container; `ReleaseHeld`; `Converges`: the node ends up as desired |
| `rollout_two_writers` | shared volume, no fault | `OneWriter` is **violated** |
| `cron_runs` | 2 runs, 1 fault, fair | `CronTypeOK`; `ExecutedOnce`: a command is executed at most once; `SuccessIsReal`; `RunsLeaveNothing` |
| `cron_overlap` | 2 runs, no fault | `NoOverlap` is **violated** |
| `builds_safe` | 2 services, 2 builds, 2 deployments, a key and a push, limits 1 | `BuildsTypeOK`, `DeploysSuccess`, `DeploysOnce`; `KeepsDelivery`: the builds implement `Delivery`, so that a request builds a service once and the end of a build is final |
| `builds_live` | 2 services, 2 builds, 2 deployments, 1 attempt, fair | `EveryBuildFinishes`, `SuccessIsDeployed` |
| `builds_blocked` | the same with an unscheduled cron service, fair | `SuccessIsDeployed` is **violated** |
| `volumes` | 2 applications, a database, a standalone volume, 2 open requests | `VolumesTypeOK`; `VolumeExclusive`: one active writer; `AttachmentsAgree` with the settings; `UsesConfigured`; `NetworkingKept`: no save is lost |
| `volumes_stolen` | 2 applications whose own volumes are detached | `VolumeExclusive` is **violated** |
| `references` | 3 applications, a database, a bucket, 2 names, limit 1, 2 open requests | `ReferencesTypeOK`; `ReferencesAcyclic`; `EnvironmentsResolve`: every variable has a value; `BindingsCurrent`; `VariablesBounded`; `RenameKeepsValues` |
| `backups` | source and target of each kind, a backup and a restore, 3 attempts | `BackupsTypeOK`; `RegisteredComplete`; `DoneIsTrue`; `RestorePreserves`; `RestoredWhole` (PostgreSQL: never a part) |

Each property of a passing run has a mutant: a definition marked `Mutant` beside
the one it replaces, with which TLC finds the property violated.

### What holds only one request at a time

The properties of `References` hold for requests that do not overlap, and for
most that do. For the following pairs TLC finds a violation when they may be open
together, so `MCSerial` keeps them apart in the run. They are limits of the
code, not of the model: in each of them what one request checked is
changed by the other before it writes.

| Open together | What breaks |
| --- | --- |
| two `SetReference` | a cycle, or more variables than the limit |
| `SetReference` with `RenameVariable`, `SetVariable`, `BindDatabase` or `BindBucket` | the limit; with a rename also a reference to nothing |
| `SetReference` with `DeleteVariable`, `RenameVariable` with `DeleteVariable` | a variable without a value |
| two `BindBucket` of two buckets (one more than in the run); `BindBucket` with `SetVariable` or `BindDatabase` | the limit |
| `BindBucket` with `RenameVariable` or `DeleteVariable` | credentials that are not the bucket's |
| `RotateBucketCredentials` with `UnbindBucket` | variables of a disconnected bucket reappear, beyond the limit |
| `BindDatabase` with `RenameVariable` or `DeleteVariable` | a half-made reference, which a rename then resolves differently |

One of the properties also says what the code does not promise: a disconnected
bucket's variables may leave references to nothing (`EnvironmentsResolve` excepts
them).

### Disagreements between the code and what it says

* **Two writers on one volume** (`rollout_two_writers`). The owner cancels when
  the candidate is ready and about to activate. The activation is refused;
  `Run` returns; the job context is not over, so nothing is undone; the next
  `Reconcile` starts the previous release while the candidate runs on the same
  volume. A lost stage report has the same effect. `WritersSwap` shows the
  attempts themselves are careful: it is the round in between that is not.
* **A volume is taken back from a running service** (`volumes_stolen`). A
  service's own volume is detached, attached to another application and deployed
  there. Saving the first service's settings with a mount path names that volume
  again, moves its attachment and makes the next deployment use it, while the
  other application runs on it.
* **Cron runs overlap** (`cron_overlap`). A command that outlives the ten-minute
  deadline keeps running while its run is failed and the next is started.
* **A build that cannot be deployed blocks the others** (`builds_blocked`).

### Fairness

* `JobQueue`, `Builds`: the agent keeps polling (`Claim`) and backoffs elapse.
  The agent polls every two seconds whatever the last round's result; it asks
  for builds whenever no job is due, so fairness of `Builds!Claim` assumes jobs
  are not due forever. Nobody is assumed to report.
* `Builds`: the server's loop runs every two seconds; a failing database or a
  crash may interrupt any round, but not forever at the same statement (strong
  fairness of the two statements); deployments and actions end, which is
  `EveryJobFinishes`; the owner stops requesting actions at some time.
* `Rollout`, `CronExecution`: the agent's next call returns, by its timeout if by
  nothing else. A cron command need not end.

### Bounds

`MaxFaults` bounds failing calls, crashes and, in `Rollout`, contexts that run
out; one fault reaches each single failure at each call, and with `LateReport`
and cancellations, which are no faults, more than one thing goes wrong. Ranks of
jobs are finite, so a run ends; two deployments give one previous and one
candidate release. The run `queue` has no request keys, which more than double
it; that a key names one deployment is proved (`KeyNamesOneAlways`), and `builds_safe`
repeats requests. In `Builds` the owner's own deployments leave enough rows for
the builds (`Undecided`).

In `Volumes` two open requests are all that two lock orders need for a deadlock,
and a third lock does not exist; the database shows what templates manage. In
`References` three applications make the shortest chain whose middle is neither
end, one bucket with one prefix and a limit of one variable make every count a
boundary, and `Rotations` bounds the credentials. In `Backups` two source
items make a partial archive, one item of the target's clients stands in a
restore's way, and the three attempts are the code's; faults are not bounded.
`RegisteredComplete` is checked with `Pending = {}`, that is, reconciliation
succeeds before a claim. There is no deadlock except in `Backups`, where all
actions end and nothing is left to write (`CHECK_DEADLOCK FALSE`).

## What is proved

`JobQueueProofs` proves, for all sets of services, jobs, stages, keys and all
limits (assumptions `JobsAssumption`, `ServicesAssumption`, `LimitsAssumption`,
`StagesAssumption`, which every run evaluates):

* `TypeCorrect`, then `InductiveInvariant`: `IInv` adds to the properties what
  makes them inductive: an existing row has an owner (`RowsOwned`), which an
  activation needs to find the pointer it moves. `OneLive` is needed for
  `RunsReleased`, since a run is bound to the active release.
* `OneLiveAlways`, `CancelledNeverServesAlways`, `WorkExcludesAlways`,
  `RunsReleasedAlways`, `KeyNamesOneAlways`, `QueueBoundedAlways`, and the action
  properties `ReleaseHeldAlways` and `OutcomeIsFinalAlways`.
* `LateOnlyFailsAlways`: a job past its deadline can only fail. It is the other half
  of `OutcomeIsFinal`: between the deadline and the next claim's expiry no report is
  accepted (`CheckAttempt` compares the deadline) and no claim renews the job, because
  the claim that would do so expires it first (`LateJob`).
* `TimeRunsOutAlways`: the sum `Used` of a job's attempts, elapsed backoff and passed
  deadline grows whenever one of them changes, since a claim uses up an attempt, which
  outweighs the backoff and the deadline it renews (`UsedGrows`). `Used` is bounded by
  the number of attempts, so a job meets finitely many of these events: this is the
  measure behind `EveryJobFinishes`, whose fairness argument stays with TLC.

It also proves `PromiseKept`: every behaviour of `JobQueue` is one of `Release` under
the refinement mapping of `KeepsPromise`, by one step per action.

`BuildsProofs` proves the safety of `Builds` for all finite sets of builds, all
services, requests, deployments and limits (`BuildsAssumption`): `BuildsTypeCorrect`,
then `BuildsInvariant`, and from it `DeploysSuccessAlways`, `DeploysOnceAlways`,
`BuildsOnceAlways`, `BuildsBoundedAlways` and `BuildIsFinalAlways`. The strengthening
says what the flush may rely on between its statements: the batch it read is still
successful (`BatchSucceeded`), because a cancelled build cannot have succeeded
(`CancelledEnds`); the deployment it holds is the one stored for the build it is at
(`FlushingBuilt`); a deployment not yet stored belongs to no build (`FreshUnbuilt`).
`BuildIsFinal` needs it too: `CancelledEnds` is why a repeated report of a failed
build cannot turn it into a cancelled one.
`BuildsUseRelease` is `Spec => Store!Spec`: the deployments beside the builds live the
life of a `Release`, the same specification that `PromiseKept` shows the queue to
implement, so what `Builds` takes for the queue is what the queue promises. It
needs that a requested build has a service (`Placed`).
`DeliveryKept` is `Spec => KeepsDelivery`: `Builds` implements `Delivery`. One lemma
for each kind of step gives the abstract step: an insertion is one `Accept` of all its
rows (`InsertMaps`, which needs `BuildsOnce` of the next state), a claim is the `End` of
what it expires (`ClaimMaps`), a report is `Succeed`, `End` or nothing (`ReportMaps`,
nothing because a finished build is only told again what it is), the flush's request
is `Deliver` (`FlushDeployMaps`, which needs `BatchSucceeded`, `CancelledEnds` and
`FreshUnbuilt`) and its record is `Record` (`FlushStoreMaps`, which needs
`FlushingBuilt`).

`VolumesProofs` proves for all applications, databases, volumes and open requests
(`VolumesAssumption`) `VolumesTypeCorrect` and `LocksProtect`: the invariant `Typed`
says that what an open request has read of the rows it locked is still so
(a session's copy of the settings is the row's), and `NetworkingKeptAlways` follows
from it. Exclusivity is proved under `OwnKept`, that the own volumes of
applications are never detached: then `SaveSettings` takes no volume from another
service, and `volumes_stolen` shows that without it the theorem is false.
`ExclusiveInvariant` adds that open requests agree with what they wait for
and that a service uses its configured volume only; `AttachmentsAgreeAlways`,
`UsesConfiguredAlways` and `VolumeExclusiveAlways` follow: two services that used one
volume would both have it in their settings, and so both be its attachment.

`BackupsProofs` proves for all services, data, actions and attempts
(`BackupsAssumption`) `BackupsTypeCorrect`, then `TruthfulAlways`: an import process
that is done has imported all of its archive, the agent at "report done" has done
what it will report, and what the target held when the attempt began is still
there. It rests on two lemmas about every step: a registered row never changes
(`RowsStay`), and data shrinks only where a Redis volume without keys is cleared
(`DataGrows`). `DoneIsTrueAlways`, `RestorePreservesAlways` and `RestoredWholeAlways`
follow. `RegisteredCompleteAlways` has the hypothesis `Reconciled` (`Pending = {}`): a
crash may leave a Redis service running that is to be stopped, and only a
successful reconciliation stops it before the next attempt copies its volume.

`ReferencesProofs` proves for all services, names, buckets and requests
(`ReferencesAssumption`) `ReferencesTypeCorrect`: `Typed` says which requests can be
open with which parts, and that a bucket is locked once. The other two theorems
have hypotheses about `Serial`, which `MCSerial` satisfies. `BindingsCurrentAlways`
assumes `BindsAlone`: no `BindBucket` is open beside an owner's request, no
disconnection happens during a rotation. Its invariant `Current` says that a
service's prefix belongs to one bucket, the owner's open requests are for variables no
binding manages, and an open rotation has read all bindings (`Rebound` carries the
step that binds). `VariablesBoundedAlways` also assumes `CountsAlone`: a
request that counts without the service's lock is not open beside one that adds
or renames a variable. `Bounded` adds that such requests still have the room they counted, and
its steps rest on three facts about cardinalities: a variable that is there has
room (`RoomOfOwn`), a step that adds none keeps the bound (`BoundedStays`), and one that
adds one where there was room does too (`BoundedGrows`).

`ResolutionProofs` proves the three properties about chains of references, of any
length. `Reachable` and `Resolved` are recursive over it. The library's induction
theorems cannot be used here, so the proofs take the smallest length at which
a claim fails (`SmallestMember`, `NoneFails`, from the fact that `<` on the natural
numbers is well-founded) and show that there is none. The hypotheses are again
about `Serial`; `MCSerial` satisfies them, and the run keeps more requests apart
than they ask for.

* `ReferencesAcyclicAlways` assumes `ReferencesAlone`, that one reference is set at a
  time. `Reachable` is compared with sets closed under references
  (`ReachableWithin`, `ReachableCloses`: after as many rounds as there are
  applications nothing new is reached). The invariant `Directed` says that a
  closed set around each service leaves it out (`NoReturn`), and that an open
  request's target has one that leaves out the request's service
  (`StillOpenEnded`): what the check found still holds when it writes.
* `EnvironmentsResolveAlways` also assumes `TargetsHeld`, that setting references,
  renames and deletions do not overlap, nor a deletion and `BindDatabase`. `Led`: each
  reference leads to a variable that is there or to a name that was a bucket's,
  what an open request found, its target or that nobody refers to the variable it
  deletes, is still so.
  A variable that has no value after following i references rests on more than
  i services (`MissingLeadsOn`, `RestsShrink`), and there are not so many.
* `RenameKeepsValuesAlways` assumes `ReferencesAlone`, `BindsAlone` and `BindsWhole`, that
  neither a rename nor a deletion interrupts `BindDatabase`. `Owned`: a reference
  has a variable, which no binding manages, and a request between its
  statements still has what the next one rests on. Before and after the rename
  the two recursions are compared name by name (`RenameMoves`, `RenameKeeps`).

`RolloutProofs` proves for any number of releases, actions, attempts and faults
(`RolloutAssumption` and the queue's assumptions) that the agent's calls implement the
queue: `RolloutImplementsQueue` is `SpecRollout => Spec`, so every theorem of
`JobQueueProofs` holds beside the agent; `CancelledNeverServesBesideAgent` and
`ReleaseHeldBesideAgent` are the two the run checks. It needs to know which work a
call is made for, and what a late report can say (`WorkKnown`, `LateKnown`):
`RolloutInvariant`. `WritersSwapAlways` adds `WriterDown`: on the way forward the
replaced release does not run, on the way back the candidate does not. For
`PreviousRetainedAlways` it matters that the release the claim named went live and can
only be superseded since (`PreviousKnown`), which an activation does before `retire`
(`ActivationSupersedes`). Since `JobQueue` is implemented, so is `Release`
(`PromiseKeptBesideAgent`), and `OutcomeIsFinalBesideAgent` holds of late and repeated
reports.

`CronProofs` does the same for `CronExecution`: `CronInvariant`, `CronTypeCorrect`,
`ExecutedOnceAlways` and `SuccessIsRealAlways`. A run is executed once because the
container of a run that was executed is removed only after the run has ended
(`UnfinishedFresh`), and no attempt is granted to a run that has; a success is real
because a success on its way is (`LateTrue`). It starts where
a release is already live, so it is not `JobQueue` from its initial state; but its
steps are the queue's (`QueueSteps`) and its initial states satisfy the queue's
invariant, whence `QueueHoldsBesideAgent` and `OutcomeIsFinalBesideAgent`.

Only model-checked: liveness (`EveryJobFinishes`, `Converges`, `EveryBuildFinishes`,
`SuccessIsDeployed`, `RunsLeaveNothing`), which is out of the prover's reach. Every
other property of a passing run is the statement of a theorem.

Only proved, because a run of it would ask nothing new: the limits
(`QueueBoundedAlways`, `BuildsBoundedAlways`), one deployment for a key
(`KeyNamesOneAlways`), the measure of time (`TimeRunsOutAlways`), and two properties
of the builds that `KeepsDelivery` already shows (`BuildsOnceAlways`, and
`BuildIsFinalAlways` but for the difference between failed and cancelled).

## Not modelled

* Enrollment and the owner's setup are single conditional statements on one row;
  what could go wrong beside them is cryptography or PostgreSQL.
* The canvas, metrics, logs and `State` join rows of the modelled components for
  display and write nothing those rely on.
* The pre-deploy command has no effect on the node in `Rollout`; nothing in the
  code promises that it runs once.
* A snapshot of settings and environment in a deployment is the volume in
  `Volumes` and the values of `Resolved` in `References`, and nothing else.
* Several services on one node: the agent works on one job at a time, so services
  meet only in the queue (`JobQueue`, `Builds`) and on volumes (`Volumes`).
* A container that clears a Redis volume is taken to have ended when an agent
  that crashed is back (see the hazard at `volume_archive.go:203`).
* BuildKit, archive validation, the Docker API, GitHub's API, the cipher, the web
  interface, migrations and installation scripts: pure I/O or without state.
