--------------------------------- MODULE Builds ---------------------------------
(***************************************************************************)
(* Source builds: internal/builds' Store, the push webhook, and the        *)
(* server's loop that turns every successful build into a deployment.      *)
(*                                                                         *)
(* The deployment store appears as the abstract Release, which JobQueue    *)
(* implements; of its requests only what EnqueueBuilt is refused for is    *)
(* added: an unfinished action, a full queue, a missing cron schedule.     *)
(* The flush loop uses several transactions for one build, and the server  *)
(* may crash, or lose the database, between any two of them.               *)
(*                                                                         *)
(* Abstractions.  As in JobQueue, a build's number is its rank by          *)
(* (created_at, id), the attempt's number stands for its token, and of the *)
(* clock only the comparisons of the queries are kept.  What is built      *)
(* (commit, configuration, image) is left out, but a build's deployment    *)
(* request is determined by the build.                                     *)
(***************************************************************************)
EXTENDS Naturals, FiniteSets

CONSTANTS
  Services,     \* rows of table services with a source
  AutoDeploy,   \* those a push to their branch builds
  CronServices, \* those with workload_mode = 'cron'
  SourceBuilds, \* ranks of table source_builds
  Requests,     \* Idempotency-Key values and webhook deliveries
  Deliveries,   \* those that are deliveries
  Releases,     \* rows of table deployments
  NoService,
  NoRequest,
  None,         \* no release, no build
  BuildLimit,   \* unfinished builds a service may have (10 in the code)
  QueueLimit,   \* unfinished deployments a service may have (10 in the code)
  FlushLimit,   \* builds one round of the flush looks at (10 in the code)
  MaxAttempts   \* claims a build may use up (3 in the code)

ASSUME BuildsAssumption ==
  /\ SourceBuilds \subseteq Nat /\ IsFiniteSet(SourceBuilds)
  /\ None \notin SourceBuilds \cup Releases
  /\ NoService \notin Services
  /\ AutoDeploy \subseteq Services /\ CronServices \subseteq Services
  /\ Deliveries \subseteq Requests /\ NoRequest \notin Requests
  /\ BuildLimit \in Nat /\ QueueLimit \in Nat /\ FlushLimit \in Nat
  /\ MaxAttempts \in Nat

VARIABLES
  service,     \* service_id of each build
  status,      \* status of each build; "none" before the row exists
  attempt,     \* claims used so far, the token of the last one
  deadline,    \* "none", "ahead" or "past"
  due,         \* next_attempt <= now()
  cancelled,   \* cancel_requested
  request,     \* request_key
  deployment,  \* deployment_id, or None
  delivered,   \* table github_deliveries
  serving, fate, owner, barred,  \* the deployment store
  builtBy,     \* the build in a deployment's request_key, or None
  held,        \* the services with an unfinished action
  unscheduled, \* the cron services without a schedule
  batch,       \* the builds this round of the flush still has to deploy
  flushing     \* the deployment it just requested, not yet recorded, or None

claimVars == <<attempt, deadline, due>>
buildVars == <<service, status, claimVars, cancelled, request, deployment, delivered>>
storeVars == <<serving, fate, owner, barred, builtBy, held, unscheduled>>
flushVars == <<batch, flushing>>
vars == <<buildVars, storeVars, flushVars>>

Store == INSTANCE Release

--------------------------------------------------------------------------------
Unfinished(b) == status[b] \in {"queued", "building"}

UnfinishedOf(s) == {b \in SourceBuilds : service[b] = s /\ Unfinished(b)}

Init ==
  /\ service = [b \in SourceBuilds |-> NoService]
  /\ status = [b \in SourceBuilds |-> "none"]
  /\ attempt = [b \in SourceBuilds |-> 0]
  /\ deadline = [b \in SourceBuilds |-> "none"]
  /\ due = [b \in SourceBuilds |-> TRUE]
  /\ cancelled = [b \in SourceBuilds |-> FALSE]
  /\ request = [b \in SourceBuilds |-> NoRequest]
  /\ deployment = [b \in SourceBuilds |-> None]
  /\ delivered = {}
  /\ Store!Init
  /\ builtBy = [r \in Releases |-> None]
  /\ held = {}
  /\ unscheduled = CronServices
  /\ batch = {}
  /\ flushing = None

--------------------------------------------------------------------------------
(* Requests: the owner's and GitHub's. *)

HasRoom(s) == Cardinality(UnfinishedOf(s)) < BuildLimit

Stored(s, q) ==
  {b \in SourceBuilds : q # NoRequest /\ service[b] = s /\ request[b] = q}

\* One build for every service of the set: the rows are inserted in one
\* transaction.  New is the choice of the ranks.
InsertBuilds(New, q) ==
  LET Rows == {New[s] : s \in DOMAIN New}
      Of(b) == CHOOSE s \in DOMAIN New : New[s] = b
  IN  /\ \A b \in Rows : status[b] = "none"
      /\ \A s, u \in DOMAIN New : New[s] = New[u] => s = u
      /\ service' = [b \in SourceBuilds |-> IF b \in Rows THEN Of(b) ELSE service[b]]
      /\ status' = [b \in SourceBuilds |-> IF b \in Rows THEN "queued" ELSE status[b]]
      /\ request' = [b \in SourceBuilds |-> IF b \in Rows THEN q ELSE request[b]]
      /\ UNCHANGED <<claimVars, cancelled, deployment, storeVars, flushVars>>

\* A request that is stored already is answered with its build.
Enqueue(s, b, q) ==
  /\ Stored(s, q) = {}
  /\ HasRoom(s)
  /\ InsertBuilds([u \in {s} |-> b], q)
  /\ UNCHANGED delivered

\* One service without room refuses the delivery for all of them.
Push(q) ==
  LET Missing == {s \in AutoDeploy : Stored(s, q) = {}}
  IN  /\ q \notin delivered
      /\ \A s \in Missing : HasRoom(s)
      /\ \E New \in [Missing -> SourceBuilds] : InsertBuilds(New, q)
      /\ delivered' = delivered \cup {q}

\* Mutant: also cancels what has succeeded.
CancellableAlways(b) == status[b] # "none"

Cancellable(b) == Unfinished(b)

Cancel(b) ==
  /\ Cancellable(b)
  /\ cancelled' = [cancelled EXCEPT ![b] = TRUE]
  /\ status' = [status EXCEPT ![b] = IF @ = "queued" THEN "cancelled" ELSE @]
  /\ UNCHANGED <<service, claimVars, request, deployment, delivered, storeVars, flushVars>>

--------------------------------------------------------------------------------
(* The worker: claims and reports. *)

\* Mutant: only the deadline ends a build.
ExpiredByDeadline(b) == Unfinished(b) /\ deadline[b] = "past"

Expired(b) ==
  /\ Unfinished(b)
  /\ deadline[b] = "past" \/ (attempt[b] >= MaxAttempts /\ due[b])

\* Mutant: only a cancelled build ends.
StatusAfterExpiryCancelled ==
  [b \in SourceBuilds |->
     IF Expired(b) /\ cancelled[b] THEN "cancelled" ELSE status[b]]

StatusAfterExpiry ==
  [b \in SourceBuilds |->
     IF ~Expired(b) THEN status[b] ELSE IF cancelled[b] THEN "cancelled" ELSE "failed"]

Ready == {b \in SourceBuilds : Unfinished(b) /\ due[b] /\ ~Expired(b)}

\* The oldest build that is due, of any service; a cancelled one as well.
Claim ==
  /\ \/ \E b \in Ready :
          /\ \A c \in Ready : b <= c
          /\ status' = [StatusAfterExpiry EXCEPT ![b] = "building"]
          /\ attempt' = [attempt EXCEPT ![b] = @ + 1]
          /\ deadline' = [deadline EXCEPT ![b] = "ahead"]
          /\ due' = [due EXCEPT ![b] = FALSE]
     \/ Ready = {} /\ status' = StatusAfterExpiry /\ UNCHANGED claimVars
  /\ UNCHANGED <<service, cancelled, request, deployment, delivered, storeVars, flushVars>>

\* Mutant: a report needs no unfinished build, only the last token.
AcceptsFinished(b, t, outcome) ==
  /\ t # 0 /\ attempt[b] = t /\ deadline[b] = "ahead"
  /\ ~(cancelled[b] /\ outcome = "succeeded")

Accepts(b, t, outcome) ==
  /\ t # 0 /\ attempt[b] = t /\ deadline[b] = "ahead"
  /\ Unfinished(b) \/ status[b] = outcome
  /\ ~(cancelled[b] /\ outcome = "succeeded")

\* The monitor's progress reports ("building") and the final one, of any claim
\* the worker ever received.
Report(b, t, outcome) ==
  /\ Accepts(b, t, outcome)
  /\ status' = [status EXCEPT ![b] =
       IF cancelled[b] /\ outcome # "building" THEN "cancelled" ELSE outcome]
  /\ UNCHANGED <<service, claimVars, cancelled, request, deployment, delivered,
                 storeVars, flushVars>>

BackoffElapses(b) ==
  /\ Unfinished(b) /\ ~due[b]
  /\ due' = [due EXCEPT ![b] = TRUE]
  /\ UNCHANGED <<service, status, attempt, deadline, cancelled, request, deployment,
                 delivered, storeVars, flushVars>>

DeadlinePasses(b) ==
  /\ Unfinished(b) /\ deadline[b] = "ahead"
  /\ deadline' = [deadline EXCEPT ![b] = "past"]
  /\ UNCHANGED <<service, status, attempt, due, cancelled, request, deployment,
                 delivered, storeVars, flushVars>>

--------------------------------------------------------------------------------
(* The server: Flush. *)

\* Mutant: every request is a new deployment.
DeployedForgotten(b) == {}

\* The deployment an earlier request of this build has stored.
Deployed(b) == {r \in Releases : builtBy[r] = b}

\* Mutant: what is requested already needs no further attention.
AwaitingRequest == {b \in SourceBuilds : status[b] = "succeeded" /\ Deployed(b) = {}}

Awaiting == {b \in SourceBuilds : status[b] = "succeeded" /\ deployment[b] = None}

FlushIdle == batch = {} /\ flushing = None

\* SELECT ... ORDER BY created_at LIMIT 10
FlushRead ==
  /\ FlushIdle /\ Awaiting # {}
  /\ batch' = {b \in Awaiting : Cardinality({c \in Awaiting : c < b}) < FlushLimit}
  /\ UNCHANGED <<buildVars, storeVars, flushing>>

PendingOf(s) == {r \in Releases : owner[r] = s /\ fate[r] = "pending"}

\* What enqueueTxWithStart refuses a new deployment for.
Refused(s) ==
  \/ s \in unscheduled
  \/ s \in held
  \/ Cardinality(PendingOf(s)) >= QueueLimit

\* The build the loop is at.
First(b) == b \in batch /\ \A c \in batch : b <= c

\* EnqueueBuilt's answer for a build: the deployment an earlier request stored,
FlushFind(b) ==
  /\ First(b) /\ flushing = None
  /\ service[b] \notin unscheduled
  /\ flushing' \in Deployed(b)
  /\ UNCHANGED <<buildVars, storeVars, batch>>

\* a new one,
FlushDeploy(b, r) ==
  /\ First(b) /\ flushing = None
  /\ Deployed(b) = {} /\ ~Refused(service[b])
  /\ Store!Accept(service[b], r)
  /\ builtBy' = [builtBy EXCEPT ![r] = b]
  /\ flushing' = r
  /\ UNCHANGED <<buildVars, held, unscheduled, batch>>

\* or an error, which ends the round for the builds behind this one, too.
FlushRefused(b) ==
  /\ First(b) /\ flushing = None
  /\ service[b] \in unscheduled \/ (Deployed(b) = {} /\ Refused(service[b]))
  /\ batch' = {}
  /\ UNCHANGED <<buildVars, storeVars, flushing>>

FlushEnqueue ==
  \E b \in SourceBuilds :
    FlushFind(b) \/ FlushRefused(b) \/ \E r \in Releases : FlushDeploy(b, r)

FlushStore(b) ==
  /\ First(b) /\ flushing # None
  /\ deployment' = [deployment EXCEPT ![b] = IF @ = None THEN flushing ELSE @]
  /\ batch' = batch \ {b}
  /\ flushing' = None
  /\ UNCHANGED <<service, status, claimVars, cancelled, request, delivered, storeVars>>

FlushRecord == \E b \in SourceBuilds : FlushStore(b)

\* The server crashes, or a statement fails: the round is over.
FlushFails ==
  /\ ~FlushIdle
  /\ batch' = {} /\ flushing' = None
  /\ UNCHANGED <<buildVars, storeVars>>

Flush == FlushRead \/ FlushEnqueue \/ FlushRecord

--------------------------------------------------------------------------------
(* The rest of the deployment store. *)

\* Builds that may still need a deployment.
Undecided == {b \in SourceBuilds :
                status[b] \notin {"failed", "cancelled"} /\ Deployed(b) = {}}

\* The owner deploys an image.  The bound: there are deployments left for the
\* builds.
DeployDirectly(s, r) ==
  /\ ~Refused(s)
  /\ Cardinality({x \in Releases : fate[x] = "unknown"}) > Cardinality(Undecided)
  /\ Store!Accept(s, r)
  /\ UNCHANGED <<buildVars, builtBy, held, unscheduled, flushVars>>

StartAction(s) ==
  /\ serving[s] # None
  /\ s \notin held /\ PendingOf(s) = {}
  /\ held' = held \cup {s}
  /\ UNCHANGED <<buildVars, serving, fate, owner, barred, builtBy, unscheduled, flushVars>>

FinishAction(s) ==
  /\ s \in held
  /\ held' = held \ {s}
  /\ UNCHANGED <<buildVars, serving, fate, owner, barred, builtBy, unscheduled, flushVars>>

SaveCronSchedule(s) ==
  /\ s \in unscheduled
  /\ unscheduled' = unscheduled \ {s}
  /\ UNCHANGED <<buildVars, serving, fate, owner, barred, builtBy, held, flushVars>>

Conclude(r) ==
  /\ Store!GoLive(r) \/ Store!Drop({r})
  /\ UNCHANGED <<buildVars, builtBy, held, unscheduled, flushVars>>

CancelRelease(r) ==
  /\ Store!Bar(r)
  /\ UNCHANGED <<buildVars, builtBy, held, unscheduled, flushVars>>

--------------------------------------------------------------------------------
Ask ==
  \/ \E s \in Services, b \in SourceBuilds, q \in (Requests \ Deliveries) \cup {NoRequest} :
       Enqueue(s, b, q)
  \/ \E q \in Deliveries : Push(q)
  \/ \E b \in SourceBuilds : Cancel(b)

Work ==
  \/ Claim
  \/ \E b \in SourceBuilds, t \in 1 .. MaxAttempts :
       \E outcome \in {"building", "succeeded", "failed", "cancelled"} : Report(b, t, outcome)
  \/ \E b \in SourceBuilds : BackoffElapses(b) \/ DeadlinePasses(b)

Deploy ==
  \/ \E s \in Services : StartAction(s) \/ FinishAction(s) \/ SaveCronSchedule(s)
  \/ \E r \in Releases : Conclude(r) \/ CancelRelease(r)
  \/ \E s \in Services, r \in Releases : DeployDirectly(s, r)

Next == Ask \/ Work \/ Flush \/ FlushFails \/ Deploy

Spec == Init /\ [][Next]_vars

\* The agent is idle and asks for builds again and again, backoffs end, the
\* server's loop runs, every deployment and action ends (JobQueue's
\* EveryJobFinishes), and the owner does not request actions forever.  Nobody
\* has to report, and rounds of the flush may fail over and over, but not
\* always between the same two statements.
Fairness ==
  /\ WF_vars(Claim)
  /\ \A b \in SourceBuilds : WF_vars(BackoffElapses(b))
  /\ WF_vars(FlushRead)
  /\ SF_vars(FlushEnqueue) /\ SF_vars(FlushRecord)
  /\ \A s \in Services : WF_vars(FinishAction(s))
  /\ \A r \in Releases : WF_vars(Conclude(r))
  /\ <>[][\A s \in Services : ~StartAction(s)]_vars

FairSpec == Spec /\ Fairness

--------------------------------------------------------------------------------
(* Properties. *)

BuildsTypeOK ==
  /\ service \in [SourceBuilds -> Services \cup {NoService}]
  /\ status \in [SourceBuilds ->
       {"none", "queued", "building", "succeeded", "failed", "cancelled"}]
  /\ attempt \in [SourceBuilds -> 0 .. MaxAttempts]
  /\ deadline \in [SourceBuilds -> {"none", "ahead", "past"}]
  /\ due \in [SourceBuilds -> BOOLEAN]
  /\ cancelled \in [SourceBuilds -> BOOLEAN]
  /\ request \in [SourceBuilds -> Requests \cup {NoRequest}]
  /\ deployment \in [SourceBuilds -> Releases \cup {None}]
  /\ delivered \subseteq Deliveries
  /\ serving \in [Services -> Releases \cup {None}]
  /\ fate \in [Releases -> Store!Fates]
  /\ owner \in [Releases -> Services \cup {NoService}]
  /\ barred \subseteq Releases
  /\ builtBy \in [Releases -> SourceBuilds \cup {None}]
  /\ held \subseteq Services
  /\ unscheduled \subseteq CronServices
  /\ batch \subseteq SourceBuilds
  /\ flushing \in Releases \cup {None}

\* Only what was built successfully, and not cancelled, is deployed, and on the
\* service it was built for.
DeploysSuccess ==
  \A r \in Releases : builtBy[r] # None =>
    LET b == builtBy[r]
    IN  status[b] = "succeeded" /\ ~cancelled[b] /\ service[b] = owner[r]

\* A successful build becomes one deployment at most, however often the server
\* crashes between requesting it and recording it, and what is recorded is it.
DeploysOnce ==
  /\ \A q, r \in Releases : builtBy[q] # None /\ builtBy[q] = builtBy[r] => q = r
  /\ \A b \in SourceBuilds : deployment[b] # None => builtBy[deployment[b]] = b

\* A retried request of the owner or a redelivered push builds a service once.
BuildsOnce ==
  \A b, c \in SourceBuilds :
    request[b] # NoRequest /\ request[b] = request[c] /\ service[b] = service[c] => b = c

\* The builds waiting for one service never exceed the limit, also when one
\* push inserts for many services.
BuildsBounded ==
  \A s \in Services : Cardinality(UnfinishedOf(s)) <= BuildLimit

\* The end of a build is final, whatever late progress reports of its monitor or
\* final reports of older attempts arrive, and so is its deployment.
BuildIsFinal ==
  [][\A b \in SourceBuilds :
       /\ status[b] \in {"succeeded", "failed", "cancelled"} => status'[b] = status[b]
       /\ deployment[b] # None => deployment'[b] = deployment[b]]_vars

\* Every build ends, though no worker may ever report.
EveryBuildFinishes == \A b \in SourceBuilds : Unfinished(b) ~> ~Unfinished(b)

\* The server durably converts success into a deployment: a build whose own
\* service accepts deployments is deployed at last.
SuccessIsDeployed ==
  \A b \in SourceBuilds :
    status[b] = "succeeded" /\ service[b] \notin unscheduled ~> deployment[b] # None

\* The builds keep the abstract promise of Delivery.
LifeOf(st) ==
  IF st = "none" THEN "unknown"
  ELSE IF st \in {"queued", "building"} THEN "open"
  ELSE IF st = "succeeded" THEN "succeeded"
  ELSE "ended"

Promise == INSTANCE Delivery WITH
  life <- [b \in SourceBuilds |-> LifeOf(status[b])],
  refused <- {b \in SourceBuilds : cancelled[b]},
  origin <- builtBy,
  home <- [r \in Releases |-> IF builtBy[r] = None THEN NoService ELSE owner[r]],
  recorded <- deployment

KeepsDelivery == Promise!Spec

================================================================================
