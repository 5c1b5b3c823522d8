-------------------------------- MODULE Volumes --------------------------------
(***************************************************************************)
(* Which service may use which volume: internal/deployment's volumes.go,   *)
(* the settings form and the database templates of operations.go, and what *)
(* of deployments and actions decides whether a volume is in use.          *)
(*                                                                         *)
(* AttachVolume and DetachVolume lock the volume's row and then the        *)
(* service's, SaveSettings the service's and then the volume's.  A request *)
(* that waits for its second lock is an open session here; its reads are   *)
(* done when it opens and its writes appear when it commits.  Requests     *)
(* with one lock are one action that waits for that lock.  Any session may *)
(* end without effect: a refusal, a lost connection, or PostgreSQL's       *)
(* deadlock detector.                                                      *)
(*                                                                         *)
(* Abstractions.  There is one mount path, so a service has a mount path   *)
(* exactly when its settings name a volume.  A deployment is its snapshot  *)
(* of the settings' volume.  A service has one unfinished deployment at a  *)
(* time (the queue is JobQueue's), and all services share one project and  *)
(* environment.                                                            *)
(***************************************************************************)
EXTENDS FiniteSets

CONSTANTS
  Applications,  \* services with resource_kind = 'service' and no template
  Databases,     \* services CreateDatabase may create
  Standalone,    \* volumes CreateVolume may create
  OwnVolume,     \* VolumeID: the volume the settings form makes for a service
  Detachable,    \* the volumes the owner ever detaches
  Sessions,      \* requests that may wait for a second lock at one time
  ActionKinds,   \* the service actions that are requested
  Routed,        \* services whose networking form is saved
  NoVolume, NoRelease, NoService

Services == Applications \cup Databases
Volumes == Standalone \cup {OwnVolume[s] : s \in Services}

ASSUME VolumesAssumption ==
  /\ Applications \cap Databases = {}
  /\ \A s, t \in Services : OwnVolume[s] = OwnVolume[t] => s = t
  /\ \A s \in Services : OwnVolume[s] \notin Standalone
  /\ NoVolume \notin Volumes /\ NoRelease \notin Volumes /\ NoRelease # NoVolume
  /\ NoService \notin Services
  /\ ActionKinds \subseteq {"start", "stop", "restart", "backup", "restore"}
  /\ Routed \subseteq Applications

VARIABLES
  exists,      \* rows of table volumes
  attachment,  \* volume_attachments: the service of each volume, or NoService
  settings,    \* services.settings: the volume and the public route switch
  active,      \* the volume in the active deployment's snapshot, or NoRelease
  candidate,   \* the same of the unfinished deployment
  desired,     \* services.desired_state
  action,      \* the kind of the unfinished action, or "none"
  session      \* the open transactions on volumes

rows == <<exists, attachment, settings>>
work == <<active, candidate, desired, action>>
vars == <<rows, work, session>>

NoSettings == [volume |-> NoVolume, public |-> FALSE]
Idle == [op |-> "idle", volume |-> NoVolume, service |-> NoService, old |-> NoSettings]

Init ==
  /\ exists = {}
  /\ attachment = [v \in Volumes |-> NoService]
  /\ settings = [s \in Services |-> NoSettings]
  /\ active = [s \in Services |-> NoRelease]
  /\ candidate = [s \in Services |-> NoRelease]
  /\ desired = [s \in Services |-> "running"]
  /\ action = [s \in Services |-> "none"]
  /\ session = [x \in Sessions |-> Idle]

--------------------------------------------------------------------------------
(* Rows, locks and conditions of the requests. *)

Managed(v) == \E d \in Databases : v = OwnVolume[d]

\* Mutant: forgets resource_kind and template_key.
AttachableAlways(s) == TRUE

Attachable(s) == s \in Applications

\* A database's rows appear together, its volume among them.
Created(s) == s \in Databases => OwnVolume[s] \in exists

\* Mutant: no FOR UPDATE on the volume.
VolumeAlwaysFree(v) == TRUE

\* SELECT ... FROM volumes ... FOR UPDATE would return at once.
VolumeFree(v) ==
  \A x \in Sessions : session[x].op \in {"attach", "detach"} => session[x].volume # v

\* Mutant: no FOR UPDATE on the service.
ServiceAlwaysFree(s) == TRUE

\* SELECT ... FROM services ... FOR UPDATE would return at once.
ServiceFree(s) == \A x \in Sessions : session[x].op = "save" => session[x].service # s

Busy(s) == candidate[s] # NoRelease \/ action[s] # "none"

\* Mutant: a release that is not there any more is enough.
AtRestAlways(s) == TRUE

\* active = '' or desired = 'stopped'
AtRest(s) == active[s] = NoRelease \/ desired[s] = "stopped"

Open(x, op, v, s) ==
  /\ session[x] = Idle
  /\ session' = [session EXCEPT ![x] =
                   [op |-> op, volume |-> v, service |-> s, old |-> settings[s]]]

Close(x) == session' = [session EXCEPT ![x] = Idle]

--------------------------------------------------------------------------------
(* Volumes and attachments. *)

CreateVolume(v) ==
  /\ v \in Standalone \ exists
  /\ exists' = exists \cup {v}
  /\ UNCHANGED <<attachment, settings, work, session>>

\* AttachVolume up to its wait for the service's lock.
BeginAttach(x, v, s) ==
  /\ v \in exists /\ Attachable(s)
  /\ VolumeFree(v)
  /\ ~Managed(v)
  /\ attachment[v] = NoService
  /\ Open(x, "attach", v, s)
  /\ UNCHANGED <<rows, work>>

\* The rest of AttachVolume.  The attachments' keys allow a volume and a service
\* one row each.
FinishAttach(x) ==
  LET v == session[x].volume
      s == session[x].service
  IN  /\ session[x].op = "attach"
      /\ ServiceFree(s)
      /\ AtRest(s) /\ ~Busy(s)
      /\ \A w \in Volumes : attachment[w] # s
      /\ attachment[v] = NoService
      /\ attachment' = [attachment EXCEPT ![v] = s]
      /\ settings' = [settings EXCEPT ![s].volume = v]
      /\ Close(x)
      /\ UNCHANGED <<exists, work>>

\* DetachVolume up to its wait for the service's lock; it has read whose the
\* volume is.
BeginDetach(x, v) ==
  /\ v \in Detachable
  /\ VolumeFree(v)
  /\ attachment[v] # NoService
  /\ ~Managed(v)
  /\ Open(x, "detach", v, attachment[v])
  /\ UNCHANGED <<rows, work>>

FinishDetach(x) ==
  LET v == session[x].volume
      s == session[x].service
  IN  /\ session[x].op = "detach"
      /\ ServiceFree(s)
      /\ AtRest(s) /\ ~Busy(s)
      /\ attachment' = [attachment EXCEPT ![v] = NoService]
      /\ settings' = [settings EXCEPT ![s].volume = NoVolume]
      /\ Close(x)
      /\ UNCHANGED <<exists, work>>

--------------------------------------------------------------------------------
(* Settings. *)

\* SaveSettings up to its wait for the volume's lock.  The form's mount path may
\* be entered, and once there is one it may not be changed.
BeginSave(x, s, mounting) ==
  /\ Created(s)
  /\ ServiceFree(s)
  /\ settings[s].volume # NoVolume => mounting
  /\ Open(x, "save", IF mounting THEN OwnVolume[s] ELSE NoVolume, s)
  /\ UNCHANGED <<rows, work>>

\* The volume is inserted or updated, then its attachment, which moves here from
\* whatever service has it; a second attachment of this service is a violation
\* of its key.
FinishSave(x) ==
  LET v == session[x].volume
      s == session[x].service
  IN  /\ session[x].op = "save"
      /\ \/ /\ v = NoVolume
            /\ settings' = [settings EXCEPT ![s] = session[x].old]
            /\ UNCHANGED <<exists, attachment>>
         \/ /\ v # NoVolume
            /\ VolumeFree(v)
            /\ \A w \in Volumes \ {v} : attachment[w] # s
            /\ settings' = [settings EXCEPT ![s] = [session[x].old EXCEPT !.volume = v]]
            /\ exists' = exists \cup {v}
            /\ attachment' = [attachment EXCEPT ![v] = s]
      /\ Close(x)
      /\ UNCHANGED work

\* A refused or aborted request changes nothing.
Rollback(x) ==
  /\ session[x] # Idle
  /\ Close(x)
  /\ UNCHANGED <<rows, work>>

\* Reads and rewrites all settings under the service's lock.
SaveNetworking(s, public) ==
  /\ s \in Routed
  /\ ServiceFree(s)
  /\ settings[s].public # public
  /\ settings' = [settings EXCEPT ![s].public = public]
  /\ UNCHANGED <<exists, attachment, work, session>>

\* The service, its managed volume, the attachment and its first deployment are
\* one transaction.
CreateDatabase(d) ==
  /\ d \in Databases /\ ~Created(d)
  /\ exists' = exists \cup {OwnVolume[d]}
  /\ attachment' = [attachment EXCEPT ![OwnVolume[d]] = d]
  /\ settings' = [settings EXCEPT ![d].volume = OwnVolume[d]]
  /\ candidate' = [candidate EXCEPT ![d] = OwnVolume[d]]
  /\ UNCHANGED <<active, desired, action, session>>

--------------------------------------------------------------------------------
(* Deployments and actions, as far as they concern volumes. *)

\* The deployment keeps the settings of the moment it is requested.
EnqueueDeployment(s) ==
  /\ Created(s) /\ ServiceFree(s)
  /\ ~Busy(s)
  /\ candidate' = [candidate EXCEPT ![s] = settings[s].volume]
  /\ UNCHANGED <<rows, active, desired, action, session>>

Activate(s) ==
  /\ candidate[s] # NoRelease /\ ServiceFree(s)
  /\ active' = [active EXCEPT ![s] = candidate[s]]
  /\ desired' = [desired EXCEPT ![s] = "running"]
  /\ candidate' = [candidate EXCEPT ![s] = NoRelease]
  /\ UNCHANGED <<rows, action, session>>

\* Failed, cancelled or expired.
Drop(s) ==
  /\ candidate[s] # NoRelease
  /\ candidate' = [candidate EXCEPT ![s] = NoRelease]
  /\ UNCHANGED <<rows, active, desired, action, session>>

\* Mutant: a stopped release is started with the volume it had.
VolumeNeverChanged(s) == TRUE

VolumeUnchanged(s) == active[s] = settings[s].volume

\* Data services but Redis are dumped running, volumes are copied stopped.
Exportable(s) ==
  IF s \in Databases THEN desired[s] = "running"
  ELSE settings[s].volume # NoVolume /\ desired[s] = "stopped"

EnqueueAction(s, k) ==
  /\ ServiceFree(s)
  /\ active[s] # NoRelease
  /\ k \in {"start", "restart"} => VolumeUnchanged(s)
  /\ k \in {"backup", "restore"} => Exportable(s)
  /\ ~Busy(s)
  /\ action' = [action EXCEPT ![s] = k]
  /\ UNCHANGED <<rows, active, candidate, desired, session>>

ActionDone(s) ==
  /\ action[s] # "none" /\ ServiceFree(s)
  /\ desired' = [desired EXCEPT ![s] =
       IF action[s] = "stop" THEN "stopped"
       ELSE IF action[s] \in {"start", "restart"} THEN "running" ELSE @]
  /\ action' = [action EXCEPT ![s] = "none"]
  /\ UNCHANGED <<rows, active, candidate, session>>

ActionFailed(s) ==
  /\ action[s] # "none"
  /\ action' = [action EXCEPT ![s] = "none"]
  /\ UNCHANGED <<rows, active, candidate, desired, session>>

--------------------------------------------------------------------------------
Attach(x) ==
  \/ \E v \in Volumes, s \in Services : BeginAttach(x, v, s)
  \/ FinishAttach(x)

Detach(x) == FinishDetach(x) \/ \E v \in Volumes : BeginDetach(x, v)

Save(x) == FinishSave(x) \/ \E s \in Services, mounting \in BOOLEAN : BeginSave(x, s, mounting)

Work(s) ==
  \/ EnqueueDeployment(s) \/ Activate(s) \/ Drop(s)
  \/ ActionDone(s) \/ ActionFailed(s)
  \/ \E k \in ActionKinds : EnqueueAction(s, k)

Next ==
  \/ \E v \in Volumes : CreateVolume(v)
  \/ \E x \in Sessions : Attach(x) \/ Detach(x) \/ Save(x) \/ Rollback(x)
  \/ \E s \in Services, public \in BOOLEAN : SaveNetworking(s, public)
  \/ \E s \in Services : CreateDatabase(s) \/ Work(s)

Spec == Init /\ [][Next]_vars

--------------------------------------------------------------------------------
(* Properties. *)

SettingsType == [volume : Volumes \cup {NoVolume}, public : BOOLEAN]

VolumesTypeOK ==
  /\ exists \subseteq Volumes
  /\ attachment \in [Volumes -> Services \cup {NoService}]
  /\ settings \in [Services -> SettingsType]
  /\ active \in [Services -> Volumes \cup {NoVolume, NoRelease}]
  /\ candidate \in [Services -> Volumes \cup {NoVolume, NoRelease}]
  /\ desired \in [Services -> {"running", "stopped"}]
  /\ action \in [Services -> ActionKinds \cup {"none"}]
  /\ session \in [Sessions -> [op : {"idle", "attach", "detach", "save"},
                               volume : Volumes \cup {NoVolume},
                               service : Services \cup {NoService},
                               old : SettingsType]]
  /\ \A v \in Volumes : attachment[v] # NoService => v \in exists
  /\ \A x \in Sessions : session[x].op = "attach" => session[x].service \in Applications

\* The volumes containers of a service may be writing to, as far as the store
\* knows: of the deployment being rolled out and of the release that is meant to
\* run or is being started.
Uses(s) ==
  {v \in Volumes :
     \/ v = candidate[s]
     \/ v = active[s] /\ (desired[s] = "running" \/ action[s] \in {"start", "restart"})}

\* One active writer: whatever is attached, detached, saved, deployed, stopped
\* and started in whatever order, no volume is in use by two services.
VolumeExclusive ==
  \A s, t \in Services : s # t => Uses(s) \cap Uses(t) = {}

\* The attachments, which AttachVolume and the canvas go by, and the settings,
\* which deployments are made from, say the same.
AttachmentsAgree ==
  \A s \in Services, v \in Volumes : attachment[v] = s <=> settings[s].volume = v

\* What a service uses is what its settings name: a running service never loses
\* its volume, and a release made for another volume does not come back.
UsesConfigured == \A s \in Services : Uses(s) \subseteq {settings[s].volume}

\* No save of other settings is lost: the public route changes only by
\* SaveNetworking, although every form rewrites all of the settings.
NetworkingKept ==
  [][\A s \in Services :
       settings'[s].public # settings[s].public =>
         \E public \in BOOLEAN : SaveNetworking(s, public)]_vars
================================================================================
