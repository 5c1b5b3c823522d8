----------------------------- MODULE VolumesProofs -----------------------------
(***************************************************************************)
(* Proofs about Volumes, for every set of services, volumes and requests.  *)
(***************************************************************************)
EXTENDS Volumes, TLAPS

--------------------------------------------------------------------------------
(* What the open transactions know and hold. *)

OnVolumes == {"attach", "detach"}

\* The rows a transaction has read under its locks are still as it read them.
Session(x) ==
  /\ session[x].op \in OnVolumes =>
       /\ session[x].volume \in exists
       /\ session[x].service \in Services
       /\ ~Managed(session[x].volume)
  /\ session[x].op = "detach" => session[x].volume \in Detachable
  /\ session[x].op = "save" =>
       /\ session[x].service \in Services
       /\ Created(session[x].service)
       /\ session[x].volume \in {NoVolume, OwnVolume[session[x].service]}
       /\ session[x].old = settings[session[x].service]

\* No row is locked twice.
LocksHeld ==
  \A x, y \in Sessions : x # y =>
    /\ session[x].op \in OnVolumes /\ session[y].op \in OnVolumes =>
         session[x].volume # session[y].volume
    /\ session[x].op = "save" /\ session[y].op = "save" =>
         session[x].service # session[y].service

Typed == VolumesTypeOK /\ LocksHeld /\ \A x \in Sessions : Session(x)

\* A transaction that ends leaves the others as they are.
LEMMA CloseKeeps ==
  ASSUME VolumesTypeOK, LocksHeld, NEW x \in Sessions, Close(x)
  PROVE  /\ LocksHeld'
         /\ session'[x] = Idle
         /\ \A y \in Sessions \ {x} : session'[y] = session[y]
         /\ session' \in [Sessions -> [op : {"idle", "attach", "detach", "save"},
                                       volume : Volumes \cup {NoVolume},
                                       service : Services \cup {NoService},
                                       old : SettingsType]]
<1>1. /\ session'[x] = Idle
      /\ \A y \in Sessions \ {x} : session'[y] = session[y]
  BY DEF Close, VolumesTypeOK
<1>2. Idle.op \notin OnVolumes /\ Idle.op # "save"
  BY DEF Idle, OnVolumes
<1>3. LocksHeld'
  BY <1>1, <1>2 DEF LocksHeld
<1>4. Idle \in [op : {"idle", "attach", "detach", "save"}, volume : Volumes \cup {NoVolume},
                service : Services \cup {NoService}, old : SettingsType]
  BY DEF Idle, NoSettings, SettingsType
<1> QED BY <1>1, <1>3, <1>4 DEF Close, VolumesTypeOK

\* A transaction begins with the rows it has locked to itself.
LEMMA OpenKeeps ==
  ASSUME VolumesTypeOK, LocksHeld, NEW x \in Sessions,
         NEW op \in {"attach", "detach", "save"}, NEW v \in Volumes \cup {NoVolume},
         NEW s \in Services, Open(x, op, v, s),
         op \in OnVolumes => VolumeFree(v), op = "save" => ServiceFree(s)
  PROVE  /\ LocksHeld'
         /\ session'[x] = [op |-> op, volume |-> v, service |-> s, old |-> settings[s]]
         /\ \A y \in Sessions \ {x} : session'[y] = session[y]
         /\ session' \in [Sessions -> [op : {"idle", "attach", "detach", "save"},
                                       volume : Volumes \cup {NoVolume},
                                       service : Services \cup {NoService},
                                       old : SettingsType]]
<1>1. /\ session'[x] = [op |-> op, volume |-> v, service |-> s, old |-> settings[s]]
      /\ \A y \in Sessions \ {x} : session'[y] = session[y]
  BY DEF Open, VolumesTypeOK
<1>2. /\ session'[x].op = op /\ session'[x].volume = v /\ session'[x].service = s
  BY <1>1
<1>3. LocksHeld'
  BY <1>1, <1>2 DEF LocksHeld, VolumeFree, ServiceFree, OnVolumes
<1>4. settings[s] \in SettingsType
  BY DEF VolumesTypeOK
<1> QED BY <1>1, <1>3, <1>4 DEF Open, VolumesTypeOK

\* What a transaction knows depends on the rows of its volume and its service.
LEMMA SessionStays ==
  ASSUME NEW y \in Sessions, Session(y), session'[y] = session[y],
         exists \subseteq exists',
         session[y].op = "save" =>
           settings'[session[y].service] = settings[session[y].service]
  PROVE  Session(y)'
BY DEF Session, Managed, Created

--------------------------------------------------------------------------------
(* Type correctness. *)

LEMMA TypedInit == Init => Typed
<1> SUFFICES ASSUME Init PROVE Typed
  OBVIOUS
<1>1. VolumesTypeOK
  BY VolumesAssumption DEF Init, VolumesTypeOK, Idle, NoSettings, SettingsType
<1>2. \A x \in Sessions : session[x].op = "idle"
  BY DEF Init, Idle
<1> QED BY <1>1, <1>2 DEF Typed, LocksHeld, Session, OnVolumes

\* Opening a transaction.
LEMMA TypedBegin ==
  ASSUME Typed, NEW x \in Sessions,
         \/ \E v \in Volumes, s \in Services : BeginAttach(x, v, s)
         \/ \E v \in Volumes : BeginDetach(x, v)
         \/ \E s \in Services, mounting \in BOOLEAN : BeginSave(x, s, mounting)
  PROVE  Typed'
<1> USE DEF Typed
<1>1. ASSUME NEW op \in {"attach", "detach", "save"}, NEW v \in Volumes \cup {NoVolume},
             NEW s \in Services, Open(x, op, v, s), UNCHANGED <<rows, work>>,
             op \in OnVolumes => VolumeFree(v) /\ v \in exists /\ ~Managed(v),
             op = "attach" => s \in Applications,
             op = "detach" => v \in Detachable,
             op = "save" => ServiceFree(s) /\ Created(s) /\ v \in {NoVolume, OwnVolume[s]}
      PROVE  Typed'
  <2>1. /\ LocksHeld'
        /\ session'[x] = [op |-> op, volume |-> v, service |-> s, old |-> settings[s]]
        /\ \A y \in Sessions \ {x} : session'[y] = session[y]
        /\ session' \in [Sessions -> [op : {"idle", "attach", "detach", "save"},
                                      volume : Volumes \cup {NoVolume},
                                      service : Services \cup {NoService},
                                      old : SettingsType]]
    BY <1>1, OpenKeeps
  <2>2. /\ session'[x].op = op /\ session'[x].volume = v /\ session'[x].service = s
        /\ session'[x].old = settings[s]
    BY <2>1
  <2>3. VolumesTypeOK'
    BY <1>1, <2>1, <2>2 DEF VolumesTypeOK, rows, work
  <2>4. Session(x)'
    BY <1>1, <2>2 DEF Session, Managed, Created, rows, OnVolumes
  <2>5. \A y \in Sessions \ {x} : Session(y)'
    BY <1>1, <2>1, SessionStays DEF rows
  <2> QED BY <2>1, <2>3, <2>4, <2>5
<1>2. ASSUME NEW v \in Volumes, NEW s \in Services, BeginAttach(x, v, s)
      PROVE  Typed'
  BY <1>1, <1>2 DEF BeginAttach, Attachable, OnVolumes
<1>3. ASSUME NEW v \in Volumes, BeginDetach(x, v)
      PROVE  Typed'
  <2>1. attachment[v] \in Services /\ v \in exists
    BY <1>3 DEF BeginDetach, VolumesTypeOK
  <2> QED BY <1>1, <1>3, <2>1 DEF BeginDetach, OnVolumes
<1>4. ASSUME NEW s \in Services, NEW mounting \in BOOLEAN, BeginSave(x, s, mounting)
      PROVE  Typed'
  <2>1. OwnVolume[s] \in Volumes
    BY DEF Volumes
  <2> QED BY <1>1, <1>4, <2>1 DEF BeginSave, OnVolumes
<1> QED BY <1>2, <1>3, <1>4

\* Ending a transaction.
LEMMA TypedFinish ==
  ASSUME Typed, NEW x \in Sessions,
         FinishAttach(x) \/ FinishDetach(x) \/ FinishSave(x) \/ Rollback(x)
  PROVE  Typed'
<1> USE DEF Typed
<1> DEFINE v == session[x].volume
           s == session[x].service
<1>1. ASSUME Close(x), exists \subseteq exists', UNCHANGED work,
             \A y \in Sessions \ {x} : session[y].op = "save" =>
               settings'[session[y].service] = settings[session[y].service],
             exists' \subseteq Volumes,
             attachment' \in [Volumes -> Services \cup {NoService}],
             settings' \in [Services -> SettingsType],
             \A w \in Volumes : attachment'[w] # NoService => w \in exists'
      PROVE  Typed'
  <2>1. /\ LocksHeld'
        /\ session'[x] = Idle
        /\ \A y \in Sessions \ {x} : session'[y] = session[y]
        /\ session' \in [Sessions -> [op : {"idle", "attach", "detach", "save"},
                                      volume : Volumes \cup {NoVolume},
                                      service : Services \cup {NoService},
                                      old : SettingsType]]
    BY <1>1, CloseKeeps
  <2>2. session'[x].op = "idle"
    BY <2>1 DEF Idle
  <2>3. VolumesTypeOK'
    BY <1>1, <2>1, <2>2 DEF VolumesTypeOK, work
  <2>4. Session(x)'
    BY <2>2 DEF Session, OnVolumes
  <2>5. \A y \in Sessions \ {x} : Session(y)'
    BY <1>1, <2>1, SessionStays
  <2> QED BY <2>1, <2>3, <2>4, <2>5
<1>2. CASE FinishAttach(x)
  <2>1. /\ v \in Volumes /\ v \in exists /\ s \in Services /\ ServiceFree(s)
    BY <1>2 DEF FinishAttach, Session, OnVolumes, VolumesTypeOK
  <2>2. settings' = [settings EXCEPT ![s].volume = v]
    BY <1>2 DEF FinishAttach
  <2>3. settings' \in [Services -> SettingsType]
    BY <2>1, <2>2 DEF VolumesTypeOK, SettingsType
  <2>4. \A y \in Sessions \ {x} : session[y].op = "save" =>
          settings'[session[y].service] = settings[session[y].service]
    BY <2>1, <2>2 DEF ServiceFree, Session, VolumesTypeOK
  <2> QED BY <1>1, <1>2, <2>1, <2>3, <2>4 DEF FinishAttach, VolumesTypeOK
<1>3. CASE FinishDetach(x)
  <2>1. /\ v \in Volumes /\ v \in exists /\ s \in Services /\ ServiceFree(s)
    BY <1>3 DEF FinishDetach, Session, OnVolumes, VolumesTypeOK
  <2>2. settings' = [settings EXCEPT ![s].volume = NoVolume]
    BY <1>3 DEF FinishDetach
  <2>3. settings' \in [Services -> SettingsType]
    BY <2>1, <2>2 DEF VolumesTypeOK, SettingsType
  <2>4. \A y \in Sessions \ {x} : session[y].op = "save" =>
          settings'[session[y].service] = settings[session[y].service]
    BY <2>1, <2>2 DEF ServiceFree, Session, VolumesTypeOK
  <2> QED BY <1>1, <1>3, <2>1, <2>3, <2>4 DEF FinishDetach, VolumesTypeOK
<1>4. CASE FinishSave(x)
  <2>1. /\ s \in Services /\ OwnVolume[s] \in Volumes
        /\ session[x].old = settings[s] /\ v \in {NoVolume, OwnVolume[s]}
        /\ session[x].op = "save"
    BY <1>4 DEF FinishSave, Session, Volumes
  <2>2. CASE v = NoVolume
    <3>1. UNCHANGED <<exists, attachment>> /\ settings' = [settings EXCEPT ![s] = settings[s]]
      BY <1>4, <2>1, <2>2 DEF FinishSave
    <3>2. settings' = settings
      BY <3>1 DEF VolumesTypeOK
    <3> QED BY <1>1, <1>4, <3>1, <3>2 DEF FinishSave, VolumesTypeOK
  <2>3. CASE v # NoVolume
    <3>1. /\ settings' = [settings EXCEPT ![s] = [settings[s] EXCEPT !.volume = v]]
          /\ exists' = exists \cup {v}
          /\ attachment' = [attachment EXCEPT ![v] = s]
      BY <1>4, <2>1, <2>3 DEF FinishSave
    <3>2. settings' \in [Services -> SettingsType]
      BY <2>1, <2>3, <3>1 DEF VolumesTypeOK, SettingsType
    <3>3. \A y \in Sessions \ {x} : session[y].op = "save" =>
            settings'[session[y].service] = settings[session[y].service]
      BY <2>1, <3>1 DEF LocksHeld, Session, VolumesTypeOK
    <3> QED BY <1>1, <1>4, <2>1, <2>3, <3>1, <3>2, <3>3 DEF FinishSave, VolumesTypeOK
  <2> QED BY <2>2, <2>3
<1>5. CASE Rollback(x)
  BY <1>1, <1>5 DEF Rollback, rows, VolumesTypeOK
<1> QED BY <1>2, <1>3, <1>4, <1>5

\* Requests that are one transaction.
LEMMA TypedAtOnce ==
  ASSUME Typed,
         \/ \E v \in Volumes : CreateVolume(v)
         \/ \E s \in Services, public \in BOOLEAN : SaveNetworking(s, public)
         \/ \E s \in Services : CreateDatabase(s) \/ Work(s)
  PROVE  Typed'
<1> USE DEF Typed
<1>1. ASSUME UNCHANGED session, VolumesTypeOK', exists \subseteq exists',
             \A y \in Sessions : session[y].op = "save" =>
               settings'[session[y].service] = settings[session[y].service]
      PROVE  Typed'
  <2>1. \A y \in Sessions : Session(y)'
    BY <1>1, SessionStays
  <2> QED BY <1>1, <2>1 DEF LocksHeld
<1>2. ASSUME NEW v \in Volumes, CreateVolume(v) PROVE Typed'
  <2>1. VolumesTypeOK'
    BY <1>2 DEF CreateVolume, VolumesTypeOK, work
  <2> QED BY <1>1, <1>2, <2>1 DEF CreateVolume
<1>3. ASSUME NEW s \in Services, NEW public \in BOOLEAN, SaveNetworking(s, public)
      PROVE  Typed'
  <2>1. settings' \in [Services -> SettingsType]
    BY <1>3 DEF SaveNetworking, VolumesTypeOK, SettingsType
  <2>2. VolumesTypeOK'
    BY <1>3, <2>1 DEF SaveNetworking, VolumesTypeOK, work
  <2>3. \A y \in Sessions : session[y].op = "save" =>
          settings'[session[y].service] = settings[session[y].service]
    BY <1>3 DEF SaveNetworking, ServiceFree, Session, VolumesTypeOK
  <2> QED BY <1>1, <1>3, <2>2, <2>3 DEF SaveNetworking
<1>4. ASSUME NEW d \in Services, CreateDatabase(d) PROVE Typed'
  <2>1. OwnVolume[d] \in Volumes
    BY DEF Volumes
  <2>2. settings' \in [Services -> SettingsType]
    BY <1>4, <2>1 DEF CreateDatabase, VolumesTypeOK, SettingsType
  <2>3. VolumesTypeOK'
    BY <1>4, <2>1, <2>2 DEF CreateDatabase, VolumesTypeOK
  <2>4. \A y \in Sessions : session[y].op = "save" =>
          settings'[session[y].service] = settings[session[y].service]
    BY <1>4 DEF CreateDatabase, Created, Session, VolumesTypeOK
  <2> QED BY <1>1, <1>4, <2>3, <2>4 DEF CreateDatabase
<1>5. ASSUME NEW s \in Services, Work(s) PROVE Typed'
  <2>1. UNCHANGED <<rows, session>>
    BY <1>5 DEF Work, EnqueueDeployment, Activate, Drop, EnqueueAction, ActionDone,
       ActionFailed
  <2>2. /\ active' \in [Services -> Volumes \cup {NoVolume, NoRelease}]
        /\ candidate' \in [Services -> Volumes \cup {NoVolume, NoRelease}]
    <3>1. /\ active \in [Services -> Volumes \cup {NoVolume, NoRelease}]
          /\ candidate \in [Services -> Volumes \cup {NoVolume, NoRelease}]
          /\ settings[s].volume \in Volumes \cup {NoVolume}
      BY DEF VolumesTypeOK, SettingsType
    <3>2. CASE EnqueueDeployment(s)
      BY <3>1, <3>2 DEF EnqueueDeployment
    <3>3. CASE Activate(s)
      BY <3>1, <3>3 DEF Activate
    <3>4. CASE Drop(s)
      BY <3>1, <3>4 DEF Drop
    <3>5. CASE ActionDone(s) \/ ActionFailed(s) \/ \E k \in ActionKinds : EnqueueAction(s, k)
      BY <3>1, <3>5 DEF ActionDone, ActionFailed, EnqueueAction
    <3> QED BY <1>5, <3>2, <3>3, <3>4, <3>5 DEF Work
  <2>3. desired' \in [Services -> {"running", "stopped"}]
    BY <1>5 DEF Work, EnqueueDeployment, Activate, Drop, EnqueueAction, ActionDone,
       ActionFailed, VolumesTypeOK
  <2>4. action' \in [Services -> ActionKinds \cup {"none"}]
    BY <1>5 DEF Work, EnqueueDeployment, Activate, Drop, EnqueueAction, ActionDone,
       ActionFailed, VolumesTypeOK
  <2>5. VolumesTypeOK'
    BY <2>1, <2>2, <2>3, <2>4 DEF VolumesTypeOK, rows
  <2> QED BY <1>1, <2>1, <2>5 DEF rows
<1> QED BY <1>2, <1>3, <1>4, <1>5

LEMMA TypedNext == Typed /\ [Next]_vars => Typed'
<1> SUFFICES ASSUME Typed, [Next]_vars PROVE Typed'
  OBVIOUS
<1>1. CASE UNCHANGED vars
  BY <1>1 DEF Typed, VolumesTypeOK, LocksHeld, Session, Managed, Created, vars, rows, work
<1>2. CASE Next
  <2>1. ASSUME NEW x \in Sessions, Attach(x) \/ Detach(x) \/ Save(x) \/ Rollback(x)
        PROVE  Typed'
    BY <2>1, TypedBegin, TypedFinish DEF Attach, Detach, Save
  <2> QED BY <1>2, <2>1, TypedAtOnce DEF Next
<1> QED BY <1>1, <1>2

\* The rows, the work on the services and the open transactions have their types
\* in every reachable state; only rows of volumes that exist are attached.
THEOREM VolumesTypeCorrect == Spec => []VolumesTypeOK
<1>1. Typed => VolumesTypeOK
  BY DEF Typed
<1> QED BY <1>1, TypedInit, TypedNext, PTL DEF Spec

\* What the transactions read under their locks stays so until they end.
THEOREM LocksProtect == Spec => []Typed
BY TypedInit, TypedNext, PTL DEF Spec

\* No save of other settings is lost: only SaveNetworking changes the public route.
THEOREM NetworkingKeptAlways == Spec => NetworkingKept
<1> DEFINE Kept == \A s \in Services :
             settings'[s].public # settings[s].public =>
               \E public \in BOOLEAN : SaveNetworking(s, public)
<1>1. Typed /\ [Next]_vars => [Kept]_vars
  <2> SUFFICES ASSUME Typed, Next, NEW s \in Services,
                      settings'[s].public # settings[s].public
               PROVE  \E public \in BOOLEAN : SaveNetworking(s, public)
    OBVIOUS
  <2> USE DEF Typed
  <2>1. ASSUME NEW x \in Sessions, Attach(x) \/ Detach(x) \/ Save(x) \/ Rollback(x)
        PROVE  FALSE
    <3>1. CASE \/ FinishAttach(x) \/ FinishDetach(x)
      BY <3>1 DEF FinishAttach, FinishDetach, VolumesTypeOK, SettingsType
    <3>2. CASE FinishSave(x)
      BY <3>2 DEF FinishSave, Session, VolumesTypeOK, SettingsType
    <3>3. CASE UNCHANGED settings
      BY <3>3
    <3> QED BY <2>1, <3>1, <3>2, <3>3
        DEF Attach, Detach, Save, Rollback, BeginAttach, BeginDetach, BeginSave, rows
  <2>2. ASSUME NEW t \in Services, NEW public \in BOOLEAN, SaveNetworking(t, public)
        PROVE  s = t
    BY <2>2 DEF SaveNetworking, VolumesTypeOK, SettingsType
  <2>3. ASSUME NEW v \in Volumes, CreateVolume(v)
        PROVE  FALSE
    BY <2>3 DEF CreateVolume
  <2>4. ASSUME NEW t \in Services, CreateDatabase(t) \/ Work(t)
        PROVE  FALSE
    <3>1. CASE CreateDatabase(t)
      BY <3>1 DEF CreateDatabase, VolumesTypeOK, SettingsType
    <3>2. CASE Work(t)
      BY <3>2 DEF Work, EnqueueDeployment, Activate, Drop, EnqueueAction, ActionDone,
         ActionFailed, rows
    <3> QED BY <2>4, <3>1, <3>2
  <2> QED BY <2>1, <2>2, <2>3, <2>4 DEF Next
<1> QED BY <1>1, LocksProtect, PTL DEF Spec, NetworkingKept

--------------------------------------------------------------------------------
(* Exclusive volumes. *)

\* The owner never detaches a volume that the settings form made for a service.
\* Without this, the form takes the volume back from whoever has it meanwhile.
OwnKept == \A s \in Applications : OwnVolume[s] \notin Detachable

\* A volume made for a service is attached to it, and databases have no other.
Owned ==
  /\ \A s \in Services : OwnVolume[s] \in exists => attachment[OwnVolume[s]] = s
  /\ \A d \in Databases : settings[d].volume \in {NoVolume, OwnVolume[d]}

\* What AttachVolume and DetachVolume have read of the attachment under its lock.
Claims ==
  \A x \in Sessions :
    /\ session[x].op = "attach" => attachment[session[x].volume] = NoService
    /\ session[x].op = "detach" => attachment[session[x].volume] = session[x].service

Consistent == AttachmentsAgree /\ Owned /\ Claims

Exclusive == Consistent /\ UsesConfigured

LEMMA ExclusiveInit == Init => Exclusive
<1> SUFFICES ASSUME Init PROVE Exclusive
  OBVIOUS
<1>1. AttachmentsAgree
  BY VolumesAssumption DEF Init, AttachmentsAgree, NoSettings
<1>2. Owned /\ Claims
  BY DEF Init, Owned, Claims, Idle, NoSettings, Services
<1>3. UsesConfigured
  BY VolumesAssumption DEF Init, UsesConfigured, Uses
<1> QED BY <1>1, <1>2, <1>3 DEF Exclusive, Consistent

\* Every service has one volume: nothing else attaches or names a second one.
LEMMA ConsistentFinish ==
  ASSUME OwnKept, Typed, Consistent, NEW x \in Sessions,
         FinishAttach(x) \/ FinishDetach(x) \/ FinishSave(x) \/ Rollback(x)
  PROVE  Consistent'
<1> USE DEF Typed, Consistent
<1> DEFINE v == session[x].volume
           s == session[x].service
<1>1. /\ session'[x].op = "idle"
      /\ \A y \in Sessions \ {x} : session'[y] = session[y]
  BY CloseKeeps DEF FinishAttach, FinishDetach, FinishSave, Rollback, Idle
<1>2. ASSUME \A y \in Sessions \ {x} :
               session[y].op \in OnVolumes =>
                 attachment'[session[y].volume] = attachment[session[y].volume]
      PROVE  Claims'
  BY <1>1, <1>2 DEF Claims, OnVolumes
<1>3. CASE FinishAttach(x)
  <2>1. /\ session[x].op = "attach"
        /\ v \in Volumes /\ v \in exists /\ s \in Applications /\ s \in Services
        /\ attachment[v] = NoService
        /\ \A w \in Volumes : attachment[w] # s
        /\ attachment' = [attachment EXCEPT ![v] = s]
        /\ settings' = [settings EXCEPT ![s].volume = v]
        /\ UNCHANGED exists
    BY <1>3 DEF FinishAttach, Session, OnVolumes, VolumesTypeOK
  <2>2. \A t \in Services : OwnVolume[t] # v
    BY <2>1, VolumesAssumption DEF Owned
  <2>3. AttachmentsAgree'
    BY <2>1, VolumesAssumption DEF AttachmentsAgree, VolumesTypeOK, SettingsType
  <2>4. Owned'
    BY <2>1, <2>2, VolumesAssumption DEF Owned, VolumesTypeOK, Services, Volumes
  <2>5. Claims'
    BY <1>2, <2>1 DEF LocksHeld, OnVolumes, VolumesTypeOK
  <2> QED BY <2>3, <2>4, <2>5
<1>4. CASE FinishDetach(x)
  <2>1. /\ session[x].op = "detach"
        /\ v \in Volumes /\ v \in exists /\ s \in Services
        /\ v \in Detachable /\ ~Managed(v)
        /\ attachment[v] = s
        /\ attachment' = [attachment EXCEPT ![v] = NoService]
        /\ settings' = [settings EXCEPT ![s].volume = NoVolume]
        /\ UNCHANGED exists
    BY <1>4 DEF FinishDetach, Session, OnVolumes, VolumesTypeOK, Claims
  <2>2. \A t \in Services : OwnVolume[t] # v
    BY <2>1 DEF OwnKept, Managed, Services
  <2>3. AttachmentsAgree'
    BY <2>1, VolumesAssumption DEF AttachmentsAgree, VolumesTypeOK, SettingsType
  <2>4. Owned'
    BY <2>1, <2>2, VolumesAssumption DEF Owned, VolumesTypeOK, Services, Volumes
  <2>5. Claims'
    BY <1>2, <2>1 DEF LocksHeld, OnVolumes, VolumesTypeOK
  <2> QED BY <2>3, <2>4, <2>5
<1>5. CASE FinishSave(x)
  <2>1. /\ session[x].op = "save" /\ s \in Services
        /\ session[x].old = settings[s] /\ v \in {NoVolume, OwnVolume[s]}
        /\ OwnVolume[s] \in Volumes
    BY <1>5 DEF FinishSave, Session, Volumes
  <2>2. CASE v = NoVolume
    <3>1. UNCHANGED rows
      BY <1>5, <2>1, <2>2 DEF FinishSave, VolumesTypeOK, rows
    <3> QED BY <1>2, <3>1 DEF rows, AttachmentsAgree, Owned
  <2>3. CASE v # NoVolume
    <3>1. /\ settings' = [settings EXCEPT ![s] = [settings[s] EXCEPT !.volume = v]]
          /\ exists' = exists \cup {v}
          /\ attachment' = [attachment EXCEPT ![v] = s]
          /\ VolumeFree(v) /\ v = OwnVolume[s]
          /\ \A w \in Volumes \ {v} : attachment[w] # s
      BY <1>5, <2>1, <2>3 DEF FinishSave
    <3>2. \A t \in Services : OwnVolume[t] = v => t = s
      BY <2>1, <3>1, VolumesAssumption
    <3>3. attachment[v] \in {s, NoService}
      BY <2>1, <3>1 DEF Owned, VolumesTypeOK
    <3>4. AttachmentsAgree'
      BY <2>1, <3>1, <3>3, VolumesAssumption DEF AttachmentsAgree, VolumesTypeOK, SettingsType
    <3>5. Owned'
      <4>1. ASSUME NEW t \in Services, OwnVolume[t] \in exists'
            PROVE  attachment'[OwnVolume[t]] = t
        <5>1. OwnVolume[t] \in Volumes /\ attachment \in [Volumes -> Services \cup {NoService}]
          BY DEF Volumes, VolumesTypeOK
        <5>2. CASE OwnVolume[t] = v
          BY <3>1, <3>2, <5>1, <5>2
        <5>3. CASE OwnVolume[t] # v
          <6>1. attachment[OwnVolume[t]] = t
            BY <3>1, <4>1, <5>3 DEF Owned
          <6> QED BY <3>1, <5>1, <5>3, <6>1
        <5> QED BY <5>2, <5>3
      <4>2. ASSUME NEW d \in Databases PROVE settings'[d].volume \in {NoVolume, OwnVolume[d]}
        <5>1. settings[d].volume \in {NoVolume, OwnVolume[d]}
          BY DEF Owned
        <5>2. settings \in [Services -> SettingsType] /\ d \in Services /\ s \in Services
          BY <2>1 DEF VolumesTypeOK, Services
        <5> QED BY <3>1, <5>1, <5>2 DEF SettingsType
      <4> QED BY <4>1, <4>2 DEF Owned
    <3>6. Claims'
      BY <1>2, <2>1, <3>1 DEF VolumeFree, OnVolumes, VolumesTypeOK
    <3> QED BY <3>4, <3>5, <3>6
  <2> QED BY <2>2, <2>3
<1>6. CASE Rollback(x)
  BY <1>2, <1>6 DEF Rollback, rows, AttachmentsAgree, Owned
<1> QED BY <1>3, <1>4, <1>5, <1>6

LEMMA ConsistentBegin ==
  ASSUME Typed, Consistent, NEW x \in Sessions,
         \/ \E v \in Volumes, s \in Services : BeginAttach(x, v, s)
         \/ \E v \in Volumes : BeginDetach(x, v)
         \/ \E s \in Services, mounting \in BOOLEAN : BeginSave(x, s, mounting)
  PROVE  Consistent'
<1> USE DEF Typed, Consistent
<1>1. UNCHANGED rows
  BY DEF BeginAttach, BeginDetach, BeginSave
<1>2. AttachmentsAgree' /\ Owned'
  BY <1>1 DEF rows, AttachmentsAgree, Owned
<1>3. Claims'
  <2>1. ASSUME NEW v \in Volumes, NEW s \in Services, BeginAttach(x, v, s)
        PROVE  Claims'
    BY <1>1, <2>1 DEF BeginAttach, Open, Claims, rows, VolumesTypeOK
  <2>2. ASSUME NEW v \in Volumes, BeginDetach(x, v)
        PROVE  Claims'
    BY <1>1, <2>2 DEF BeginDetach, Open, Claims, rows, VolumesTypeOK
  <2>3. ASSUME NEW s \in Services, NEW mounting \in BOOLEAN, BeginSave(x, s, mounting)
        PROVE  Claims'
    BY <1>1, <2>3 DEF BeginSave, Open, Claims, rows, VolumesTypeOK
  <2> QED BY <2>1, <2>2, <2>3
<1> QED BY <1>2, <1>3

LEMMA ConsistentAtOnce ==
  ASSUME Typed, Consistent,
         \/ \E v \in Volumes : CreateVolume(v)
         \/ \E s \in Services, public \in BOOLEAN : SaveNetworking(s, public)
         \/ \E s \in Services : CreateDatabase(s) \/ Work(s)
  PROVE  Consistent'
<1> USE DEF Typed, Consistent
<1>1. ASSUME NEW v \in Volumes, CreateVolume(v) PROVE Consistent'
  <2>1. \A s \in Services : OwnVolume[s] # v
    BY <1>1, VolumesAssumption DEF CreateVolume
  <2> QED BY <1>1, <2>1 DEF CreateVolume, AttachmentsAgree, Owned, Claims
<1>2. ASSUME NEW s \in Services, NEW public \in BOOLEAN, SaveNetworking(s, public)
      PROVE  Consistent'
  <2>1. \A t \in Services : settings'[t].volume = settings[t].volume
    BY <1>2 DEF SaveNetworking, VolumesTypeOK, SettingsType
  <2> QED BY <1>2, <2>1 DEF SaveNetworking, AttachmentsAgree, Owned, Claims, Services
<1>3. ASSUME NEW d \in Services, CreateDatabase(d) PROVE Consistent'
  <2>1. /\ d \in Databases /\ OwnVolume[d] \in Volumes /\ OwnVolume[d] \notin exists
        /\ exists' = exists \cup {OwnVolume[d]}
        /\ attachment' = [attachment EXCEPT ![OwnVolume[d]] = d]
        /\ settings' = [settings EXCEPT ![d].volume = OwnVolume[d]]
        /\ UNCHANGED session
    BY <1>3 DEF CreateDatabase, Created, Volumes
  <2>2. attachment[OwnVolume[d]] = NoService
    BY <2>1 DEF VolumesTypeOK
  <2>3. settings[d].volume = NoVolume
    BY <2>1, <2>2, VolumesAssumption DEF Owned, AttachmentsAgree
  <2>4. \A t \in Services : OwnVolume[t] = OwnVolume[d] => t = d
    BY <2>1, VolumesAssumption
  <2>5. AttachmentsAgree'
    BY <2>1, <2>2, <2>3, VolumesAssumption DEF AttachmentsAgree, VolumesTypeOK, SettingsType
  <2>6. Owned'
    BY <2>1, <2>4, VolumesAssumption DEF Owned, VolumesTypeOK, Services, Volumes
  <2>7. Claims'
    BY <2>1 DEF Claims, Session, Managed, OnVolumes, VolumesTypeOK
  <2> QED BY <2>5, <2>6, <2>7
<1>4. ASSUME NEW s \in Services, Work(s) PROVE Consistent'
  <2>1. UNCHANGED <<rows, session>>
    BY <1>4 DEF Work, EnqueueDeployment, Activate, Drop, EnqueueAction, ActionDone,
       ActionFailed
  <2> QED BY <2>1 DEF rows, AttachmentsAgree, Owned, Claims
<1> QED BY <1>1, <1>2, <1>3, <1>4

\* A service at rest uses nothing, so its volume may be changed.
LEMMA AtRestUsesNothing ==
  ASSUME VolumesTypeOK, NEW s \in Services, AtRest(s), ~Busy(s)
  PROVE  Uses(s) = {}
BY VolumesAssumption DEF AtRest, Busy, Uses

\* A service that uses something uses its configured volume, also when its
\* settings, its deployments or its actions change.
LEMMA UsesNext ==
  ASSUME Typed, Consistent, UsesConfigured, Next
  PROVE  UsesConfigured'
<1> USE DEF Typed, Consistent
<1>1. ASSUME UNCHANGED work, NEW s \in Services, Uses(s) = {},
             \A t \in Services \ {s} : settings'[t].volume = settings[t].volume
      PROVE  UsesConfigured'
  <2>1. \A t \in Services : Uses(t)' = Uses(t)
    BY <1>1 DEF work, Uses
  <2> QED BY <1>1, <2>1 DEF UsesConfigured
<1>2. ASSUME UNCHANGED work, \A t \in Services : settings'[t].volume = settings[t].volume
      PROVE  UsesConfigured'
  <2>1. \A t \in Services : Uses(t)' = Uses(t)
    BY <1>2 DEF work, Uses
  <2> QED BY <1>2, <2>1 DEF UsesConfigured
<1>3. ASSUME NEW x \in Sessions, Attach(x) \/ Detach(x) \/ Save(x) \/ Rollback(x)
      PROVE  UsesConfigured'
  <2> DEFINE s == session[x].service
  <2>1. CASE FinishAttach(x) \/ FinishDetach(x)
    <3>1. s \in Services
      BY <2>1 DEF FinishAttach, FinishDetach, Session, OnVolumes
    <3>2. Uses(s) = {}
      BY <2>1, <3>1, AtRestUsesNothing DEF FinishAttach, FinishDetach
    <3>3. \A t \in Services \ {s} : settings'[t].volume = settings[t].volume
      BY <2>1, <3>1 DEF FinishAttach, FinishDetach, VolumesTypeOK
    <3> QED BY <1>1, <2>1, <3>1, <3>2, <3>3 DEF FinishAttach, FinishDetach
  <2>2. CASE FinishSave(x)
    <3>1. /\ s \in Services /\ session[x].old = settings[s] /\ UNCHANGED work
          /\ session[x].volume \in {NoVolume, OwnVolume[s]} /\ OwnVolume[s] \in Volumes
      BY <2>2 DEF FinishSave, Session, Volumes
    <3>2. CASE session[x].volume = NoVolume
      <4>1. settings' = settings
        BY <2>2, <3>1, <3>2 DEF FinishSave, VolumesTypeOK
      <4> QED BY <1>2, <3>1, <4>1
    <3>3. CASE session[x].volume # NoVolume
      <4>1. /\ settings' = [settings EXCEPT ![s] = [settings[s] EXCEPT !.volume = OwnVolume[s]]]
            /\ \A w \in Volumes \ {OwnVolume[s]} : attachment[w] # s
        BY <2>2, <3>1, <3>3 DEF FinishSave
      <4>2. settings[s].volume \in {NoVolume, OwnVolume[s]}
        BY <3>1, <4>1 DEF AttachmentsAgree, VolumesTypeOK, SettingsType
      <4>3. \A t \in Services \ {s} : settings'[t].volume = settings[t].volume
        BY <4>1 DEF VolumesTypeOK
      <4>4. CASE settings[s].volume = NoVolume
        <5>1. Uses(s) = {}
          BY <3>1, <4>4, VolumesAssumption DEF UsesConfigured, Uses
        <5> QED BY <1>1, <3>1, <4>3, <5>1
      <4>5. CASE settings[s].volume = OwnVolume[s]
        <5>1. settings'[s].volume = settings[s].volume
          BY <3>1, <4>1, <4>5 DEF VolumesTypeOK, SettingsType
        <5> QED BY <1>2, <3>1, <4>3, <5>1
      <4> QED BY <4>2, <4>4, <4>5
    <3> QED BY <3>2, <3>3
  <2>3. CASE UNCHANGED <<rows, work>>
    BY <1>2, <2>3 DEF rows
  <2> QED BY <1>3, <2>1, <2>2, <2>3
      DEF Attach, Detach, Save, Rollback, BeginAttach, BeginDetach, BeginSave
<1>4. ASSUME NEW v \in Volumes, CreateVolume(v) PROVE UsesConfigured'
  BY <1>2, <1>4 DEF CreateVolume
<1>5. ASSUME NEW s \in Services, NEW public \in BOOLEAN, SaveNetworking(s, public)
      PROVE  UsesConfigured'
  BY <1>2, <1>5 DEF SaveNetworking, VolumesTypeOK, SettingsType
<1>6. ASSUME NEW d \in Services, CreateDatabase(d) PROVE UsesConfigured'
  <2>1. /\ d \in Databases /\ OwnVolume[d] \in Volumes /\ OwnVolume[d] \notin exists
        /\ settings' = [settings EXCEPT ![d].volume = OwnVolume[d]]
        /\ candidate' = [candidate EXCEPT ![d] = OwnVolume[d]]
        /\ UNCHANGED <<active, desired, action>>
    BY <1>6 DEF CreateDatabase, Created, Volumes
  <2>2. settings[d].volume = NoVolume
    BY <2>1, VolumesAssumption DEF Owned, AttachmentsAgree, VolumesTypeOK
  <2>3. Uses(d)' \subseteq {settings'[d].volume}
    BY <2>1, <2>2, VolumesAssumption DEF UsesConfigured, Uses, VolumesTypeOK, SettingsType
  <2>4. \A t \in Services \ {d} : Uses(t)' = Uses(t) /\ settings'[t] = settings[t]
    BY <2>1 DEF Uses, VolumesTypeOK
  <2> QED BY <2>3, <2>4 DEF UsesConfigured
<1>7. ASSUME NEW s \in Services, Work(s) PROVE UsesConfigured'
  <2>1. UNCHANGED settings
    BY <1>7 DEF Work, EnqueueDeployment, Activate, Drop, EnqueueAction, ActionDone,
       ActionFailed, rows
  <2>2. \A t \in Services \ {s} : Uses(t)' = Uses(t)
    BY <1>7 DEF Work, EnqueueDeployment, Activate, Drop, EnqueueAction, ActionDone,
       ActionFailed, Uses, VolumesTypeOK
  <2>3. Uses(s) \subseteq {settings[s].volume}
    BY DEF UsesConfigured
  <2>4. Uses(s)' \subseteq {settings[s].volume}
    <3>1. CASE EnqueueDeployment(s) \/ Activate(s) \/ Drop(s)
      BY <2>3, <3>1, VolumesAssumption
      DEF EnqueueDeployment, Activate, Drop, Uses, VolumesTypeOK
    <3>2. CASE \/ \E k \in ActionKinds : EnqueueAction(s, k)
               \/ ActionDone(s) \/ ActionFailed(s)
      BY <2>3, <3>2 DEF EnqueueAction, VolumeUnchanged, ActionDone, ActionFailed, Uses,
         VolumesTypeOK
    <3> QED BY <1>7, <3>1, <3>2 DEF Work
  <2> QED BY <2>1, <2>2, <2>4 DEF UsesConfigured
<1> QED BY <1>3, <1>4, <1>5, <1>6, <1>7 DEF Next

LEMMA ExclusiveNext ==
  ASSUME OwnKept
  PROVE  Typed /\ Exclusive /\ [Next]_vars => Exclusive'
<1> SUFFICES ASSUME Typed, Exclusive, [Next]_vars PROVE Exclusive'
  OBVIOUS
<1>1. CASE UNCHANGED vars
  BY <1>1 DEF Exclusive, Consistent, AttachmentsAgree, Owned, Claims, UsesConfigured, Uses,
     vars, rows, work
<1>2. CASE Next
  <2>1. ASSUME NEW x \in Sessions, Attach(x) \/ Detach(x) \/ Save(x) \/ Rollback(x)
        PROVE  Consistent'
    BY <2>1, ConsistentBegin, ConsistentFinish DEF Attach, Detach, Save, Exclusive
  <2>2. Consistent'
    BY <1>2, <2>1, ConsistentAtOnce DEF Next, Exclusive
  <2> QED BY <1>2, <2>2, UsesNext DEF Exclusive
<1> QED BY <1>1, <1>2

THEOREM ExclusiveInvariant == ASSUME OwnKept PROVE Spec => [](Typed /\ Exclusive)
<1>1. Typed /\ Exclusive /\ [Next]_vars => (Typed /\ Exclusive)'
  BY TypedNext, ExclusiveNext
<1> QED BY <1>1, TypedInit, ExclusiveInit, PTL DEF Spec

\* The attachments and the settings of the services always say the same.
THEOREM AttachmentsAgreeAlways == ASSUME OwnKept PROVE Spec => []AttachmentsAgree
<1>1. Typed /\ Exclusive => AttachmentsAgree
  BY DEF Exclusive, Consistent
<1> QED BY <1>1, ExclusiveInvariant, PTL

\* A service only ever uses the volume its settings name.
THEOREM UsesConfiguredAlways == ASSUME OwnKept PROVE Spec => []UsesConfigured
<1>1. Typed /\ Exclusive => UsesConfigured
  BY DEF Exclusive
<1> QED BY <1>1, ExclusiveInvariant, PTL

\* No volume is in use by two services, however many requests, deployments and
\* actions are under way.
THEOREM VolumeExclusiveAlways == ASSUME OwnKept PROVE Spec => []VolumeExclusive
<1>1. Typed /\ Exclusive => VolumeExclusive
  <2> SUFFICES ASSUME Typed, Exclusive, NEW s \in Services, NEW t \in Services, s # t,
                      NEW v \in Uses(s) \cap Uses(t)
               PROVE  FALSE
    BY DEF VolumeExclusive
  <2>1. v \in Volumes /\ settings[s].volume = v /\ settings[t].volume = v
    BY DEF Exclusive, UsesConfigured, Uses
  <2> QED BY <2>1 DEF Exclusive, Consistent, AttachmentsAgree
<1> QED BY <1>1, ExclusiveInvariant, PTL
================================================================================
