----------------------------- MODULE BackupsProofs -----------------------------
(***************************************************************************)
(* Proofs about Backups, for every set of services, items and actions and  *)
(* every number of attempts.                                               *)
(***************************************************************************)
EXTENDS Backups, TLAPS

--------------------------------------------------------------------------------
(* Type correctness. *)

BackupSteps == {"backup", "dump", "register"}
RedisSteps == {"dbsize", "stop", "clear"}
RestoreSteps == RedisSteps \cup {"restore", "unpack", "import", "wait"}

Requested == [kind : {"backup", "restore"}, service : Services, backup : Actions \cup {0}]

\* A request that was accepted stays, and a restore has its backup.
RequestsKnown ==
  \A a \in Actions : status[a] # "none" =>
    /\ request[a] \in Requested
    /\ request[a].kind = "restore" => request[a].backup \in Actions /\ row[request[a].backup] # NoFile

\* Where the agent is fits its action and the kind of the services.
AgentKnown ==
  /\ agent.at \in BackupSteps => request[Act].kind = "backup"
  /\ agent.at \in RestoreSteps => request[Act].kind = "restore"
  /\ agent.at = "dump" => dump[Act].temp # NoFile /\ dumped[Act] # NoFile
  /\ agent.at = "register" => dump[Act].file # NoFile
  /\ agent.at # "idle" => attempt[Act] \in 1..MaxAttempts
  /\ agent.at \in RedisSteps => kind = "redis"
  /\ agent.at = "unpack" => OnVolume
  /\ agent.at \in {"import", "wait"} => ~OnVolume

\* Only restores of databases have a process in the container.
ImportsKnown ==
  \A p \in Actions \X (1..MaxAttempts) : import[p] # "none" =>
    /\ p[1] \in Actions /\ status[p[1]] # "none" /\ request[p[1]].kind = "restore"
    /\ ~OnVolume

Typed == BackupsTypeOK /\ RequestsKnown /\ AgentKnown /\ ImportsKnown

\* A set of contents is a set of items.
LEMMA ContentsAreItems == \A C \in Contents : C # NoFile => C \in SUBSET Items
BY DEF Contents

LEMMA ItemsAreContents ==
  ASSUME NEW C \in SUBSET Items
  PROVE  C \in Contents /\ C # NoFile
BY BackupsAssumption DEF Contents, Items

LEMMA TypedInit == Init => Typed
<1> SUFFICES ASSUME Init PROVE Typed
  OBVIOUS
<1>1. NoFile \in Contents /\ {} \in SUBSET Items
  BY DEF Contents
<1>2. Idle \in [at : Steps, action : Actions \cup {0}, before : SUBSET Items] /\ Idle.at = "idle"
  BY DEF Idle, Steps
<1>3. 0 \in 0..MaxAttempts
  BY BackupsAssumption
<1>4. BackupsTypeOK
  BY <1>1, <1>2, <1>3 DEF Init, BackupsTypeOK, Contents
<1>5. RequestsKnown /\ ImportsKnown
  BY DEF Init, RequestsKnown, ImportsKnown
<1>6. AgentKnown
  BY <1>2 DEF Init, AgentKnown, BackupSteps, RestoreSteps, RedisSteps
<1> QED BY <1>4, <1>5, <1>6 DEF Typed

\* The owner, the clients and the processes in the containers.
LEMMA TypedWorld == Typed /\ World => Typed'
<1> SUFFICES ASSUME Typed, World PROVE Typed'
  OBVIOUS
<1> USE DEF Typed, Act
<1>1. ASSUME NEW s \in Services, NEW i \in Items, Write(s, i) PROVE Typed'
  <2>1. data' \in [Services -> SUBSET Items]
    BY <1>1 DEF Write, BackupsTypeOK
  <2> QED BY <1>1, <2>1 DEF Write, BackupsTypeOK, RequestsKnown, AgentKnown, ImportsKnown,
      OnVolume, store, queue
<1>2. ASSUME NEW s \in Services, Switch(s) PROVE Typed'
  <2>1. \A p \in Actions \X (1..MaxAttempts) : import'[p] # "none" => import[p] # "none"
    BY <1>2 DEF Switch, BackupsTypeOK
  <2>2. import' \in [Actions \X (1..MaxAttempts) -> {"none", "running", "done", "failed"}]
    BY <1>2 DEF Switch, BackupsTypeOK
  <2>3. BackupsTypeOK'
    BY <1>2, <2>2 DEF Switch, BackupsTypeOK, queue
  <2> QED BY <1>2, <2>1, <2>3 DEF Switch, RequestsKnown, AgentKnown, ImportsKnown,
      OnVolume, queue
<1>3. ASSUME NEW a \in Actions, NEW k \in {"backup", "restore"}, NEW s \in Services,
             NEW b \in Actions \cup {0}, EnqueueAction(a, k, s, b)
      PROVE  Typed'
  <2>1. /\ request'[a] = [kind |-> k, service |-> s, backup |-> b]
        /\ status'[a] = "queued" /\ status[a] = "none"
        /\ \A c \in Actions \ {a} : request'[c] = request[c] /\ status'[c] = status[c]
        /\ UNCHANGED <<attempt, row, service, node, agent>>
    BY <1>3 DEF EnqueueAction, BackupsTypeOK
  <2>2. agent.at # "idle" => Act # a
    BY <2>1 DEF BackupsTypeOK
  <2>3. BackupsTypeOK'
    BY <1>3, <2>1, <2>2 DEF EnqueueAction, BackupsTypeOK, service, node
  <2>4. RequestsKnown'
    BY <1>3, <2>1 DEF EnqueueAction, RequestsKnown, Requested, service, node
  <2>5. AgentKnown'
    BY <2>1, <2>2 DEF AgentKnown, OnVolume, BackupSteps, RestoreSteps, RedisSteps, service,
       node, BackupsTypeOK
  <2>6. ImportsKnown'
    BY <2>1 DEF ImportsKnown, OnVolume, service, node
  <2> QED BY <2>3, <2>4, <2>5, <2>6
<1>4. ASSUME NEW p \in Actions \X (1..MaxAttempts), Import(p) PROVE Typed'
  <2> DEFINE P == Actions \X (1..MaxAttempts)
  <2> HIDE DEF P
  <2>0. import \in [P -> {"none", "running", "done", "failed"}] /\ p \in P
    BY <1>4 DEF BackupsTypeOK, P
  <2>5. /\ import[p] = "running"
        /\ \/ import' = import
           \/ import' = [import EXCEPT ![p] = "failed"]
           \/ import' = [import EXCEPT ![p] = "done"]
        /\ UNCHANGED <<store, running, dump, agent, dumped>>
    BY <1>4 DEF Import
  <2>1. /\ import[p] = "running" /\ import'[p] \in {"running", "done", "failed"}
        /\ import' \in [Actions \X (1..MaxAttempts) -> {"none", "running", "done", "failed"}]
        /\ \A q \in Actions \X (1..MaxAttempts) : import'[q] # "none" => import[q] # "none"
        /\ UNCHANGED <<store, running, dump, agent, dumped>>
    BY <2>0, <2>5 DEF P
  <2>2. /\ p[1] \in Actions /\ request[p[1]].service \in Services
        /\ row[request[p[1]].backup] \in SUBSET Items
    BY <2>1, ContentsAreItems DEF ImportsKnown, RequestsKnown, Requested, BackupsTypeOK
  <2>3. data' \in [Services -> SUBSET Items]
    <3> DEFINE t == request[p[1]].service
               archive == row[request[p[1]].backup]
    <3>1. data \in [Services -> SUBSET Items] /\ t \in Services /\ archive \in SUBSET Items
      BY <2>2 DEF BackupsTypeOK
    <3>2. \/ data' = data
          \/ data' = [data EXCEPT ![t] = @ \cup archive]
          \/ \E i \in archive \ data[t] : data' = [data EXCEPT ![t] = @ \cup {i}]
      BY <1>4 DEF Import
    <3> HIDE DEF t, archive
    <3> QED BY <3>1, <3>2
  <2>4. BackupsTypeOK'
    BY <2>1, <2>3 DEF BackupsTypeOK, store, queue
  <2> QED BY <2>1, <2>4 DEF RequestsKnown, AgentKnown, ImportsKnown, OnVolume, store, queue
<1>5. DOMAIN import = Actions \X (1..MaxAttempts)
  BY DEF BackupsTypeOK
<1> QED BY <1>1, <1>2, <1>3, <1>4, <1>5 DEF World

\* A step of RunBackup's goes on with the same action.
LEMMA GoToTyped ==
  ASSUME BackupsTypeOK, agent.at # "idle", NEW at \in Steps, GoTo(at)
  PROVE  /\ agent'.at = at /\ Act' = Act /\ agent'.before = agent.before
         /\ agent' \in [at : Steps, action : Actions \cup {0}, before : SUBSET Items]
BY DEF BackupsTypeOK, GoTo, Act

\* The loop: claims, expiries, reports, and attempts that end without one.
LEMMA TypedLoop ==
  ASSUME Typed,
         \/ \E a \in Actions : Claim(a) \/ Expire(a)
         \/ Report \/ ContextEnds \/ Crash \/ Fail
  PROVE  Typed'
<1> USE DEF Typed
<1>1. Idle \in [at : Steps, action : Actions \cup {0}, before : SUBSET Items] /\ Idle.at = "idle"
  BY DEF Idle, Steps
<1>2. NoFile \in Contents
  BY DEF Contents
<1>3. agent.at \notin {"idle", "report done", "report failed"} =>
        /\ WithoutTemp \in [Actions -> [temp : Contents, file : Contents]]
        /\ \A C \in {running} \cup {[running EXCEPT ![Target] = FALSE]} :
             C \in [Services -> BOOLEAN]
  <2>1. ASSUME agent.at # "idle"
        PROVE  WithoutTemp \in [Actions -> [temp : Contents, file : Contents]]
    <3> DEFINE D == [temp : Contents, file : Contents]
    <3>1. Act \in Actions /\ dump \in [Actions -> D]
      BY <2>1 DEF BackupsTypeOK
    <3>2. [dump[Act] EXCEPT !.temp = NoFile] \in D
      BY <1>2, <3>1
    <3>3. WithoutTemp = [dump EXCEPT ![Act] = [dump[Act] EXCEPT !.temp = NoFile]]
      BY DEF WithoutTemp
    <3> HIDE DEF D
    <3>4. WithoutTemp \in [Actions -> D]
      BY <3>1, <3>2, <3>3
    <3> QED BY <3>4 DEF D
  <2>2. /\ running \in [Services -> BOOLEAN]
        /\ [running EXCEPT ![Target] = FALSE] \in [Services -> BOOLEAN]
    BY DEF BackupsTypeOK
  <2> QED BY <2>1, <2>2
<1>4. ASSUME agent' = Idle,
             status' \in [Actions -> {"none", "queued", "running", "done", "failed"}],
             running' \in [Services -> BOOLEAN],
             dump' \in [Actions -> [temp : Contents, file : Contents]],
             \A a \in Actions : status'[a] # "none" <=> status[a] # "none",
             UNCHANGED <<kind, data, desired, request, attempt, row, import, dumped>>
      PROVE  Typed'
  <2>1. agent'.at = "idle"
    BY <1>1, <1>4
  <2>2. BackupsTypeOK'
    BY <1>1, <1>4, <2>1 DEF BackupsTypeOK
  <2>3. RequestsKnown' /\ ImportsKnown'
    BY <1>4 DEF RequestsKnown, ImportsKnown, OnVolume
  <2>4. AgentKnown'
    BY <2>1 DEF AgentKnown, BackupSteps, RestoreSteps, RedisSteps
  <2> QED BY <2>2, <2>3, <2>4
<1>5. ASSUME NEW a \in Actions, Claim(a) PROVE Typed'
  <2>1. /\ status[a] \in {"queued", "running"} /\ attempt[a] < MaxAttempts
        /\ status' = [status EXCEPT ![a] = "running"]
        /\ attempt' = [attempt EXCEPT ![a] = @ + 1]
        /\ agent' = [at |-> request[a].kind, action |-> a, before |-> data[request[a].service]]
        /\ UNCHANGED <<kind, desired, request, row, data, dump, import, dumped>>
    BY <1>5 DEF Claim, Claimable, Unfinished
  <2>2. attempt[a] + 1 \in 0..MaxAttempts /\ attempt'[a] \in 1..MaxAttempts
    BY <2>1, BackupsAssumption DEF BackupsTypeOK
  <2>3. running' \in [Services -> BOOLEAN]
    <3>1. PICK failed \in SUBSET Pending :
            running' = [s \in Services |->
              IF s \in failed THEN running[s] ELSE desired[s] = "running"]
      BY <1>5 DEF Claim
    <3>2. \A s \in Services :
            (IF s \in failed THEN running[s] ELSE desired[s] = "running") \in BOOLEAN
      BY DEF BackupsTypeOK
    <3> QED BY <3>1, <3>2
  <2>4. request[a].kind \in {"backup", "restore"} /\ request[a].service \in Services
    BY <2>1 DEF RequestsKnown, Requested
  <2>5. /\ agent' \in [at : Steps, action : Actions \cup {0}, before : SUBSET Items]
        /\ agent'.at = request[a].kind /\ Act' = a
    BY <2>1, <2>4 DEF BackupsTypeOK, Steps, Act
  <2>6. BackupsTypeOK'
    BY <2>1, <2>2, <2>3, <2>5 DEF BackupsTypeOK
  <2>7. RequestsKnown' /\ ImportsKnown'
    BY <2>1 DEF RequestsKnown, ImportsKnown, OnVolume, BackupsTypeOK
  <2>8. AgentKnown'
    BY <2>1, <2>2, <2>4, <2>5 DEF AgentKnown, BackupSteps, RestoreSteps, RedisSteps
  <2> QED BY <2>6, <2>7, <2>8
<1>6. ASSUME NEW a \in Actions, Expire(a) PROVE Typed'
  <2>1. /\ agent' = Idle /\ UNCHANGED <<request, attempt, row, service, node>>
        /\ status[a] = "running" /\ status' = [status EXCEPT ![a] = "failed"]
    BY <1>6 DEF Expire
  <2>2. /\ status' \in [Actions -> {"none", "queued", "running", "done", "failed"}]
        /\ \A b \in Actions : status'[b] # "none" <=> status[b] # "none"
    BY <2>1 DEF BackupsTypeOK
  <2> QED BY <1>4, <2>1, <2>2 DEF BackupsTypeOK, service, node
<1>7. CASE Report
  <2>1. agent' = Idle /\ UNCHANGED <<request, attempt, row, service, node>>
    BY <1>7 DEF Report
  <2>2. status[Act] # "none"
    BY <1>7 DEF Report, BackupsTypeOK, Act
  <2>3. /\ status' \in [Actions -> {"none", "queued", "running", "done", "failed"}]
        /\ \A b \in Actions : status'[b] # "none" <=> status[b] # "none"
    BY <1>7, <2>2 DEF Report, BackupsTypeOK
  <2>4. /\ UNCHANGED <<request, attempt, row, kind, data, desired, import, dumped>>
        /\ UNCHANGED <<running, dump>>
    BY <2>1 DEF service, node
  <2>5. /\ running \in [Services -> BOOLEAN]
        /\ dump \in [Actions -> [temp : Contents, file : Contents]]
    BY DEF BackupsTypeOK
  <2> QED BY <1>4, <2>1, <2>3, <2>4, <2>5
<1>8. CASE ContextEnds
  <2>1. running' \in [Services -> BOOLEAN] /\ dump' = WithoutTemp
    BY <1>3, <1>8 DEF ContextEnds
  <2> QED BY <1>3, <1>4, <1>8, <2>1 DEF ContextEnds, BackupsTypeOK, store, queue
<1>9. CASE Crash
  BY <1>4, <1>9 DEF Crash, BackupsTypeOK, store, queue, node
<1>10. CASE Fail
  <2>1. running' \in [Services -> BOOLEAN] /\ dump' = WithoutTemp
    BY <1>3, <1>10 DEF Fail
  <2>2. "report failed" \in Steps
    BY DEF Steps
  <2>3. /\ agent'.at = "report failed" /\ Act' = Act
        /\ agent' \in [at : Steps, action : Actions \cup {0}, before : SUBSET Items]
    BY <1>10, <2>2, GoToTyped DEF Fail
  <2>4. BackupsTypeOK'
    BY <1>3, <1>10, <2>1, <2>3 DEF Fail, BackupsTypeOK, store, queue
  <2>5. RequestsKnown' /\ ImportsKnown'
    BY <1>10 DEF Fail, RequestsKnown, ImportsKnown, OnVolume, store, queue
  <2>6. AgentKnown'
    BY <1>10, <2>3 DEF Fail, AgentKnown, BackupSteps, RestoreSteps, RedisSteps, store, queue
  <2> QED BY <2>4, <2>5, <2>6
<1> QED BY <1>5, <1>6, <1>7, <1>8, <1>9, <1>10

\* The steps of a backup: what is dumped is known, and a row is written once.
LEMMA TypedBackup ==
  ASSUME Typed, BeginBackup \/ Dump \/ KeepDump \/ Register
  PROVE  Typed'
<1> USE DEF Typed
<1>1. /\ agent.at \in BackupSteps /\ agent.at # "idle"
      /\ Act \in Actions /\ status[Act] # "none" /\ Target \in Services
  BY DEF BeginBackup, Dump, KeepDump, Register, BackupSteps, BackupsTypeOK, RequestsKnown,
     Requested, Target
<1>2. {"dump", "register", "report done", "report failed"} \subseteq Steps
  BY DEF Steps
<1>3. {} \in Contents /\ {} # NoFile /\ data[Target] \in Contents /\ data[Target] # NoFile
  BY <1>1, ItemsAreContents DEF BackupsTypeOK
<1>4. request[Act].kind = "backup"
  BY <1>1 DEF AgentKnown
<1>5. CASE BeginBackup
  <2>1. CASE /\ Existing(Act) # NoFile /\ GoTo("register")
             /\ dump' = [dump EXCEPT ![Act].file = Existing(Act)] /\ UNCHANGED dumped
    <3>1. dump' = dump
      BY <1>1, <2>1 DEF Existing, BackupsTypeOK
    <3>2. agent'.at = "register" /\ Act' = Act
          /\ agent' \in [at : Steps, action : Actions \cup {0}, before : SUBSET Items]
      BY <1>1, <1>2, <2>1, GoToTyped
    <3>3. BackupsTypeOK'
      BY <1>1, <1>5, <2>1, <3>1, <3>2 DEF BeginBackup, BackupsTypeOK, store, queue
    <3>4. AgentKnown'
      BY <1>4, <1>5, <2>1, <3>1, <3>2
      DEF BeginBackup, AgentKnown, Existing, BackupSteps, RestoreSteps, RedisSteps, store, queue
    <3> QED BY <1>5, <3>3, <3>4
        DEF BeginBackup, RequestsKnown, ImportsKnown, OnVolume, store, queue
  <2>2. CASE /\ Existing(Act) = NoFile /\ GoTo("dump")
             /\ dump' = [dump EXCEPT ![Act].temp = {}]
             /\ dumped' = [dumped EXCEPT ![Act] = data[Target]]
    <3>1. agent'.at = "dump" /\ Act' = Act
          /\ agent' \in [at : Steps, action : Actions \cup {0}, before : SUBSET Items]
      BY <1>1, <1>2, <2>2, GoToTyped
    <3>2. /\ dump' \in [Actions -> [temp : Contents, file : Contents]]
          /\ dumped' \in [Actions -> Contents]
          /\ dump'[Act].temp # NoFile /\ dumped'[Act] # NoFile
      <4>1. /\ dump \in [Actions -> [temp : Contents, file : Contents]]
            /\ dumped \in [Actions -> Contents]
            /\ data[Target] \in SUBSET Items /\ Act \in Actions
        BY <1>1, <1>3 DEF BackupsTypeOK
      <4>2. /\ {} \in Contents /\ {} # NoFile
            /\ data[Target] \in Contents /\ data[Target] # NoFile
        BY <4>1, ItemsAreContents
      <4> QED BY <2>2, <4>1, <4>2
    <3>3. BackupsTypeOK'
      BY <1>1, <1>5, <3>1, <3>2 DEF BeginBackup, BackupsTypeOK, store, queue
    <3>4. AgentKnown'
      BY <1>4, <1>5, <3>1, <3>2
      DEF BeginBackup, AgentKnown, BackupSteps, RestoreSteps, RedisSteps, store, queue
    <3> QED BY <1>5, <3>3, <3>4
        DEF BeginBackup, RequestsKnown, ImportsKnown, OnVolume, store, queue
  <2> QED BY <1>5, <2>1, <2>2 DEF BeginBackup
<1>6. CASE Dump
  <2>1. dump[Act].temp \in SUBSET Items /\ Source \in SUBSET Items
    BY <1>1, <1>6, ContentsAreItems DEF Dump, AgentKnown, BackupsTypeOK, Source
  <2>2. PICK i \in Source \ dump[Act].temp : dump' = [dump EXCEPT ![Act].temp = @ \cup {i}]
    BY <1>6 DEF Dump
  <2>3. dump[Act].temp \cup {i} \in Contents /\ dump[Act].temp \cup {i} # NoFile
    BY <2>1, <2>2, ItemsAreContents
  <2>4. /\ dump' \in [Actions -> [temp : Contents, file : Contents]]
        /\ dump'[Act].temp # NoFile
    <3>1. dump \in [Actions -> [temp : Contents, file : Contents]] /\ Act \in Actions
      BY <1>1 DEF BackupsTypeOK
    <3> QED BY <2>2, <2>3, <3>1
  <2>5. BackupsTypeOK'
    BY <1>6, <2>4 DEF Dump, BackupsTypeOK, store, queue, Act
  <2>6. AgentKnown'
    BY <1>6, <2>4
    DEF Dump, AgentKnown, BackupSteps, RestoreSteps, RedisSteps, store, queue, Act
  <2> QED BY <1>6, <2>5, <2>6 DEF Dump, RequestsKnown, ImportsKnown, OnVolume, store, queue
<1>7. CASE KeepDump
  <2>1. agent'.at = "register" /\ Act' = Act
        /\ agent' \in [at : Steps, action : Actions \cup {0}, before : SUBSET Items]
    BY <1>1, <1>2, <1>7, GoToTyped DEF KeepDump
  <2>2. /\ dump' = [dump EXCEPT ![Act] = [temp |-> NoFile, file |-> dump[Act].temp]]
        /\ dump[Act].temp # NoFile
    BY <1>7 DEF KeepDump, AgentKnown
  <2>3. /\ dump' \in [Actions -> [temp : Contents, file : Contents]]
        /\ dump'[Act].file # NoFile
    BY <1>1, <2>2 DEF BackupsTypeOK, Contents
  <2>4. BackupsTypeOK'
    BY <1>1, <1>7, <2>1, <2>3 DEF KeepDump, BackupsTypeOK, store, queue
  <2>5. AgentKnown'
    BY <1>4, <1>7, <2>1, <2>3
    DEF KeepDump, AgentKnown, BackupSteps, RestoreSteps, RedisSteps, store, queue
  <2> QED BY <1>7, <2>4, <2>5 DEF KeepDump, RequestsKnown, ImportsKnown, OnVolume, store, queue
<1>8. CASE Register
  <2>1. /\ agent'.at \in {"report done", "report failed"} /\ Act' = Act
        /\ agent' \in [at : Steps, action : Actions \cup {0}, before : SUBSET Items]
    BY <1>1, <1>2, <1>8, GoToTyped DEF Register
  <2>2. row' = [row EXCEPT ![Act] = dump[Act].file] /\ dump[Act].file # NoFile
    BY <1>8 DEF Register, AgentKnown
  <2>3. row' \in [Actions -> Contents]
    BY <1>1, <2>2 DEF BackupsTypeOK
  <2>4. \A a \in Actions : row[a] # NoFile => row'[a] # NoFile
    BY <1>1, <2>2 DEF BackupsTypeOK
  <2>5. BackupsTypeOK'
    BY <1>1, <1>8, <2>1, <2>3 DEF Register, BackupsTypeOK, queue, service, node
  <2>6. RequestsKnown'
    BY <1>8, <2>4 DEF Register, RequestsKnown, queue
  <2>7. AgentKnown' /\ ImportsKnown'
    BY <1>8, <2>1 DEF Register, AgentKnown, ImportsKnown, BackupSteps, RestoreSteps,
       RedisSteps, OnVolume, queue, service, node
  <2> QED BY <2>5, <2>6, <2>7
<1> QED BY <1>5, <1>6, <1>7, <1>8

\* The steps of a restore: its backup is known.
LEMMA TypedRestore ==
  ASSUME Typed,
         \/ BeginRestore \/ CountKeys \/ StopRedis \/ ClearRedisVolume \/ Unpack
         \/ StartImport \/ Imported
  PROVE  Typed'
<1> USE DEF Typed
<1>1. /\ agent.at \in RestoreSteps /\ agent.at # "idle"
      /\ Act \in Actions /\ status[Act] # "none"
  BY DEF BeginRestore, CountKeys, StopRedis, ClearRedisVolume, Unpack, StartImport, Imported,
     RestoreSteps, RedisSteps, BackupsTypeOK
<1>2. request[Act].kind = "restore"
  BY <1>1 DEF AgentKnown
<1>3. Target \in Services /\ Archive \in SUBSET Items
  BY <1>1, <1>2, ContentsAreItems DEF RequestsKnown, Requested, BackupsTypeOK, Target, Archive
<1>4. RestoreSteps \cup {"report done", "report failed"} \subseteq Steps
  BY DEF Steps, RestoreSteps, RedisSteps
<1> DEFINE Goes(at) ==
             /\ GoTo(at) /\ at \in RestoreSteps \cup {"report done", "report failed"}
             /\ at \in RedisSteps => kind = "redis"
             /\ at = "unpack" => OnVolume
             /\ at \in {"import", "wait"} => ~OnVolume
           Rest == UNCHANGED <<kind, desired, request, status, attempt, row, dump, dumped>>
<1>5. ASSUME agent' = agent \/ \E at \in Steps : Goes(at),
             data' \in [Services -> SUBSET Items],
             running' \in [Services -> BOOLEAN],
             import' \in [Actions \X (1..MaxAttempts) -> {"none", "running", "done", "failed"}],
             ImportsKnown', Rest
      PROVE  Typed'
  <2>1. RequestsKnown'
    BY <1>5 DEF RequestsKnown
  <2>2. CASE agent' = agent
    <3>1. BackupsTypeOK'
      BY <1>5, <2>2 DEF BackupsTypeOK, Act
    <3>2. AgentKnown'
      BY <1>5, <2>2 DEF AgentKnown, OnVolume, Act
    <3> QED BY <1>5, <2>1, <3>1, <3>2
  <2>3. ASSUME NEW at \in Steps, Goes(at)
        PROVE  Typed'
    <3>1. /\ agent'.at = at /\ Act' = Act
          /\ agent' \in [at : Steps, action : Actions \cup {0}, before : SUBSET Items]
      BY <1>1, <1>4, <2>3, GoToTyped
    <3>2. BackupsTypeOK'
      BY <1>1, <1>5, <3>1 DEF BackupsTypeOK
    <3>3. AgentKnown'
      BY <1>1, <1>2, <1>5, <2>3, <3>1
      DEF AgentKnown, Goes, Rest, OnVolume, BackupSteps, RestoreSteps, RedisSteps
    <3> QED BY <1>5, <2>1, <3>2, <3>3
  <2> QED BY <1>5, <2>2, <2>3
<1>6. UNCHANGED <<import, status, request, kind>> => ImportsKnown'
  BY DEF ImportsKnown, OnVolume
<1> HIDE DEF Goes, Rest
<1>7. CASE BeginRestore
  <2>1. running' \in [Services -> BOOLEAN]
    BY <1>3, <1>7 DEF BeginRestore, BackupsTypeOK
  <2>2. Goes("dbsize") \/ Goes(IF OnVolume THEN "unpack" ELSE "import")
    BY <1>7 DEF BeginRestore, Goes, RestoreSteps, RedisSteps, OnVolume
  <2>3. \E at \in Steps : Goes(at)
    BY <2>2 DEF Steps
  <2>4. Rest /\ UNCHANGED <<data, import>>
    BY <1>7 DEF BeginRestore, Rest, store, queue
  <2> QED BY <1>5, <1>6, <2>1, <2>3, <2>4 DEF BackupsTypeOK, Rest
<1>8. CASE CountKeys
  <2>1. Goes("stop")
    BY <1>8 DEF CountKeys, AgentKnown, Goes, RestoreSteps, RedisSteps
  <2>2. \E at \in Steps : Goes(at)
    BY <2>1 DEF Steps
  <2>3. Rest /\ UNCHANGED <<data, import, running>>
    BY <1>8 DEF CountKeys, Rest, store, queue, node
  <2> QED BY <1>5, <1>6, <2>2, <2>3 DEF BackupsTypeOK, Rest
<1>9. CASE StopRedis
  <2>1. Goes("clear")
    BY <1>9 DEF StopRedis, AgentKnown, Goes, RestoreSteps, RedisSteps
  <2>2. \E at \in Steps : Goes(at)
    BY <2>1 DEF Steps
  <2>3. Rest /\ UNCHANGED <<data, import>>
    BY <1>9 DEF StopRedis, Rest, store, queue
  <2>4. running' \in [Services -> BOOLEAN]
    BY <1>3, <1>9 DEF StopRedis, BackupsTypeOK
  <2> QED BY <1>5, <1>6, <2>2, <2>3, <2>4 DEF BackupsTypeOK, Rest
<1>10. CASE ClearRedisVolume
  <2>1. agent' = agent \/ Goes("unpack")
    BY <1>10 DEF ClearRedisVolume, AgentKnown, Goes, RestoreSteps, RedisSteps, OnVolume
  <2>2. agent' = agent \/ \E at \in Steps : Goes(at)
    BY <2>1 DEF Steps
  <2>3. Rest /\ UNCHANGED <<running, import>>
    BY <1>10 DEF ClearRedisVolume, Rest, store, queue
  <2>4. \/ data' = data
        \/ \E i \in data[Target] : data' = [data EXCEPT ![Target] = @ \ {i}]
    BY <1>10 DEF ClearRedisVolume
  <2>5. data' \in [Services -> SUBSET Items]
    BY <1>3, <2>4 DEF BackupsTypeOK
  <2> QED BY <1>5, <1>6, <2>2, <2>3, <2>5 DEF BackupsTypeOK, Rest
<1>11. CASE Unpack
  <2>1. agent' = agent \/ Goes("report done")
    BY <1>11 DEF Unpack, Goes, RestoreSteps, RedisSteps
  <2>2. agent' = agent \/ \E at \in Steps : Goes(at)
    BY <2>1 DEF Steps
  <2>3. Rest /\ UNCHANGED <<running, import>>
    BY <1>11 DEF Unpack, Rest, store, queue
  <2>4. \/ data' = data
        \/ \E i \in Archive : data' = [data EXCEPT ![Target] = @ \cup {i}]
    BY <1>11 DEF Unpack
  <2>5. data' \in [Services -> SUBSET Items]
    BY <1>3, <2>4 DEF BackupsTypeOK
  <2> QED BY <1>5, <1>6, <2>2, <2>3, <2>5 DEF BackupsTypeOK, Rest
<1>12. CASE StartImport
  <2>1. ~OnVolume /\ Goes("wait")
    BY <1>12 DEF StartImport, AgentKnown, Goes, RestoreSteps, RedisSteps
  <2>2. \E at \in Steps : Goes(at)
    BY <2>1 DEF Steps
  <2>3. Rest /\ UNCHANGED <<data, running>>
    BY <1>12 DEF StartImport, Rest, store, queue
  <2> DEFINE P == Actions \X (1..MaxAttempts)
  <2>4. /\ import \in [P -> {"none", "running", "done", "failed"}]
        /\ import' = [import EXCEPT ![Process] = "running"]
    BY <1>12 DEF StartImport, BackupsTypeOK
  <2> HIDE DEF P
  <2>5. /\ import' \in [P -> {"none", "running", "done", "failed"}]
        /\ \A p \in P : import'[p] # import[p] => p = Process
    BY <2>4
  <2>6. Process[1] = Act
    BY DEF Process
  <2>7. ImportsKnown'
    BY <1>1, <1>2, <2>1, <2>3, <2>5, <2>6 DEF P, Rest, ImportsKnown, OnVolume
  <2> QED BY <1>5, <2>2, <2>3, <2>5, <2>7 DEF P, BackupsTypeOK
<1>13. CASE Imported
  <2>1. Goes("report done") \/ Goes("report failed")
    BY <1>13 DEF Imported, Goes, RestoreSteps, RedisSteps
  <2>2. \E at \in Steps : Goes(at)
    BY <2>1 DEF Steps
  <2>3. Rest /\ UNCHANGED <<data, import, running>>
    BY <1>13 DEF Imported, Rest, store, queue, node
  <2> QED BY <1>5, <1>6, <2>2, <2>3 DEF BackupsTypeOK, Rest
<1> QED BY <1>7, <1>8, <1>9, <1>10, <1>11, <1>12, <1>13

LEMMA TypedNext == Typed /\ [Next]_vars => Typed'
<1> SUFFICES ASSUME Typed, [Next]_vars PROVE Typed'
  OBVIOUS
<1>1. CASE UNCHANGED vars
  BY <1>1 DEF Typed, BackupsTypeOK, RequestsKnown, AgentKnown, ImportsKnown, OnVolume, Act,
     vars, store, queue, node
<1> QED BY <1>1, TypedWorld, TypedLoop, TypedBackup, TypedRestore DEF Next, Agent

\* The rows, the files and what runs on the node have their types in every reachable
\* state; the agent works on an action that is running, no action is tried more often
\* than allowed.
THEOREM BackupsTypeCorrect == Spec => []BackupsTypeOK
<1>1. Typed => BackupsTypeOK
  BY DEF Typed
<1> QED BY <1>1, TypedInit, TypedNext, PTL DEF Spec

THEOREM TypedAlways == Spec => []Typed
BY TypedInit, TypedNext, PTL DEF Spec

--------------------------------------------------------------------------------
(* What no step changes. *)

\* Rows and accepted requests are final.
LEMMA RowsStay ==
  ASSUME Typed, Next
  PROVE  /\ kind' = kind
         /\ \A a \in Actions : row[a] # NoFile => row'[a] = row[a]
         /\ \A a \in Actions : status[a] # "none" =>
              request'[a] = request[a] /\ status'[a] # "none"
<1> USE DEF Typed
<1>1. CASE Register
  BY <1>1 DEF Register, BackupsTypeOK, queue, service
<1>2. CASE \E a \in Actions, k \in {"backup", "restore"}, s \in Services, b \in Actions \cup {0} :
             EnqueueAction(a, k, s, b)
  BY <1>2 DEF EnqueueAction, BackupsTypeOK, service
<1>3. CASE \E a \in Actions : Claim(a) \/ Expire(a)
  BY <1>3 DEF Claim, Expire, BackupsTypeOK, service
<1>4. CASE Report
  BY <1>4 DEF Report, BackupsTypeOK, service
<1>5. CASE UNCHANGED <<kind, row, request, status>>
  BY <1>5
<1>6. CASE ContextEnds \/ Crash \/ Fail \/ BeginBackup \/ Dump \/ KeepDump
  BY <1>5, <1>6 DEF ContextEnds, Crash, Fail, BeginBackup, Dump, KeepDump, store, queue
<1>7. CASE \/ BeginRestore \/ CountKeys \/ StopRedis \/ ClearRedisVolume \/ Unpack
           \/ StartImport \/ Imported
  BY <1>5, <1>7 DEF BeginRestore, CountKeys, StopRedis, ClearRedisVolume, Unpack, StartImport,
     Imported, store, queue
<1>8. CASE \/ \E s \in Services : Switch(s) \/ \E i \in Items : Write(s, i)
           \/ \E p \in DOMAIN import : Import(p)
  BY <1>5, <1>8 DEF Switch, Write, Import, store, queue
<1> QED BY <1>1, <1>2, <1>3, <1>4, <1>6, <1>7, <1>8 DEF Next, Agent, World

\* Only the clearing of a Redis volume deletes.
LEMMA DataGrows ==
  ASSUME Typed, Next, agent.at # "clear", NEW s \in Services
  PROVE  data[s] \subseteq data'[s]
<1> USE DEF Typed
<1>1. CASE UNCHANGED data
  BY <1>1
<1>2. CASE \E t \in Services, i \in Items : Write(t, i)
  BY <1>2 DEF Write, BackupsTypeOK
<1>3. CASE Unpack
  <2>1. \/ data' = data
        \/ \E i \in Archive : data' = [data EXCEPT ![Target] = @ \cup {i}]
    BY <1>3 DEF Unpack
  <2>2. \A C : data' = [data EXCEPT ![Target] = @ \cup C] => data[s] \subseteq data'[s]
    BY DEF BackupsTypeOK
  <2> QED BY <2>1, <2>2
<1>4. CASE \E p \in DOMAIN import : Import(p)
  <2>1. PICK p \in DOMAIN import : Import(p)
    BY <1>4
  <2> DEFINE t == request[p[1]].service
             archive == row[request[p[1]].backup]
  <2>2. \/ data' = data
        \/ data' = [data EXCEPT ![t] = @ \cup archive]
        \/ \E i \in archive \ data[t] : data' = [data EXCEPT ![t] = @ \cup {i}]
    BY <2>1 DEF Import
  <2> HIDE DEF t, archive
  <2>3. \A C : data' = [data EXCEPT ![t] = @ \cup C] => data[s] \subseteq data'[s]
    BY DEF BackupsTypeOK
  <2> QED BY <2>2, <2>3
<1>5. CASE \/ \E a \in Actions : Claim(a) \/ Expire(a)
           \/ Report \/ ContextEnds \/ Crash \/ Fail
           \/ BeginBackup \/ Dump \/ KeepDump \/ Register
           \/ BeginRestore \/ CountKeys \/ StopRedis \/ StartImport \/ Imported
  BY <1>1, <1>5 DEF Claim, Expire, Report, ContextEnds, Crash, Fail, BeginBackup, Dump,
     KeepDump, Register, BeginRestore, CountKeys, StopRedis, StartImport, Imported, node
<1>6. CASE \/ \E t \in Services : Switch(t)
           \/ \E a \in Actions, k \in {"backup", "restore"}, t \in Services,
                 b \in Actions \cup {0} : EnqueueAction(a, k, t, b)
  BY <1>1, <1>6 DEF Switch, EnqueueAction, node
<1>7. CASE ClearRedisVolume
  BY <1>7 DEF ClearRedisVolume
<1> QED BY <1>2, <1>3, <1>4, <1>5, <1>6, <1>7 DEF Next, Agent, World

\* The agent's steps other than a claim keep its action and the data it found.
LEMMA AgentSteps ==
  ASSUME Typed, Next, agent'.at # "idle"
  PROVE  \/ agent' = agent
         \/ \E a \in Actions : Claim(a)
         \/ /\ agent.at # "idle" /\ Act' = Act /\ agent'.before = agent.before
            /\ request'[Act] = request[Act]
            /\ \/ Register \/ BeginBackup \/ KeepDump \/ Fail
               \/ BeginRestore \/ CountKeys \/ StopRedis \/ ClearRedisVolume
               \/ Unpack \/ StartImport \/ Imported
<1> USE DEF Typed
<1>1. Idle.at = "idle"
  BY DEF Idle
<1>2. ASSUME NEW at, GoTo(at), agent.at # "idle"
      PROVE  Act' = Act /\ agent'.before = agent.before
  BY <1>2 DEF GoTo, Act, BackupsTypeOK
<1>3. agent.at # "idle" => request'[Act] = request[Act]
  BY RowsStay DEF BackupsTypeOK
<1>4. CASE agent' = agent \/ \E a \in Actions : Claim(a)
  BY <1>4
<1>5. CASE Register \/ BeginBackup \/ KeepDump \/ Fail
  BY <1>2, <1>3, <1>5 DEF Register, BeginBackup, KeepDump, Fail
<1>6. CASE BeginRestore \/ CountKeys \/ StopRedis \/ StartImport \/ Imported
  BY <1>2, <1>3, <1>6 DEF BeginRestore, CountKeys, StopRedis, StartImport, Imported
<1>7. CASE ClearRedisVolume \/ Unpack
  BY <1>2, <1>3, <1>4, <1>7 DEF ClearRedisVolume, Unpack
<1>8. CASE Report \/ ContextEnds \/ Crash
  BY <1>1, <1>8 DEF Report, ContextEnds, Crash
<1>9. CASE Dump \/ \E a \in Actions : Expire(a)
  BY <1>4, <1>9 DEF Dump, Expire
<1>10. CASE World
  BY <1>4, <1>10 DEF World, Write, Switch, EnqueueAction, Import
<1> QED BY <1>4, <1>5, <1>6, <1>7, <1>8, <1>9, <1>10 DEF Next, Agent

--------------------------------------------------------------------------------
(* Reports and restores. *)

\* "done" is only reported of what is done.
ReportTrue ==
  agent.at = "report done" =>
    /\ request[Act].kind = "backup" => row[Act] # NoFile
    /\ request[Act].kind = "restore" => row[request[Act].backup] \subseteq data[request[Act].service]

\* A restore process that succeeded has restored everything.
ImportsTrue ==
  \A p \in Actions \X (1..MaxAttempts) : import[p] = "done" =>
    row[request[p[1]].backup] \subseteq data[request[p[1]].service]

\* What the target held is still there, or there was nothing when its keys were counted.
BeforeKept ==
  /\ agent.at \in {"restore", "dbsize"} => agent.before \subseteq data[request[Act].service]
  /\ agent.at \in {"stop", "clear"} => agent.before = {}

Truthful == ReportTrue /\ ImportsTrue /\ BeforeKept

LEMMA ImportsTrueNext ==
  ASSUME Typed, ImportsTrue, Next
  PROVE  ImportsTrue'
<1> USE DEF Typed
<1> SUFFICES ASSUME NEW p \in Actions \X (1..MaxAttempts), import'[p] = "done"
             PROVE  row'[request'[p[1]].backup] \subseteq data'[request'[p[1]].service]
  BY DEF ImportsTrue
<1> DEFINE t == request[p[1]].service
           archive == row[request[p[1]].backup]
<1>1. import[p] = "done" \/ (import[p] = "running" /\ Import(p))
  <2>1. CASE UNCHANGED import
    BY <2>1
  <2>2. CASE StartImport
    BY <2>2 DEF StartImport, BackupsTypeOK
  <2>3. CASE \E s \in Services : Switch(s)
    BY <2>3 DEF Switch, BackupsTypeOK
  <2>4. ASSUME NEW q \in DOMAIN import, Import(q) PROVE import[p] = "done" \/ (import[p] = "running" /\ Import(p))
    <3>1. \/ import' = import
          \/ import' = [import EXCEPT ![q] = "failed"]
          \/ import' = [import EXCEPT ![q] = "done"]
      BY <2>4 DEF Import
    <3>2. import[q] = "running"
      BY <2>4 DEF Import
    <3> DEFINE P == Actions \X (1..MaxAttempts)
    <3>3. import \in [P -> {"none", "running", "done", "failed"}] /\ p \in P
      BY DEF BackupsTypeOK
    <3> HIDE DEF P
    <3> QED BY <2>4, <3>1, <3>2, <3>3
  <2>5. CASE \/ \E a \in Actions : Claim(a) \/ Expire(a)
             \/ Report \/ ContextEnds \/ Crash \/ Fail
             \/ BeginBackup \/ Dump \/ KeepDump \/ Register
             \/ BeginRestore \/ CountKeys \/ StopRedis \/ ClearRedisVolume \/ Unpack \/ Imported
    BY <2>1, <2>5 DEF Claim, Expire, Report, ContextEnds, Crash, Fail, BeginBackup, Dump,
       KeepDump, Register, BeginRestore, CountKeys, StopRedis, ClearRedisVolume, Unpack,
       Imported, node
  <2>6. CASE \/ \E s \in Services, i \in Items : Write(s, i)
             \/ \E a \in Actions, k \in {"backup", "restore"}, s \in Services,
                   b \in Actions \cup {0} : EnqueueAction(a, k, s, b)
    BY <2>1, <2>6 DEF Write, EnqueueAction, node
  <2> QED BY <2>2, <2>3, <2>4, <2>5, <2>6 DEF Next, Agent, World
<1>2. /\ p[1] \in Actions /\ status[p[1]] # "none" /\ request[p[1]].kind = "restore"
      /\ ~OnVolume /\ request[p[1]] \in Requested
      /\ request[p[1]].backup \in Actions /\ archive # NoFile
  BY <1>1 DEF ImportsKnown, RequestsKnown
<1>3. t \in Services
  BY <1>2 DEF Requested
<1>4. agent.at # "clear"
  BY <1>2 DEF AgentKnown, OnVolume, RedisSteps
<1>5. /\ request'[p[1]] = request[p[1]] /\ row'[request[p[1]].backup] = archive
      /\ data[t] \subseteq data'[t]
  BY <1>2, <1>3, <1>4, RowsStay, DataGrows
<1>6. archive \subseteq data'[t]
  <2>1. CASE import[p] = "done"
    BY <1>5, <2>1 DEF ImportsTrue
  <2>2. CASE import[p] = "running" /\ Import(p)
    <3>1. \/ import' = [import EXCEPT ![p] = "failed"]
          \/ data' = [data EXCEPT ![t] = @ \cup archive]
          \/ archive \subseteq data[t]
          \/ UNCHANGED import
      BY <2>2 DEF Import
    <3>2. data \in [Services -> SUBSET Items] /\ import[p] = "running" /\ import'[p] = "done"
      BY <1>1, <2>2 DEF BackupsTypeOK
    <3>4. import' # [import EXCEPT ![p] = "failed"] /\ import' # import
      <4>1. p \in DOMAIN import
        BY Zenon DEF BackupsTypeOK
      <4>2. [import EXCEPT ![p] = "failed"][p] = "failed"
        BY <4>1
      <4>3. [import EXCEPT ![p] = "failed"][p] # import'[p] /\ import[p] # import'[p]
        BY <3>2, <4>2
      <4> QED BY <4>3
    <3>5. CASE data' = [data EXCEPT ![t] = @ \cup archive]
      BY <1>3, <3>2, <3>5
    <3>6. CASE archive \subseteq data[t]
      BY <1>5, <3>6
    <3> QED BY <3>1, <3>4, <3>5, <3>6
  <2> QED BY <1>1, <2>1, <2>2
<1> QED BY <1>5, <1>6

LEMMA ReportTrueNext ==
  ASSUME Typed, Truthful, Next
  PROVE  ReportTrue'
<1> USE DEF Typed
<1> SUFFICES ASSUME agent'.at = "report done"
             PROVE  /\ request'[Act'].kind = "backup" => row'[Act'] # NoFile
                    /\ request'[Act'].kind = "restore" =>
                         row'[request'[Act'].backup] \subseteq data'[request'[Act'].service]
  BY DEF ReportTrue
<1>1. CASE agent' = agent
  <2>1. /\ Act' = Act /\ Act \in Actions /\ status[Act] # "none" /\ agent.at = "report done"
    BY <1>1 DEF Act, BackupsTypeOK
  <2>2. request'[Act] = request[Act] /\ request[Act] \in Requested
    BY <2>1, RowsStay DEF RequestsKnown
  <2>3. ASSUME request[Act].kind = "backup" PROVE row'[Act] # NoFile
    BY <2>1, <2>3, RowsStay DEF Truthful, ReportTrue
  <2>4. ASSUME request[Act].kind = "restore"
        PROVE  row'[request[Act].backup] \subseteq data'[request[Act].service]
    <3>1. /\ request[Act].backup \in Actions /\ row[request[Act].backup] # NoFile
          /\ request[Act].service \in Services
      BY <2>1, <2>2, <2>4 DEF RequestsKnown, Requested
    <3>2. data[request[Act].service] \subseteq data'[request[Act].service]
      BY <2>1, <3>1, DataGrows
    <3> QED BY <2>1, <2>4, <3>1, <3>2, RowsStay DEF Truthful, ReportTrue
  <2> QED BY <2>1, <2>2, <2>3, <2>4
<1>2. ASSUME NEW a \in Actions, Claim(a) PROVE FALSE
  <2>1. request[a].kind \in {"backup", "restore"}
    BY <1>2 DEF Claim, Claimable, Unfinished, RequestsKnown, Requested
  <2> QED BY <1>2, <2>1 DEF Claim
<1>3. CASE Register
  <2>1. /\ agent.at = "register" /\ row' = [row EXCEPT ![Act] = dump[Act].file]
        /\ dump[Act].file # NoFile /\ request[Act].kind = "backup" /\ Act \in Actions
        /\ UNCHANGED request
    BY <1>3 DEF Register, AgentKnown, BackupSteps, BackupsTypeOK, queue
  <2>2. Act' = Act
    BY <1>3 DEF Register, GoTo, Act, BackupsTypeOK
  <2> QED BY <2>1, <2>2 DEF BackupsTypeOK
<1>4. CASE Unpack
  <2>1. /\ agent.at = "unpack" /\ request[Act].kind = "restore"
        /\ UNCHANGED <<request, row>>
    BY <1>4 DEF Unpack, AgentKnown, RestoreSteps, store, queue
  <2>2. Archive \subseteq data[Target] /\ UNCHANGED data /\ GoTo("report done")
    BY <1>4, <2>1 DEF Unpack
  <2>3. Act' = Act
    BY <2>2 DEF GoTo, Act, BackupsTypeOK
  <2> QED BY <2>1, <2>2, <2>3 DEF Archive, Target
<1>5. CASE Imported
  <2>1. /\ agent.at = "wait" /\ request[Act].kind = "restore"
        /\ UNCHANGED <<request, row, data>>
    BY <1>5 DEF Imported, AgentKnown, RestoreSteps, store, queue, node
  <2>2. GoTo("report done") /\ import[Process] = "done"
    BY <1>5 DEF Imported, ExitsWell, GoTo, BackupsTypeOK
  <2>3. Act' = Act
    BY <2>2 DEF GoTo, Act, BackupsTypeOK
  <2>4. Process \in Actions \X (1..MaxAttempts) /\ Process[1] = Act
    <3>1. Process \in Actions \X (1..MaxAttempts)
      BY <2>1 DEF Process, AgentKnown, BackupsTypeOK
    <3> QED BY <3>1 DEF Process
  <2>5. row[request[Act].backup] \subseteq data[request[Act].service]
    BY <2>2, <2>4 DEF Truthful, ImportsTrue
  <2> QED BY <2>1, <2>3, <2>5
<1>6. CASE \/ BeginBackup \/ KeepDump \/ Fail \/ BeginRestore \/ CountKeys \/ StopRedis
           \/ ClearRedisVolume \/ StartImport
  BY <1>1, <1>6 DEF BeginBackup, KeepDump, Fail, BeginRestore, CountKeys, StopRedis,
     ClearRedisVolume, StartImport, GoTo, BackupsTypeOK
<1> QED BY <1>1, <1>2, <1>3, <1>4, <1>5, <1>6, AgentSteps

LEMMA BeforeKeptNext ==
  ASSUME Typed, BeforeKept, Next
  PROVE  BeforeKept'
<1> USE DEF Typed
<1> SUFFICES ASSUME agent'.at \in {"restore", "dbsize", "stop", "clear"}
             PROVE  BeforeKept'
  BY DEF BeforeKept
<1>1. ASSUME agent.at \in {"restore", "dbsize", "stop", "clear"}, Act' = Act,
             agent'.before = agent.before, agent.at # "clear"
      PROVE  data[Target] \subseteq data'[Target] /\ Target' = Target
  <2>1. request'[Act] = request[Act] /\ Target \in Services
    BY <1>1, RowsStay DEF BackupsTypeOK, RequestsKnown, Requested, Target
  <2> QED BY <1>1, <2>1, DataGrows DEF Target
<1>2. CASE agent' = agent
  <2>1. agent.at \in {"stop", "clear"} => BeforeKept'
    BY <1>2 DEF BeforeKept
  <2>2. agent.at \in {"restore", "dbsize"} => BeforeKept'
    BY <1>1, <1>2 DEF BeforeKept, Act, Target
  <2> QED BY <1>2, <2>1, <2>2
<1>3. ASSUME NEW a \in Actions, Claim(a) PROVE BeforeKept'
  <2>1. /\ request[a].kind \in {"backup", "restore"} /\ UNCHANGED <<request, data>>
        /\ agent' = [at |-> request[a].kind, action |-> a, before |-> data[request[a].service]]
    BY <1>3 DEF Claim, Claimable, Unfinished, RequestsKnown, Requested
  <2> QED BY <2>1 DEF BeforeKept, Act
<1>4. CASE BeginRestore
  <2>1. /\ agent.at = "restore" /\ agent'.at \notin {"restore", "stop", "clear"}
        /\ Act' = Act /\ agent'.before = agent.before /\ UNCHANGED <<request, data>>
    BY <1>4 DEF BeginRestore, GoTo, Act, BackupsTypeOK, store, queue
  <2> QED BY <2>1 DEF BeforeKept
<1>5. CASE CountKeys
  <2>1. /\ agent.at = "dbsize" /\ agent'.at = "stop" /\ agent'.before = agent.before
        /\ data[Target] = {}
    BY <1>5 DEF CountKeys, GoTo, Empty, BackupsTypeOK
  <2> QED BY <2>1 DEF BeforeKept, Target
<1>6. CASE StopRedis
  <2>1. agent.at = "stop" /\ agent'.at = "clear" /\ agent'.before = agent.before
    BY <1>6 DEF StopRedis, GoTo, BackupsTypeOK
  <2> QED BY <2>1 DEF BeforeKept
<1>7. CASE \/ Register \/ BeginBackup \/ KeepDump \/ Fail \/ ClearRedisVolume \/ Unpack
           \/ StartImport \/ Imported
  <2>1. \A at : GoTo(at) => agent'.at = at
    BY DEF GoTo, BackupsTypeOK
  <2>2. CASE Register \/ BeginBackup \/ KeepDump \/ Fail
    BY <2>1, <2>2 DEF Register, BeginBackup, KeepDump, Fail
  <2>3. CASE ClearRedisVolume \/ Unpack
    BY <1>2, <2>1, <2>3 DEF ClearRedisVolume, Unpack
  <2>4. CASE StartImport \/ Imported
    BY <2>1, <2>4 DEF StartImport, Imported
  <2> QED BY <1>7, <2>2, <2>3, <2>4
<1>8. agent'.at # "idle"
  OBVIOUS
<1> QED BY <1>2, <1>3, <1>4, <1>5, <1>6, <1>7, <1>8, AgentSteps

THEOREM TruthfulAlways == Spec => [](Typed /\ Truthful)
<1>1. Init => Truthful
  BY DEF Init, Idle, Truthful, ReportTrue, ImportsTrue, BeforeKept
<1>2. Typed /\ Truthful /\ [Next]_vars => (Typed /\ Truthful)'
  <2>1. CASE UNCHANGED vars
    BY <2>1, TypedNext
    DEF Truthful, ReportTrue, ImportsTrue, BeforeKept, Act, vars, store, queue, node
  <2>2. CASE Next
    BY <2>2, TypedNext, ReportTrueNext, ImportsTrueNext, BeforeKeptNext DEF Truthful
  <2> QED BY <2>1, <2>2
<1> QED BY <1>1, <1>2, TypedInit, PTL DEF Spec

\* An action is recorded done only when its backup is registered or all of the backup
\* is in the target, whichever attempt did it.
THEOREM DoneIsTrueAlways == Spec => DoneIsTrue
<1> DEFINE True(a) ==
      status'[a] = "done" /\ status[a] # "done" =>
        /\ request[a].kind = "backup" => row[a] # NoFile
        /\ request[a].kind = "restore" =>
             row[request[a].backup] \subseteq data[request[a].service]
<1>1. Typed /\ Truthful /\ [Next]_vars => [\A a \in Actions : True(a)]_vars
  <2> SUFFICES ASSUME Typed, Truthful, Next, NEW a \in Actions,
                      status'[a] = "done", status[a] # "done"
               PROVE  /\ request[a].kind = "backup" => row[a] # NoFile
                      /\ request[a].kind = "restore" =>
                           row[request[a].backup] \subseteq data[request[a].service]
    OBVIOUS
  <2> USE DEF Typed
  <2>1. agent.at = "report done" /\ a = Act
    <3>1. CASE Report
      BY <3>1 DEF Report, BackupsTypeOK
    <3>2. CASE UNCHANGED status
      BY <3>2
    <3>0. DOMAIN status = Actions
      BY DEF BackupsTypeOK
    <3>3. ASSUME NEW c \in Actions, Claim(c) \/ Expire(c) PROVE FALSE
      <4>1. \E w \in {"running", "failed", "queued"} : status' = [status EXCEPT ![c] = w]
        BY <3>3 DEF Claim, Expire
      <4> QED BY <3>0, <4>1
    <3>4. ASSUME NEW c \in Actions, NEW k, NEW s, NEW b, EnqueueAction(c, k, s, b) PROVE FALSE
      <4>1. status' = [status EXCEPT ![c] = "queued"]
        BY <3>4 DEF EnqueueAction
      <4> QED BY <3>0, <4>1
    <3>5. CASE \/ ContextEnds \/ Crash \/ Fail \/ BeginBackup \/ Dump \/ KeepDump \/ Register
               \/ BeginRestore \/ CountKeys \/ StopRedis \/ ClearRedisVolume \/ Unpack
               \/ StartImport \/ Imported
      BY <3>2, <3>5 DEF ContextEnds, Crash, Fail, BeginBackup, Dump, KeepDump, Register,
         BeginRestore, CountKeys, StopRedis, ClearRedisVolume, Unpack, StartImport, Imported,
         store, queue
    <3>6. CASE \/ \E s \in Services : Switch(s) \/ \E i \in Items : Write(s, i)
               \/ \E p \in DOMAIN import : Import(p)
      BY <3>2, <3>6 DEF Switch, Write, Import, store, queue
    <3> QED BY <3>1, <3>3, <3>4, <3>5, <3>6 DEF Next, Agent, World
  <2> QED BY <2>1 DEF Truthful, ReportTrue
<1> QED BY <1>1, TruthfulAlways, PTL DEF Spec, DoneIsTrue

\* A restore deletes nothing that its target held when the attempt began.
THEOREM RestorePreservesAlways == Spec => RestorePreserves
<1> DEFINE Kept == \A s \in Services : (data[s] \ data'[s]) \cap agent.before = {}
<1>1. Typed /\ Truthful /\ [Next]_vars => [Kept]_vars
  <2> SUFFICES ASSUME Typed, Truthful, Next, NEW s \in Services
               PROVE  (data[s] \ data'[s]) \cap agent.before = {}
    OBVIOUS
  <2>1. CASE agent.at = "clear"
    BY <2>1 DEF Truthful, BeforeKept
  <2>2. CASE agent.at # "clear"
    <3>1. data[s] \subseteq data'[s]
      BY <2>2, DataGrows
    <3> QED BY <3>1
  <2> QED BY <2>1, <2>2
<1> QED BY <1>1, TruthfulAlways, PTL DEF Spec, RestorePreserves

\* A PostgreSQL service never holds a part of a backup.
THEOREM RestoredWholeAlways == Spec => []RestoredWhole
<1> DEFINE Kept == {a \in Actions : row[a] # NoFile}
           Restores(s, Restored) == data[s] \ Own[s] = (UNION {row[a] : a \in Restored}) \ Own[s]
<1>1. Init => RestoredWhole
  <2> SUFFICES ASSUME Init, NEW s \in Services PROVE \E Restored \in SUBSET Kept : Restores(s, Restored)
    BY DEF RestoredWhole
  <2>1. {} \in SUBSET Kept /\ Restores(s, {})
    BY DEF Init
  <2> HIDE DEF Restores, Kept
  <2> QED BY <2>1
<1>2. Typed /\ RestoredWhole /\ [Next]_vars => RestoredWhole'
  <2> SUFFICES ASSUME Typed, RestoredWhole, [Next]_vars, kind' = "postgres", NEW s \in Services
               PROVE  \E Restored \in SUBSET Kept' : Restores(s, Restored)'
    BY DEF RestoredWhole
  <2> USE DEF Typed
  <2>1. /\ kind = "postgres"
        /\ \A a \in Actions : row[a] # NoFile => row'[a] = row[a]
    BY RowsStay DEF vars, store
  <2>2. PICK Restored \in SUBSET Kept : Restores(s, Restored)
    BY <2>1 DEF RestoredWhole
  <2>3. /\ Restored \in SUBSET Kept'
        /\ {row'[a] : a \in Restored} = {row[a] : a \in Restored}
    BY <2>1, <2>2
  <2>4. ASSUME data'[s] \ Own[s] = data[s] \ Own[s]
        PROVE  \E R \in SUBSET Kept' : Restores(s, R)'
    <3>1. Restores(s, Restored)'
      BY <2>2, <2>3, <2>4
    <3> HIDE DEF Restores
    <3> QED BY <2>3, <3>1
  <2>5. CASE UNCHANGED data
    BY <2>4, <2>5
  <2>6. ASSUME NEW t \in Services, NEW i \in Items, Write(t, i)
        PROVE  data'[s] \ Own[s] = data[s] \ Own[s]
    BY <2>6 DEF Write, BackupsTypeOK
  <2>7. ASSUME NEW p \in DOMAIN import, Import(p)
        PROVE  \E R \in SUBSET Kept' : Restores(s, R)'
    <3>0. PICK b, t : b = request[p[1]].backup /\ t = request[p[1]].service
      OBVIOUS
    <3>1. /\ p \in Actions \X (1..MaxAttempts) /\ import[p] = "running"
          /\ UNCHANGED row
          /\ UNCHANGED data \/ data' = [data EXCEPT ![t] = @ \cup row[b]]
      BY <2>1, <2>7, <3>0 DEF Import, AtOnce, BackupsTypeOK, store
    <3>2. b \in Kept /\ t \in Services
      BY <3>0, <3>1 DEF ImportsKnown, RequestsKnown, Requested
    <3>3. CASE UNCHANGED data \/ s # t
      BY <2>4, <3>1, <3>3 DEF BackupsTypeOK
    <3>4. CASE data' = [data EXCEPT ![t] = @ \cup row[b]] /\ s = t
      <4>1. Restored \cup {b} \in SUBSET Kept'
        BY <2>2, <3>1, <3>2
      <4>2. data'[s] = data[s] \cup row[b]
        BY <3>4 DEF BackupsTypeOK
      <4>3. UNION {row'[a] : a \in Restored \cup {b}} = (UNION {row[a] : a \in Restored}) \cup row[b]
        BY <3>1
      <4>4. Restores(s, Restored \cup {b})'
        BY <2>2, <4>2, <4>3
      <4> HIDE DEF Restores
      <4> QED BY <4>1, <4>4
    <3> QED BY <3>1, <3>3, <3>4
  <2>8. CASE ClearRedisVolume \/ Unpack
    BY <2>1, <2>8 DEF ClearRedisVolume, Unpack, AgentKnown, RedisSteps, OnVolume
  <2>9. CASE \/ \E a \in Actions : Claim(a) \/ Expire(a)
             \/ Report \/ ContextEnds \/ Crash \/ Fail
             \/ BeginBackup \/ Dump \/ KeepDump \/ Register
             \/ BeginRestore \/ CountKeys \/ StopRedis \/ StartImport \/ Imported
    BY <2>5, <2>9 DEF Claim, Expire, Report, ContextEnds, Crash, Fail, BeginBackup, Dump,
       KeepDump, Register, BeginRestore, CountKeys, StopRedis, StartImport, Imported, node
  <2>10. CASE \/ \E t \in Services : Switch(t)
              \/ \E a \in Actions, k \in {"backup", "restore"}, t \in Services,
                    b \in Actions \cup {0} : EnqueueAction(a, k, t, b)
    BY <2>5, <2>10 DEF Switch, EnqueueAction, node
  <2>11. CASE UNCHANGED vars
    BY <2>5, <2>11 DEF vars, node
  <2> QED BY <2>4, <2>6, <2>7, <2>8, <2>9, <2>10, <2>11 DEF Next, Agent, World
<1> QED BY <1>1, <1>2, TypedAlways, PTL DEF Spec

--------------------------------------------------------------------------------
(* Registered archives. *)

\* Reconciliation brings every container to its desired state before an action is
\* given out.  A volume whose container could not be stopped may be copied in use.
Reconciled == Pending = {}

\* A row names its file, and a file is what the service held when its dump began.
FilesWhole ==
  \A a \in Actions :
    /\ row[a] # NoFile => row[a] = dump[a].file
    /\ dump[a].file # NoFile => dump[a].file = dumped[a]

\* What is being dumped does not change.
DumpBegun ==
  agent.at = "dump" =>
    /\ dump[Act].file = NoFile
    /\ dump[Act].temp \subseteq dumped[Act]
    /\ OnVolume => data[Target] = dumped[Act]

\* Services whose volume is copied or replaced are stopped.
Stopped ==
  OnVolume =>
    /\ \A a \in Actions : Unfinished(a) => desired[request[a].service] = "stopped"
    /\ agent.at \in {"backup", "dump"} => ~running[Target]

Archived == FilesWhole /\ DumpBegun /\ Stopped

LEMMA ArchivedWorld ==
  ASSUME Typed, Archived, World
  PROVE  Archived'
<1> USE DEF Typed, Archived
<1>1. ASSUME NEW s \in Services, NEW i \in Items, Write(s, i) PROVE Archived'
  <2>1. /\ running[s] /\ data' = [data EXCEPT ![s] = @ \cup {i}]
        /\ UNCHANGED <<kind, row, request, status, desired, running, dump, agent, dumped>>
    BY <1>1 DEF Write, store, queue
  <2>2. agent.at = "dump" /\ OnVolume => data'[Target] = data[Target]
    BY <2>1 DEF Stopped, BackupsTypeOK
  <2> QED BY <2>1, <2>2 DEF FilesWhole, DumpBegun, Stopped, OnVolume, Unfinished, Act, Target
<1>2. ASSUME NEW s \in Services, Switch(s) PROVE Archived'
  <2>1. /\ desired' = [desired EXCEPT ![s] = IF @ = "running" THEN "stopped" ELSE "running"]
        /\ running' = [running EXCEPT ![s] = desired[s] = "stopped"]
        /\ UNCHANGED <<kind, row, request, status, data, dump, agent, dumped>>
        /\ \A a \in Actions : Unfinished(a) => request[a].service # s
    BY <1>2 DEF Switch, Busy, queue
  <2>2. agent.at # "idle" => Unfinished(Act) /\ Act \in Actions
    BY DEF BackupsTypeOK, Unfinished
  <2>3. \A a \in Actions : Unfinished(a) =>
          desired'[request[a].service] = desired[request[a].service]
    BY <2>1 DEF BackupsTypeOK
  <2>4. agent.at # "idle" => running'[Target] = running[Target]
    BY <2>1, <2>2 DEF BackupsTypeOK, Target
  <2> QED BY <2>1, <2>3, <2>4 DEF FilesWhole, DumpBegun, Stopped, OnVolume, Unfinished, Act, Target
<1>3. ASSUME NEW a \in Actions, NEW k \in {"backup", "restore"}, NEW s \in Services,
             NEW b \in Actions \cup {0}, EnqueueAction(a, k, s, b)
      PROVE  Archived'
  <2>1. /\ request'[a].service = s /\ status[a] = "none"
        /\ \A c \in Actions \ {a} : request'[c] = request[c] /\ status'[c] = status[c]
        /\ Exportable(s)
        /\ UNCHANGED <<kind, desired, row, data, running, dump, dumped, agent>>
    BY <1>3 DEF EnqueueAction, BackupsTypeOK, service, node
  <2>2. agent.at # "idle" => Act' = Act /\ Target' = Target
    BY <2>1 DEF BackupsTypeOK, Act, Target
  <2>3. OnVolume => desired[s] = "stopped"
    BY <2>1 DEF Exportable
  <2> QED BY <2>1, <2>2, <2>3 DEF FilesWhole, DumpBegun, Stopped, OnVolume, Unfinished
<1>4. ASSUME NEW p \in DOMAIN import, Import(p) PROVE Archived'
  <2>1. import[p] = "running" /\ UNCHANGED <<store, running, dump, agent, dumped>>
    BY <1>4 DEF Import
  <2>2. p \in Actions \X (1..MaxAttempts)
    BY <1>4 DEF BackupsTypeOK
  <2>3. ~OnVolume
    BY <2>1, <2>2 DEF ImportsKnown
  <2>4. UNCHANGED <<kind, row, request, status, desired, running, dump, agent, dumped>>
    BY <2>1 DEF store, queue
  <2> QED BY <2>3, <2>4 DEF FilesWhole, DumpBegun, Stopped, OnVolume, Act
<1> QED BY <1>1, <1>2, <1>3, <1>4 DEF World

LEMMA ArchivedAgent ==
  ASSUME Reconciled, Typed, Archived, Agent
  PROVE  Archived'
<1> USE DEF Typed, Archived
<1>1. Idle.at = "idle"
  BY DEF Idle
<1>2. ASSUME agent'.at \notin {"backup", "dump"},
             UNCHANGED <<kind, desired, row, request, dumped>>,
             \A a \in Actions : dump'[a].file = dump[a].file,
             \A a \in Actions : Unfinished(a)' => Unfinished(a)
      PROVE  Archived'
  BY <1>2 DEF FilesWhole, DumpBegun, Stopped, OnVolume
<1>3. agent.at # "idle" => Act \in Actions /\ Target \in Services
  BY DEF BackupsTypeOK, RequestsKnown, Requested, Target
<1>4. ASSUME NEW a \in Actions, Claim(a) PROVE Archived'
  <2>1. /\ Unfinished(a) /\ status' = [status EXCEPT ![a] = "running"]
        /\ agent' = [at |-> request[a].kind, action |-> a, before |-> data[request[a].service]]
        /\ UNCHANGED <<kind, desired, request, row, data, dump, dumped>>
        /\ request[a].kind \in {"backup", "restore"} /\ request[a].service \in Services
    BY <1>4 DEF Claim, Claimable, Unfinished, RequestsKnown, Requested
  <2>2. PICK failed \in SUBSET Pending :
          running' = [s \in Services |->
            IF s \in failed THEN running[s] ELSE desired[s] = "running"]
    BY <1>4 DEF Claim
  <2>3. \A s \in Services : running'[s] = (desired[s] = "running")
    BY <2>2 DEF Reconciled
  <2>4. \A c \in Actions : Unfinished(c)' => Unfinished(c)
    BY <2>1 DEF Unfinished, BackupsTypeOK
  <2>5. agent'.at # "dump" /\ Target' = request[a].service
    BY <2>1 DEF Target, Act
  <2>6. OnVolume => ~running'[request[a].service]
    BY <2>1, <2>3 DEF Stopped
  <2>7. Stopped'
    BY <2>1, <2>4, <2>5, <2>6 DEF Stopped, OnVolume
  <2> QED BY <2>1, <2>5, <2>7 DEF FilesWhole, DumpBegun
<1>5. ASSUME NEW a \in Actions, Expire(a) PROVE Archived'
  BY <1>1, <1>2, <1>5 DEF Expire, Unfinished, BackupsTypeOK, service, node
<1>6. CASE Report
  <2>1. \A a \in Actions : Unfinished(a)' => Unfinished(a)
    BY <1>6 DEF Report, Unfinished, BackupsTypeOK
  <2> QED BY <1>1, <1>2, <1>6, <2>1 DEF Report, service, node
<1>16. dump' = WithoutTemp => \A a \in Actions : dump'[a].file = dump[a].file
  BY DEF WithoutTemp, BackupsTypeOK
<1>7. CASE ContextEnds
  <2>1. \A a \in Actions : dump'[a].file = dump[a].file
    BY <1>7, <1>16 DEF ContextEnds
  <2> QED BY <1>1, <1>2, <1>7, <2>1 DEF ContextEnds, Unfinished, store, queue
<1>8. CASE Crash
  BY <1>1, <1>2, <1>8 DEF Crash, Unfinished, store, queue, node
<1>9. CASE Fail
  <2>1. \A a \in Actions : dump'[a].file = dump[a].file
    BY <1>9, <1>16 DEF Fail
  <2>2. agent'.at = "report failed"
    BY <1>9 DEF Fail, GoTo, BackupsTypeOK
  <2> QED BY <1>2, <1>9, <2>1, <2>2 DEF Fail, Unfinished, store, queue
<1>10. CASE BeginBackup
  <2>1. /\ Act \in Actions /\ UNCHANGED <<kind, desired, row, request, status, data, running>>
        /\ Act' = Act /\ Target' = Target /\ agent.at = "backup"
    BY <1>3, <1>10 DEF BeginBackup, GoTo, BackupsTypeOK, Act, Target, store, queue
  <2>2. CASE /\ Existing(Act) # NoFile /\ GoTo("register")
             /\ dump' = [dump EXCEPT ![Act].file = Existing(Act)] /\ UNCHANGED dumped
    <3>1. dump' = dump /\ agent'.at = "register"
      BY <2>1, <2>2 DEF Existing, GoTo, BackupsTypeOK
    <3> QED BY <1>2, <2>1, <2>2, <3>1 DEF Unfinished
  <2>3. CASE /\ Existing(Act) = NoFile /\ GoTo("dump")
             /\ dump' = [dump EXCEPT ![Act].temp = {}]
             /\ dumped' = [dumped EXCEPT ![Act] = data[Target]]
    <3>1. /\ agent'.at = "dump" /\ dump'[Act].temp = {} /\ dumped'[Act] = data[Target]
          /\ \A a \in Actions : dump'[a].file = dump[a].file
          /\ \A a \in Actions \ {Act} : dumped'[a] = dumped[a]
          /\ dump[Act].file = NoFile
      BY <2>1, <2>3 DEF Existing, GoTo, BackupsTypeOK
    <3>2. FilesWhole'
      BY <2>1, <3>1 DEF FilesWhole
    <3>3. DumpBegun'
      BY <2>1, <3>1 DEF DumpBegun, OnVolume
    <3>4. Stopped'
      BY <2>1, <3>1 DEF Stopped, OnVolume, Unfinished
    <3> QED BY <3>2, <3>3, <3>4
  <2> QED BY <1>10, <2>2, <2>3 DEF BeginBackup
<1>11. Source = dumped[Act] \/ agent.at # "dump"
  BY DEF Source, DumpBegun
<1>12. CASE Dump
  <2>1. PICK i \in Source \ dump[Act].temp : dump' = [dump EXCEPT ![Act].temp = @ \cup {i}]
    BY <1>12 DEF Dump
  <2>2. /\ agent.at = "dump"
        /\ UNCHANGED <<kind, desired, row, request, status, data, running, agent, dumped>>
    BY <1>12 DEF Dump, store, queue
  <2>3. /\ \A a \in Actions : dump'[a].file = dump[a].file
        /\ dump'[Act].temp \subseteq dumped[Act]
    BY <1>3, <1>11, <2>1, <2>2 DEF DumpBegun, BackupsTypeOK
  <2>4. FilesWhole'
    BY <2>2, <2>3 DEF FilesWhole
  <2>5. DumpBegun'
    BY <1>3, <2>2, <2>3 DEF DumpBegun, OnVolume, Act, Target
  <2>6. Stopped'
    BY <2>2 DEF Stopped, OnVolume, Unfinished, Act, Target
  <2> QED BY <2>4, <2>5, <2>6
<1>13. CASE KeepDump
  <2>1. /\ agent.at = "dump" /\ Source \subseteq dump[Act].temp /\ agent'.at = "register"
        /\ dump' = [dump EXCEPT ![Act] = [temp |-> NoFile, file |-> dump[Act].temp]]
        /\ UNCHANGED <<kind, desired, row, request, status, dumped>>
    BY <1>13 DEF KeepDump, GoTo, BackupsTypeOK, store, queue
  <2>2. dump[Act].temp = dumped[Act] /\ row[Act] = NoFile
    BY <1>3, <1>11, <2>1 DEF DumpBegun, FilesWhole
  <2>3. FilesWhole'
    BY <1>3, <2>1, <2>2 DEF FilesWhole, BackupsTypeOK
  <2> QED BY <2>1, <2>3 DEF DumpBegun, Stopped, OnVolume, Unfinished
<1>14. CASE Register
  <2>1. /\ agent.at = "register" /\ agent'.at \notin {"backup", "dump"}
        /\ row' = [row EXCEPT ![Act] = dump[Act].file]
        /\ UNCHANGED <<kind, desired, request, status, dump, dumped>>
    BY <1>14 DEF Register, GoTo, BackupsTypeOK, queue, service, node
  <2>2. FilesWhole'
    BY <1>3, <2>1 DEF FilesWhole, BackupsTypeOK
  <2> QED BY <2>1, <2>2 DEF DumpBegun, Stopped, OnVolume, Unfinished
<1>15. CASE \/ BeginRestore \/ CountKeys \/ StopRedis \/ ClearRedisVolume \/ Unpack
            \/ StartImport \/ Imported
  <2>1. agent'.at \notin {"backup", "dump"}
    <3>1. \A at : GoTo(at) => agent'.at = at
      BY DEF GoTo, BackupsTypeOK
    <3>2. CASE BeginRestore \/ CountKeys \/ StopRedis
      BY <3>1, <3>2 DEF BeginRestore, CountKeys, StopRedis
    <3>3. CASE ClearRedisVolume \/ Unpack \/ StartImport \/ Imported
      BY <3>1, <3>3 DEF ClearRedisVolume, Unpack, StartImport, Imported
    <3> QED BY <1>15, <3>2, <3>3
  <2>2. UNCHANGED <<kind, desired, row, request, status, dump, dumped>>
    BY <1>15 DEF BeginRestore, CountKeys, StopRedis, ClearRedisVolume, Unpack, StartImport,
       Imported, store, queue, node
  <2> QED BY <1>2, <2>1, <2>2 DEF Unfinished
<1> QED BY <1>4, <1>5, <1>6, <1>7, <1>8, <1>9, <1>10, <1>12, <1>13, <1>14, <1>15 DEF Agent

\* A registered backup has its file, whole and of one moment, as long as reconciliation
\* succeeds before an action is given out.
THEOREM RegisteredCompleteAlways == ASSUME Reconciled PROVE Spec => []RegisteredComplete
<1>1. Init => Archived
  BY DEF Init, Archived, FilesWhole, DumpBegun, Stopped, Unfinished, Idle
<1>2. Typed /\ Archived /\ [Next]_vars => (Typed /\ Archived)'
  <2>1. CASE UNCHANGED vars
    BY <2>1, TypedNext DEF Archived, FilesWhole, DumpBegun, Stopped, OnVolume, Unfinished, Act,
       Target, vars, store, queue, node
  <2> QED BY <2>1, TypedNext, ArchivedWorld, ArchivedAgent DEF Next
<1>3. Typed /\ Archived => RegisteredComplete
  BY DEF Archived, FilesWhole, RegisteredComplete
<1> QED BY <1>1, <1>2, <1>3, TypedInit, PTL DEF Spec
================================================================================
