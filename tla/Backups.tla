-------------------------------- MODULE Backups --------------------------------
(***************************************************************************)
(* Backup and restore on the node: agent/backup.go over the archives of    *)
(* runtime/docker, the registration of backups in api/operations.go, and   *)
(* what of the action queue and of the agent's loop they rely on.          *)
(*                                                                         *)
(* The agent runs one attempt of one action at a time; between its calls   *)
(* clients write to running containers, and the process that a database    *)
(* restore starts inside its container goes on by itself, also when the    *)
(* attempt that started it has ended.  An attempt may fail at every call,  *)
(* run out of time, or be cut off by a crash of the agent.                 *)
(*                                                                         *)
(* Abstractions.  A service's data is a set of items, an archive or dump   *)
(* the set of items in it and a checksum that set.  MongoDB is restored    *)
(* like MySQL.  Services of one kind and template version; start and stop  *)
(* actions (Rollout's) are one step.  The container that clears a Redis    *)
(* volume has ended before an agent that crashed meanwhile is back.        *)
(***************************************************************************)
EXTENDS Integers, FiniteSets

CONSTANTS
  Kinds,        \* kinds of services: "http", "redis", "postgres", "mysql"
  Services,
  Own,          \* the items clients write to each service
  Actions,      \* actions in the order in which they are requested
  MaxAttempts,  \* 3 in the code
  Pending,      \* services whose reconciliation may fail
  NoFile

ASSUME BackupsAssumption ==
  /\ Kinds \subseteq {"http", "redis", "postgres", "mysql"}
  /\ MaxAttempts \in Nat \ {0}
  /\ Actions \subseteq Nat \ {0}
  /\ Pending \subseteq Services
  /\ \A s, t \in Services : s # t => Own[s] \cap Own[t] = {}
  /\ \A contents \in SUBSET UNION {Own[s] : s \in Services} : contents # NoFile

VARIABLES
  kind,      \* settings.kind of the services
  data,      \* what their volumes hold
  running,   \* their containers run
  desired,   \* services.desired_state
  request,   \* service_actions: kind, service and backup_id
  status, attempt,
  row,       \* table backups: the checksum
  dump,      \* <id>.dump.tmp and <id>.dump
  import,    \* the restore process of each attempt in its container
  agent,     \* where RunBackup is
  dumped     \* history: the data when the dump of an action began

service == <<kind, desired>>
queue == <<request, status, attempt>>
store == <<row, queue, desired, kind>>
node == <<data, running, dump, import, dumped>>
vars == <<store, node, agent>>

Items == UNION {Own[s] : s \in Services}
NoRequest == [kind |-> "none", service |-> "none", backup |-> 0]
Idle == [at |-> "idle", action |-> 0, before |-> {}]

Init ==
  /\ kind \in Kinds
  /\ data = [s \in Services |-> {}]
  /\ running = [s \in Services |-> TRUE]
  /\ desired = [s \in Services |-> "running"]
  /\ request = [a \in Actions |-> NoRequest]
  /\ status = [a \in Actions |-> "none"]
  /\ attempt = [a \in Actions |-> 0]
  /\ row = [a \in Actions |-> NoFile]
  /\ dump = [a \in Actions |-> [temp |-> NoFile, file |-> NoFile]]
  /\ import = [p \in Actions \X (1..MaxAttempts) |-> "none"]
  /\ agent = Idle
  /\ dumped = [a \in Actions |-> NoFile]

OnVolume == kind \in {"http", "redis"}

Unfinished(a) == status[a] \in {"queued", "running"}

Busy(s) == \E a \in Actions : Unfinished(a) /\ request[a].service = s

--------------------------------------------------------------------------------
(* Owner and clients. *)

Write(s, i) ==
  /\ running[s] /\ i \in Own[s] \ data[s]
  /\ data' = [data EXCEPT ![s] = @ \cup {i}]
  /\ UNCHANGED <<store, running, dump, import, agent, dumped>>

ImportsOf(s) == {p \in DOMAIN import : request[p[1]].service = s}

\* A start or stop action; what runs in a container stops with it.
Switch(s) ==
  /\ ~Busy(s)
  /\ desired' = [desired EXCEPT ![s] = IF @ = "running" THEN "stopped" ELSE "running"]
  /\ running' = [running EXCEPT ![s] = desired[s] = "stopped"]
  /\ import' = [p \in DOMAIN import |->
       IF p \in ImportsOf(s) /\ import[p] = "running" THEN "failed" ELSE import[p]]
  /\ UNCHANGED <<kind, row, queue, data, dump, agent, dumped>>

\* Databases are dumped and restored running, volumes stopped.
Exportable(s) == desired[s] = IF OnVolume THEN "stopped" ELSE "running"

EnqueueAction(a, k, s, b) ==
  /\ status[a] = "none" /\ \A c \in Actions : c < a => status[c] # "none"
  /\ ~Busy(s) /\ Exportable(s)
  /\ IF k = "restore" THEN b \in Actions /\ row[b] # NoFile ELSE b = 0
  /\ request' = [request EXCEPT ![a] = [kind |-> k, service |-> s, backup |-> b]]
  /\ status' = [status EXCEPT ![a] = "queued"]
  /\ UNCHANGED <<attempt, row, service, node, agent>>

--------------------------------------------------------------------------------
(* The agent's loop. *)

\* Mutant: an action may be tried for ever.
ClaimableForever(a) == Unfinished(a)

Claimable(a) == Unfinished(a) /\ attempt[a] < MaxAttempts

\* Reconcile brings the containers to the desired states; Claim then gives the
\* oldest action.
Claim(a) ==
  /\ agent = Idle
  /\ Claimable(a)
  /\ \A c \in Actions : c < a => ~Unfinished(c)
  /\ \E failed \in SUBSET Pending :
       running' = [s \in Services |->
         IF s \in failed THEN running[s] ELSE desired[s] = "running"]
  /\ status' = [status EXCEPT ![a] = "running"]
  /\ attempt' = [attempt EXCEPT ![a] = @ + 1]
  /\ agent' = [at |-> request[a].kind, action |-> a, before |-> data[request[a].service]]
  /\ UNCHANGED <<kind, desired, request, row, data, dump, import, dumped>>

\* The deadline passed or the attempts are used up when the agent claims.
Expire(a) ==
  /\ agent = Idle /\ status[a] = "running"
  /\ status' = [status EXCEPT ![a] = "failed"]
  /\ UNCHANGED <<request, attempt, row, service, node, agent>>

Act == agent.action
Target == request[Act].service
Archive == row[request[Act].backup]
GoTo(at) == agent' = [agent EXCEPT !.at = at]

\* The deferred removal of the unfinished dump.
WithoutTemp == [dump EXCEPT ![Act].temp = NoFile]

\* The report, which commits or not, answered or not.
Report ==
  /\ agent.at \in {"report done", "report failed"}
  /\ \/ status' = [status EXCEPT ![Act] = IF agent.at = "report done" THEN "done" ELSE "failed"]
     \/ UNCHANGED status
  /\ agent' = Idle
  /\ UNCHANGED <<request, attempt, row, service, node>>

\* The attempt's five minutes are over: no report, but the deferred calls are
\* made; whether Redis is stopped again is not known.
ContextEnds ==
  /\ agent.at \notin {"idle", "report done", "report failed"}
  /\ agent' = Idle
  /\ dump' = WithoutTemp
  /\ running' \in {running} \cup
       IF agent.at \in {"dbsize", "stop"} THEN {[running EXCEPT ![Target] = FALSE]} ELSE {}
  /\ UNCHANGED <<store, data, import, dumped>>

Crash ==
  /\ agent # Idle
  /\ agent' = Idle
  /\ UNCHANGED <<store, node>>

--------------------------------------------------------------------------------
(* Backup. *)

\* Mutant: what an earlier attempt began to write is taken for the archive.
ExistingPartial(a) == IF dump[a].temp # NoFile THEN dump[a].temp ELSE dump[a].file

\* The archive of an earlier attempt.
Existing(a) == dump[a].file

\* Enough disk; an archive that is there is not made again.
BeginBackup ==
  /\ agent.at = "backup"
  /\ \/ /\ Existing(Act) # NoFile
        /\ GoTo("register")
        /\ dump' = [dump EXCEPT ![Act].file = Existing(Act)]
        /\ UNCHANGED dumped
     \/ /\ Existing(Act) = NoFile
        /\ GoTo("dump")
        /\ dump' = [dump EXCEPT ![Act].temp = {}]
        /\ dumped' = [dumped EXCEPT ![Act] = data[Target]]
  /\ UNCHANGED <<store, data, running, import>>

\* A database dump is of one snapshot, a volume is copied as it is.
Source == IF OnVolume THEN data[Target] ELSE dumped[Act]

Dump ==
  /\ agent.at = "dump"
  /\ \E i \in Source \ dump[Act].temp : dump' = [dump EXCEPT ![Act].temp = @ \cup {i}]
  /\ UNCHANGED <<store, data, running, import, agent, dumped>>

\* Sync, close and rename.
KeepDump ==
  /\ agent.at = "dump" /\ Source \subseteq dump[Act].temp
  /\ dump' = [dump EXCEPT ![Act] = [temp |-> NoFile, file |-> dump[Act].temp]]
  /\ GoTo("register")
  /\ UNCHANGED <<store, data, running, import, dumped>>

\* POST /internal/backups of the running action; the answer may be lost.
Register ==
  /\ agent.at = "register"
  /\ status[Act] = "running"
  /\ row[Act] \in {NoFile, dump[Act].file}
  /\ row' = [row EXCEPT ![Act] = dump[Act].file]
  /\ \/ GoTo("report done")
     \/ GoTo("report failed")
  /\ UNCHANGED <<queue, service, node>>

--------------------------------------------------------------------------------
(* Restore. *)

\* Mutant: whatever the target holds is replaced.
EmptyAlways(s) == TRUE

\* The target has no entries, keys, tables or collections.
Empty(s) == data[s] = {}

\* The archive must have the registered checksum; an application's volume, and a
\* database as far as it can be seen, must be empty.
BeginRestore ==
  /\ agent.at = "restore"
  /\ dump[request[Act].backup].file = Archive
  /\ \/ /\ kind = "redis"
        /\ running' = [running EXCEPT ![Target] = TRUE]
        /\ GoTo("dbsize")
     \/ /\ kind # "redis" /\ Empty(Target)
        /\ GoTo(IF OnVolume THEN "unpack" ELSE "import")
        /\ UNCHANGED running
  /\ UNCHANGED <<store, data, dump, import, dumped>>

\* Redis runs to be asked for the number of its keys, and is stopped again.
CountKeys ==
  /\ agent.at = "dbsize" /\ Empty(Target)
  /\ GoTo("stop")
  /\ UNCHANGED <<store, node>>

StopRedis ==
  /\ agent.at = "stop"
  /\ running' = [running EXCEPT ![Target] = FALSE]
  /\ GoTo("clear")
  /\ UNCHANGED <<store, data, dump, import, dumped>>

\* clearRedisVolume deletes entry by entry.
ClearRedisVolume ==
  /\ agent.at = "clear"
  /\ IF data[Target] = {} THEN GoTo("unpack") /\ UNCHANGED data
     ELSE /\ \E i \in data[Target] : data' = [data EXCEPT ![Target] = @ \ {i}]
          /\ UNCHANGED agent
  /\ UNCHANGED <<store, running, dump, import, dumped>>

\* putVolumeArchive: Docker unpacks entry by entry.
Unpack ==
  /\ agent.at = "unpack"
  /\ IF Archive \subseteq data[Target] THEN GoTo("report done") /\ UNCHANGED data
     ELSE /\ \E i \in Archive \ data[Target] : data' = [data EXCEPT ![Target] = @ \cup {i}]
          /\ UNCHANGED agent
  /\ UNCHANGED <<store, running, dump, import, dumped>>

Process == <<Act, attempt[Act]>>

\* The archive is put into the container and the restore command is executed.
StartImport ==
  /\ agent.at = "import"
  /\ import' = [import EXCEPT ![Process] = "running"]
  /\ GoTo("wait")
  /\ UNCHANGED <<store, data, running, dump, dumped>>

\* Mutant: pg_restore without --single-transaction.
AtOnceNever == FALSE

\* The items of a PostgreSQL archive appear together.
AtOnce == kind = "postgres"

\* The process in the container: a second import of what is there already fails.
Import(p) ==
  LET t == request[p[1]].service
      archive == row[request[p[1]].backup]
  IN  /\ import[p] = "running"
      /\ \/ /\ import' = [import EXCEPT ![p] = "failed"]
            /\ UNCHANGED data
         \/ /\ AtOnce /\ archive \cap data[t] = {}
            /\ data' = [data EXCEPT ![t] = @ \cup archive]
            /\ import' = [import EXCEPT ![p] = "done"]
         \/ /\ ~AtOnce /\ archive \subseteq data[t]
            /\ import' = [import EXCEPT ![p] = "done"]
            /\ UNCHANGED data
         \/ /\ ~AtOnce
            /\ \E i \in archive \ data[t] : data' = [data EXCEPT ![t] = @ \cup {i}]
            /\ UNCHANGED import
      /\ UNCHANGED <<store, running, dump, agent, dumped>>

\* Mutant: the exit status of the command is not looked at.
ExitIgnored(result) == result # "running"

ExitsWell(result) == result = "done"

\* Exec returns with the exit status.
Imported ==
  /\ agent.at = "wait"
  /\ import[Process] # "running"
  /\ GoTo(IF ExitsWell(import[Process]) THEN "report done" ELSE "report failed")
  /\ UNCHANGED <<store, node>>

\* A call fails, the disk is full, or the target is not empty.  After Ensure the
\* deferred call stops Redis, unless it fails too.
Fail ==
  /\ agent.at \notin {"idle", "report done", "report failed"}
  /\ GoTo("report failed")
  /\ dump' = WithoutTemp
  /\ running' \in {running} \cup
       IF agent.at \in {"dbsize", "stop"} THEN {[running EXCEPT ![Target] = FALSE]} ELSE {}
  /\ UNCHANGED <<store, data, import, dumped>>

--------------------------------------------------------------------------------
Agent ==
  \/ \E a \in Actions : Claim(a) \/ Expire(a)
  \/ Report \/ ContextEnds \/ Crash \/ Fail
  \/ BeginBackup \/ Dump \/ KeepDump \/ Register
  \/ BeginRestore \/ CountKeys \/ StopRedis \/ ClearRedisVolume \/ Unpack
  \/ StartImport \/ Imported

World ==
  \/ \E s \in Services : Switch(s) \/ \E i \in Items : Write(s, i)
  \/ \E a \in Actions, k \in {"backup", "restore"}, s \in Services, b \in Actions \cup {0} :
       EnqueueAction(a, k, s, b)
  \/ \E p \in DOMAIN import : Import(p)

Next == Agent \/ World

Spec == Init /\ [][Next]_vars

--------------------------------------------------------------------------------
(* Properties. *)

Contents == (SUBSET Items) \cup {NoFile}
Steps == {"idle", "backup", "dump", "register", "restore", "dbsize", "stop", "clear",
          "unpack", "import", "wait", "report done", "report failed"}

BackupsTypeOK ==
  /\ kind \in Kinds
  /\ data \in [Services -> SUBSET Items]
  /\ running \in [Services -> BOOLEAN]
  /\ desired \in [Services -> {"running", "stopped"}]
  /\ request \in [Actions -> {NoRequest} \cup
                    [kind : {"backup", "restore"}, service : Services, backup : Actions \cup {0}]]
  /\ status \in [Actions -> {"none", "queued", "running", "done", "failed"}]
  /\ attempt \in [Actions -> 0..MaxAttempts]
  /\ row \in [Actions -> Contents]
  /\ dump \in [Actions -> [temp : Contents, file : Contents]]
  /\ import \in [Actions \X (1..MaxAttempts) -> {"none", "running", "done", "failed"}]
  /\ agent \in [at : Steps, action : Actions \cup {0}, before : SUBSET Items]
  /\ dumped \in [Actions -> Contents]
  /\ agent.at # "idle" => Act \in Actions /\ status[Act] = "running"

\* A registered backup has its file, and the file is the whole of what the service
\* held at one moment of the action: no attempt registers what an interrupted one
\* left, and no volume is copied while clients write to it.
RegisteredComplete ==
  \A a \in Actions : row[a] # NoFile => dump[a].file = row[a] /\ row[a] = dumped[a]

\* What is reported done is done: a backup is registered, a restored service has
\* all of the backup.
DoneIsTrue ==
  [][\A a \in Actions : status'[a] = "done" /\ status[a] # "done" =>
       /\ request[a].kind = "backup" => row[a] # NoFile
       /\ request[a].kind = "restore" => row[request[a].backup] \subseteq data[request[a].service]]_vars

\* A restore loses nothing its target held when the attempt began.
RestorePreserves ==
  [][\A s \in Services : (data[s] \ data'[s]) \cap agent.before = {}]_vars

\* A PostgreSQL service never holds a part of a backup: of what is not its own it
\* has all of some backups, also when a second attempt restores beside the process
\* of the first.
RestoredWhole ==
  kind = "postgres" =>
    \A s \in Services : \E Restored \in SUBSET {a \in Actions : row[a] # NoFile} :
      data[s] \ Own[s] = (UNION {row[a] : a \in Restored}) \ Own[s]
================================================================================
