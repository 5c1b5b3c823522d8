------------------------------- MODULE References -------------------------------
(***************************************************************************)
(* Variables of services, references between them and the variables that   *)
(* buckets and databases put there: the variable half of                   *)
(* internal/deployment/workspace.go, buckets.go, and CreateDatabase's and  *)
(* BindDatabase's part of operations.go.                                   *)
(*                                                                         *)
(* A request checks first and writes later, and only some of them lock     *)
(* what they have checked.  Between the two a request is a member of open: *)
(* its record holds what it has read.  Rows become visible when the        *)
(* request commits (READ COMMITTED), BindDatabase's separate statements    *)
(* one by one.  An open request may also end without effect.               *)
(*                                                                         *)
(* Abstractions.  The six variables of a bucket binding are one, named by  *)
(* the binding's prefix, and so is the connection of a database.  A value  *)
(* is who it comes from, and for a bucket the version of the credentials;  *)
(* kind "secret" stands for "plain" too; the owner's values are not empty. *)
(* All services share one project and environment.                         *)
(***************************************************************************)
EXTENDS Integers, FiniteSets

CONSTANTS
  Applications,  \* services with settings kind http
  Databases,     \* services with resource_kind = 'database'
  Names,         \* variable names
  Connection,    \* the name of a database's connection variable
  Prefixes,      \* names bucket bindings may generate
  Buckets,
  Limit,         \* variables per service (64 in the code)
  Rotations,     \* bound: credential versions of a bucket
  Requests,      \* bound: requests open at one time
  Serial         \* sets of request kinds that are not open together

Services == Applications \cup Databases
Kinds == {"set variable", "set reference", "rename", "delete",
          "bind bucket", "rotate", "bind database"}

ASSUME ReferencesAssumption ==
  /\ Applications \cap Databases = {} /\ Buckets \cap Services = {}
  /\ Connection \in Names /\ Prefixes \subseteq Names
  /\ IsFiniteSet(Services) /\ IsFiniteSet(Names)
  /\ {"", "none", "unbound"} \cap (Names \cup Services) = {}
  /\ Limit \in Nat /\ Rotations \in Nat \ {0} /\ Requests \in Nat \ {0}
  /\ Serial \subseteq SUBSET (Kinds \cup {"unbind"})
  /\ {"owner", "nobody", "placeholder"} \cap (Databases \cup Buckets) = {}

VARIABLES
  variable,   \* rows of service_variables
  reference,  \* rows of service_references: the target of each source
  binding,    \* rows of bucket_bindings: the prefix of each bucket and service
  version,    \* buckets.credential_version, 0 when there is no bucket
  open        \* the requests between their checks and their writes

rows == <<variable, reference, binding, version>>
vars == <<rows, open>>

Keys == Services \X Names
Unbound == "unbound"
Row(kind, from, v) == [kind |-> kind, from |-> from, version |-> v]
NoRow == Row("none", "nobody", 0)
NoTarget == <<"none", "none">>

\* CreateDatabase inserts the template's variables with the service.
Init ==
  /\ variable = [k \in Keys |->
       IF k[1] \in Databases /\ k[2] = Connection THEN Row("secret", k[1], 0) ELSE NoRow]
  /\ reference = [k \in Keys |-> NoTarget]
  /\ binding = [l \in Buckets \X Applications |-> Unbound]
  /\ version = [b \in Buckets |-> 0]
  /\ open = {}

--------------------------------------------------------------------------------
(* Conditions of the requests. *)

Has(k) == variable[k] # NoRow

Others(s, n) == {m \in Names \ {n} : Has(<<s, m>>)}

\* Mutant: one too many.
RoomAtLimit(s, n) == Cardinality(Others(s, n)) <= Limit

Room(s, n) == Cardinality(Others(s, n)) < Limit

Managed(k) == \E b \in Buckets : <<b, k[1]>> \in DOMAIN binding /\ binding[b, k[1]] = k[2]

Targets(s) == {reference[s, n][1] : n \in Names} \cap Services

\* The recursive query of SetReference: all services s refers to.  Databases
\* refer to none.
Reachable(s) ==
  LET within[i \in 0..Cardinality(Applications)] ==
        IF i = 0 THEN Targets(s)
        ELSE LET near == within[i - 1] IN near \cup UNION {Targets(t) : t \in near}
  IN  within[Cardinality(Applications)]

\* Mutant: looks at the target's own references only.
ClosesCycleDirectly(s, t) == s \in Targets(t)

\* A reference from s to t would close a cycle.
ClosesCycle(s, t) == s \in Reachable(t)

\* Mutant: deletes whatever others need.
ReferencedNever(k) == FALSE

Referenced(k) == \E j \in Keys : reference[j] = k

Request(kind, key, target, bucket, read) ==
  [kind |-> kind, key |-> key, target |-> target, bucket |-> bucket, read |-> read]

\* Binding and rotating lock the bucket.
BucketFree(b) ==
  \A r \in open : r.kind \in {"bind bucket", "rotate"} => r.bucket # b

\* A request of this kind may be open together with those that are.
MayOpen(kind) ==
  /\ Cardinality(open) < Requests
  /\ \A r \in open : {kind, r.kind} \notin Serial

Open(r) ==
  /\ MayOpen(r.kind)
  /\ open' = open \cup {r}
  /\ UNCHANGED rows

Close(r) == open' = open \ {r}

--------------------------------------------------------------------------------
(* The owner's variables. *)

\* SetVariableTyped before its transaction.
CheckVariable(s, n) ==
  /\ s \in Applications
  /\ ~Managed(<<s, n>>)
  /\ Open(Request("set variable", <<s, n>>, NoTarget, Unbound, {}))

\* Count and insert under the lock of the service's row; the reference goes.
StoreVariable(k, from) ==
  /\ Room(k[1], k[2])
  /\ variable' = [variable EXCEPT ![k] = Row("secret", from, 0)]
  /\ reference' = [reference EXCEPT ![k] = NoTarget]

SetVariable(r) ==
  /\ r.kind = "set variable"
  /\ StoreVariable(r.key, "owner")
  /\ Close(r)
  /\ UNCHANGED <<binding, version>>

\* SetReference up to its first write.
CheckReference(s, n, k) ==
  /\ s \in Applications /\ k[1] # s
  /\ ~Managed(<<s, n>>)
  /\ Has(k)
  /\ ~ClosesCycle(s, k[1])
  /\ Room(s, n)
  /\ Open(Request("set reference", <<s, n>>, k, Unbound, {}))

SetReference(r) ==
  /\ r.kind = "set reference"
  /\ variable' = [variable EXCEPT ![r.key] = Row("reference", "placeholder", 0)]
  /\ reference' = [reference EXCEPT ![r.key] = r.target]
  /\ Close(r)
  /\ UNCHANGED <<binding, version>>

CheckRename(s, n, m) ==
  /\ s \in Applications /\ n # m
  /\ ~Managed(<<s, n>>) /\ ~Managed(<<s, m>>)
  /\ Open(Request("rename", <<s, n>>, <<s, m>>, Unbound, {}))

\* The references of k become j's.
Moved(k, j) ==
  [i \in Keys |-> IF i = j /\ reference[k] # NoTarget THEN reference[k]
                  ELSE IF i = k THEN NoTarget ELSE reference[i]]

\* Mutant: forgets the reference from the variable.
FollowTargets(k, j) == [i \in Keys |-> IF reference[i] = k THEN j ELSE reference[i]]

\* Mutant: forgets the references to the variable.
FollowNone(k, j) == Moved(k, j)

\* References from the variable and to it take its new name.
Follow(k, j) ==
  [i \in Keys |-> IF Moved(k, j)[i] = k THEN j ELSE Moved(k, j)[i]]

\* The row is locked; a second row of the new name, of either table, violates
\* its key.
Rename(r) ==
  /\ r.kind = "rename"
  /\ Has(r.key) /\ ~Has(r.target)
  /\ reference[r.key] # NoTarget => reference[r.target] = NoTarget
  /\ variable' = [variable EXCEPT ![r.target] = variable[r.key], ![r.key] = NoRow]
  /\ reference' = Follow(r.key, r.target)
  /\ Close(r)
  /\ UNCHANGED <<binding, version>>

CheckDelete(k) ==
  /\ ~Managed(k) /\ ~Referenced(k)
  /\ Open(Request("delete", k, NoTarget, Unbound, {}))

DeleteVariable(r) ==
  /\ r.kind = "delete"
  /\ variable' = [variable EXCEPT ![r.key] = NoRow]
  /\ reference' = [reference EXCEPT ![r.key] = NoTarget]
  /\ Close(r)
  /\ UNCHANGED <<binding, version>>

--------------------------------------------------------------------------------
(* Buckets. *)

CreateBucket(b) ==
  /\ version[b] = 0
  /\ version' = [version EXCEPT ![b] = 1]
  /\ UNCHANGED <<variable, reference, binding, open>>

\* bindBucketVariables: an existing row keeps its kind.
Credentials(b, v, ks) ==
  [k \in Keys |-> IF k \notin ks THEN variable[k]
                  ELSE Row(IF Has(k) THEN variable[k].kind ELSE "secret", b, v)]

\* BindBucket, under the bucket's lock, up to its first write.
CheckBinding(b, s, p) ==
  /\ version[b] > 0 /\ BucketFree(b)
  /\ binding[b, s] \in {p, Unbound}
  /\ \A c \in Buckets \ {b} : binding[c, s] # p
  /\ binding[b, s] = Unbound => ~Has(<<s, p>>) /\ Room(s, p)
  /\ Open(Request("bind bucket", <<s, p>>, NoTarget, b, {}))

BindBucket(r) ==
  LET s == r.key[1]
      p == r.key[2]
  IN  /\ r.kind = "bind bucket"
      /\ \A c \in Buckets \ {r.bucket} : binding[c, s] # p
      /\ variable' = Credentials(r.bucket, version[r.bucket], {r.key})
      /\ binding' = [binding EXCEPT ![<<r.bucket, s>>] = p]
      /\ Close(r)
      /\ UNCHANGED <<reference, version>>

\* Mutant: new credentials for the bucket only.
BoundNone(b) == {}

Bound(b) == {k \in Applications \X Prefixes : binding[b, k[1]] = k[2]}

\* RotateBucketCredentials, under the bucket's lock, up to its first write.
CheckRotation(b) ==
  /\ version[b] \in 1..Rotations - 1 /\ BucketFree(b)
  /\ Open(Request("rotate", NoTarget, NoTarget, b, Bound(b)))

RotateBucketCredentials(r) ==
  /\ r.kind = "rotate"
  /\ version' = [version EXCEPT ![r.bucket] = @ + 1]
  /\ variable' = Credentials(r.bucket, version[r.bucket] + 1, r.read)
  /\ Close(r)
  /\ UNCHANGED <<reference, binding>>

\* One statement deletes the binding, the next its variables; no lock on the
\* bucket.
UnbindBucket(b, s) ==
  /\ binding[b, s] # Unbound
  /\ \A r \in open : {"unbind", r.kind} \notin Serial
  /\ variable' = [variable EXCEPT ![<<s, binding[b, s]>>] = NoRow]
  /\ binding' = [binding EXCEPT ![<<b, s>>] = Unbound]
  /\ UNCHANGED <<reference, version, open>>

--------------------------------------------------------------------------------
(* BindDatabase: reads the database's variables, sets a variable, makes it a  *)
(* reference in two more statements.                                          *)

CheckDatabase(d, s, n) ==
  /\ d \in Databases /\ s \in Applications
  /\ Has(<<d, Connection>>)
  /\ ~Managed(<<s, n>>)
  /\ Open(Request("bind database", <<s, n>>, <<d, Connection>>, "set", {}))

\* The statement that is done next is in the request's bucket field.
Continue(r, next) == open' = (open \ {r}) \cup {[r EXCEPT !.bucket = next]}

BindDatabase(r) ==
  /\ r.kind = "bind database"
  /\ \/ /\ r.bucket = "set"
        /\ StoreVariable(r.key, r.target[1])
        /\ Continue(r, "refer")
     \/ /\ r.bucket = "refer"
        /\ reference' = [reference EXCEPT ![r.key] = r.target]
        /\ Continue(r, "mark")
        /\ UNCHANGED variable
     \/ /\ r.bucket = "mark"
        /\ variable' = IF Has(r.key) THEN [variable EXCEPT ![r.key].kind = "reference"]
                       ELSE variable
        /\ Close(r)
        /\ UNCHANGED reference
  /\ UNCHANGED <<binding, version>>

\* Refused, cancelled by its client, or cut off by a crash of the server.
Abandon(r) == Close(r) /\ UNCHANGED rows

--------------------------------------------------------------------------------
Check ==
  \/ \E s \in Services, n \in Names :
       \/ CheckVariable(s, n) \/ CheckDelete(<<s, n>>)
       \/ MayOpen("set reference") /\ \E k \in Keys : CheckReference(s, n, k)
       \/ \E m \in Names : CheckRename(s, n, m)
       \/ \E d \in Databases : CheckDatabase(d, s, n)
  \/ \E b \in Buckets :
       CheckRotation(b) \/ \E s \in Applications, p \in Prefixes : CheckBinding(b, s, p)

Write ==
  \E r \in open :
    \/ SetVariable(r) \/ SetReference(r) \/ Rename(r) \/ DeleteVariable(r)
    \/ BindBucket(r) \/ RotateBucketCredentials(r) \/ BindDatabase(r) \/ Abandon(r)

Next ==
  \/ Check \/ Write
  \/ \E b \in Buckets : CreateBucket(b) \/ \E s \in Applications : UnbindBucket(b, s)

Spec == Init /\ [][Next]_vars

--------------------------------------------------------------------------------
(* What a deployment gets. *)

Missing == Row("none", "nobody", 0)

\* What k gives when the reference it holds leads to the value followed.
Given(k, followed) ==
  LET own == Row("secret", variable[k].from, variable[k].version)
      fallback == IF own.from = "placeholder" THEN Missing ELSE own
  IN  IF ~Has(k) THEN Missing
      ELSE IF variable[k].kind # "reference" THEN own
      ELSE IF followed = Missing THEN fallback ELSE followed

\* resolveVariable, with no more references to follow than there are services.
Resolved(key) ==
  LET value[i \in 0..Cardinality(Services)] ==
        [k \in Keys |-> Given(k, IF i = 0 \/ reference[k] = NoTarget THEN Missing
                                 ELSE value[i - 1][reference[k]])]
  IN  value[Cardinality(Services)][key]

--------------------------------------------------------------------------------
(* Properties. *)

ReferencesTypeOK ==
  /\ variable \in [Keys -> [kind : {"none", "secret", "reference"},
       from : {"owner", "nobody", "placeholder"} \cup Databases \cup Buckets,
       version : 0..Rotations]]
  /\ reference \in [Keys -> (Services \X Names) \cup {NoTarget}]
  /\ \A k \in Keys : reference[k] # NoTarget => k[1] \in Applications /\ reference[k][1] # k[1]
  /\ \A k \in Keys : variable[k].from = "placeholder" => reference[k] # NoTarget
  /\ binding \in [Buckets \X Applications -> Prefixes \cup {Unbound}]
  /\ version \in [Buckets -> 0..Rotations]
  /\ \A r \in open : r.kind \in Kinds

\* No chain of references returns to the service it starts from.
ReferencesAcyclic == \A s \in Applications : s \notin Reachable(s)

\* Every service can be deployed: each of its variables has a value, unless the
\* reference it rests on leads to a variable that a bucket's disconnection took.
EnvironmentsResolve ==
  \A k \in Keys : Has(k) /\ Resolved(k) = Missing =>
    \E s \in {k[1]} \cup Reachable(k[1]), n \in Names :
      reference[s, n][2] \in Prefixes

\* A service connected to a bucket has the bucket's current credentials.
BindingsCurrent ==
  \A b \in Buckets, s \in Applications : binding[b, s] # Unbound =>
    LET row == variable[s, binding[b, s]] IN row.from = b /\ row.version = version[b]

\* A service never has more variables than the limit.
VariablesBounded == \A s \in Applications : Cardinality(Others(s, "")) <= Limit

\* Renaming a variable changes no value any service is deployed with.  (One that
\* had none, because a bucket was disconnected, may get one.)
RenameKeepsValues ==
  [][\A r \in open : Rename(r) =>
       /\ Resolved(r.target)' = Resolved(r.key)
       /\ \A k \in Keys \ {r.key, r.target} :
            Resolved(k) # Missing => Resolved(k)' = Resolved(k)]_vars
================================================================================
