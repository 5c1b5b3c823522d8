---------------------------- MODULE ReferencesProofs ----------------------------
(***************************************************************************)
(* Proofs about References, for every set of services, names, buckets and  *)
(* requests.  What needs requests kept apart says which.                   *)
(***************************************************************************)
EXTENDS References, FiniteSetTheorems, TLAPS

--------------------------------------------------------------------------------
(* What the open requests know. *)

Locking == {"bind bucket", "rotate"}
Statements == {"set", "refer", "mark"}

RowType ==
  [kind : {"none", "secret", "reference"},
   from : {"owner", "nobody", "placeholder"} \cup Databases \cup Buckets,
   version : 0..Rotations]

RequestType ==
  [kind : Kinds, key : Keys \cup {NoTarget}, target : Keys \cup {NoTarget},
   bucket : Buckets \cup {Unbound} \cup Statements, read : SUBSET (Applications \X Prefixes)]

\* A request is for an application's variable, a database's when it deletes; its
\* target is another service's variable, another name, or a database's connection.
Fits(r) ==
  /\ r \in RequestType
  /\ r.kind # "rotate" => r.key \in Keys
  /\ r.kind \notin {"rotate", "delete"} => r.key[1] \in Applications
  /\ r.kind \in {"set reference", "rename", "bind database"} => r.target \in Keys
  /\ r.kind = "set reference" => r.target[1] # r.key[1]
  /\ r.kind = "rename" => r.target[1] = r.key[1] /\ r.target # r.key
  /\ r.kind = "bind database" => r.target[1] \in Databases
  /\ r.kind \in Locking => r.bucket \in Buckets /\ version[r.bucket] > 0
  /\ r.kind = "bind bucket" => r.key[2] \in Prefixes
  /\ r.kind = "rotate" => version[r.bucket] < Rotations

\* A bucket is locked once.
LocksHeld ==
  \A q, r \in open : q.kind \in Locking /\ r.kind \in Locking /\ q.bucket = r.bucket => q = r

Typed == ReferencesTypeOK /\ LocksHeld /\ \A r \in open : Fits(r)

LEMMA Constants ==
  /\ NoTarget \notin Keys /\ Unbound \notin Names
  /\ Applications \subseteq Services /\ Databases \subseteq Services
  /\ Applications \cap Databases = {}
  /\ Prefixes \subseteq Names /\ Connection \in Names
  /\ Rotations \in Nat \ {0} /\ Limit \in Nat
  /\ "placeholder" \notin Databases \cup Buckets
BY ReferencesAssumption DEF NoTarget, Keys, Unbound, Services

\* A row that is built from its parts has them.
LEMMA RowParts ==
  ASSUME NEW kind \in {"none", "secret", "reference"},
         NEW from \in {"owner", "nobody", "placeholder"} \cup Databases \cup Buckets,
         NEW v \in 0..Rotations
  PROVE  /\ Row(kind, from, v) \in RowType
         /\ Row(kind, from, v).kind = kind
         /\ Row(kind, from, v).from = from
         /\ Row(kind, from, v).version = v
BY DEF Row, RowType

LEMMA NoRowParts == NoRow \in RowType /\ NoRow.from # "placeholder"
BY RowParts, Constants DEF NoRow

\* What the rows must be for ReferencesTypeOK; the rest is about requests.
RowsTyped ==
  /\ variable \in [Keys -> RowType]
  /\ reference \in [Keys -> Keys \cup {NoTarget}]
  /\ \A k \in Keys : reference[k] # NoTarget => k[1] \in Applications /\ reference[k][1] # k[1]
  /\ \A k \in Keys : variable[k].from = "placeholder" => reference[k] # NoTarget

BindingsTyped ==
  /\ binding \in [Buckets \X Applications -> Prefixes \cup {Unbound}]
  /\ version \in [Buckets -> 0..Rotations]

LEMMA TypedParts ==
  ReferencesTypeOK <=> RowsTyped /\ BindingsTyped /\ \A r \in open : r.kind \in Kinds
BY DEF ReferencesTypeOK, RowsTyped, BindingsTyped, RowType, Keys

LEMMA TypedPartsNext ==
  ASSUME RowsTyped', BindingsTyped', \A r \in open' : r.kind \in Kinds
  PROVE  ReferencesTypeOK'
BY DEF ReferencesTypeOK, RowsTyped, BindingsTyped, RowType, Keys

LEMMA FitsKind == \A r : Fits(r) => r.kind \in Kinds
BY DEF Fits, RequestType

--------------------------------------------------------------------------------
(* Every step keeps the types. *)

LEMMA TypedInit == Init => Typed
<1> SUFFICES ASSUME Init PROVE Typed
  OBVIOUS
<1>1. \A d \in Databases :
        Row("secret", d, 0) \in RowType /\ Row("secret", d, 0).from # "placeholder"
  <2> SUFFICES ASSUME NEW d \in Databases
               PROVE  Row("secret", d, 0) \in RowType /\ Row("secret", d, 0).from # "placeholder"
    OBVIOUS
  <2>1. 0 \in 0..Rotations /\ d # "placeholder"
    BY Constants
  <2> QED BY <2>1 DEF Row, RowType
<1>2. \A k \in Keys : variable[k] \in RowType /\ variable[k].from # "placeholder"
  BY <1>1, NoRowParts DEF Init
<1>6. variable \in [Keys -> RowType]
  BY <1>2 DEF Init
<1>3. RowsTyped
  BY <1>2, <1>6 DEF Init, RowsTyped
<1>4. BindingsTyped
  BY Constants DEF Init, BindingsTyped
<1>5. open = {}
  BY DEF Init
<1> QED BY <1>3, <1>4, <1>5, TypedParts DEF Typed, LocksHeld

\* Opening a request that fits.
LEMMA OpenKeeps ==
  ASSUME Typed, NEW r, Open(r), Fits(r), r.kind \in Locking => BucketFree(r.bucket)
  PROVE  Typed'
<1>1. UNCHANGED rows /\ open' = open \cup {r}
  BY DEF Open
<1>2. \A q \in open' : Fits(q)'
  <2> SUFFICES ASSUME NEW q \in open' PROVE Fits(q)'
    OBVIOUS
  <2>1. Fits(q)
    BY <1>1 DEF Typed
  <2> QED BY <1>1, <2>1 DEF Fits, rows
<1>3. LocksHeld'
  BY <1>1 DEF Typed, LocksHeld, BucketFree, Locking
<1>4. RowsTyped' /\ BindingsTyped'
  BY <1>1, TypedParts DEF Typed, RowsTyped, BindingsTyped, rows
<1>5. \A q \in open' : q.kind \in Kinds
  BY <1>1, FitsKind DEF Typed
<1> QED BY <1>2, <1>3, <1>4, <1>5, TypedPartsNext DEF Typed

\* A request that closes, or whose next statement follows, leaves the others.
LEMMA CloseKeeps ==
  ASSUME Typed, NEW r \in open,
         Close(r) \/ (r.kind = "bind database" /\ \E next \in Statements : Continue(r, next)),
         RowsTyped', BindingsTyped',
         \A b \in Buckets : version'[b] = version[b]
           \/ (r.kind = "rotate" /\ r.bucket = b /\ version'[b] > 0)
  PROVE  Typed'
<1>1. \A q \in open' : q \in open \ {r}
           \/ (r.kind = "bind database" /\ \E next \in Statements : q = [r EXCEPT !.bucket = next])
  BY DEF Close, Continue
<1>2. \A q \in open \ {r} : Fits(q)'
  <2> SUFFICES ASSUME NEW q \in open \ {r} PROVE Fits(q)'
    OBVIOUS
  <2>1. Fits(q) /\ Fits(r)
    BY DEF Typed
  <2>2. q.kind \in Locking => r.kind # "rotate" \/ r.bucket # q.bucket
    BY DEF Typed, LocksHeld, Locking
  <2>3. q.kind \in Locking => version'[q.bucket] = version[q.bucket]
    BY <2>1, <2>2 DEF Fits
  <2>4. q.kind = "rotate" => q.kind \in Locking
    BY DEF Locking
  <2> QED BY <2>1, <2>3, <2>4 DEF Fits
<1>3. ASSUME r.kind = "bind database", NEW next \in Statements
      PROVE  Fits([r EXCEPT !.bucket = next])' /\ [r EXCEPT !.bucket = next].kind = r.kind
  <2>1. Fits(r)
    BY DEF Typed
  <2>2. /\ [r EXCEPT !.bucket = next] \in RequestType
        /\ [r EXCEPT !.bucket = next].kind = r.kind
        /\ [r EXCEPT !.bucket = next].key = r.key
        /\ [r EXCEPT !.bucket = next].target = r.target
    BY <2>1 DEF Fits, RequestType
  <2> QED BY <1>3, <2>1, <2>2 DEF Fits, Locking
<1>4. \A q \in open' : Fits(q)'
  BY <1>1, <1>2, <1>3
<1>5. LocksHeld'
  <2>1. \A q \in open' : q.kind \in Locking => q \in open
    BY <1>1, <1>3 DEF Locking
  <2> QED BY <2>1 DEF Typed, LocksHeld
<1>6. \A q \in open' : q.kind \in Kinds
  <2> SUFFICES ASSUME NEW q \in open' PROVE q.kind \in Kinds
    OBVIOUS
  <2> QED BY <1>4 DEF Fits, RequestType
<1> QED BY <1>4, <1>5, <1>6, TypedPartsNext DEF Typed

\* The owner's requests.
LEMMA TypedVariables ==
  ASSUME Typed, NEW r \in open, SetVariable(r) \/ SetReference(r) \/ Rename(r) \/ DeleteVariable(r)
  PROVE  Typed'
<1>1. Fits(r) /\ RowsTyped /\ BindingsTyped
  BY TypedParts DEF Typed
<1>2. UNCHANGED <<binding, version>> /\ Close(r)
  BY DEF SetVariable, SetReference, Rename, DeleteVariable
<1>3. BindingsTyped'
  BY <1>1, <1>2 DEF BindingsTyped
<1>4. 0 \in 0..Rotations
  BY Constants
<1>5. RowsTyped'
  <2>1. CASE SetVariable(r)
    <3>1. r.key \in Keys
      BY <1>1, <2>1 DEF Fits, SetVariable
    <3>2. Row("secret", "owner", 0) \in RowType /\ Row("secret", "owner", 0).from # "placeholder"
      BY <1>4, RowParts
    <3> QED BY <1>1, <2>1, <3>1, <3>2, Constants DEF RowsTyped, SetVariable, StoreVariable
  <2>2. CASE SetReference(r)
    <3>1. r.key \in Keys /\ r.key[1] \in Applications /\ r.target \in Keys /\ r.target[1] # r.key[1]
      BY <1>1, <2>2 DEF Fits, SetReference
    <3>2. Row("reference", "placeholder", 0) \in RowType
      BY <1>4, RowParts
    <3> QED BY <1>1, <2>2, <3>1, <3>2, Constants DEF RowsTyped, SetReference
  <2>3. CASE Rename(r)
    <3>1. /\ r.key \in Keys /\ r.key[1] \in Applications /\ r.target \in Keys
          /\ r.target[1] = r.key[1] /\ r.target # r.key
      BY <1>1, <2>3 DEF Fits, Rename
    <3>2. reference' = [i \in Keys |-> IF Moved(r.key, r.target)[i] = r.key THEN r.target
                                      ELSE Moved(r.key, r.target)[i]]
      BY <2>3 DEF Rename, Follow
    <3>3. \A i \in Keys : Moved(r.key, r.target)[i] =
            IF i = r.target /\ reference[r.key] # NoTarget THEN reference[r.key]
            ELSE IF i = r.key THEN NoTarget ELSE reference[i]
      BY DEF Moved
    <3>4. reference' \in [Keys -> Keys \cup {NoTarget}]
      BY <1>1, <3>1, <3>2, <3>3 DEF RowsTyped
    <3>5. \A k \in Keys : reference'[k] # NoTarget => k[1] \in Applications /\ reference'[k][1] # k[1]
      BY <1>1, <3>1, <3>2, <3>3, Constants DEF RowsTyped
    <3>6. variable' \in [Keys -> RowType]
      BY <1>1, <2>3, <3>1, NoRowParts DEF RowsTyped, Rename
    <3>7. \A k \in Keys : variable'[k].from = "placeholder" => reference'[k] # NoTarget
      BY <1>1, <2>3, <3>1, <3>2, <3>3, NoRowParts, Constants DEF RowsTyped, Rename
    <3> QED BY <3>4, <3>5, <3>6, <3>7 DEF RowsTyped
  <2>4. CASE DeleteVariable(r)
    <3>1. r.key \in Keys
      BY <1>1, <2>4 DEF Fits, DeleteVariable
    <3> QED BY <1>1, <2>4, <3>1, NoRowParts, Constants DEF RowsTyped, DeleteVariable
  <2> QED BY <2>1, <2>2, <2>3, <2>4
<1> QED BY <1>2, <1>3, <1>5, CloseKeeps

\* New credentials are rows of the bucket.
LEMMA CredentialsTyped ==
  ASSUME RowsTyped, NEW b \in Buckets, NEW v \in 0..Rotations, NEW ks \in SUBSET Keys
  PROVE  /\ Credentials(b, v, ks) \in [Keys -> RowType]
         /\ \A k \in ks : /\ Credentials(b, v, ks)[k].from = b
                         /\ Credentials(b, v, ks)[k].version = v
                         /\ Credentials(b, v, ks)[k].kind = IF Has(k) THEN variable[k].kind ELSE "secret"
         /\ \A k \in Keys \ ks : Credentials(b, v, ks)[k] = variable[k]
<1>1. \A k \in Keys : (IF Has(k) THEN variable[k].kind ELSE "secret") \in {"none", "secret", "reference"}
  BY DEF RowsTyped, RowType
<1>2. \A k \in Keys :
        LET row == Row(IF Has(k) THEN variable[k].kind ELSE "secret", b, v)
        IN  row \in RowType /\ row.from = b /\ row.version = v
            /\ row.kind = IF Has(k) THEN variable[k].kind ELSE "secret"
  BY <1>1 DEF Row, RowType
<1> QED BY <1>2 DEF Credentials, RowsTyped

\* The owner's buckets.
LEMMA TypedBuckets ==
  ASSUME Typed,
         \/ \E r \in open : BindBucket(r) \/ RotateBucketCredentials(r)
         \/ \E b \in Buckets : CreateBucket(b) \/ \E s \in Applications : UnbindBucket(b, s)
  PROVE  Typed'
<1>1. RowsTyped /\ BindingsTyped /\ \A q \in open : Fits(q) /\ q.kind \in Kinds
  BY TypedParts DEF Typed
<1>2. ASSUME NEW r \in open, BindBucket(r) PROVE Typed'
  <2>1. /\ r.key \in Keys /\ r.bucket \in Buckets /\ r.key[1] \in Applications /\ r.key[2] \in Prefixes
        /\ r.key = <<r.key[1], r.key[2]>>
    <3>1. Fits(r) /\ r.kind = "bind bucket" /\ r.kind \in Locking
      BY <1>1, <1>2 DEF BindBucket, Locking
    <3>2. r.key \in Keys /\ r.bucket \in Buckets /\ r.key[1] \in Applications /\ r.key[2] \in Prefixes
      BY <3>1 DEF Fits
    <3> QED BY <3>2 DEF Keys
  <2>2. {r.key} \in SUBSET Keys /\ version[r.bucket] \in 0..Rotations
    BY <1>1, <2>1 DEF BindingsTyped
  <2>3. RowsTyped'
    <3>1. variable' \in [Keys -> RowType]
      BY <1>1, <1>2, <2>1, <2>2, CredentialsTyped DEF BindBucket
    <3>2. \A k \in Keys : variable'[k].from = "placeholder" => variable[k].from = "placeholder"
      <4>1. r.bucket # "placeholder" /\ variable' = Credentials(r.bucket, version[r.bucket], {r.key})
        BY <1>2, <2>1, Constants DEF BindBucket
      <4>2. /\ variable'[r.key].from = r.bucket
            /\ \A k \in Keys \ {r.key} : variable'[k] = variable[k]
        BY <1>1, <2>1, <2>2, <4>1, CredentialsTyped
      <4> QED BY <4>1, <4>2
    <3> QED BY <1>1, <1>2, <3>1, <3>2 DEF RowsTyped, BindBucket
  <2>4. BindingsTyped'
    BY <1>1, <1>2, <2>1 DEF BindingsTyped, BindBucket
  <2> QED BY <1>2, <2>3, <2>4, CloseKeeps DEF BindBucket
<1>3. ASSUME NEW r \in open, RotateBucketCredentials(r) PROVE Typed'
  <2>1. r.bucket \in Buckets /\ r.read \in SUBSET Keys /\ version[r.bucket] + 1 \in 1..Rotations
    <3>1. Fits(r) /\ r.kind = "rotate" /\ r.kind \in Locking
      BY <1>1, <1>3 DEF RotateBucketCredentials, Locking
    <3>2. r.bucket \in Buckets /\ version[r.bucket] > 0 /\ version[r.bucket] < Rotations
      BY <3>1 DEF Fits
    <3>3. version[r.bucket] \in 0..Rotations /\ Rotations \in Nat
      BY <1>1, <3>2, Constants DEF BindingsTyped
    <3>4. version[r.bucket] + 1 \in 1..Rotations
      BY <3>2, <3>3
    <3>5. r.read \in SUBSET (Applications \X Prefixes)
      BY <3>1 DEF Fits, RequestType
    <3> QED BY <3>2, <3>4, <3>5, Constants DEF Keys
  <2>2. RowsTyped'
    <3>1. variable' \in [Keys -> RowType]
      BY <1>1, <1>3, <2>1, CredentialsTyped DEF RotateBucketCredentials
    <3>2. \A k \in Keys : variable'[k].from = "placeholder" => variable[k].from = "placeholder"
      BY <1>1, <1>3, <2>1, CredentialsTyped, Constants DEF RotateBucketCredentials
    <3> QED BY <1>1, <1>3, <3>1, <3>2 DEF RowsTyped, RotateBucketCredentials
  <2>3. BindingsTyped' /\ version' = [version EXCEPT ![r.bucket] = version[r.bucket] + 1]
    BY <1>1, <1>3, <2>1 DEF BindingsTyped, RotateBucketCredentials
  <2>4. \A b \in Buckets : version'[b] = version[b]
           \/ (r.kind = "rotate" /\ r.bucket = b /\ version'[b] > 0)
    BY <1>1, <1>3, <2>1, <2>3 DEF BindingsTyped, RotateBucketCredentials
  <2> QED BY <1>3, <2>2, <2>3, <2>4, CloseKeeps DEF RotateBucketCredentials
<1>4. ASSUME NEW b \in Buckets, CreateBucket(b) PROVE Typed'
  <2>1. RowsTyped' /\ BindingsTyped'
    BY <1>1, <1>4, Constants DEF RowsTyped, BindingsTyped, CreateBucket
  <2>2. \A c \in Buckets : version[c] > 0 => version'[c] = version[c]
    BY <1>1, <1>4 DEF BindingsTyped, CreateBucket
  <2>3. \A q \in open : Fits(q)'
    <3> SUFFICES ASSUME NEW q \in open PROVE Fits(q)'
      OBVIOUS
    <3>1. Fits(q) /\ (q.kind = "rotate" => q.kind \in Locking)
      BY <1>1 DEF Locking
    <3> QED BY <2>2, <3>1 DEF Fits
  <2> QED BY <1>1, <1>4, <2>1, <2>3, TypedPartsNext DEF Typed, LocksHeld, CreateBucket
<1>5. ASSUME NEW b \in Buckets, NEW s \in Applications, UnbindBucket(b, s) PROVE Typed'
  <2>1. <<s, binding[b, s]>> \in Keys
    BY <1>1, <1>5, Constants DEF BindingsTyped, UnbindBucket, Keys
  <2>2. RowsTyped' /\ BindingsTyped'
    BY <1>1, <1>5, <2>1, NoRowParts DEF RowsTyped, BindingsTyped, UnbindBucket
  <2>3. \A q \in open : Fits(q)'
    BY <1>1, <1>5 DEF Fits, UnbindBucket
  <2> QED BY <1>1, <1>5, <2>2, <2>3, TypedPartsNext DEF Typed, LocksHeld, UnbindBucket
<1> QED BY <1>2, <1>3, <1>4, <1>5

\* BindDatabase, statement by statement.
LEMMA TypedDatabase ==
  ASSUME Typed, NEW r \in open, BindDatabase(r)
  PROVE  Typed'
<1>1. Fits(r) /\ RowsTyped /\ BindingsTyped
  BY TypedParts DEF Typed
<1>2. /\ r.key \in Keys /\ r.key[1] \in Applications /\ r.target \in Keys
      /\ r.target[1] \in Databases /\ r.target[1] # r.key[1] /\ r.target[1] # "placeholder"
  BY <1>1, Constants DEF Fits, BindDatabase
<1>3. BindingsTyped' /\ UNCHANGED version
  BY <1>1 DEF BindingsTyped, BindDatabase
<1>4. Close(r) \/ (r.kind = "bind database" /\ \E next \in Statements : Continue(r, next))
  BY DEF BindDatabase, Statements
<1>5. RowsTyped'
  <2>1. CASE StoreVariable(r.key, r.target[1])
    <3>1. 0 \in 0..Rotations
      BY Constants
    <3>2. Row("secret", r.target[1], 0) \in RowType /\ Row("secret", r.target[1], 0).from # "placeholder"
      BY <1>2, <3>1 DEF Row, RowType
    <3> QED BY <1>1, <1>2, <2>1, <3>2, Constants DEF RowsTyped, StoreVariable
  <2>2. CASE reference' = [reference EXCEPT ![r.key] = r.target] /\ UNCHANGED variable
    BY <1>1, <1>2, <2>2, Constants DEF RowsTyped
  <2>3. CASE /\ variable' = IF Has(r.key) THEN [variable EXCEPT ![r.key].kind = "reference"] ELSE variable
             /\ UNCHANGED reference
    BY <1>1, <1>2, <2>3 DEF RowsTyped, RowType
  <2> QED BY <2>1, <2>2, <2>3 DEF BindDatabase
<1> QED BY <1>3, <1>4, <1>5, CloseKeeps

\* Requests that are checked and opened.
LEMMA TypedCheck == ASSUME Typed, Check PROVE Typed'
<1>1. {} \in SUBSET (Applications \X Prefixes) /\ NoTarget \in Keys \cup {NoTarget}
  OBVIOUS
<1>2. ASSUME NEW s \in Services, NEW n \in Names, CheckVariable(s, n) PROVE Typed'
  <2> DEFINE r == Request("set variable", <<s, n>>, NoTarget, Unbound, {})
  <2>1. Fits(r) /\ Open(r) /\ r.kind \notin Locking
    BY <1>2, Constants DEF CheckVariable, Fits, RequestType, Request, Locking, Keys, Kinds
  <2> QED BY <2>1, OpenKeeps
<1>3. ASSUME NEW s \in Services, NEW n \in Names, CheckDelete(<<s, n>>) PROVE Typed'
  <2> DEFINE r == Request("delete", <<s, n>>, NoTarget, Unbound, {})
  <2>1. Fits(r) /\ Open(r) /\ r.kind \notin Locking
    BY <1>3, Constants DEF CheckDelete, Fits, RequestType, Request, Locking, Keys, Kinds
  <2> QED BY <2>1, OpenKeeps
<1>4. ASSUME NEW s \in Services, NEW n \in Names, NEW k \in Keys, CheckReference(s, n, k) PROVE Typed'
  <2> DEFINE r == Request("set reference", <<s, n>>, k, Unbound, {})
  <2>1. Fits(r) /\ Open(r) /\ r.kind \notin Locking
    BY <1>4, Constants DEF CheckReference, Fits, RequestType, Request, Locking, Keys, Kinds
  <2> QED BY <2>1, OpenKeeps
<1>5. ASSUME NEW s \in Services, NEW n \in Names, NEW m \in Names, CheckRename(s, n, m) PROVE Typed'
  <2> DEFINE r == Request("rename", <<s, n>>, <<s, m>>, Unbound, {})
  <2>1. Fits(r) /\ Open(r) /\ r.kind \notin Locking
    BY <1>5, Constants DEF CheckRename, Fits, RequestType, Request, Locking, Keys, Kinds
  <2> QED BY <2>1, OpenKeeps
<1>6. ASSUME NEW s \in Services, NEW n \in Names, NEW d \in Databases, CheckDatabase(d, s, n) PROVE Typed'
  <2> DEFINE r == Request("bind database", <<s, n>>, <<d, Connection>>, "set", {})
  <2>1. Fits(r) /\ Open(r) /\ r.kind \notin Locking
    BY <1>6, Constants DEF CheckDatabase, Fits, RequestType, Request, Locking, Keys, Kinds, Statements
  <2> QED BY <2>1, OpenKeeps
<1>7. ASSUME NEW b \in Buckets, CheckRotation(b) PROVE Typed'
  <2> DEFINE r == Request("rotate", NoTarget, NoTarget, b, Bound(b))
  <2>1. version[b] > 0 /\ version[b] < Rotations
    BY <1>7, Constants DEF CheckRotation
  <2>2. Bound(b) \in SUBSET (Applications \X Prefixes)
    BY DEF Bound
  <2>3. Fits(r) /\ r.bucket = b
    BY <2>1, <2>2 DEF Fits, RequestType, Request, Kinds, Locking
  <2>4. Open(r) /\ BucketFree(b)
    BY <1>7 DEF CheckRotation
  <2> QED BY <2>3, <2>4, OpenKeeps
<1>8. ASSUME NEW b \in Buckets, NEW s \in Applications, NEW p \in Prefixes, CheckBinding(b, s, p)
      PROVE  Typed'
  <2> DEFINE r == Request("bind bucket", <<s, p>>, NoTarget, b, {})
  <2>1. Fits(r) /\ r.bucket = b
    BY <1>8, Constants DEF CheckBinding, Fits, RequestType, Request, Keys, Kinds, Locking
  <2>2. Open(r) /\ BucketFree(b)
    BY <1>8 DEF CheckBinding
  <2> QED BY <2>1, <2>2, OpenKeeps
<1> QED BY <1>2, <1>3, <1>4, <1>5, <1>6, <1>7, <1>8 DEF Check

LEMMA TypedNext == Typed /\ [Next]_vars => Typed'
<1> SUFFICES ASSUME Typed, [Next]_vars PROVE Typed'
  OBVIOUS
<1>1. CASE UNCHANGED vars
  BY <1>1 DEF vars, rows, Typed, ReferencesTypeOK, LocksHeld, Fits
<1>2. CASE Check
  BY <1>2, TypedCheck
<1>3. CASE Write
  <2>1. PICK r \in open :
          \/ SetVariable(r) \/ SetReference(r) \/ Rename(r) \/ DeleteVariable(r)
          \/ BindBucket(r) \/ RotateBucketCredentials(r) \/ BindDatabase(r) \/ Abandon(r)
    BY <1>3 DEF Write
  <2>2. CASE Abandon(r)
    <3>1. RowsTyped' /\ BindingsTyped' /\ Close(r) /\ UNCHANGED version
      BY <2>2, TypedParts DEF Abandon, rows, Typed, RowsTyped, BindingsTyped
    <3> QED BY <3>1, CloseKeeps
  <2> QED BY <2>1, <2>2, TypedVariables, TypedBuckets, TypedDatabase
<1>4. CASE \E b \in Buckets : CreateBucket(b) \/ \E s \in Applications : UnbindBucket(b, s)
  BY <1>4, TypedBuckets
<1> QED BY <1>1, <1>2, <1>3, <1>4 DEF Next

LEMMA TypedAlways == Spec => []Typed
BY TypedInit, TypedNext, PTL DEF Spec

\* Rows, bindings and credential versions keep their types; a reference never
\* leads to its own service, and a placeholder stands for a reference.
THEOREM ReferencesTypeCorrect == Spec => []ReferencesTypeOK
<1>1. Typed => ReferencesTypeOK
  BY DEF Typed
<1> QED BY <1>1, TypedAlways, PTL

--------------------------------------------------------------------------------
(* Bucket bindings, when no other request for variables is open beside a      *)
(* binding, and no rotation while a binding is removed.                       *)

BindsAlone ==
  /\ {"rotate", "unbind"} \in Serial
  /\ \A kind \in {"set variable", "set reference", "rename", "delete", "bind database"} :
       {kind, "bind bucket"} \in Serial

\* Requests of kinds in Serial are not open together.
Apart == \A q, r \in open : q # r => {q.kind, r.kind} \notin Serial

LEMMA ApartNext == ASSUME Typed, Apart, [Next]_vars PROVE Apart'
<1>1. CASE UNCHANGED open
  BY <1>1 DEF Apart
<1>2. CASE \E r : Open(r)
  BY <1>2 DEF Open, MayOpen, Apart
<1>3. CASE \E r \in open : Close(r)
  BY <1>3 DEF Close, Apart
<1>4. CASE \E r \in open, next \in Statements : Continue(r, next)
  <2>1. PICK r \in open, next \in Statements : Continue(r, next)
    BY <1>4
  <2>2. [r EXCEPT !.bucket = next].kind = r.kind
    BY DEF Typed, Fits, RequestType
  <2>3. \A q \in open' : q \in open \ {r} \/ q = [r EXCEPT !.bucket = next]
    BY <2>1 DEF Continue
  <2> QED BY <2>2, <2>3 DEF Apart
<1>5. CASE Check
  BY <1>2, <1>5 DEF Check, CheckVariable, CheckDelete, CheckReference, CheckRename, CheckDatabase,
                    CheckRotation, CheckBinding
<1>6. CASE Write
  BY <1>3, <1>4, <1>6 DEF Write, SetVariable, SetReference, Rename, DeleteVariable, BindBucket,
                         RotateBucketCredentials, BindDatabase, Abandon, Statements
<1> QED BY <1>1, <1>5, <1>6 DEF Next, vars, CreateBucket, UnbindBucket

Owners == {"set variable", "set reference", "rename", "delete", "bind database"}

\* A service has a prefix for one bucket only, and the bucket exists.
PrefixesUnique ==
  \A b \in Buckets, s \in Applications : binding[b, s] # Unbound =>
    /\ version[b] > 0
    /\ \A c \in Buckets : binding[c, s] = binding[b, s] => c = b

\* The owner's open requests are for variables no binding manages.
Unmanaged ==
  \A r \in open : r.kind \in Owners =>
    ~Managed(r.key) /\ (r.kind = "rename" => ~Managed(r.target))

\* A rotation has read all of the bucket's bindings.
AllRead == \A r \in open : r.kind = "rotate" => r.read = Bound(r.bucket)

Current == PrefixesUnique /\ Unmanaged /\ AllRead /\ BindingsCurrent

LEMMA CurrentInit == Init => Current
BY DEF Init, Current, PrefixesUnique, Unmanaged, AllRead, BindingsCurrent

\* What is managed, by its binding.
LEMMA ManagedKeys ==
  ASSUME Typed, NEW s \in Applications, NEW n \in Names
  PROVE  Managed(<<s, n>>) <=> \E b \in Buckets : binding[b, s] = n
BY DEF Typed, ReferencesTypeOK, Managed

\* Steps that leave bindings and managed variables alone.
LEMMA CurrentStays ==
  ASSUME Typed, Current, UNCHANGED <<binding, version>>,
         \A k \in Keys : Managed(k) => variable'[k] = variable[k]
  PROVE  PrefixesUnique' /\ BindingsCurrent'
<1>1. PrefixesUnique'
  BY DEF Current, PrefixesUnique
<1>2. ASSUME NEW b \in Buckets, NEW s \in Applications, binding[b, s] # Unbound
      PROVE  variable'[s, binding[b, s]] = variable[s, binding[b, s]]
  <2>1. binding[b, s] \in Names
    BY <1>2, Constants DEF Typed, ReferencesTypeOK
  <2>2. Managed(<<s, binding[b, s]>>) /\ <<s, binding[b, s]>> \in Keys
    BY <2>1, ManagedKeys, Constants DEF Keys
  <2> QED BY <2>2
<1>3. BindingsCurrent'
  <2> SUFFICES ASSUME NEW b \in Buckets, NEW s \in Applications, binding'[b, s] # Unbound
               PROVE  /\ variable'[s, binding'[b, s]].from = b
                      /\ variable'[s, binding'[b, s]].version = version'[b]
    BY DEF BindingsCurrent
  <2>1. binding' = binding /\ version' = version /\ binding[b, s] # Unbound
    OBVIOUS
  <2>2. variable'[s, binding[b, s]] = variable[s, binding[b, s]]
    BY <1>2, <2>1
  <2>3. variable[s, binding[b, s]].from = b /\ variable[s, binding[b, s]].version = version[b]
    BY <2>1 DEF Current, BindingsCurrent
  <2> QED BY <2>1, <2>2, <2>3
<1> QED BY <1>1, <1>3

\* Requests that stay open, or are as before but for their next statement.
LEMMA OpenStays ==
  ASSUME Typed, Current, UNCHANGED binding,
         \A q \in open' : \E r \in open :
            q.kind = r.kind /\ q.key = r.key /\ q.target = r.target /\ q.read = r.read
            /\ (q.kind = "rotate" => q.bucket = r.bucket)
  PROVE  Unmanaged' /\ AllRead'
<1>1. \A k : Managed(k)' <=> Managed(k)
  BY DEF Managed
<1>2. \A b : Bound(b)' = Bound(b)
  BY DEF Bound
<1>3. Unmanaged'
  <2> SUFFICES ASSUME NEW q \in open', q.kind \in Owners
               PROVE  ~Managed(q.key)' /\ (q.kind = "rename" => ~Managed(q.target)')
    BY DEF Unmanaged
  <2> QED BY <1>1 DEF Current, Unmanaged
<1>4. AllRead'
  <2> SUFFICES ASSUME NEW q \in open', q.kind = "rotate" PROVE q.read = Bound(q.bucket)'
    BY DEF AllRead
  <2> QED BY <1>2 DEF Current, AllRead
<1> QED BY <1>3, <1>4

LEMMA CurrentOwners ==
  ASSUME BindsAlone, Typed, Apart, Current, NEW r \in open,
         SetVariable(r) \/ SetReference(r) \/ Rename(r) \/ DeleteVariable(r) \/ BindDatabase(r)
         \/ Abandon(r)
  PROVE  Current'
<1>1. UNCHANGED <<binding, version>>
  BY DEF SetVariable, SetReference, Rename, DeleteVariable, BindDatabase, Abandon, rows
<1>2. \A q \in open' : \E p \in open :
        q.kind = p.kind /\ q.key = p.key /\ q.target = p.target /\ q.read = p.read
        /\ (q.kind = "rotate" => q.bucket = p.bucket)
  <2>1. CASE Close(r)
    BY <2>1 DEF Close
  <2>2. ASSUME NEW next \in Statements, r.kind = "bind database", Continue(r, next)
        PROVE  <1>2!:
    <3>1. r \in RequestType
      BY DEF Typed, Fits
    <3>2. LET q == [r EXCEPT !.bucket = next]
          IN  q.kind = r.kind /\ q.key = r.key /\ q.target = r.target /\ q.read = r.read
      BY <3>1 DEF RequestType
    <3> QED BY <2>2, <3>2 DEF Continue
  <2> QED BY <2>1, <2>2
      DEF SetVariable, SetReference, Rename, DeleteVariable, BindDatabase, Abandon, Statements
<1>3. \A k \in Keys : Managed(k) => variable'[k] = variable[k]
  <2>1. Fits(r) /\ variable \in [Keys -> RowType]
    BY TypedParts DEF Typed, RowsTyped
  <2>2. r.kind \in Owners => ~Managed(r.key) /\ (r.kind = "rename" => ~Managed(r.target))
    BY DEF Current, Unmanaged
  <2>3. CASE SetVariable(r)
    BY <2>1, <2>2, <2>3 DEF SetVariable, StoreVariable, Owners
  <2>4. CASE SetReference(r)
    BY <2>1, <2>2, <2>4 DEF SetReference, Owners
  <2>5. CASE Rename(r)
    BY <2>1, <2>2, <2>5 DEF Rename, Owners
  <2>6. CASE DeleteVariable(r)
    BY <2>1, <2>2, <2>6 DEF DeleteVariable, Owners
  <2>7. CASE BindDatabase(r)
    BY <2>1, <2>2, <2>7 DEF BindDatabase, StoreVariable, Owners
  <2>8. CASE Abandon(r)
    BY <2>8 DEF Abandon, rows
  <2> QED BY <2>3, <2>4, <2>5, <2>6, <2>7, <2>8
<1> QED BY <1>1, <1>2, <1>3, CurrentStays, OpenStays DEF Current

\* The binding of b and s becomes p, and the variable of that name b's.
LEMMA Rebound ==
  ASSUME Typed, Current, NEW b \in Buckets, NEW s \in Applications, NEW p \in Prefixes,
         version[b] > 0, UNCHANGED version,
         binding' = [binding EXCEPT ![<<b, s>>] = p],
         \A c \in Buckets \ {b} : binding[c, s] # p,
         variable'[<<s, p>>].from = b, variable'[<<s, p>>].version = version[b],
         \A k \in Keys \ {<<s, p>>} : variable'[k] = variable[k]
  PROVE  /\ PrefixesUnique' /\ BindingsCurrent'
         /\ \A c \in Buckets \ {b} : Bound(c)' = Bound(c)
<1>1. binding \in [Buckets \X Applications -> Prefixes \cup {Unbound}]
  BY DEF Typed, ReferencesTypeOK
<1>2. p # Unbound
  BY Constants
<1>3. binding'[<<b, s>>] = p
  BY <1>1
<1>4. \A c \in Buckets, t \in Applications :
        <<c, t>> # <<b, s>> => binding'[<<c, t>>] = binding[<<c, t>>]
  BY <1>1
<1>5. \A c \in Buckets, t \in Applications : binding[<<c, t>>] # Unbound =>
        /\ version[c] > 0
        /\ \A d \in Buckets : binding[<<d, t>>] = binding[<<c, t>>] => d = c
  BY DEF Current, PrefixesUnique
<1>6. PrefixesUnique'
  <2> SUFFICES ASSUME NEW c \in Buckets, NEW t \in Applications, binding'[<<c, t>>] # Unbound
               PROVE  /\ version'[c] > 0
                      /\ \A d \in Buckets : binding'[<<d, t>>] = binding'[<<c, t>>] => d = c
    BY DEF PrefixesUnique
  <2>1. CASE t # s
    <3>1. \A d \in Buckets : binding'[<<d, t>>] = binding[<<d, t>>]
      BY <1>4, <2>1
    <3>2. binding[<<c, t>>] # Unbound
      BY <3>1
    <3>3. version[c] > 0 /\ \A d \in Buckets : binding[<<d, t>>] = binding[<<c, t>>] => d = c
      BY <1>5, <3>2
    <3> QED BY <3>1, <3>3
  <2>2. CASE t = s /\ c = b
    <3>1. ASSUME NEW d \in Buckets, d # b PROVE binding'[<<d, t>>] # p
      <4>1. binding'[<<d, t>>] = binding[<<d, t>>]
        BY <1>4, <3>1
      <4> QED BY <2>2, <3>1, <4>1
    <3>2. binding'[<<c, t>>] = p
      BY <1>3, <2>2
    <3>3. version'[c] > 0
      BY <2>2
    <3> QED BY <2>2, <3>1, <3>2, <3>3
  <2>3. CASE t = s /\ c # b
    <3>1. binding'[<<c, t>>] = binding[<<c, t>>] /\ binding[<<c, t>>] # p
      BY <1>4, <2>3
    <3>2. \A d \in Buckets : d # b => binding'[<<d, t>>] = binding[<<d, t>>]
      BY <1>4
    <3>3. version[c] > 0 /\ \A d \in Buckets : binding[<<d, t>>] = binding[<<c, t>>] => d = c
      BY <1>5, <3>1
    <3>4. binding'[<<b, t>>] = p
      BY <1>3, <2>3
    <3>5. ASSUME NEW d \in Buckets, binding'[<<d, t>>] = binding'[<<c, t>>] PROVE d = c
      BY <3>1, <3>2, <3>3, <3>4, <3>5
    <3> QED BY <3>3, <3>5
  <2> QED BY <2>1, <2>2, <2>3
<1>7. BindingsCurrent'
  <2> SUFFICES ASSUME NEW c \in Buckets, NEW t \in Applications, binding'[<<c, t>>] # Unbound
               PROVE  /\ variable'[<<t, binding'[<<c, t>>]>>].from = c
                      /\ variable'[<<t, binding'[<<c, t>>]>>].version = version'[c]
    BY DEF BindingsCurrent
  <2>1. CASE c = b /\ t = s
    BY <1>3, <2>1
  <2>2. CASE <<c, t>> # <<b, s>>
    <3>1. binding'[<<c, t>>] = binding[<<c, t>>]
      BY <1>4, <2>2
    <3>2. PICK q : q = binding[<<c, t>>]
      OBVIOUS
    <3>3. variable[<<t, q>>].from = c /\ variable[<<t, q>>].version = version[c]
      BY <3>1, <3>2 DEF Current, BindingsCurrent
    <3>4. <<t, q>> \in Keys /\ <<t, q>> # <<s, p>>
      BY <1>1, <2>2, <3>1, <3>2, Constants DEF Keys
    <3>5. variable'[<<t, q>>] = variable[<<t, q>>]
      BY <3>4
    <3> QED BY <3>1, <3>2, <3>3, <3>5
  <2> QED BY <2>1, <2>2
<1>8. \A c \in Buckets \ {b} : Bound(c)' = Bound(c)
  <2> SUFFICES ASSUME NEW c \in Buckets \ {b} PROVE Bound(c)' = Bound(c)
    OBVIOUS
  <2>1. \A t \in Applications : binding'[<<c, t>>] = binding[<<c, t>>]
    BY <1>4
  <2> QED BY <2>1 DEF Bound
<1> QED BY <1>6, <1>7, <1>8

LEMMA CurrentBind ==
  ASSUME BindsAlone, Typed, Apart, Current, NEW r \in open, BindBucket(r)
  PROVE  Current'
<1>1. Fits(r) /\ r.kind = "bind bucket" /\ r.kind \in Locking
  BY DEF BindBucket, Locking, Typed
<1>2. r.bucket \in Buckets /\ r.key \in Keys /\ r.key[1] \in Applications /\ r.key[2] \in Prefixes
  BY <1>1 DEF Fits
<1>3. r.key = <<r.key[1], r.key[2]>> /\ version[r.bucket] > 0
  <2>1. version[r.bucket] > 0
    BY <1>1 DEF Fits
  <2>2. r.key = <<r.key[1], r.key[2]>>
    BY <1>2 DEF Keys
  <2> QED BY <2>1, <2>2
<1>4. PICK b \in Buckets, s \in Applications, p \in Prefixes :
        r.bucket = b /\ r.key[1] = s /\ r.key[2] = p /\ r.key = <<s, p>>
  BY <1>2, <1>3
<1>5. /\ binding' = [binding EXCEPT ![<<b, s>>] = p]
      /\ UNCHANGED version /\ Close(r)
      /\ variable' = Credentials(b, version[b], {<<s, p>>})
      /\ \A c \in Buckets \ {b} : binding[c, s] # p
  BY <1>4 DEF BindBucket
<1>6. RowsTyped /\ version[b] \in 0..Rotations /\ {<<s, p>>} \in SUBSET Keys
  BY <1>2, <1>4, TypedParts DEF Typed, BindingsTyped
<1>7. /\ variable'[<<s, p>>].from = b /\ variable'[<<s, p>>].version = version[b]
      /\ \A k \in Keys \ {<<s, p>>} : variable'[k] = variable[k]
  <2>1. PICK ks \in SUBSET Keys : ks = {<<s, p>>}
    BY <1>6
  <2>2. PICK v \in 0..Rotations : v = version[b]
    BY <1>6
  <2>3. variable' = Credentials(b, v, ks)
    BY <1>5, <2>1, <2>2
  <2>4. /\ \A k \in ks : variable'[k].from = b /\ variable'[k].version = v
        /\ \A k \in Keys \ ks : variable'[k] = variable[k]
    BY <1>6, <2>3, CredentialsTyped
  <2> QED BY <2>1, <2>2, <2>4
<1>8. /\ PrefixesUnique' /\ BindingsCurrent'
      /\ \A c \in Buckets \ {b} : Bound(c)' = Bound(c)
  BY <1>3, <1>4, <1>5, <1>7, Rebound
<1>9. \A q \in open' : q \in open /\ q # r /\ q.kind \notin Owners
  BY <1>1, <1>5 DEF Close, Apart, BindsAlone, Owners
<1>10. Unmanaged'
  BY <1>9 DEF Unmanaged
<1>11. AllRead'
  <2> SUFFICES ASSUME NEW q \in open', q.kind = "rotate" PROVE q.read = Bound(q.bucket)'
    BY DEF AllRead
  <2>1. q \in open /\ q # r /\ q.read = Bound(q.bucket)
    BY <1>9 DEF Current, AllRead
  <2>2. q.bucket # b /\ q.bucket \in Buckets
    BY <1>1, <1>4, <2>1 DEF Typed, LocksHeld, Locking, Fits
  <2> QED BY <1>8, <2>1, <2>2
<1> QED BY <1>8, <1>10, <1>11 DEF Current

LEMMA CurrentRotate ==
  ASSUME Typed, Current, NEW r \in open, RotateBucketCredentials(r)
  PROVE  Current'
<1>1. Fits(r) /\ r.kind = "rotate" /\ r.kind \in Locking /\ r.bucket \in Buckets
  BY DEF RotateBucketCredentials, Locking, Typed, Fits
<1>2. r.read = Bound(r.bucket) /\ version[r.bucket] \in 0..Rotations /\ version[r.bucket] > 0
      /\ version[r.bucket] < Rotations
  BY <1>1, TypedParts DEF Current, AllRead, Typed, BindingsTyped, Fits
<1>3. PICK b \in Buckets : r.bucket = b
  BY <1>1
<1>4. /\ version' = [version EXCEPT ![b] = @ + 1]
      /\ variable' = Credentials(b, version[b] + 1, Bound(b))
      /\ UNCHANGED <<reference, binding>> /\ Close(r)
  BY <1>2, <1>3 DEF RotateBucketCredentials
<1>5. /\ version'[b] = version[b] + 1 /\ version'[b] \in 1..Rotations
      /\ \A c \in Buckets \ {b} : version'[c] = version[c]
  BY <1>2, <1>3, <1>4, Constants, TypedParts DEF Typed, BindingsTyped
<1>6. RowsTyped /\ Bound(b) \in SUBSET Keys /\ version[b] + 1 \in 0..Rotations
  <2>1. RowsTyped
    BY TypedParts DEF Typed
  <2>2. Bound(b) \in SUBSET Keys
    BY Constants DEF Bound, Keys
  <2> QED BY <1>2, <1>3, <2>1, <2>2, Constants
<1>7. /\ \A k \in Bound(b) : variable'[k].from = b /\ variable'[k].version = version[b] + 1
      /\ \A k \in Keys \ Bound(b) : variable'[k] = variable[k]
  BY <1>4, <1>6, CredentialsTyped
<1>8. \A c \in Buckets, t \in Applications : binding[<<c, t>>] # Unbound =>
        /\ <<t, binding[<<c, t>>]>> \in Keys
        /\ (<<t, binding[<<c, t>>]>> \in Bound(b)) <=> (c = b)
  <2> SUFFICES ASSUME NEW c \in Buckets, NEW t \in Applications, binding[<<c, t>>] # Unbound
               PROVE  /\ <<t, binding[<<c, t>>]>> \in Keys
                      /\ (<<t, binding[<<c, t>>]>> \in Bound(b)) <=> (c = b)
    OBVIOUS
  <2>1. binding[<<c, t>>] \in Prefixes /\ binding[<<c, t>>] \in Names /\ t \in Services
    BY Constants DEF Typed, ReferencesTypeOK
  <2>2. (<<t, binding[<<c, t>>]>> \in Bound(b)) <=> (binding[<<b, t>>] = binding[<<c, t>>])
    BY <2>1 DEF Bound
  <2>3. (binding[<<b, t>>] = binding[<<c, t>>]) <=> (c = b)
    BY DEF Current, PrefixesUnique
  <2> QED BY <2>1, <2>2, <2>3 DEF Keys
<1>9. BindingsCurrent'
  <2> SUFFICES ASSUME NEW c \in Buckets, NEW t \in Applications, binding[<<c, t>>] # Unbound
               PROVE  /\ variable'[<<t, binding[<<c, t>>]>>].from = c
                      /\ variable'[<<t, binding[<<c, t>>]>>].version = version'[c]
    BY <1>4 DEF BindingsCurrent
  <2>1. CASE c = b
    BY <1>5, <1>7, <1>8, <2>1
  <2>2. CASE c # b
    <3>1. variable'[<<t, binding[<<c, t>>]>>] = variable[<<t, binding[<<c, t>>]>>]
      BY <1>7, <1>8, <2>2
    <3>2. /\ variable[<<t, binding[<<c, t>>]>>].from = c
          /\ variable[<<t, binding[<<c, t>>]>>].version = version[c]
      BY DEF Current, BindingsCurrent
    <3> QED BY <1>5, <2>2, <3>1, <3>2
  <2> QED BY <2>1, <2>2
<1>10. PrefixesUnique'
  <2>1. \A c \in Buckets : version[c] > 0 => version'[c] > 0
    BY <1>5
  <2> QED BY <1>4, <2>1 DEF Current, PrefixesUnique
<1>11. Unmanaged' /\ AllRead'
  BY <1>4, OpenStays DEF Close
<1> QED BY <1>9, <1>10, <1>11 DEF Current

LEMMA CurrentCreate ==
  ASSUME Typed, Current, NEW b \in Buckets, CreateBucket(b)
  PROVE  Current'
<1>1. /\ version[b] = 0 /\ version'[b] = 1
      /\ \A c \in Buckets \ {b} : version'[c] = version[c]
      /\ UNCHANGED <<variable, binding, open>>
  BY DEF CreateBucket, Typed, ReferencesTypeOK
<1>0. ~(version[b] > 0)
  BY <1>1
<1>2. \A s \in Applications : binding[<<b, s>>] = Unbound
  BY <1>1, <1>0 DEF Current, PrefixesUnique
<1>3. PrefixesUnique'
  BY <1>1, <1>2 DEF Current, PrefixesUnique
<1>4. BindingsCurrent'
  <2> SUFFICES ASSUME NEW c \in Buckets, NEW t \in Applications, binding[<<c, t>>] # Unbound
               PROVE  /\ variable[<<t, binding[<<c, t>>]>>].from = c
                      /\ variable[<<t, binding[<<c, t>>]>>].version = version'[c]
    BY <1>1 DEF BindingsCurrent
  <2>1. version'[c] = version[c]
    BY <1>1, <1>2
  <2> QED BY <2>1 DEF Current, BindingsCurrent
<1>5. Unmanaged' /\ AllRead'
  BY <1>1, OpenStays
<1> QED BY <1>3, <1>4, <1>5 DEF Current

LEMMA CurrentUnbind ==
  ASSUME BindsAlone, Typed, Current, NEW b \in Buckets, NEW s \in Applications, UnbindBucket(b, s)
  PROVE  Current'
<1>1. binding \in [Buckets \X Applications -> Prefixes \cup {Unbound}]
  BY DEF Typed, ReferencesTypeOK
<1>2. PICK p : p = binding[<<b, s>>]
  OBVIOUS
<1>3. /\ p # Unbound
      /\ variable' = [variable EXCEPT ![<<s, p>>] = NoRow]
      /\ UNCHANGED <<version, open>>
  BY <1>2 DEF UnbindBucket
<1>4. /\ binding'[<<b, s>>] = Unbound
      /\ \A c \in Buckets, t \in Applications :
           <<c, t>> # <<b, s>> => binding'[<<c, t>>] = binding[<<c, t>>]
  BY <1>1 DEF UnbindBucket
<1>5. PrefixesUnique'
  <2> SUFFICES ASSUME NEW c \in Buckets, NEW t \in Applications, binding'[<<c, t>>] # Unbound
               PROVE  /\ version'[c] > 0
                      /\ \A d \in Buckets : binding'[<<d, t>>] = binding'[<<c, t>>] => d = c
    BY DEF PrefixesUnique
  <2>1. <<c, t>> # <<b, s>> /\ binding'[<<c, t>>] = binding[<<c, t>>]
    BY <1>4
  <2>2. \A d \in Buckets : binding'[<<d, t>>] \in {binding[<<d, t>>], Unbound}
    BY <1>4
  <2> QED BY <1>3, <2>1, <2>2 DEF Current, PrefixesUnique
<1>6. BindingsCurrent'
  <2> SUFFICES ASSUME NEW c \in Buckets, NEW t \in Applications, binding'[<<c, t>>] # Unbound
               PROVE  /\ variable'[<<t, binding'[<<c, t>>]>>].from = c
                      /\ variable'[<<t, binding'[<<c, t>>]>>].version = version'[c]
    BY DEF BindingsCurrent
  <2>1. <<c, t>> # <<b, s>> /\ binding'[<<c, t>>] = binding[<<c, t>>]
    BY <1>4
  <2>2. PICK q : q = binding[<<c, t>>]
    OBVIOUS
  <2>3. variable[<<t, q>>].from = c /\ variable[<<t, q>>].version = version[c]
    BY <2>1, <2>2 DEF Current, BindingsCurrent
  <2>4. t = s => q # p
    BY <1>2, <2>1, <2>2 DEF Current, PrefixesUnique
  <2>5. <<t, q>> \in Keys /\ <<t, q>> # <<s, p>>
    BY <1>1, <2>1, <2>2, <2>4, Constants DEF Keys
  <2>6. variable'[<<t, q>>] = variable[<<t, q>>]
    BY <1>3, <2>5 DEF Typed, ReferencesTypeOK
  <2> QED BY <1>3, <2>1, <2>2, <2>3, <2>6
<1>7. AllRead'
  <2>1. \A r \in open : r.kind # "rotate"
    BY DEF UnbindBucket, BindsAlone
  <2> QED BY <1>3, <2>1 DEF AllRead
<1>8. Unmanaged'
  <2> SUFFICES ASSUME NEW r \in open, r.kind \in Owners
               PROVE  ~Managed(r.key)' /\ (r.kind = "rename" => ~Managed(r.target)')
    BY <1>3 DEF Unmanaged
  <2>1. \A k \in Keys : Managed(k)' => Managed(k)
    <3> SUFFICES ASSUME NEW k \in Keys, Managed(k)' PROVE Managed(k)
      OBVIOUS
    <3>1. PICK c \in Buckets : <<c, k[1]>> \in DOMAIN binding' /\ binding'[<<c, k[1]>>] = k[2]
      BY DEF Managed
    <3>2. DOMAIN binding' = Buckets \X Applications /\ k[2] # Unbound
      BY <1>1, Constants DEF UnbindBucket, Keys
    <3>3. <<c, k[1]>> \in DOMAIN binding /\ binding[<<c, k[1]>>] = k[2]
      BY <1>1, <1>4, <3>1, <3>2
    <3> QED BY <3>3 DEF Managed
  <2>2. r.key \in Keys /\ (r.kind = "rename" => r.target \in Keys)
    BY DEF Owners, Typed, Fits
  <2> QED BY <2>1, <2>2 DEF Current, Unmanaged
<1> QED BY <1>5, <1>6, <1>7, <1>8 DEF Current

\* Only a change of a row could break these.
LEMMA RowsCurrent ==
  ASSUME UNCHANGED <<binding, version, variable>>
  PROVE  (PrefixesUnique' <=> PrefixesUnique) /\ (BindingsCurrent' <=> BindingsCurrent)
<1>1. PrefixesUnique' <=> PrefixesUnique
  BY Zenon DEF PrefixesUnique
<1>2. BindingsCurrent' <=> BindingsCurrent
  BY Zenon DEF BindingsCurrent
<1> QED BY <1>1, <1>2

\* What a check finds is what Unmanaged and AllRead say.
LEMMA CurrentOpen ==
  ASSUME Typed, Current, NEW r, Open(r),
         r.kind \in Owners => ~Managed(r.key) /\ (r.kind = "rename" => ~Managed(r.target)),
         r.kind = "rotate" => r.read = Bound(r.bucket)
  PROVE  Current'
<1>1. UNCHANGED <<binding, version, variable>> /\ open' = open \cup {r}
  BY DEF Open, rows
<1>2. PrefixesUnique' /\ BindingsCurrent'
  BY <1>1, RowsCurrent DEF Current
<1>3. \A k : Managed(k)' <=> Managed(k)
  BY <1>1 DEF Managed
<1>4. \A b : Bound(b)' = Bound(b)
  BY <1>1 DEF Bound
<1>5. Unmanaged'
  <2> SUFFICES ASSUME NEW q \in open', q.kind \in Owners
               PROVE  ~Managed(q.key)' /\ (q.kind = "rename" => ~Managed(q.target)')
    BY DEF Unmanaged
  <2> QED BY <1>1, <1>3 DEF Current, Unmanaged
<1>6. AllRead'
  <2> SUFFICES ASSUME NEW q \in open', q.kind = "rotate" PROVE q.read = Bound(q.bucket)'
    BY DEF AllRead
  <2> QED BY <1>1, <1>4 DEF Current, AllRead
<1> QED BY <1>2, <1>5, <1>6 DEF Current

LEMMA CurrentCheck == ASSUME Typed, Current, Check PROVE Current'
<1>1. ASSUME NEW s \in Services, NEW n \in Names, CheckVariable(s, n) PROVE Current'
  BY <1>1, CurrentOpen DEF CheckVariable, Request
<1>2. ASSUME NEW k \in Keys, CheckDelete(k) PROVE Current'
  BY <1>2, CurrentOpen DEF CheckDelete, Request
<1>3. ASSUME NEW s \in Services, NEW n \in Names, NEW k \in Keys, CheckReference(s, n, k)
      PROVE  Current'
  BY <1>3, CurrentOpen DEF CheckReference, Request
<1>4. ASSUME NEW s \in Services, NEW n \in Names, NEW m \in Names, CheckRename(s, n, m)
      PROVE  Current'
  BY <1>4, CurrentOpen DEF CheckRename, Request
<1>5. ASSUME NEW s \in Services, NEW n \in Names, NEW d \in Databases, CheckDatabase(d, s, n)
      PROVE  Current'
  BY <1>5, CurrentOpen DEF CheckDatabase, Request
<1>6. ASSUME NEW b \in Buckets, CheckRotation(b) PROVE Current'
  BY <1>6, CurrentOpen DEF CheckRotation, Request, Owners
<1>7. ASSUME NEW b \in Buckets, NEW s \in Applications, NEW p \in Prefixes, CheckBinding(b, s, p)
      PROVE  Current'
  BY <1>7, CurrentOpen DEF CheckBinding, Request, Owners
<1>8. \A s \in Services, n \in Names : <<s, n>> \in Keys
  BY DEF Keys
<1> QED BY <1>1, <1>2, <1>3, <1>4, <1>5, <1>6, <1>7, <1>8 DEF Check

LEMMA CurrentNext ==
  ASSUME BindsAlone, Typed, Apart, Current, [Next]_vars PROVE Current'
<1>1. CASE UNCHANGED vars
  <2>1. UNCHANGED <<binding, version, variable, open>>
    BY <1>1 DEF vars, rows
  <2>2. PrefixesUnique' /\ BindingsCurrent'
    BY <2>1, RowsCurrent DEF Current
  <2>3. Unmanaged' /\ AllRead'
    BY <2>1, OpenStays
  <2> QED BY <2>2, <2>3 DEF Current
<1>2. CASE Check
  BY <1>2, CurrentCheck
<1>3. CASE Write
  <2>1. PICK r \in open :
          \/ SetVariable(r) \/ SetReference(r) \/ Rename(r) \/ DeleteVariable(r)
          \/ BindBucket(r) \/ RotateBucketCredentials(r) \/ BindDatabase(r) \/ Abandon(r)
    BY <1>3 DEF Write
  <2> QED BY <2>1, CurrentOwners, CurrentBind, CurrentRotate
<1>4. CASE \E b \in Buckets : CreateBucket(b) \/ \E s \in Applications : UnbindBucket(b, s)
  BY <1>4, CurrentCreate, CurrentUnbind
<1> QED BY <1>1, <1>2, <1>3, <1>4 DEF Next

\* A service connected to a bucket is deployed with the bucket's current
\* credentials, whatever requests come and however they interleave, when no
\* binding is made while the owner's requests are open and no bucket is
\* disconnected while its credentials rotate.
THEOREM BindingsCurrentAlways ==
  ASSUME BindsAlone PROVE Spec => []BindingsCurrent
<1>1. Init => Typed /\ Apart /\ Current
  BY TypedInit, CurrentInit DEF Init, Apart
<1>2. Typed /\ Apart /\ Current /\ [Next]_vars => (Typed /\ Apart /\ Current)'
  BY TypedNext, ApartNext, CurrentNext
<1>3. Typed /\ Apart /\ Current => BindingsCurrent
  BY DEF Current
<1> QED BY <1>1, <1>2, <1>3, PTL DEF Spec

--------------------------------------------------------------------------------
(* The limit of a service's variables holds when a request that counts before *)
(* it locks is not open together with one that adds a variable or renames one. *)

Counting == {"set reference", "bind bucket"}

CountsAlone ==
  \A counting \in Counting :
    \A kind \in Counting \cup {"set variable", "rename", "bind database"} :
      {kind, counting} \in Serial

\* The requests that have counted still have room.
Counted == \A r \in open : r.kind \in Counting => Room(r.key[1], r.key[2])

Bounded == VariablesBounded /\ Counted

LEMMA AtMost ==
  ASSUME NEW a \in Nat, NEW b \in Nat, NEW c \in Nat, a <= b, b <= c PROVE a <= c
OBVIOUS

LEMMA NextAtMost ==
  ASSUME NEW a \in Nat, NEW b, NEW c \in Nat, b = a \/ b = a + 1, a < c
  PROVE  b \in Nat /\ b <= c
OBVIOUS

LEMMA OthersFinite ==
  ASSUME NEW s, NEW n
  PROVE  IsFiniteSet(Others(s, n)) /\ Cardinality(Others(s, n)) \in Nat
<1>1. IsFiniteSet(Names) /\ Others(s, n) \subseteq Names
  BY ReferencesAssumption DEF Others
<1> QED BY <1>1, FS_Subset, FS_CardinalityType

\* One of a service's variables, n, is replaced by another, m.
LEMMA OneMore ==
  ASSUME NEW s \in Applications, NEW n, NEW m, Room(s, n),
         Others(s, "")' \subseteq Others(s, n) \cup {m}
  PROVE  Cardinality(Others(s, ""))' <= Limit
<1> DEFINE old == Others(s, n)
           new == Others(s, "")'
<1>1. IsFiniteSet(old) /\ Cardinality(old) \in Nat /\ Cardinality(old) < Limit
  BY OthersFinite DEF Room
<1>2. /\ IsFiniteSet(old \cup {m})
      /\ Cardinality(old \cup {m}) \in {Cardinality(old), Cardinality(old) + 1}
  <2>1. CASE m \in old
    <3>1. old \cup {m} = old
      BY <2>1
    <3> QED BY <1>1, <3>1
  <2>2. CASE m \notin old
    BY <1>1, <2>2, FS_AddElement
  <2> QED BY <2>1, <2>2
<1>3. Cardinality(new) <= Cardinality(old \cup {m}) /\ Cardinality(new) \in Nat
  BY <1>2, FS_Subset, FS_CardinalityType
<1>4. Limit \in Nat
  BY Constants
<1>5. Cardinality(new) <= Limit
  <2>1. Cardinality(old \cup {m}) \in Nat /\ Cardinality(old \cup {m}) <= Limit
    <3> HIDE DEF old
    <3> QED BY <1>1, <1>2, <1>4, NextAtMost
  <2> HIDE DEF old, new
  <2> QED BY <1>3, <1>4, <2>1, AtMost
<1>6. Cardinality(new) = Cardinality(Others(s, ""))'
  OBVIOUS
<1> HIDE DEF new
<1> QED BY <1>5, <1>6

\* A variable that is there has room where it is.
LEMMA RoomOfOwn ==
  ASSUME VariablesBounded, NEW s \in Applications, NEW n \in Names, Has(<<s, n>>)
  PROVE  Room(s, n)
<1> DEFINE all == Others(s, "")
           rest == Others(s, n)
<1>1. n \in all /\ rest \subseteq all \ {n}
  BY ReferencesAssumption DEF Others
<1>2. IsFiniteSet(all) /\ Cardinality(all) \in Nat /\ Cardinality(all) <= Limit
  BY OthersFinite DEF VariablesBounded
<1>3. IsFiniteSet(all \ {n}) /\ Cardinality(all \ {n}) = Cardinality(all) - 1
  BY <1>1, <1>2, FS_RemoveElement
<1>4. Cardinality(rest) <= Cardinality(all \ {n}) /\ Cardinality(rest) \in Nat
  BY <1>1, <1>3, FS_Subset, OthersFinite
<1>5. Limit \in Nat
  BY Constants
<1>6. Cardinality(rest) < Limit
  <2> HIDE DEF all, rest
  <2> QED BY <1>2, <1>3, <1>4, <1>5
<1> QED BY <1>6 DEF Room

\* Steps that add no variable.
LEMMA BoundedStays ==
  ASSUME Typed, Bounded, \A k \in Keys : Has(k)' => Has(k),
         \A q \in open' : q.kind \in Counting =>
           q.key \in Keys /\ \E r \in open : q.kind = r.kind /\ q.key = r.key
  PROVE  Bounded'
<1>1. ASSUME NEW s \in Services, NEW n
      PROVE  /\ Others(s, n)' \subseteq Others(s, n)
             /\ Cardinality(Others(s, n))' <= Cardinality(Others(s, n))
             /\ Cardinality(Others(s, n))' \in Nat
             /\ Cardinality(Others(s, n)) \in Nat
  <2>1. Others(s, n)' \subseteq Others(s, n)
    BY DEF Others, Keys
  <2>2. IsFiniteSet(Others(s, n)) /\ Cardinality(Others(s, n)) \in Nat
    BY OthersFinite
  <2> DEFINE new == Others(s, n)'
  <2>3. Cardinality(new) <= Cardinality(Others(s, n)) /\ IsFiniteSet(new)
    BY <2>1, <2>2, FS_Subset
  <2>4. Cardinality(new) \in Nat
    BY <2>3, FS_CardinalityType
  <2> QED BY <2>1, <2>2, <2>3, <2>4
<1>2. Limit \in Nat /\ Applications \subseteq Services
  BY Constants
<1>3. VariablesBounded'
  <2> SUFFICES ASSUME NEW s \in Applications PROVE Cardinality(Others(s, ""))' <= Limit
    BY DEF VariablesBounded
  <2>1. Cardinality(Others(s, "")) <= Limit
    BY DEF Bounded, VariablesBounded
  <2>2. /\ Cardinality(Others(s, ""))' <= Cardinality(Others(s, ""))
        /\ Cardinality(Others(s, ""))' \in Nat /\ Cardinality(Others(s, "")) \in Nat
    BY <1>1, <1>2
  <2> QED BY <1>2, <2>1, <2>2, AtMost
<1>4. Counted'
  <2> SUFFICES ASSUME NEW q \in open', q.kind \in Counting
               PROVE  Room(q.key[1], q.key[2])'
    BY DEF Counted
  <2>1. q.key[1] \in Services /\ q.key[2] \in Names /\ Room(q.key[1], q.key[2])
    BY DEF Bounded, Counted, Keys
  <2>2. PICK s \in Services, n \in Names : s = q.key[1] /\ n = q.key[2]
    BY <2>1
  <2>3. /\ Cardinality(Others(s, n))' <= Cardinality(Others(s, n))
        /\ Cardinality(Others(s, n))' \in Nat /\ Cardinality(Others(s, n)) \in Nat
    BY <1>1
  <2>4. Cardinality(Others(s, n)) < Limit
    BY <2>1, <2>2 DEF Room
  <2>5. Cardinality(Others(s, n))' < Limit
    BY <1>2, <2>3, <2>4
  <2> QED BY <2>2, <2>5 DEF Room
<1> QED BY <1>3, <1>4 DEF Bounded

\* Steps that add the variable m where n had room, with no other request open
\* that has counted.
LEMMA BoundedGrows ==
  ASSUME Typed, Bounded, NEW s \in Services, NEW n \in Names, NEW m \in Names, Room(s, n),
         \A k \in Keys : Has(k)' => k = <<s, m>> \/ (Has(k) /\ (k = <<s, n>> => n = m)),
         \A q \in open' : q.kind \notin Counting
  PROVE  Bounded'
<1>1. Counted'
  BY DEF Counted
<1>2. ASSUME NEW t \in Applications PROVE Cardinality(Others(t, ""))' <= Limit
  <2>1. Applications \subseteq Services
    BY Constants
  <2>2. CASE t = s
    <3>1. Others(s, "")' \subseteq Others(s, n) \cup {m}
      <4> SUFFICES ASSUME NEW i \in Names, Has(<<s, i>>)' PROVE i \in Others(s, n) \cup {m}
        BY DEF Others
      <4>1. <<s, i>> \in Keys
        BY DEF Keys
      <4>2. i = m \/ (Has(<<s, i>>) /\ (i = n => n = m))
        BY <4>1
      <4> QED BY <4>2 DEF Others
    <3> QED BY <2>2, <3>1, OneMore
  <2>3. CASE t # s
    <3> DEFINE new == Others(t, "")'
    <3>1. new \subseteq Others(t, "")
      <4> SUFFICES ASSUME NEW i \in Names, Has(<<t, i>>)' PROVE Has(<<t, i>>)
        BY DEF Others
      <4>1. <<t, i>> \in Keys
        BY <2>1 DEF Keys
      <4> QED BY <2>3, <4>1
    <3>2. IsFiniteSet(Others(t, "")) /\ Cardinality(Others(t, "")) \in Nat
          /\ Cardinality(Others(t, "")) <= Limit
      BY OthersFinite DEF Bounded, VariablesBounded
    <3>3. Cardinality(new) <= Cardinality(Others(t, "")) /\ Cardinality(new) \in Nat
      BY <3>1, <3>2, FS_Subset, FS_CardinalityType
    <3>4. Limit \in Nat
      BY Constants
    <3>5. Cardinality(new) <= Limit
      <4> HIDE DEF new
      <4> QED BY <3>2, <3>3, <3>4, AtMost
    <3> QED BY <3>5
  <2> QED BY <2>2, <2>3
<1> QED BY <1>1, <1>2 DEF Bounded, VariablesBounded

LEMMA BoundedAdds ==
  ASSUME Typed, Bounded, NEW key \in Keys, Room(key[1], key[2]),
         \A k \in Keys : Has(k)' => k = key \/ Has(k),
         \A q \in open' : q.kind \notin Counting
  PROVE  Bounded'
<1>1. PICK s \in Services, n \in Names : key = <<s, n>>
  BY DEF Keys
<1>2. Room(s, n) /\ \A k \in Keys : Has(k)' => k = <<s, n>> \/ (Has(k) /\ (k = <<s, n>> => n = n))
  BY <1>1
<1> QED BY <1>2, BoundedGrows

LEMMA BoundedCheck == ASSUME Typed, Current, Bounded, Check PROVE Bounded'
<1>1. ASSUME NEW r, Open(r), r.kind \in Counting => r.key \in Keys /\ Room(r.key[1], r.key[2])
      PROVE  Bounded'
  <2>1. UNCHANGED variable /\ open' = open \cup {r}
    BY <1>1 DEF Open, rows
  <2>2. \A s, n : Others(s, n)' = Others(s, n)
    BY <2>1 DEF Others, Has
  <2>3. VariablesBounded'
    BY <2>2 DEF Bounded, VariablesBounded
  <2>4. \A s, n : Room(s, n)' <=> Room(s, n)
    BY <2>2 DEF Room
  <2>5. Counted'
    BY <1>1, <2>1, <2>4 DEF Counted, Bounded
  <2> QED BY <2>3, <2>5 DEF Bounded
<1>2. ASSUME NEW s \in Services, NEW n \in Names, CheckVariable(s, n) PROVE Bounded'
  BY <1>1, <1>2 DEF CheckVariable, Request, Counting
<1>3. ASSUME NEW k \in Keys, CheckDelete(k) PROVE Bounded'
  BY <1>1, <1>3 DEF CheckDelete, Request, Counting
<1>4. ASSUME NEW s \in Services, NEW n \in Names, NEW k \in Keys, CheckReference(s, n, k)
      PROVE  Bounded'
  BY <1>1, <1>4 DEF CheckReference, Request, Keys
<1>5. ASSUME NEW s \in Services, NEW n \in Names, NEW m \in Names, CheckRename(s, n, m)
      PROVE  Bounded'
  BY <1>1, <1>5 DEF CheckRename, Request, Counting
<1>6. ASSUME NEW s \in Services, NEW n \in Names, NEW d \in Databases, CheckDatabase(d, s, n)
      PROVE  Bounded'
  BY <1>1, <1>6 DEF CheckDatabase, Request, Counting
<1>7. ASSUME NEW b \in Buckets, CheckRotation(b) PROVE Bounded'
  BY <1>1, <1>7 DEF CheckRotation, Request, Counting
<1>8. ASSUME NEW b \in Buckets, NEW s \in Applications, NEW p \in Prefixes, CheckBinding(b, s, p)
      PROVE  Bounded'
  <2>1. <<s, p>> \in Keys /\ p \in Names /\ p # Unbound
    BY Constants DEF Keys
  <2>2. Room(s, p)
    <3>1. CASE binding[b, s] = Unbound
      BY <1>8, <3>1 DEF CheckBinding
    <3>2. CASE binding[b, s] = p
      <4>1. variable[<<s, p>>].from = b /\ b # "nobody"
        BY <2>1, <3>2, ReferencesAssumption DEF Current, BindingsCurrent
      <4>2. Has(<<s, p>>)
        BY <4>1 DEF Has, NoRow, Row
      <4> QED BY <2>1, <4>2, RoomOfOwn DEF Bounded
    <3> QED BY <1>8, <3>1, <3>2 DEF CheckBinding
  <2> QED BY <1>1, <1>8, <2>1, <2>2 DEF CheckBinding, Request
<1>9. \A s \in Services, n \in Names : <<s, n>> \in Keys
  BY DEF Keys
<1> QED BY <1>2, <1>3, <1>4, <1>5, <1>6, <1>7, <1>8, <1>9 DEF Check

\* A request that closes leaves the others as they are.
LEMMA BoundedCloses ==
  ASSUME Typed, Bounded, \A k \in Keys : Has(k)' => Has(k), open' \subseteq open
  PROVE  Bounded'
<1>1. \A q \in open' : q.kind \in Counting => q.key \in Keys
  BY DEF Typed, Fits, Counting
<1> QED BY <1>1, BoundedStays

\* No other request that has counted is open beside one that adds or renames.
LEMMA NoneCounted ==
  ASSUME CountsAlone, Typed, Apart, NEW r \in open,
         r.kind \in Counting \cup {"set variable", "rename", "bind database"}
  PROVE  \A q \in open \ {r} : q.kind \notin Counting
BY DEF CountsAlone, Apart

LEMMA BoundedWrite ==
  ASSUME CountsAlone, Typed, Apart, Current, Bounded, Write PROVE Bounded'
<1>1. PICK r \in open :
        \/ SetVariable(r) \/ SetReference(r) \/ Rename(r) \/ DeleteVariable(r)
        \/ BindBucket(r) \/ RotateBucketCredentials(r) \/ BindDatabase(r) \/ Abandon(r)
  BY DEF Write
<1>2. Fits(r) /\ RowsTyped /\ variable \in [Keys -> RowType] /\ Applications \subseteq Services
  BY TypedParts, Constants DEF Typed, RowsTyped
<1>4. CASE SetVariable(r)
  <2>1. r.kind = "set variable" /\ r.key \in Keys
    BY <1>2, <1>4 DEF SetVariable, Fits
  <2>2. \A q \in open' : q.kind \notin Counting
    BY <1>4, <2>1, NoneCounted DEF SetVariable, Close
  <2>3. Room(r.key[1], r.key[2]) /\ \A k \in Keys : k # r.key => variable'[k] = variable[k]
    BY <1>2, <1>4 DEF SetVariable, StoreVariable
  <2>4. \A k \in Keys : Has(k)' => k = r.key \/ Has(k)
    BY <2>3 DEF Has
  <2> QED BY <2>1, <2>2, <2>3, <2>4, BoundedAdds
<1>5. CASE SetReference(r)
  <2>1. r.kind = "set reference" /\ r.key \in Keys
    BY <1>2, <1>5 DEF SetReference, Fits
  <2>2. \A q \in open' : q.kind \notin Counting
    BY <1>5, <2>1, NoneCounted DEF SetReference, Close, Counting
  <2>3. Room(r.key[1], r.key[2]) /\ \A k \in Keys : k # r.key => variable'[k] = variable[k]
    BY <1>2, <1>5, <2>1 DEF SetReference, Bounded, Counted, Counting
  <2>4. \A k \in Keys : Has(k)' => k = r.key \/ Has(k)
    BY <2>3 DEF Has
  <2> QED BY <2>1, <2>2, <2>3, <2>4, BoundedAdds
<1>6. CASE Rename(r)
  <2>1. r.kind = "rename" /\ r.key \in Keys /\ r.target \in Keys /\ r.target[1] = r.key[1]
        /\ r.target # r.key /\ r.key[1] \in Applications
    BY <1>2, <1>6 DEF Rename, Fits
  <2>2. \A q \in open' : q.kind \notin Counting
    BY <1>6, <2>1, NoneCounted DEF Rename, Close
  <2>3. PICK s \in Applications, n \in Names, m \in Names : r.key = <<s, n>> /\ r.target = <<s, m>>
    BY <2>1 DEF Keys
  <2>4. Room(s, n)
    BY <1>6, <2>3, RoomOfOwn DEF Rename, Bounded
  <2>5. variable' = [variable EXCEPT ![<<s, m>>] = variable[<<s, n>>], ![<<s, n>>] = NoRow] /\ n # m
    BY <1>6, <2>1, <2>3 DEF Rename
  <2>6. \A k \in Keys : k # <<s, m>> => variable'[k] = IF k = <<s, n>> THEN NoRow ELSE variable[k]
    BY <1>2, <2>5
  <2>7. \A k \in Keys : Has(k)' => k = <<s, m>> \/ (Has(k) /\ (k = <<s, n>> => n = m))
    BY <2>6 DEF Has
  <2> QED BY <1>2, <2>2, <2>4, <2>7, BoundedGrows
<1>7. CASE DeleteVariable(r)
  <2>1. \A k \in Keys : variable'[k] = NoRow \/ variable'[k] = variable[k]
    BY <1>2, <1>7 DEF DeleteVariable
  <2>2. \A k \in Keys : Has(k)' => Has(k)
    BY <2>1 DEF Has, NoRow, Row
  <2> QED BY <1>7, <2>2, BoundedCloses DEF DeleteVariable, Close
<1>8. CASE BindBucket(r)
  <2>1. r.kind = "bind bucket" /\ r.key \in Keys /\ r.bucket \in Buckets
    BY <1>2, <1>8 DEF BindBucket, Fits, Locking
  <2>2. \A q \in open' : q.kind \notin Counting
    BY <1>8, <2>1, NoneCounted DEF BindBucket, Close, Counting
  <2>3. Room(r.key[1], r.key[2])
    BY <2>1 DEF Bounded, Counted, Counting
  <2>4. \A k \in Keys : k # r.key => variable'[k] = variable[k]
    BY <1>2, <1>8 DEF BindBucket, Credentials
  <2>5. \A k \in Keys : Has(k)' => k = r.key \/ Has(k)
    BY <2>4 DEF Has
  <2> QED BY <2>1, <2>2, <2>3, <2>5, BoundedAdds
<1>9. CASE RotateBucketCredentials(r)
  <2>1. r.read = Bound(r.bucket) /\ r.bucket \in Buckets
    BY <1>2, <1>9 DEF RotateBucketCredentials, Fits, Locking, Current, AllRead
  <2>2. \A k \in Bound(r.bucket) : Has(k)
    <3> SUFFICES ASSUME NEW k \in Bound(r.bucket) PROVE Has(k)
      OBVIOUS
    <3>1. PICK s \in Applications, p \in Prefixes : k = <<s, p>> /\ binding[<<r.bucket, s>>] = p
      <4>1. k \in Applications \X Prefixes /\ binding[<<r.bucket, k[1]>>] = k[2]
        BY DEF Bound
      <4> QED BY <4>1
    <3>2. p # Unbound /\ r.bucket # "nobody"
      BY <2>1, Constants, ReferencesAssumption
    <3>3. variable[<<s, p>>].from = r.bucket
      BY <2>1, <3>1, <3>2 DEF Current, BindingsCurrent
    <3> QED BY <3>1, <3>2, <3>3 DEF Has, NoRow, Row
  <2>3. \A k \in Keys : k \notin r.read => variable'[k] = variable[k]
    BY <1>9 DEF RotateBucketCredentials, Credentials
  <2>4. \A k \in Keys : Has(k)' => Has(k)
    BY <2>1, <2>2, <2>3 DEF Has
  <2> QED BY <1>9, <2>4, BoundedCloses DEF RotateBucketCredentials, Close
<1>10. CASE BindDatabase(r)
  <2>1. r.kind = "bind database" /\ r.key \in Keys
    BY <1>2, <1>10 DEF BindDatabase, Fits
  <2>2. [r EXCEPT !.bucket = "refer"].kind = "bind database"
        /\ [r EXCEPT !.bucket = "mark"].kind = "bind database"
    BY <1>2, <2>1 DEF Fits, RequestType
  <2>3. \A q \in open' : q.kind \notin Counting
    BY <1>10, <2>1, <2>2, NoneCounted DEF BindDatabase, Close, Continue, Counting
  <2>4. CASE r.bucket = "set"
    <3>1. Room(r.key[1], r.key[2]) /\ \A k \in Keys : k # r.key => variable'[k] = variable[k]
      BY <1>2, <1>10, <2>4 DEF BindDatabase, StoreVariable
    <3>2. \A k \in Keys : Has(k)' => k = r.key \/ Has(k)
      BY <3>1 DEF Has
    <3> QED BY <2>1, <2>3, <3>1, <3>2, BoundedAdds
  <2>5. CASE r.bucket \in {"refer", "mark"}
    <3>1. \A k \in Keys : variable'[k] = variable[k] \/ (k = r.key /\ Has(r.key))
      BY <1>2, <1>10, <2>5 DEF BindDatabase
    <3>2. \A k \in Keys : Has(k)' => Has(k)
      BY <3>1 DEF Has
    <3> QED BY <2>3, <3>2, BoundedStays
  <2> QED BY <1>10, <2>4, <2>5 DEF BindDatabase
<1>11. CASE Abandon(r)
  <2>1. UNCHANGED variable /\ open' \subseteq open
    BY <1>11 DEF Abandon, Close, rows
  <2>2. \A k \in Keys : Has(k)' => Has(k)
    BY <2>1 DEF Has
  <2> QED BY <2>1, <2>2, BoundedCloses
<1> QED BY <1>1, <1>4, <1>5, <1>6, <1>7, <1>8, <1>9, <1>10, <1>11

LEMMA BoundedNext ==
  ASSUME CountsAlone, Typed, Apart, Current, Bounded, [Next]_vars PROVE Bounded'
<1>1. CASE UNCHANGED <<variable, open>>
  <2>1. \A k \in Keys : Has(k)' => Has(k)
    BY <1>1 DEF Has
  <2> QED BY <1>1, <2>1, BoundedCloses
<1>2. CASE \E b \in Buckets, s \in Applications : UnbindBucket(b, s)
  <2>1. UNCHANGED open /\ \A k \in Keys : variable'[k] = NoRow \/ variable'[k] = variable[k]
    BY <1>2 DEF UnbindBucket, Typed, ReferencesTypeOK
  <2>2. \A k \in Keys : Has(k)' => Has(k)
    BY <2>1 DEF Has, NoRow, Row
  <2> QED BY <2>1, <2>2, BoundedCloses
<1>3. CASE Check \/ Write
  BY <1>3, BoundedCheck, BoundedWrite
<1> QED BY <1>1, <1>2, <1>3 DEF Next, vars, rows, CreateBucket

LEMMA BoundedInit == Init => Bounded
<1> SUFFICES ASSUME Init PROVE Bounded
  OBVIOUS
<1>1. ASSUME NEW s \in Applications PROVE Cardinality(Others(s, "")) <= Limit
  <2>1. Others(s, "") = {}
    BY Constants DEF Init, Others, Has, Keys
  <2>2. Cardinality(Others(s, "")) = 0
    BY <2>1, FS_EmptySet
  <2>3. 0 <= Limit
    BY Constants
  <2> QED BY <2>2, <2>3
<1>2. Counted
  BY DEF Init, Counted
<1> QED BY <1>1, <1>2 DEF Bounded, VariablesBounded

\* No service gets more variables than the limit, whatever requests come, when
\* the requests that count without a lock are kept apart from those that add a
\* variable or rename one, and bindings as above.
THEOREM VariablesBoundedAlways ==
  ASSUME BindsAlone, CountsAlone PROVE Spec => []VariablesBounded
<1>1. Init => Typed /\ Apart /\ Current /\ Bounded
  BY TypedInit, CurrentInit, BoundedInit DEF Init, Apart
<1>2. Typed /\ Apart /\ Current /\ Bounded /\ [Next]_vars => (Typed /\ Apart /\ Current /\ Bounded)'
  BY TypedNext, ApartNext, CurrentNext, BoundedNext
<1>3. Typed /\ Apart /\ Current /\ Bounded => VariablesBounded
  BY DEF Bounded
<1> QED BY <1>1, <1>2, <1>3, PTL DEF Spec
================================================================================
