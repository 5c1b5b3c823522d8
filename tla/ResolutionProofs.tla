---------------------------- MODULE ResolutionProofs ----------------------------
(***************************************************************************)
(* Proofs about what references lead to: no chain of them returns to where  *)
(* it starts, each variable has a value, and a new name changes none.       *)
(* What follows chains is recursive over their length.  The provers have no *)
(* induction; the proofs look at the smallest length at which a claim fails.*)
(***************************************************************************)
EXTENDS ReferencesProofs, WellFoundedInduction

--------------------------------------------------------------------------------
(* The smallest counterexample. *)

\* A set of natural numbers that is not empty has a smallest member.
LEMMA SmallestMember ==
  ASSUME NEW T \in SUBSET Nat, T # {}
  PROVE  \E x \in T : \A y \in T : x <= y
<1>1. PICK x \in T : \A y \in T : ~(<<y, x>> \in OpToRel(<, Nat))
  BY NatLessThanWellFounded, WFMin, Zenon
<1>2. \A y, z \in Nat : y < z => <<y, z>> \in OpToRel(<, Nat)
  BY Zenon DEF OpToRel
<1>3. \A y \in T : ~(y < x)
  BY <1>1, <1>2, Zenon
<1> QED BY <1>3

\* What holds at 0 and passes on to the next number holds up to n: T are the
\* numbers at which it fails.
LEMMA NoneFails ==
  ASSUME NEW n \in Nat, NEW T \in SUBSET (0..n), 0 \notin T,
         \A i \in 1..n : i - 1 \notin T => i \notin T
  PROVE  T = {}
<1> SUFFICES ASSUME T # {} PROVE FALSE
  OBVIOUS
<1>1. PICK x \in T : \A y \in T : x <= y
  BY SmallestMember
<1>2. x \in 1..n /\ x - 1 \notin T
  BY <1>1
<1> QED BY <1>2

--------------------------------------------------------------------------------
(* What Reachable computes. *)

Chains == Cardinality(Applications)

LEMMA Finite ==
  /\ IsFiniteSet(Services) /\ IsFiniteSet(Applications)
  /\ Chains \in Nat /\ Cardinality(Services) \in Nat
<1>1. Applications \in SUBSET Services /\ IsFiniteSet(Services)
  BY ReferencesAssumption DEF Services
<1>2. IsFiniteSet(Applications)
  BY <1>1, FS_Subset, Zenon
<1> QED BY <1>1, <1>2, FS_CardinalityType DEF Chains

Beyond(near) == near \cup UNION {Targets(t) : t \in near}

\* w describes the services within i references of s, up to n.
Describes(w, s, n) ==
  w = [i \in 0..n |-> IF i = 0 THEN Targets(s) ELSE Beyond(w[i - 1])]

LEMMA DescriptionExists ==
  ASSUME NEW s, NEW n \in Nat
  PROVE  \E w : Describes(w, s, n)
<1> DEFINE T == {m \in 0..n : ~ \E w : Describes(w, s, m)}
<1>1. 0 \notin T
  <2> DEFINE w == [i \in 0..0 |-> Targets(s)]
  <2>1. Describes(w, s, 0)
    BY DEF Describes
  <2> QED BY <2>1
<1>2. ASSUME NEW m \in 1..n, m - 1 \notin T PROVE m \notin T
  <2>1. PICK w : Describes(w, s, m - 1)
    BY <1>2
  <2> DEFINE u == [i \in 0..m |-> IF i = m THEN Beyond(w[m - 1]) ELSE w[i]]
  <2>2. u = [i \in 0..m |-> IF i = 0 THEN Targets(s) ELSE Beyond(u[i - 1])]
    <3>1. \A i \in 0..(m - 1) : w[i] = IF i = 0 THEN Targets(s) ELSE Beyond(w[i - 1])
      BY <2>1 DEF Describes
    <3>2. \A i \in 0..m : u[i] = IF i = 0 THEN Targets(s) ELSE Beyond(u[i - 1])
      BY <3>1
    <3> QED BY <3>2
  <2>3. Describes(u, s, m)
    BY <2>2 DEF Describes
  <2> QED BY <2>3
<1>3. T = {}
  BY <1>1, <1>2, NoneFails
<1> QED BY <1>3

LEMMA ReachableDescribed ==
  ASSUME NEW s
  PROVE  \E w : Describes(w, s, Chains) /\ Reachable(s) = w[Chains]
<1> DEFINE w == CHOOSE w : Describes(w, s, Chains)
<1>1. Describes(w, s, Chains)
  BY DescriptionExists, Finite
<1>2. Reachable(s) = w[Chains]
  BY DEF Reachable, Describes, Beyond, Chains
<1> QED BY <1>1, <1>2

\* Reachable(s) is within every set that holds what s refers to and is closed.
LEMMA ReachableWithin ==
  ASSUME NEW s, NEW X, Targets(s) \subseteq X, \A t \in X : Targets(t) \subseteq X
  PROVE  Reachable(s) \subseteq X
<1>1. PICK w : Describes(w, s, Chains) /\ Reachable(s) = w[Chains]
  BY ReachableDescribed
<1> DEFINE T == {i \in 0..Chains : ~(w[i] \subseteq X)}
<1>2. 0 \notin T
  BY <1>1, Finite DEF Describes
<1>3. ASSUME NEW i \in 1..Chains, i - 1 \notin T PROVE i \notin T
  <2>1. w[i - 1] \subseteq X
    BY <1>3, Finite
  <2>2. w[i] = Beyond(w[i - 1])
    BY <1>1, <1>3, Finite DEF Describes
  <2> QED BY <2>1, <2>2 DEF Beyond
<1>4. T = {}
  <2> HIDE DEF T
  <2>1. T \in SUBSET (0..Chains)
    BY DEF T
  <2> QED BY <1>2, <1>3, <2>1, NoneFails, Finite
<1> QED BY <1>1, <1>4, Finite

\* Databases refer to none.
Sinks == \A s \in Services \ Applications : Targets(s) = {}

LEMMA SinksTyped == ASSUME Typed PROVE Sinks
<1>1. \A s \in Services, n \in Names : reference[s, n] # NoTarget => s \in Applications
  BY DEF Typed, ReferencesTypeOK, Keys
<1>2. NoTarget[1] \notin Services
  BY ReferencesAssumption DEF NoTarget, Services
<1> QED BY <1>1, <1>2 DEF Sinks, Targets

LEMMA SinksNext == ASSUME Typed' PROVE Sinks'
<1>1. \A s \in Services, n \in Names : reference'[s, n] # NoTarget => s \in Applications
  BY DEF Typed, ReferencesTypeOK, Keys
<1>2. NoTarget[1] \notin Services
  BY ReferencesAssumption DEF NoTarget, Services
<1> QED BY <1>1, <1>2 DEF Sinks, Targets

\* Reachable(s) holds what s refers to and is closed: what one more reference
\* adds is an application, and there are no more of them than steps.
LEMMA ReachableCloses ==
  ASSUME Sinks, NEW s
  PROVE  /\ Targets(s) \subseteq Reachable(s)
         /\ \A t \in Reachable(s) : Targets(t) \subseteq Reachable(s)
         /\ Reachable(s) \subseteq Services
<1>1. PICK w : Describes(w, s, Chains) /\ Reachable(s) = w[Chains]
  BY ReachableDescribed
<1> DEFINE grown(i) == Beyond(w[i]) = w[i] \/ (\E n \in Nat : n > i /\ Cardinality(w[i] \cap Applications) = n)
           good(i) == w[i] \subseteq Services /\ Targets(s) \subseteq w[i] /\ grown(i)
           T == {i \in 0..Chains : ~good(i)}
<1>2. w[0] = Targets(s) /\ \A i \in 1..Chains : w[i] = Beyond(w[i - 1])
  BY <1>1, Finite DEF Describes
<1>3. 0 \notin T
  <2>1. w[0] \subseteq Services
    BY <1>2 DEF Targets
  <2>2. ASSUME w[0] \cap Applications = {} PROVE Beyond(w[0]) = w[0]
    <3>1. \A t \in w[0] : Targets(t) = {}
      BY <2>1, <2>2 DEF Sinks
    <3> QED BY <3>1 DEF Beyond
  <2>3. ASSUME w[0] \cap Applications # {} PROVE grown(0)
    <3>1. IsFiniteSet(w[0] \cap Applications)
      BY Finite, FS_Subset, Zenon
    <3>2. Cardinality(w[0] \cap Applications) \in Nat /\ Cardinality(w[0] \cap Applications) # 0
      BY <2>3, <3>1, FS_CardinalityType, FS_EmptySet
    <3> QED BY <3>2
  <2> QED BY <1>2, <2>1, <2>2, <2>3
<1>4. ASSUME NEW i \in 1..Chains, i - 1 \notin T PROVE i \notin T
  <2>1. i - 1 \in 0..Chains /\ good(i - 1) /\ w[i] = Beyond(w[i - 1])
    BY <1>2, <1>4, Finite
  <2>2. w[i] \subseteq Services /\ Targets(s) \subseteq w[i] /\ w[i - 1] \subseteq w[i]
    BY <2>1 DEF Beyond, Targets
  <2>3. CASE Beyond(w[i - 1]) = w[i - 1]
    BY <2>1, <2>2, <2>3
  <2>4. ASSUME NEW n \in Nat, n > i - 1, Cardinality(w[i - 1] \cap Applications) = n
        PROVE  grown(i)
    <3>1. /\ IsFiniteSet(w[i] \cap Applications) /\ IsFiniteSet(w[i - 1] \cap Applications)
          /\ w[i - 1] \cap Applications \subseteq w[i] \cap Applications
      BY <2>2, Finite, FS_Subset, Zenon
    <3>2. /\ Cardinality(w[i] \cap Applications) \in Nat
          /\ Cardinality(w[i - 1] \cap Applications) <= Cardinality(w[i] \cap Applications)
      BY <3>1, FS_Subset, FS_CardinalityType
    <3>3. CASE w[i] \cap Applications = w[i - 1] \cap Applications
      <4>1. \A t \in w[i] : t \in w[i - 1] \/ Targets(t) = {}
        BY <2>2, <3>3 DEF Sinks
      <4>2. Beyond(w[i]) = w[i]
        BY <2>1, <4>1 DEF Beyond
      <4> QED BY <4>2
    <3>4. CASE w[i] \cap Applications # w[i - 1] \cap Applications
      <4>1. Cardinality(w[i] \cap Applications) > Cardinality(w[i - 1] \cap Applications)
        BY <3>1, <3>2, <3>4, FS_Subset, FS_CardinalityType
      <4> QED BY <2>4, <3>2, <4>1
    <3> QED BY <3>3, <3>4
  <2> QED BY <2>1, <2>2, <2>3, <2>4
<1>5. T = {}
  <2> HIDE DEF T
  <2>1. T \in SUBSET (0..Chains)
    BY DEF T
  <2> QED BY <1>3, <1>4, <2>1, NoneFails, Finite
<1>6. good(Chains)
  <2>1. Chains \in 0..Chains
    BY Finite
  <2> QED BY <1>5, <2>1
<1>7. Cardinality(w[Chains] \cap Applications) <= Chains
  BY Finite, FS_Subset DEF Chains
<1>8. Beyond(w[Chains]) = w[Chains]
  BY <1>6, <1>7, Finite
<1> QED BY <1>1, <1>6, <1>8 DEF Beyond

--------------------------------------------------------------------------------
(* No chain returns, when one reference is set at a time.                     *)

ReferencesAlone == {"set reference"} \in Serial

\* X holds all that s refers to, and all that those refer to.
Around(X, s) ==
  /\ Targets(s) \subseteq X
  /\ \A t \in X : Targets(t) \subseteq X

\* Such a set shows that no chain from s returns to it.
NoReturn == \A s \in Applications : \E X : Around(X, s) /\ s \notin X

\* Nothing has since led the target of an open request back to its service.
StillOpenEnded ==
  \A r \in open : r.kind = "set reference" =>
    \E X : Around(X, r.target[1]) /\ r.key[1] \notin X

Directed == NoReturn /\ StillOpenEnded

LEMMA DirectedInit == Init => Directed
<1> SUFFICES ASSUME Init PROVE Directed
  OBVIOUS
<1>1. open = {} /\ \A s \in Services : Targets(s) = {}
  <2>1. NoTarget[1] \notin Services
    BY ReferencesAssumption DEF NoTarget
  <2> QED BY <2>1 DEF Init, Targets, Keys
<1>2. \A s \in Applications : Around({}, s)
  BY <1>1, Constants DEF Around
<1> QED BY <1>1, <1>2 DEF Directed, NoReturn, StillOpenEnded

\* Fewer references lead to fewer services.
LEMMA DirectedStays ==
  ASSUME Typed, Directed, \A s \in Services : Targets(s)' \subseteq Targets(s),
         \A r \in open' : r.kind = "set reference" =>
           r \in open \/ \E X : Around(X, r.target[1]) /\ r.key[1] \notin X,
         \A r \in open' : r.kind = "set reference" => r.target[1] \in Services
  PROVE  Directed'
<1>1. \A s \in Services : \A X : Around(X, s) => Around(X \cap Services, s)'
  BY DEF Around, Targets
<1>2. NoReturn'
  <2> SUFFICES ASSUME NEW s \in Applications PROVE \E X : Around(X, s)' /\ s \notin X
    BY DEF NoReturn
  <2>1. PICK X : Around(X, s) /\ s \notin X
    BY DEF Directed, NoReturn
  <2>2. Around(X \cap Services, s)' /\ s \notin X \cap Services
    BY <1>1, <2>1, Constants
  <2> QED BY <2>2
<1>3. StillOpenEnded'
  <2> SUFFICES ASSUME NEW r \in open', r.kind = "set reference"
               PROVE  \E X : Around(X, r.target[1])' /\ r.key[1] \notin X
    BY DEF StillOpenEnded
  <2>1. PICK X : Around(X, r.target[1]) /\ r.key[1] \notin X
    BY DEF Directed, StillOpenEnded
  <2> QED BY <1>1, <2>1
<1> QED BY <1>2, <1>3 DEF Directed

\* One more reference, to a service from which no chain leads to its own.
LEMMA DirectedGrows ==
  ASSUME Typed, Directed, NEW r \in open, SetReference(r), Apart, ReferencesAlone
  PROVE  Directed'
<1> DEFINE s == r.key[1]
           t == r.target[1]
<1>1. /\ r.key \in Keys /\ r.target \in Keys /\ t # s
      /\ reference' = [reference EXCEPT ![r.key] = r.target] /\ open' = open \ {r}
  BY DEF Typed, Fits, SetReference, Close
<1>2. reference \in [Keys -> Keys \cup {NoTarget}]
  BY TypedParts DEF Typed, RowsTyped
<1>3. \A u \in Services : Targets(u)' \subseteq IF u = s THEN Targets(u) \cup {t} ELSE Targets(u)
  BY <1>1, <1>2 DEF Targets, Keys
<1>4. PICK C : Around(C, t) /\ s \notin C
  BY DEF Directed, StillOpenEnded, SetReference
<1>5. NoReturn'
  <2> SUFFICES ASSUME NEW u \in Applications PROVE \E X : Around(X, u)' /\ u \notin X
    BY DEF NoReturn
  <2>1. PICK X : Around(X, u) /\ u \notin X
    BY DEF Directed, NoReturn
  <2> DEFINE D == {t} \cup C
  <2>2. CASE u \in D
    <3> DEFINE Y == X \cap C \cap Services
    <3>1. s \notin {u} \cup Y
      BY <1>1, <1>4, <2>2
    <3>2. Targets(u) \subseteq X \cap C /\ \A v \in Y : Targets(v) \subseteq X \cap C
      BY <1>4, <2>1, <2>2 DEF Around
    <3>3. Around(Y, u)'
      BY <1>3, <3>1, <3>2, Constants DEF Around, Targets
    <3> QED BY <2>1, <3>3
  <2>3. CASE u \notin D
    <3> DEFINE Y == (X \cup D) \cap Services
    <3>1. Targets(u) \subseteq X /\ \A v \in Y : Targets(v) \subseteq X \cup D
      BY <1>4, <2>1 DEF Around
    <3>2. Around(Y, u)'
      BY <1>3, <3>1, Constants DEF Around, Targets
    <3> QED BY <2>1, <2>3, <3>2
  <2> QED BY <2>2, <2>3
<1>6. \A q \in open' : q.kind # "set reference"
  <2> SUFFICES ASSUME NEW q \in open, q # r, q.kind = "set reference" PROVE FALSE
    BY <1>1
  <2>1. {q.kind, r.kind} = {"set reference"}
    BY DEF SetReference
  <2> QED BY <2>1 DEF Apart, ReferencesAlone
<1> QED BY <1>5, <1>6 DEF Directed, StillOpenEnded

\* One more reference, to a database, which refers to none.
LEMMA DirectedBinds ==
  ASSUME Typed, Directed, NEW d \in Databases, NEW k \in Keys, k[1] \in Applications,
         \A u \in Services : Targets(u)' \subseteq IF u = k[1] THEN Targets(u) \cup {d} ELSE Targets(u),
         Sinks', \A r \in open' : r.kind = "set reference" => r \in open
  PROVE  Directed'
<1> DEFINE With(X) == (X \cup {d}) \cap Services
<1>1. ASSUME NEW u \in Services, NEW X, Around(X, u) PROVE Around(With(X), u)'
  <2>1. d \in Services \ Applications
    BY Constants
  <2>2. Targets(d)' = {}
    BY <2>1 DEF Sinks
  <2>3. Targets(u) \subseteq X /\ \A v \in X : Targets(v) \subseteq X
    BY <1>1 DEF Around
  <2>4. Targets(u)' \subseteq With(X)
    BY <2>1, <2>3 DEF Targets
  <2>5. \A v \in With(X) : Targets(v)' \subseteq With(X)
    BY <2>1, <2>2, <2>3 DEF Targets
  <2> QED BY <2>4, <2>5 DEF Around
<1>2. NoReturn'
  <2> SUFFICES ASSUME NEW s \in Applications PROVE \E X : Around(X, s)' /\ s \notin X
    BY DEF NoReturn
  <2>1. PICK X : Around(X, s) /\ s \notin X
    BY DEF Directed, NoReturn
  <2>2. Around(With(X), s)'
    BY <1>1, <2>1, Constants
  <2>3. s \notin With(X)
    BY <2>1, Constants
  <2> QED BY <2>2, <2>3
<1>3. StillOpenEnded'
  <2> SUFFICES ASSUME NEW r \in open', r.kind = "set reference"
               PROVE  \E X : Around(X, r.target[1])' /\ r.key[1] \notin X
    BY DEF StillOpenEnded
  <2>1. r \in open /\ r.target[1] \in Services /\ r.key[1] \in Applications
    BY DEF Typed, Fits, Keys
  <2>2. PICK X : Around(X, r.target[1]) /\ r.key[1] \notin X
    BY <2>1 DEF Directed, StillOpenEnded
  <2>3. Around(With(X), r.target[1])'
    BY <1>1, <2>1, <2>2
  <2>4. r.key[1] \notin With(X)
    BY <2>1, <2>2, Constants
  <2> QED BY <2>3, <2>4
<1> QED BY <1>2, <1>3 DEF Directed

\* A check reads, and opens a request.
LEMMA CheckOpens == ASSUME Check PROVE \E r : Open(r)
BY Zenon DEF Check, CheckVariable, CheckDelete, CheckReference, CheckRename, CheckDatabase,
       CheckRotation, CheckBinding

LEMMA DirectedCheck == ASSUME Typed, Directed, Check PROVE Directed'
<1>1. UNCHANGED reference
  BY CheckOpens DEF Open, rows
<1>2. \A s \in Services : Targets(s)' = Targets(s)
  BY <1>1 DEF Targets
<1>3. \A r \in open' : r.kind = "set reference" =>
        \/ r \in open
        \/ r.target \in Keys /\ \E X : Around(X, r.target[1]) /\ r.key[1] \notin X
  <2>1. ASSUME NEW s \in Services, NEW n \in Names, NEW k \in Keys, CheckReference(s, n, k),
               NEW r \in open'
        PROVE  \/ r \in open
               \/ r.target \in Keys /\ \E X : Around(X, r.target[1]) /\ r.key[1] \notin X
    <3> DEFINE q == Request("set reference", <<s, n>>, k, Unbound, {})
    <3>1. open' = open \cup {q} /\ s \notin Reachable(k[1])
      BY <2>1 DEF CheckReference, Open, ClosesCycle
    <3>2. Around(Reachable(k[1]), k[1])
      BY ReachableCloses, SinksTyped DEF Around
    <3>3. q.key[1] = s /\ q.target = k
      BY DEF Request
    <3> QED BY <3>1, <3>2, <3>3
  <2>2. ASSUME NEW r, Open(r), r.kind # "set reference"
        PROVE  \A q \in open' : q.kind = "set reference" => q \in open
    BY <2>2 DEF Open
  <2>3. ASSUME NEW s \in Services, NEW n \in Names, CheckVariable(s, n) \/ CheckDelete(<<s, n>>)
        PROVE  \A q \in open' : q.kind = "set reference" => q \in open
    BY <2>2, <2>3 DEF CheckVariable, CheckDelete, Request
  <2>4. ASSUME NEW s \in Services, NEW n \in Names,
               \/ \E m \in Names : CheckRename(s, n, m)
               \/ \E d \in Databases : CheckDatabase(d, s, n)
        PROVE  \A q \in open' : q.kind = "set reference" => q \in open
    BY <2>2, <2>4 DEF CheckRename, CheckDatabase, Request
  <2>5. ASSUME NEW b \in Buckets,
               CheckRotation(b) \/ \E s \in Applications, p \in Prefixes : CheckBinding(b, s, p)
        PROVE  \A q \in open' : q.kind = "set reference" => q \in open
    BY <2>2, <2>5 DEF CheckRotation, CheckBinding, Request
  <2> QED BY <2>1, <2>3, <2>4, <2>5 DEF Check
<1>4. \A r \in open' : r.kind = "set reference" => r.target[1] \in Services
  BY <1>3 DEF Typed, Fits, Keys
<1> QED BY <1>2, <1>3, <1>4, DirectedStays

LEMMA DirectedWrite ==
  ASSUME Typed, Typed', Directed, Apart, ReferencesAlone, Write PROVE Directed'
<1>1. PICK r \in open :
        \/ SetVariable(r) \/ SetReference(r) \/ Rename(r) \/ DeleteVariable(r)
        \/ BindBucket(r) \/ RotateBucketCredentials(r) \/ BindDatabase(r) \/ Abandon(r)
  BY DEF Write
<1>2. /\ Fits(r)
      /\ reference \in [Keys -> Keys \cup {NoTarget}]
      /\ NoTarget[1] \notin Services /\ Keys = Services \X Names
  BY TypedParts, ReferencesAssumption DEF Typed, RowsTyped, NoTarget, Keys
<1>3. \A q \in open' : q.kind = "set reference" => q \in open
  <2>1. CASE Close(r)
    BY <2>1 DEF Close
  <2>2. ASSUME NEW next, Continue(r, next), r.kind = "bind database"
        PROVE  \A q \in open' : q.kind = "set reference" => q \in open
    <3>1. [r EXCEPT !.bucket = next].kind = "bind database"
      BY <1>2, <2>2 DEF Fits, RequestType
    <3> QED BY <2>2, <3>1 DEF Continue
  <2> QED BY <1>1, <2>1, <2>2 DEF SetVariable, SetReference, Rename, DeleteVariable, BindBucket,
                                 RotateBucketCredentials, BindDatabase, Abandon
<1>4. \A q \in open' : q.kind = "set reference" => q.target[1] \in Services
  BY <1>3 DEF Typed, Fits, Keys
<1>5. CASE \A u \in Services : Targets(u)' \subseteq Targets(u)
  BY <1>3, <1>4, <1>5, DirectedStays
<1>6. ASSUME r.key \in Keys, reference' = [reference EXCEPT ![r.key] = NoTarget]
      PROVE  \A u \in Services : Targets(u)' \subseteq Targets(u)
  BY <1>2, <1>6 DEF Targets
<1>7. CASE UNCHANGED reference
  BY <1>5, <1>7 DEF Targets
<1>8. CASE SetReference(r)
  BY <1>8, DirectedGrows
<1>9. CASE Rename(r)
  <2>1. /\ r.key \in Keys /\ r.target \in Keys /\ r.target[1] = r.key[1]
        /\ reference' = Follow(r.key, r.target)
    BY <1>2, <1>9 DEF Fits, Rename
  <2>2. \A i \in Keys : Moved(r.key, r.target)[i] =
          IF i = r.target /\ reference[r.key] # NoTarget THEN reference[r.key]
          ELSE IF i = r.key THEN NoTarget ELSE reference[i]
    BY DEF Moved
  <2>3. \A i \in Keys : reference'[i] = IF Moved(r.key, r.target)[i] = r.key THEN r.target
                                        ELSE Moved(r.key, r.target)[i]
    BY <2>1 DEF Follow
  <2>4. \A i \in Keys : reference'[i][1] = Moved(r.key, r.target)[i][1]
    BY <2>1, <2>3
  <2>5. ASSUME NEW u \in Services, NEW n \in Names, Moved(r.key, r.target)[u, n][1] \in Services
        PROVE  \E m \in Names : Moved(r.key, r.target)[u, n] = reference[u, m]
    <3>1. <<u, n>> \in Keys /\ r.key = <<r.key[1], r.key[2]>> /\ r.key[2] \in Names
      BY <1>2, <2>1
    <3>2. CASE <<u, n>> = r.target /\ reference[r.key] # NoTarget
      <4>1. u = r.key[1]
        BY <2>1, <3>2
      <4> QED BY <2>2, <3>1, <3>2, <4>1
    <3>3. CASE ~(<<u, n>> = r.target /\ reference[r.key] # NoTarget)
      BY <1>2, <2>2, <2>5, <3>1, <3>3
    <3> QED BY <3>2, <3>3
  <2>6. \A u \in Services : Targets(u)' \subseteq Targets(u)
    BY <1>2, <2>4, <2>5 DEF Targets
  <2> QED BY <1>5, <2>6
<1>10. CASE BindDatabase(r)
  <2>1. r.key \in Keys /\ r.key[1] \in Applications /\ r.target \in Keys /\ r.target[1] \in Databases
    BY <1>2, <1>10 DEF Fits, BindDatabase
  <2>2. CASE reference' = [reference EXCEPT ![r.key] = r.target]
    <3>1. \A u \in Services : Targets(u)' \subseteq
            IF u = r.key[1] THEN Targets(u) \cup {r.target[1]} ELSE Targets(u)
      BY <1>2, <2>1, <2>2 DEF Targets
    <3>2. Sinks'
      BY SinksNext
    <3> QED BY <1>3, <2>1, <3>1, <3>2, DirectedBinds
  <2> QED BY <1>5, <1>6, <1>7, <1>10, <2>1, <2>2 DEF BindDatabase, StoreVariable
<1>11. CASE SetVariable(r) \/ DeleteVariable(r)
  <2>1. r.key \in Keys
    BY <1>2, <1>11 DEF Fits, SetVariable, DeleteVariable
  <2> QED BY <1>5, <1>6, <1>11, <2>1 DEF SetVariable, StoreVariable, DeleteVariable
<1> QED BY <1>1, <1>7, <1>8, <1>9, <1>10, <1>11 DEF BindBucket, RotateBucketCredentials, Abandon, rows

LEMMA DirectedNext ==
  ASSUME Typed, Typed', Directed, Apart, ReferencesAlone, [Next]_vars PROVE Directed'
<1>1. CASE UNCHANGED <<reference, open>>
  <2>1. \A s \in Services : Targets(s)' = Targets(s)
    BY <1>1 DEF Targets
  <2>2. \A r \in open' : r.kind = "set reference" => r \in open /\ r.target[1] \in Services
    BY <1>1 DEF Typed, Fits, Keys
  <2> QED BY <2>1, <2>2, DirectedStays
<1> QED BY <1>1, DirectedCheck, DirectedWrite DEF Next, vars, rows, CreateBucket, UnbindBucket

LEMMA DirectedAcyclic == ASSUME Directed PROVE ReferencesAcyclic
<1> SUFFICES ASSUME NEW s \in Applications PROVE s \notin Reachable(s)
  BY DEF ReferencesAcyclic
<1>1. PICK X : Around(X, s) /\ s \notin X
  BY DEF Directed, NoReturn
<1> QED BY <1>1, ReachableWithin DEF Around

\* SetReference looks for a cycle before it writes.  When one reference is set at a
\* time, no chain of references ever returns to the service it starts from,
\* whatever else is renamed, deleted or bound in between.
THEOREM ReferencesAcyclicAlways ==
  ASSUME ReferencesAlone
  PROVE  Spec => []ReferencesAcyclic
<1>1. Init => Apart
  BY DEF Init, Apart
<1>2. Typed /\ Apart /\ [Next]_vars => Apart'
  BY ApartNext
<1>3. Typed /\ Typed' /\ Directed /\ Apart /\ [Next]_vars => Directed'
  BY DirectedNext
<1>4. Directed => ReferencesAcyclic
  BY DirectedAcyclic
<1> QED BY <1>1, <1>2, <1>3, <1>4, DirectedInit, TypedAlways, PTL DEF Spec

--------------------------------------------------------------------------------
(* What references lead to is there, when requests that would take it away do *)
(* not overlap with those that rest on it.                                    *)

TargetsHeld ==
  /\ {"set reference", "rename"} \in Serial /\ {"set reference", "delete"} \in Serial
  /\ {"rename", "delete"} \in Serial /\ {"delete", "bind database"} \in Serial

\* A variable that is there, or one that a bucket's disconnection may have taken.
Alive(k) == Has(k) \/ k[2] \in Prefixes

Referring == {"set reference", "bind database"}

\* What a request's check found out, as its write will rely on it.
Relies(r) ==
  /\ r.kind \in Referring => Alive(r.target)
  /\ r.kind = "delete" => ~Referenced(r.key)

Led ==
  /\ \A k \in Keys : reference[k] # NoTarget => Alive(reference[k])
  /\ \A r \in open : Relies(r)

LEMMA LedInit == Init => Led
BY DEF Init, Led

\* q goes on where r is.
Continues(q, r) == q.kind = r.kind /\ q.key = r.key /\ q.target = r.target

LEMMA ClosesOrContinues ==
  ASSUME Typed, NEW r \in open, Close(r) \/ \E next \in Statements : Continue(r, next)
  PROVE  \A q \in open' : q \in open \ {r} \/ Continues(q, r)
<1>1. \A next \in Statements : Continues([r EXCEPT !.bucket = next], r)
  BY DEF Typed, Fits, RequestType, Continues
<1> QED BY <1>1 DEF Close, Continue

LEMMA WriteCloses ==
  ASSUME Typed, NEW r \in open,
         \/ SetVariable(r) \/ SetReference(r) \/ Rename(r) \/ DeleteVariable(r)
         \/ BindBucket(r) \/ RotateBucketCredentials(r) \/ BindDatabase(r) \/ Abandon(r)
  PROVE  \A q \in open' : q \in open \ {r} \/ Continues(q, r)
<1>1. Close(r) \/ \E next \in Statements : Continue(r, next)
  BY DEF SetVariable, SetReference, Rename, DeleteVariable, BindBucket,
         RotateBucketCredentials, BindDatabase, Abandon, Statements
<1> QED BY <1>1, ClosesOrContinues

\* Steps that take no variable and no reference to one away, and add no reference.
LEMMA LedStays ==
  ASSUME Typed, Typed', Led, \A k \in Keys : Alive(k) => Alive(k)',
         \A k \in Keys : reference'[k] \in {reference[k], NoTarget},
         \A q \in open' : Relies(q) \/ \E r \in open : Continues(q, r)
  PROVE  Led'
<1>1. reference \in [Keys -> Keys \cup {NoTarget}] /\ NoTarget \notin Keys
  BY TypedParts, Constants DEF Typed, RowsTyped
<1>2. \A k \in Keys : reference'[k] # NoTarget => Alive(reference[k])' /\ reference'[k] = reference[k]
  BY <1>1 DEF Led
<1>3. \A k \in Keys : Referenced(k)' => Referenced(k)
  BY <1>1 DEF Referenced
<1>4. ASSUME NEW q \in open' PROVE Relies(q)'
  <2>1. Relies(q)
    BY DEF Led, Relies, Continues
  <2>2. q.kind \in Referring => q.target \in Keys
    BY DEF Typed, Fits, Referring
  <2>3. q.kind = "delete" => q.key \in Keys
    BY DEF Typed, Fits
  <2> QED BY <1>3, <2>1, <2>2, <2>3 DEF Relies
<1> QED BY <1>2, <1>4 DEF Led, Alive, Has

\* One more reference, to a variable that is there.
LEMMA LedAdds ==
  ASSUME Typed, Typed', Led, NEW r \in open, r.kind \in Referring, r.key \in Keys,
         r.target \in Keys, Apart, TargetsHeld, \A k \in Keys : Has(k) => Has(k)',
         reference' = [reference EXCEPT ![r.key] = r.target],
         \A q \in open' : q \in open \ {r} \/ Continues(q, r)
  PROVE  Led'
<1>1. reference \in [Keys -> Keys \cup {NoTarget}] /\ NoTarget \notin Keys
  BY TypedParts, Constants DEF Typed, RowsTyped
<1>2. \A k \in Keys : Alive(k) => Alive(k)'
  BY DEF Alive
<1>3. \A k \in Keys : reference'[k] # NoTarget => Alive(reference[k])'
  <2>1. \A k \in Keys : reference'[k] # NoTarget => reference'[k] \in Keys /\ Alive(reference'[k])
    BY <1>1 DEF Led, Relies
  <2> QED BY <1>2, <2>1 DEF Alive, Has
<1>4. \A q \in open' : q.kind # "delete"
  <2>1. {"delete", r.kind} \in Serial
    BY DEF Referring, TargetsHeld
  <2> QED BY <2>1 DEF Apart, Continues, Referring
<1>5. \A q \in open' : q.kind \in Referring => Alive(q.target)'
  <2>1. \A q \in open' : q.kind \in Referring => q.target \in Keys /\ Alive(q.target)
    BY DEF Led, Relies, Continues, Typed, Fits, Referring
  <2> QED BY <1>2, <2>1
<1> QED BY <1>2, <1>3, <1>4, <1>5 DEF Led, Relies, Alive, Has

LEMMA RowThere ==
  ASSUME NEW kind \in {"none", "secret", "reference"}, NEW from, NEW v,
         kind # "none" \/ from # "nobody"
  PROVE  Row(kind, from, v) # NoRow
BY DEF Row, NoRow

LEMMA CredentialsAlive ==
  ASSUME Typed, NEW b \in Buckets, NEW v \in 0..Rotations, NEW ks \in SUBSET Keys,
         variable' = Credentials(b, v, ks)
  PROVE  \A k \in Keys : Has(k) => Has(k)'
<1>1. b # "nobody"
  BY ReferencesAssumption
<1>2. \A k \in ks : variable'[k].from = b
  BY TypedParts, CredentialsTyped DEF Typed
<1>3. \A k \in Keys \ ks : variable'[k] = variable[k]
  BY TypedParts, CredentialsTyped DEF Typed
<1>4. NoRow.from = "nobody"
  BY DEF NoRow, Row
<1> QED BY <1>1, <1>2, <1>3, <1>4 DEF Has

LEMMA LedRename ==
  ASSUME Typed, Typed', Led, Apart, TargetsHeld, NEW r \in open, Rename(r)
  PROVE  Led'
<1>1. /\ r.key \in Keys /\ r.target \in Keys /\ r.target # r.key /\ r.key[1] \in Applications
      /\ r.target[1] = r.key[1]
      /\ reference \in [Keys -> Keys \cup {NoTarget}] /\ variable \in [Keys -> RowType]
      /\ NoTarget \notin Keys /\ Close(r)
  BY TypedParts, Constants DEF Typed, RowsTyped, Fits, Rename
<1>2. Has(r.target)' /\ \A k \in Keys \ {r.key} : Alive(k) => Alive(k)'
  BY <1>1 DEF Rename, Has, Alive
<1>3. \A i \in Keys : Moved(r.key, r.target)[i] # NoTarget =>
         Moved(r.key, r.target)[i] \in Keys /\ Alive(Moved(r.key, r.target)[i])
  BY <1>1 DEF Moved, Led
<1>4. \A i \in Keys : reference'[i] = IF Moved(r.key, r.target)[i] = r.key THEN r.target
                                      ELSE Moved(r.key, r.target)[i]
  BY DEF Rename, Follow
<1>5. \A i \in Keys : reference'[i] # NoTarget => Alive(reference[i])'
  BY <1>1, <1>2, <1>3, <1>4 DEF Alive, Has
<1>6. \A q \in open' : q \in open /\ q.kind \notin {"set reference", "delete"}
  BY <1>1 DEF Close, Apart, TargetsHeld, Rename
<1>7. \A q \in open' : q.kind \in Referring => Alive(q.target)'
  <2> SUFFICES ASSUME NEW q \in open', q.kind \in Referring PROVE Alive(q.target)'
    OBVIOUS
  <2>1. q.kind = "bind database" /\ q \in open
    BY <1>6 DEF Referring
  <2>2. q.target \in Keys /\ q.target[1] \in Databases /\ Alive(q.target)
    BY <2>1 DEF Typed, Fits, Led, Relies, Referring
  <2> QED BY <1>1, <1>2, <2>2, Constants
<1> QED BY <1>5, <1>6, <1>7 DEF Led, Relies, Alive, Has

LEMMA LedDelete ==
  ASSUME Typed, Typed', Led, Apart, TargetsHeld, NEW r \in open, DeleteVariable(r)
  PROVE  Led'
<1>1. /\ r.key \in Keys /\ ~Referenced(r.key) /\ Close(r)
      /\ reference \in [Keys -> Keys \cup {NoTarget}] /\ variable \in [Keys -> RowType]
      /\ NoTarget \notin Keys
  BY TypedParts, Constants DEF Typed, RowsTyped, Fits, DeleteVariable, Led, Relies
<1>2. \A k \in Keys \ {r.key} : Alive(k) => Alive(k)'
  BY <1>1 DEF DeleteVariable, Has, Alive
<1>3. \A i \in Keys : reference'[i] \in {reference[i], NoTarget}
  BY <1>1 DEF DeleteVariable
<1>4. \A i \in Keys : reference'[i] # NoTarget => Alive(reference[i])'
  <2> SUFFICES ASSUME NEW i \in Keys, reference'[i] # NoTarget PROVE Alive(reference[i])'
    OBVIOUS
  <2>1. reference'[i] = reference[i] /\ reference[i] # r.key /\ Alive(reference[i]) /\ reference[i] \in Keys
    BY <1>1, <1>3 DEF Referenced, Led
  <2> QED BY <1>2, <2>1 DEF Alive, Has
<1>5. \A q \in open' : q \in open /\ q.kind \notin Referring
  BY <1>1 DEF Close, Apart, TargetsHeld, DeleteVariable, Referring
<1>6. \A k \in Keys : Referenced(k)' => Referenced(k)
  BY <1>1, <1>3 DEF Referenced
<1>7. \A q \in open' : q.kind = "delete" => q.key \in Keys /\ ~Referenced(q.key)
  BY <1>5 DEF Led, Relies, Typed, Fits
<1> QED BY <1>1, <1>4, <1>5, <1>6, <1>7 DEF Led, Relies, Alive, Has

\* A request that opens has found what it relies on.
LEMMA ChecksRely ==
  ASSUME Check, Led
  PROVE  UNCHANGED rows /\ \A q \in open' : Relies(q)
<1>1. ASSUME NEW q, Open(q), Relies(q) PROVE UNCHANGED rows /\ \A p \in open' : Relies(p)
  BY <1>1 DEF Open, Led
<1>2. ASSUME NEW q, Open(q), q.kind \notin Referring \cup {"delete"}
      PROVE  UNCHANGED rows /\ \A p \in open' : Relies(p)
  BY <1>1, <1>2 DEF Relies
<1>3. ASSUME NEW s \in Services, NEW n \in Names, CheckDelete(<<s, n>>)
      PROVE  UNCHANGED rows /\ \A p \in open' : Relies(p)
  <2>1. Relies(Request("delete", <<s, n>>, NoTarget, Unbound, {}))
    BY <1>3 DEF CheckDelete, Relies, Request, Referring
  <2> QED BY <1>1, <1>3, <2>1 DEF CheckDelete
<1>4. ASSUME NEW s \in Services, NEW n \in Names, NEW k \in Keys, CheckReference(s, n, k)
      PROVE  UNCHANGED rows /\ \A p \in open' : Relies(p)
  <2>1. Relies(Request("set reference", <<s, n>>, k, Unbound, {}))
    BY <1>4 DEF CheckReference, Relies, Request, Referring, Alive
  <2> QED BY <1>1, <1>4, <2>1 DEF CheckReference
<1>5. ASSUME NEW s \in Services, NEW n \in Names, NEW d \in Databases, CheckDatabase(d, s, n)
      PROVE  UNCHANGED rows /\ \A p \in open' : Relies(p)
  <2>1. Relies(Request("bind database", <<s, n>>, <<d, Connection>>, "set", {}))
    BY <1>5 DEF CheckDatabase, Relies, Request, Referring, Alive
  <2> QED BY <1>1, <1>5, <2>1 DEF CheckDatabase
<1>6. ASSUME NEW s \in Services, NEW n \in Names,
             CheckVariable(s, n) \/ \E m \in Names : CheckRename(s, n, m)
      PROVE  UNCHANGED rows /\ \A p \in open' : Relies(p)
  BY <1>2, <1>6 DEF CheckVariable, CheckRename, Request, Referring
<1>7. ASSUME NEW b \in Buckets,
             CheckRotation(b) \/ \E s \in Applications, p \in Prefixes : CheckBinding(b, s, p)
      PROVE  UNCHANGED rows /\ \A p \in open' : Relies(p)
  BY <1>2, <1>7 DEF CheckRotation, CheckBinding, Request, Referring
<1> QED BY <1>3, <1>4, <1>5, <1>6, <1>7 DEF Check

LEMMA LedCheck == ASSUME Typed, Typed', Led, Check PROVE Led'
<1>1. UNCHANGED rows /\ \A q \in open' : Relies(q)
  BY ChecksRely
<1>2. \A k \in Keys : Alive(k) => Alive(k)'
  BY <1>1 DEF rows, Alive, Has
<1> QED BY <1>1, <1>2, LedStays DEF rows

LEMMA LedStore ==
  ASSUME Typed, NEW k \in Keys, NEW from, StoreVariable(k, from)
  PROVE  /\ \A j \in Keys : Alive(j) => Alive(j)'
         /\ \A j \in Keys : reference'[j] \in {reference[j], NoTarget}
<1>1. reference \in [Keys -> Keys \cup {NoTarget}] /\ variable \in [Keys -> RowType]
  BY TypedParts DEF Typed, RowsTyped
<1>2. Row("secret", from, 0) # NoRow
  BY RowThere
<1> QED BY <1>1, <1>2 DEF StoreVariable, Alive, Has

LEMMA LedWrite == ASSUME Typed, Typed', Led, Apart, TargetsHeld, Write PROVE Led'
<1>1. PICK r \in open :
        \/ SetVariable(r) \/ SetReference(r) \/ Rename(r) \/ DeleteVariable(r)
        \/ BindBucket(r) \/ RotateBucketCredentials(r) \/ BindDatabase(r) \/ Abandon(r)
  BY DEF Write
<1>2. \A q \in open' : q \in open \ {r} \/ Continues(q, r)
  BY <1>1, WriteCloses
<1>3. /\ Fits(r)
      /\ reference \in [Keys -> Keys \cup {NoTarget}] /\ variable \in [Keys -> RowType]
  BY TypedParts DEF Typed, RowsTyped
<1>4. CASE /\ \A k \in Keys : Alive(k) => Alive(k)'
           /\ \A k \in Keys : reference'[k] \in {reference[k], NoTarget}
  <2>1. \A q \in open' : Relies(q) \/ \E p \in open : Continues(q, p)
    BY <1>2 DEF Continues
  <2> QED BY <1>4, <2>1, LedStays
<1>5. CASE SetVariable(r)
  <2>1. r.key \in Keys
    BY <1>3, <1>5 DEF Fits, SetVariable
  <2> QED BY <1>4, <1>5, <2>1, LedStore DEF SetVariable
<1>6. CASE SetReference(r)
  <2>1. r.key \in Keys /\ r.kind \in Referring /\ r.target \in Keys
    BY <1>3, <1>6 DEF Fits, SetReference, Referring
  <2>2. \A k \in Keys : Has(k) => Has(k)'
    <3>1. Row("reference", "placeholder", 0) # NoRow
      BY RowThere
    <3> QED BY <1>3, <1>6, <2>1, <3>1 DEF SetReference, Has
  <2> QED BY <1>2, <1>6, <2>1, <2>2, LedAdds DEF SetReference
<1>7. CASE BindDatabase(r)
  <2>1. r.key \in Keys /\ r.target \in Keys /\ r.kind \in Referring
    BY <1>3, <1>7 DEF Fits, BindDatabase, Referring
  <2>2. CASE StoreVariable(r.key, r.target[1])
    BY <1>4, <2>1, <2>2, LedStore
  <2>3. CASE reference' = [reference EXCEPT ![r.key] = r.target] /\ UNCHANGED variable
    <3>1. \A k \in Keys : Has(k) => Has(k)'
      BY <2>3 DEF Has
    <3> QED BY <1>2, <2>1, <2>3, <3>1, LedAdds
  <2>4. CASE /\ variable' = IF Has(r.key) THEN [variable EXCEPT ![r.key].kind = "reference"] ELSE variable
             /\ UNCHANGED reference
    <3>1. \A k \in Keys : Has(k) => Has(k)'
      <4>1. NoRow.kind = "none"
        BY DEF NoRow, Row
      <4> QED BY <1>3, <2>1, <2>4, <4>1 DEF Has, RowType
    <3>2. \A k \in Keys : Alive(k) => Alive(k)'
      BY <3>1 DEF Alive
    <3> QED BY <1>4, <2>4, <3>2
  <2> QED BY <1>7, <2>2, <2>3, <2>4 DEF BindDatabase
<1>8. CASE BindBucket(r) \/ RotateBucketCredentials(r)
  <2>1. \A k \in Keys : Has(k) => Has(k)'
    <3>1. CASE BindBucket(r)
      <4>1. /\ r.key \in Keys /\ r.bucket \in Buckets
            /\ variable' = Credentials(r.bucket, version[r.bucket], {r.key})
        BY <1>3, <3>1 DEF Fits, BindBucket, Locking
      <4>2. version[r.bucket] \in 0..Rotations /\ {r.key} \in SUBSET Keys
        BY <4>1, TypedParts DEF Typed, BindingsTyped
      <4> QED BY <4>1, <4>2, CredentialsAlive
    <3>2. CASE RotateBucketCredentials(r)
      <4>1. r.kind = "rotate" /\ r.kind \in Locking
        BY <3>2 DEF RotateBucketCredentials, Locking
      <4>2. /\ r.bucket \in Buckets /\ r.read \in SUBSET (Applications \X Prefixes)
            /\ version[r.bucket] < Rotations
            /\ variable' = Credentials(r.bucket, version[r.bucket] + 1, r.read)
        BY <1>3, <3>2, <4>1 DEF Fits, RequestType, RotateBucketCredentials
      <4>3. version[r.bucket] \in 0..Rotations /\ Rotations \in Nat
        BY <4>2, TypedParts, Constants DEF Typed, BindingsTyped
      <4>4. version[r.bucket] + 1 \in 0..Rotations
        BY <4>2, <4>3
      <4>5. r.read \in SUBSET Keys
        BY <4>2, Constants DEF Keys
      <4> QED BY <4>2, <4>4, <4>5, CredentialsAlive
    <3> QED BY <1>8, <3>1, <3>2
  <2>2. \A k \in Keys : Alive(k) => Alive(k)'
    BY <2>1 DEF Alive
  <2> QED BY <1>4, <1>8, <2>2 DEF BindBucket, RotateBucketCredentials
<1>9. CASE Abandon(r)
  <2>1. \A k \in Keys : Alive(k) => Alive(k)'
    BY <1>9 DEF Abandon, rows, Alive, Has
  <2> QED BY <1>4, <1>9, <2>1 DEF Abandon, rows
<1> QED BY <1>1, <1>5, <1>6, <1>7, <1>8, <1>9, LedRename, LedDelete

LEMMA LedNext ==
  ASSUME Typed, Typed', Led, Apart, TargetsHeld, [Next]_vars PROVE Led'
<1>1. CASE /\ \A k \in Keys : Alive(k) => Alive(k)'
           /\ UNCHANGED <<reference, open>>
  <2>1. \A q \in open' : Relies(q)
    BY <1>1 DEF Led
  <2> QED BY <1>1, <2>1, LedStays
<1>2. CASE UNCHANGED vars \/ \E b \in Buckets : CreateBucket(b)
  <2>1. \A k \in Keys : Alive(k) => Alive(k)'
    BY <1>2 DEF vars, rows, CreateBucket, Alive, Has
  <2> QED BY <1>1, <1>2, <2>1 DEF vars, rows, CreateBucket
<1>3. ASSUME NEW b \in Buckets, NEW s \in Applications, UnbindBucket(b, s) PROVE Led'
  <2>1. binding[b, s] \in Prefixes /\ variable \in [Keys -> RowType]
    BY <1>3, TypedParts DEF Typed, RowsTyped, BindingsTyped, UnbindBucket
  <2>2. \A k \in Keys : k = <<s, binding[b, s]>> \/ variable'[k] = variable[k]
    BY <1>3, <2>1 DEF UnbindBucket
  <2>3. \A k \in Keys : k[2] \in Prefixes \/ variable'[k] = variable[k]
    <3>1. <<s, binding[b, s]>>[2] \in Prefixes
      BY <2>1
    <3> QED BY <2>2, <3>1
  <2>4. \A k \in Keys : Alive(k) => Alive(k)'
    BY <2>3 DEF Alive, Has
  <2> QED BY <1>1, <1>3, <2>4 DEF UnbindBucket
<1> QED BY <1>2, <1>3, LedCheck, LedWrite DEF Next

--------------------------------------------------------------------------------
(* What Resolved computes.                                                    *)

\* The values when those after one more reference are known.
Step(values) ==
  [k \in Keys |-> Given(k, IF reference[k] = NoTarget THEN Missing ELSE values[reference[k]])]

Alone == [k \in Keys |-> Given(k, Missing)]

\* w computes the values after up to n references.
Computes(w, n) ==
  w = [i \in 0..n |->
        [k \in Keys |-> Given(k, IF i = 0 \/ reference[k] = NoTarget THEN Missing
                                 ELSE w[i - 1][reference[k]])]]

LEMMA ComputesSteps ==
  ASSUME NEW w, NEW n \in Nat
  PROVE  Computes(w, n) <=> w = [i \in 0..n |-> IF i = 0 THEN Alone ELSE Step(w[i - 1])]
<1>1. ASSUME NEW i \in 0..n
      PROVE  (IF i = 0 THEN Alone ELSE Step(w[i - 1])) =
               [k \in Keys |-> Given(k, IF i = 0 \/ reference[k] = NoTarget THEN Missing
                                        ELSE w[i - 1][reference[k]])]
  <2>1. CASE i = 0
    BY <2>1 DEF Alone
  <2>2. CASE i # 0
    BY <2>2 DEF Step
  <2> QED BY <2>1, <2>2
<1> QED BY <1>1, Zenon DEF Computes

Depth == Cardinality(Services)

LEMMA ComputationExists ==
  ASSUME NEW n \in Nat
  PROVE  \E w : Computes(w, n)
<1> DEFINE T == {m \in 0..n : ~ \E w : Computes(w, m)}
<1>1. 0 \notin T
  <2> DEFINE w == [i \in 0..0 |-> Alone]
  <2>1. w = [i \in 0..0 |-> IF i = 0 THEN Alone ELSE Step(w[i - 1])]
    OBVIOUS
  <2> HIDE DEF w
  <2>2. Computes(w, 0)
    BY <2>1, ComputesSteps
  <2> QED BY <2>2
<1>2. ASSUME NEW m \in 1..n, m - 1 \notin T PROVE m \notin T
  <2>1. PICK w : Computes(w, m - 1)
    BY <1>2
  <2> DEFINE u == [i \in 0..m |-> IF i = m THEN Step(w[m - 1]) ELSE w[i]]
  <2>2. u = [i \in 0..m |-> IF i = 0 THEN Alone ELSE Step(u[i - 1])]
    <3>1. \A i \in 0..(m - 1) : w[i] = IF i = 0 THEN Alone ELSE Step(w[i - 1])
      BY <2>1, ComputesSteps
    <3>2. \A i \in 0..m : u[i] = IF i = 0 THEN Alone ELSE Step(u[i - 1])
      BY <3>1
    <3> QED BY <3>2
  <2>3. Computes(u, m)
    BY <2>2, ComputesSteps
  <2> QED BY <2>3
<1>3. T = {}
  BY <1>1, <1>2, NoneFails
<1> QED BY <1>3

LEMMA ResolvedComputed ==
  \E w : Computes(w, Depth) /\ \A k : Resolved(k) = w[Depth][k]
<1> DEFINE w == CHOOSE w : Computes(w, Depth)
<1>1. Computes(w, Depth)
  BY ComputationExists, Finite DEF Depth
<1>2. \A k : Resolved(k) = w[Depth][k]
  BY DEF Resolved, Computes, Depth
<1> QED BY <1>1, <1>2

LEMMA FirstAndNext ==
  ASSUME NEW w, Computes(w, Depth)
  PROVE  w[0] = Alone /\ \A i \in 1..Depth : w[i] = Step(w[i - 1])
BY ComputesSteps, Finite DEF Depth

--------------------------------------------------------------------------------
(* Every variable has a value.                                                *)

\* The services whose references the value of k may rest on.
Rests(k) == {k[1]} \cup Reachable(k[1])

Disconnected(k) == \E s \in Rests(k), n \in Names : reference[s, n][2] \in Prefixes

\* What k leads to rests on fewer services than k.
LEMMA RestsShrink ==
  ASSUME Typed, ReferencesAcyclic, NEW k \in Keys, reference[k] # NoTarget
  PROVE  /\ reference[k] \in Keys
         /\ Rests(reference[k]) \subseteq Reachable(k[1]) /\ k[1] \notin Reachable(k[1])
         /\ IsFiniteSet(Rests(k)) /\ Rests(k) \subseteq Services
<1>1. /\ reference[k] \in Keys /\ reference[k][1] \in Services
      /\ k[1] \in Applications /\ k[1] \in Services /\ k[2] \in Names /\ k = <<k[1], k[2]>>
  BY TypedParts, Constants DEF Typed, RowsTyped, Keys
<1>2. /\ Targets(k[1]) \subseteq Reachable(k[1]) /\ Reachable(k[1]) \subseteq Services
      /\ \A t \in Reachable(k[1]) : Targets(t) \subseteq Reachable(k[1])
  BY ReachableCloses, SinksTyped
<1>3. reference[k][1] \in Targets(k[1])
  BY <1>1 DEF Targets
<1>4. Reachable(reference[k][1]) \subseteq Reachable(k[1])
  BY <1>2, <1>3, ReachableWithin
<1>5. Rests(k) \in SUBSET Services /\ IsFiniteSet(Services)
  BY <1>1, <1>2, Finite DEF Rests
<1>6. IsFiniteSet(Rests(k))
  BY <1>5, FS_Subset, Zenon
<1> QED BY <1>1, <1>2, <1>3, <1>4, <1>5, <1>6 DEF Rests, ReferencesAcyclic

\* A variable that i references do not give a value rests on more than i services.
LEMMA MissingLeadsOn ==
  ASSUME Typed, Led, ReferencesAcyclic, NEW w, Computes(w, Depth), NEW i \in 0..Depth,
         NEW k \in Keys, Has(k), w[i][k] = Missing, ~Disconnected(k)
  PROVE  Cardinality(Rests(k)) > i
<1> DEFINE Bad(n) == \E j \in Keys : /\ Has(j) /\ w[n][j] = Missing /\ ~Disconnected(j)
                                     /\ ~(Cardinality(Rests(j)) > n)
           T == {n \in 0..Depth : Bad(n)}
<1>1. \A j \in Keys : \A v : Has(j) /\ Given(j, v) = Missing => v = Missing /\ reference[j] # NoTarget
  <2> SUFFICES ASSUME NEW j \in Keys, NEW v, Has(j), Given(j, v) = Missing
               PROVE  v = Missing /\ reference[j] # NoTarget
    OBVIOUS
  <2>1. Row("secret", variable[j].from, variable[j].version) # Missing
    BY DEF Row, Missing
  <2>2. Row("secret", variable[j].from, variable[j].version).from = variable[j].from
    BY DEF Row
  <2>3. v = Missing /\ variable[j].from = "placeholder"
    BY <2>1, <2>2 DEF Given
  <2> QED BY <2>3, TypedParts DEF Typed, RowsTyped
<1>2. Depth \in Nat /\ Missing = NoRow
  BY Finite DEF Depth, Missing, NoRow
<1>3. ASSUME NEW j \in Keys, Has(j), reference[j] # NoTarget, ~Disconnected(j)
      PROVE  LET t == reference[j]
             IN  /\ t \in Keys /\ Has(t) /\ ~Disconnected(t)
                 /\ Cardinality(Rests(t)) \in Nat /\ Cardinality(Rests(j)) \in Nat
                 /\ Cardinality(Rests(j)) > Cardinality(Rests(t))
                 /\ Cardinality(Rests(t)) > 0
  <2> DEFINE t == reference[j]
  <2>1. /\ t \in Keys /\ Rests(t) \subseteq Reachable(j[1]) /\ j[1] \notin Reachable(j[1])
        /\ IsFiniteSet(Rests(j))
    BY <1>3, RestsShrink
  <2>2. t[2] \notin Prefixes
    <3>1. j = <<j[1], j[2]>> /\ j[2] \in Names /\ j[1] \in Rests(j)
      BY DEF Keys, Rests
    <3> QED BY <1>3, <3>1 DEF Disconnected
  <2>3. Has(t)
    BY <1>3, <2>2 DEF Led, Alive
  <2>4. Rests(t) \in SUBSET Rests(j) /\ Rests(t) # Rests(j) /\ j[1] \in Rests(j) /\ t[1] \in Rests(t)
    BY <2>1 DEF Rests
  <2>5. ~Disconnected(t)
    BY <1>3, <2>4 DEF Disconnected
  <2>6. /\ IsFiniteSet(Rests(t)) /\ Cardinality(Rests(t)) <= Cardinality(Rests(j))
        /\ Cardinality(Rests(t)) # Cardinality(Rests(j))
    BY <2>1, <2>4, FS_Subset
  <2>7. Cardinality(Rests(t)) \in Nat /\ Cardinality(Rests(j)) \in Nat /\ Cardinality(Rests(t)) # 0
    BY <2>1, <2>4, <2>6, FS_CardinalityType, FS_EmptySet
  <2> QED BY <2>1, <2>3, <2>5, <2>6, <2>7
<1>4. 0 \notin T
  <2> SUFFICES ASSUME NEW j \in Keys, Has(j), w[0][j] = Missing, ~Disconnected(j)
               PROVE  Cardinality(Rests(j)) > 0
    OBVIOUS
  <2>1. w[0][j] = Given(j, Missing)
    BY FirstAndNext DEF Alone
  <2>2. reference[j] # NoTarget
    BY <1>1, <2>1
  <2> QED BY <1>3, <2>2
<1>5. ASSUME NEW n \in 1..Depth, n - 1 \notin T PROVE n \notin T
  <2> SUFFICES ASSUME NEW j \in Keys, Has(j), w[n][j] = Missing, ~Disconnected(j)
               PROVE  Cardinality(Rests(j)) > n
    OBVIOUS
  <2>1. w[n][j] = Given(j, IF reference[j] = NoTarget THEN Missing ELSE w[n - 1][reference[j]])
    <3>1. w[n] = Step(w[n - 1])
      BY FirstAndNext
    <3> QED BY <3>1 DEF Step
  <2>2. reference[j] # NoTarget /\ w[n - 1][reference[j]] = Missing
    BY <1>1, <2>1
  <2>3. /\ reference[j] \in Keys /\ Has(reference[j]) /\ ~Disconnected(reference[j])
        /\ Cardinality(Rests(reference[j])) \in Nat /\ Cardinality(Rests(j)) \in Nat
        /\ Cardinality(Rests(j)) > Cardinality(Rests(reference[j]))
    BY <1>3, <2>2
  <2>4. Cardinality(Rests(reference[j])) > n - 1
    BY <1>2, <1>5, <2>2, <2>3
  <2> QED BY <2>3, <2>4
<1>6. T = {}
  <2> HIDE DEF T
  <2>1. T \in SUBSET (0..Depth)
    BY DEF T
  <2> QED BY <1>2, <1>4, <1>5, <2>1, NoneFails
<1> QED BY <1>6

LEMMA LedResolves ==
  ASSUME Typed, Led, ReferencesAcyclic
  PROVE  EnvironmentsResolve
<1> SUFFICES ASSUME NEW k \in Keys, Has(k), Resolved(k) = Missing PROVE Disconnected(k)
  BY DEF EnvironmentsResolve, Disconnected, Rests
<1> SUFFICES ASSUME ~Disconnected(k) PROVE FALSE
  OBVIOUS
<1>1. PICK w : Computes(w, Depth) /\ Resolved(k) = w[Depth][k]
  BY ResolvedComputed
<1>2. Depth \in 0..Depth /\ Depth \in Nat
  BY Finite DEF Depth
<1>3. Cardinality(Rests(k)) > Depth
  BY <1>1, <1>2, MissingLeadsOn
<1>4. Rests(k) \in SUBSET Services
  BY ReachableCloses, SinksTyped DEF Rests, Keys
<1>5. Cardinality(Rests(k)) <= Depth /\ IsFiniteSet(Rests(k))
  BY <1>4, Finite, FS_Subset DEF Depth
<1> QED BY <1>2, <1>3, <1>5, FS_CardinalityType

\* resolveVariable follows references to other services.  When requests that create
\* references and those that take variables away do not overlap (TargetsHeld), each
\* variable has a value, unless its references lead to a name that was a bucket's.
THEOREM EnvironmentsResolveAlways ==
  ASSUME ReferencesAlone, TargetsHeld
  PROVE  Spec => []EnvironmentsResolve
<1>1. Init => Apart
  BY DEF Init, Apart
<1>2. Typed /\ Apart /\ [Next]_vars => Apart'
  BY ApartNext
<1>3. Typed /\ Typed' /\ Led /\ Apart /\ [Next]_vars => Led'
  BY LedNext
<1>4. Typed /\ Led /\ ReferencesAcyclic => EnvironmentsResolve
  BY LedResolves
<1>5. Spec => []ReferencesAcyclic
  BY ReferencesAcyclicAlways
<1> QED BY <1>1, <1>2, <1>3, <1>4, <1>5, LedInit, TypedAlways, PTL DEF Spec

--------------------------------------------------------------------------------
(* A reference belongs to a variable, when BindDatabase's statements are not  *)
(* interrupted by a new name or a deletion.                                   *)

BindsWhole == {"rename", "bind database"} \in Serial /\ {"delete", "bind database"} \in Serial

\* A reference's variable is there, no binding manages it, and it has no value of
\* its own unless the reference is to a database.
Backed(k) ==
  reference[k] # NoTarget =>
    /\ Has(k) /\ ~Managed(k)
    /\ reference[k][1] \in Databases \/ variable[k].from = "placeholder"

\* What the next statement of a request rests on.
Waits(r) ==
  /\ r.kind = "bind bucket" => reference[r.key] = NoTarget
  /\ r.kind = "bind database" /\ r.bucket = "refer" => Has(r.key)

Owned == (\A k \in Keys : Backed(k)) /\ (\A r \in open : Waits(r))

LEMMA OwnedInit == Init => Owned
BY DEF Init, Owned, Backed

\* Steps that add no reference and change no variable that is one.
LEMMA OwnedStays ==
  ASSUME Typed, Typed', Owned, UNCHANGED binding,
         \A k \in Keys : Has(k) => Has(k)',
         \A k \in Keys : reference'[k] # NoTarget =>
           reference'[k] = reference[k] /\ variable'[k].from = variable[k].from,
         \A q \in open' : Waits(q) \/ Waits(q)'
  PROVE  Owned'
<1>1. \A k : Managed(k)' <=> Managed(k)
  BY DEF Managed
<1>2. \A k \in Keys : Backed(k)'
  <2> SUFFICES ASSUME NEW k \in Keys, reference'[k] # NoTarget PROVE Backed(k)'
    BY DEF Backed
  <2>1. Backed(k)
    BY DEF Owned
  <2> QED BY <1>1, <2>1 DEF Backed
<1>3. ASSUME NEW q \in open', Waits(q) PROVE Waits(q)'
  <2>1. q.kind \in {"bind bucket", "bind database"} => q.key \in Keys
    BY DEF Typed, Fits
  <2> QED BY <1>3, <2>1 DEF Waits
<1> QED BY <1>2, <1>3 DEF Owned

LEMMA OwnedStore ==
  ASSUME Typed, Typed', Owned, NEW k \in Keys, NEW from, StoreVariable(k, from), UNCHANGED binding,
         \A q \in open' : Waits(q) \/ Waits(q)'
  PROVE  Owned'
<1>1. reference \in [Keys -> Keys \cup {NoTarget}] /\ variable \in [Keys -> RowType]
  BY TypedParts DEF Typed, RowsTyped
<1>2. Row("secret", from, 0) # NoRow
  BY RowThere
<1>3. \A j \in Keys : Has(j) => Has(j)'
  BY <1>1, <1>2 DEF StoreVariable, Has
<1>4. \A j \in Keys : reference'[j] # NoTarget => j # k
  BY <1>1 DEF StoreVariable
<1>5. \A j \in Keys \ {k} : reference'[j] = reference[j] /\ variable'[j] = variable[j]
  BY <1>1 DEF StoreVariable
<1> QED BY <1>3, <1>4, <1>5, OwnedStays

\* One more reference.
LEMMA OwnedAdds ==
  ASSUME Typed, Typed', Owned, BindsAlone, Apart, NEW r \in open, r.kind \in Referring,
         r.key \in Keys, r.target \in Keys, ~Managed(r.key), UNCHANGED binding,
         \A k \in Keys : Has(k) => Has(k)', Has(r.key)',
         \A k \in Keys \ {r.key} : variable'[k] = variable[k],
         r.target[1] \in Databases \/ variable'[r.key].from = "placeholder",
         reference' = [reference EXCEPT ![r.key] = r.target],
         \A q \in open' : q.kind # "bind database" \/ q.bucket # "refer" \/ q \in open,
         \A q \in open' : q \in open \ {r} \/ Continues(q, r)
  PROVE  Owned'
<1>1. reference \in [Keys -> Keys \cup {NoTarget}] /\ NoTarget \notin Keys
  BY TypedParts, Constants DEF Typed, RowsTyped
<1>2. \A k : Managed(k)' <=> Managed(k)
  BY DEF Managed
<1>3. \A k \in Keys : Backed(k)'
  <2> SUFFICES ASSUME NEW k \in Keys PROVE Backed(k)'
    OBVIOUS
  <2>1. CASE k = r.key
    BY <1>1, <1>2, <2>1 DEF Backed
  <2>2. CASE k # r.key
    <3>1. Backed(k) /\ reference'[k] = reference[k] /\ variable'[k] = variable[k]
      BY <1>1, <2>2 DEF Owned
    <3> QED BY <1>2, <3>1 DEF Backed
  <2> QED BY <2>1, <2>2
<1>4. \A q \in open' : q.kind # "bind bucket"
  <2>1. {r.kind, "bind bucket"} \in Serial
    BY DEF BindsAlone, Referring
  <2> QED BY <2>1 DEF Apart, Continues, Referring
<1>5. \A q \in open' : q.kind = "bind database" /\ q.bucket = "refer" => Has(q.key)'
  <2> SUFFICES ASSUME NEW q \in open, q.kind = "bind database", q.bucket = "refer" PROVE Has(q.key)'
    OBVIOUS
  <2>1. q.key \in Keys /\ Has(q.key)
    BY DEF Typed, Fits, Owned, Waits
  <2> QED BY <2>1
<1> QED BY <1>3, <1>4, <1>5 DEF Owned, Waits

\* What a variable's new name does to the rows.
LEMMA RenameMoves ==
  ASSUME Typed, Owned, NEW r \in open, Rename(r)
  PROVE  /\ r.key \in Keys /\ r.target \in Keys /\ r.target # r.key
         /\ r.target[1] = r.key[1] /\ r.key[1] \in Applications
         /\ Has(r.key) /\ ~Has(r.target)
         /\ variable'[r.target] = variable[r.key] /\ variable'[r.key] = NoRow
         /\ reference'[r.target] = reference[r.key] /\ reference'[r.key] = NoTarget
         /\ \A k \in Keys \ {r.key, r.target} :
              /\ variable'[k] = variable[k]
              /\ reference'[k] = IF reference[k] = r.key THEN r.target ELSE reference[k]
<1>1. /\ r.key \in Keys /\ r.target \in Keys /\ r.target # r.key /\ r.key[1] \in Applications
      /\ r.target[1] = r.key[1]
      /\ reference \in [Keys -> Keys \cup {NoTarget}] /\ variable \in [Keys -> RowType]
      /\ NoTarget \notin Keys
      /\ \A k \in Keys : reference[k] # NoTarget => reference[k][1] # k[1]
  BY TypedParts, Constants DEF Typed, RowsTyped, Fits, Rename
<1>2. Has(r.key) /\ ~Has(r.target) /\ reference[r.target] = NoTarget
  BY <1>1 DEF Rename, Owned, Backed
<1>3. \A i \in Keys : Moved(r.key, r.target)[i] =
        IF i = r.target THEN reference[r.key] ELSE IF i = r.key THEN NoTarget ELSE reference[i]
  BY <1>1, <1>2 DEF Moved
<1>4. \A i \in Keys : reference'[i] = IF Moved(r.key, r.target)[i] = r.key THEN r.target
                                      ELSE Moved(r.key, r.target)[i]
  BY DEF Rename, Follow
<1>5. reference[r.key] # r.key
  BY <1>1
<1>6. reference'[r.target] = reference[r.key] /\ reference'[r.key] = NoTarget
  BY <1>1, <1>3, <1>4, <1>5
<1>7. \A k \in Keys \ {r.key, r.target} :
        reference'[k] = IF reference[k] = r.key THEN r.target ELSE reference[k]
  BY <1>3, <1>4
<1>8. /\ variable'[r.target] = variable[r.key] /\ variable'[r.key] = NoRow
      /\ \A k \in Keys \ {r.key, r.target} : variable'[k] = variable[k]
  BY <1>1 DEF Rename
<1> QED BY <1>1, <1>2, <1>6, <1>7, <1>8

LEMMA OwnedRename ==
  ASSUME Typed, Typed', Owned, Current, BindsAlone, BindsWhole, Apart, NEW r \in open, Rename(r)
  PROVE  Owned'
<1>1. \A k : Managed(k)' <=> Managed(k)
  BY DEF Managed, Rename
<1>2. ~Managed(r.target)
  BY DEF Current, Unmanaged, Rename, Owners
<1>3. \A k \in Keys : Backed(k)'
  <2> SUFFICES ASSUME NEW k \in Keys PROVE Backed(k)'
    OBVIOUS
  <2>1. Backed(k) /\ Backed(r.key)
    BY RenameMoves DEF Owned
  <2>2. CASE k = r.key
    BY <2>2, RenameMoves DEF Backed
  <2>3. CASE k = r.target
    <3>1. variable'[k] = variable[r.key] /\ reference'[k] = reference[r.key] /\ ~Managed(k)'
      BY <1>1, <1>2, <2>3, RenameMoves
    <3> QED BY <2>1, <3>1 DEF Backed, Has
  <2>4. CASE k \notin {r.key, r.target}
    <3>1. /\ variable'[k] = variable[k]
          /\ reference'[k] # NoTarget =>
               reference[k] # NoTarget /\ reference'[k][1] = reference[k][1]
      BY <2>4, RenameMoves, Constants
    <3> QED BY <1>1, <2>1, <3>1 DEF Backed, Has
  <2> QED BY <2>2, <2>3, <2>4
<1>4. \A q \in open' : q.kind \notin {"bind bucket", "bind database"}
  BY DEF Rename, Close, Apart, BindsAlone, BindsWhole
<1> QED BY <1>3, <1>4 DEF Owned, Waits

LEMMA OwnedDelete ==
  ASSUME Typed, Typed', Owned, BindsWhole, Apart, NEW r \in open, DeleteVariable(r)
  PROVE  Owned'
<1>1. /\ r.key \in Keys /\ NoTarget \notin Keys
      /\ reference \in [Keys -> Keys \cup {NoTarget}] /\ variable \in [Keys -> RowType]
  BY TypedParts, Constants DEF Typed, RowsTyped, Fits, DeleteVariable
<1>2. \A k : Managed(k)' <=> Managed(k)
  BY DEF Managed, DeleteVariable
<1>3. /\ reference'[r.key] = NoTarget
      /\ \A k \in Keys \ {r.key} : reference'[k] = reference[k] /\ variable'[k] = variable[k]
  BY <1>1 DEF DeleteVariable
<1>4. \A k \in Keys : Backed(k)'
  <2> SUFFICES ASSUME NEW k \in Keys \ {r.key} PROVE Backed(k)'
    BY <1>3 DEF Backed
  <2>1. Backed(k)
    BY DEF Owned
  <2> QED BY <1>2, <1>3, <2>1 DEF Backed, Has
<1>5. \A q \in open' : q \in open /\ q.kind # "bind database"
  BY DEF DeleteVariable, Close, Apart, BindsWhole
<1>6. ASSUME NEW q \in open', q.kind = "bind bucket" PROVE reference'[q.key] = NoTarget
  <2>1. q.key \in Keys /\ reference[q.key] = NoTarget
    BY <1>5, <1>6 DEF Typed, Fits, Owned, Waits
  <2> QED BY <1>3, <2>1
<1> QED BY <1>4, <1>5, <1>6 DEF Owned, Waits

\* A binding takes a name that has no reference.
LEMMA OwnedBind ==
  ASSUME Typed, Typed', Owned, NEW r \in open, BindBucket(r)
  PROVE  Owned'
<1>1. /\ r.key \in Keys /\ r.bucket \in Buckets /\ r.key[1] \in Applications
      /\ r.key[2] \in Prefixes /\ reference[r.key] = NoTarget
      /\ UNCHANGED reference
  BY DEF Typed, Fits, BindBucket, Locking, Owned, Waits
<1>2. {r.key} \in SUBSET Keys /\ version[r.bucket] \in 0..Rotations
  BY <1>1, TypedParts DEF Typed, BindingsTyped
<1>3. \A k \in Keys \ {r.key} : variable'[k] = variable[k]
  <2>1. variable' = Credentials(r.bucket, version[r.bucket], {r.key}) /\ RowsTyped
    BY TypedParts DEF Typed, BindBucket
  <2> QED BY <1>1, <1>2, <2>1, CredentialsTyped
<1>4. \A k \in Keys : Has(k) => Has(k)'
  BY <1>1, <1>2, CredentialsAlive DEF BindBucket
<1>5. \A k \in Keys \ {r.key} : Managed(k)' => Managed(k)
  <2> SUFFICES ASSUME NEW k \in Keys, k # r.key, Managed(k)' PROVE Managed(k)
    OBVIOUS
  <2>1. binding \in [Buckets \X Applications -> Prefixes \cup {Unbound}]
    BY TypedParts DEF Typed, BindingsTyped
  <2>2. binding' = [binding EXCEPT ![<<r.bucket, r.key[1]>>] = r.key[2]]
    BY DEF BindBucket
  <2>3. PICK b \in Buckets : <<b, k[1]>> \in DOMAIN binding' /\ binding'[b, k[1]] = k[2]
    BY DEF Managed
  <2>4. k = <<k[1], k[2]>> /\ r.key = <<r.key[1], r.key[2]>>
    BY <1>1 DEF Keys
  <2>5. <<b, k[1]>> # <<r.bucket, r.key[1]>>
    BY <2>1, <2>2, <2>3, <2>4
  <2>6. <<b, k[1]>> \in DOMAIN binding /\ binding[b, k[1]] = k[2]
    BY <2>1, <2>2, <2>3, <2>5
  <2> QED BY <2>6 DEF Managed
<1>6. \A k \in Keys : Backed(k)'
  <2> SUFFICES ASSUME NEW k \in Keys \ {r.key} PROVE Backed(k)'
    BY <1>1 DEF Backed
  <2>1. Backed(k)
    BY DEF Owned
  <2> QED BY <1>1, <1>3, <1>5, <2>1 DEF Backed, Has
<1>7. \A q \in open' : Waits(q)'
  <2> SUFFICES ASSUME NEW q \in open' PROVE Waits(q)'
    OBVIOUS
  <2>1. Waits(q)
    BY DEF BindBucket, Close, Owned
  <2>2. q.kind = "bind database" => q.key \in Keys
    BY DEF Typed, Fits
  <2> QED BY <1>1, <1>4, <2>1, <2>2 DEF Waits
<1> QED BY <1>6, <1>7 DEF Owned

\* What a rotation writes is managed, and no reference.
LEMMA OwnedRotate ==
  ASSUME Typed, Typed', Owned, Current, NEW r \in open, RotateBucketCredentials(r)
  PROVE  Owned'
<1>1. r.kind = "rotate" /\ r.kind \in Locking
  BY DEF RotateBucketCredentials, Locking
<1>2. /\ r.bucket \in Buckets /\ version[r.bucket] < Rotations
      /\ r.read = Bound(r.bucket)
      /\ variable' = Credentials(r.bucket, version[r.bucket] + 1, r.read)
  BY <1>1 DEF Typed, Fits, Current, AllRead, RotateBucketCredentials
<1>3. version[r.bucket] + 1 \in 0..Rotations
  <2>1. version[r.bucket] \in 0..Rotations /\ Rotations \in Nat
    BY <1>2, TypedParts, Constants DEF Typed, BindingsTyped
  <2> QED BY <1>2, <2>1
<1>4. r.read \in SUBSET Keys
  BY <1>2, Constants DEF Bound, Keys
<1>5. \A k \in r.read : Managed(k)
  <2> SUFFICES ASSUME NEW k \in r.read PROVE Managed(k)
    OBVIOUS
  <2>1. k \in Applications \X Prefixes /\ binding[r.bucket, k[1]] = k[2]
    BY <1>2 DEF Bound
  <2>2. <<r.bucket, k[1]>> \in DOMAIN binding
    BY <1>2, <2>1, TypedParts DEF Typed, BindingsTyped
  <2> QED BY <1>2, <2>1, <2>2 DEF Managed
<1>6. \A k \in Keys : Has(k) => Has(k)'
  BY <1>2, <1>3, <1>4, CredentialsAlive
<1>7. \A k \in Keys \ r.read : variable'[k] = variable[k]
  BY <1>2, <1>3, <1>4, TypedParts, CredentialsTyped DEF Typed
<1>8. UNCHANGED <<reference, binding>> /\ \A q \in open' : Waits(q)
  BY DEF RotateBucketCredentials, Close, Owned
<1>9. \A k \in Keys : reference'[k] # NoTarget =>
         reference'[k] = reference[k] /\ variable'[k].from = variable[k].from
  BY <1>5, <1>7, <1>8 DEF Owned, Backed
<1> QED BY <1>6, <1>8, <1>9, OwnedStays

LEMMA OwnedUnbind ==
  ASSUME Typed, Typed', Owned, Current, NEW b \in Buckets, NEW s \in Applications, UnbindBucket(b, s)
  PROVE  Owned'
<1> DEFINE gone == <<s, binding[b, s]>>
<1>1. /\ binding \in [Buckets \X Applications -> Prefixes \cup {Unbound}]
      /\ variable \in [Keys -> RowType] /\ binding[b, s] \in Names
  BY TypedParts, Constants DEF Typed, RowsTyped, BindingsTyped, UnbindBucket
<1>2. gone \in Keys /\ Managed(gone)
  BY <1>1, ManagedKeys, Constants DEF Keys
<1>3. /\ UNCHANGED <<reference, open>>
      /\ \A k \in Keys \ {gone} : variable'[k] = variable[k]
  BY <1>1 DEF UnbindBucket
<1>4. \A k \in Keys : Managed(k)' => Managed(k)
  <2> SUFFICES ASSUME NEW k \in Keys, NEW c \in Buckets, <<c, k[1]>> \in DOMAIN binding',
                      binding'[c, k[1]] = k[2]
               PROVE  Managed(k)
    BY DEF Managed
  <2>1. binding' = [binding EXCEPT ![<<b, s>>] = Unbound] /\ k[2] # Unbound
    BY Constants DEF UnbindBucket, Keys
  <2>2. <<c, k[1]>> # <<b, s>> /\ <<c, k[1]>> \in DOMAIN binding
    BY <1>1, <2>1
  <2>3. binding[c, k[1]] = k[2]
    BY <1>1, <2>1, <2>2
  <2> QED BY <2>2, <2>3 DEF Managed
<1>5. \A k \in Keys : Backed(k)'
  <2> SUFFICES ASSUME NEW k \in Keys PROVE Backed(k)'
    OBVIOUS
  <2>1. Backed(k)
    BY DEF Owned
  <2> QED BY <1>2, <1>3, <1>4, <2>1 DEF Backed, Has
<1>6. \A q \in open' : Waits(q)'
  <2> SUFFICES ASSUME NEW q \in open' PROVE Waits(q)'
    OBVIOUS
  <2>1. Waits(q) /\ (q.kind = "bind database" => q.key \in Keys /\ q.key # gone)
    BY <1>2, <1>3 DEF Owned, Typed, Fits, Current, Unmanaged, Owners
  <2> QED BY <1>3, <2>1 DEF Waits, Has
<1> QED BY <1>5, <1>6 DEF Owned

\* A binding that opens has found no reference of its name.
LEMMA ChecksWait ==
  ASSUME Typed, Owned, Check
  PROVE  UNCHANGED rows /\ \A q \in open' : Waits(q)
<1>1. ASSUME NEW q, Open(q), Waits(q) PROVE UNCHANGED rows /\ \A p \in open' : Waits(p)
  BY <1>1 DEF Open, Owned
<1>2. ASSUME NEW q, Open(q), q.kind # "bind bucket", q.kind # "bind database" \/ q.bucket = "set"
      PROVE  UNCHANGED rows /\ \A p \in open' : Waits(p)
  BY <1>1, <1>2 DEF Waits
<1>3. ASSUME NEW b \in Buckets, NEW s \in Applications, NEW p \in Prefixes, CheckBinding(b, s, p)
      PROVE  UNCHANGED rows /\ \A q \in open' : Waits(q)
  <2>1. <<s, p>> \in Keys
    BY Constants DEF Keys
  <2>2. Backed(<<s, p>>) /\ binding[b, s] \in {p, Unbound}
    BY <1>3, <2>1 DEF CheckBinding, Owned
  <2>3. binding[b, s] = p => Managed(<<s, p>>)
    BY <2>1, ManagedKeys, Constants
  <2>4. reference[<<s, p>>] = NoTarget
    BY <1>3, <2>2, <2>3 DEF CheckBinding, Backed
  <2>5. Waits(Request("bind bucket", <<s, p>>, NoTarget, b, {}))
    BY <2>4 DEF Waits, Request
  <2> QED BY <1>1, <1>3, <2>5 DEF CheckBinding
<1>4. ASSUME NEW s \in Services, NEW n \in Names,
             \/ CheckVariable(s, n) \/ CheckDelete(<<s, n>>)
             \/ \E k \in Keys : CheckReference(s, n, k)
             \/ \E m \in Names : CheckRename(s, n, m)
             \/ \E d \in Databases : CheckDatabase(d, s, n)
      PROVE  UNCHANGED rows /\ \A p \in open' : Waits(p)
  BY <1>2, <1>4 DEF CheckVariable, CheckDelete, CheckReference, CheckRename, CheckDatabase, Request
<1>5. ASSUME NEW b \in Buckets, CheckRotation(b)
      PROVE  UNCHANGED rows /\ \A p \in open' : Waits(p)
  BY <1>2, <1>5 DEF CheckRotation, Request
<1> QED BY <1>3, <1>4, <1>5 DEF Check

LEMMA OwnedCheck == ASSUME Typed, Typed', Owned, Check PROVE Owned'
<1>1. UNCHANGED rows /\ \A q \in open' : Waits(q)
  BY ChecksWait
<1> QED BY <1>1, OwnedStays DEF rows, Has

\* BindDatabase, statement by statement.
LEMMA OwnedDatabase ==
  ASSUME Typed, Typed', Owned, Current, BindsAlone, Apart, NEW r \in open, BindDatabase(r)
  PROVE  Owned'
<1>1. /\ r.key \in Keys /\ r.target \in Keys /\ r.target[1] \in Databases
      /\ r.kind = "bind database" /\ r.kind \in Referring /\ ~Managed(r.key)
      /\ reference \in [Keys -> Keys \cup {NoTarget}] /\ variable \in [Keys -> RowType]
  BY TypedParts DEF Typed, RowsTyped, Fits, BindDatabase, Referring, Current, Unmanaged, Owners
<1>2. UNCHANGED <<binding, version>>
  BY DEF BindDatabase
<1>3. \A next \in Statements :
        LET q == [r EXCEPT !.bucket = next] IN q.bucket = next /\ q.key = r.key /\ q.kind = r.kind
  BY DEF Typed, Fits, RequestType
<1>4. CASE StoreVariable(r.key, r.target[1]) /\ Continue(r, "refer")
  <2>1. Row("secret", r.target[1], 0) # NoRow
    BY RowThere
  <2>2. Has(r.key)'
    BY <1>1, <1>4, <2>1 DEF StoreVariable, Has
  <2>3. Waits([r EXCEPT !.bucket = "refer"])'
    BY <1>1, <1>3, <2>2 DEF Waits, Statements
  <2>4. \A q \in open' : Waits(q) \/ Waits(q)'
    BY <1>4, <2>3 DEF Continue, Owned
  <2> QED BY <1>1, <1>2, <1>4, <2>4, OwnedStore
<1>5. CASE /\ r.bucket = "refer" /\ reference' = [reference EXCEPT ![r.key] = r.target]
           /\ Continue(r, "mark") /\ UNCHANGED variable
  <2>1. Has(r.key) /\ \A k : Has(k)' = Has(k)
    BY <1>1, <1>5 DEF Owned, Waits, Has
  <2>2. \A q \in open' : q.kind # "bind database" \/ q.bucket # "refer" \/ q \in open
    BY <1>3, <1>5 DEF Continue, Statements
  <2>3. \A q \in open' : q \in open \ {r} \/ Continues(q, r)
    BY <1>5, ClosesOrContinues DEF Statements
  <2> QED BY <1>1, <1>2, <1>5, <2>1, <2>2, <2>3, OwnedAdds
<1>6. CASE /\ variable' = IF Has(r.key) THEN [variable EXCEPT ![r.key].kind = "reference"] ELSE variable
           /\ Close(r) /\ UNCHANGED reference
  <2>1. \A k \in Keys : variable'[k].from = variable[k].from
    BY <1>1, <1>6 DEF RowType
  <2>2. \A k \in Keys : Has(k) => Has(k)'
    <3>1. NoRow.kind = "none"
      BY DEF NoRow, Row
    <3> QED BY <1>1, <1>6, <3>1 DEF Has, RowType
  <2>3. \A q \in open' : Waits(q)
    BY <1>6 DEF Close, Owned
  <2> QED BY <1>2, <1>6, <2>1, <2>2, <2>3, OwnedStays
<1> QED BY <1>4, <1>5, <1>6 DEF BindDatabase

LEMMA OwnedSet ==
  ASSUME Typed, Typed', Owned, Current, BindsAlone, Apart, NEW r \in open,
         SetVariable(r) \/ SetReference(r)
  PROVE  Owned'
<1>1. /\ r.key \in Keys /\ (r.kind = "set reference" => r.target \in Keys) /\ ~Managed(r.key)
      /\ reference \in [Keys -> Keys \cup {NoTarget}] /\ variable \in [Keys -> RowType]
  BY TypedParts DEF Typed, RowsTyped, Fits, SetVariable, SetReference, Current, Unmanaged, Owners
<1>2. UNCHANGED <<binding, version>> /\ open' = open \ {r}
  BY DEF SetVariable, SetReference, Close
<1>3. CASE SetVariable(r)
  BY <1>1, <1>2, <1>3, OwnedStore DEF SetVariable, Owned
<1>4. CASE SetReference(r)
  <2> DEFINE row == Row("reference", "placeholder", 0)
  <2>1. row # NoRow /\ row.from = "placeholder"
    BY RowThere DEF Row
  <2>2. variable' = [variable EXCEPT ![r.key] = row]
    BY <1>4 DEF SetReference
  <2> HIDE DEF row
  <2>3. /\ \A k \in Keys : Has(k) => Has(k)'
        /\ Has(r.key)' /\ variable'[r.key].from = "placeholder"
        /\ \A k \in Keys \ {r.key} : variable'[k] = variable[k]
    BY <1>1, <2>1, <2>2 DEF Has
  <2> QED BY <1>1, <1>2, <1>4, <2>3, OwnedAdds DEF SetReference, Referring
<1> QED BY <1>3, <1>4

LEMMA OwnedNext ==
  ASSUME Typed, Typed', Owned, Current, BindsAlone, BindsWhole, Apart, [Next]_vars
  PROVE  Owned'
<1>1. CASE UNCHANGED <<variable, reference, binding>> /\ open' \subseteq open
  <2>1. \A q \in open' : Waits(q)
    BY <1>1 DEF Owned
  <2> QED BY <1>1, <2>1, OwnedStays DEF Has
<1>2. CASE Write
  <2>1. PICK r \in open :
          \/ SetVariable(r) \/ SetReference(r) \/ Rename(r) \/ DeleteVariable(r)
          \/ BindBucket(r) \/ RotateBucketCredentials(r) \/ BindDatabase(r) \/ Abandon(r)
    BY <1>2 DEF Write
  <2>2. CASE Abandon(r)
    BY <1>1, <2>2 DEF Abandon, Close, rows
  <2> QED BY <2>1, <2>2, OwnedSet, OwnedRename, OwnedDelete, OwnedBind, OwnedRotate, OwnedDatabase
<1> QED BY <1>1, <1>2, OwnedCheck, OwnedUnbind DEF Next, vars, rows, CreateBucket

--------------------------------------------------------------------------------
(* A new name changes no value.                                               *)

\* What a variable of this row gives.
Gives(row, followed) ==
  LET own == Row("secret", row.from, row.version)
      fallback == IF own.from = "placeholder" THEN Missing ELSE own
  IN  IF row = NoRow THEN Missing
      ELSE IF row.kind # "reference" THEN own
      ELSE IF followed = Missing THEN fallback ELSE followed

\* w are the values after each number of references, the last one those there are.
Values(w) ==
  /\ \A i \in 0..Depth, k \in Keys :
       w[i][k] = Gives(variable[k], IF i = 0 \/ reference[k] = NoTarget THEN Missing
                                    ELSE w[i - 1][reference[k]])
  /\ \A k : Resolved(k) = w[Depth][k]

HasValues == \E w : Values(w)

LEMMA ValuesNow == HasValues
<1>1. PICK w : Computes(w, Depth) /\ \A k : Resolved(k) = w[Depth][k]
  BY ResolvedComputed
<1>2. \A k, v : Given(k, v) = Gives(variable[k], v)
  BY DEF Given, Gives, Has
<1> QED BY <1>1, <1>2 DEF Computes, Values, HasValues

LEMMA ValuesNext == HasValues'
BY ValuesNow, PTL

\* A row that stands for a reference only, and gives a value without following it,
\* does not depend on where it leads.
LEMMA GivesOwn ==
  ASSUME NEW row, NEW v, Gives(row, Missing) # Missing, row.from = "placeholder"
  PROVE  Gives(row, v) = Gives(row, Missing)
BY DEF Gives, Row

LEMMA RenameKeeps ==
  ASSUME Typed, Owned, ReferencesAcyclic, NEW r \in open, Rename(r)
  PROVE  /\ Resolved(r.target)' = Resolved(r.key)
         /\ \A k \in Keys \ {r.key, r.target} :
              Resolved(k) # Missing => Resolved(k)' = Resolved(k)
<1> DEFINE a == r.key
           b == r.target
           s == r.key[1]
           to(k) == IF k = a THEN b ELSE k
<1>1. PICK w : Values(w)
  BY ValuesNow DEF HasValues
<1>2. PICK u : Values(u)'
  BY ValuesNext DEF HasValues
<1>3. /\ a \in Keys /\ b \in Keys /\ b # a /\ b[1] = s /\ s \in Applications /\ ~Has(b)
      /\ NoTarget \notin Keys /\ reference \in [Keys -> Keys \cup {NoTarget}]
      /\ \A k \in Keys : reference[k] # NoTarget => reference[k][1] # k[1]
  BY RenameMoves, TypedParts, Constants DEF Typed, RowsTyped
<1>4. \A k \in Keys \ {b} :
        /\ to(k) \in Keys /\ variable'[to(k)] = variable[k]
        /\ reference[k] # b => reference'[to(k)] = IF reference[k] = NoTarget THEN NoTarget ELSE to(reference[k])
        /\ reference[k] = b => reference'[to(k)] = b
  BY <1>3, RenameMoves
<1>5. ASSUME NEW k \in Keys, reference[k] # NoTarget
      PROVE  /\ reference[k][1] \in Reachable(k[1])
             /\ Reachable(reference[k][1]) \subseteq Reachable(k[1])
             /\ reference[k][1] \in Databases => Reachable(reference[k][1]) = {}
  <2>1. Rests(reference[k]) \subseteq Reachable(k[1])
    BY <1>5, RestsShrink
  <2>2. ASSUME reference[k][1] \in Databases PROVE Reachable(reference[k][1]) = {}
    <3>1. Targets(reference[k][1]) = {}
      BY <2>2, SinksTyped, Constants DEF Sinks
    <3> QED BY <3>1, ReachableWithin
  <2> QED BY <2>1, <2>2 DEF Rests
<1> DEFINE Kept(i, k) == /\ w[i][k] # Missing => u[i][to(k)] = w[i][k]
                         /\ s \notin Reachable(k[1]) => u[i][to(k)] = w[i][k]
           T == {i \in 0..Depth : ~ \A k \in Keys \ {b} : Kept(i, k)}
<1>6. Depth \in Nat /\ Depth' = Depth
  BY Finite DEF Depth
<1>7. \A i \in 0..Depth, k \in Keys :
        /\ w[i][k] = Gives(variable[k], IF i = 0 \/ reference[k] = NoTarget THEN Missing
                                        ELSE w[i - 1][reference[k]])
        /\ u[i][k] = Gives(variable'[k], IF i = 0 \/ reference'[k] = NoTarget THEN Missing
                                         ELSE u[i - 1][reference'[k]])
  BY <1>1, <1>2, <1>6 DEF Values
<1>8. ASSUME NEW i \in 0..Depth, NEW k \in Keys \ {b}, i = 0 \/ reference[k] = NoTarget
      PROVE  Kept(i, k)
  <2>1. i = 0 \/ reference'[to(k)] = NoTarget
    BY <1>3, <1>4, <1>8
  <2>2. w[i][k] = Gives(variable[k], Missing)
    BY <1>7, <1>8
  <2>3. u[i][to(k)] = Gives(variable[k], Missing)
    BY <1>4, <1>7, <2>1
  <2> QED BY <2>2, <2>3
<1>9. 0 \notin T
  BY <1>6, <1>8
<1>10. ASSUME NEW i \in 1..Depth, i - 1 \notin T PROVE i \notin T
  <2> SUFFICES ASSUME NEW k \in Keys \ {b}, reference[k] # NoTarget PROVE Kept(i, k)
    BY <1>6, <1>8
  <2> DEFINE j == reference[k]
  <2>1. i \in 0..Depth /\ i - 1 \in 0..Depth /\ i # 0 /\ j \in Keys
    BY <1>3, <1>6
  <2>2. w[i][k] = Gives(variable[k], w[i - 1][j])
    BY <1>7, <2>1
  <2>3. CASE j = b
    <3>1. w[i - 1][b] = Missing
      BY <1>3, <1>7, <2>1 DEF Gives, Has
    <3>2. s \in Reachable(k[1])
      BY <1>3, <1>5, <2>3
    <3>3. variable[k].from = "placeholder"
      BY <1>3, <2>3, Constants DEF Owned, Backed
    <3>4. u[i][to(k)] = Gives(variable[k], u[i - 1][b])
      BY <1>3, <1>4, <1>7, <2>1, <2>3
    <3> QED BY <2>2, <2>3, <3>1, <3>2, <3>3, <3>4, GivesOwn
  <2>4. CASE j # b
    <3>1. Kept(i - 1, j)
      BY <1>10, <2>1, <2>4
    <3>2. u[i][to(k)] = Gives(variable[k], u[i - 1][to(j)])
      BY <1>3, <1>4, <1>7, <2>1, <2>4
    <3>3. s \notin Reachable(k[1]) => s \notin Reachable(j[1])
      BY <1>5
    <3>4. CASE w[i - 1][j] # Missing \/ s \notin Reachable(j[1])
      BY <2>2, <3>1, <3>2, <3>4
    <3>5. CASE w[i - 1][j] = Missing /\ s \in Reachable(j[1])
      <4>1. variable[k].from = "placeholder"
        BY <1>5, <3>5 DEF Owned, Backed
      <4> QED BY <2>2, <3>2, <3>3, <3>5, <4>1, GivesOwn
    <3> QED BY <3>4, <3>5
  <2> QED BY <2>3, <2>4
<1>11. T = {}
  <2> HIDE DEF T
  <2>1. T \in SUBSET (0..Depth)
    BY DEF T
  <2> QED BY <1>6, <1>9, <1>10, <2>1, NoneFails
<1>12. \A k \in Keys \ {b} : Kept(Depth, k)
  <2>1. Depth \in 0..Depth
    BY <1>6
  <2> QED BY <1>11, <2>1
<1>13. \A k : Resolved(k) = w[Depth][k] /\ Resolved(k)' = u[Depth][k]
  BY <1>1, <1>2, <1>6 DEF Values
<1>14. s \notin Reachable(a[1])
  BY <1>3 DEF ReferencesAcyclic
<1> QED BY <1>3, <1>12, <1>13, <1>14

\* Rename moves the references from a variable and to it.  When no binding is
\* made and no variable bound to a database over it, no service is deployed with
\* another value than before.
THEOREM RenameKeepsValuesAlways ==
  ASSUME ReferencesAlone, BindsAlone, BindsWhole
  PROVE  Spec => RenameKeepsValues
<1>1. Init => Typed /\ Apart /\ Current /\ Owned
  BY TypedInit, CurrentInit, OwnedInit DEF Init, Apart
<1>2. Typed /\ Apart /\ Current /\ Owned /\ [Next]_vars => (Typed /\ Apart /\ Current /\ Owned)'
  BY TypedNext, ApartNext, CurrentNext, OwnedNext
<1>3. Typed /\ Owned /\ ReferencesAcyclic =>
        [\A r \in open : Rename(r) =>
           /\ Resolved(r.target)' = Resolved(r.key)
           /\ \A k \in Keys \ {r.key, r.target} :
                Resolved(k) # Missing => Resolved(k)' = Resolved(k)]_vars
  BY RenameKeeps
<1>4. Spec => []ReferencesAcyclic
  BY ReferencesAcyclicAlways
<1> QED BY <1>1, <1>2, <1>3, <1>4, PTL DEF Spec, RenameKeepsValues
================================================================================
