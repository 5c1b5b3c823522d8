------------------------------- MODULE Release -------------------------------
(***************************************************************************)
(* What the control plane promises about the releases of its services,     *)
(* without queues, attempts, deadlines or an agent.  Every accepted        *)
(* release is pending until it either goes live or is dropped; a live      *)
(* release is what its service serves, and only the next live release      *)
(* retires it; a release its owner barred (cancelled) never goes live.     *)
(* JobQueue implements this module.                                        *)
(***************************************************************************)

CONSTANTS Services,    \* the services of the installation
          Releases,    \* every release that is ever requested
          NoService,   \* the owner of a release nobody requested yet
          None         \* what a service without a live release serves

VARIABLES serving,     \* the live release of each service, or None
          fate,        \* where each release is in its life
          owner,       \* the service each release was requested for
          barred       \* the releases that may no longer go live

releaseVars == <<serving, fate, owner, barred>>

Fates == {"unknown", "pending", "live", "retired", "dropped"}

Init ==
  /\ serving = [s \in Services |-> None]
  /\ fate = [r \in Releases |-> "unknown"]
  /\ owner = [r \in Releases |-> NoService]
  /\ barred = {}

Accept(s, r) ==
  /\ fate[r] = "unknown"
  /\ fate' = [fate EXCEPT ![r] = "pending"]
  /\ owner' = [owner EXCEPT ![r] = s]
  /\ UNCHANGED <<serving, barred>>

\* Cancelling a release that has not started may also drop it at once.
Bar(r) ==
  /\ fate[r] = "pending"
  /\ barred' = barred \cup {r}
  /\ fate' \in {fate, [fate EXCEPT ![r] = "dropped"]}
  /\ UNCHANGED <<serving, owner>>

\* One step may drop several releases: the queue expires them together.
Drop(R) ==
  /\ \A r \in R : fate[r] = "pending"
  /\ fate' = [r \in Releases |-> IF r \in R THEN "dropped" ELSE fate[r]]
  /\ UNCHANGED <<serving, owner, barred>>

GoLive(r) ==
  /\ fate[r] = "pending"
  /\ r \notin barred
  /\ fate' = [x \in Releases |->
                IF x = r THEN "live"
                ELSE IF x = serving[owner[r]] THEN "retired"
                ELSE fate[x]]
  /\ serving' = [serving EXCEPT ![owner[r]] = r]
  /\ UNCHANGED <<owner, barred>>

Next ==
  \/ \E s \in Services, r \in Releases : Accept(s, r)
  \/ \E r \in Releases : Bar(r) \/ GoLive(r)
  \/ \E R \in SUBSET Releases : Drop(R)

Spec == Init /\ [][Next]_releaseVars
==============================================================================
