------------------------------- MODULE Delivery -------------------------------
(***************************************************************************)
(* What the control plane promises about the source builds it accepts,     *)
(* without claims, attempts, tokens, deadlines or rounds of the flush.     *)
(* An accepted build is open until it succeeds or ends without a result;   *)
(* only a success that its owner did not cancel is delivered, as one       *)
(* release of the service it was built for, and that release is what the   *)
(* build shows.  A request builds a service once.  Builds implements this  *)
(* module, and the life of the releases themselves is Release.             *)
(***************************************************************************)

CONSTANTS Services, SourceBuilds, Requests, Releases, NoService, NoRequest, None

VARIABLES life,      \* "unknown", "open", "succeeded" or "ended"
          service,   \* the service each build was requested for
          request,   \* what it was requested by, or NoRequest
          refused,   \* the open builds whose owner no longer wants a result
          origin,    \* the build a release delivers, or None
          home,      \* the service a delivered release belongs to
          recorded   \* the release a build shows, or None

deliveryVars == <<life, service, request, refused, origin, home, recorded>>

Init ==
  /\ life = [b \in SourceBuilds |-> "unknown"]
  /\ service = [b \in SourceBuilds |-> NoService]
  /\ request = [b \in SourceBuilds |-> NoRequest]
  /\ refused = {}
  /\ origin = [r \in Releases |-> None]
  /\ home = [r \in Releases |-> NoService]
  /\ recorded = [b \in SourceBuilds |-> None]

\* One request may ask for builds of several services, together or not at all.
Accept(place, q) ==
  /\ \A b \in DOMAIN place : life[b] = "unknown"
  /\ life' = [b \in SourceBuilds |-> IF b \in DOMAIN place THEN "open" ELSE life[b]]
  /\ service' = [b \in SourceBuilds |-> IF b \in DOMAIN place THEN place[b] ELSE service[b]]
  /\ request' = [b \in SourceBuilds |-> IF b \in DOMAIN place THEN q ELSE request[b]]
  /\ q # NoRequest =>
       \A b \in DOMAIN place, c \in SourceBuilds :
         b # c /\ request'[c] = q => service'[c] # service'[b]
  /\ UNCHANGED <<refused, origin, home, recorded>>

\* Cancelling a build nobody works on may also end it at once.
Refuse(b) ==
  /\ life[b] = "open"
  /\ refused' = refused \cup {b}
  /\ life' \in {life, [life EXCEPT ![b] = "ended"]}
  /\ UNCHANGED <<service, request, origin, home, recorded>>

\* Several builds may run out of time together.
End(B) ==
  /\ \A b \in B : life[b] = "open"
  /\ life' = [b \in SourceBuilds |-> IF b \in B THEN "ended" ELSE life[b]]
  /\ UNCHANGED <<service, request, refused, origin, home, recorded>>

Succeed(b) ==
  /\ life[b] = "open" /\ b \notin refused
  /\ life' = [life EXCEPT ![b] = "succeeded"]
  /\ UNCHANGED <<service, request, refused, origin, home, recorded>>

Deliver(b, r) ==
  /\ life[b] = "succeeded" /\ b \notin refused
  /\ origin[r] = None /\ \A x \in Releases : origin[x] # b
  /\ origin' = [origin EXCEPT ![r] = b]
  /\ home' = [home EXCEPT ![r] = service[b]]
  /\ UNCHANGED <<life, service, request, refused, recorded>>

Record(b, r) ==
  /\ recorded[b] = None /\ origin[r] = b
  /\ recorded' = [recorded EXCEPT ![b] = r]
  /\ UNCHANGED <<life, service, request, refused, origin, home>>

Next ==
  \/ \E b \in SourceBuilds : Refuse(b) \/ Succeed(b)
  \/ \E B \in SUBSET SourceBuilds : End(B)
  \/ \E b \in SourceBuilds, r \in Releases : Deliver(b, r) \/ Record(b, r)
  \/ \E B \in SUBSET SourceBuilds, q \in Requests \cup {NoRequest} :
       \E place \in [B -> Services] : Accept(place, q)

Spec == Init /\ [][Next]_deliveryVars
================================================================================
