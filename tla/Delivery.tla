------------------------------ MODULE Delivery ------------------------------
(***************************************************************************)
(* What the agent's transport promises to the code that queues events: an  *)
(* event that was accepted is handed to the APM server at most once, in    *)
(* requests that carry the oldest ones in the order of acceptance, or it   *)
(* is lost: given up, or gone with the thread that had it.  Transport      *)
(* implements this specification.                                          *)
(***************************************************************************)
EXTENDS Naturals, Sequences, Functions

CONSTANT Events

VARIABLES
  accepted,    \* the events that were accepted, oldest first
  delivered,   \* the events of each request that the server has received
  lost         \* given up, or gone with its thread

vars == <<accepted, delivered, lost>>

Settled == lost \cup UNION {Range(delivered[i]) : i \in DOMAIN delivered}
Pending == Range(accepted) \ Settled

\* d was accepted before e.
Earlier(d, e) ==
  \E i, j \in DOMAIN accepted : i < j /\ accepted[i] = d /\ accepted[j] = e

Init ==
  /\ accepted = <<>>
  /\ delivered = <<>>
  /\ lost = {}

Accept(e) ==
  /\ e \notin Range(accepted)
  /\ accepted' = Append(accepted, e)
  /\ UNCHANGED <<delivered, lost>>

\* The oldest pending events reach the server in one request.
Deliver(batch) ==
  /\ \A i, j \in DOMAIN batch : i < j => Earlier(batch[i], batch[j])
  /\ \A d \in Range(batch), e \in Pending \ Range(batch) : Earlier(d, e)
  /\ delivered' = Append(delivered, batch)
  /\ UNCHANGED <<accepted, lost>>

\* The events of S are lost, wherever they wait.
Lose(S) ==
  /\ lost' = lost \cup S
  /\ UNCHANGED <<accepted, delivered>>

Next ==
  \/ \E e \in Events : Accept(e)
  \/ \E n \in 1 .. Len(accepted) : \E batch \in [1 .. n -> Pending] : Deliver(batch)
  \/ \E S \in SUBSET Pending : Lose(S)

Spec == Init /\ [][Next]_vars
=============================================================================
