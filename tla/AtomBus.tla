------------------------------ MODULE AtomBus ------------------------------
(***************************************************************************)
(* What a transport promises (transport.go, linear.go, github.go): a       *)
(* replace-current register per participant.  Publish makes an envelope    *)
(* the participant's current one, Collect returns every participant's      *)
(* current envelope, and nobody's envelope goes back to an earlier one.    *)
(***************************************************************************)
EXTENDS Naturals

CONSTANTS
  People,       \* participants of the room
  MaxVersions   \* BOUND: envelopes per participant

VARIABLE current   \* the version Collect returns for each, 0 for none

Init == current = [w \in People |-> 0]

Publish(w, v) ==
  /\ v > current[w]
  /\ current' = [current EXCEPT ![w] = v]

Next == \E w \in People, v \in 1..MaxVersions : Publish(w, v)

Spec == Init /\ [][Next]_current
=============================================================================
