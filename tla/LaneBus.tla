------------------------------ MODULE LaneBus ------------------------------
(***************************************************************************)
(* The git-repo bus (leat.go) and joining it (room.go): `ettle room init`  *)
(* and `ettle room join` clone the repository, seed it with a first commit *)
(* and push that if it is empty, and save the room; from then on each      *)
(* agent appends to a lane of its own.  The append, the push and the       *)
(* fetch are the leat library's, which is not in the repository.           *)
(***************************************************************************)
EXTENDS Naturals, FiniteSets

CONSTANTS
  People,       \* participants
  Machines,     \* agents, each on a machine of its own
  MaxVersions,  \* BOUND: envelopes per participant
  Agent,        \* the agent each participant publishes through
  None

VARIABLES
  emitted,  \* the latest version each participant set out to publish
  root,     \* the remote's first commit, by who made it
  lanes,    \* each repository's version of each participant's record
  clone     \* each machine's clone: how far joining it got, its first commit

vars == <<emitted, root, lanes, clone>>

Clone(pc, r) == [pc |-> pc, root |-> r]
NoLanes == [w \in People |-> 0]

Init ==
  /\ emitted = NoLanes
  /\ root = None
  /\ lanes = [x \in Machines \cup {None} |-> NoLanes]   \* None: the remote
  /\ clone = [m \in Machines |-> Clone("absent", None)]

-----------------------------------------------------------------------------
(* roomInit, roomJoin: git clone, ensureSeed, saveRoom.  The lanes a clone *)
(* brings are fetched one by one once the room is joined.                  *)

GitClone(m) ==
  /\ clone[m].pc = "absent"
  /\ clone' = [clone EXCEPT ![m] = Clone(IF root = None THEN "empty" ELSE "seeded", root)]
  /\ UNCHANGED <<emitted, root, lanes>>

Seed(m) ==
  /\ clone[m].pc = "empty"
  /\ clone' = [clone EXCEPT ![m] = Clone("unpushed", m)]
  /\ UNCHANGED <<emitted, root, lanes>>

PushAnyway(m) ==
  /\ clone[m].pc = "unpushed"
  /\ root' = IF root = None THEN clone[m].root ELSE root
  /\ clone' = [clone EXCEPT ![m].pc = "seeded"]
  /\ UNCHANGED <<emitted, lanes>>

(* A second seed is not a fast forward, and the command fails.             *)
Push(m) ==
  /\ clone[m].pc = "unpushed"
  /\ IF root = None
     THEN root' = clone[m].root /\ clone' = [clone EXCEPT ![m].pc = "seeded"]
     ELSE clone' = [clone EXCEPT ![m].pc = "stuck"] /\ UNCHANGED root
  /\ UNCHANGED <<emitted, lanes>>

SaveRoom(m) ==
  /\ clone[m].pc = "seeded"
  /\ clone' = [clone EXCEPT ![m].pc = "joined"]
  /\ UNCHANGED <<emitted, root, lanes>>

(* A kill or an error.  The clone stays, so the next try's git clone fails *)
(* until somebody removes it.                                              *)
Fail(m) ==
  /\ clone[m].pc \in {"empty", "unpushed", "seeded"}
  /\ clone' = [clone EXCEPT ![m].pc = "stuck"]
  /\ UNCHANGED <<emitted, root, lanes>>

-----------------------------------------------------------------------------
(* A bus on the room: Publish to the lane, push, fetch.                    *)

Publish(m, w) ==
  /\ clone[m].pc = "joined" /\ m = Agent[w]
  /\ emitted[w] < MaxVersions
  /\ emitted' = [emitted EXCEPT ![w] = @ + 1]
  /\ lanes' = [lanes EXCEPT ![m][w] = emitted[w] + 1]
  /\ UNCHANGED <<root, clone>>

(* leat merges histories that have their first commit in common.           *)
Owned(m) == {w \in People : Agent[w] = m}
Meets(m) == clone[m].pc = "joined" /\ clone[m].root = root

PushLane(m) ==
  /\ Meets(m)
  /\ \E w \in Owned(m) : lanes[None][w] < lanes[m][w]
  /\ lanes' = [lanes EXCEPT ![None] = [w \in People |-> IF w \in Owned(m) THEN lanes[m][w] ELSE @[w]]]
  /\ UNCHANGED <<emitted, root, clone>>

FetchOver(m, w) ==
  /\ Meets(m) /\ lanes[m][w] # lanes[None][w]
  /\ lanes' = [lanes EXCEPT ![m][w] = lanes[None][w]]
  /\ UNCHANGED <<emitted, root, clone>>

Fetch(m, w) ==
  /\ Meets(m) /\ w \notin Owned(m) /\ lanes[m][w] < lanes[None][w]
  /\ lanes' = [lanes EXCEPT ![m][w] = lanes[None][w]]
  /\ UNCHANGED <<emitted, root, clone>>

Next ==
  \E m \in Machines :
    \/ GitClone(m) \/ Seed(m) \/ Push(m) \/ SaveRoom(m) \/ Fail(m) \/ PushLane(m)
    \/ \E w \in People : Publish(m, w) \/ Fetch(m, w)

Spec == Init /\ [][Next]_vars

Collected(m) == lanes[m]
=============================================================================
