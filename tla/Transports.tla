----------------------------- MODULE Transports -----------------------------
(***************************************************************************)
(* The bus a room's spec names (bus.go): hosted (linear://, github://),    *)
(* a synced folder (file://) or a git repository (leat://, and --room).    *)
(* A room is on one of them, and each is to be the register AtomBus is: at *)
(* the service, or at every machine that has a replica.                    *)
(***************************************************************************)
EXTENDS HostedBus

CONSTANTS Machines, MarksCopies, Agent, None

ASSUME TransportsAssumption ==
  MarksCopies \in BOOLEAN /\ Agent \in [People -> Machines] /\ None \notin Machines

VARIABLES scheme, files, copies, temps, root, lanes, clone

Folder == INSTANCE FolderBus
Lane   == INSTANCE LaneBus

hosted == <<rooms, docs, proc>>
folder == <<files, copies, temps>>
lane   == <<root, lanes, clone>>

BusInit ==
  /\ Init /\ Folder!Init /\ Lane!Init
  /\ scheme \in {"hosted", "folder", "lane"}

BusNext ==
  /\ UNCHANGED scheme
  /\ \/ scheme = "hosted" /\ Next /\ UNCHANGED <<folder, lane>>
     \/ scheme = "folder" /\ Folder!Next /\ UNCHANGED <<hosted, lane>>
     \/ scheme = "lane" /\ Lane!Next /\ UNCHANGED <<hosted, folder>>

BusSpec == BusInit /\ [][BusNext]_<<scheme, vars, folder, lane>>

-----------------------------------------------------------------------------
(* One register per machine and participant.                               *)
Replicas == Machines \X People
FolderViews == INSTANCE AtomBus WITH People <- Replicas,
                 current <- [x \in Replicas |-> Folder!Collected(x[1])[x[2]]]
LaneViews   == INSTANCE AtomBus WITH People <- Replicas,
                 current <- [x \in Replicas |-> Lane!Collected(x[1])[x[2]]]

(* dir.go 78-81, 144-148: on every machine, whatever order the replicas    *)
(* are brought together in and wherever a publish dies, a Collect finds a  *)
(* whole envelope of each participant and never an earlier one than it     *)
(* found before.                                                           *)
FolderReplaces == FolderViews!Spec

(* dir.go 117-128: a conflict copy that is named as one is nobody's.       *)
RosterIsPeople ==
  \A m \in Machines : Folder!Roster(m) \subseteq {<<w>> : w \in People}

(* leat.go 42-43, 85-87: the same of a lane room, joined in any order.     *)
LaneReplaces == LaneViews!Spec

(* room.go 637-638: whoever has joined shares the room's first commit, so  *)
(* no two of them publish into histories that cannot meet.                 *)
OneHistory == \A m \in Machines : clone[m].pc = "joined" => clone[m].root = root

(* Not so (room.go 384-397): a join that failed past its clone can be      *)
(* tried again.                                                            *)
JoinCanBeRetried == \A m \in Machines : clone[m].pc # "stuck"
=============================================================================
