----------------------------- MODULE FolderBus -----------------------------
(***************************************************************************)
(* The file bus (dir.go): a folder a team already shares, with one file    *)
(* per participant that each publish replaces by a rename, and a Collect   *)
(* that trusts the name of a file before what is in it.  The folder is     *)
(* replicated between machines by a sync tool, which is not ettle's: it    *)
(* carries a file to a machine that has an older state of it, and where    *)
(* two machines wrote it apart it keeps the newer and renames the older.   *)
(***************************************************************************)
EXTENDS Naturals, FiniteSets

CONSTANTS
  People,       \* participants, by the name of their file
  Machines,     \* machines the folder is replicated on
  MaxVersions,  \* BOUND: envelopes per participant
  MarksCopies,  \* the sync tool's name for a conflict copy is a known one
  OnePerPerson  \* at most one process at a time publishes for a participant

VARIABLES
  emitted,  \* the latest version each participant set out to publish
  files,    \* each machine's file of each participant
  copies,   \* each machine's conflict copies
  temps     \* temp files not renamed yet

vars == <<emitted, files, copies, temps>>

(* seen: the versions the file descends from, as the sync tool knows it.   *)
File(v, seen) == [ver |-> v, seen |-> seen]

Init ==
  /\ emitted = [w \in People |-> 0]
  /\ files = [m \in Machines |-> [w \in People |-> File(0, {})]]
  /\ copies = [m \in Machines |-> {}]
  /\ temps = {}

WriteInPlace(m, w) ==
  /\ emitted[w] < MaxVersions
  /\ OnePerPerson => ~\E t \in temps : t.who = w
  /\ emitted' = [emitted EXCEPT ![w] = @ + 1]
  /\ temps' = temps \cup {[on |-> m, who |-> w, ver |-> emitted[w] + 1]}
  /\ files' = [files EXCEPT ![m][w].ver = 0]
  /\ UNCHANGED copies

(* Publish: stamp, write a temp file, rename it over the participant's.    *)
WriteTemp(m, w) ==
  /\ emitted[w] < MaxVersions
  /\ OnePerPerson => ~\E t \in temps : t.who = w
  /\ emitted' = [emitted EXCEPT ![w] = @ + 1]
  /\ temps' = temps \cup {[on |-> m, who |-> w, ver |-> emitted[w] + 1]}
  /\ UNCHANGED <<files, copies>>

Rename(t) ==
  /\ files' = [files EXCEPT ![t.on][t.who] = File(t.ver, @.seen \cup {t.ver})]
  /\ temps' = temps \ {t}
  /\ UNCHANGED <<emitted, copies>>

(* A kill or an error before the rename; the temp file's name is no        *)
(* participant's.                                                          *)
Abandon(t) ==
  /\ temps' = temps \ {t}
  /\ UNCHANGED <<emitted, files, copies>>

Newer(f, g) == IF f.ver >= g.ver THEN f ELSE g
Older(f, g) == IF f.ver >= g.ver THEN g ELSE f

(* The sync tool: from machine m to machine n, then the copies.            *)
Sync(m, n, w) ==
  LET f == files[m][w]
      g == files[n][w]
  IN /\ ~(f.seen \subseteq g.seen)
     /\ files' = [files EXCEPT ![n][w] = File(Newer(f, g).ver, f.seen \cup g.seen)]
     /\ copies' = IF g.seen \subseteq f.seen THEN copies
                  ELSE [copies EXCEPT ![n] = @ \cup {[of |-> w, ver |-> Older(f, g).ver]}]
     /\ UNCHANGED <<emitted, temps>>

SyncCopies(m, n) ==
  /\ ~(copies[m] \subseteq copies[n])
  /\ copies' = [copies EXCEPT ![n] = @ \cup copies[m]]
  /\ UNCHANGED <<emitted, files, temps>>

Next ==
  \/ \E m \in Machines, w \in People : WriteTemp(m, w)
  \/ \E t \in temps : Rename(t) \/ Abandon(t)
  \/ \E m, n \in Machines : SyncCopies(m, n) \/ \E w \in People : Sync(m, n, w)

Spec == Init /\ [][Next]_vars

-----------------------------------------------------------------------------
(* Collect at a machine.                                                   *)

SkippedNever(c) == FALSE
Skipped(c) == MarksCopies

(* The names that come back: a copy that is not skipped is one more.       *)
Roster(m) ==
  {<<w>> : w \in {p \in People : files[m][p].ver # 0}}
    \cup {<<c.of, c.ver>> : c \in {d \in copies[m] : ~Skipped(d)}}

Collected(m) == [w \in People |-> files[m][w].ver]
=============================================================================
