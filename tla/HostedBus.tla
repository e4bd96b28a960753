----------------------------- MODULE HostedBus -----------------------------
(***************************************************************************)
(* The two buses a team does not have to run: a Linear project holding one *)
(* document per participant, a GitHub Discussion holding one comment per   *)
(* participant.  Both look the room up and create it if it is absent, both *)
(* upsert by listing and then updating or creating, and both read one page *)
(* of the list only.  The service offers no conditional write, so every    *)
(* look-then-write of two processes may interleave.  A process is an       *)
(* `ettle capture` or `ettle pull` that publishes once, or an MCP server   *)
(* that keeps its bus; `ettle pull` publishes for somebody else.           *)
(***************************************************************************)
EXTENDS Naturals, Sequences, FiniteSets

CONSTANTS
  People,       \* participants
  Procs,        \* processes that hold a bus
  MaxVersions,  \* BOUND: envelopes per participant
  Page,         \* records the service returns in one list
  OneOpener,    \* at most one process at a time opens a room that is not there
  OnePerPerson  \* at most one process at a time publishes for a participant

ASSUME HostedAssumption ==
  /\ MaxVersions \in Nat
  /\ Page \in Nat \ {0}
  /\ OneOpener \in BOOLEAN /\ OnePerPerson \in BOOLEAN

VARIABLES
  rooms,    \* projects, or discussions, that carry the room's name
  docs,     \* their records, in creation order
  emitted,  \* the latest version each participant set out to publish
  proc      \* each process: where it is and what it knows

vars == <<rooms, docs, emitted, proc>>

Doc == [room : {1, 2}, who : People, ver : 1..MaxVersions]

(* at: the record to update, 0 to create one.                              *)
Bound(r)      == [pc |-> IF r = 0 THEN "off" ELSE "ready", room |-> r]
Holding(r, w, v) == [pc |-> "find", room |-> r, who |-> w, ver |-> v]

TypeOK ==
  /\ rooms \in 0..2
  /\ docs \in Seq(Doc)
  /\ emitted \in [People -> 0..MaxVersions]
  /\ \A p \in Procs :
       \/ proc[p] \in [pc : {"off", "create", "ready"}, room : 0..rooms]
       \/ proc[p] \in [pc : {"find"}, room : 1..rooms, who : People, ver : 1..MaxVersions]
       \/ proc[p] \in [pc : {"write"}, room : 1..rooms, who : People, ver : 1..MaxVersions,
                       at : 0..Len(docs)]

Init ==
  /\ rooms = 0
  /\ docs = <<>>
  /\ emitted = [w \in People |-> 0]
  /\ proc = [p \in Procs |-> Bound(0)]

----------------------------------------------------------------------------
(* One list: the first page of a room's records.                           *)

InRoom(r) == {i \in 1..Len(docs) : docs[i].room = r}
Listed(r) == {i \in InRoom(r) : Cardinality({j \in InRoom(r) : j <= i}) <= Page}
OwnDocsAny(r, w) == Listed(r)
OwnDocs(r, w) == {i \in Listed(r) : docs[i].who = w}

(* upsert and the capture's ownAtoms take the first match, the fold of a   *)
(* Collect keeps the last one.                                             *)
Never(r, w) == 0
FirstDoc(r, w) ==
  IF OwnDocs(r, w) = {} THEN 0
  ELSE CHOOSE i \in OwnDocs(r, w) : \A j \in OwnDocs(r, w) : i <= j
LastDoc(r, w) ==
  IF OwnDocs(r, w) = {} THEN 0
  ELSE CHOOSE i \in OwnDocs(r, w) : \A j \in OwnDocs(r, w) : j <= i
VersionAt(i) == IF i = 0 THEN 0 ELSE docs[i].ver

(* What Collect, folded to one envelope per participant, shows of w.       *)
Collected(r) == [w \in People |-> VersionAt(LastDoc(r, w))]

----------------------------------------------------------------------------
(* A process constructs its bus: resolveProject, resolveDiscussion.  A     *)
(* public repository, or a workspace that is not the room's, is refused:   *)
(* the process stays off.                                                  *)

Goes(p, q) == proc' = [proc EXCEPT ![p] = q]

Look(p) ==
  /\ proc[p].pc = "off"
  /\ \/ \E r \in 1..rooms : Goes(p, Bound(r))
     \/ /\ rooms = 0
        /\ OneOpener => \A q \in Procs : proc[q].pc # "create"
        /\ Goes(p, [pc |-> "create", room |-> 0])
  /\ UNCHANGED <<rooms, docs, emitted>>

CreateRoom(p) ==
  /\ proc[p].pc = "create"
  /\ rooms < 2
  /\ rooms' = rooms + 1
  /\ Goes(p, Bound(rooms + 1))
  /\ UNCHANGED <<docs, emitted>>

----------------------------------------------------------------------------
(* Publish: list, then update the first match or create.                   *)

Emit(p, w) ==
  /\ proc[p].pc = "ready"
  /\ emitted[w] < MaxVersions
  /\ OnePerPerson => \A q \in Procs :
                       proc[q].pc \in {"find", "write"} => proc[q].who # w
  /\ emitted' = [emitted EXCEPT ![w] = @ + 1]
  /\ Goes(p, Holding(proc[p].room, w, emitted[w] + 1))
  /\ UNCHANGED <<rooms, docs>>

Target(r, w) == FirstDoc(r, w)

Find(p) ==
  LET q == proc[p] IN
  /\ q.pc = "find"
  /\ Goes(p, [pc |-> "write", room |-> q.room, who |-> q.who, ver |-> q.ver,
              at |-> Target(q.room, q.who)])
  /\ UNCHANGED <<rooms, docs, emitted>>

(* A capture or a pull exits, an MCP server keeps its bus.                 *)
Write(p) ==
  LET q == proc[p] IN
  /\ q.pc = "write"
  /\ docs' = IF q.at = 0
             THEN Append(docs, [room |-> q.room, who |-> q.who, ver |-> q.ver])
             ELSE [docs EXCEPT ![q.at].ver = q.ver]
  /\ \/ Goes(p, Bound(0))
     \/ Goes(p, Bound(q.room))
  /\ UNCHANGED <<rooms, emitted>>

(* A kill, a rate limit or an error of the service, before the write.      *)
Fail(p) ==
  /\ proc[p].pc # "off"
  /\ Goes(p, Bound(0))
  /\ UNCHANGED <<rooms, docs, emitted>>

----------------------------------------------------------------------------
Next ==
  \E p \in Procs :
    \/ Look(p) \/ CreateRoom(p) \/ Find(p) \/ Write(p) \/ Fail(p)
    \/ \E w \in People : Emit(p, w)

Spec == Init /\ [][Next]_vars

----------------------------------------------------------------------------
(* The room every process that is bound is bound to, when there is one.    *)
Bus == INSTANCE AtomBus WITH current <- Collected(1)

(* One room, one publisher per participant at a time, a page that holds    *)
(* the team: the bus is the register transport.go promises, through any    *)
(* interleaving of different participants' publishes and any failure.      *)
Replaces == Bus!Spec

(* "Each participant is one document, and its content is that person's     *)
(* latest envelope" (linear.go:111-113, github.go:87-89), in a room that   *)
(* is one project, one discussion (linear.go:21, github.go:5): the state   *)
(* is well formed and nothing is ever there twice, so the document that a  *)
(* publish or ownAtoms finds first is the one the fold of a Collect keeps. *)
OneDocEach ==
  /\ TypeOK
  /\ rooms <= 1
  /\ \A i, j \in 1..Len(docs) :
       (docs[i].room = docs[j].room /\ docs[i].who = docs[j].who) => i = j
============================================================================
