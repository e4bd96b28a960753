-------------------------- MODULE Transports_proofs --------------------------
(***************************************************************************)
(* Proofs that each of the buses is the register a transport promises, for *)
(* any people, processes, machines and number of envelopes.                *)
(***************************************************************************)
EXTENDS Transports, FiniteSetTheorems, TLAPS

(* The discipline the hosted buses rely on: the room is opened by one      *)
(* process, a participant has one publisher at a time, and one page of the *)
(* list holds a record of each participant.                                *)
HostedDiscipline ==
  /\ OneOpener /\ OnePerPerson
  /\ IsFiniteSet(People) /\ Cardinality(People) <= Page

Spots == 1 .. Len(docs)

(* The records: well formed, in the one room, one to a participant.        *)
DocsOK ==
  /\ docs \in Seq(Doc)
  /\ \A i \in Spots : docs[i].room = 1
  /\ \A i, j \in Spots : docs[i].who = docs[j].who => i = j

Publishing(q) == q.pc \in {"find", "write"}

(* What a process with a bus knows: the room, and while it publishes the   *)
(* envelope it has, newer than any record, and the record it will update.  *)
ProcOK(q) ==
  \/ /\ q \in [pc : {"off", "create", "ready"}, room : 0..rooms]
     /\ q.pc = "create" => rooms = 0
     /\ q.pc = "ready" => q.room = 1
  \/ /\ \/ q \in [pc : {"find"}, room : 1..rooms, who : People, ver : 1..MaxVersions]
        \/ /\ q \in [pc : {"write"}, room : 1..rooms, who : People, ver : 1..MaxVersions,
                     at : 0..Len(docs)]
           /\ q.at # 0 => docs[q.at].who = q.who
           /\ q.at = 0 => \A i \in Spots : docs[i].who # q.who
     /\ q.ver = emitted[q.who]
     /\ \A i \in Spots : docs[i].who = q.who => docs[i].ver < q.ver

(* Inductive: OneDocEach strengthened with what the processes know.        *)
HostedInv ==
  /\ rooms \in 0..1
  /\ emitted \in [People -> 0..MaxVersions]
  /\ DocsOK
  /\ \A i \in Spots : docs[i].ver <= emitted[docs[i].who]
  /\ DOMAIN proc = Procs
  /\ \A p \in Procs : ProcOK(proc[p])
  /\ \A p, q \in Procs : proc[p].pc = "create" /\ proc[q].pc = "create" => p = q
  /\ \A p, q \in Procs :
       (Publishing(proc[p]) /\ Publishing(proc[q]) /\ proc[p].who = proc[q].who) => p = q

----------------------------------------------------------------------------
(* One record to a participant fits the page, so a list shows all of them, *)
(* and the first match is the last (linear.go:225-258, github.go:241-268). *)

LEMMA PageHolds ==
  ASSUME HostedDiscipline, DocsOK
  PROVE  Listed(1) = Spots
<1>1. Len(docs) \in Nat /\ InRoom(1) = Spots
  BY DEF DocsOK, InRoom, Spots
<1>2. \A i \in Spots : docs[i].who \in People
  <2>1. \A i \in Spots : docs[i] \in Doc
    BY DEF DocsOK, Spots
  <2> QED
    BY <2>1 DEF Doc
<1>3. ASSUME NEW i \in Spots
      PROVE  Cardinality({j \in InRoom(1) : j <= i}) <= Page
  <2> DEFINE S == {j \in InRoom(1) : j <= i}
             f == [j \in S |-> docs[j].who]
  <2>1. S \subseteq Spots
    BY <1>1
  <2> HIDE DEF S
  <2>2. f \in Injection(S, People)
    BY <1>2, <2>1 DEF Injection, IsInjective, DocsOK
  <2> HIDE DEF f
  <2>3. IsFiniteSet(S) /\ Cardinality(S) <= Cardinality(People)
    BY <2>2, FS_Injection DEF HostedDiscipline
  <2>4. Cardinality(S) \in Nat /\ Cardinality(People) \in Nat
    BY <2>3, FS_CardinalityType DEF HostedDiscipline
  <2>5. Cardinality(S) <= Page
    BY <2>3, <2>4, HostedAssumption DEF HostedDiscipline
  <2> QED
    BY <2>5 DEF S
<1> QED
  BY <1>1, <1>3 DEF Listed

(* What a list finds and a Collect shows of a participant.                 *)
Shown ==
  \A w \in People :
    /\ \A i \in Spots : docs[i].who = w =>
         FirstDoc(1, w) = i /\ Collected(1)[w] = docs[i].ver
    /\ (\A i \in Spots : docs[i].who # w) =>
         FirstDoc(1, w) = 0 /\ Collected(1)[w] = 0

LEMMA ShownOK == HostedDiscipline => (DocsOK => Shown)
<1> SUFFICES ASSUME HostedDiscipline, DocsOK PROVE Shown
  OBVIOUS
<1>1. Listed(1) = Spots /\ Len(docs) \in Nat
  BY PageHolds DEF DocsOK
<1>2. \A w \in People : OwnDocs(1, w) = {i \in Spots : docs[i].who = w}
  BY <1>1 DEF OwnDocs
<1>3. ASSUME NEW w \in People, NEW i \in Spots, docs[i].who = w
      PROVE  FirstDoc(1, w) = i /\ Collected(1)[w] = docs[i].ver
  <2>1. OwnDocs(1, w) = {i} /\ i \in Nat /\ i # 0
    BY <1>2, <1>3, <1>1 DEF DocsOK, Spots
  <2>2. FirstDoc(1, w) = i
    BY <2>1 DEF FirstDoc
  <2>3. LastDoc(1, w) = i
    BY <2>1 DEF LastDoc
  <2> QED
    BY <2>1, <2>2, <2>3 DEF Collected, VersionAt
<1>4. ASSUME NEW w \in People, \A i \in Spots : docs[i].who # w
      PROVE  FirstDoc(1, w) = 0 /\ Collected(1)[w] = 0
  <2>1. OwnDocs(1, w) = {}
    BY <1>2, <1>4
  <2> QED
    BY <2>1 DEF FirstDoc, LastDoc, Collected, VersionAt
<1> QED
  BY <1>3, <1>4 DEF Shown

----------------------------------------------------------------------------
(* The hosted buses, step by step.                                         *)

LEMMA HostedInit == Init => HostedInv
<1> SUFFICES ASSUME Init PROVE HostedInv
  OBVIOUS
<1>1. docs = <<>> /\ Len(docs) = 0 /\ Spots = {}
  BY DEF Init, Spots
<1>2. /\ DOMAIN proc = Procs
      /\ \A p \in Procs : proc[p] = [pc |-> "off", room |-> 0]
  BY DEF Init, Bound
<1>3. \A p \in Procs : ProcOK(proc[p])
  BY <1>2 DEF Init, ProcOK
<1>4. DocsOK
  BY <1>1 DEF DocsOK
<1> QED
  BY <1>1, <1>2, <1>3, <1>4, HostedAssumption DEF Init, HostedInv, Publishing

(* A step that moves one process and leaves the room and its records be.   *)
LEMMA ProcMoves ==
  ASSUME HostedInv, NEW p \in Procs, NEW q, Goes(p, q), UNCHANGED <<rooms, docs, emitted>>,
         ProcOK(q), ~(Publishing(q) /\ ~Publishing(proc[p])),
         Publishing(q) => q.who = proc[p].who,
         q.pc = "create" => \A r \in Procs : proc[r].pc # "create"
  PROVE  HostedInv'
<1>1. /\ DOMAIN proc' = Procs /\ proc'[p] = q
      /\ \A r \in Procs \ {p} : proc'[r] = proc[r]
  BY DEF Goes, HostedInv
<1>2. \A r \in Procs : ProcOK(proc'[r])
  BY <1>1 DEF HostedInv
<1>3. \A r \in Procs : ProcOK(proc[r])'
  BY <1>2 DEF ProcOK, Spots
<1>4. DocsOK' /\ Spots' = Spots
  BY DEF HostedInv, DocsOK, Spots
<1> QED
  BY <1>1, <1>3, <1>4 DEF HostedInv, Publishing

LEMMA LookStep ==
  ASSUME HostedDiscipline, HostedInv, NEW p \in Procs, Look(p)
  PROVE  HostedInv'
<1>1. proc[p].pc = "off" /\ UNCHANGED <<rooms, docs, emitted>> /\ rooms \in 0..1
  BY DEF Look, HostedInv
<1>2. ASSUME NEW r \in 1..rooms, Goes(p, Bound(r))
      PROVE  HostedInv'
  <2>1. Bound(r) = [pc |-> "ready", room |-> 1] /\ rooms = 1
    BY <1>1, <1>2 DEF Bound
  <2>2. ProcOK([pc |-> "ready", room |-> 1])
    BY <2>1 DEF ProcOK
  <2> QED
    BY <1>1, <1>2, <2>1, <2>2, ProcMoves DEF Publishing
<1>3. ASSUME rooms = 0, Goes(p, [pc |-> "create", room |-> 0]),
             \A q \in Procs : proc[q].pc # "create"
      PROVE  HostedInv'
  <2>1. ProcOK([pc |-> "create", room |-> 0])
    BY <1>3 DEF ProcOK
  <2> QED
    BY <1>1, <1>3, <2>1, ProcMoves DEF Publishing
<1> QED
  BY <1>2, <1>3 DEF Look, HostedDiscipline

LEMMA FailStep ==
  ASSUME HostedInv, NEW p \in Procs, Fail(p)
  PROVE  HostedInv'
<1>1. Bound(0) = [pc |-> "off", room |-> 0]
  BY DEF Bound
<1>2. ProcOK([pc |-> "off", room |-> 0])
  BY DEF ProcOK, HostedInv
<1> QED
  BY <1>1, <1>2, ProcMoves DEF Fail, Publishing

LEMMA FindStep ==
  ASSUME HostedDiscipline, HostedInv, NEW p \in Procs, Find(p)
  PROVE  HostedInv'
<1> DEFINE c == proc[p]
           i == FirstDoc(1, c.who)
           q == [pc |-> "write", room |-> c.room, who |-> c.who, ver |-> c.ver, at |-> i]
<1>1. c.pc = "find" /\ ProcOK(c) /\ rooms \in 0..1
  BY DEF Find, HostedInv
<1>2. /\ c \in [pc : {"find"}, room : 1..rooms, who : People, ver : 1..MaxVersions]
      /\ c.room = 1 /\ c.who \in People
  BY <1>1 DEF ProcOK
<1>3. Shown
  BY ShownOK DEF HostedInv
<1>4. /\ i \in 0..Len(docs) /\ (i # 0 => docs[i].who = c.who)
      /\ (i = 0 => \A j \in Spots : docs[j].who # c.who)
  BY <1>2, <1>3 DEF Shown, Spots, HostedInv, DocsOK
<1>5. Goes(p, q) /\ UNCHANGED <<rooms, docs, emitted>>
  BY <1>2 DEF Find, Target
<1> HIDE DEF i
<1>6. /\ q \in [pc : {"write"}, room : 1..rooms, who : People, ver : 1..MaxVersions,
               at : 0..Len(docs)]
      /\ q.who = c.who /\ q.ver = c.ver /\ q.at = i /\ q.pc = "write"
  BY <1>2, <1>4
<1> HIDE DEF q
<1>7. ProcOK(q)
  BY <1>1, <1>4, <1>6 DEF ProcOK
<1> QED
  BY <1>1, <1>5, <1>6, <1>7, ProcMoves DEF Publishing

LEMMA CreateRoomStep ==
  ASSUME HostedInv, NEW p \in Procs, CreateRoom(p)
  PROVE  HostedInv'
<1>1. /\ proc[p].pc = "create" /\ UNCHANGED <<docs, emitted>> /\ rooms = 0
      /\ rooms' = 1 /\ Goes(p, Bound(1))
  BY DEF CreateRoom, HostedInv, ProcOK
<1>2. /\ DOMAIN proc' = Procs /\ proc'[p] = [pc |-> "ready", room |-> 1]
      /\ \A r \in Procs \ {p} : proc'[r] = proc[r] /\ proc[r].pc # "create"
  BY <1>1 DEF Goes, Bound, HostedInv
<1>3. ASSUME NEW r \in Procs PROVE ProcOK(proc[r])'
  BY <1>1, <1>2 DEF HostedInv, ProcOK, Spots
<1>4. DocsOK' /\ Spots' = Spots
  BY <1>1 DEF HostedInv, DocsOK, Spots
<1> QED
  BY <1>1, <1>2, <1>3, <1>4 DEF HostedInv, Publishing

LEMMA EmitStep ==
  ASSUME HostedDiscipline, HostedInv, NEW p \in Procs, NEW w \in People, Emit(p, w)
  PROVE  HostedInv'
<1> DEFINE v == emitted[w] + 1
           q == Holding(1, w, v)
<1>1. /\ proc[p].pc = "ready" /\ proc[p].room = 1 /\ ProcOK(proc[p])
      /\ emitted[w] < MaxVersions /\ emitted[w] \in Nat
      /\ emitted' = [emitted EXCEPT ![w] = v] /\ UNCHANGED <<rooms, docs>>
      /\ emitted' \in [People -> 0..MaxVersions] /\ rooms = 1
  BY HostedAssumption DEF Emit, HostedInv, ProcOK
<1>2. /\ DOMAIN proc' = Procs /\ proc'[p] = q
      /\ \A r \in Procs \ {p} : proc'[r] = proc[r]
      /\ \A r \in Procs : Publishing(proc[r]) => proc[r].who # w
  BY <1>1 DEF Emit, Goes, HostedInv, HostedDiscipline, Publishing
<1>3. /\ q \in [pc : {"find"}, room : 1..rooms, who : People, ver : 1..MaxVersions]
      /\ q.pc = "find" /\ q.who = w /\ q.ver = v
  BY <1>1, HostedAssumption DEF Holding
<1>4. DocsOK' /\ Spots' = Spots /\ DocsOK /\ \A i \in Spots : docs[i].who \in People /\ docs[i].ver \in Nat
  <2>1. \A i \in Spots : docs[i] \in Doc
    BY DEF HostedInv, DocsOK, Spots
  <2> QED
    BY <1>1, <2>1 DEF HostedInv, DocsOK, Spots, Doc
<1> HIDE DEF q
<1>5. ProcOK(proc[p])'
  <2>1. \A i \in Spots : docs[i].who = w => docs[i].ver < v
    BY <1>1, <1>4 DEF HostedInv
  <2> QED
    BY <1>1, <1>2, <1>3, <1>4, <2>1 DEF ProcOK
<1>6. ASSUME NEW r \in Procs \ {p} PROVE ProcOK(proc[r])'
  <2>1. ProcOK(proc[r]) /\ (Publishing(proc[r]) => proc[r].who # w)
    BY <1>2 DEF HostedInv
  <2>2. Publishing(proc[r]) => emitted'[proc[r].who] = emitted[proc[r].who]
    BY <1>1, <2>1 DEF ProcOK, Publishing, HostedInv
  <2> QED
    BY <1>1, <1>2, <1>4, <2>1, <2>2 DEF ProcOK, Publishing
<1>7. \A i \in Spots : docs[i].ver <= emitted'[docs[i].who]
  BY <1>1, <1>4 DEF HostedInv
<1> QED
  BY <1>1, <1>2, <1>3, <1>4, <1>5, <1>6, <1>7 DEF HostedInv, Publishing

LEMMA WriteStep ==
  ASSUME HostedDiscipline, HostedInv, NEW p \in Procs, Write(p)
  PROVE  HostedInv' /\ \E w \in People, v \in 1..MaxVersions : Bus!Publish(w, v)
<1> DEFINE c == proc[p]
           d == [room |-> 1, who |-> c.who, ver |-> c.ver]
<1>1. c.pc = "write" /\ ProcOK(c) /\ rooms \in 0..1 /\ UNCHANGED <<rooms, emitted>>
  BY DEF Write, HostedInv
<1>2. /\ c \in [pc : {"write"}, room : 1..rooms, who : People, ver : 1..MaxVersions,
               at : 0..Len(docs)]
      /\ c.at # 0 => docs[c.at].who = c.who
      /\ c.at = 0 => \A i \in Spots : docs[i].who # c.who
      /\ c.ver = emitted[c.who]
      /\ \A i \in Spots : docs[i].who = c.who => docs[i].ver < c.ver
  BY <1>1 DEF ProcOK
<1>3. /\ c.room = 1 /\ rooms = 1 /\ c.who \in People /\ c.ver \in 1..MaxVersions
      /\ c.at \in 0..Len(docs) /\ d \in Doc
  BY <1>1, <1>2 DEF Doc
<1>4. /\ docs \in Seq(Doc) /\ Len(docs) \in Nat /\ DocsOK
      /\ \A i \in Spots : docs[i] \in Doc /\ docs[i].room = 1 /\ docs[i].who \in People
                          /\ docs[i].ver \in Nat
  <2>1. DocsOK /\ \A i \in Spots : docs[i] \in Doc
    BY DEF HostedInv, DocsOK, Spots
  <2> QED
    BY <2>1 DEF DocsOK, Doc
<1> HIDE DEF d
(* The records after: the writer's is there, the others are as they were.  *)
<1>5. PICK k \in Spots' :
        /\ docs' \in Seq(Doc) /\ Spots \subseteq Spots'
        /\ docs'[k] = d /\ \A i \in Spots' \ {k} : i \in Spots /\ docs'[i] = docs[i]
        /\ \A i \in Spots : i # k => docs[i].who # c.who
        /\ k \notin Spots => \A i \in Spots : docs[i].who # c.who
        /\ k \in Spots => docs[k].who = c.who
  <2>1. CASE c.at = 0
    <3> DEFINE k == Len(docs) + 1
    <3>1. docs' = Append(docs, d)
      BY <1>3, <2>1 DEF Write, d
    <3>2. docs' \in Seq(Doc) /\ Len(docs') = Len(docs) + 1 /\ docs'[k] = d
      BY <1>3, <1>4, <3>1
    <3>3. \A i \in 1..Len(docs) : docs'[i] = docs[i]
      BY <1>4, <3>1
    <3> QED
      BY <1>2, <1>4, <2>1, <3>2, <3>3 DEF Spots
  <2>2. CASE c.at # 0
    <3>1. /\ docs' = [docs EXCEPT ![c.at].ver = c.ver]
          /\ c.at \in Spots /\ docs[c.at].who = c.who
      BY <1>2, <1>3, <2>2 DEF Write, Spots
    <3>2. [docs[c.at] EXCEPT !.ver = c.ver] = d
      BY <1>3, <1>4, <3>1 DEF Doc, d
    <3>3. docs' = [docs EXCEPT ![c.at] = d]
      BY <3>1, <3>2
    <3>4. docs' \in Seq(Doc) /\ Len(docs') = Len(docs) /\ docs'[c.at] = d
          /\ \A i \in Spots \ {c.at} : docs'[i] = docs[i]
      BY <1>3, <1>4, <3>1, <3>3 DEF Spots
    <3>5. \A i \in Spots : i # c.at => docs[i].who # c.who
      BY <1>4, <3>1 DEF DocsOK
    <3> QED
      BY <3>1, <3>4, <3>5 DEF Spots
  <2> QED
    BY <2>1, <2>2
<1>6. d.room = 1 /\ d.who = c.who /\ d.ver = c.ver
  BY DEF d
<1>7. DocsOK' /\ \A i \in Spots' : docs'[i].ver <= emitted'[docs'[i].who]
  <2>1. ASSUME NEW i \in Spots'
        PROVE  /\ docs'[i].room = 1
               /\ docs'[i].ver <= emitted'[docs'[i].who]
    <3>1. CASE i = k
      BY <1>1, <1>2, <1>3, <1>5, <1>6, <3>1
    <3>2. CASE i # k
      BY <1>1, <1>4, <1>5, <3>2 DEF HostedInv
    <3> QED
      BY <3>1, <3>2
  <2>2. ASSUME NEW i \in Spots', NEW j \in Spots', docs'[i].who = docs'[j].who
        PROVE  i = j
    <3>1. CASE i = k \/ j = k
      BY <1>5, <1>6, <2>2, <3>1
    <3>2. CASE i # k /\ j # k
      <4>1. i \in Spots /\ j \in Spots /\ docs[i].who = docs[j].who
        BY <1>5, <2>2, <3>2
      <4> QED
        BY <1>4, <4>1 DEF DocsOK
    <3> QED
      BY <3>1, <3>2
  <2> QED
    BY <1>5, <2>1, <2>2 DEF DocsOK
<1>8. /\ DOMAIN proc' = Procs
      /\ proc'[p] \in {[pc |-> "off", room |-> 0], [pc |-> "ready", room |-> 1]}
      /\ \A r \in Procs \ {p} : proc'[r] = proc[r]
  BY <1>3 DEF Write, Goes, Bound, HostedInv
<1>9. ASSUME NEW r \in Procs \ {p} PROVE ProcOK(proc[r])'
  <2>1. ProcOK(proc[r]) /\ (Publishing(proc[r]) => proc[r].who # c.who)
    BY <1>1 DEF HostedInv, Publishing
  <2>2. ASSUME Publishing(proc[r]), NEW i \in Spots', docs'[i].who = proc[r].who
        PROVE  i \in Spots /\ docs'[i] = docs[i]
    BY <1>5, <1>6, <2>1, <2>2
  <2>3. ASSUME proc[r].pc = "write", proc[r].at # 0
        PROVE  /\ proc[r].at \in Spots /\ proc[r].at \in Spots'
               /\ docs'[proc[r].at].who = proc[r].who
    <3>1. proc[r].at \in 0..Len(docs) /\ docs[proc[r].at].who = proc[r].who
      BY <2>1, <2>3 DEF ProcOK
    <3>2. proc[r].at \in Spots
      BY <2>3, <3>1, <1>4 DEF Spots
    <3> QED
      BY <1>5, <2>1, <2>3, <3>1, <3>2 DEF Publishing
  <2>4. 0..Len(docs) \subseteq 0..Len(docs')
    <3>1. Len(docs') \in Nat
      BY <1>5
    <3> QED
      BY <1>4, <1>5, <3>1 DEF Spots
  <2>5. CASE proc[r].pc = "write"
    <3>1. proc[r].at = 0 => \A i \in Spots' : docs'[i].who # proc[r].who
      BY <2>1, <2>2, <2>5 DEF ProcOK, Publishing
    <3>2. \A i \in Spots' : docs'[i].who = proc[r].who => docs'[i].ver < proc[r].ver
      BY <2>1, <2>2, <2>5 DEF ProcOK, Publishing
    <3>3. /\ proc[r] \in [pc : {"write"}, room : 1..rooms, who : People, ver : 1..MaxVersions,
                          at : 0..Len(docs)]
          /\ proc[r].ver = emitted[proc[r].who]
      BY <2>1, <2>5 DEF ProcOK
    <3>4. proc[r] \in [pc : {"write"}, room : 1..rooms, who : People, ver : 1..MaxVersions,
                       at : 0..Len(docs')]
      BY <2>4, <3>3
    <3> QED
      BY <1>1, <1>8, <2>3, <2>5, <3>1, <3>2, <3>3, <3>4 DEF ProcOK
  <2>6. CASE proc[r].pc = "find"
    BY <1>1, <1>8, <2>1, <2>2, <2>6 DEF ProcOK, Publishing
  <2>7. CASE ~Publishing(proc[r])
    BY <1>1, <1>8, <2>1, <2>7 DEF ProcOK, Publishing
  <2> QED
    BY <2>5, <2>6, <2>7 DEF Publishing
<1>10. ProcOK(proc[p])'
  BY <1>1, <1>3, <1>8 DEF ProcOK
<1>11. HostedInv'
  BY <1>1, <1>3, <1>7, <1>8, <1>9, <1>10 DEF HostedInv, Publishing
<1>12. Bus!Publish(c.who, c.ver)
  <2>1. Shown
    BY <1>4, ShownOK
  <2>2. Shown'
    BY <1>7, ShownOK, PTL
  <2>3. c.ver > Collected(1)[c.who]
    <3>1. CASE k \in Spots
      BY <1>2, <1>3, <1>4, <1>5, <2>1, <3>1 DEF Shown
    <3>2. CASE k \notin Spots
      BY <1>3, <1>5, <2>1, <3>2 DEF Shown
    <3> QED
      BY <3>1, <3>2
  <2>4. ASSUME NEW w \in People
        PROVE  Collected(1)'[w] = IF w = c.who THEN c.ver ELSE Collected(1)[w]
    <3>1. CASE w = c.who
      BY <1>5, <1>6, <2>2, <3>1 DEF Shown
    <3>2. ASSUME w # c.who, NEW i \in Spots, docs[i].who = w
          PROVE  Collected(1)'[w] = Collected(1)[w]
      <4>1. i \in Spots' /\ docs'[i] = docs[i]
        BY <1>5, <3>2
      <4> QED
        BY <2>1, <2>2, <3>2, <4>1 DEF Shown
    <3>3. ASSUME w # c.who, \A i \in Spots : docs[i].who # w
          PROVE  Collected(1)'[w] = Collected(1)[w]
      <4>1. \A i \in Spots' : docs'[i].who # w
        BY <1>5, <1>6, <3>3
      <4> QED
        BY <2>1, <2>2, <3>3, <4>1 DEF Shown
    <3> QED
      BY <3>1, <3>2, <3>3
  <2>5. Collected(1)' = [Collected(1) EXCEPT ![c.who] = c.ver]
    BY <1>3, <2>4 DEF Collected
  <2> QED
    BY <2>3, <2>5 DEF Bus!Publish
<1> QED
  BY <1>3, <1>11, <1>12

(* Whatever leaves the records alone leaves what a Collect shows alone.    *)
LEMMA SameRecords ==
  ASSUME UNCHANGED docs
  PROVE  UNCHANGED Collected(1)
BY DEF Collected, VersionAt, LastDoc, OwnDocs, Listed, InRoom

LEMMA HostedStep ==
  ASSUME HostedDiscipline, HostedInv, Next
  PROVE  HostedInv' /\ (Bus!Next \/ UNCHANGED Collected(1))
<1>1. PICK p \in Procs :
        \/ Look(p) \/ CreateRoom(p) \/ Find(p) \/ Write(p) \/ Fail(p)
        \/ \E w \in People : Emit(p, w)
  BY DEF Next
<1>2. CASE Write(p)
  BY <1>2, WriteStep DEF Bus!Next
<1>3. CASE ~Write(p)
  <2>1. HostedInv'
    BY <1>1, <1>3, LookStep, CreateRoomStep, FindStep, FailStep, EmitStep
  <2>2. UNCHANGED docs
    BY <1>1, <1>3 DEF Look, CreateRoom, Find, Fail, Emit
  <2> QED
    BY <2>1, <2>2, SameRecords
<1> QED
  BY <1>2, <1>3

----------------------------------------------------------------------------
(* A room is on one bus: what the two others keep stays as it was.         *)
Unused ==
  /\ scheme \in {"hosted", "folder", "lane"}
  /\ scheme # "hosted" => rooms = 0 /\ docs = <<>> /\ \A p \in Procs : proc[p].pc = "off"
  /\ scheme # "folder" => temps = {}

Versions == 0..MaxVersions
EmittedOK == emitted \in [People -> Versions]
Emits == EmittedOK' /\ \A w \in People : emitted'[w] = emitted[w] \/ emitted'[w] = emitted[w] + 1

LEMMA EmitsOne ==
  ASSUME EmittedOK, NEW w \in People, emitted[w] < MaxVersions,
         emitted' = [emitted EXCEPT ![w] = @ + 1]
  PROVE  Emits
BY HostedAssumption DEF EmittedOK, Emits, Versions

LEMMA HostedEmits ==
  ASSUME EmittedOK, Next
  PROVE  Emits
<1>1. \/ UNCHANGED emitted
      \/ \E w \in People : emitted[w] < MaxVersions /\ emitted' = [emitted EXCEPT ![w] = @ + 1]
  BY DEF Next, Look, CreateRoom, Find, Write, Fail, Emit
<1>2. CASE UNCHANGED emitted
  BY <1>2 DEF EmittedOK, Emits
<1> QED
  BY <1>1, <1>2, EmitsOne

LEMMA FolderEmits ==
  ASSUME EmittedOK, Folder!Next
  PROVE  Emits
<1>1. \/ UNCHANGED emitted
      \/ \E w \in People : emitted[w] < MaxVersions /\ emitted' = [emitted EXCEPT ![w] = @ + 1]
  BY DEF Folder!Next, Folder!WriteTemp, Folder!Rename, Folder!Abandon, Folder!Sync,
         Folder!SyncCopies
<1>2. CASE UNCHANGED emitted
  BY <1>2 DEF EmittedOK, Emits
<1> QED
  BY <1>1, <1>2, EmitsOne

LEMMA LaneEmits ==
  ASSUME EmittedOK, Lane!Next
  PROVE  Emits
<1>1. \/ UNCHANGED emitted
      \/ \E w \in People : emitted[w] < MaxVersions /\ emitted' = [emitted EXCEPT ![w] = @ + 1]
  <2>1. PICK m \in Machines :
          \/ Lane!GitClone(m) \/ Lane!Seed(m) \/ Lane!Push(m) \/ Lane!SaveRoom(m)
          \/ Lane!Fail(m) \/ Lane!PushLane(m)
          \/ \E w \in People : Lane!Publish(m, w) \/ Lane!Fetch(m, w)
    BY DEF Lane!Next
  <2>2. CASE \E w \in People : Lane!Publish(m, w)
    BY <2>2 DEF Lane!Publish
  <2>3. CASE ~\E w \in People : Lane!Publish(m, w)
    BY <2>1, <2>3 DEF Lane!GitClone, Lane!Seed, Lane!Push, Lane!SaveRoom, Lane!Fail,
                      Lane!PushLane, Lane!Fetch
  <2> QED
    BY <2>2, <2>3
<1>2. CASE UNCHANGED emitted
  BY <1>2 DEF EmittedOK, Emits
<1> QED
  BY <1>1, <1>2, EmitsOne

LEMMA UnusedInit == BusInit => Unused
BY DEF BusInit, Init, Bound, Folder!Init, Unused

LEMMA UnusedStep ==
  ASSUME Unused, [BusNext]_<<scheme, vars, folder, lane>>
  PROVE  Unused'
BY DEF Unused, BusNext, vars, hosted, folder, lane

LEMMA HostedBusStep ==
  ASSUME HostedDiscipline, Unused, HostedInv, [BusNext]_<<scheme, vars, folder, lane>>
  PROVE  HostedInv' /\ (Bus!Next \/ UNCHANGED Collected(1))
<1>1. CASE scheme = "hosted" /\ Next
  BY <1>1, HostedStep
<1>2. CASE UNCHANGED <<hosted, emitted>>
  <2>1. HostedInv'
    BY <1>2 DEF HostedInv, DocsOK, ProcOK, Spots, Publishing, hosted
  <2> QED
    BY <1>2, <2>1, SameRecords DEF hosted
<1>3. CASE scheme # "hosted" /\ (Folder!Next \/ Lane!Next) /\ UNCHANGED hosted
  <2>1. EmittedOK
    BY DEF HostedInv, EmittedOK, Versions
  <2>2. EmittedOK'
    BY <1>3, <2>1, FolderEmits, LaneEmits DEF Emits
  <2>3. /\ rooms = 0 /\ docs = <<>> /\ Len(docs) = 0 /\ Spots = {}
        /\ \A p \in Procs : proc[p].pc = "off"
        /\ UNCHANGED <<rooms, docs, proc>>
    BY <1>3 DEF Unused, Spots, hosted
  <2>4. Spots' = {}
    BY <2>3 DEF Spots
  <2>5. ASSUME NEW p \in Procs PROVE ProcOK(proc[p])'
    BY <2>3, <2>4 DEF HostedInv, ProcOK
  <2>6. HostedInv'
    BY <2>2, <2>3, <2>4, <2>5 DEF HostedInv, DocsOK, EmittedOK, Versions, Publishing
  <2> QED
    BY <2>3, <2>6, SameRecords
<1> QED
  BY <1>1, <1>2, <1>3 DEF BusNext, vars, hosted, folder, lane

LEMMA OneDocEachOK == HostedInv => OneDocEach
<1> SUFFICES ASSUME HostedInv PROVE OneDocEach
  OBVIOUS
<1>1. TypeOK
  BY HostedAssumption DEF HostedInv, DocsOK, ProcOK, TypeOK
<1> QED
  BY <1>1 DEF HostedInv, DocsOK, Spots, OneDocEach

(* linear.go 111-113, github.go 87-89: under the discipline, whatever      *)
(* publishes interleave and whichever of them die, a room is one project   *)
(* or discussion and nobody ever has two records in it.                    *)
THEOREM HostedOneDocEach ==
  ASSUME HostedDiscipline
  PROVE  BusSpec => []OneDocEach
<1>1. BusInit => Unused /\ HostedInv
  BY UnusedInit, HostedInit DEF BusInit
<1>2. Unused /\ HostedInv /\ [BusNext]_<<scheme, vars, folder, lane>> => (Unused /\ HostedInv)'
  BY UnusedStep, HostedBusStep
<1> QED
  BY <1>1, <1>2, OneDocEachOK, PTL DEF BusSpec

(* linear.go 104-113, github.go 80-89: and the room is the register a      *)
(* transport promises, so that Collect never shows a participant's earlier *)
(* envelope again (AtomBus, step by step).                                 *)
THEOREM HostedReplaces ==
  ASSUME HostedDiscipline
  PROVE  BusSpec => Replaces
<1>1. BusInit => Unused /\ HostedInv
  BY UnusedInit, HostedInit DEF BusInit
<1>2. Unused /\ HostedInv /\ [BusNext]_<<scheme, vars, folder, lane>> => (Unused /\ HostedInv)'
  BY UnusedStep, HostedBusStep
<1>3. BusInit => Bus!Init
  <2> SUFFICES ASSUME BusInit PROVE Collected(1) = [w \in People |-> 0]
    BY DEF Bus!Init
  <2>1. docs = <<>> /\ Len(docs) = 0 /\ Spots = {} /\ DocsOK
    BY <1>1 DEF BusInit, Init, Spots, HostedInv
  <2>2. \A w \in People : Collected(1)[w] = 0
    BY <2>1, ShownOK DEF Shown
  <2> QED
    BY <2>2 DEF Collected
<1>4. Unused /\ HostedInv /\ [BusNext]_<<scheme, vars, folder, lane>>
        => [Bus!Next]_(Collected(1))
  BY HostedBusStep
<1> QED
  BY <1>1, <1>2, <1>3, <1>4, PTL DEF BusSpec, Replaces, Bus!Spec

----------------------------------------------------------------------------
(* The folder.  A participant has at most one temp file, and it is newer   *)
(* than every replica of the participant's file.                           *)
FileSet == [ver : Versions, seen : SUBSET Versions]
Temp    == [on : Machines, who : People, ver : 1..MaxVersions]

FolderInv ==
  /\ EmittedOK
  /\ files \in [Machines -> [People -> FileSet]]
  /\ temps \subseteq Temp
  /\ \A m \in Machines, w \in People : files[m][w].ver <= emitted[w]
  /\ \A t \in temps :
       /\ t.ver = emitted[t.who]
       /\ \A m \in Machines : files[m][t.who].ver < t.ver
  /\ \A t, u \in temps : t.who = u.who => t = u

FolderShown == [x \in Replicas |-> Folder!Collected(x[1])[x[2]]]

LEMMA FolderShows ==
  FolderShown = [x \in Replicas |-> files[x[1]][x[2]].ver]
BY DEF FolderShown, Replicas, Folder!Collected

(* One replica moves to another version of the file, never an older one.   *)
MovesTo(m, w, f) ==
  /\ files' = [files EXCEPT ![m][w] = f] /\ UNCHANGED emitted /\ temps' \subseteq temps
  /\ f.ver <= emitted[w] /\ files[m][w].ver <= f.ver
  /\ \A t \in temps' : t.who = w => f.ver < t.ver

LEMMA FileMoves ==
  ASSUME FolderInv, NEW m \in Machines, NEW w \in People, NEW f \in FileSet,
         MovesTo(m, w, f)
  PROVE  FolderInv' /\ (FolderViews!Next \/ UNCHANGED FolderShown)
<1> USE DEF MovesTo
<1>1. /\ files' \in [Machines -> [People -> FileSet]]
      /\ files'[m][w] = f
      /\ \A n \in Machines, x \in People : <<n, x>> # <<m, w>> => files'[n][x] = files[n][x]
  BY DEF FolderInv
<1>2. FolderInv'
  <2>1. \A n \in Machines, x \in People : files'[n][x].ver <= emitted'[x]
    BY <1>1 DEF FolderInv
  <2>2. ASSUME NEW t \in temps', NEW n \in Machines PROVE files'[n][t.who].ver < t.ver
    <3>1. t \in temps /\ t.who \in People
      BY DEF FolderInv, Temp
    <3>2. CASE n = m /\ t.who = w
      BY <1>1, <3>2
    <3>3. CASE <<n, t.who>> # <<m, w>>
      BY <1>1, <3>1, <3>3 DEF FolderInv
    <3> QED
      BY <3>2, <3>3
  <2> QED
    BY <1>1, <2>1, <2>2 DEF FolderInv, EmittedOK
<1>3. /\ FolderShown  = [x \in Replicas |-> files[x[1]][x[2]].ver]
      /\ FolderShown' = [x \in Replicas |-> files'[x[1]][x[2]].ver]
  BY DEF FolderShown, Replicas, Folder!Collected
<1>4. <<m, w>> \in Replicas /\ FolderShown[<<m, w>>] = files[m][w].ver
  BY <1>3 DEF Replicas
<1>5. FolderShown' = [FolderShown EXCEPT ![<<m, w>>] = f.ver]
  <2>1. ASSUME NEW x \in Replicas
        PROVE  FolderShown'[x] = IF x = <<m, w>> THEN f.ver ELSE FolderShown[x]
    <3>1. x = <<x[1], x[2]>> /\ x[1] \in Machines /\ x[2] \in People
      BY DEF Replicas
    <3> QED
      BY <1>1, <1>3, <3>1
  <2> QED
    BY <1>3, <2>1
<1>6. f.ver \in Versions /\ files[m][w].ver \in Versions
  BY DEF FolderInv, FileSet
<1>7. CASE files[m][w].ver < f.ver
  <2>1. f.ver \in 1..MaxVersions
    BY <1>6, <1>7, HostedAssumption DEF Versions
  <2> QED
    BY <1>2, <1>4, <1>5, <1>7, <2>1 DEF FolderViews!Next, FolderViews!Publish, FolderShown
<1>8. CASE files[m][w].ver = f.ver
  BY <1>2, <1>3, <1>4, <1>5, <1>8
<1> QED
  BY <1>6, <1>7, <1>8, HostedAssumption DEF Versions

LEMMA FolderStep ==
  ASSUME OnePerPerson, FolderInv, Folder!Next
  PROVE  FolderInv' /\ (FolderViews!Next \/ UNCHANGED FolderShown)
<1>1. ASSUME NEW m \in Machines, NEW w \in People, Folder!WriteTemp(m, w)
      PROVE  FolderInv' /\ UNCHANGED FolderShown
  <2> DEFINE t == [on |-> m, who |-> w, ver |-> emitted[w] + 1]
  <2>1. /\ emitted[w] \in Versions /\ emitted[w] < MaxVersions
        /\ emitted' = [emitted EXCEPT ![w] = @ + 1]
        /\ temps' = temps \cup {t} /\ UNCHANGED files
        /\ \A u \in temps : u.who # w
    BY <1>1 DEF Folder!WriteTemp, FolderInv, EmittedOK
  <2>2. t \in Temp /\ t.who = w /\ t.ver = emitted[w] + 1
    BY <2>1, HostedAssumption DEF Temp, Versions
  <2> HIDE DEF t
  <2>3. EmittedOK' /\ emitted'[w] = emitted[w] + 1
        /\ \A x \in People : x # w => emitted'[x] = emitted[x]
    BY <2>1, EmitsOne DEF FolderInv, Emits, EmittedOK
  <2>4. \A n \in Machines, x \in People :
          files[n][x].ver <= emitted[x] /\ files[n][x].ver \in Nat /\ emitted[x] \in Nat
    BY HostedAssumption DEF FolderInv, FileSet, EmittedOK, Versions
  <2>5. \A n \in Machines, x \in People : files'[n][x].ver <= emitted'[x]
    BY <2>1, <2>3, <2>4
  <2>6. ASSUME NEW u \in temps'
        PROVE  /\ u.ver = emitted'[u.who]
               /\ \A n \in Machines : files'[n][u.who].ver < u.ver
    <3>1. CASE u = t
      BY <2>1, <2>2, <2>3, <2>4, <3>1
    <3>2. CASE u \in temps
      <4>1. u.who \in People /\ u.who # w
        BY <2>1, <3>2 DEF FolderInv, Temp
      <4> QED
        BY <2>1, <2>3, <3>2, <4>1 DEF FolderInv
    <3> QED
      BY <2>1, <3>1, <3>2
  <2>7. \A u, v \in temps' : u.who = v.who => u = v
    BY <2>1, <2>2 DEF FolderInv
  <2>8. FolderInv'
    BY <2>1, <2>2, <2>3, <2>5, <2>6, <2>7 DEF FolderInv
  <2> QED
    BY <2>1, <2>8 DEF FolderShown, Folder!Collected
<1>2. ASSUME NEW t \in temps, Folder!Rename(t)
      PROVE  FolderInv' /\ (FolderViews!Next \/ UNCHANGED FolderShown)
  <2> DEFINE m == t.on
             w == t.who
             f == Folder!File(t.ver, files[m][w].seen \cup {t.ver})
  <2>1. m \in Machines /\ w \in People /\ t.ver \in 1..MaxVersions /\ t.ver \in Versions
    BY HostedAssumption DEF FolderInv, Temp, Versions
  <2>2. files[m][w] \in FileSet
    BY <2>1 DEF FolderInv
  <2>3. f \in FileSet /\ f.ver = t.ver
    BY <2>1, <2>2 DEF FileSet, Folder!File
  <2>4. /\ files' = [files EXCEPT ![m][w] = f]
        /\ temps' = temps \ {t} /\ UNCHANGED emitted
    BY <1>2 DEF Folder!Rename
  <2> HIDE DEF f
  <2>5. t.ver <= emitted[w] /\ files[m][w].ver <= t.ver /\ \A u \in temps' : u.who # w
    <3>1. emitted[w] \in Nat /\ files[m][w].ver \in Nat
      BY <2>1, <2>2, HostedAssumption DEF FolderInv, EmittedOK, Versions, FileSet
    <3> QED
      BY <2>1, <2>4, <3>1 DEF FolderInv
  <2> QED
    <3>1. MovesTo(m, w, f)
      BY <2>3, <2>4, <2>5 DEF MovesTo
    <3> QED
      BY <2>1, <2>3, <3>1, FileMoves
<1>3. ASSUME NEW t \in temps, Folder!Abandon(t)
      PROVE  FolderInv' /\ UNCHANGED FolderShown
  BY <1>3 DEF Folder!Abandon, FolderInv, EmittedOK, FolderShown, Folder!Collected
<1>4. ASSUME NEW m \in Machines, NEW n \in Machines, Folder!SyncCopies(m, n)
      PROVE  FolderInv' /\ UNCHANGED FolderShown
  BY <1>4 DEF Folder!SyncCopies, FolderInv, EmittedOK, FolderShown, Folder!Collected
<1>5. ASSUME NEW m \in Machines, NEW n \in Machines, NEW w \in People, Folder!Sync(m, n, w)
      PROVE  FolderInv' /\ (FolderViews!Next \/ UNCHANGED FolderShown)
  <2> DEFINE f == files[m][w]
             g == files[n][w]
             h == Folder!File(Folder!Newer(f, g).ver, f.seen \cup g.seen)
  <2>1. f \in FileSet /\ g \in FileSet
    BY DEF FolderInv
  <2>2. /\ h \in FileSet /\ g.ver <= h.ver /\ (h.ver = f.ver \/ h.ver = g.ver)
    BY <2>1, HostedAssumption DEF FileSet, Folder!File, Folder!Newer, Versions
  <2>3. files' = [files EXCEPT ![n][w] = h] /\ UNCHANGED <<emitted, temps>>
    BY <1>5 DEF Folder!Sync
  <2> HIDE DEF h
  <2>4. h.ver <= emitted[w] /\ \A t \in temps' : t.who = w => h.ver < t.ver
    BY <2>2, <2>3 DEF FolderInv
  <2> QED
    <3>1. MovesTo(n, w, h)
      BY <2>2, <2>3, <2>4 DEF MovesTo
    <3> QED
      BY <2>2, <3>1, FileMoves
<1> QED
  BY <1>1, <1>2, <1>3, <1>4, <1>5 DEF Folder!Next

LEMMA FolderBusStep ==
  ASSUME OnePerPerson, Unused, FolderInv, [BusNext]_<<scheme, vars, folder, lane>>
  PROVE  FolderInv' /\ (FolderViews!Next \/ UNCHANGED FolderShown)
<1>1. CASE scheme = "folder" /\ Folder!Next
  BY <1>1, FolderStep
<1>2. CASE scheme # "folder" /\ (Next \/ Lane!Next) /\ UNCHANGED folder
  <2>1. /\ temps = {} /\ UNCHANGED <<files, copies, temps>>
        /\ EmittedOK /\ files \in [Machines -> [People -> FileSet]]
    BY <1>2 DEF Unused, FolderInv, folder
  <2>2. Emits
    BY <1>2, <2>1, HostedEmits, LaneEmits
  <2>3. \A m \in Machines, w \in People : files'[m][w].ver <= emitted'[w]
    <3>1. \A m \in Machines, w \in People :
            files[m][w].ver <= emitted[w] /\ files[m][w].ver \in Nat /\ emitted[w] \in Nat
      BY HostedAssumption DEF FolderInv, FileSet, EmittedOK, Versions
    <3> QED
      BY <2>1, <2>2, <3>1 DEF Emits
  <2> QED
    BY <2>1, <2>2, <2>3 DEF FolderInv, Emits, FolderShown, Folder!Collected
<1>3. CASE UNCHANGED <<vars, folder>>
  BY <1>3 DEF FolderInv, EmittedOK, vars, folder, FolderShown, Folder!Collected
<1> QED
  BY <1>1, <1>2, <1>3 DEF BusNext, vars, hosted, folder, lane

(* dir.go 78-81, 117-148: with one publisher per participant at a time, on *)
(* every machine and through any order in which replicas meet, a Collect   *)
(* of the folder is the register a transport promises: a torn or an older  *)
(* envelope is never shown after a newer one.                              *)
THEOREM FolderIsRegister ==
  ASSUME OnePerPerson
  PROVE  BusSpec => FolderReplaces
<1>1. BusInit => Unused /\ FolderInv
  <2> SUFFICES ASSUME BusInit PROVE FolderInv
    BY UnusedInit
  <2>1. 0 \in Versions
    BY HostedAssumption DEF Versions
  <2>2. /\ emitted = [w \in People |-> 0] /\ temps = {}
        /\ files = [m \in Machines |-> [w \in People |-> [ver |-> 0, seen |-> {}]]]
    BY DEF BusInit, Init, Folder!Init, Folder!File
  <2>3. [ver |-> 0, seen |-> {}] \in FileSet
    BY <2>1 DEF FileSet
  <2> QED
    BY <2>1, <2>2, <2>3 DEF FolderInv, EmittedOK
<1>2. Unused /\ FolderInv /\ [BusNext]_<<scheme, vars, folder, lane>> => (Unused /\ FolderInv)'
  BY UnusedStep, FolderBusStep
<1>3. BusInit => FolderViews!Init
  <2> SUFFICES ASSUME BusInit PROVE FolderShown = [x \in Replicas |-> 0]
    BY DEF FolderViews!Init, FolderShown
  <2>1. \A m \in Machines, w \in People : files[m][w].ver = 0
    BY DEF BusInit, Folder!Init, Folder!File
  <2> QED
    BY <2>1, FolderShows DEF Replicas
<1>4. Unused /\ FolderInv /\ [BusNext]_<<scheme, vars, folder, lane>>
        => [FolderViews!Next]_([x \in Replicas |-> Folder!Collected(x[1])[x[2]]])
  BY FolderBusStep DEF FolderShown
<1> QED
  BY <1>1, <1>2, <1>3, <1>4, PTL DEF BusSpec, FolderReplaces, FolderViews!Spec

----------------------------------------------------------------------------
(* The lanes.  Nobody's replica of a lane is ahead of its owner's, and the *)
(* owner's is the last envelope the participant set out to publish.        *)
Places == Machines \cup {None}

LaneInv ==
  /\ EmittedOK
  /\ lanes \in [Places -> [People -> Versions]]
  /\ \A w \in People :
       /\ lanes[Agent[w]][w] <= emitted[w]
       /\ \A x \in Places : lanes[x][w] <= lanes[Agent[w]][w]

LaneShown == [x \in Replicas |-> Lane!Collected(x[1])[x[2]]]

(* One replica moves to a later version of a lane.                         *)
LaneMovesTo(m, w, v) ==
  /\ lanes' = [lanes EXCEPT ![m][w] = v]
  /\ lanes[m][w] < v
  /\ IF m = Agent[w] THEN v <= emitted'[w] ELSE v <= lanes[Agent[w]][w]

LEMMA LaneMoves ==
  ASSUME LaneInv, Emits, NEW m \in Machines, NEW w \in People, NEW v \in Versions,
         LaneMovesTo(m, w, v)
  PROVE  LaneInv' /\ LaneViews!Next
<1>1. \A p \in People : Agent[p] \in Places
  BY TransportsAssumption DEF Places
<1>2. /\ m \in Places /\ lanes' \in [Places -> [People -> Versions]]
      /\ lanes'[m][w] = v
      /\ \A x \in Places, p \in People : <<x, p>> # <<m, w>> => lanes'[x][p] = lanes[x][p]
  BY DEF LaneInv, LaneMovesTo, Places
<1>3. \A x \in Places, p \in People : lanes[x][p] \in Nat /\ emitted[p] \in Nat /\ v \in Nat
  BY HostedAssumption DEF LaneInv, EmittedOK, Versions
<1>4. ASSUME NEW p \in People
      PROVE  /\ lanes'[Agent[p]][p] <= emitted'[p]
             /\ \A x \in Places : lanes'[x][p] <= lanes'[Agent[p]][p]
  <2>1. emitted[p] <= emitted'[p]
    BY <1>3, <1>1 DEF Emits
  <2>2. CASE p # w
    BY <1>1, <1>2, <1>3, <2>1, <2>2 DEF LaneInv, Emits
  <2>3. CASE p = w /\ m = Agent[w]
    BY <1>1, <1>2, <1>3, <2>3 DEF LaneInv, LaneMovesTo
  <2>4. CASE p = w /\ m # Agent[w]
    BY <1>1, <1>2, <1>3, <2>1, <2>4 DEF LaneInv, LaneMovesTo, Emits
  <2> QED
    BY <2>2, <2>3, <2>4
<1>5. LaneInv'
  BY <1>2, <1>4 DEF LaneInv, Emits
<1>6. /\ LaneShown  = [x \in Replicas |-> lanes[x[1]][x[2]]]
      /\ LaneShown' = [x \in Replicas |-> lanes'[x[1]][x[2]]]
  BY DEF LaneShown, Replicas, Lane!Collected
<1>7. <<m, w>> \in Replicas /\ LaneShown[<<m, w>>] = lanes[m][w]
  BY <1>6 DEF Replicas
<1>8. LaneShown' = [LaneShown EXCEPT ![<<m, w>>] = v]
  <2>1. ASSUME NEW x \in Replicas
        PROVE  LaneShown'[x] = IF x = <<m, w>> THEN v ELSE LaneShown[x]
    <3>1. x = <<x[1], x[2]>> /\ x[1] \in Places /\ x[2] \in People
      BY DEF Replicas, Places
    <3> QED
      BY <1>2, <1>6, <3>1
  <2> QED
    BY <1>6, <2>1
<1>9. v \in 1..MaxVersions /\ v > LaneShown[<<m, w>>]
  BY <1>2, <1>3, <1>7, HostedAssumption DEF LaneMovesTo, Versions
<1> QED
  BY <1>5, <1>7, <1>8, <1>9 DEF LaneViews!Next, LaneViews!Publish, LaneShown

LEMMA LaneStep ==
  ASSUME LaneInv, Lane!Next
  PROVE  LaneInv' /\ (LaneViews!Next \/ UNCHANGED LaneShown)
<1> Emits
  BY LaneEmits DEF LaneInv
<1>1. \A p \in People : Agent[p] \in Machines
  BY TransportsAssumption
<1>2. ASSUME NEW m \in Machines, NEW w \in People, Lane!Publish(m, w)
      PROVE  LaneInv' /\ LaneViews!Next
  <2>1. /\ m = Agent[w] /\ emitted[w] < MaxVersions /\ emitted'[w] = emitted[w] + 1
        /\ lanes' = [lanes EXCEPT ![m][w] = emitted[w] + 1]
        /\ emitted[w] \in Versions /\ lanes[m][w] <= emitted[w] /\ lanes[m][w] \in Versions
    BY <1>2 DEF Lane!Publish, LaneInv, EmittedOK, Places
  <2>2. emitted[w] + 1 \in Versions /\ lanes[m][w] < emitted[w] + 1
    BY <2>1, HostedAssumption DEF Versions
  <2>3. LaneMovesTo(m, w, emitted[w] + 1)
    BY <2>1, <2>2, HostedAssumption DEF LaneMovesTo, Versions
  <2> QED
    BY <2>2, <2>3, LaneMoves
<1>3. ASSUME NEW m \in Machines, NEW w \in People, Lane!Fetch(m, w)
      PROVE  LaneInv' /\ LaneViews!Next
  <2>1. /\ m # Agent[w] /\ lanes[m][w] < lanes[None][w]
        /\ lanes' = [lanes EXCEPT ![m][w] = lanes[None][w]]
        /\ lanes[None][w] \in Versions /\ lanes[None][w] <= lanes[Agent[w]][w]
    BY <1>3 DEF Lane!Fetch, Lane!Owned, LaneInv, Places
  <2>2. LaneMovesTo(m, w, lanes[None][w])
    BY <2>1 DEF LaneMovesTo
  <2> QED
    BY <2>1, <2>2, LaneMoves
<1>4. ASSUME NEW m \in Machines, Lane!PushLane(m)
      PROVE  LaneInv' /\ UNCHANGED LaneShown
  <2> DEFINE new == [w \in People |-> IF w \in Lane!Owned(m) THEN lanes[m][w] ELSE lanes[None][w]]
  <2>1. lanes' = [lanes EXCEPT ![None] = new] /\ UNCHANGED emitted
    BY <1>4 DEF Lane!PushLane
  <2>2. new \in [People -> Versions]
        /\ \A w \in People : new[w] <= lanes[Agent[w]][w]
    BY <1>1, HostedAssumption DEF LaneInv, Lane!Owned, Places, Versions
  <2> HIDE DEF new
  <2>3. /\ lanes' \in [Places -> [People -> Versions]] /\ lanes'[None] = new
        /\ \A x \in Machines : lanes'[x] = lanes[x]
    BY <2>1, <2>2, TransportsAssumption DEF LaneInv, Places
  <2>4. LaneInv'
    BY <1>1, <2>1, <2>2, <2>3 DEF LaneInv, EmittedOK, Places
  <2>5. UNCHANGED LaneShown
    BY <2>3 DEF LaneShown, Replicas, Lane!Collected
  <2> QED
    BY <2>4, <2>5
<1>5. ASSUME UNCHANGED <<emitted, lanes>>
      PROVE  LaneInv' /\ UNCHANGED LaneShown
  BY <1>5 DEF LaneInv, EmittedOK, LaneShown, Lane!Collected
<1>6. PICK m \in Machines :
        \/ Lane!GitClone(m) \/ Lane!Seed(m) \/ Lane!Push(m) \/ Lane!SaveRoom(m)
        \/ Lane!Fail(m) \/ Lane!PushLane(m)
        \/ \E w \in People : Lane!Publish(m, w) \/ Lane!Fetch(m, w)
  BY DEF Lane!Next
<1>7. CASE Lane!GitClone(m) \/ Lane!Seed(m) \/ Lane!Push(m) \/ Lane!SaveRoom(m) \/ Lane!Fail(m)
  BY <1>5, <1>7 DEF Lane!GitClone, Lane!Seed, Lane!Push, Lane!SaveRoom, Lane!Fail
<1> QED
  BY <1>2, <1>3, <1>4, <1>6, <1>7

(* The other buses never touch a lane.                                     *)
LEMMA LaneBusStep ==
  ASSUME LaneInv, [BusNext]_<<scheme, vars, folder, lane>>
  PROVE  LaneInv' /\ (LaneViews!Next \/ UNCHANGED LaneShown)
<1>1. CASE Lane!Next
  BY <1>1, LaneStep
<1>2. CASE (Next \/ Folder!Next) /\ UNCHANGED lane
  <2>1. Emits
    BY <1>2, HostedEmits, FolderEmits DEF LaneInv
  <2>2. \A w \in People : lanes'[Agent[w]][w] <= emitted'[w]
    <3>1. \A w \in People :
            /\ lanes[Agent[w]][w] <= emitted[w] /\ lanes[Agent[w]][w] \in Nat
            /\ emitted[w] \in Nat
      BY HostedAssumption, TransportsAssumption DEF LaneInv, EmittedOK, Versions, Places
    <3> QED
      BY <1>2, <2>1, <3>1 DEF Emits, lane
  <2> QED
    BY <1>2, <2>1, <2>2 DEF LaneInv, Emits, LaneShown, Lane!Collected, lane
<1>3. CASE UNCHANGED <<vars, lane>>
  BY <1>3 DEF LaneInv, EmittedOK, vars, lane, LaneShown, Lane!Collected
<1> QED
  BY <1>1, <1>2, <1>3 DEF BusNext, vars, hosted, folder, lane

(* leat.go 42-43, 85-87: each participant has one agent, so on every       *)
(* machine a Collect of a lane room is the register a transport promises,  *)
(* in whatever order lanes are pushed and fetched.                         *)
THEOREM LaneIsRegister == BusSpec => LaneReplaces
<1>1. BusInit => LaneInv /\ LaneViews!Init
  <2> SUFFICES ASSUME BusInit PROVE LaneInv /\ LaneShown = [x \in Replicas |-> 0]
    BY DEF LaneViews!Init, LaneShown
  <2>1. 0 \in Versions /\ \A w \in People : Agent[w] \in Places
    BY HostedAssumption, TransportsAssumption DEF Versions, Places
  <2>2. /\ emitted = [w \in People |-> 0]
        /\ lanes = [x \in Places |-> [w \in People |-> 0]]
    BY DEF BusInit, Init, Lane!Init, Lane!NoLanes, Places
  <2>3. LaneInv
    BY <2>1, <2>2 DEF LaneInv, EmittedOK
  <2>4. LaneShown = [x \in Replicas |-> 0]
    BY <2>2 DEF LaneShown, Replicas, Lane!Collected, Places
  <2> QED
    BY <2>3, <2>4
<1>2. LaneInv /\ [BusNext]_<<scheme, vars, folder, lane>> => LaneInv'
  BY LaneBusStep
<1>3. LaneInv /\ [BusNext]_<<scheme, vars, folder, lane>>
        => [LaneViews!Next]_([x \in Replicas |-> Lane!Collected(x[1])[x[2]]])
  BY LaneBusStep DEF LaneShown
<1> QED
  BY <1>1, <1>2, <1>3, PTL DEF BusSpec, LaneReplaces, LaneViews!Spec

----------------------------------------------------------------------------
(* Joining a lane room.                                                    *)

(* Inductive: who has the remote's first commit has the one there is, and  *)
(* a seed that is not pushed is its maker's own.                           *)
JoinInv ==
  /\ clone \in [Machines -> [pc : {"absent", "empty", "unpushed", "seeded", "joined", "stuck"},
                            root : Places]]
  /\ root \in Places
  /\ \A m \in Machines :
       /\ clone[m].pc \in {"seeded", "joined"} => root # None /\ clone[m].root = root
       /\ clone[m].pc = "unpushed" => clone[m].root = m

LEMMA JoinStep ==
  ASSUME JoinInv, [BusNext]_<<scheme, vars, folder, lane>>
  PROVE  JoinInv'
<1>1. CASE UNCHANGED <<root, clone>>
  BY <1>1 DEF JoinInv
<1>2. CASE Lane!Next
  <2>1. PICK m \in Machines :
          \/ Lane!GitClone(m) \/ Lane!Seed(m) \/ Lane!Push(m) \/ Lane!SaveRoom(m)
          \/ Lane!Fail(m) \/ Lane!PushLane(m)
          \/ \E w \in People : Lane!Publish(m, w) \/ Lane!Fetch(m, w)
    BY <1>2 DEF Lane!Next
  <2>2. CASE Lane!GitClone(m)
    BY <2>2 DEF JoinInv, Lane!GitClone, Lane!Clone, Places
  <2>3. CASE Lane!Seed(m)
    BY <2>3 DEF JoinInv, Lane!Seed, Lane!Clone, Places
  <2>4. CASE Lane!Push(m)
    <3>1. CASE root = None
      BY <2>4, <3>1, TransportsAssumption DEF JoinInv, Lane!Push, Places
    <3>2. CASE root # None
      BY <2>4, <3>2 DEF JoinInv, Lane!Push
    <3> QED
      BY <3>1, <3>2
  <2>5. CASE Lane!SaveRoom(m)
    BY <2>5 DEF JoinInv, Lane!SaveRoom
  <2>6. CASE Lane!Fail(m)
    BY <2>6 DEF JoinInv, Lane!Fail
  <2>7. CASE Lane!PushLane(m) \/ \E w \in People : Lane!Publish(m, w) \/ Lane!Fetch(m, w)
    BY <2>7, <1>1 DEF Lane!PushLane, Lane!Publish, Lane!Fetch
  <2> QED
    BY <2>1, <2>2, <2>3, <2>4, <2>5, <2>6, <2>7
<1> QED
  BY <1>1, <1>2 DEF BusNext, vars, hosted, folder, lane

(* room.go 637-638: of all who found the remote empty one seeds it, and    *)
(* nobody joins on a first commit of their own.                            *)
THEOREM JoinedShareHistory == BusSpec => []OneHistory
<1>1. BusInit => JoinInv
  BY DEF BusInit, Lane!Init, Lane!Clone, JoinInv, Places
<1>2. JoinInv /\ [BusNext]_<<scheme, vars, folder, lane>> => JoinInv'
  BY JoinStep
<1>3. JoinInv => OneHistory
  BY DEF JoinInv, OneHistory
<1> QED
  BY <1>1, <1>2, <1>3, PTL DEF BusSpec
=============================================================================
