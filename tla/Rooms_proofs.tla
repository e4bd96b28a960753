--------------------------- MODULE Rooms_proofs ---------------------------
(***************************************************************************)
(* Proofs that what one machine remembers about rooms stays what it was    *)
(* told, for any directories, rooms, workspaces, processes and number of   *)
(* runs and kills.                                                         *)
(***************************************************************************)
EXTENDS Rooms, WellFoundedInduction, TLAPS

Chosen  == Profiles \cup {None}
Entries == [room : RoomNames, profile : Chosen]
Maps    == UNION {[D -> Entries] : D \in SUBSET Dirs}
Ids     == [me : Names \cup {None}, org : Spaces \cup {None}]
Hooks   == SUBSET {"theirs", "ettle"}

EarlyPcs == {"verify", "create", "map", "mapopen", "mapwrite"}
IdentPcs == {"meopen", "mewrite", "orgopen", "orgwrite"}
LatePcs  == {"hooks", "hookopen", "hookwrite"}

(* What a run holds, up to the map, then up to the hooks, then for them.   *)
Early(q) ==
  q \in [pc : EarlyPcs, dir : Dirs, room : RoomNames, me : Names, flag : Chosen,
         profile : Chosen, space : Spaces, ok : BOOLEAN, map : Maps]
Middle(q) ==
  q \in [pc : IdentPcs \cup {"me", "org"}, room : RoomNames, me : Names, space : Spaces,
         ok : BOOLEAN, id : Ids]
Late(q) == q \in [pc : LatePcs, hooks : Hooks]

(* A workspace a run found, or that it is about to record, has the project.*)
Found(q, pj) ==
  /\ (Early(q) \/ Middle(q)) /\ q.ok => q.space \in pj[q.room]
  /\ Middle(q) =>
       /\ q.id.org # None => q.id.org \in pj[q.room]
       /\ q.pc \in {"org", "orgopen", "orgwrite"} => q.ok
ProcOK(q, pj) == (q = Off \/ Early(q) \/ Middle(q) \/ Late(q)) /\ Found(q, pj)

TypeInv ==
  /\ store \in Maps /\ told \in Maps /\ flagged \in [Dirs -> Chosen]
  /\ ident \in [RoomNames -> Ids]
  /\ named \in [RoomNames -> Names \cup {None}] /\ home \in [RoomNames -> Spaces \cup {None}]
  /\ settings \in Hooks /\ bak \in Hooks
  /\ projects \in [RoomNames -> SUBSET Spaces]
  /\ runs \in 0..MaxRuns /\ kills \in 0..MaxKills
  /\ \A r \in RoomNames : ident[r].org # None => ident[r].org \in projects[r]
  /\ DOMAIN proc = Procs /\ \A p \in Procs : ProcOK(proc[p], projects)

(* While no two runs crossed in rooms.json: one run at a time has it, and  *)
(* that run's copy of it is what the directories were told.                *)
StoreInv ==
  "store" \notin crossed =>
    /\ \A p, q \in Procs : InStore(p) /\ InStore(q) => p = q
    /\ \A p \in Procs : InStore(p) => proc[p].map = told
    /\ (\A p \in Procs : proc[p].pc # "mapwrite") => store = told

(* While no two runs crossed in a room's identity: one run at a time has   *)
(* it, and writes what it was told over what was last recorded; a project  *)
(* is only created where it was first found.                               *)
Writes(p, r) ==
  IF proc[p].pc \in {"meopen", "mewrite"}
  THEN proc[p].id = [me |-> proc[p].me, org |-> home[r]]
  ELSE proc[p].id = [me |-> named[r], org |-> proc[p].space] /\ home[r] \in {None, proc[p].space}

IdentAt(r) ==
  r \notin crossed =>
    /\ \A p, q \in Procs : InIdent(p, r) /\ InIdent(q, r) => p = q
    /\ \A p \in Procs : InIdent(p, r) => Writes(p, r)
    /\ ~Emptied(r) => ident[r] = [me |-> named[r], org |-> home[r]]
    /\ \A p \in Procs : Creating(p, r) => home[r] \in {None, proc[p].space}
IdentInv == \A r \in RoomNames : IdentAt(r)

(* While no two installs crossed: one at a time has the settings, with the *)
(* user's hooks in hand and in the backup.                                 *)
HookInv ==
  "settings" \notin crossed =>
    /\ \A p, q \in Procs : InSettings(p) /\ InSettings(q) => p = q
    /\ \A p \in Procs : InSettings(p) => "theirs" \in proc[p].hooks /\ "theirs" \in bak
    /\ "theirs" \in settings \/ (settings = {} /\ "theirs" \in bak)

(* While no init began before another's map was written, what a run is to  *)
(* record for its directory is the profile last typed for it.              *)
TypedInv ==
  {"store", "profile"} \cap crossed = {} =>
    /\ \A p, q \in Procs : BeforeMap(p) /\ BeforeMap(q) => p = q
    /\ \A p \in Procs : BeforeMap(p) =>
         IF proc[p].flag # None THEN proc[p].profile = proc[p].flag
         ELSE flagged[proc[p].dir] # None => proc[p].profile = flagged[proc[p].dir]
    /\ \A d \in Dirs : flagged[d] # None => d \in DOMAIN told /\ told[d].profile = flagged[d]

(* Where nobody typed a profile, none but a room file's is held anywhere.  *)
Plain(map) == \A d \in DOMAIN map : map[d].profile \in FileProfiles
UntypedInv ==
  (\A d \in Dirs : flagged[d] = None) =>
    /\ Plain(store)
    /\ \A p \in Procs : BeforeMap(p) =>
         Plain(proc[p].map) /\ (proc[p].flag = None => proc[p].profile \in FileProfiles)

----------------------------------------------------------------------------
(* Which room governs a directory.                                         *)

(* Some directory of several at or above one is the deepest.               *)
LEMMA DeepestOK ==
  ASSUME NEW d \in Dirs, NEW S, S \subseteq Above[d], S # {}
  PROVE  Deepest(S) \in S /\ \A e \in S : Depth[e] <= Depth[Deepest(S)]
<1> DEFINE up(e) == Depth[d] - Depth[e]
           T == {up(e) : e \in S}
<1>1. \A e \in S : e \in Dirs /\ Depth[e] \in Nat /\ up(e) \in Nat
  BY RoomsAssumption
<1>2. T \subseteq Nat /\ T # {}
  BY <1>1
<1> HIDE DEF T
<1>3. PICK x \in T : \A y \in T : ~(<<y, x>> \in OpToRel(<, Nat))
  BY <1>2, WFMin, NatLessThanWellFounded, Zenon
<1>4. ASSUME NEW y \in T PROVE x <= y
  <2>1. x \in Nat /\ y \in Nat
    BY <1>2
  <2>2. ~(y < x)
    BY <1>3, <2>1 DEF OpToRel
  <2> QED
    BY <2>1, <2>2
<1>5. PICK e \in S : x = up(e)
  BY <1>3 DEF T
<1>6. \A g \in S : Depth[g] <= Depth[e]
  <2> SUFFICES ASSUME NEW g \in S PROVE Depth[g] <= Depth[e]
    OBVIOUS
  <2>1. x <= up(g)
    BY <1>4 DEF T
  <2>2. Depth[g] \in Nat /\ Depth[e] \in Nat /\ Depth[d] \in Nat
    BY <1>1, RoomsAssumption
  <2> QED
    BY <1>5, <2>1, <2>2
<1> QED
  BY <1>5, <1>6 DEF Deepest

LEMMA ResolveOK ==
  ASSUME store \in Maps, NEW d \in Dirs
  PROVE  /\ Resolve(d) \in [room : RoomNames \cup {None}, profile : Chosen]
         /\ Plain(store) => Resolve(d).profile \in FileProfiles
         /\ d \in DOMAIN store => Resolve(d) = store[d]
<1>1. /\ StoredAt(d) \subseteq Above[d] /\ LegacyAt(d) \subseteq Above[d]
      /\ StoredAt(d) \subseteq DOMAIN store /\ LegacyAt(d) \subseteq DOMAIN Legacy
      /\ Above[d] \subseteq Dirs
  BY RoomsAssumption DEF StoredAt, LegacyAt
<1>2. \A x \in DOMAIN store : store[x] \in Entries
  BY DEF Maps
<1>3. StoredAt(d) # {} => Deepest(StoredAt(d)) \in DOMAIN store
  BY <1>1, DeepestOK
<1>4. LegacyAt(d) # {} => Deepest(LegacyAt(d)) \in DOMAIN Legacy /\ Deepest(LegacyAt(d)) \in Above[d]
  BY <1>1, DeepestOK
<1>5. FoundLegacy(d) => LegacyAt(d) # {}
  BY DEF FoundLegacy
<1>6. /\ \A x \in DOMAIN Legacy : /\ Legacy[x] \in [room : RoomNames \cup {None}, profile : Chosen]
                                  /\ Legacy[x].profile \in FileProfiles
      /\ NoEntry \in [room : RoomNames \cup {None}, profile : Chosen]
      /\ NoEntry.profile \in FileProfiles
      /\ Entries \subseteq [room : RoomNames \cup {None}, profile : Chosen]
  BY RoomsAssumption DEF FileProfiles, NoEntry, Entry, Entries, Chosen
<1>7. ASSUME d \in DOMAIN store PROVE Resolve(d) = store[d]
  <2>1. d \in StoredAt(d)
    BY <1>7, RoomsAssumption DEF StoredAt
  <2>2. Deepest(StoredAt(d)) = d
    <3>1. Deepest(StoredAt(d)) \in Above[d] /\ Depth[d] <= Depth[Deepest(StoredAt(d))]
      BY <1>1, <2>1, DeepestOK
    <3> QED
      BY <1>1, <3>1, RoomsAssumption
  <2>3. LegacyAt(d) # {} => Depth[Deepest(LegacyAt(d))] <= Depth[d]
    BY <1>1, <1>4, RoomsAssumption
  <2>4. LegacyAt(d) # {} => ~(Depth[Deepest(LegacyAt(d))] > Depth[d])
    BY <1>1, <1>4, <2>3, RoomsAssumption
  <2> QED
    BY <1>5, <2>1, <2>2, <2>4 DEF Resolve
<1>8. \/ Resolve(d) = NoEntry
      \/ \E x \in DOMAIN store : Resolve(d) = store[x]
      \/ \E x \in DOMAIN Legacy : Resolve(d) = Legacy[x]
  BY <1>3, <1>4, <1>5 DEF Resolve
<1> QED
  BY <1>2, <1>6, <1>7, <1>8 DEF Plain

LEMMA WithOK ==
  ASSUME NEW map \in Maps, NEW d \in Dirs, NEW e \in Entries
  PROVE  /\ With(map, d, e) \in Maps
         /\ DOMAIN With(map, d, e) = DOMAIN map \cup {d}
         /\ With(map, d, e)[d] = e
         /\ \A x \in DOMAIN map \ {d} : With(map, d, e)[x] = map[x]
<1>1. PICK D \in SUBSET Dirs : map \in [D -> Entries]
  BY DEF Maps
<1>2. With(map, d, e) \in [D \cup {d} -> Entries]
  BY <1>1 DEF With
<1> QED
  BY <1>1, <1>2 DEF With, Maps

LEMMA EmptyMap == <<>> \in Maps /\ DOMAIN <<>> = {} /\ Plain(<<>>)
<1>1. <<>> \in [{} -> Entries]
  OBVIOUS
<1> QED
  BY <1>1 DEF Maps, Plain

----------------------------------------------------------------------------
(* The state is well formed.                                               *)

LEMMA Grown ==
  ASSUME NEW q, NEW pj, NEW pk, ProcOK(q, pj), \A r \in RoomNames : pj[r] \subseteq pk[r]
  PROVE  ProcOK(q, pk)
BY DEF ProcOK, Found, Early, Middle

(* A step of one process, what it knows being so.                          *)
Only(p) == DOMAIN proc' = Procs /\ \A x \in Procs \ {p} : proc'[x] = proc[x]

LEMMA ProcsOK ==
  ASSUME TypeInv, NEW p \in Procs, Only(p),
         projects' \in [RoomNames -> SUBSET Spaces], ProcOK(proc'[p], projects'),
         \A r \in RoomNames : projects[r] \subseteq projects'[r]
  PROVE  DOMAIN proc' = Procs /\ \A x \in Procs : ProcOK(proc'[x], projects')
BY Grown DEF TypeInv, Only

Kept == UNCHANGED <<store, told, flagged, ident, named, home, settings, bak, projects, runs, kills>>

(* A run moves on and nothing else changes.                                *)
LEMMA RunMoves ==
  ASSUME TypeInv, NEW p \in Procs, Only(p), ProcOK(proc'[p], projects), Kept
  PROVE  TypeInv'
<1>1. projects' = projects /\ projects' \in [RoomNames -> SUBSET Spaces]
  BY DEF Kept, TypeInv
<1>2. DOMAIN proc' = Procs /\ \A x \in Procs : ProcOK(proc'[x], projects')
  BY <1>1, ProcsOK
<1> QED
  BY <1>2 DEF TypeInv, Kept

LEMMA OffOK == ASSUME NEW pj PROVE ProcOK(Off, pj)
<1>1. Off.pc = "off"
  BY DEF Off
<1> QED
  BY <1>1 DEF ProcOK, Found, Early, Middle, EarlyPcs, IdentPcs

LEMMA LateOK ==
  ASSUME NEW pj, NEW q, Late(q)
  PROVE  ProcOK(q, pj)
BY DEF ProcOK, Found, Early, Middle, Late, EarlyPcs, IdentPcs, LatePcs

(* Which record a process holds follows from where it is.                  *)
LEMMA HoldsEarly ==
  ASSUME NEW q, NEW pj, ProcOK(q, pj), q.pc \in EarlyPcs
  PROVE  Early(q) /\ (q.ok => q.space \in pj[q.room])
BY DEF ProcOK, Found, Off, Early, Middle, Late, EarlyPcs, IdentPcs, LatePcs

LEMMA HoldsMiddle ==
  ASSUME NEW q, NEW pj, ProcOK(q, pj), q.pc \in IdentPcs \cup {"me", "org"}
  PROVE  /\ Middle(q) /\ (q.ok => q.space \in pj[q.room])
         /\ q.id.org # None => q.id.org \in pj[q.room]
         /\ q.pc \in {"org", "orgopen", "orgwrite"} => q.ok
BY DEF ProcOK, Found, Off, Early, Middle, Late, EarlyPcs, IdentPcs, LatePcs

LEMMA HoldsLate ==
  ASSUME NEW q, NEW pj, ProcOK(q, pj), q.pc \in LatePcs
  PROVE  Late(q)
BY DEF ProcOK, Found, Off, Early, Middle, Late, EarlyPcs, IdentPcs, LatePcs

LEMMA EarlyOK ==
  ASSUME NEW q, NEW pj, Early(q), q.ok => q.space \in pj[q.room]
  PROVE  ProcOK(q, pj)
BY DEF ProcOK, Found, Early, Middle, EarlyPcs, IdentPcs

LEMMA MiddleOK ==
  ASSUME NEW q, NEW pj, Middle(q), q.ok => q.space \in pj[q.room],
         q.id.org # None => q.id.org \in pj[q.room],
         q.pc \in {"org", "orgopen", "orgwrite"} => q.ok
  PROVE  ProcOK(q, pj)
BY DEF ProcOK, Found, Early, Middle, EarlyPcs, IdentPcs

LEMMA TypeInit == Init => TypeInv
<1> SUFFICES ASSUME Init PROVE TypeInv
  OBVIOUS
<1>1. \A p \in Procs : ProcOK(proc[p], projects)
  BY OffOK DEF Init
<1>2. store \in Maps /\ told \in Maps
  BY EmptyMap DEF Init
<1>3. ident \in [RoomNames -> Ids] /\ \A r \in RoomNames : ident[r].org = None
  BY DEF Init, Ids, NoOne
<1>4. flagged \in [Dirs -> Chosen] /\ settings \in Hooks /\ bak \in Hooks
  BY DEF Init, Chosen, Hooks
<1>5. /\ named \in [RoomNames -> Names \cup {None}] /\ home \in [RoomNames -> Spaces \cup {None}]
      /\ projects \in [RoomNames -> SUBSET Spaces]
      /\ runs \in 0..MaxRuns /\ kills \in 0..MaxKills /\ DOMAIN proc = Procs
  BY RoomsAssumption DEF Init
<1> QED
  BY <1>1, <1>2, <1>3, <1>4, <1>5 DEF TypeInv

LEMMA TypeStart ==
  ASSUME TypeInv, NEW p \in Procs, NEW d \in Dirs, NEW r \in RoomNames, NEW n \in Names,
         NEW f \in Chosen, NEW env \in Chosen, Start(p, d, r, n, f, env)
  PROVE  TypeInv'
<1> DEFINE prof == Recorded(Resolve(d), f, env)
           act == IF f # None THEN f ELSE Active(Resolve(d), env)
<1>1. Resolve(d).profile \in Chosen
  BY ResolveOK DEF TypeInv
<1>2. prof \in Chosen /\ act \in Chosen
  BY <1>1 DEF Recorded, Active
<1>3. SpaceOf[act] \in Spaces
  BY <1>2, RoomsAssumption DEF Chosen
<1>4. /\ proc' = [proc EXCEPT ![p] =
                   [pc |-> "verify", dir |-> d, room |-> r, me |-> n, flag |-> f, profile |-> prof,
                    space |-> SpaceOf[act], ok |-> FALSE, map |-> <<>>]]
      /\ runs < MaxRuns /\ runs' = runs + 1
      /\ UNCHANGED <<store, told, flagged, ident, named, home, settings, bak, projects, kills>>
  BY DEF Start, files, ghosts
<1> HIDE DEF prof, act
<1>5. Only(p) /\ Early(proc'[p]) /\ ~proc'[p].ok
  BY <1>2, <1>3, <1>4, EmptyMap DEF Early, EarlyPcs, TypeInv, Only
<1>6. ProcOK(proc'[p], projects')
  BY <1>5, EarlyOK
<1>7. DOMAIN proc' = Procs /\ \A x \in Procs : ProcOK(proc'[x], projects')
  BY <1>4, <1>5, <1>6, ProcsOK DEF TypeInv
<1>8. runs' \in 0..MaxRuns
  BY <1>4, RoomsAssumption DEF TypeInv
<1> QED
  BY <1>4, <1>7, <1>8 DEF TypeInv

(* A run before the map goes on to the next of its places.                 *)
EarlyMove(p, ok, map) ==
  /\ Only(p) /\ Early(proc'[p])
  /\ proc'[p].room = proc[p].room /\ proc'[p].space = proc[p].space
  /\ proc'[p].ok = ok /\ proc'[p].map = map

LEMMA TypeEarly ==
  ASSUME TypeInv, NEW p \in Procs, Verify(p) \/ CreateProject(p) \/ LoadMap(p) \/ OpenMap(p)
  PROVE  TypeInv'
<1> DEFINE q == proc[p]
           r == q.room
<1>1. /\ Early(q) /\ (q.ok => q.space \in projects[r]) /\ DOMAIN proc = Procs
  BY HoldsEarly DEF TypeInv, Verify, CreateProject, LoadMap, OpenMap, At, EarlyPcs
<1>2. r \in RoomNames /\ q.space \in Spaces /\ q.ok \in BOOLEAN /\ q.map \in Maps /\ store \in Maps
  BY <1>1 DEF Early, TypeInv
<1>3. CASE Verify(p)
  <2>1. \/ EarlyMove(p, q.ok, q.map)
        \/ q.space \in projects[r] /\ EarlyMove(p, TRUE, q.map)
    BY <1>1, <1>3 DEF Verify, Goto, Early, EarlyPcs, EarlyMove, Only
  <2>2. Only(p) /\ ProcOK(proc'[p], projects)
    BY <1>1, <2>1, EarlyOK DEF EarlyMove
  <2>3. Kept
    BY <1>3 DEF Verify, Kept, files, ghosts
  <2> QED
    BY <2>2, <2>3, RunMoves
<1>4. CASE CreateProject(p)
  <2>1. \E ok \in BOOLEAN : EarlyMove(p, ok, q.map)
    <3>1. PICK ok \in BOOLEAN : proc' = [proc EXCEPT ![p].pc = "map", ![p].ok = ok]
      BY <1>4 DEF CreateProject
    <3>2. EarlyMove(p, ok, q.map)
      BY <1>1, <3>1 DEF Early, EarlyPcs, EarlyMove, Only
    <3> QED
      BY <3>2
  <2>2. /\ projects' = [projects EXCEPT ![r] = @ \cup {q.space}]
        /\ UNCHANGED <<store, told, flagged, ident, named, home, settings, bak, runs, kills>>
    BY <1>4 DEF CreateProject, files, ghosts
  <2>3. /\ projects' \in [RoomNames -> SUBSET Spaces] /\ q.space \in projects'[r]
        /\ \A x \in RoomNames : projects[x] \subseteq projects'[x]
    BY <1>2, <2>2 DEF TypeInv
  <2>4. Only(p) /\ ProcOK(proc'[p], projects')
    BY <2>1, <2>3, EarlyOK DEF EarlyMove
  <2>5. DOMAIN proc' = Procs /\ \A x \in Procs : ProcOK(proc'[x], projects')
    BY <2>3, <2>4, ProcsOK
  <2> QED
    BY <2>2, <2>3, <2>5 DEF TypeInv
<1>5. CASE LoadMap(p)
  <2>1. EarlyMove(p, q.ok, store)
    BY <1>1, <1>2, <1>5 DEF LoadMap, Early, EarlyPcs, EarlyMove, Only
  <2>2. Only(p) /\ ProcOK(proc'[p], projects)
    BY <1>1, <2>1, EarlyOK DEF EarlyMove
  <2>3. Kept
    BY <1>5 DEF LoadMap, Kept, files, ghosts
  <2> QED
    BY <2>2, <2>3, RunMoves
<1>6. CASE OpenMap(p)
  <2>1. EarlyMove(p, q.ok, q.map)
    BY <1>1, <1>6 DEF OpenMap, Goto, Early, EarlyPcs, EarlyMove, Only
  <2>2. /\ store' = <<>>
        /\ UNCHANGED <<told, flagged, ident, named, home, settings, bak, projects, runs, kills>>
    BY <1>6 DEF OpenMap, ghosts
  <2>3. Only(p) /\ ProcOK(proc'[p], projects')
    BY <1>1, <2>1, <2>2, EarlyOK DEF EarlyMove
  <2>4. DOMAIN proc' = Procs /\ \A x \in Procs : ProcOK(proc'[x], projects')
    BY <2>2, <2>3, ProcsOK DEF TypeInv
  <2> QED
    BY <2>2, <2>4, EmptyMap DEF TypeInv
<1> QED
  BY <1>3, <1>4, <1>5, <1>6

(* A run has written the map and comes to the identity.                    *)
LEMMA TypeWriteMap ==
  ASSUME TypeInv, NEW p \in Procs, WriteMap(p)
  PROVE  TypeInv'
<1> DEFINE q == proc[p]
           e == Entry(q.room, q.profile)
<1>1. /\ Early(q) /\ (q.ok => q.space \in projects[q.room]) /\ DOMAIN proc = Procs
  BY HoldsEarly DEF TypeInv, WriteMap, At, EarlyPcs
<1>2. /\ q.room \in RoomNames /\ q.me \in Names /\ q.space \in Spaces /\ q.ok \in BOOLEAN
      /\ q.map \in Maps /\ q.dir \in Dirs /\ q.flag \in Chosen /\ e \in Entries
  BY <1>1 DEF Early, Entry, Entries
<1>3. /\ proc' = [proc EXCEPT ![p] = [pc |-> "me", room |-> q.room, me |-> q.me,
                                      space |-> q.space, ok |-> q.ok, id |-> NoOne]]
      /\ store' = With(q.map, q.dir, e) /\ told' = With(told, q.dir, e)
      /\ flagged' = IF q.flag = None THEN flagged ELSE [flagged EXCEPT ![q.dir] = q.flag]
      /\ UNCHANGED <<ident, settings, bak, projects, runs, kills, named, home>>
  BY DEF WriteMap
<1>4. /\ Only(p) /\ Middle(proc'[p]) /\ proc'[p].pc = "me" /\ proc'[p].id.org = None
      /\ proc'[p].ok = q.ok /\ proc'[p].space = q.space /\ proc'[p].room = q.room
  BY <1>1, <1>2, <1>3 DEF Only, Middle, Ids, NoOne
<1>5. ProcOK(proc'[p], projects')
  BY <1>1, <1>3, <1>4, MiddleOK
<1>6. DOMAIN proc' = Procs /\ \A x \in Procs : ProcOK(proc'[x], projects')
  BY <1>3, <1>4, <1>5, ProcsOK DEF TypeInv
<1>7. store' \in Maps /\ told' \in Maps
  BY <1>2, <1>3, WithOK DEF TypeInv
<1>8. flagged' \in [Dirs -> Chosen]
  BY <1>2, <1>3 DEF TypeInv
<1> QED
  BY <1>3, <1>6, <1>7, <1>8 DEF TypeInv

(* A run in the identity file goes on to the next of its places.           *)
MiddleMove(p, pc, id) ==
  /\ Only(p) /\ Middle(proc'[p])
  /\ proc'[p].room = proc[p].room /\ proc'[p].space = proc[p].space
  /\ proc'[p].me = proc[p].me /\ proc'[p].ok = proc[p].ok
  /\ proc'[p].pc = pc /\ proc'[p].id = id

LEMMA MovedMiddle ==
  ASSUME TypeInv, NEW p \in Procs, NEW pc, NEW id, MiddleMove(p, pc, id),
         proc[p].ok => proc[p].space \in projects[proc[p].room],
         id.org # None => id.org \in projects[proc[p].room],
         pc \in {"org", "orgopen", "orgwrite"} => proc[p].ok,
         UNCHANGED projects
  PROVE  DOMAIN proc' = Procs /\ \A x \in Procs : ProcOK(proc'[x], projects')
<1>1. ProcOK(proc'[p], projects')
  BY MiddleOK DEF MiddleMove
<1> QED
  BY <1>1, ProcsOK DEF MiddleMove, TypeInv

LEMMA ToHooks ==
  ASSUME TypeInv, NEW p \in Procs, proc' = [proc EXCEPT ![p] = Hooking], UNCHANGED projects
  PROVE  DOMAIN proc' = Procs /\ \A x \in Procs : ProcOK(proc'[x], projects')
<1>1. Only(p) /\ Late(proc'[p])
  BY DEF TypeInv, Only, Late, LatePcs, Hooks, Hooking
<1> QED
  BY <1>1, LateOK, ProcsOK DEF TypeInv

LEMMA TypeMiddle ==
  ASSUME TypeInv, NEW p \in Procs,
         LoadIdent(p) \/ OpenIdent(p) \/ WriteIdent(p) \/ RecordWorkspace(p) \/ WriteOrg(p)
  PROVE  TypeInv'
<1> DEFINE q == proc[p]
           r == q.room
<1>1. /\ Middle(q) /\ (q.ok => q.space \in projects[r]) /\ DOMAIN proc = Procs
      /\ q.id.org # None => q.id.org \in projects[r]
      /\ q.pc \in {"org", "orgopen", "orgwrite"} => q.ok
  BY HoldsMiddle DEF TypeInv, LoadIdent, OpenIdent, WriteIdent, RecordWorkspace, WriteOrg, At, IdentPcs
<1>2. /\ r \in RoomNames /\ q.space \in Spaces /\ q.me \in Names /\ q.id \in Ids
      /\ ident[r] \in Ids
  BY <1>1 DEF Middle, TypeInv
<1>3. CASE LoadIdent(p)
  <2> DEFINE id == [ident[r] EXCEPT !.me = q.me]
  <2>1. MiddleMove(p, "meopen", id) /\ id.org = ident[r].org
    BY <1>1, <1>2, <1>3 DEF LoadIdent, Middle, IdentPcs, MiddleMove, Only, Ids
  <2> HIDE DEF id
  <2>2. Kept /\ UNCHANGED projects
    BY <1>3 DEF LoadIdent, Kept, files, ghosts
  <2>3. DOMAIN proc' = Procs /\ \A x \in Procs : ProcOK(proc'[x], projects')
    <3>1. id.org # None => id.org \in projects[r]
      BY <1>2, <2>1 DEF TypeInv
    <3> QED
      BY <1>1, <2>1, <2>2, <3>1, MovedMiddle
  <2> QED
    BY <2>2, <2>3 DEF TypeInv, Kept
<1>4. CASE OpenIdent(p)
  <2>1. \/ MiddleMove(p, "mewrite", q.id)
        \/ MiddleMove(p, "orgwrite", q.id) /\ q.ok
    BY <1>1, <1>4 DEF OpenIdent, At, Goto, Middle, IdentPcs, MiddleMove, Only
  <2>2. /\ ident' = [ident EXCEPT ![r] = NoOne]
        /\ UNCHANGED <<store, told, flagged, named, home, settings, bak, projects, runs, kills>>
    BY <1>4 DEF OpenIdent, ghosts
  <2>3. DOMAIN proc' = Procs /\ \A x \in Procs : ProcOK(proc'[x], projects')
    BY <1>1, <2>1, <2>2, MovedMiddle
  <2>4. /\ ident' \in [RoomNames -> Ids]
        /\ \A x \in RoomNames : ident'[x].org # None => ident'[x].org \in projects[x]
    BY <1>2, <2>2 DEF TypeInv, Ids, NoOne
  <2> QED
    BY <2>2, <2>3, <2>4 DEF TypeInv
<1>5. ASSUME ident' = [ident EXCEPT ![r] = q.id], UNCHANGED projects
      PROVE  /\ ident' \in [RoomNames -> Ids]
             /\ \A x \in RoomNames : ident'[x].org # None => ident'[x].org \in projects'[x]
  BY <1>1, <1>2, <1>5 DEF TypeInv
<1>6. CASE WriteIdent(p)
  <2>1. \/ proc' = [proc EXCEPT ![p] = Hooking]
        \/ MiddleMove(p, "org", q.id) /\ q.ok
    BY <1>1, <1>6 DEF WriteIdent, Middle, IdentPcs, MiddleMove, Only
  <2>2. /\ ident' = [ident EXCEPT ![r] = q.id] /\ named' = [named EXCEPT ![r] = q.me]
        /\ UNCHANGED <<store, told, flagged, home, settings, bak, projects, runs, kills>>
    BY <1>6 DEF WriteIdent
  <2>3. DOMAIN proc' = Procs /\ \A x \in Procs : ProcOK(proc'[x], projects')
    BY <1>1, <2>1, <2>2, MovedMiddle, ToHooks
  <2>4. named' \in [RoomNames -> Names \cup {None}]
    BY <1>2, <2>2 DEF TypeInv
  <2> QED
    BY <1>5, <2>2, <2>3, <2>4 DEF TypeInv
<1>7. CASE RecordWorkspace(p)
  <2> DEFINE id == [ident[r] EXCEPT !.org = q.space]
  <2>1. \/ proc' = [proc EXCEPT ![p] = Hooking]
        \/ MiddleMove(p, "orgopen", id) /\ id.org = q.space /\ q.ok
    <3>1. q.ok
      BY <1>1, <1>7 DEF RecordWorkspace, At
    <3>2. ASSUME proc' = [proc EXCEPT ![p].pc = "orgopen", ![p].id = id]
          PROVE  MiddleMove(p, "orgopen", id) /\ id.org = q.space
      BY <1>1, <1>2, <3>2 DEF Middle, IdentPcs, MiddleMove, Only, Ids
    <3> QED
      BY <1>7, <3>1, <3>2 DEF RecordWorkspace
  <2> HIDE DEF id
  <2>2. Kept /\ UNCHANGED projects
    BY <1>7 DEF RecordWorkspace, Kept, files, ghosts
  <2>3. DOMAIN proc' = Procs /\ \A x \in Procs : ProcOK(proc'[x], projects')
    BY <1>1, <2>1, <2>2, MovedMiddle, ToHooks
  <2> QED
    BY <2>2, <2>3 DEF TypeInv, Kept
<1>8. CASE WriteOrg(p)
  <2>1. /\ proc' = [proc EXCEPT ![p] = Hooking]
        /\ ident' = [ident EXCEPT ![r] = q.id]
        /\ home' = IF home[r] = None THEN [home EXCEPT ![r] = q.space] ELSE home
        /\ UNCHANGED <<store, told, flagged, named, settings, bak, projects, runs, kills>>
    BY <1>8 DEF WriteOrg
  <2>2. home' \in [RoomNames -> Spaces \cup {None}]
    BY <1>2, <2>1 DEF TypeInv
  <2> QED
    BY <1>5, <2>1, <2>2, ToHooks DEF TypeInv
<1> QED
  BY <1>3, <1>4, <1>6, <1>7, <1>8

LEMMA TypeLate ==
  ASSUME TypeInv, NEW p \in Procs,
         SkipHooks(p) \/ BackUp(p) \/ OpenSettings(p) \/ WriteSettings(p) \/ Kill(p)
  PROVE  TypeInv'
<1> DEFINE q == proc[p]
<1>1. DOMAIN proc = Procs /\ settings \in Hooks
  BY DEF TypeInv
<1>2. ASSUME ~Kill(p) PROVE Late(q)
  BY <1>2, HoldsLate DEF TypeInv, SkipHooks, BackUp, OpenSettings, WriteSettings, At, LatePcs
<1>3. \/ proc' = [proc EXCEPT ![p] = Off]
      \/ ~Kill(p) /\ \E pc \in LatePcs, h \in Hooks : proc' = [proc EXCEPT ![p].pc = pc, ![p].hooks = h]
      \/ ~Kill(p) /\ \E pc \in LatePcs : proc' = [proc EXCEPT ![p].pc = pc]
  BY <1>1 DEF SkipHooks, BackUp, OpenSettings, WriteSettings, Kill, Goto, LatePcs
<1>4. Only(p) /\ (proc'[p] = Off \/ Late(proc'[p]))
  <2>1. CASE proc' = [proc EXCEPT ![p] = Off]
    BY <1>1, <2>1 DEF Only
  <2>2. ASSUME ~Kill(p), NEW pc \in LatePcs, NEW h \in Hooks,
               proc' = [proc EXCEPT ![p].pc = pc, ![p].hooks = h]
        PROVE  Only(p) /\ Late(proc'[p])
    BY <1>1, <1>2, <2>2 DEF Only, Late
  <2>3. ASSUME ~Kill(p), NEW pc \in LatePcs, proc' = [proc EXCEPT ![p].pc = pc]
        PROVE  Only(p) /\ Late(proc'[p])
    BY <1>1, <1>2, <2>3 DEF Only, Late
  <2> QED
    BY <1>3, <2>1, <2>2, <2>3
<1>5. ProcOK(proc'[p], projects')
  BY <1>4, OffOK, LateOK
<1>6. UNCHANGED <<store, told, flagged, ident, named, home, projects, runs>>
  BY DEF SkipHooks, BackUp, OpenSettings, WriteSettings, Kill, files, ghosts
<1>7. DOMAIN proc' = Procs /\ \A x \in Procs : ProcOK(proc'[x], projects')
  BY <1>4, <1>5, <1>6, ProcsOK DEF TypeInv
<1>8. settings' \in Hooks /\ bak' \in Hooks /\ kills' \in 0..MaxKills
  <2>1. CASE Kill(p)
    BY <2>1, RoomsAssumption DEF Kill, files, TypeInv
  <2>2. CASE ~Kill(p)
    BY <1>1, <1>2, <2>2 DEF SkipHooks, BackUp, OpenSettings, WriteSettings, files, TypeInv, Late, Hooks
  <2> QED
    BY <2>1, <2>2
<1> QED
  BY <1>6, <1>7, <1>8 DEF TypeInv

LEMMA TypeCommand ==
  ASSUME TypeInv, NEW d \in Dirs, NEW env \in Chosen, Command(d, env)
  PROVE  TypeInv'
<1> DEFINE e == Resolve(d)
           w == SpaceOf[Active(e, env)]
<1>1. e.room \in RoomNames /\ e.profile \in Chosen
  BY ResolveOK DEF TypeInv, Command
<1>2. w \in Spaces
  BY <1>1, RoomsAssumption DEF Active, Chosen
<1>3. /\ projects' = [projects EXCEPT ![e.room] = @ \cup {w}]
      /\ UNCHANGED <<store, told, flagged, ident, named, home, settings, bak, proc, runs, kills>>
  BY DEF Command, files, ghosts
<1> HIDE DEF e, w
<1>4. /\ projects' \in [RoomNames -> SUBSET Spaces]
      /\ \A x \in RoomNames : projects[x] \subseteq projects'[x]
  BY <1>1, <1>2, <1>3 DEF TypeInv
<1>5. \A x \in Procs : ProcOK(proc'[x], projects')
  BY <1>3, <1>4, Grown DEF TypeInv
<1> QED
  BY <1>3, <1>4, <1>5 DEF TypeInv

----------------------------------------------------------------------------
(* Where each step takes its run.                                          *)
Starts(p) ==
  \E d \in Dirs, r \in RoomNames, n \in Names, f, env \in Chosen : Start(p, d, r, n, f, env)
Goes(p, A, B) == Only(p) /\ proc[p].pc \in A /\ proc'[p].pc \in B

LEMMA EarlyGoes ==
  ASSUME TypeInv, NEW p \in Procs
  PROVE  /\ Starts(p) => Goes(p, {"off"}, {"verify"})
         /\ Verify(p) => Goes(p, {"verify"}, {"create", "map"})
         /\ CreateProject(p) => Goes(p, {"create"}, {"map"})
         /\ LoadMap(p) => Goes(p, {"map"}, {"mapopen"})
         /\ OpenMap(p) => Goes(p, {"mapopen"}, {"mapwrite"})
         /\ WriteMap(p) => Goes(p, {"mapwrite"}, {"me"})
<1>1. DOMAIN proc = Procs /\ ProcOK(proc[p], projects)
  BY DEF TypeInv
<1>2. Starts(p) => Goes(p, {"off"}, {"verify"})
  BY <1>1 DEF Starts, Start, At, Goes, Only
<1>3. proc[p].pc \in EarlyPcs => Early(proc[p])
  BY <1>1, HoldsEarly
<1>4. Verify(p) => Goes(p, {"verify"}, {"create", "map"})
  BY <1>1, <1>3 DEF Verify, At, Goto, Goes, Only, Early, EarlyPcs
<1>5. ASSUME CreateProject(p) PROVE Goes(p, {"create"}, {"map"})
  <2>1. PICK ok \in BOOLEAN : proc' = [proc EXCEPT ![p].pc = "map", ![p].ok = ok]
    BY <1>5 DEF CreateProject
  <2> QED
    BY <1>1, <1>3, <1>5, <2>1 DEF CreateProject, At, Goes, Only, Early, EarlyPcs
<1>6. LoadMap(p) => Goes(p, {"map"}, {"mapopen"})
  BY <1>1, <1>3 DEF LoadMap, At, Goes, Only, Early, EarlyPcs
<1>7. OpenMap(p) => Goes(p, {"mapopen"}, {"mapwrite"})
  BY <1>1, <1>3 DEF OpenMap, At, Goto, Goes, Only, Early, EarlyPcs
<1>8. WriteMap(p) => Goes(p, {"mapwrite"}, {"me"})
  BY <1>1 DEF WriteMap, At, Goes, Only
<1> QED
  BY <1>2, <1>4, <1>5, <1>6, <1>7, <1>8

LEMMA MiddleGoes ==
  ASSUME TypeInv, NEW p \in Procs
  PROVE  /\ LoadIdent(p) => Goes(p, {"me"}, {"meopen"})
         /\ OpenIdent(p) => \/ Goes(p, {"meopen"}, {"mewrite"})
                            \/ Goes(p, {"orgopen"}, {"orgwrite"})
         /\ WriteIdent(p) => Goes(p, {"mewrite"}, {"org", "hooks"})
         /\ RecordWorkspace(p) => Goes(p, {"org"}, {"orgopen", "hooks"})
         /\ WriteOrg(p) => Goes(p, {"orgwrite"}, {"hooks"})
<1>1. DOMAIN proc = Procs /\ ProcOK(proc[p], projects)
  BY DEF TypeInv
<1>2. proc[p].pc \in IdentPcs \cup {"me", "org"} => Middle(proc[p])
  BY <1>1, HoldsMiddle
<1>3. LoadIdent(p) => Goes(p, {"me"}, {"meopen"})
  BY <1>1, <1>2 DEF LoadIdent, At, Goes, Only, Middle, IdentPcs
<1>4. OpenIdent(p) => \/ Goes(p, {"meopen"}, {"mewrite"})
                      \/ Goes(p, {"orgopen"}, {"orgwrite"})
  BY <1>1, <1>2 DEF OpenIdent, At, Goto, Goes, Only, Middle, IdentPcs
<1>5. WriteIdent(p) => Goes(p, {"mewrite"}, {"org", "hooks"})
  BY <1>1, <1>2 DEF WriteIdent, At, Hooking, Goes, Only, Middle, IdentPcs
<1>6. ASSUME RecordWorkspace(p) PROVE Goes(p, {"org"}, {"orgopen", "hooks"})
  <2>1. CASE proc' = [proc EXCEPT ![p] = Hooking]
    BY <1>1, <1>6, <2>1 DEF RecordWorkspace, At, Hooking, Goes, Only
  <2>2. CASE proc' = [proc EXCEPT ![p].pc = "orgopen",
                                  ![p].id = [ident[proc[p].room] EXCEPT !.org = proc[p].space]]
    BY <1>1, <1>2, <1>6, <2>2 DEF RecordWorkspace, At, Goes, Only, Middle, IdentPcs
  <2> QED
    BY <1>6, <2>1, <2>2 DEF RecordWorkspace
<1>7. WriteOrg(p) => Goes(p, {"orgwrite"}, {"hooks"})
  BY <1>1 DEF WriteOrg, At, Hooking, Goes, Only
<1> QED
  BY <1>3, <1>4, <1>5, <1>6, <1>7

LEMMA LateGoes ==
  ASSUME TypeInv, NEW p \in Procs
  PROVE  /\ SkipHooks(p) => Goes(p, {"hooks"}, {"off"})
         /\ BackUp(p) => Goes(p, {"hooks"}, {"off", "hookopen"})
         /\ OpenSettings(p) => Goes(p, {"hookopen"}, {"hookwrite"})
         /\ WriteSettings(p) => Goes(p, {"hookwrite"}, {"off"})
         /\ Kill(p) => Only(p) /\ proc'[p].pc = "off"
<1>1. DOMAIN proc = Procs /\ ProcOK(proc[p], projects)
  BY DEF TypeInv
<1>2. proc[p].pc \in LatePcs => Late(proc[p])
  BY <1>1, HoldsLate
<1>3. SkipHooks(p) => Goes(p, {"hooks"}, {"off"})
  BY <1>1 DEF SkipHooks, At, Off, Goes, Only
<1>4. BackUp(p) => Goes(p, {"hooks"}, {"off", "hookopen"})
  BY <1>1, <1>2 DEF BackUp, At, Off, Goes, Only, Late, LatePcs
<1>5. OpenSettings(p) => Goes(p, {"hookopen"}, {"hookwrite"})
  BY <1>1, <1>2 DEF OpenSettings, At, Goto, Goes, Only, Late, LatePcs
<1>6. WriteSettings(p) => Goes(p, {"hookwrite"}, {"off"})
  BY <1>1 DEF WriteSettings, At, Off, Goes, Only
<1>7. Kill(p) => Only(p) /\ proc'[p].pc = "off"
  BY <1>1 DEF Kill, Off, Only
<1> QED
  BY <1>3, <1>4, <1>5, <1>6, <1>7

(* The steps, those of a run and a command's.                              *)
Runs(p) ==
  \/ Starts(p) \/ Verify(p) \/ CreateProject(p) \/ LoadMap(p) \/ OpenMap(p) \/ WriteMap(p)
  \/ LoadIdent(p) \/ OpenIdent(p) \/ WriteIdent(p) \/ RecordWorkspace(p) \/ WriteOrg(p)
  \/ SkipHooks(p) \/ BackUp(p) \/ OpenSettings(p) \/ WriteSettings(p) \/ Kill(p)
Commands == \E d \in Dirs, env \in Chosen : Command(d, env)

LEMMA NextIs == Next => (\E p \in Procs : Runs(p)) \/ Commands
BY DEF Next, Runs, Starts, Commands, Chosen

LEMMA CrossedGrows ==
  ASSUME NEW p \in Procs, Runs(p)
  PROVE  crossed \subseteq crossed'
BY DEF Runs, Starts, Start, Verify, CreateProject, LoadMap, OpenMap, WriteMap, LoadIdent, OpenIdent,
       WriteIdent, RecordWorkspace, WriteOrg, SkipHooks, BackUp, OpenSettings, WriteSettings, Kill, Mark

LEMMA TypeStep ==
  ASSUME TypeInv, [Next]_vars
  PROVE  TypeInv'
<1>1. CASE UNCHANGED vars
  BY <1>1 DEF TypeInv, vars
<1>2. ASSUME NEW p \in Procs, Runs(p) PROVE TypeInv'
  BY <1>2, TypeStart, TypeEarly, TypeWriteMap, TypeMiddle, TypeLate DEF Runs, Starts
<1>3. ASSUME Commands PROVE TypeInv'
  BY <1>3, TypeCommand DEF Commands
<1> QED
  BY <1>1, <1>2, <1>3, NextIs

----------------------------------------------------------------------------
(* rooms.json.                                                             *)

LEMMA StoreQuiet ==
  ASSUME StoreInv, NEW p \in Procs, Only(p), crossed \subseteq crossed',
         proc[p].pc \notin {"mapopen", "mapwrite"}, proc'[p].pc \notin {"mapopen", "mapwrite"},
         UNCHANGED <<store, told>>
  PROVE  StoreInv'
BY DEF StoreInv, InStore, Only

LEMMA StoreStep ==
  ASSUME TypeInv, StoreInv, [Next]_vars
  PROVE  StoreInv'
<1>1. CASE UNCHANGED vars \/ Commands
  BY <1>1 DEF StoreInv, InStore, vars, Commands, Command, files, ghosts
<1> SUFFICES ASSUME NEW p \in Procs, Runs(p) PROVE StoreInv'
  BY <1>1, NextIs
<1>2. crossed \subseteq crossed'
  BY CrossedGrows
<1>3. CASE LoadMap(p)
  <2>1. /\ Only(p) /\ proc[p].pc = "map" /\ proc'[p].pc = "mapopen" /\ UNCHANGED <<store, told>>
        /\ "store" \notin crossed' => \A q \in Procs \ {p} : ~InStore(q)
    BY <1>3, EarlyGoes DEF Goes, LoadMap, Mark, files, ghosts
  <2>2. proc'[p].map = store
    <3>1. Early(proc[p]) /\ DOMAIN proc = Procs
      BY <2>1, HoldsEarly DEF TypeInv, EarlyPcs
    <3> QED
      BY <1>3, <3>1 DEF LoadMap, Early
  <2>3. ASSUME "store" \notin crossed' PROVE \A q \in Procs : proc[q].pc # "mapwrite" /\ ~InStore(q)
    BY <2>1, <2>3 DEF InStore
  <2> QED
    BY <1>2, <2>1, <2>2, <2>3 DEF StoreInv, InStore, Only
<1>4. CASE OpenMap(p)
  <2>1. /\ Only(p) /\ proc[p].pc = "mapopen" /\ proc'[p].pc = "mapwrite" /\ UNCHANGED told
    BY <1>4, EarlyGoes DEF Goes, OpenMap, ghosts
  <2>2. proc'[p].map = proc[p].map
    <3>1. Early(proc[p]) /\ DOMAIN proc = Procs
      BY <2>1, HoldsEarly DEF TypeInv, EarlyPcs
    <3> QED
      BY <1>4, <3>1 DEF OpenMap, Goto, Early
  <2> QED
    BY <1>2, <2>1, <2>2 DEF StoreInv, InStore, Only
<1>5. CASE WriteMap(p)
  <2>1. Only(p) /\ proc[p].pc = "mapwrite" /\ proc'[p].pc = "me"
    BY <1>5, EarlyGoes DEF Goes
  <2>2. "store" \notin crossed' =>
          store' = told' /\ \A q \in Procs \ {p} : ~InStore(q)
    BY <1>2, <1>5, <2>1 DEF WriteMap, StoreInv, InStore
  <2> QED
    BY <2>1, <2>2 DEF StoreInv, InStore, Only
<1>6. CASE Kill(p)
  <2>1. Only(p) /\ proc'[p].pc = "off" /\ UNCHANGED <<store, told>>
    BY <1>6, LateGoes DEF Kill, files, ghosts
  <2>2. "store" \notin crossed' => proc[p].pc # "mapwrite"
    BY <1>6 DEF Kill, At
  <2> QED
    BY <1>2, <2>1, <2>2 DEF StoreInv, InStore, Only
<1>7. CASE ~(LoadMap(p) \/ OpenMap(p) \/ WriteMap(p) \/ Kill(p))
  <2>1. /\ Only(p) /\ proc[p].pc \notin {"mapopen", "mapwrite"}
        /\ proc'[p].pc \notin {"mapopen", "mapwrite"}
    BY <1>7, EarlyGoes, MiddleGoes, LateGoes DEF Runs, Goes
  <2>2. UNCHANGED <<store, told>>
    BY <1>7 DEF Runs, Starts, Start, Verify, CreateProject, LoadIdent, OpenIdent, WriteIdent,
                RecordWorkspace, WriteOrg, SkipHooks, BackUp, OpenSettings, WriteSettings,
                files, ghosts
  <2> QED
    BY <1>2, <2>1, <2>2, StoreQuiet
<1> QED
  BY <1>3, <1>4, <1>5, <1>6, <1>7

----------------------------------------------------------------------------
(* The settings.                                                           *)

LEMMA HookQuiet ==
  ASSUME HookInv, NEW p \in Procs, Only(p), crossed \subseteq crossed',
         proc'[p].pc \notin {"hookopen", "hookwrite"}, UNCHANGED <<settings, bak>>
  PROVE  HookInv'
BY DEF HookInv, InSettings, Only

LEMMA HookStep ==
  ASSUME TypeInv, HookInv, [Next]_vars
  PROVE  HookInv'
<1>1. CASE UNCHANGED vars \/ Commands
  BY <1>1 DEF HookInv, InSettings, vars, Commands, Command, files, ghosts
<1> SUFFICES ASSUME NEW p \in Procs, Runs(p) PROVE HookInv'
  BY <1>1, NextIs
<1>2. crossed \subseteq crossed'
  BY CrossedGrows
<1>3. CASE BackUp(p)
  <2>1. /\ Only(p) /\ bak' = settings /\ UNCHANGED settings /\ proc[p].pc = "hooks"
        /\ "settings" \notin crossed' =>
             settings # {} /\ \A q \in Procs \ {p} : ~InSettings(q)
    BY <1>3, LateGoes DEF Goes, BackUp, Mark
  <2>2. \/ proc'[p].pc = "off"
        \/ proc'[p].pc = "hookopen" /\ proc'[p].hooks = settings
    <3>1. Late(proc[p]) /\ DOMAIN proc = Procs
      BY <2>1, HoldsLate DEF TypeInv, LatePcs
    <3> QED
      BY <1>3, <3>1 DEF BackUp, Late, Off
  <2> QED
    BY <1>2, <2>1, <2>2 DEF HookInv, InSettings, Only
<1>4. CASE OpenSettings(p)
  <2>1. /\ Only(p) /\ proc[p].pc = "hookopen" /\ proc'[p].pc = "hookwrite"
        /\ settings' = {} /\ UNCHANGED bak
    BY <1>4, LateGoes DEF Goes, OpenSettings
  <2>2. proc'[p].hooks = proc[p].hooks
    <3>1. Late(proc[p]) /\ DOMAIN proc = Procs
      BY <2>1, HoldsLate DEF TypeInv, LatePcs
    <3> QED
      BY <1>4, <3>1 DEF OpenSettings, Goto, Late
  <2> QED
    BY <1>2, <2>1, <2>2 DEF HookInv, InSettings, Only
<1>5. CASE WriteSettings(p)
  <2>1. /\ Only(p) /\ proc[p].pc = "hookwrite" /\ proc'[p].pc = "off"
        /\ settings' = proc[p].hooks \cup {"ettle"} /\ UNCHANGED bak
    BY <1>5, LateGoes DEF Goes, WriteSettings
  <2> QED
    BY <1>2, <2>1 DEF HookInv, InSettings, Only
<1>6. CASE ~(BackUp(p) \/ OpenSettings(p) \/ WriteSettings(p))
  <2>1. Only(p) /\ proc'[p].pc \notin {"hookopen", "hookwrite"}
    BY <1>6, EarlyGoes, MiddleGoes, LateGoes DEF Runs, Goes
  <2>2. UNCHANGED <<settings, bak>>
    BY <1>6 DEF Runs, Starts, Start, Verify, CreateProject, LoadMap, OpenMap, WriteMap, LoadIdent,
                OpenIdent, WriteIdent, RecordWorkspace, WriteOrg, SkipHooks, Kill, files, ghosts
  <2> QED
    BY <1>2, <2>1, <2>2, HookQuiet
<1> QED
  BY <1>3, <1>4, <1>5, <1>6

----------------------------------------------------------------------------
(* The identity files.                                                     *)

(* A step that is about another room, or that is not in the identity.      *)
LEMMA IdentOther ==
  ASSUME NEW r \in RoomNames, IdentAt(r), NEW p \in Procs, Only(p), crossed \subseteq crossed',
         proc[p].room # r,
         proc'[p].pc \in IdentPcs \cup {"create"} => proc'[p].room = proc[p].room,
         ident'[r] = ident[r], named'[r] = named[r], home'[r] = home[r]
  PROVE  IdentAt(r)'
BY DEF IdentAt, InIdent, Writes, Emptied, Creating, At, Only, IdentPcs

LEMMA IdentQuiet ==
  ASSUME NEW r \in RoomNames, IdentAt(r), NEW p \in Procs, Only(p), crossed \subseteq crossed',
         proc[p].pc \notin {"mewrite", "orgwrite"},
         proc'[p].pc \notin IdentPcs \cup {"create"}, UNCHANGED <<ident, named, home>>
  PROVE  IdentAt(r)'
BY DEF IdentAt, InIdent, Writes, Emptied, Creating, At, Only, IdentPcs

LEMMA IdentVerify ==
  ASSUME TypeInv, IdentInv, NEW p \in Procs, Verify(p), NEW r \in RoomNames
  PROVE  IdentAt(r)'
<1>1. /\ Only(p) /\ proc[p].pc = "verify" /\ proc'[p].pc \in {"create", "map"}
      /\ UNCHANGED <<ident, named, home>> /\ crossed \subseteq crossed' /\ IdentAt(r)
  BY EarlyGoes, CrossedGrows DEF Goes, Verify, files, ghosts, Runs, IdentInv
<1>2. /\ proc'[p].room = proc[p].room /\ proc'[p].space = proc[p].space
      /\ proc'[p].pc = "create" => MayCreate(proc[p].room, proc[p].space)
  <2>1. Early(proc[p]) /\ DOMAIN proc = Procs
    BY <1>1, HoldsEarly DEF TypeInv, EarlyPcs
  <2> QED
    BY <2>1 DEF Verify, Goto, Early
<1>3. CASE proc[p].room # r
  BY <1>1, <1>2, <1>3, IdentOther
<1>4. CASE proc'[p].pc # "create"
  BY <1>1, <1>4, IdentQuiet DEF IdentPcs
<1>5. CASE proc[p].room = r /\ proc'[p].pc = "create"
  <2>1. r \notin crossed' => ~Emptied(r)
    BY <1>5 DEF Verify, Mark
  <2>2. r \notin crossed' => home[r] \in {None, proc[p].space}
    BY <1>1, <1>2, <1>5, <2>1 DEF IdentAt, MayCreate, Expected
  <2> QED
    BY <1>1, <1>2, <1>5, <2>2 DEF IdentAt, InIdent, Writes, Emptied, Creating, At, Only
<1> QED
  BY <1>3, <1>4, <1>5

LEMMA MiddleKeeps ==
  ASSUME TypeInv, NEW p \in Procs,
         LoadIdent(p) \/ OpenIdent(p) \/ (RecordWorkspace(p) /\ proc'[p].pc = "orgopen")
  PROVE  /\ proc'[p].room = proc[p].room /\ proc'[p].space = proc[p].space
         /\ proc'[p].me = proc[p].me
         /\ OpenIdent(p) => proc'[p].id = proc[p].id
         /\ LoadIdent(p) => proc'[p].id = [ident[proc[p].room] EXCEPT !.me = proc[p].me]
         /\ RecordWorkspace(p) => proc'[p].id = [ident[proc[p].room] EXCEPT !.org = proc[p].space]
<1>1. Middle(proc[p]) /\ DOMAIN proc = Procs
  <2>1. proc[p].pc \in IdentPcs \cup {"me", "org"}
    BY MiddleGoes DEF Goes, IdentPcs
  <2> QED
    BY <2>1, HoldsMiddle DEF TypeInv
<1>2. CASE LoadIdent(p)
  BY <1>1, <1>2 DEF LoadIdent, OpenIdent, RecordWorkspace, At, Middle
<1>3. CASE OpenIdent(p)
  BY <1>1, <1>3 DEF LoadIdent, OpenIdent, RecordWorkspace, Goto, At, Middle
<1>4. CASE RecordWorkspace(p) /\ proc'[p].pc = "orgopen"
  <2>1. proc' = [proc EXCEPT ![p].pc = "orgopen",
                             ![p].id = [ident[proc[p].room] EXCEPT !.org = proc[p].space]]
    <3>1. ~(proc' = [proc EXCEPT ![p] = Hooking])
      BY <1>1, <1>4 DEF Hooking
    <3> QED
      BY <1>4, <3>1 DEF RecordWorkspace
  <2> QED
    BY <1>1, <1>4, <2>1 DEF LoadIdent, OpenIdent, RecordWorkspace, At, Middle
<1> QED
  BY <1>2, <1>3, <1>4

(* Loading: while nobody else has the identity, it is what was recorded.   *)
LEMMA IdentLoads ==
  ASSUME TypeInv, IdentInv, NEW p \in Procs,
         LoadIdent(p) \/ RecordWorkspace(p), NEW r \in RoomNames
  PROVE  IdentAt(r)'
<1>1. /\ Only(p) /\ proc[p].pc \in {"me", "org"} /\ proc'[p].pc \in {"meopen", "orgopen", "hooks"}
      /\ LoadIdent(p) => proc'[p].pc = "meopen"
      /\ RecordWorkspace(p) => proc'[p].pc \in {"orgopen", "hooks"}
      /\ UNCHANGED <<ident, named, home>> /\ crossed \subseteq crossed' /\ IdentAt(r)
  BY MiddleGoes, CrossedGrows DEF Goes, LoadIdent, RecordWorkspace, files, ghosts, Runs, IdentInv
<1>2. CASE proc'[p].pc = "hooks"
  BY <1>1, <1>2, IdentQuiet DEF IdentPcs
<1>3. CASE proc'[p].pc # "hooks" /\ proc[p].room # r
  BY <1>1, <1>3, MiddleKeeps, IdentOther
<1>4. CASE proc'[p].pc # "hooks" /\ proc[p].room = r
  <2>1. Middle(proc[p])
    BY <1>1, HoldsMiddle DEF TypeInv
  <2>2. /\ proc'[p].room = r /\ proc'[p].me = proc[p].me /\ proc'[p].space = proc[p].space
        /\ LoadIdent(p) => proc'[p].id = [ident[r] EXCEPT !.me = proc[p].me]
        /\ RecordWorkspace(p) => proc'[p].id = [ident[r] EXCEPT !.org = proc[p].space]
    BY <1>1, <1>4, MiddleKeeps
  <2>3. r \notin crossed' => \A q \in Procs \ {p} : ~InIdent(q, r)
    <3>1. CASE LoadIdent(p)
      BY <1>4, <3>1 DEF LoadIdent, Mark
    <3>2. CASE RecordWorkspace(p)
      <4>1. ~(proc' = [proc EXCEPT ![p] = Hooking])
        BY <1>4 DEF Hooking, TypeInv
      <4> QED
        BY <1>4, <3>2, <4>1 DEF RecordWorkspace, Mark
    <3> QED
      BY <3>1, <3>2
  <2>4. r \notin crossed' => ~Emptied(r) /\ ident[r] = [me |-> named[r], org |-> home[r]]
    BY <1>1, <2>3 DEF IdentAt, Emptied, InIdent
  <2>5. RecordWorkspace(p) => ident[r].org \in {None, proc[p].space}
    <3>1. ASSUME RecordWorkspace(p) PROVE ~(proc' = [proc EXCEPT ![p] = Hooking])
      BY <1>4 DEF Hooking, TypeInv
    <3> QED
      BY <1>4, <3>1 DEF RecordWorkspace, Expected
  <2>6. r \notin crossed' => Writes(p, r)'
    BY <1>1, <1>4, <2>2, <2>4, <2>5 DEF Writes
  <2> QED
    BY <1>1, <2>2, <2>3, <2>4, <2>6 DEF IdentAt, InIdent, Writes, Emptied, Creating, At, Only
<1> QED
  BY <1>2, <1>3, <1>4

LEMMA IdentOpens ==
  ASSUME TypeInv, IdentInv, NEW p \in Procs, OpenIdent(p), NEW r \in RoomNames
  PROVE  IdentAt(r)'
<1>1. /\ Only(p) /\ proc[p].pc \in {"meopen", "orgopen"}
      /\ proc'[p].pc = IF proc[p].pc = "meopen" THEN "mewrite" ELSE "orgwrite"
      /\ UNCHANGED <<named, home>> /\ crossed \subseteq crossed' /\ IdentAt(r)
      /\ ident' = [ident EXCEPT ![proc[p].room] = NoOne]
  BY MiddleGoes, CrossedGrows DEF Goes, OpenIdent, ghosts, Runs, IdentInv
<1>2. /\ proc'[p].room = proc[p].room /\ proc'[p].me = proc[p].me
      /\ proc'[p].space = proc[p].space /\ proc'[p].id = proc[p].id
  BY MiddleKeeps
<1>3. CASE proc[p].room # r
  <2>1. ident'[r] = ident[r]
    BY <1>1, <1>3 DEF TypeInv
  <2> QED
    BY <1>1, <1>2, <1>3, <2>1, IdentOther
<1>4. CASE proc[p].room = r
  <2>1. Emptied(r)'
    BY <1>1, <1>2, <1>4 DEF Emptied
  <2> QED
    BY <1>1, <1>2, <1>4, <2>1 DEF IdentAt, InIdent, Writes, Creating, At, Only
<1> QED
  BY <1>3, <1>4

LEMMA IdentWrites ==
  ASSUME TypeInv, IdentInv, NEW p \in Procs, WriteIdent(p) \/ WriteOrg(p), NEW r \in RoomNames
  PROVE  IdentAt(r)'
<1> DEFINE q == proc[p]
<1>1. /\ Only(p) /\ q.pc \in {"mewrite", "orgwrite"}
      /\ WriteIdent(p) => q.pc = "mewrite"
      /\ WriteOrg(p) => q.pc = "orgwrite"
      /\ proc'[p].pc \in {"org", "hooks"}
      /\ crossed \subseteq crossed' /\ IdentAt(r)
      /\ ident' = [ident EXCEPT ![q.room] = q.id]
      /\ WriteIdent(p) => named' = [named EXCEPT ![q.room] = q.me] /\ UNCHANGED home
      /\ WriteOrg(p) =>
           /\ home' = IF home[q.room] = None THEN [home EXCEPT ![q.room] = q.space] ELSE home
           /\ UNCHANGED named
  BY MiddleGoes, CrossedGrows DEF Goes, WriteIdent, WriteOrg, Runs, IdentInv
<1>2. Middle(q) /\ q.room \in RoomNames /\ q.space \in Spaces
  BY <1>1, HoldsMiddle DEF TypeInv, Middle, IdentPcs
<1>3. CASE q.room # r
  <2>1. ident'[r] = ident[r] /\ named'[r] = named[r] /\ home'[r] = home[r]
    BY <1>1, <1>3 DEF TypeInv
  <2> QED
    BY <1>1, <1>3, <2>1, IdentOther DEF IdentPcs
<1>4. ASSUME q.room = r, r \notin crossed' PROVE IdentAt(r)'
  <2>1. /\ InIdent(p, r) /\ Writes(p, r) /\ r \notin crossed
        /\ \A x \in Procs \ {p} : ~InIdent(x, r)
    BY <1>1, <1>4 DEF IdentAt, InIdent
  <2>2. ident'[r] = [me |-> named'[r], org |-> home'[r]]
    BY <1>1, <1>2, <1>4, <2>1, RoomsAssumption DEF Writes, TypeInv
  <2>3. \A x \in Procs : ~InIdent(x, r)'
    BY <1>1, <2>1 DEF InIdent, Only
  <2>4. \A x \in Procs : Creating(x, r)' => home'[r] \in {None, proc'[x].space}
    <3>1. CASE WriteIdent(p)
      BY <1>1, <1>4, <3>1, <2>1 DEF IdentAt, Creating, At, Only
    <3>2. CASE WriteOrg(p)
      <4>1. \A x \in Procs : ~Creating(x, r)
        BY <1>4, <3>2 DEF WriteOrg, Mark
      <4> QED
        BY <1>1, <4>1 DEF Creating, At, Only
    <3> QED
      BY <3>1, <3>2
  <2> QED
    BY <2>2, <2>3, <2>4 DEF IdentAt
<1> QED
  BY <1>3, <1>4 DEF IdentAt

LEMMA IdentKill ==
  ASSUME TypeInv, IdentInv, NEW p \in Procs, Kill(p), NEW r \in RoomNames
  PROVE  IdentAt(r)'
<1>1. /\ Only(p) /\ proc'[p].pc = "off" /\ UNCHANGED <<ident, named, home>>
      /\ crossed \subseteq crossed' /\ IdentAt(r)
      /\ proc[p].pc \in {"mewrite", "orgwrite"} => proc[p].room \in crossed'
  BY LateGoes, CrossedGrows DEF Kill, files, ghosts, Runs, IdentInv
<1>2. CASE proc[p].pc \notin {"mewrite", "orgwrite"}
  BY <1>1, <1>2, IdentQuiet DEF IdentPcs
<1>3. CASE proc[p].pc \in {"mewrite", "orgwrite"} /\ proc[p].room # r
  BY <1>1, <1>3, IdentOther DEF IdentPcs
<1>4. CASE r \in crossed'
  BY <1>4 DEF IdentAt
<1> QED
  BY <1>1, <1>2, <1>3, <1>4

LEMMA IdentStep ==
  ASSUME TypeInv, IdentInv, [Next]_vars
  PROVE  IdentInv'
<1>1. CASE UNCHANGED vars \/ Commands
  <2>1. UNCHANGED <<ident, named, home, proc, crossed>>
    BY <1>1 DEF vars, Commands, Command, files, ghosts
  <2> QED
    BY <2>1 DEF IdentInv, IdentAt, InIdent, Writes, Emptied, Creating, At
<1> SUFFICES ASSUME NEW p \in Procs, Runs(p), NEW r \in RoomNames PROVE IdentAt(r)'
  BY <1>1, NextIs DEF IdentInv
<1>2. CASE \/ Verify(p) \/ LoadIdent(p) \/ OpenIdent(p) \/ WriteIdent(p) \/ RecordWorkspace(p)
           \/ WriteOrg(p) \/ Kill(p)
  BY <1>2, IdentVerify, IdentLoads, IdentOpens, IdentWrites, IdentKill
<1>3. CASE ~(\/ Verify(p) \/ LoadIdent(p) \/ OpenIdent(p) \/ WriteIdent(p) \/ RecordWorkspace(p)
             \/ WriteOrg(p) \/ Kill(p))
  <2>1. /\ Only(p) /\ proc[p].pc \notin {"mewrite", "orgwrite"}
        /\ proc'[p].pc \notin IdentPcs \cup {"create"}
    BY <1>3, EarlyGoes, MiddleGoes, LateGoes DEF Runs, Goes, IdentPcs
  <2>2. UNCHANGED <<ident, named, home>>
    BY <1>3 DEF Runs, Starts, Start, CreateProject, LoadMap, OpenMap, WriteMap,
                SkipHooks, BackUp, OpenSettings, WriteSettings, files, ghosts
  <2>3. crossed \subseteq crossed'
    BY CrossedGrows
  <2> QED
    BY <2>1, <2>2, <2>3, IdentQuiet DEF IdentInv
<1> QED
  BY <1>2, <1>3

----------------------------------------------------------------------------
(* The profiles.                                                           *)

LEMMA TypedQuiet ==
  ASSUME TypedInv, NEW p \in Procs, Only(p), crossed \subseteq crossed',
         ~BeforeMap(p)', UNCHANGED <<told, flagged>>
  PROVE  TypedInv'
BY DEF TypedInv, BeforeMap, InStore, Only

LEMMA UntypedQuiet ==
  ASSUME UntypedInv, NEW p \in Procs, Only(p), ~BeforeMap(p)', UNCHANGED <<store, flagged>>
  PROVE  UntypedInv'
BY DEF UntypedInv, BeforeMap, InStore, Only

(* Before the map a run goes on with the profile it started with.          *)
LEMMA EarlyKeeps ==
  ASSUME TypeInv, NEW p \in Procs, Verify(p) \/ CreateProject(p) \/ LoadMap(p) \/ OpenMap(p)
  PROVE  /\ Only(p) /\ BeforeMap(p) /\ BeforeMap(p)'
         /\ proc'[p].flag = proc[p].flag /\ proc'[p].profile = proc[p].profile
         /\ proc'[p].dir = proc[p].dir
         /\ proc'[p].map = IF LoadMap(p) THEN store ELSE proc[p].map
<1>1. /\ Only(p) /\ BeforeMap(p) /\ BeforeMap(p)' /\ proc[p].pc \in EarlyPcs
      /\ LoadMap(p) <=> proc'[p].pc = "mapopen"
  BY EarlyGoes DEF Goes, BeforeMap, InStore, EarlyPcs
<1>2. Early(proc[p]) /\ DOMAIN proc = Procs
  BY <1>1, HoldsEarly DEF TypeInv
<1>3. CASE Verify(p)
  BY <1>1, <1>2, <1>3, EarlyGoes DEF Goes, Verify, Goto, Early
<1>4. CASE CreateProject(p)
  <2>1. PICK ok \in BOOLEAN : proc' = [proc EXCEPT ![p].pc = "map", ![p].ok = ok]
    BY <1>4 DEF CreateProject
  <2> QED
    BY <1>1, <1>2, <1>4, <2>1, EarlyGoes DEF Goes, Early
<1>5. CASE LoadMap(p)
  BY <1>1, <1>2, <1>5 DEF LoadMap, Early
<1>6. CASE OpenMap(p)
  BY <1>1, <1>2, <1>6, EarlyGoes DEF Goes, OpenMap, Goto, Early
<1> QED
  BY <1>3, <1>4, <1>5, <1>6

LEMMA ProfileStarts ==
  ASSUME TypeInv, StoreInv, TypedInv, UntypedInv, NEW p \in Procs, Starts(p)
  PROVE  TypedInv' /\ UntypedInv'
<1>1. PICK d \in Dirs, r \in RoomNames, n \in Names, f \in Chosen, env \in Chosen :
        Start(p, d, r, n, f, env)
  BY DEF Starts
<1>2. /\ Only(p) /\ UNCHANGED <<store, told, flagged>> /\ proc[p].pc = "off"
      /\ crossed \subseteq crossed'
      /\ proc'[p].pc = "verify" /\ proc'[p].dir = d /\ proc'[p].flag = f
      /\ proc'[p].profile = Recorded(Resolve(d), f, env) /\ proc'[p].map = <<>>
      /\ "profile" \notin crossed' => \A q \in Procs : ~BeforeMap(q)
  BY <1>1, EarlyGoes, CrossedGrows DEF TypeInv, Start, At, Mark, Only, files, ghosts, Runs, Goes
<1>3. ASSUME {"store", "profile"} \cap crossed' = {}, f = None, flagged[d] # None
      PROVE  proc'[p].profile = flagged[d]
  <2>1. store = told
    BY <1>2, <1>3 DEF StoreInv, BeforeMap, InStore
  <2>2. d \in DOMAIN store /\ store[d].profile = flagged[d]
    BY <1>2, <1>3, <2>1 DEF TypedInv
  <2> QED
    BY <1>2, <1>3, <2>2, ResolveOK DEF Recorded, TypeInv
<1>4. TypedInv'
  BY <1>2, <1>3 DEF TypedInv, BeforeMap, InStore, Only, Recorded
<1>5. ASSUME \A x \in Dirs : flagged[x] = None
      PROVE  Plain(proc'[p].map) /\ (f = None => proc'[p].profile \in FileProfiles)
  BY <1>2, <1>5, EmptyMap, ResolveOK DEF UntypedInv, Recorded, TypeInv
<1>6. UntypedInv'
  BY <1>2, <1>5 DEF UntypedInv, BeforeMap, InStore, Only, Plain, FileProfiles
<1> QED
  BY <1>4, <1>6

LEMMA ProfileEarly ==
  ASSUME TypeInv, TypedInv, UntypedInv, NEW p \in Procs,
         Verify(p) \/ CreateProject(p) \/ LoadMap(p) \/ OpenMap(p)
  PROVE  TypedInv' /\ UntypedInv'
<1>1. /\ Only(p) /\ BeforeMap(p) /\ BeforeMap(p)'
      /\ proc'[p].flag = proc[p].flag /\ proc'[p].profile = proc[p].profile
      /\ proc'[p].dir = proc[p].dir
      /\ proc'[p].map = IF LoadMap(p) THEN store ELSE proc[p].map
  BY EarlyKeeps
<1>2. UNCHANGED <<told, flagged>> /\ (store' = store \/ store' = <<>>) /\ crossed \subseteq crossed'
  BY CrossedGrows DEF Verify, CreateProject, LoadMap, OpenMap, files, ghosts, Runs
<1>3. TypedInv'
  BY <1>1, <1>2 DEF TypedInv, BeforeMap, InStore, Only
<1>4. Plain(store) => Plain(store')
  BY <1>2, EmptyMap
<1>5. ASSUME \A x \in Dirs : flagged[x] = None
      PROVE  /\ Plain(store')
             /\ \A q \in Procs : BeforeMap(q)' =>
                  Plain(proc'[q].map) /\ (proc'[q].flag = None => proc'[q].profile \in FileProfiles)
  BY <1>1, <1>4, <1>5 DEF UntypedInv, BeforeMap, InStore, Only
<1>6. UntypedInv'
  BY <1>2, <1>5 DEF UntypedInv, Plain, FileProfiles
<1> QED
  BY <1>3, <1>6

LEMMA ProfileWrites ==
  ASSUME TypeInv, TypedInv, UntypedInv, NEW p \in Procs, WriteMap(p)
  PROVE  TypedInv' /\ UntypedInv'
<1> DEFINE q == proc[p]
           e == Entry(q.room, q.profile)
<1>1. /\ Only(p) /\ q.pc = "mapwrite" /\ BeforeMap(p) /\ ~BeforeMap(p)' /\ crossed' = crossed
      /\ store' = With(q.map, q.dir, e) /\ told' = With(told, q.dir, e)
      /\ flagged' = IF q.flag = None THEN flagged ELSE [flagged EXCEPT ![q.dir] = q.flag]
  BY EarlyGoes DEF Goes, BeforeMap, InStore, WriteMap
<1>2. Early(q)
  BY <1>1, HoldsEarly DEF TypeInv, EarlyPcs
<1>3. /\ q.dir \in Dirs /\ q.map \in Maps /\ e \in Entries /\ e.profile = q.profile /\ told \in Maps
      /\ flagged \in [Dirs -> Chosen]
  BY <1>2 DEF Early, Entry, Entries, TypeInv
<1> HIDE DEF e
<1>4. ASSUME {"store", "profile"} \cap crossed = {} PROVE TypedInv'
  <2>1. /\ \A x \in Procs : BeforeMap(x)' => x # p /\ BeforeMap(x)
        /\ \A x \in Procs \ {p} : ~BeforeMap(x)
    BY <1>1, <1>4 DEF TypedInv, BeforeMap, InStore, Only
  <2>2. \A x \in Procs : ~BeforeMap(x)'
    BY <2>1
  <2>3. ASSUME NEW d \in Dirs, flagged'[d] # None
        PROVE  d \in DOMAIN told' /\ told'[d].profile = flagged'[d]
    <3>1. /\ DOMAIN told' = DOMAIN told \cup {q.dir} /\ told'[q.dir] = e
          /\ \A x \in DOMAIN told \ {q.dir} : told'[x] = told[x]
      BY <1>1 DEF With
    <3>2. CASE d = q.dir
      BY <1>1, <1>3, <1>4, <2>3, <3>1, <3>2 DEF TypedInv
    <3>3. CASE d # q.dir
      BY <1>1, <1>3, <1>4, <2>3, <3>1, <3>3 DEF TypedInv
    <3> QED
      BY <3>2, <3>3
  <2> QED
    BY <2>2, <2>3 DEF TypedInv
<1>5. ASSUME \A d \in Dirs : flagged'[d] = None PROVE UntypedInv'
  <2>1. q.flag = None /\ flagged' = flagged
    BY <1>1, <1>3, <1>5
  <2>2. Plain(q.map) /\ q.profile \in FileProfiles
    BY <1>1, <1>5, <2>1 DEF UntypedInv
  <2>3. Plain(store')
    BY <1>1, <1>3, <2>2 DEF Plain, With
  <2>4. \A x \in Procs : BeforeMap(x)' =>
           Plain(proc'[x].map) /\ (proc'[x].flag = None => proc'[x].profile \in FileProfiles)
    BY <1>1, <1>5, <2>1 DEF UntypedInv, BeforeMap, InStore, Only
  <2> QED
    BY <2>3, <2>4 DEF UntypedInv, Plain, FileProfiles
<1> QED
  BY <1>1, <1>4, <1>5 DEF TypedInv, UntypedInv

LEMMA ProfileStep ==
  ASSUME TypeInv, StoreInv, TypedInv, UntypedInv, [Next]_vars
  PROVE  TypedInv' /\ UntypedInv'
<1>1. CASE UNCHANGED vars \/ Commands
  <2>1. UNCHANGED <<store, told, flagged, proc, crossed>>
    BY <1>1 DEF vars, Commands, Command, files, ghosts
  <2> QED
    BY <2>1 DEF TypedInv, UntypedInv, BeforeMap, InStore, Plain, FileProfiles
<1> SUFFICES ASSUME NEW p \in Procs, Runs(p) PROVE TypedInv' /\ UntypedInv'
  BY <1>1, NextIs
<1>2. CASE \/ Starts(p) \/ Verify(p) \/ CreateProject(p) \/ LoadMap(p) \/ OpenMap(p) \/ WriteMap(p)
  BY <1>2, ProfileStarts, ProfileEarly, ProfileWrites
<1>3. CASE ~(\/ Starts(p) \/ Verify(p) \/ CreateProject(p) \/ LoadMap(p) \/ OpenMap(p) \/ WriteMap(p))
  <2>1. Only(p) /\ ~BeforeMap(p)'
    BY <1>3, MiddleGoes, LateGoes DEF Runs, Goes, BeforeMap, InStore
  <2>2. UNCHANGED <<store, told, flagged>>
    BY <1>3 DEF Runs, LoadIdent, OpenIdent, WriteIdent, RecordWorkspace, WriteOrg,
                SkipHooks, BackUp, OpenSettings, WriteSettings, Kill, files, ghosts
  <2>3. crossed \subseteq crossed'
    BY CrossedGrows
  <2> QED
    BY <2>1, <2>2, <2>3, TypedQuiet, UntypedQuiet
<1> QED
  BY <1>2, <1>3

----------------------------------------------------------------------------
RoomsInv == TypeInv /\ StoreInv /\ IdentInv /\ HookInv /\ TypedInv /\ UntypedInv

LEMMA RoomsInit == Init => RoomsInv
<1> SUFFICES ASSUME Init PROVE RoomsInv
  OBVIOUS
<1>1. \A p \in Procs : proc[p].pc = "off"
  BY DEF Init, Off
<1>2. TypeInv
  BY TypeInit
<1>3. StoreInv /\ HookInv /\ TypedInv /\ UntypedInv
  BY <1>1, EmptyMap DEF Init, StoreInv, HookInv, TypedInv, UntypedInv, BeforeMap, InStore, InSettings
<1>4. IdentInv
  BY <1>1 DEF Init, IdentInv, IdentAt, InIdent, Creating, At, NoOne
<1> QED
  BY <1>2, <1>3, <1>4 DEF RoomsInv

LEMMA RoomsStep == RoomsInv /\ [Next]_vars => RoomsInv'
<1> SUFFICES ASSUME RoomsInv, [Next]_vars PROVE RoomsInv'
  OBVIOUS
<1> USE DEF RoomsInv
<1>1. TypeInv'
  BY TypeStep
<1>2. StoreInv'
  BY StoreStep
<1>3. IdentInv'
  BY IdentStep
<1>4. HookInv'
  BY HookStep
<1>5. TypedInv' /\ UntypedInv'
  BY ProfileStep
<1> QED
  BY <1>1, <1>2, <1>3, <1>4, <1>5

(* roomstore.go, roomfile.go 205-207: whatever runs of init interleave and *)
(* whichever are killed, a directory's entry and a room's identity and     *)
(* workspace stay what they were last told, unless two runs crossed in     *)
(* that very file or one was killed writing it.                            *)
THEOREM RecordsStay == Spec => []RecordsKept
<1>1. RoomsInv => RecordsKept
  <2> SUFFICES ASSUME RoomsInv PROVE RecordsKept
    OBVIOUS
  <2>1. TypeOK
    <3>1. DOMAIN store \subseteq Dirs /\ \A d \in DOMAIN store : store[d].room \in RoomNames
      BY DEF RoomsInv, TypeInv, Maps, Entries
    <3>2. \A r \in RoomNames : ident[r] \in Ids
      BY DEF RoomsInv, TypeInv
    <3> QED
      BY <3>1, <3>2 DEF RoomsInv, TypeInv, TypeOK, Ids, Hooks
  <2> QED
    BY <2>1 DEF RoomsInv, StoreInv, IdentInv, IdentAt, RecordsKept, At
<1> QED
  BY <1>1, RoomsInit, RoomsStep, PTL DEF Spec

(* init.go 738-744: the user's own hooks survive every install and every   *)
(* kill of one, in the settings or in the backup beside them.              *)
THEOREM HooksSurvive == Spec => []UserHooksKept
<1>1. RoomsInv => UserHooksKept
  BY DEF RoomsInv, HookInv, UserHooksKept
<1> QED
  BY <1>1, RoomsInit, RoomsStep, PTL DEF Spec

(* init.go 86-96: the profile typed for a directory is the one its         *)
(* commands read until another is typed, and none comes from the           *)
(* environment.                                                            *)
THEOREM TypedProfileStands == Spec => []ProfileStands
<1>1. RoomsInv => ProfileStands
  <2> SUFFICES ASSUME RoomsInv PROVE ProfileStands
    OBVIOUS
  <2>1. ASSUME {"store", "profile"} \cap crossed = {}, \A p \in Procs : ~At(p, "mapwrite"),
               NEW d \in Dirs, flagged[d] # None
        PROVE  Resolve(d).profile = flagged[d]
    <3>1. store = told
      BY <2>1 DEF RoomsInv, StoreInv, At
    <3>2. d \in DOMAIN store /\ store[d].profile = flagged[d]
      BY <2>1, <3>1 DEF RoomsInv, TypedInv
    <3> QED
      BY <3>2, ResolveOK DEF RoomsInv, TypeInv
  <2>2. ASSUME \A d \in Dirs : flagged[d] = None, NEW d \in Dirs
        PROVE  Resolve(d).profile \in FileProfiles
    BY <2>2, ResolveOK DEF RoomsInv, TypeInv, UntypedInv
  <2> QED
    BY <2>1, <2>2 DEF ProfileStands
<1> QED
  BY <1>1, RoomsInit, RoomsStep, PTL DEF Spec

(* roomfile.go 236-239: once a room's workspace is on record no step of    *)
(* any run or command creates a second project of its name, but for a bus  *)
(* constructed while the record was being rewritten.                       *)
THEOREM OneProjectPerRoom == Spec => NoSecondRoom
<1> DEFINE Safe == \A r \in RoomNames : home[r] # None /\ r \notin crossed /\ ~Emptied(r) =>
                     projects'[r] \ projects[r] \subseteq {home[r]}
<1>1. RoomsInv /\ [Next]_vars => [Safe]_vars
  <2> SUFFICES ASSUME RoomsInv, Next, NEW r \in RoomNames,
                      home[r] # None, r \notin crossed, ~Emptied(r)
               PROVE  projects'[r] \ projects[r] \subseteq {home[r]}
    OBVIOUS
  <2>1. TypeInv /\ IdentAt(r) /\ projects \in [RoomNames -> SUBSET Spaces]
    BY DEF RoomsInv, IdentInv, TypeInv
  <2>2. ASSUME NEW p \in Procs, CreateProject(p)
        PROVE  projects'[r] \ projects[r] \subseteq {home[r]}
    <3>1. projects' = [projects EXCEPT ![proc[p].room] = @ \cup {proc[p].space}] /\ At(p, "create")
      BY <2>2 DEF CreateProject
    <3>2. CASE proc[p].room = r
      <4>1. home[r] = proc[p].space
        BY <2>1, <3>1, <3>2 DEF IdentAt, Creating
      <4> QED
        BY <2>1, <3>1, <3>2, <4>1
    <3>3. CASE proc[p].room # r
      BY <2>1, <3>1, <3>3
    <3> QED
      BY <3>2, <3>3
  <2>3. ASSUME NEW d \in Dirs, NEW env \in Chosen, Command(d, env)
        PROVE  projects'[r] \ projects[r] \subseteq {home[r]}
    <3> DEFINE e == Resolve(d)
               w == SpaceOf[Active(e, env)]
    <3>1. projects' = [projects EXCEPT ![e.room] = @ \cup {w}] /\ MayCreate(e.room, w)
      BY <2>3 DEF Command
    <3> HIDE DEF e, w
    <3>2. CASE e.room = r
      <4>1. w = home[r]
        BY <2>1, <3>1, <3>2 DEF IdentAt, MayCreate, Expected
      <4> QED
        BY <2>1, <3>1, <3>2, <4>1
    <3>3. CASE e.room # r
      BY <2>1, <3>1, <3>3
    <3> QED
      BY <3>2, <3>3
  <2>4. ASSUME NEW p \in Procs, Runs(p), ~CreateProject(p)
        PROVE  projects' = projects
    BY <2>4 DEF Runs, Starts, Start, Verify, LoadMap, OpenMap, WriteMap, LoadIdent, OpenIdent,
                WriteIdent, RecordWorkspace, WriteOrg, SkipHooks, BackUp, OpenSettings,
                WriteSettings, Kill
  <2> QED
    BY <2>2, <2>3, <2>4, NextIs DEF Commands
<1> QED
  BY <1>1, RoomsInit, RoomsStep, PTL DEF Spec, NoSecondRoom
=============================================================================
