--------------------------- MODULE Horizon_proofs ---------------------------
(***************************************************************************)
(* Proofs about the horizon: what a mute, the debounce marker and the      *)
(* surfaced file keep true whatever the number of hooks and runs, for any  *)
(* window longer than a run's deadline.  The inductive invariants were     *)
(* first checked by TLC on the instance of horizon_refresh.                *)
(***************************************************************************)
EXTENDS Horizon, TLAPS

(* What a process holds, by where it is.                                   *)
Recs == UNION {[S -> Recurrence] : S \in SUBSET Keys}
Blocks == [run : Nat, rec : Recs]

DueProc   == [pc : {"due"}, who : Viewers]
SpawnProc == [pc : {"spawn"}, who : Viewers, began : Nat]
RunProc   == [pc : {"run"}, who : Viewers, hand : BOOLEAN, began : Nat, run : Nat]
FoundProc == [pc : {"found"}, who : Viewers, hand : BOOLEAN, began : Nat, run : Nat, rec : Recs]
TaggedProc == [pc : {"tagged", "surface", "block", "cache"}, who : Viewers, hand : BOOLEAN,
               began : Nat, block : Blocks, gone : SUBSET Keys]
ProcType == {Off} \cup DueProc \cup SpawnProc \cup RunProc \cup FoundProc \cup TaggedProc

Typed ==
  /\ now \in Nat /\ starts \in Nat /\ kills \in Nat /\ runs \in Nat /\ verdicts \in Nat
  /\ raced \in BOOLEAN
  /\ marker \in [Viewers -> Nat] /\ refreshes \in [Viewers -> Nat]
  /\ muted \in SUBSET Keys /\ dropped \in [Viewers -> SUBSET Keys]
  /\ surfaced \in Blocks /\ shown \in Blocks
  /\ DOMAIN cache = Viewers /\ \A v \in Viewers : cache[v] # Torn => cache[v] \in Blocks
  /\ proc \in [Procs -> ProcType]

(* The clock and the bounds.                                               *)
Clocked ==
  /\ now \in 1..MaxTime /\ starts \in 0..MaxStarts /\ kills \in 0..MaxKills
  /\ \A v \in Viewers : marker[v] <= now
  /\ \A p \in Procs : Running(p) => proc[p].began <= now /\ now <= proc[p].began + Timeout

(* Unless two hooks raced, a viewer has one hook about to mark, or one     *)
(* refresh under way and the marker still holds the time it was marked.    *)
IsDue(p, v) == proc[p].pc = "due" /\ proc[p].who = v
Refreshing(p, v) ==
  /\ Running(p) /\ proc[p].who = v
  /\ proc[p].pc = "spawn" \/ ~proc[p].hand

OneAtATime ==
  ~raced => \A v \in Viewers :
    /\ \A p \in Procs : IsDue(p, v) => Due(v)
    /\ \A p, q \in Procs : IsDue(p, v) /\ IsDue(q, v) => p = q
    /\ \A p \in Procs : Refreshing(p, v) => marker[v] # 0 /\ proc[p].began = marker[v]
    /\ \A p, q \in Procs : Refreshing(p, v) /\ Refreshing(q, v) => p = q

(* A marker that was set at some tick has been set at most so many times;  *)
(* a hook about to spawn has not used its mark yet.                        *)
Marks(v) == IF marker[v] = 0 THEN 0 ELSE 1 + ((marker[v] - 1) \div Window)

Budget ==
  ~raced => \A v \in Viewers :
    /\ refreshes[v] <= Marks(v)
    /\ \A p \in Procs : proc[p].pc = "spawn" /\ proc[p].who = v => refreshes[v] + 1 <= Marks(v)

(* Only a refresh writes the cache.                                        *)
HandPrints == \A p \in Procs : proc[p].pc = "cache" => ~proc[p].hand

RefreshInv == Typed /\ Clocked /\ HandPrints /\ OneAtATime /\ Budget

(* A tagged run holds none of what it left out, and it left out all that   *)
(* the cache's writers left out before it.                                 *)
Tagged(p) == proc[p].pc \in {"tagged", "surface", "block", "cache"}

LeftOut ==
  /\ \A v \in Viewers : dropped[v] \subseteq muted
  /\ \A p \in Procs : Tagged(p) => DOMAIN proc[p].block.rec \cap proc[p].gone = {}
  /\ ~raced => \A p \in Procs : Tagged(p) /\ ~proc[p].hand => dropped[proc[p].who] \subseteq proc[p].gone

(* A run's number names its block: wherever a block is kept, it is the one *)
(* of its run, and a run that has no block yet has a number none carries.  *)
Kept ==
  {NoBlock, shown, surfaced} \cup {cache[v] : v \in {w \in Viewers : cache[w] # Torn}}
    \cup {proc[p].block : p \in {q \in Procs : Tagged(q)}}
Unfolded(p) == proc[p].pc \in {"run", "found"}

BlockPerRun ==
  /\ \A a, b \in Kept : a.run = b.run => a = b
  /\ \A a \in Kept : a.run <= runs
  /\ \A p \in Procs : Unfolded(p) =>
       /\ proc[p].run <= runs
       /\ \A a \in Kept : a.run # proc[p].run
       /\ \A q \in Procs : Unfolded(q) /\ proc[q].run = proc[p].run => q = p

-----------------------------------------------------------------------------
(* Blocks.                                                                 *)

LEMMA RecsDomain ==
  ASSUME NEW r \in Recs
  PROVE  DOMAIN r \subseteq Keys
BY DEF Recs

LEMMA RecsEmpty == <<>> \in Recs /\ DOMAIN <<>> = {}
<1>1. DOMAIN <<>> = {}
  OBVIOUS
<1>2. <<>> \in [{} -> Recurrence]
  OBVIOUS
<1>. QED  BY <1>1, <1>2 DEF Recs

LEMMA RecsRestrict ==
  ASSUME NEW r \in Recs, NEW S
  PROVE  /\ Restrict(r, DOMAIN r \ S) \in Recs
         /\ DOMAIN Restrict(r, DOMAIN r \ S) = DOMAIN r \ S
<1>1. PICK T \in SUBSET Keys : r \in [T -> Recurrence]
  BY DEF Recs
<1>2. Restrict(r, T \ S) \in [T \ S -> Recurrence]
  BY <1>1 DEF Restrict
<1>. QED  BY <1>1, <1>2 DEF Recs, Restrict

LEMMA NoBlockIsBlock == NoBlock \in Blocks /\ NoBlock.run = 0 /\ DOMAIN NoBlock.rec = {}
BY RecsEmpty DEF NoBlock, Block, Blocks

-----------------------------------------------------------------------------
(* The state is typed.                                                     *)

LEMMA TypedInit == Init => Typed
<1>. SUFFICES ASSUME Init PROVE Typed
  OBVIOUS
<1>1. proc \in [Procs -> ProcType]
  BY DEF Init, ProcType
<1>2. surfaced \in Blocks /\ shown \in Blocks
  BY NoBlockIsBlock DEF Init
<1>3. DOMAIN cache = Viewers /\ \A v \in Viewers : cache[v] # Torn => cache[v] \in Blocks
  BY NoBlockIsBlock DEF Init
<1>. QED  BY <1>1, <1>2, <1>3 DEF Init, Typed

LEMMA TypedStep == Typed /\ [Next]_vars => Typed'
<1>. SUFFICES ASSUME Typed, [Next]_vars PROVE Typed'
  OBVIOUS
<1>1. CASE UNCHANGED vars
  BY <1>1 DEF Typed, vars
<1>2. CASE Tick
  BY <1>2 DEF Tick, Typed, stores
<1>3. ASSUME NEW p \in Procs, NEW v \in Viewers, Hook(p, v)
      PROVE  Typed'
  <2>1. [pc |-> "due", who |-> v] \in ProcType
    BY DEF ProcType, DueProc
  <2>2. proc' \in [Procs -> ProcType]
    BY <1>3, <2>1 DEF Hook, Typed
  <2>3. shown' \in Blocks
    BY <1>3 DEF Hook, Typed
  <2>. QED  BY <1>3, <2>2, <2>3 DEF Hook, Typed
<1>4. ASSUME NEW p \in Procs, HookMark(p)
      PROVE  Typed'
  <2>1. proc[p] \in DueProc
    BY <1>4 DEF HookMark, Typed, ProcType, Off, SpawnProc, RunProc, FoundProc, TaggedProc
  <2>2. [pc |-> "spawn", who |-> proc[p].who, began |-> now] \in ProcType
    BY <2>1 DEF ProcType, SpawnProc, DueProc, Typed
  <2>. QED  BY <1>4, <2>1, <2>2 DEF HookMark, Typed, stores, DueProc
<1>5. ASSUME NEW p \in Procs, HookSpawn(p)
      PROVE  Typed'
  <2>1. proc[p] \in SpawnProc
    BY <1>5 DEF HookSpawn, Typed, ProcType, Off, DueProc, RunProc, FoundProc, TaggedProc
  <2>2. [pc |-> "run", who |-> proc[p].who, hand |-> FALSE, began |-> proc[p].began,
         run |-> runs + 1] \in ProcType
    BY <2>1 DEF ProcType, SpawnProc, RunProc, Typed
  <2>. QED  BY <1>5, <2>1, <2>2 DEF HookSpawn, Begin, Typed, stores, clock, SpawnProc
<1>6. ASSUME NEW p \in Procs, NEW v \in Viewers, RunByHand(p, v)
      PROVE  Typed'
  <2>1. [pc |-> "run", who |-> v, hand |-> TRUE, began |-> now, run |-> runs + 1] \in ProcType
    BY DEF ProcType, RunProc, Typed
  <2>. QED  BY <1>6, <2>1 DEF RunByHand, Begin, Typed, stores
<1>7. ASSUME NEW p \in Procs, Reconcile(p)
      PROVE  Typed'
  <2>1. proc[p] \in RunProc
    BY <1>7 DEF Reconcile, Typed, ProcType, Off, DueProc, SpawnProc, FoundProc, TaggedProc
  <2>2. PICK S \in SUBSET Involves[proc[p].who] :
          \E rec \in [S -> IF proc[p].hand THEN Recurrence \ {"none"} ELSE {"none"}] :
            proc' = [proc EXCEPT ![p] = [pc |-> "found", who |-> @.who, hand |-> @.hand,
                                         began |-> @.began, run |-> @.run, rec |-> rec]]
    BY <1>7 DEF Reconcile
  <2>3. PICK rec \in [S -> IF proc[p].hand THEN Recurrence \ {"none"} ELSE {"none"}] :
            proc' = [proc EXCEPT ![p] = [pc |-> "found", who |-> @.who, hand |-> @.hand,
                                         began |-> @.began, run |-> @.run, rec |-> rec]]
    BY <2>2
  <2>4. S \in SUBSET Keys
    BY <2>1, <2>2, HorizonAssumption DEF RunProc
  <2>5. rec \in [S -> Recurrence]
    BY <2>3 DEF Recurrence
  <2>6. rec \in Recs
    BY <2>4, <2>5 DEF Recs
  <2>7. [pc |-> "found", who |-> proc[p].who, hand |-> proc[p].hand,
         began |-> proc[p].began, run |-> proc[p].run, rec |-> rec] \in ProcType
    BY <2>1, <2>6 DEF ProcType, RunProc, FoundProc
  <2>. QED  BY <1>7, <2>3, <2>7 DEF Reconcile, Typed, stores, clock
<1>8. ASSUME NEW p \in Procs, RunFails(p) \/ Kill(p)
      PROVE  Typed'
  BY <1>8 DEF RunFails, Kill, Typed, ProcType, stores, clock
<1>9. ASSUME NEW p \in Procs, Tag(p)
      PROVE  Typed'
  <2>1. proc[p] \in FoundProc
    BY <1>9 DEF Tag, Typed, ProcType, Off, DueProc, SpawnProc, RunProc, TaggedProc
  <2>2. Restrict(proc[p].rec, DOMAIN proc[p].rec \ muted) \in Recs
    BY <2>1, RecsRestrict DEF FoundProc
  <2>3. [pc |-> "tagged", who |-> proc[p].who, hand |-> proc[p].hand, began |-> proc[p].began,
         block |-> Block(proc[p].run, Restrict(proc[p].rec, DOMAIN proc[p].rec \ muted)),
         gone |-> muted] \in ProcType
    BY <2>1, <2>2 DEF ProcType, FoundProc, TaggedProc, Blocks, Block, Typed
  <2>. QED  BY <1>9, <2>3 DEF Tag, Typed, stores, clock
<1>10. ASSUME NEW p \in Procs,
              \/ OpenSurfaced(p) \/ WriteSurfaced(p) \/ PrintBlock(p) \/ OpenCache(p) \/ FillCache(p)
       PROVE  Typed'
  <2>1. proc[p] \in TaggedProc
    BY <1>10 DEF OpenSurfaced, WriteSurfaced, PrintBlock, OpenCache, FillCache, Typed, ProcType,
                 Off, DueProc, SpawnProc, RunProc, FoundProc
  <2>2. [proc[p] EXCEPT !.pc = "surface"] \in ProcType /\ [proc[p] EXCEPT !.pc = "block"] \in ProcType
        /\ [proc[p] EXCEPT !.pc = "cache"] \in ProcType
    BY <2>1 DEF ProcType, TaggedProc
  <2>3. Off \in ProcType /\ proc[p].block \in Blocks /\ proc[p].gone \in SUBSET Keys
        /\ proc[p].who \in Viewers
    BY <2>1 DEF ProcType, TaggedProc
  <2>4. CASE OpenSurfaced(p)
    BY <2>4, <2>2, NoBlockIsBlock DEF OpenSurfaced, Typed, clock
  <2>5. CASE WriteSurfaced(p)
    BY <2>5, <2>2, <2>3 DEF WriteSurfaced, Typed, clock
  <2>6. CASE PrintBlock(p)
    BY <2>6, <2>2, <2>3 DEF PrintBlock, Typed, clock
  <2>7. CASE OpenCache(p)
    BY <2>7, <2>2, <2>3 DEF OpenCache, Typed, clock
  <2>8. CASE FillCache(p)
    BY <2>8, <2>2, <2>3 DEF FillCache, Typed, clock
  <2>. QED  BY <1>10, <2>4, <2>5, <2>6, <2>7, <2>8
<1>11. ASSUME NEW k \in Keys, Mute(k) \/ Unmute(k) \/ Confirm(k)
       PROVE  Typed'
  BY <1>11 DEF Mute, Unmute, Confirm, Record, Typed, clock
<1>. QED  BY <1>1, <1>2, <1>3, <1>4, <1>5, <1>6, <1>7, <1>8, <1>9, <1>10, <1>11 DEF Next

-----------------------------------------------------------------------------
(* Where a process goes.                                                   *)

Working == {"run", "found", "tagged", "surface", "block", "cache"}

(* A run goes on under the same name and deadline, or it is over.          *)
Proceeds(p) ==
  /\ \A q \in Procs \ {p} : proc'[q] = proc[q]
  /\ \/ proc'[p] = Off
     \/ /\ proc[p].pc \in Working /\ proc'[p].pc \in Working
        /\ proc'[p].who = proc[p].who /\ proc'[p].hand = proc[p].hand
        /\ proc'[p].began = proc[p].began
  /\ UNCHANGED <<now, starts, marker, raced, refreshes>>

LEMMA RunProceeds ==
  ASSUME Typed, NEW p \in Procs,
         \/ Reconcile(p) \/ RunFails(p) \/ Tag(p) \/ OpenSurfaced(p) \/ WriteSurfaced(p)
         \/ PrintBlock(p) \/ OpenCache(p) \/ FillCache(p) \/ Kill(p)
  PROVE  Proceeds(p)
<1>1. CASE Reconcile(p)
  <2>1. \E rec : proc' = [proc EXCEPT ![p] = [pc |-> "found", who |-> @.who, hand |-> @.hand,
                                              began |-> @.began, run |-> @.run, rec |-> rec]]
    BY <1>1 DEF Reconcile
  <2>. QED  BY <1>1, <2>1 DEF Reconcile, Proceeds, Typed, Working, clock
<1>2. CASE RunFails(p) \/ Kill(p)
  BY <1>2 DEF RunFails, Kill, Proceeds, Typed, clock
<1>3. CASE Tag(p)
  BY <1>3 DEF Tag, Proceeds, Typed, Working, clock
<1>4. CASE OpenSurfaced(p) \/ WriteSurfaced(p) \/ PrintBlock(p) \/ OpenCache(p) \/ FillCache(p)
  <2>1. proc[p] \in TaggedProc
    BY <1>4 DEF OpenSurfaced, WriteSurfaced, PrintBlock, OpenCache, FillCache, Typed, ProcType,
                Off, DueProc, SpawnProc, RunProc, FoundProc
  <2>2. proc' = [proc EXCEPT ![p] = Off] \/ \E c \in Working : proc' = [proc EXCEPT ![p].pc = c]
    BY <1>4 DEF OpenSurfaced, WriteSurfaced, PrintBlock, OpenCache, FillCache, Working
  <2>3. UNCHANGED <<now, starts, marker, raced, refreshes>>
    BY <1>4 DEF OpenSurfaced, WriteSurfaced, PrintBlock, OpenCache, FillCache, clock
  <2>4. proc[p].pc \in Working
    BY <2>1 DEF TaggedProc, Working
  <2>5. CASE proc' = [proc EXCEPT ![p] = Off]
    BY <2>3, <2>5 DEF Proceeds, Typed
  <2>6. CASE \E c \in Working : proc' = [proc EXCEPT ![p].pc = c]
    <3>1. PICK c \in Working : proc' = [proc EXCEPT ![p].pc = c]
      BY <2>6
    <3>2. /\ proc'[p].pc = c /\ proc'[p].who = proc[p].who /\ proc'[p].hand = proc[p].hand
          /\ proc'[p].began = proc[p].began
      BY <3>1, <2>1 DEF Typed, TaggedProc
    <3>3. \A q \in Procs \ {p} : proc'[q] = proc[q]
      BY <3>1 DEF Typed
    <3>. QED  BY <2>3, <2>4, <3>2, <3>3 DEF Proceeds
  <2>. QED  BY <2>2, <2>5, <2>6
<1>. QED  BY <1>1, <1>2, <1>3, <1>4

(* A run is under way by whom and since when its record says.              *)
LEMMA RunningFields ==
  ASSUME Typed, NEW p \in Procs, Running(p)
  PROVE  /\ proc[p].who \in Viewers /\ proc[p].began \in Nat
         /\ proc[p].pc # "spawn" => proc[p].hand \in BOOLEAN
BY DEF Typed, Running, ProcType, Off, DueProc, SpawnProc, RunProc, FoundProc, TaggedProc

-----------------------------------------------------------------------------
(* The clock and the bounds.                                               *)

LEMMA ClockedInit == Init => Clocked
<1>. SUFFICES ASSUME Init PROVE Clocked
  OBVIOUS
<1>1. now \in 1..MaxTime /\ starts \in 0..MaxStarts /\ kills \in 0..MaxKills
  BY HorizonAssumption DEF Init
<1>2. \A p \in Procs : ~Running(p)
  BY DEF Init, Running, Off
<1>3. \A v \in Viewers : marker[v] <= now
  BY DEF Init
<1>. QED  BY <1>1, <1>2, <1>3 DEF Clocked

LEMMA ClockedStep ==
  ASSUME Typed, Clocked, [Next]_vars
  PROVE  Clocked'
<1>1. CASE UNCHANGED vars
  BY <1>1 DEF Clocked, Running, vars
<1>2. CASE Tick
  <2>1. \A p \in Procs : Running(p) => proc[p].began <= now' /\ now' <= proc[p].began + Timeout
    BY <1>2, RunningFields, HorizonAssumption DEF Tick, Typed, Clocked
  <2>2. now' \in 1..MaxTime
    BY <1>2, HorizonAssumption DEF Tick, Typed, Clocked
  <2>3. \A v \in Viewers : marker[v] <= now'
    BY <1>2 DEF Tick, Typed, Clocked
  <2>. QED  BY <1>2, <2>1, <2>2, <2>3 DEF Tick, Clocked, Running, stores
<1>3. ASSUME NEW p \in Procs, NEW v \in Viewers, Hook(p, v)
      PROVE  Clocked'
  <2>1. \A q \in Procs : Running(q)' => proc'[q] = proc[q]
    BY <1>3 DEF Hook, Typed, Running
  <2>. QED  BY <1>3, <2>1, HorizonAssumption DEF Hook, Clocked, Typed, Running
<1>4. ASSUME NEW p \in Procs, HookMark(p)
      PROVE  Clocked'
  <2>1. \A q \in Procs \ {p} : proc'[q] = proc[q]
    BY <1>4 DEF HookMark, Typed
  <2>2. proc'[p].began = now
    BY <1>4 DEF HookMark, Typed
  <2>. QED  BY <1>4, <2>1, <2>2, HorizonAssumption DEF HookMark, Clocked, Typed, Running, stores
<1>5. ASSUME NEW p \in Procs, HookSpawn(p)
      PROVE  Clocked'
  <2>1. \A q \in Procs \ {p} : proc'[q] = proc[q]
    BY <1>5 DEF HookSpawn, Begin, Typed
  <2>2. proc'[p].began = proc[p].began /\ Running(p)
    BY <1>5 DEF HookSpawn, Begin, Typed, Running
  <2>. QED  BY <1>5, <2>1, <2>2 DEF HookSpawn, Begin, Clocked, Running, stores, clock
<1>6. ASSUME NEW p \in Procs, NEW v \in Viewers, RunByHand(p, v)
      PROVE  Clocked'
  <2>1. \A q \in Procs \ {p} : proc'[q] = proc[q]
    BY <1>6 DEF RunByHand, Begin, Typed
  <2>2. proc'[p].began = now
    BY <1>6 DEF RunByHand, Begin, Typed
  <2>. QED  BY <1>6, <2>1, <2>2, HorizonAssumption DEF RunByHand, Clocked, Typed, Running, stores
<1>7. ASSUME NEW p \in Procs, Proceeds(p), kills' \in 0..MaxKills
      PROVE  Clocked'
  BY <1>7 DEF Proceeds, Clocked, Running, Working, Off
<1>8. ASSUME NEW p \in Procs, 
             \/ Reconcile(p) \/ RunFails(p) \/ Tag(p) \/ OpenSurfaced(p) \/ WriteSurfaced(p)
             \/ PrintBlock(p) \/ OpenCache(p) \/ FillCache(p) \/ Kill(p)
      PROVE  kills' \in 0..MaxKills
  BY <1>8, HorizonAssumption DEF Reconcile, RunFails, Tag, OpenSurfaced, WriteSurfaced, PrintBlock,
     OpenCache, FillCache, Kill, clock, Clocked
<1>9. ASSUME NEW k \in Keys, Mute(k) \/ Unmute(k) \/ Confirm(k)
      PROVE  Clocked'
  BY <1>9 DEF Mute, Unmute, Confirm, Clocked, Running, clock
<1>. QED  BY <1>1, <1>2, <1>3, <1>4, <1>5, <1>6, <1>7, <1>8, <1>9, RunProceeds DEF Next

-----------------------------------------------------------------------------
(* Windows.                                                                *)

(* One window later the marker counts one more.                            *)
LEMMA WindowCounts ==
  ASSUME NEW a \in Nat, NEW b \in Nat
  PROVE  /\ a \div Window \in Nat
         /\ b >= a => b \div Window >= a \div Window
         /\ b >= a + Window => b \div Window >= 1 + (a \div Window)
<1>1. Window \in Nat /\ Window > 0
  BY HorizonAssumption
<1>. DEFINE qa == a \div Window
            qb == b \div Window
<1>2. qa \in Int /\ Window * qa <= a /\ a < Window * qa + Window
  BY <1>1
<1>3. qb \in Int /\ Window * qb <= b /\ b < Window * qb + Window
  BY <1>1
<1>. HIDE DEF qa, qb
<1>4. qa >= 0
  BY <1>1, <1>2
<1>5. b >= a => qb >= qa
  BY <1>1, <1>2, <1>3
<1>6. b >= a + Window => qb >= 1 + qa
  BY <1>1, <1>2, <1>3
<1>. QED  BY <1>2, <1>4, <1>5, <1>6 DEF qa, qb

-----------------------------------------------------------------------------
(* One refresh at a time, one per window.                                  *)

(* What OneAtATime and Budget say of one viewer.                           *)
ViewerAlone(v) ==
  /\ \A p \in Procs : IsDue(p, v) => Due(v)
  /\ \A p, q \in Procs : IsDue(p, v) /\ IsDue(q, v) => p = q
  /\ \A p \in Procs : Refreshing(p, v) => marker[v] # 0 /\ proc[p].began = marker[v]
  /\ \A p, q \in Procs : Refreshing(p, v) /\ Refreshing(q, v) => p = q

Spawning(p, v) == proc[p].pc = "spawn" /\ proc[p].who = v
ViewerBudget(v) ==
  /\ refreshes[v] <= Marks(v)
  /\ \A p \in Procs : Spawning(p, v) => refreshes[v] + 1 <= Marks(v)

LEMMA RefreshInit == Init => OneAtATime /\ Budget
BY DEF Init, OneAtATime, Budget, IsDue, Refreshing, Running, Marks, Off

(* While a refresh runs the next one is not due.                           *)
LEMMA NotDueYet ==
  ASSUME Typed, Clocked, NEW v \in Viewers, ViewerAlone(v), NEW p \in Procs, Refreshing(p, v)
  PROVE  ~Due(v)
<1>1. /\ marker[v] # 0 /\ proc[p].began = marker[v]
      /\ now <= proc[p].began + Timeout /\ marker[v] <= now
  BY DEF ViewerAlone, Clocked, Refreshing
<1>. QED  BY <1>1, HorizonAssumption DEF Due, Typed

(* A viewer whose marker, count and hooks are as they were, and whose      *)
(* refreshes at most end, is still alone.                                  *)
LEMMA ViewerKept ==
  ASSUME Typed, NEW v \in Viewers, ViewerAlone(v), ViewerBudget(v),
         marker'[v] = marker[v], refreshes'[v] = refreshes[v],
         Due(v) => Due(v)',
         \A q \in Procs : IsDue(q, v)' => IsDue(q, v),
         \A q \in Procs : Spawning(q, v)' => Spawning(q, v),
         \A q \in Procs : Refreshing(q, v)' => Refreshing(q, v) /\ proc'[q].began = proc[q].began
  PROVE  ViewerAlone(v)' /\ ViewerBudget(v)'
<1>1. ViewerAlone(v)'
  BY DEF ViewerAlone
<1>2. Marks(v)' = Marks(v)
  BY DEF Marks
<1>3. ViewerBudget(v)'
  BY <1>2 DEF ViewerBudget
<1>. QED  BY <1>1, <1>3

LEMMA ViewerStep ==
  ASSUME Typed, Clocked, [Next]_vars, ~raced', NEW v \in Viewers,
         ViewerAlone(v), ViewerBudget(v)
  PROVE  ViewerAlone(v)' /\ ViewerBudget(v)'
<1>1. CASE UNCHANGED vars
  BY <1>1, ViewerKept DEF vars, Due, IsDue, Spawning, Refreshing, Running
<1>2. CASE Tick
  <2>1. Due(v) => Due(v)'
    BY <1>2, HorizonAssumption DEF Tick, Due, Typed, Clocked
  <2>. QED  BY <1>2, <2>1, ViewerKept DEF Tick, IsDue, Spawning, Refreshing, Running, stores
<1>3. ASSUME NEW p \in Procs, NEW w \in Viewers, Hook(p, w)
      PROVE  ViewerAlone(v)' /\ ViewerBudget(v)'
  <2>1. \A q \in Procs \ {p} : proc'[q] = proc[q]
    BY <1>3 DEF Hook, Typed
  <2>2. CASE v = w /\ Due(w)
    <3>1. proc'[p] = [pc |-> "due", who |-> v] /\ proc[p] = Off
      BY <1>3, <2>2 DEF Hook, Typed
    <3>2. \A q \in Procs : ~IsDue(q, v)
      BY <1>3, <2>2 DEF Hook, IsDue, Typed
    <3>3. Due(v)'
      BY <1>3, <2>2 DEF Hook, Due
    <3>4. \A q \in Procs : IsDue(q, v)' => q = p
      BY <2>1, <3>2 DEF IsDue
    <3>5. \A q \in Procs : Refreshing(q, v)' => Refreshing(q, v) /\ proc'[q] = proc[q]
      BY <2>1, <3>1 DEF Refreshing, Running
    <3>6. \A q \in Procs : Spawning(q, v)' => Spawning(q, v)
      BY <2>1, <3>1 DEF Spawning
    <3>7. marker' = marker /\ refreshes' = refreshes
      BY <1>3 DEF Hook
    <3>8. ViewerAlone(v)'
      BY <3>3, <3>4, <3>5, <3>7 DEF ViewerAlone
    <3>9. ViewerBudget(v)'
      BY <3>6, <3>7 DEF ViewerBudget, Marks
    <3>. QED  BY <3>8, <3>9
  <2>3. CASE ~(v = w /\ Due(w))
    <3>1. proc'[p] = Off \/ (proc'[p] = [pc |-> "due", who |-> w] /\ v # w)
      BY <1>3, <2>3 DEF Hook, Typed
    <3>2. Due(v)' = Due(v) /\ marker' = marker /\ refreshes' = refreshes
      BY <1>3 DEF Hook, Due
    <3>. QED  BY <2>1, <3>1, <3>2, ViewerKept DEF IsDue, Spawning, Refreshing, Running, Off
  <2>. QED  BY <2>2, <2>3
<1>4. ASSUME NEW p \in Procs, HookMark(p)
      PROVE  ViewerAlone(v)' /\ ViewerBudget(v)'
  <2>1. /\ \A q \in Procs \ {p} : proc'[q] = proc[q]
        /\ proc'[p] = [pc |-> "spawn", who |-> proc[p].who, began |-> now]
        /\ proc[p].pc = "due" /\ UNCHANGED <<now, refreshes>>
    BY <1>4 DEF HookMark, Typed, stores
  <2>2. CASE proc[p].who = v
    <3>1. IsDue(p, v) /\ Due(v)
      BY <2>1, <2>2 DEF IsDue, ViewerAlone
    <3>2. marker'[v] = now
      BY <1>4, <2>2 DEF HookMark, Typed
    <3>3. \A q \in Procs : ~Refreshing(q, v)
      BY <3>1, NotDueYet
    <3>4. \A q \in Procs : Refreshing(q, v)' => q = p
      BY <2>1, <3>3 DEF Refreshing, Running
    <3>5. \A q \in Procs : ~IsDue(q, v)'
      BY <2>1, <3>1 DEF IsDue, ViewerAlone
    <3>6. now \in Nat /\ now >= 1 /\ marker[v] \in Nat /\ refreshes[v] \in Nat
      BY HorizonAssumption DEF Clocked, Typed
    <3>7. ViewerAlone(v)'
      BY <2>1, <3>2, <3>4, <3>5, <3>6 DEF ViewerAlone
    <3>8. Marks(v)' = 1 + ((now - 1) \div Window)
      BY <3>2, <3>6 DEF Marks
    <3>9. Marks(v) + 1 <= Marks(v)'
      <4>1. CASE marker[v] = 0
        BY <3>6, <3>8, <4>1, WindowCounts DEF Marks
      <4>2. CASE marker[v] # 0
        <5>1. now - 1 >= (marker[v] - 1) + Window /\ marker[v] - 1 \in Nat /\ now - 1 \in Nat
          BY <3>1, <3>6, <4>2, HorizonAssumption DEF Due, Clocked
        <5>2. (now - 1) \div Window >= 1 + ((marker[v] - 1) \div Window)
              /\ (now - 1) \div Window \in Nat /\ (marker[v] - 1) \div Window \in Nat
          BY <5>1, WindowCounts
        <5>. QED  BY <3>8, <4>2, <5>2 DEF Marks
      <4>. QED  BY <4>1, <4>2
    <3>10. Marks(v) \in Nat /\ Marks(v)' \in Nat
      BY <3>6, <3>8, WindowCounts DEF Marks
    <3>11. ViewerBudget(v)'
      BY <2>1, <3>6, <3>9, <3>10 DEF ViewerBudget
    <3>. QED  BY <3>7, <3>11
  <2>3. CASE proc[p].who # v
    <3>1. marker'[v] = marker[v] /\ Due(v)' = Due(v)
      BY <1>4, <2>1, <2>3 DEF HookMark, Typed, Due
    <3>. QED  BY <2>1, <2>3, <3>1, ViewerKept DEF IsDue, Spawning, Refreshing, Running
  <2>. QED  BY <2>2, <2>3
<1>5. ASSUME NEW p \in Procs, HookSpawn(p)
      PROVE  ViewerAlone(v)' /\ ViewerBudget(v)'
  <2>1. /\ \A q \in Procs \ {p} : proc'[q] = proc[q]
        /\ proc'[p] = [pc |-> "run", who |-> proc[p].who, hand |-> FALSE,
                       began |-> proc[p].began, run |-> runs + 1]
        /\ proc[p].pc = "spawn" /\ UNCHANGED <<now, marker>>
    BY <1>5 DEF HookSpawn, Begin, Typed, clock
  <2>2. Due(v)' = Due(v)
    BY <2>1 DEF Due
  <2>3. CASE proc[p].who = v
    <3>1. refreshes'[v] = refreshes[v] + 1
      BY <1>5, <2>3 DEF HookSpawn, Typed
    <3>2. Refreshing(p, v) /\ Spawning(p, v)
      BY <2>1, <2>3 DEF Refreshing, Running, Spawning
    <3>3. \A q \in Procs : ~Spawning(q, v)'
      BY <2>1, <3>2 DEF Spawning, Refreshing, Running, ViewerAlone
    <3>4. \A q \in Procs : IsDue(q, v)' => IsDue(q, v)
      BY <2>1 DEF IsDue
    <3>5. \A q \in Procs : Refreshing(q, v)' => Refreshing(q, v) /\ proc'[q].began = proc[q].began
      BY <2>1, <3>2 DEF Refreshing, Running
    <3>6. ViewerAlone(v)'
      BY <2>1, <2>2, <3>4, <3>5 DEF ViewerAlone
    <3>7. ViewerBudget(v)'
      BY <2>1, <3>1, <3>2, <3>3 DEF ViewerBudget, Marks
    <3>. QED  BY <3>6, <3>7
  <2>4. CASE proc[p].who # v
    <3>1. refreshes'[v] = refreshes[v]
      BY <1>5, <2>4 DEF HookSpawn, Typed
    <3>. QED  BY <2>1, <2>2, <2>4, <3>1, ViewerKept DEF IsDue, Spawning, Refreshing, Running
  <2>. QED  BY <2>3, <2>4
<1>6. ASSUME NEW p \in Procs, NEW w \in Viewers, RunByHand(p, w)
      PROVE  ViewerAlone(v)' /\ ViewerBudget(v)'
  <2>1. /\ \A q \in Procs \ {p} : proc'[q] = proc[q]
        /\ proc'[p].pc = "run" /\ proc'[p].hand = TRUE /\ UNCHANGED <<now, marker, refreshes>>
    BY <1>6 DEF RunByHand, Begin, Typed, stores
  <2>2. Due(v)' = Due(v)
    BY <2>1 DEF Due
  <2>. QED  BY <2>1, <2>2, ViewerKept DEF IsDue, Spawning, Refreshing, Running
<1>7. ASSUME NEW p \in Procs, Proceeds(p)
      PROVE  ViewerAlone(v)' /\ ViewerBudget(v)'
  <2>1. Due(v)' = Due(v)
    BY <1>7 DEF Proceeds, Due
  <2>2. /\ \A q \in Procs : IsDue(q, v)' => IsDue(q, v)
        /\ \A q \in Procs : Spawning(q, v)' => Spawning(q, v)
        /\ \A q \in Procs : Refreshing(q, v)' => Refreshing(q, v) /\ proc'[q].began = proc[q].began
    BY <1>7 DEF Proceeds, IsDue, Spawning, Refreshing, Running, Working, Off
  <2>. QED  BY <1>7, <2>1, <2>2, ViewerKept DEF Proceeds
<1>8. ASSUME NEW k \in Keys, Mute(k) \/ Unmute(k) \/ Confirm(k)
      PROVE  ViewerAlone(v)' /\ ViewerBudget(v)'
  <2>1. UNCHANGED <<now, marker, refreshes, proc>>
    BY <1>8 DEF Mute, Unmute, Confirm, clock
  <2>. QED  BY <2>1, ViewerKept DEF Due, IsDue, Spawning, Refreshing, Running
<1>. QED  BY <1>1, <1>2, <1>3, <1>4, <1>5, <1>6, <1>7, <1>8, RunProceeds DEF Next

LEMMA HandPrintsStep ==
  ASSUME Typed, HandPrints, [Next]_vars
  PROVE  HandPrints'
<1>1. ASSUME NEW p \in Procs, OpenCache(p)
      PROVE  HandPrints'
  <2>1. proc[p] \in TaggedProc
    BY <1>1 DEF OpenCache, Typed, ProcType, Off, DueProc, SpawnProc, RunProc, FoundProc
  <2>2. proc'[p].hand = proc[p].hand /\ \A q \in Procs \ {p} : proc'[q] = proc[q]
    BY <1>1, <2>1 DEF OpenCache, Typed, TaggedProc
  <2>. QED  BY <1>1, <2>2 DEF OpenCache, HandPrints
<1>2. ASSUME NEW p \in Procs, OpenSurfaced(p) \/ WriteSurfaced(p)
      PROVE  HandPrints'
  <2>1. proc[p] \in TaggedProc
    BY <1>2 DEF OpenSurfaced, WriteSurfaced, Typed, ProcType, Off, DueProc, SpawnProc, RunProc,
       FoundProc
  <2>2. proc'[p].pc # "cache" /\ \A q \in Procs \ {p} : proc'[q] = proc[q]
    BY <1>2, <2>1 DEF OpenSurfaced, WriteSurfaced, Typed, TaggedProc
  <2>. QED  BY <2>2 DEF HandPrints
<1>3. ASSUME NEW p \in Procs,
             \/ \E v \in Viewers : Hook(p, v) \/ RunByHand(p, v)
             \/ HookMark(p) \/ HookSpawn(p) \/ Reconcile(p) \/ RunFails(p) \/ Tag(p)
             \/ PrintBlock(p) \/ FillCache(p) \/ Kill(p)
      PROVE  HandPrints'
  <2>1. proc'[p].pc # "cache"
    BY <1>3 DEF Hook, RunByHand, HookMark, HookSpawn, Begin, Reconcile, RunFails, Tag, PrintBlock,
       FillCache, Kill, Off, Typed
  <2>2. \A q \in Procs \ {p} : proc'[q] = proc[q]
    BY <1>3 DEF Hook, RunByHand, HookMark, HookSpawn, Begin, Reconcile, RunFails, Tag, PrintBlock,
       FillCache, Kill, Typed
  <2>. QED  BY <2>1, <2>2 DEF HandPrints
<1>4. CASE UNCHANGED proc
  BY <1>4 DEF HandPrints
<1>5. ASSUME \/ UNCHANGED vars \/ Tick
             \/ \E k \in Keys : Mute(k) \/ Unmute(k) \/ Confirm(k)
      PROVE  UNCHANGED proc
  BY <1>5 DEF vars, Tick, Mute, Unmute, Confirm
<1>. QED  BY <1>1, <1>2, <1>3, <1>4, <1>5 DEF Next

LEMMA RefreshStep == RefreshInv /\ [Next]_vars => RefreshInv'
<1>. SUFFICES ASSUME RefreshInv, [Next]_vars PROVE RefreshInv'
  OBVIOUS
<1>1. Typed' /\ Clocked' /\ HandPrints'
  BY TypedStep, ClockedStep, HandPrintsStep DEF RefreshInv
<1>2. raced => raced'
  BY RunProceeds DEF RefreshInv, Next, vars, Tick, Hook, HookMark, HookSpawn, RunByHand, Proceeds,
     Mute, Unmute, Confirm
<1>3. ASSUME ~raced', NEW v \in Viewers
      PROVE  ViewerAlone(v)' /\ ViewerBudget(v)'
  <2>1. ViewerAlone(v) /\ ViewerBudget(v)
    BY <1>2, <1>3 DEF RefreshInv, OneAtATime, Budget, ViewerAlone, ViewerBudget, Spawning
  <2>. QED  BY <1>3, <2>1, ViewerStep DEF RefreshInv
<1>4. OneAtATime' /\ Budget'
  BY <1>3 DEF OneAtATime, Budget, ViewerAlone, ViewerBudget, Spawning
<1>. QED  BY <1>1, <1>4 DEF RefreshInv

LEMMA RefreshAlways == Spec => []RefreshInv
<1>1. Init => HandPrints
  BY DEF Init, HandPrints, Off
<1>2. Init => RefreshInv
  BY <1>1, TypedInit, ClockedInit, RefreshInit DEF RefreshInv
<1>. QED  BY <1>2, RefreshStep, PTL DEF Spec

(* horizon.go 589-591: however many sessions start, one viewer's hooks     *)
(* spawn at most one refresh per debounce window, as long as no two of     *)
(* them read the marker before either wrote it.                            *)
THEOREM OneRefreshPerWindow == Spec => []RefreshBudget
<1>1. RefreshInv => RefreshBudget
  <2>. SUFFICES ASSUME RefreshInv PROVE RefreshBudget
    OBVIOUS
  <2>1. TypeOK
    <3>1. muted \cup DOMAIN surfaced.rec \subseteq Keys
      BY RecsDomain DEF RefreshInv, Typed, Blocks
    <3>. QED  BY <3>1 DEF RefreshInv, Clocked, TypeOK
  <2>2. ASSUME ~raced, NEW v \in Viewers
        PROVE  refreshes[v] <= 1 + ((now - 1) \div Window)
    <3>1. /\ now \in Nat /\ now >= 1 /\ marker[v] \in Nat /\ marker[v] <= now
          /\ refreshes[v] \in Nat /\ refreshes[v] <= Marks(v)
      BY <2>2, HorizonAssumption DEF RefreshInv, Typed, Clocked, Budget
    <3>2. (now - 1) \div Window \in Nat
      BY <3>1, WindowCounts
    <3>3. CASE marker[v] = 0
      BY <3>1, <3>2, <3>3 DEF Marks
    <3>4. CASE marker[v] # 0
      <4>1. marker[v] - 1 \in Nat /\ now - 1 \in Nat /\ now - 1 >= marker[v] - 1
        BY <3>1, <3>4
      <4>2. (now - 1) \div Window >= (marker[v] - 1) \div Window /\ (marker[v] - 1) \div Window \in Nat
        BY <4>1, WindowCounts
      <4>. QED  BY <3>1, <3>2, <3>4, <4>2 DEF Marks
    <3>. QED  BY <3>3, <3>4
  <2>. QED  BY <2>1, <2>2 DEF RefreshBudget
<1>. QED  BY <1>1, RefreshAlways, PTL

-----------------------------------------------------------------------------
(* What was left out of the cache.                                         *)

LEMMA LeftOutInit == Init => LeftOut /\ MutedStaysGone
BY NoBlockIsBlock DEF Init, LeftOut, MutedStaysGone, Tagged, Off

LEMMA LeftOutStep ==
  ASSUME RefreshInv, RefreshInv', LeftOut, MutedStaysGone, [Next]_vars
  PROVE  LeftOut' /\ MutedStaysGone'
<1>1. CASE UNCHANGED vars
  BY <1>1 DEF LeftOut, MutedStaysGone, Tagged, vars
<1>2. CASE Tick
  BY <1>2 DEF Tick, LeftOut, MutedStaysGone, Tagged, stores
<1>3. ASSUME UNCHANGED <<cache, dropped, muted>>, raced => raced',
             \A q \in Procs : Tagged(q)' => Tagged(q) /\ proc'[q].block = proc[q].block
                /\ proc'[q].gone = proc[q].gone /\ proc'[q].hand = proc[q].hand
                /\ proc'[q].who = proc[q].who
      PROVE  LeftOut' /\ MutedStaysGone'
  BY <1>3 DEF LeftOut, MutedStaysGone
<1>4. ASSUME NEW p \in Procs, NEW v \in Viewers, Hook(p, v) \/ RunByHand(p, v)
      PROVE  LeftOut' /\ MutedStaysGone'
  <2>1. \A q \in Procs : Tagged(q)' => proc'[q] = proc[q]
    BY <1>4 DEF Hook, RunByHand, Begin, Tagged, RefreshInv, Typed
  <2>. QED  BY <1>3, <1>4, <2>1 DEF Hook, RunByHand, Tagged, stores
<1>5. ASSUME NEW p \in Procs,
             HookMark(p) \/ HookSpawn(p) \/ Reconcile(p) \/ RunFails(p) \/ PrintBlock(p) \/ Kill(p)
      PROVE  LeftOut' /\ MutedStaysGone'
  <2>1. \A q \in Procs : Tagged(q)' => proc'[q] = proc[q]
    <3>1. proc'[p].pc \in {"spawn", "run", "found", "off"}
      BY <1>5 DEF HookMark, HookSpawn, Begin, Reconcile, RunFails, PrintBlock, Kill, Off,
         RefreshInv, Typed
    <3>2. \A q \in Procs \ {p} : proc'[q] = proc[q]
      BY <1>5 DEF HookMark, HookSpawn, Begin, Reconcile, RunFails, PrintBlock, Kill,
         RefreshInv, Typed
    <3>. QED  BY <3>1, <3>2 DEF Tagged
  <2>2. UNCHANGED <<cache, dropped, muted, raced>>
    BY <1>5 DEF HookMark, HookSpawn, Reconcile, RunFails, PrintBlock, Kill, stores
  <2>. QED  BY <1>3, <2>1, <2>2 DEF Tagged
<1>6. ASSUME NEW p \in Procs, Tag(p)
      PROVE  LeftOut' /\ MutedStaysGone'
  <2>1. /\ \A q \in Procs \ {p} : proc'[q] = proc[q]
        /\ proc'[p].block = Block(proc[p].run, Restrict(proc[p].rec, DOMAIN proc[p].rec \ muted))
        /\ proc'[p].gone = muted /\ UNCHANGED <<cache, dropped, muted, raced>>
    BY <1>6 DEF Tag, RefreshInv, Typed, stores
  <2>2. proc[p].rec \in Recs
    BY <1>6 DEF Tag, RefreshInv, Typed, ProcType, Off, DueProc, SpawnProc, RunProc, FoundProc,
       TaggedProc
  <2>3. DOMAIN proc'[p].block.rec = DOMAIN proc[p].rec \ muted
    BY <2>1, <2>2, RecsRestrict DEF Block
  <2>4. /\ \A q \in Procs : Tagged(q)' => DOMAIN proc'[q].block.rec \cap proc'[q].gone = {}
    BY <2>1, <2>3 DEF LeftOut, Tagged
  <2>5. proc'[p].who \in Viewers
    BY <1>6 DEF Tag, RefreshInv, Typed, ProcType, Off, DueProc, SpawnProc, RunProc, FoundProc,
       TaggedProc
  <2>6. ~raced => \A q \in Procs : Tagged(q)' /\ ~proc'[q].hand => dropped[proc'[q].who] \subseteq proc'[q].gone
    BY <2>1, <2>5 DEF LeftOut, Tagged
  <2>. QED  BY <2>1, <2>4, <2>6 DEF LeftOut, MutedStaysGone
<1>7. ASSUME NEW p \in Procs, OpenSurfaced(p) \/ WriteSurfaced(p) \/ OpenCache(p)
      PROVE  LeftOut' /\ MutedStaysGone'
  <2>1. proc[p] \in TaggedProc
    BY <1>7 DEF OpenSurfaced, WriteSurfaced, OpenCache, RefreshInv, Typed, ProcType,
                Off, DueProc, SpawnProc, RunProc, FoundProc
  <2>2. PICK c \in {"surface", "block", "cache"} : proc' = [proc EXCEPT ![p].pc = c]
    BY <1>7 DEF OpenSurfaced, WriteSurfaced, OpenCache
  <2>3. \A q \in Procs : Tagged(q)' => Tagged(q) /\ proc'[q].block = proc[q].block
                /\ proc'[q].gone = proc[q].gone /\ proc'[q].hand = proc[q].hand
                /\ proc'[q].who = proc[q].who
    BY <2>1, <2>2 DEF TaggedProc, Tagged, RefreshInv, Typed
  <2>4. UNCHANGED <<dropped, muted, raced>>
    BY <1>7 DEF OpenSurfaced, WriteSurfaced, OpenCache
  <2>5. \A v \in Viewers : cache'[v] # Torn => cache'[v] = cache[v]
    BY <1>7 DEF OpenSurfaced, WriteSurfaced, OpenCache, RefreshInv, Typed
  <2>. QED  BY <2>3, <2>4, <2>5 DEF LeftOut, MutedStaysGone
<1>8. ASSUME NEW p \in Procs, FillCache(p)
      PROVE  LeftOut' /\ MutedStaysGone'
  <2>1. proc[p] \in TaggedProc /\ Tagged(p)
    BY <1>8 DEF FillCache, RefreshInv, Typed, ProcType, Tagged,
                Off, DueProc, SpawnProc, RunProc, FoundProc
  <2>. DEFINE v == proc[p].who
  <2>2. /\ v \in Viewers /\ proc'[p] = Off /\ \A q \in Procs \ {p} : proc'[q] = proc[q]
        /\ cache'[v] = proc[p].block /\ \A w \in Viewers \ {v} : cache'[w] = cache[w]
        /\ dropped'[v] = (dropped[v] \cup proc[p].gone) \cap muted
        /\ \A w \in Viewers \ {v} : dropped'[w] = dropped[w]
        /\ UNCHANGED <<muted, raced>>
    BY <1>8, <2>1 DEF FillCache, RefreshInv, Typed, TaggedProc
  <2>. HIDE DEF v
  <2>3. DOMAIN proc[p].block.rec \cap proc[p].gone = {}
    BY <2>1 DEF LeftOut
  <2>4. CASE raced
    <3>1. \A w \in Viewers : dropped'[w] \subseteq muted'
      BY <2>2 DEF LeftOut
    <3>2. \A q \in Procs : Tagged(q)' => DOMAIN proc'[q].block.rec \cap proc'[q].gone = {}
      BY <2>2 DEF LeftOut, Tagged, Off
    <3>. QED  BY <2>2, <2>4, <3>1, <3>2 DEF LeftOut, MutedStaysGone
  <2>5. CASE ~raced
    <3>1. ~proc[p].hand /\ Refreshing(p, v)
      BY <1>8, <2>1 DEF RefreshInv, HandPrints, FillCache, Refreshing, Running, v
    <3>2. dropped[v] \subseteq proc[p].gone
      BY <2>1, <2>5, <3>1 DEF LeftOut, v
    <3>3. \A q \in Procs : Tagged(q)' => q # p /\ proc'[q] = proc[q] /\ Tagged(q)
      BY <2>2 DEF Tagged, Off
    <3>4. \A q \in Procs : Tagged(q)' /\ ~proc'[q].hand => proc[q].who # v
      <4>1. SUFFICES ASSUME NEW q \in Procs, Tagged(q), q # p, ~proc[q].hand, proc[q].who = v
                     PROVE  FALSE
        BY <3>3
      <4>2. Refreshing(q, v)
        BY <4>1 DEF Tagged, Refreshing, Running
      <4>. QED  BY <2>2, <2>5, <3>1, <4>1, <4>2 DEF RefreshInv, OneAtATime
    <3>5. \A q \in Procs : Tagged(q)' => proc'[q].who \in Viewers
      BY <3>3 DEF RefreshInv, Typed, Tagged, ProcType, Off, DueProc, SpawnProc, RunProc, FoundProc,
         TaggedProc
    <3>6. \A w \in Viewers : dropped'[w] \subseteq muted'
      BY <2>2 DEF LeftOut
    <3>7. \A q \in Procs : Tagged(q)' => DOMAIN proc'[q].block.rec \cap proc'[q].gone = {}
      BY <3>3 DEF LeftOut
    <3>8. \A q \in Procs : Tagged(q)' /\ ~proc'[q].hand => dropped'[proc'[q].who] \subseteq proc'[q].gone
      BY <2>2, <2>5, <3>3, <3>4, <3>5 DEF LeftOut
    <3>9. LeftOut'
      BY <3>6, <3>7, <3>8 DEF LeftOut
    <3>10. DOMAIN cache'[v].rec \cap dropped'[v] = {}
      BY <2>2, <2>3, <3>2
    <3>11. MutedStaysGone'
      BY <2>2, <2>5, <3>10 DEF MutedStaysGone
    <3>. QED  BY <3>9, <3>11
  <2>. QED  BY <2>2, <2>4, <2>5 DEF RefreshInv, Typed
<1>9. ASSUME NEW k \in Keys, Mute(k) \/ Unmute(k) \/ Confirm(k)
      PROVE  LeftOut' /\ MutedStaysGone'
  <2>1. UNCHANGED <<proc, cache, raced>>
    BY <1>9 DEF Mute, Unmute, Confirm
  <2>2. \A v \in Viewers : dropped'[v] \subseteq dropped[v] /\ dropped'[v] \subseteq muted'
    BY <1>9 DEF Mute, Unmute, Confirm, LeftOut, RefreshInv, Typed
  <2>3. \A q \in Procs : Tagged(q) => proc[q].who \in Viewers
    BY DEF RefreshInv, Typed, Tagged, ProcType, Off, DueProc, SpawnProc, RunProc, FoundProc,
       TaggedProc
  <2>4. LeftOut'
    BY <2>1, <2>2, <2>3 DEF LeftOut, Tagged
  <2>5. MutedStaysGone'
    BY <2>1, <2>2 DEF MutedStaysGone
  <2>. QED  BY <2>4, <2>5
<1>. QED  BY <1>1, <1>2, <1>4, <1>5, <1>6, <1>7, <1>8, <1>9 DEF Next

(* mute.go, horizon.go 88-93: a tangle a viewer's refresh left out as      *)
(* muted does not come back to that viewer's cache while it stays muted:   *)
(* a refresh is over before the next one is due.                           *)
THEOREM MuteHoldsInCache == Spec => []MutedStaysGone
<1>1. Init => LeftOut /\ MutedStaysGone
  BY LeftOutInit
<1>2. RefreshInv /\ RefreshInv' /\ LeftOut /\ MutedStaysGone /\ [Next]_vars
        => LeftOut' /\ MutedStaysGone'
  BY LeftOutStep
<1>. QED  BY <1>1, <1>2, RefreshAlways, PTL DEF Spec


-----------------------------------------------------------------------------
(* A run's number names its block.                                         *)

LEMMA BlockPerRunInit == Init => BlockPerRun
<1>. SUFFICES ASSUME Init PROVE BlockPerRun
  OBVIOUS
<1>1. \A p \in Procs : ~Tagged(p) /\ ~Unfolded(p)
  BY DEF Init, Tagged, Unfolded, Off
<1>2. Kept = {NoBlock}
  BY <1>1 DEF Init, Kept
<1>. QED  BY <1>1, <1>2, NoBlockIsBlock DEF Init, BlockPerRun

(* Nothing new is kept, and no run takes another's number.                 *)
LEMMA NothingNew ==
  ASSUME BlockPerRun, Kept' \subseteq Kept, runs' = runs,
         \A q \in Procs : Unfolded(q)' => Unfolded(q) /\ proc'[q].run = proc[q].run
  PROVE  BlockPerRun'
BY DEF BlockPerRun

LEMMA KeptShrinks ==
  ASSUME shown' \in Kept, surfaced' \in Kept,
         \A v \in Viewers : cache'[v] # Torn => cache'[v] \in Kept,
         \A q \in Procs : Tagged(q)' => proc'[q].block \in Kept
  PROVE  Kept' \subseteq Kept
BY DEF Kept

LEMMA BlockPerRunStep ==
  ASSUME Typed, Typed', BlockPerRun, [Next]_vars
  PROVE  BlockPerRun'
<1>0. /\ NoBlock \in Kept /\ shown \in Kept /\ surfaced \in Kept
      /\ \A v \in Viewers : cache[v] # Torn => cache[v] \in Kept
      /\ \A q \in Procs : Tagged(q) => proc[q].block \in Kept
  BY DEF Kept
<1>1. CASE UNCHANGED vars
  BY <1>1, <1>0, KeptShrinks, NothingNew DEF vars, Tagged, Unfolded
<1>2. CASE Tick
  BY <1>2, <1>0, KeptShrinks, NothingNew DEF Tick, stores, Tagged, Unfolded
<1>3. ASSUME NEW p \in Procs, NEW v \in Viewers, Hook(p, v)
      PROVE  BlockPerRun'
  <2>1. \A q \in Procs : Tagged(q)' \/ Unfolded(q)' => proc'[q] = proc[q]
    BY <1>3 DEF Hook, Typed, Tagged, Unfolded
  <2>2. shown' \in Kept
    BY <1>3, <1>0 DEF Hook
  <2>. QED  BY <1>3, <1>0, <2>1, <2>2, KeptShrinks, NothingNew DEF Hook, Tagged, Unfolded
<1>4. ASSUME NEW p \in Procs, HookMark(p) \/ RunFails(p) \/ PrintBlock(p) \/ FillCache(p) \/ Kill(p)
      PROVE  BlockPerRun'
  <2>1. \A q \in Procs : Tagged(q)' \/ Unfolded(q)' => proc'[q] = proc[q]
    <3>1. proc'[p].pc \in {"spawn", "off"}
      BY <1>4 DEF HookMark, RunFails, PrintBlock, FillCache, Kill, Off, Typed
    <3>2. \A q \in Procs \ {p} : proc'[q] = proc[q]
      BY <1>4 DEF HookMark, RunFails, PrintBlock, FillCache, Kill, Typed
    <3>. QED  BY <3>1, <3>2 DEF Tagged, Unfolded
  <2>2. shown' \in Kept /\ surfaced' \in Kept /\ runs' = runs
    BY <1>4, <1>0 DEF HookMark, RunFails, PrintBlock, FillCache, Kill, Tagged, stores
  <2>3. \A v \in Viewers : cache'[v] # Torn => cache'[v] \in Kept
    BY <1>4, <1>0 DEF HookMark, RunFails, PrintBlock, FillCache, Kill, Tagged, stores, Typed
  <2>. QED  BY <1>0, <2>1, <2>2, <2>3, KeptShrinks, NothingNew DEF Tagged, Unfolded
<1>5. ASSUME NEW p \in Procs, HookSpawn(p) \/ \E v \in Viewers : RunByHand(p, v)
      PROVE  BlockPerRun'
  <2>1. /\ \A q \in Procs \ {p} : proc'[q] = proc[q]
        /\ proc'[p].pc = "run" /\ proc'[p].run = runs + 1 /\ runs' = runs + 1
        /\ UNCHANGED <<shown, surfaced, cache>>
    BY <1>5 DEF HookSpawn, RunByHand, Begin, Typed, stores
  <2>2. Kept' \subseteq Kept
    BY <1>0, <2>1, KeptShrinks DEF Tagged
  <2>3. \A a \in Kept' : a.run <= runs /\ a.run # runs + 1
    <3>1. Kept \subseteq Blocks
      BY NoBlockIsBlock DEF Kept, Typed, Tagged, ProcType, Off, DueProc, SpawnProc, RunProc,
         FoundProc, TaggedProc
    <3>. QED  BY <2>2, <3>1 DEF BlockPerRun, Blocks, Typed
  <2>4. \A q \in Procs \ {p} : Unfolded(q) => proc[q].run <= runs /\ proc[q].run \in Nat
    BY DEF BlockPerRun, Typed, Unfolded, ProcType, Off, DueProc, SpawnProc, RunProc, FoundProc,
       TaggedProc
  <2>5. \A a \in Kept' : a.run <= runs'
    <3>1. Kept \subseteq Blocks
      BY NoBlockIsBlock DEF Kept, Typed, Tagged, ProcType, Off, DueProc, SpawnProc, RunProc,
         FoundProc, TaggedProc
    <3>. QED  BY <2>1, <2>2, <2>3, <3>1 DEF Blocks, Typed
  <2>6. \A q \in Procs : Unfolded(q)' =>
          /\ proc'[q].run <= runs'
          /\ \A a \in Kept' : a.run # proc'[q].run
          /\ \A r \in Procs : Unfolded(r)' /\ proc'[r].run = proc'[q].run => r = q
    <3>1. \A q \in Procs : Unfolded(q)' => q = p \/ (Unfolded(q) /\ proc'[q] = proc[q])
      BY <2>1 DEF Unfolded
    <3>. QED  BY <2>1, <2>2, <2>3, <2>4, <3>1 DEF BlockPerRun, Typed
  <2>7. \A a, b \in Kept' : a.run = b.run => a = b
    BY <2>2 DEF BlockPerRun
  <2>. QED  BY <2>5, <2>6, <2>7 DEF BlockPerRun
<1>6. ASSUME NEW p \in Procs, Reconcile(p)
      PROVE  BlockPerRun'
  <2>1. PICK rec : proc' = [proc EXCEPT ![p] = [pc |-> "found", who |-> @.who, hand |-> @.hand,
                                              began |-> @.began, run |-> @.run, rec |-> rec]]
    BY <1>6 DEF Reconcile
  <2>2. /\ \A q \in Procs \ {p} : proc'[q] = proc[q]
        /\ proc'[p].pc = "found" /\ proc'[p].run = proc[p].run /\ Unfolded(p)
        /\ UNCHANGED <<shown, surfaced, cache, runs>>
    BY <1>6, <2>1 DEF Reconcile, Typed, Unfolded, stores
  <2>. QED  BY <1>0, <2>2, KeptShrinks, NothingNew DEF Tagged, Unfolded
<1>7. ASSUME NEW p \in Procs, Tag(p)
      PROVE  BlockPerRun'
  <2>. DEFINE b == proc'[p].block
  <2>1. /\ \A q \in Procs \ {p} : proc'[q] = proc[q]
        /\ proc'[p].pc = "tagged" /\ b.run = proc[p].run /\ Unfolded(p)
        /\ UNCHANGED <<shown, surfaced, cache, runs>>
    BY <1>7 DEF Tag, Typed, Unfolded, stores, Block
  <2>. HIDE DEF b
  <2>2. Kept' \subseteq Kept \cup {b}
    BY <2>1 DEF Kept, Tagged, b
  <2>3. \A q \in Procs : Unfolded(q)' => Unfolded(q) /\ q # p /\ proc'[q] = proc[q]
    BY <2>1 DEF Unfolded
  <2>4. b.run <= runs /\ \A a \in Kept : a.run # b.run
    BY <2>1 DEF BlockPerRun
  <2>5. \A q \in Procs : Unfolded(q)' => proc'[q].run # b.run
    BY <2>1, <2>3 DEF BlockPerRun
  <2>6. \A a, c \in Kept' : a.run = c.run => a = c
    BY <2>2, <2>4 DEF BlockPerRun
  <2>7. \A a \in Kept' : a.run <= runs'
    BY <2>1, <2>2, <2>4 DEF BlockPerRun
  <2>8. \A q \in Procs : Unfolded(q)' =>
          /\ proc'[q].run <= runs'
          /\ \A a \in Kept' : a.run # proc'[q].run
          /\ \A r \in Procs : Unfolded(r)' /\ proc'[r].run = proc'[q].run => r = q
    BY <2>1, <2>2, <2>3, <2>5 DEF BlockPerRun
  <2>. QED  BY <2>6, <2>7, <2>8 DEF BlockPerRun
<1>8. ASSUME NEW p \in Procs, OpenSurfaced(p) \/ WriteSurfaced(p) \/ OpenCache(p)
      PROVE  BlockPerRun'
  <2>1. proc[p] \in TaggedProc /\ Tagged(p)
    BY <1>8 DEF OpenSurfaced, WriteSurfaced, OpenCache, Typed, ProcType, Tagged,
                Off, DueProc, SpawnProc, RunProc, FoundProc
  <2>2. PICK c \in {"surface", "block", "cache"} : proc' = [proc EXCEPT ![p].pc = c]
    BY <1>8 DEF OpenSurfaced, WriteSurfaced, OpenCache
  <2>3. /\ proc'[p].pc = c /\ proc'[p].block = proc[p].block
        /\ \A q \in Procs \ {p} : proc'[q] = proc[q]
    BY <2>1, <2>2 DEF TaggedProc, Typed
  <2>4. shown' \in Kept /\ surfaced' \in Kept /\ runs' = runs
    BY <1>8, <1>0, <2>1 DEF OpenSurfaced, WriteSurfaced, OpenCache
  <2>5. \A v \in Viewers : cache'[v] # Torn => cache'[v] \in Kept
    BY <1>8, <1>0 DEF OpenSurfaced, WriteSurfaced, OpenCache, Typed
  <2>6. \A q \in Procs : Tagged(q)' => proc'[q].block \in Kept
    BY <1>0, <2>1, <2>3 DEF Tagged
  <2>7. \A q \in Procs : Unfolded(q)' => Unfolded(q) /\ proc'[q].run = proc[q].run
    BY <2>3 DEF Unfolded
  <2>. QED  BY <2>4, <2>5, <2>6, <2>7, KeptShrinks, NothingNew
<1>9. ASSUME NEW k \in Keys, Mute(k) \/ Unmute(k) \/ Confirm(k)
      PROVE  BlockPerRun'
  <2>1. UNCHANGED <<shown, surfaced, cache, proc, runs>>
    BY <1>9 DEF Mute, Unmute, Confirm
  <2>. QED  BY <1>0, <2>1, KeptShrinks, NothingNew DEF Tagged, Unfolded
<1>. QED  BY <1>1, <1>2, <1>3, <1>4, <1>5, <1>6, <1>7, <1>8, <1>9 DEF Next

LEMMA BlocksAlways == Spec => [](Typed /\ BlockPerRun)
<1>1. Init => Typed /\ BlockPerRun
  BY TypedInit, BlockPerRunInit
<1>2. Typed /\ BlockPerRun /\ [Next]_vars => (Typed /\ BlockPerRun)'
  BY TypedStep, BlockPerRunStep
<1>. QED  BY <1>1, <1>2, PTL DEF Spec

(* surfaced.go 33-38, horizon.go 94-96: a verdict typed while the horizon  *)
(* in front of the human is the last that ran carries the recurrence that  *)
(* horizon gave the tangle, and none for a tangle it did not show.         *)
THEOREM VerdictMatchesHorizon == Spec => VerdictCarriesLatest
<1>. DEFINE Matches == \A k \in Keys :
        (label' # label /\ label'.key = k /\ shown.run = surfaced.run) =>
          label'.rec = IF k \in DOMAIN shown.rec THEN shown.rec[k] ELSE "none"
<1>1. Typed /\ BlockPerRun /\ [Next]_vars => [Matches]_vars
  <2>. SUFFICES ASSUME Typed, BlockPerRun, [Next]_vars, NEW k \in Keys,
                       label' # label, label'.key = k, shown.run = surfaced.run
                PROVE  label'.rec = IF k \in DOMAIN shown.rec THEN shown.rec[k] ELSE "none"
    OBVIOUS
  <2>1. shown = surfaced
    BY DEF BlockPerRun, Kept
  <2>2. PICK j \in Keys : Record(j)
    <3>1. \E j \in Keys : Mute(j) \/ Confirm(j)
      BY DEF Next, vars, Tick, Hook, HookMark, HookSpawn, RunByHand, Reconcile, RunFails, Tag,
         OpenSurfaced, WriteSurfaced, PrintBlock, OpenCache, FillCache, Kill, Unmute, stores
    <3>. QED  BY <3>1 DEF Mute, Confirm
  <2>. QED  BY <2>1, <2>2 DEF Record
<1>. QED  BY <1>1, BlocksAlways, PTL DEF Spec, VerdictCarriesLatest
=============================================================================
