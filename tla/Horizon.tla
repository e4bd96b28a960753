------------------------------ MODULE Horizon ------------------------------
(***************************************************************************)
(* `ettle horizon` and its SessionStart hook on one machine (horizon.go,   *)
(* surfaced.go, mute.go, confirm.go): a run reconciles the room, drops the *)
(* muted tangles, records the features of what it shows in the room's      *)
(* surfaced file and prints or caches a block per viewer; the hook injects *)
(* the cached block and, once per debounce window, spawns a cached run; a  *)
(* verdict typed afterwards takes its recurrence from the surfaced file.   *)
(* Hooks, runs and commands are processes with nothing held between them.  *)
(***************************************************************************)
EXTENDS Naturals, Functions

CONSTANTS
  Viewers,      \* who a horizon is rendered for
  Keys,         \* tangles, by kind and parties
  Involves,     \* the tangles each viewer is a party to
  Hooked,       \* viewers whose sessions have the hook (never the whole team's view)
  HandRuns,     \* viewers who run `ettle horizon` by hand, which votes
  Procs,        \* hooks and runs
  Window,       \* the debounce, in ticks
  MaxTime,      \* BOUND: ticks
  Timeout,      \* a run ends within this many ticks of its start, a refresh of its mark
  MaxStarts,    \* BOUND: processes started
  MaxKills,     \* BOUND: processes killed
  MaxVerdicts   \* BOUND: verdicts typed and taken back

ASSUME HorizonAssumption ==
  /\ Window \in Nat /\ Timeout \in Nat /\ Timeout < Window
  /\ {MaxTime, MaxStarts, MaxKills, MaxVerdicts} \subseteq Nat
  /\ MaxTime > 0
  /\ Involves \in [Viewers -> SUBSET Keys]

VARIABLES
  now, starts, kills,
  marker,    \* when each viewer's last refresh was marked, 0 for never
  cache,     \* each viewer's cached block
  surfaced,  \* the room's surfaced file
  muted,
  verdicts,  \* verdicts typed
  proc,      \* each process: where it is and what it holds
  shown,     \* the last block a viewer had in front of them
  label,     \* the last verdict recorded
  runs,      \* runs begun
  refreshes, \* of them, those spawned by a hook, per viewer
  raced,     \* two hooks of one viewer found the refresh due together
  dropped    \* tangles a viewer's refreshes left out of the cache, muted ever since

vars == <<now, starts, kills, marker, cache, surfaced, muted, verdicts, proc,
          shown, label, runs, refreshes, raced, dropped>>
stores == <<cache, surfaced, muted, verdicts, shown, label, dropped>>
clock  == <<now, starts, kills, marker>>

(* A single-sample run counts no votes: its recurrence is "none".          *)
Recurrence == {"none", "soft", "firm"}

(* What a run shows: the recurrence of each tangle.  run tells runs apart, *)
(* as the time they are stamped with does.                                 *)
Block(run, rec) == [run |-> run, rec |-> rec]
NoBlock == Block(0, <<>>)
Torn    == [run |-> 0]

Off == [pc |-> "off"]
Running(p) == proc[p].pc \in {"spawn", "run", "found", "tagged", "surface", "block", "cache"}

Init ==
  /\ now = 1 /\ starts = 0 /\ kills = 0 /\ runs = 0 /\ raced = FALSE
  /\ marker = [v \in Viewers |-> 0]
  /\ cache = [v \in Viewers |-> NoBlock]
  /\ surfaced = NoBlock /\ muted = {} /\ verdicts = 0
  /\ proc = [p \in Procs |-> Off]
  /\ shown = NoBlock /\ label = <<>>
  /\ refreshes = [v \in Viewers |-> 0] /\ dropped = [v \in Viewers |-> {}]

Tick ==
  /\ now < MaxTime /\ now' = now + 1
  /\ \A p \in Procs : Running(p) => now - proc[p].began < Timeout
  /\ UNCHANGED <<starts, kills, marker, stores, proc, runs, refreshes, raced>>

-----------------------------------------------------------------------------
(* The hook: inject what is cached, look at the marker, mark, spawn.       *)

Due(v) == marker[v] = 0 \/ now - marker[v] >= Window

Hook(p, v) ==
  /\ proc[p] = Off /\ starts < MaxStarts /\ v \in Hooked
  /\ starts' = starts + 1
  /\ shown' = IF cache[v] \in {NoBlock, Torn} THEN shown ELSE cache[v]
  /\ raced' = (raced \/ (Due(v) /\ \E q \in Procs : proc[q].pc = "due" /\ proc[q].who = v))
  /\ proc' = IF Due(v) THEN [proc EXCEPT ![p] = [pc |-> "due", who |-> v]] ELSE proc
  /\ UNCHANGED <<now, kills, marker, cache, surfaced, muted, verdicts, label,
                 runs, refreshes, dropped>>

HookNoMark(p) ==
  /\ proc[p].pc = "due"
  /\ proc' = [proc EXCEPT ![p] = [pc |-> "spawn", who |-> proc[p].who, began |-> now]]
  /\ UNCHANGED <<clock, stores, runs, refreshes, raced>>

HookMark(p) ==
  /\ proc[p].pc = "due"
  /\ marker' = [marker EXCEPT ![proc[p].who] = now]
  /\ proc' = [proc EXCEPT ![p] = [pc |-> "spawn", who |-> proc[p].who, began |-> now]]
  /\ UNCHANGED <<now, starts, kills, stores, runs, refreshes, raced>>

Begin(p, v, hand, since) ==
  /\ runs' = runs + 1
  /\ proc' = [proc EXCEPT ![p] = [pc |-> "run", who |-> v, hand |-> hand, began |-> since,
                                  run |-> runs + 1]]

HookSpawn(p) ==
  /\ proc[p].pc = "spawn"
  /\ Begin(p, proc[p].who, FALSE, proc[p].began)
  /\ refreshes' = [refreshes EXCEPT ![proc[p].who] = @ + 1]
  /\ UNCHANGED <<clock, stores, raced>>

-----------------------------------------------------------------------------
(* A run.                                                                  *)

RunByHand(p, v) ==
  /\ proc[p] = Off /\ starts < MaxStarts /\ v \in HandRuns
  /\ starts' = starts + 1
  /\ Begin(p, v, TRUE, now)
  /\ UNCHANGED <<now, kills, marker, stores, refreshes, raced>>

(* What the detector finds on the bus, filtered to the viewer.             *)
Reconcile(p) ==
  /\ proc[p].pc = "run"
  /\ \E S \in SUBSET Involves[proc[p].who] :
       \E rec \in [S -> IF proc[p].hand THEN Recurrence \ {"none"} ELSE {"none"}] :
         proc' = [proc EXCEPT ![p] = [pc |-> "found", who |-> @.who, hand |-> @.hand,
                                      began |-> @.began, run |-> @.run, rec |-> rec]]
  /\ UNCHANGED <<clock, stores, runs, refreshes, raced>>

(* A run whose bus or model fails ends with nothing written.               *)
RunFails(p) ==
  /\ proc[p].pc = "run"
  /\ proc' = [proc EXCEPT ![p] = Off]
  /\ UNCHANGED <<clock, stores, runs, refreshes, raced>>

TagAll(p) ==
  /\ proc[p].pc = "found"
  /\ LET r == proc[p]
     IN proc' = [proc EXCEPT ![p] = [pc |-> "tagged", who |-> r.who, hand |-> r.hand,
                                     began |-> r.began, block |-> Block(r.run, r.rec), gone |-> muted]]
  /\ UNCHANGED <<clock, stores, runs, refreshes, raced>>

(* The stores are read once the reconcile is back, and the muted dropped.  *)
Tag(p) ==
  /\ proc[p].pc = "found"
  /\ LET r == proc[p]
         b == Block(r.run, Restrict(r.rec, DOMAIN r.rec \ muted))
     IN proc' = [proc EXCEPT ![p] = [pc |-> "tagged", who |-> r.who, hand |-> r.hand,
                                     began |-> r.began, block |-> b, gone |-> muted]]
  /\ UNCHANGED <<clock, stores, runs, refreshes, raced>>

(* The surfaced file is replaced, never merged: truncated, then written;   *)
(* an empty one holds no features.                                         *)
OpenSurfaced(p) ==
  /\ proc[p].pc = "tagged"
  /\ surfaced' = NoBlock
  /\ proc' = [proc EXCEPT ![p].pc = "surface"]
  /\ UNCHANGED <<clock, cache, muted, verdicts, shown, label, runs, refreshes, raced, dropped>>

WriteSurfaced(p) ==
  /\ proc[p].pc = "surface"
  /\ surfaced' = proc[p].block
  /\ proc' = [proc EXCEPT ![p].pc = "block"]
  /\ UNCHANGED <<clock, cache, muted, verdicts, shown, label, runs, refreshes, raced, dropped>>

PrintBlock(p) ==
  /\ proc[p].pc = "block" /\ proc[p].hand
  /\ shown' = proc[p].block
  /\ proc' = [proc EXCEPT ![p] = Off]
  /\ UNCHANGED <<clock, cache, surfaced, muted, verdicts, label, runs, refreshes, raced, dropped>>

(* The cache is truncated and then written.                                *)
OpenCache(p) ==
  /\ proc[p].pc = "block" /\ ~proc[p].hand
  /\ cache' = [cache EXCEPT ![proc[p].who] = Torn]
  /\ proc' = [proc EXCEPT ![p].pc = "cache"]
  /\ UNCHANGED <<clock, surfaced, muted, verdicts, shown, label, runs, refreshes, raced, dropped>>

FillCache(p) ==
  /\ proc[p].pc = "cache"
  /\ cache' = [cache EXCEPT ![proc[p].who] = proc[p].block]
  /\ dropped' = [dropped EXCEPT ![proc[p].who] = (@ \cup proc[p].gone) \cap muted]
  /\ proc' = [proc EXCEPT ![p] = Off]
  /\ UNCHANGED <<clock, surfaced, muted, verdicts, shown, label, runs, refreshes, raced>>

Kill(p) ==
  /\ proc[p] # Off /\ kills < MaxKills
  /\ kills' = kills + 1
  /\ proc' = [proc EXCEPT ![p] = Off]
  /\ UNCHANGED <<now, starts, marker, stores, runs, refreshes, raced>>

-----------------------------------------------------------------------------
(* Verdicts typed at the shell.                                            *)

RecordGuessed(k) ==
  /\ verdicts < MaxVerdicts /\ verdicts' = verdicts + 1
  /\ label' = [key |-> k,
               rec |-> IF k \in DOMAIN surfaced.rec THEN surfaced.rec[k] ELSE "soft"]

Record(k) ==
  /\ verdicts < MaxVerdicts /\ verdicts' = verdicts + 1
  /\ label' = [key |-> k,
               rec |-> IF k \in DOMAIN surfaced.rec THEN surfaced.rec[k] ELSE "none"]

Mute(k) ==
  /\ muted' = muted \cup {k}
  /\ Record(k)
  /\ UNCHANGED <<clock, cache, surfaced, proc, shown, runs, refreshes, raced, dropped>>

Unmute(k) ==
  /\ k \in muted /\ muted' = muted \ {k}
  /\ verdicts < MaxVerdicts /\ verdicts' = verdicts + 1
  /\ dropped' = [v \in Viewers |-> dropped[v] \ {k}]
  /\ UNCHANGED <<clock, cache, surfaced, proc, shown, label, runs, refreshes, raced>>

(* A confirmed tangle is still shown: the verdict is what is recorded.     *)
Confirm(k) ==
  /\ Record(k)
  /\ UNCHANGED <<clock, cache, surfaced, muted, proc, shown, runs, refreshes, raced, dropped>>

Next ==
  \/ Tick
  \/ \E p \in Procs : \/ \E v \in Viewers : Hook(p, v) \/ RunByHand(p, v)
                      \/ HookMark(p) \/ HookSpawn(p)
                      \/ Reconcile(p) \/ RunFails(p) \/ Tag(p) \/ OpenSurfaced(p) \/ WriteSurfaced(p)
                      \/ PrintBlock(p) \/ OpenCache(p) \/ FillCache(p) \/ Kill(p)
  \/ \E k \in Keys : Mute(k) \/ Unmute(k) \/ Confirm(k)

Spec == Init /\ [][Next]_vars

-----------------------------------------------------------------------------
(* Properties.                                                             *)

(* The state is well formed.                                               *)
TypeOK ==
  /\ now \in 1..MaxTime /\ starts \in 0..MaxStarts /\ kills \in 0..MaxKills
  /\ \A v \in Viewers : marker[v] <= now
  /\ muted \cup DOMAIN surfaced.rec \subseteq Keys
  /\ \A p \in Procs : Running(p) => proc[p].began <= now /\ now <= proc[p].began + Timeout

(* surfaced.go 33-38, horizon.go 94-96: while the horizon in front of the  *)
(* human is the last one that ran, a verdict carries the recurrence it     *)
(* answers, and none for a tangle that horizon did not show.               *)
VerdictCarriesLatest ==
  [][ \A k \in Keys :
        (label' # label /\ label'.key = k /\ shown.run = surfaced.run) =>
          label'.rec = IF k \in DOMAIN shown.rec THEN shown.rec[k] ELSE "none" ]_vars

(* mute.go: what a refresh left out as muted does not come back to the     *)
(* cache while it stays muted, unless two hooks raced to refresh.          *)
MutedStaysGone ==
  ~raced => \A v \in Viewers : cache[v] # Torn => DOMAIN cache[v].rec \cap dropped[v] = {}

(* horizon.go 589-591: session churn spends at most one refresh per        *)
(* viewer and window, unless two hooks raced; the state is well formed.    *)
RefreshBudget ==
  /\ TypeOK
  /\ ~raced => \A v \in Viewers : refreshes[v] <= 1 + ((now - 1) \div Window)

(* Not so (horizon.go 94-96): a run in the background, or one for another  *)
(* viewer, replaces the features of the horizon a verdict answers.         *)
VerdictCarriesShown ==
  [][ (label' # label /\ label'.key \in DOMAIN shown.rec) =>
        label'.rec = shown.rec[label'.key] ]_vars

(* Not so (horizon.go 570-587): a run killed between truncating and        *)
(* writing the cache leaves nothing to inject.                             *)
LastGoodCacheKept ==
  [][ \A v \in Viewers : starts' > starts /\ cache[v] = Torn => \E p \in Procs : proc[p].pc = "cache" ]_vars
=============================================================================
