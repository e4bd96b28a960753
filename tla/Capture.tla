------------------------------ MODULE Capture ------------------------------
(***************************************************************************)
(* The emit half of ettle: `ettle init` joins a room, Claude Code hooks    *)
(* fire `ettle capture-hook`, the hook detaches `ettle capture`, and that  *)
(* process distills the turns past the recorded offset and publishes them  *)
(* as one person's envelope on a replace-current bus.                      *)
(*                                                                         *)
(* One person, one room, any number of sessions.  A turn <<s, i>> is the   *)
(* i-th complete line of session s's transcript; its atoms are identified  *)
(* with it, so MergeSelf over distinct turns is set union.  Every process  *)
(* is its own operating-system process: nothing is locked, and any step of *)
(* any two of them may interleave.                                         *)
(***************************************************************************)
EXTENDS Naturals, FiniteSets

CONSTANTS
  Sessions,   \* sessions of the project, each with its transcript file
  Procs,      \* BOUND: `ettle capture` processes alive at one time
  MaxTurns,   \* BOUND: turns per transcript
  MaxFails,   \* BOUND: captures and spawns that fail or are killed
  Wired       \* the hooks are in the global settings before this init runs

ASSUME CaptureAssumption ==
  /\ MaxTurns \in Nat
  /\ MaxFails \in Nat
  /\ Wired \in BOOLEAN

VARIABLES
  len,        \* turns in each transcript
  signal,     \* the turns that carry L1 signal (a prompt, an edit, a command)
  ended,      \* sessions whose SessionEnd hook has fired
  joined,     \* progress of `ettle init` in this project
  wired,      \* the hook bundle is installed
  fresh,      \* the session's debounce marker is younger than the window
  offset,     \* the per-(room, transcript) offset file, 0 when absent
  job,        \* each capture process: where it is and what it has in hand
  bus,        \* the turns whose atoms my envelope carries now
  silent,       \* sessions silent for longer than seedLiveWindow at the seed
  before,     \* history: the turns each transcript held when init began
  accounted,  \* history: turns seeded, or read by a capture that came through
  published,  \* history: turns ever published
  overlapped, \* history: two captures have been alive at once
  fails

files   == <<len, signal, ended>>
joining == <<joined, wired, silent, before>>
history == <<accounted, published, overlapped>>
vars == <<files, joining, fresh, offset, job, bus, history, fails>>

Turns == Sessions \X (1..MaxTurns)
Upto(s, n) == {s} \X (1..n)

(* A capture process: the transcripts it was given, those it has still to  *)
(* read (then: whose offset it has to save), the offset and the size it    *)
(* read for each, and the envelope it read back before merging.            *)
Job == [pc    : {"idle", "read", "distill", "fetch", "publish", "save"},
        paths : SUBSET Sessions,
        todo  : SUBSET Sessions,
        from  : [Sessions -> 0..MaxTurns],
        total : [Sessions -> 0..MaxTurns],
        prev  : SUBSET Turns]

NewJob(at, S) == [pc |-> at, paths |-> S, todo |-> S,
                  from |-> [s \in Sessions |-> 0],
                  total |-> [s \in Sessions |-> 0],
                  prev |-> {}]
NoJob == NewJob("idle", {})

(* What j read, and the part of it that makes a digest.                    *)
RangeShort(j) == {t \in Turns : /\ t[1] \in j.paths
                                /\ j.from[t[1]] < t[2]
                                /\ t[2] < j.total[t[1]]}
Range(j) == {t \in Turns : /\ t[1] \in j.paths
                           /\ j.from[t[1]] < t[2]
                           /\ t[2] <= j.total[t[1]]}
Note(j) == Range(j) \cap signal

(* Some transcript was read from a recorded offset: the note is a slice.   *)
NeverIncremental(j) == FALSE
Incremental(j) == \E s \in j.paths : j.from[s] > 0

TypeOK ==
  /\ len \in [Sessions -> 0..MaxTurns]
  /\ signal \subseteq Turns
  /\ ended \in [Sessions -> BOOLEAN]
  /\ joined \in {"no", "recorded", "seeded", "done"}
  /\ wired \in BOOLEAN
  /\ fresh \in [Sessions -> BOOLEAN]
  /\ offset \in [Sessions -> 0..MaxTurns]
  /\ job \in [Procs -> Job]
  /\ bus \subseteq Turns
  /\ silent \subseteq Sessions
  /\ before \in [Sessions -> 0..MaxTurns]
  /\ accounted \subseteq Turns
  /\ published \subseteq Turns
  /\ overlapped \in BOOLEAN
  /\ fails \in 0..MaxFails

Init ==
  /\ len = [s \in Sessions |-> 0]
  /\ signal = {}
  /\ ended = [s \in Sessions |-> FALSE]
  /\ joined = "no"
  /\ wired = Wired
  /\ fresh = [s \in Sessions |-> FALSE]
  /\ offset = [s \in Sessions |-> 0]
  /\ job = [p \in Procs |-> NoJob]
  /\ bus = {}
  /\ silent = {}
  /\ before = [s \in Sessions |-> 0]
  /\ accounted = {}
  /\ published = {}
  /\ overlapped = FALSE
  /\ fails = 0

----------------------------------------------------------------------------
(* The sessions: Claude Code appends a line per turn (external).           *)

Append(s, loud) ==
  /\ ~ended[s]
  /\ len[s] < MaxTurns
  /\ len' = [len EXCEPT ![s] = @ + 1]
  /\ signal' = IF loud THEN signal \cup {<<s, len[s] + 1>>} ELSE signal
  /\ UNCHANGED <<ended, joining, fresh, offset, job, bus, history, fails>>

----------------------------------------------------------------------------
(* `ettle init`: record the room for the directory, then (after the        *)
(* workspace lookup, a network call) seed the offsets, then install hooks. *)

InitRecord ==
  /\ joined = "no"
  /\ joined' = "recorded"
  /\ before' = len
  /\ UNCHANGED <<files, wired, silent, fresh, offset, job, bus, history, fails>>

InitSeed(I) ==
  /\ joined = "recorded"
  /\ \A s \in I : len[s] > 0
  /\ joined' = "seeded"
  /\ silent' = I
  /\ offset' = [s \in Sessions |->
                  IF s \in I \/ len[s] = 0 THEN offset[s] ELSE len[s]]
  /\ accounted' = accounted \cup UNION {Upto(s, len[s]) : s \in Sessions \ I}
  /\ UNCHANGED <<files, wired, before, fresh, job, bus,
                 published, overlapped, fails>>

InitInstall ==
  /\ joined = "seeded"
  /\ joined' = "done"
  /\ wired' = TRUE
  /\ UNCHANGED <<files, silent, before, fresh, offset, job, bus, history, fails>>

----------------------------------------------------------------------------
(* The trigger.  A hook that finds no room, or a young marker, is silent.  *)

Spawn(p, S) ==
  /\ job[p].pc = "idle"
  /\ job' = [job EXCEPT ![p] = NewJob("read", S)]
  /\ overlapped' = (overlapped \/ \E q \in Procs : job[q].pc # "idle")

Due(s) ==
  /\ wired
  /\ joined # "no"
  /\ len[s] > 0
  /\ ~fresh[s]

(* Stop fires after a turn; dueForCapture writes the marker before the     *)
(* detached child is started.                                              *)
StopHook(s, p) ==
  /\ ~ended[s]
  /\ Due(s)
  /\ fresh' = [fresh EXCEPT ![s] = TRUE]
  /\ Spawn(p, {s})
  /\ UNCHANGED <<files, joining, offset, bus, accounted, published, fails>>

(* SessionEnd runs the same hook behind the same marker, once.             *)
SessionEndHook(s, p) ==
  /\ ~ended[s]
  /\ Due(s)
  /\ ended' = [ended EXCEPT ![s] = TRUE]
  /\ fresh' = [fresh EXCEPT ![s] = TRUE]
  /\ Spawn(p, {s})
  /\ UNCHANGED <<len, signal, joining, offset, bus, accounted, published, fails>>

SessionEndSkipped(s) ==
  /\ ~ended[s]
  /\ len[s] > 0
  /\ ~Due(s)
  /\ ended' = [ended EXCEPT ![s] = TRUE]
  /\ UNCHANGED <<len, signal, joining, fresh, offset, job, bus, history, fails>>

(* The child never starts: the marker is already written.                  *)
SpawnFails(s) ==
  /\ ~ended[s]
  /\ Due(s)
  /\ fails < MaxFails
  /\ fails' = fails + 1
  /\ fresh' = [fresh EXCEPT ![s] = TRUE]
  /\ UNCHANGED <<files, joining, offset, job, bus, history>>

WindowPasses(s) ==
  /\ fresh[s]
  /\ fresh' = [fresh EXCEPT ![s] = FALSE]
  /\ UNCHANGED <<files, joining, offset, job, bus, history, fails>>

(* `ettle capture --room <room> a.jsonl b.jsonl`, typed by the person      *)
(* once init is over: no marker, any set of transcripts.                   *)
ManualCapture(p, S) ==
  /\ joined = "done"
  /\ S # {} /\ \A s \in S : len[s] > 0
  /\ Spawn(p, S)
  /\ UNCHANGED <<files, joining, fresh, offset, bus, accounted, published, fails>>

----------------------------------------------------------------------------
(* One `ettle capture` process.                                            *)

(* Where the read starts: the recorded offset, or 0 when it lies past the  *)
(* end of a transcript that was replaced.                                  *)
StartAtEndResets(s) == IF offset[s] >= len[s] THEN 0 ELSE offset[s]
Start(s) == IF offset[s] > len[s] THEN 0 ELSE offset[s]

ReadPath(p, s) ==
  /\ job[p].pc = "read"
  /\ s \in job[p].todo
  /\ job' = [job EXCEPT ![p] = [@ EXCEPT !.todo = job[p].todo \ {s},
                                         !.from[s] = Start(s),
                                         !.total[s] = len[s]]]
  /\ UNCHANGED <<files, joining, fresh, offset, bus, history, fails>>

(* The range is dealt with: what is left is to save the offsets.           *)
Through(p) ==
  /\ job' = [job EXCEPT ![p] = [@ EXCEPT !.pc = "save", !.todo = job[p].paths]]
  /\ accounted' = accounted \cup Range(job[p])

Continue(p, at) ==
  /\ job' = [job EXCEPT ![p] = [@ EXCEPT !.pc = at]]
  /\ UNCHANGED accounted

Digest(p) ==
  /\ job[p].pc = "read"
  /\ job[p].todo = {}
  /\ IF Note(job[p]) = {} THEN Through(p) ELSE Continue(p, "distill")
  /\ UNCHANGED <<files, joining, fresh, offset, bus, published, overlapped, fails>>

(* The model may find no atom in the note: nothing is published.           *)
Distill(p) ==
  /\ job[p].pc = "distill"
  /\ \/ Through(p)
     \/ Continue(p, IF Incremental(job[p]) THEN "fetch" ELSE "publish")
  /\ UNCHANGED <<files, joining, fresh, offset, bus, published, overlapped, fails>>

OwnAtoms(p) ==
  /\ job[p].pc = "fetch"
  /\ job' = [job EXCEPT ![p] = [@ EXCEPT !.pc = "publish", !.prev = bus]]
  /\ UNCHANGED <<files, joining, fresh, offset, bus, history, fails>>

Publish(p) ==
  /\ job[p].pc = "publish"
  /\ bus' = job[p].prev \cup Note(job[p])
  /\ published' = published \cup Note(job[p])
  /\ Through(p)
  /\ UNCHANGED <<files, joining, fresh, offset, overlapped, fails>>

(* The offset a path is left at: the size the read measured.               *)
ConsumedPlusOne(p, s) == job[p].total[s] + 1
ConsumedNow(p, s) == len[s]
Consumed(p, s) == job[p].total[s]

SaveOffset(p, s) ==
  /\ job[p].pc = "save"
  /\ s \in job[p].todo
  /\ offset' = [offset EXCEPT ![s] = Consumed(p, s)]
  /\ job' = [job EXCEPT ![p] = IF @.todo = {s} THEN NoJob
                               ELSE [@ EXCEPT !.todo = job[p].todo \ {s}]]
  /\ UNCHANGED <<files, joining, fresh, bus, history, fails>>

(* An error return, a kill, or an offset file that could not be written.   *)
Die(p) ==
  /\ job[p].pc # "idle"
  /\ fails < MaxFails
  /\ fails' = fails + 1
  /\ job' = [job EXCEPT ![p] = NoJob]
  /\ UNCHANGED <<files, joining, fresh, offset, bus, history>>

----------------------------------------------------------------------------
Step(p) ==
  \/ \E s \in Sessions : ReadPath(p, s) \/ SaveOffset(p, s)
  \/ Digest(p) \/ Distill(p) \/ OwnAtoms(p) \/ Publish(p)

Next ==
  \/ InitRecord \/ InitInstall
  \/ \E I \in SUBSET Sessions : InitSeed(I)
  \/ \E s \in Sessions :
       \/ \E loud \in BOOLEAN : Append(s, loud)
       \/ SessionEndSkipped(s) \/ SpawnFails(s) \/ WindowPasses(s)
       \/ \E p \in Procs : StopHook(s, p) \/ SessionEndHook(s, p)
  \/ \E p \in Procs :
       \/ \E S \in SUBSET Sessions : ManualCapture(p, S)
       \/ Step(p) \/ Die(p)

Spec == Init /\ [][Next]_vars

(* Every capture runs to its end: the distillation has a five-minute       *)
(* deadline and every other call returns.  Clocks move on.                 *)
Fairness ==
  /\ \A p \in Procs : WF_vars(Step(p))
  /\ \A s \in Sessions : WF_vars(WindowPasses(s))

FairSpec == Spec /\ Fairness

----------------------------------------------------------------------------
(* No turn is skipped unread (capture.go:91-93, 339-341): whatever lies    *)
(* below a recorded offset was there at init and seeded, or was read by a  *)
(* capture that got through its publish, or found nothing to publish.      *)
(* Overlapping, failing and killed captures included.                      *)
OffsetCovered ==
  \A s \in Sessions : Upto(s, offset[s]) \subseteq accounted

(* The consent boundary (capture.go:373-386): nothing a live session did   *)
(* before `ettle init` began is ever published by the hooks.               *)
ConsentBoundary ==
  \A t \in published : t[1] \notin silent => t[2] > before[t[1]]

(* Captures that never overlap keep everything they published on the       *)
(* replace-current bus: the merge does not erase the morning               *)
(* (capture.go:112-115), through crashes between publish and save, for a   *)
(* person with one session and for sessions all seeded at init, by whose   *)
(* offsets every capture merges.                                           *)
KeptWhenAlone ==
  (/\ ~overlapped
   /\ \/ \E s \in Sessions : \A t \in Sessions \ {s} : len[t] = 0
      \/ silent = {} /\ \A s \in Sessions : before[s] > 0)
    => published \subseteq bus

(* A session still open keeps its atoms on the bus while a sibling         *)
(* captures: different sessions do not drop each other's work              *)
(* (capture.go:293-302).                                                   *)
SiblingKept ==
  ~overlapped => \A t \in published : ~ended[t[1]] => t \in bus

(* A capture the hook started ends with every turn it set out from         *)
(* accounted for (the detached child, capture.go:243-264 and 36-100), if   *)
(* none fails or is killed.                                                *)
CaptureLands ==
  \A p \in Procs : \A t \in Turns :
    (job[p].pc = "read" /\ t[1] \in job[p].todo /\ len[t[1]] >= t[2])
      ~> (t \in accounted \/ fails > 0)

(* A session that ends after the room was joined, with the hooks wired, has *)
(* published itself (room.go:222, init.go:45): its turns are accounted for. *)
EndedSessionCaptured ==
  \A s \in Sessions :
    (Wired /\ joined = "done" /\ ended[s] /\ before[s] < len[s])
      ~> (Upto(s, len[s]) \subseteq accounted)
=============================================================================
