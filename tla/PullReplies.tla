---------------------------- MODULE PullReplies ----------------------------
(***************************************************************************)
(* `ettle pull`: a teammate without ettle answers in Linear, and somebody  *)
(* else's pull distills the answer and publishes it under the teammate's   *)
(* name.  Every machine keeps one cursor per room, the creation time of    *)
(* the newest activity it has dealt with.  A pull is started by the hook   *)
(* behind a 30 second marker, by `ettle pull`, or by a standup before it   *)
(* collects; it has five minutes, and nothing is locked.                   *)
(***************************************************************************)
EXTENDS Naturals, Sequences

CONSTANTS
  People,     \* teammates who answer in Linear
  Machines,   \* machines that pull into the room
  Pulls,      \* BOUND: pulls in progress at one time
  MaxActs,    \* BOUND: agent activities
  Page,       \* activities one request returns (agentPullPage)
  Ascending,  \* the service returns the oldest activities of a page first
  MaxFails    \* BOUND: pulls that fail or are killed

ASSUME PullAssumption ==
  /\ MaxActs \in Nat /\ MaxFails \in Nat /\ Page \in Nat \ {0}
  /\ Ascending \in BOOLEAN

VARIABLES
  acts,       \* agent activities in creation order: whose answer, or nobody's
  cursor,     \* each machine's cursor file, 0 when absent
  fresh,      \* the machine's hook marker is younger than the window
  pull,       \* each pull: where it is and what it holds
  bus,        \* the answers each teammate's current envelope came from
  shown,      \* history: answers ever published
  overlapped, \* history: two pulls have been in progress at once
  fails

vars == <<acts, cursor, fresh, pull, bus, shown, overlapped, fails>>

(* ettle's own elicitations, thoughts and actions, and the answers that    *)
(* distill to no atom: they move the cursor and publish nothing.           *)
Nobody == "ettle"
Ids == 1..MaxActs
Answers == {i \in 1..Len(acts) : acts[i] # Nobody}
Of(w, S) == {i \in S : acts[i] = w}

(* A pull: the cursor it loaded, the one it will save, the answers of its  *)
(* page, and the authors it has still to publish.                          *)
Pull == [pc : {"idle", "load", "fetch", "distill", "publish", "save"},
         on : Machines, since : 0..MaxActs, next : 0..MaxActs,
         page : SUBSET Ids, todo : SUBSET People]
Started(at, m) == [pc |-> at, on |-> m, since |-> 0, next |-> 0,
                   page |-> {}, todo |-> {}]

TypeOK ==
  /\ acts \in Seq(People \cup {Nobody})
  /\ cursor \in [Machines -> 0..MaxActs]
  /\ fresh \in [Machines -> BOOLEAN]
  /\ pull \in [Pulls -> Pull]
  /\ bus \in [People -> SUBSET Answers]
  /\ shown \subseteq Answers
  /\ overlapped \in BOOLEAN /\ fails \in 0..MaxFails

Init ==
  /\ acts = <<>>
  /\ cursor = [m \in Machines |-> 0]
  /\ fresh = [m \in Machines |-> FALSE]
  /\ \E m \in Machines : pull = [p \in Pulls |-> Started("idle", m)]
  /\ bus = [w \in People |-> {}]
  /\ shown = {}
  /\ overlapped = FALSE /\ fails = 0

----------------------------------------------------------------------------
(* Linear (external): somebody answers, or ettle posts.  An activity's     *)
(* position stands for its creation time.                                  *)
Post(w) ==
  /\ Len(acts) < MaxActs
  /\ acts' = Append(acts, w)
  /\ UNCHANGED <<cursor, fresh, pull, bus, shown, overlapped, fails>>

----------------------------------------------------------------------------
Begin(p, m) ==
  /\ pull[p].pc = "idle"
  /\ pull' = [pull EXCEPT ![p] = Started("load", m)]
  /\ overlapped' = (overlapped \/ \E q \in Pulls : pull[q].pc # "idle")
  /\ UNCHANGED <<acts, cursor, bus, shown, fails>>

(* The hook: the marker is written before the pull is started.             *)
PullHook(p, m) ==
  /\ ~fresh[m]
  /\ fresh' = [fresh EXCEPT ![m] = TRUE]
  /\ Begin(p, m)

WindowPasses(m) ==
  /\ fresh[m]
  /\ fresh' = [fresh EXCEPT ![m] = FALSE]
  /\ UNCHANGED <<acts, cursor, pull, bus, shown, overlapped, fails>>

(* `ettle pull`, and a standup before it collects: no marker.              *)
PullNow(p, m) ==
  /\ Begin(p, m)
  /\ UNCHANGED fresh

----------------------------------------------------------------------------
Goes(p, q) ==
  /\ pull' = [pull EXCEPT ![p] = q]
  /\ UNCHANGED <<acts, fresh, overlapped, fails>>

Done(p) == Started("idle", pull[p].on)

LoadCursor(p) ==
  /\ pull[p].pc = "load"
  /\ Goes(p, [pull[p] EXCEPT !.pc = "fetch", !.since = cursor[pull[p].on]])
  /\ UNCHANGED <<cursor, bus, shown>>

(* What one request for the activities past the cursor returns.  The       *)
(* cursor moves over all of it, answers or not.                            *)
Lower(a, b) == IF a <= b THEN a ELSE b
Higher(a, b) == IF a <= b THEN b ELSE a
Upper(since) == IF Ascending THEN Lower(Len(acts), since + Page) ELSE Len(acts)
PageOf(since) ==
  IF Ascending THEN (since + 1)..Lower(Len(acts), since + Page)
  ELSE {i \in (since + 1)..Len(acts) : i + Page > Len(acts)}
CursorAfter(since) == Higher(since, Upper(since))

Fetch(p) ==
  LET since == pull[p].since IN
  /\ pull[p].pc = "fetch"
  /\ Goes(p, [pull[p] EXCEPT !.pc = "distill",
                             !.page = PageOf(since) \cap Answers,
                             !.next = CursorAfter(since)])
  /\ UNCHANGED <<cursor, bus, shown>>

(* Every answer of the page is distilled before the first publish.         *)
Distill(p) ==
  LET S == pull[p].page IN
  /\ pull[p].pc = "distill"
  /\ Goes(p, [pull[p] EXCEPT !.pc = IF S = {} THEN "save" ELSE "publish",
                             !.todo = {acts[i] : i \in S}])
  /\ UNCHANGED <<cursor, bus, shown>>

(* One envelope per author: the answers of this page, in place of whatever *)
(* the author's envelope held.                                             *)
NotYetShown(p, w) == Of(w, pull[p].page) \ shown
Batch(p, w) == Of(w, pull[p].page)

Publish(p, w) ==
  /\ pull[p].pc = "publish" /\ w \in pull[p].todo
  /\ bus' = [bus EXCEPT ![w] = Batch(p, w)]
  /\ shown' = shown \cup Batch(p, w)
  /\ Goes(p, [pull[p] EXCEPT !.todo = @ \ {w},
                             !.pc = IF pull[p].todo = {w} THEN "save" ELSE @])
  /\ UNCHANGED <<cursor>>

(* Only when every publish has landed.                                     *)
Save(p) ==
  /\ pull[p].pc = "save"
  /\ cursor' = IF pull[p].next = pull[p].since THEN cursor
               ELSE [cursor EXCEPT ![pull[p].on] = pull[p].next]
  /\ Goes(p, Done(p))
  /\ UNCHANGED <<bus, shown>>

(* An error of the service, the model or the bus, a kill, the deadline.    *)
SavedOnError(p) == [cursor EXCEPT ![pull[p].on] = pull[p].next]
CursorOnError(p) == cursor

Fail(p) ==
  /\ pull[p].pc # "idle" /\ fails < MaxFails
  /\ fails' = fails + 1
  /\ pull' = [pull EXCEPT ![p] = Done(p)]
  /\ cursor' = CursorOnError(p)
  /\ UNCHANGED <<acts, fresh, bus, shown, overlapped>>

----------------------------------------------------------------------------
Step(p) ==
  \/ LoadCursor(p) \/ Fetch(p) \/ Distill(p) \/ Save(p)
  \/ \E w \in People : Publish(p, w)

Next ==
  \/ \E w \in People \cup {Nobody} : Post(w)
  \/ \E m \in Machines : WindowPasses(m)
  \/ \E p \in Pulls :
       \/ \E m \in Machines : PullHook(p, m) \/ PullNow(p, m)
       \/ Step(p) \/ Fail(p)

Spec == Init /\ [][Next]_vars

----------------------------------------------------------------------------
(* No answer is lost to a failure (pull.go:96-98, linearagent.go:94-96): a *)
(* machine's cursor has passed an answer only once the answer was          *)
(* published, whatever pulls overlap or fail and however many pages the    *)
(* backlog fills.                                                          *)
NonePassedOver ==
  \A m \in Machines : \A i \in Answers :
    i <= cursor[m] => i \in shown

(* The envelope of a teammate reflects their most recent answers           *)
(* (pull.go:100-102): the newest one ever published is in it.              *)
NewestShown ==
  \A w \in People : \A i \in Of(w, shown) :
    i \in bus[w] \/ \E j \in bus[w] : j > i

(* Pulls that do not overlap, on one machine, keep it so, through failed   *)
(* pulls that publish for some authors and not for others; and the state   *)
(* is well formed.                                                         *)
NewestShownAlone ==
  /\ TypeOK
  /\ (~overlapped /\ \A m, n \in Machines : m = n) => NewestShown
=============================================================================
