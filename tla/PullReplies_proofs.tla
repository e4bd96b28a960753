------------------------- MODULE PullReplies_proofs -------------------------
(***************************************************************************)
(* Proofs about PullReplies, for any teammates, machines, overlapping and  *)
(* failing pulls, page size and length of the backlog.                     *)
(***************************************************************************)
EXTENDS PullReplies, TLAPS

Activities == Seq(People \cup {Nobody})

(* The answers among the activities a, and that those up to n are in S.    *)
AnswersIn(a) == {i \in 1..Len(a) : a[i] # Nobody}
Covered(n, a, S) == n <= Len(a) /\ \A i \in AnswersIn(a) : i <= n => i \in S

(* What a pull in progress holds, given the activities a and the answers S *)
(* shown so far: all up to the cursor it loaded is shown, its page closes  *)
(* the gap to the cursor it will save, and what of the page is not shown   *)
(* yet has an author still to publish.                                     *)
PullOK(q, a, S) ==
  /\ q.pc \notin {"idle", "load"} => Covered(q.since, a, S)
  /\ q.pc \in {"distill", "publish", "save"} =>
       Covered(q.next, a, S \cup q.page) /\ q.page \subseteq AnswersIn(a)
  /\ q.pc = "publish" => \A i \in q.page : a[i] \in q.todo \/ i \in S
  /\ q.pc = "save" => q.page \subseteq S

PullsOK == \A p \in Pulls : PullOK(pull[p], acts, shown)
CursorsOK == \A m \in Machines : Covered(cursor[m], acts, shown)

(* Inductive: NonePassedOver strengthened with what the pulls hold.        *)
CursorInv == TypeOK /\ Len(acts) <= MaxActs /\ CursorsOK /\ PullsOK

----------------------------------------------------------------------------
(* Activities are only appended and answers stay shown, so what holds of a *)
(* cursor, or of a pull in hand, stays true.                               *)
Extends(a, b) == Len(a) <= Len(b) /\ \A i \in 1..Len(a) : b[i] = a[i]

LEMMA CoveredStable ==
  ASSUME NEW a \in Activities, NEW b \in Activities, Extends(a, b),
         NEW S, NEW T, S \subseteq T, NEW n \in Nat, Covered(n, a, S)
  PROVE  Covered(n, b, T)
<1>1. Len(a) \in Nat /\ Len(b) \in Nat
  BY DEF Activities
<1>2. n <= Len(a) /\ Len(a) <= Len(b)
  BY DEF Covered, Extends
<1>3. ASSUME NEW i \in AnswersIn(b), i <= n PROVE i \in T
  <2>1. i \in 1..Len(a)
    BY <1>1, <1>2, <1>3 DEF AnswersIn
  <2>2. i \in AnswersIn(a)
    BY <2>1 DEF AnswersIn, Extends
  <2> QED
    BY <1>3, <2>2 DEF Covered
<1> QED
  BY <1>1, <1>2, <1>3 DEF Covered

LEMMA AnswersStable ==
  ASSUME NEW a \in Activities, NEW b \in Activities, Extends(a, b)
  PROVE  AnswersIn(a) \subseteq AnswersIn(b)
<1>1. Len(a) \in Nat /\ Len(b) \in Nat
  BY DEF Activities
<1> QED
  BY <1>1 DEF AnswersIn, Extends

LEMMA PullStable ==
  ASSUME NEW q \in Pull, NEW a \in Activities, NEW b \in Activities, Extends(a, b),
         NEW S, NEW T, S \subseteq T, PullOK(q, a, S)
  PROVE  PullOK(q, b, T)
<1>1. q.since \in Nat /\ q.next \in Nat
  BY PullAssumption DEF Pull
<1>2. Covered(q.since, a, S) => Covered(q.since, b, T)
  BY <1>1, CoveredStable
<1>3. Covered(q.next, a, S \cup q.page) => Covered(q.next, b, T \cup q.page)
  <2>1. S \cup q.page \subseteq T \cup q.page
    OBVIOUS
  <2> QED
    BY <1>1, <2>1, CoveredStable
<1>4. AnswersIn(a) \subseteq AnswersIn(b)
  BY AnswersStable
<1>5. \A i \in AnswersIn(a) : b[i] = a[i]
  BY DEF AnswersIn, Extends
<1> QED
  BY <1>2, <1>3, <1>4, <1>5 DEF PullOK

(* One pull moves on and the others stay as they are.                      *)
LEMMA OneMoves ==
  ASSUME NEW K \in [Pulls -> Pull], NEW p \in Pulls, NEW q \in Pull,
         NEW a \in Activities, NEW S, NEW T, S \subseteq T,
         \A r \in Pulls : PullOK(K[r], a, S), PullOK(q, a, T)
  PROVE  /\ [K EXCEPT ![p] = q] \in [Pulls -> Pull]
         /\ \A r \in Pulls : PullOK([K EXCEPT ![p] = q][r], a, T)
<1>1. Extends(a, a)
  BY DEF Extends, Activities
<1>2. ASSUME NEW r \in Pulls, r # p PROVE PullOK(K[r], a, T)
  BY <1>1, PullStable
<1> QED
  BY <1>2

LEMMA StartedOK ==
  ASSUME NEW at \in {"idle", "load"}, NEW m \in Machines, NEW a, NEW S
  PROVE  Started(at, m) \in Pull /\ PullOK(Started(at, m), a, S)
BY PullAssumption DEF Started, Pull, PullOK

(* The page and the cursor a request comes back with, oldest first.        *)
LEMMA PageCloses ==
  ASSUME Ascending, acts \in Activities, NEW since \in Nat,
         Covered(since, acts, shown)
  PROVE  Covered(CursorAfter(since), acts, shown \cup (PageOf(since) \cap Answers))
<1>1. Len(acts) \in Nat /\ since <= Len(acts) /\ Page \in Nat \ {0}
  BY PullAssumption DEF Activities, Covered
<1>2. CursorAfter(since) \in since..Len(acts)
  BY <1>1 DEF CursorAfter, Upper, Lower, Higher
<1>3. (since + 1)..CursorAfter(since) \subseteq PageOf(since)
  BY <1>1 DEF CursorAfter, PageOf, Upper, Lower, Higher
<1>4. ASSUME NEW i \in AnswersIn(acts), i <= CursorAfter(since)
      PROVE  i \in shown \cup (PageOf(since) \cap Answers)
  <2>1. i \in Nat /\ i \in Answers
    BY <1>1 DEF AnswersIn, Answers
  <2>2. CASE i <= since
    BY <1>4, <2>2 DEF Covered
  <2>3. CASE ~(i <= since)
    BY <1>1, <1>2, <1>3, <1>4, <2>1, <2>3
  <2> QED
    BY <2>2, <2>3
<1> QED
  BY <1>1, <1>2, <1>4 DEF Covered

----------------------------------------------------------------------------
LEMMA CursorInit == Init => CursorInv
<1> SUFFICES ASSUME Init PROVE CursorInv
  OBVIOUS
<1> USE PullAssumption DEF Init
<1>1. overlapped \in BOOLEAN
  BY Zenon
<1>2. acts \in Activities /\ Len(acts) = 0 /\ \A i \in 1..Len(acts) : FALSE
  BY DEF Activities
<1>3. PICK m \in Machines : pull = [p \in Pulls |-> Started("idle", m)]
  OBVIOUS
<1>4. pull \in [Pulls -> Pull] /\ PullsOK
  BY <1>3, StartedOK DEF PullsOK
<1>5. CursorsOK
  BY <1>2 DEF CursorsOK, Covered, AnswersIn
<1>6. TypeOK
  BY <1>1, <1>2, <1>4 DEF TypeOK, Activities
<1> QED
  BY <1>2, <1>4, <1>5, <1>6 DEF CursorInv

(* What the invariant says of a pull in hand, in the types proofs use.     *)
LEMMA InHand ==
  ASSUME CursorInv, NEW p \in Pulls
  PROVE  /\ pull \in [Pulls -> Pull] /\ pull[p] \in Pull /\ PullOK(pull[p], acts, shown)
         /\ acts \in Activities /\ Len(acts) \in Nat /\ Len(acts) <= MaxActs
         /\ pull[p].on \in Machines /\ pull[p].since \in 0..MaxActs
         /\ pull[p].next \in 0..MaxActs /\ pull[p].page \in SUBSET Ids
         /\ pull[p].todo \in SUBSET People
         /\ \A q \in Pulls : PullOK(pull[q], acts, shown)
<1>1. pull \in [Pulls -> Pull] /\ pull[p] \in Pull /\ acts \in Activities
  BY DEF CursorInv, TypeOK, Activities
<1>2. Len(acts) \in Nat
  BY <1>1 DEF Activities
<1> QED
  BY <1>1, <1>2 DEF CursorInv, PullsOK, Pull

(* A step that moves one pull and publishes nothing.                       *)
LEMMA QuietStep ==
  ASSUME CursorInv, NEW p \in Pulls, NEW q \in Pull, pull' = [pull EXCEPT ![p] = q],
         PullOK(q, acts, shown), UNCHANGED <<acts, bus, shown>>,
         cursor' \in [Machines -> 0..MaxActs], CursorsOK',
         fresh' \in [Machines -> BOOLEAN], overlapped' \in BOOLEAN, fails' \in 0..MaxFails
  PROVE  CursorInv'
<1>1. pull' \in [Pulls -> Pull] /\ PullsOK'
  BY InHand, OneMoves DEF PullsOK
<1>2. Answers' = Answers
  BY DEF Answers
<1>3. TypeOK'
  BY <1>1, <1>2 DEF TypeOK, CursorInv
<1> QED
  BY <1>1, <1>3 DEF CursorInv

LEMMA CursorsKept ==
  ASSUME CursorInv, UNCHANGED <<acts, cursor, shown>>
  PROVE  cursor' \in [Machines -> 0..MaxActs] /\ CursorsOK'
BY DEF CursorInv, CursorsOK, TypeOK

LEMMA PostStep ==
  ASSUME CursorInv, NEW w \in People \cup {Nobody}, Post(w)
  PROVE  CursorInv'
<1> USE DEF CursorInv
<1>1. acts \in Activities /\ Len(acts) \in Nat
  BY DEF TypeOK, Activities
<1>2. /\ acts' \in Activities /\ Len(acts') = Len(acts) + 1
      /\ \A i \in 1..Len(acts) : acts'[i] = acts[i]
  BY <1>1 DEF Post, Activities
<1>3. Extends(acts, acts') /\ Len(acts') <= MaxActs
  BY <1>1, <1>2, PullAssumption DEF Extends, Post
<1>4. UNCHANGED <<cursor, fresh, pull, bus, shown, overlapped, fails>>
  BY DEF Post
<1>5. Answers = AnswersIn(acts) /\ Answers' = AnswersIn(acts')
  BY DEF Answers, AnswersIn
<1>6. Answers \subseteq Answers'
  BY <1>1, <1>2, <1>3, <1>5, AnswersStable
<1>7. TypeOK'
  BY <1>2, <1>4, <1>6 DEF TypeOK, Activities
<1>8. CursorsOK'
  <2>1. \A m \in Machines : cursor[m] \in Nat
    BY PullAssumption DEF TypeOK
  <2>2. ASSUME NEW m \in Machines PROVE Covered(cursor[m], acts', shown)
    BY <1>1, <1>2, <1>3, <2>1, CoveredStable DEF CursorsOK
  <2> QED
    BY <1>4, <2>2 DEF CursorsOK
<1>9. PullsOK'
  <2>1. ASSUME NEW q \in Pulls PROVE PullOK(pull[q], acts', shown)
    BY <1>1, <1>2, <1>3, PullStable DEF PullsOK, TypeOK
  <2> QED
    BY <1>4, <2>1 DEF PullsOK
<1> QED
  BY <1>3, <1>7, <1>8, <1>9

LEMMA BeginStep ==
  ASSUME CursorInv, NEW p \in Pulls, NEW m \in Machines, PullHook(p, m) \/ PullNow(p, m)
  PROVE  CursorInv'
<1>1. Begin(p, m)
  BY DEF PullHook, PullNow
<1>2. overlapped' \in BOOLEAN
  BY <1>1, Zenon DEF Begin
<1>3. fresh' \in [Machines -> BOOLEAN]
  BY DEF PullHook, PullNow, CursorInv, TypeOK
<1>4. Started("load", m) \in Pull /\ PullOK(Started("load", m), acts, shown)
  BY StartedOK
<1>5. /\ pull' = [pull EXCEPT ![p] = Started("load", m)]
      /\ UNCHANGED <<acts, cursor, bus, shown, fails>>
  BY <1>1 DEF Begin
<1>6. fails' \in 0..MaxFails
  BY <1>5 DEF CursorInv, TypeOK
<1> QED
  BY <1>2, <1>3, <1>4, <1>5, <1>6, CursorsKept, QuietStep

LEMMA LoadStep ==
  ASSUME CursorInv, NEW p \in Pulls, LoadCursor(p)
  PROVE  CursorInv'
<1> DEFINE c == cursor[pull[p].on]
           q == [pull[p] EXCEPT !.pc = "fetch", !.since = c]
<1>1. c \in 0..MaxActs /\ Covered(c, acts, shown)
  BY InHand DEF CursorInv, CursorsOK, TypeOK
<1>2. q \in Pull /\ q.pc = "fetch" /\ q.since = c
  BY <1>1, InHand DEF Pull
<1>3. /\ pull' = [pull EXCEPT ![p] = q]
      /\ UNCHANGED <<acts, cursor, fresh, bus, shown, overlapped, fails>>
  BY DEF LoadCursor, Goes
<1> HIDE DEF q
<1>4. PullOK(q, acts, shown)
  BY <1>1, <1>2 DEF PullOK
<1> QED
  BY <1>2, <1>3, <1>4, CursorsKept, QuietStep DEF CursorInv, TypeOK

LEMMA FetchStep ==
  ASSUME Ascending, CursorInv, NEW p \in Pulls, Fetch(p)
  PROVE  CursorInv'
<1> DEFINE since == pull[p].since
           page == PageOf(since) \cap Answers
           q == [pull[p] EXCEPT !.pc = "distill", !.page = page,
                                !.next = CursorAfter(since)]
<1>0. since \in Nat /\ acts \in Activities /\ Len(acts) \in 0..MaxActs
  BY InHand, PullAssumption
<1>1. Covered(since, acts, shown)
  BY InHand DEF PullOK, Fetch
<1>2. Covered(CursorAfter(since), acts, shown \cup page)
  BY <1>0, <1>1, PageCloses
<1>3. page \in SUBSET Ids /\ page \subseteq AnswersIn(acts)
  BY <1>0, PullAssumption DEF Answers, AnswersIn, Ids
<1>4. CursorAfter(since) \in 0..MaxActs
  BY <1>0, <1>1, PullAssumption DEF CursorAfter, Upper, Lower, Higher, Covered
<1> HIDE DEF page
<1>5. /\ q \in Pull /\ q.pc = "distill" /\ q.since = since
      /\ q.next = CursorAfter(since) /\ q.page = page
  BY <1>3, <1>4, InHand DEF Pull
<1>6. /\ pull' = [pull EXCEPT ![p] = q]
      /\ UNCHANGED <<acts, cursor, fresh, bus, shown, overlapped, fails>>
  BY DEF Fetch, Goes, page
<1> HIDE DEF q, since
<1>7. PullOK(q, acts, shown)
  BY <1>1, <1>2, <1>3, <1>5 DEF PullOK
<1> QED
  BY <1>5, <1>6, <1>7, CursorsKept, QuietStep DEF CursorInv, TypeOK

LEMMA DistillStep ==
  ASSUME CursorInv, NEW p \in Pulls, Distill(p)
  PROVE  CursorInv'
<1> DEFINE page == pull[p].page
           authors == {acts[i] : i \in page}
           at == IF page = {} THEN "save" ELSE "publish"
           q == [pull[p] EXCEPT !.pc = at, !.todo = authors]
<1>1. /\ Covered(pull[p].since, acts, shown) /\ page \subseteq AnswersIn(acts)
      /\ Covered(pull[p].next, acts, shown \cup page)
  BY InHand DEF PullOK, Distill
<1>2. authors \in SUBSET People
  <2>1. \A i \in AnswersIn(acts) : acts[i] \in People
    BY InHand DEF AnswersIn, Activities
  <2> QED
    BY <1>1, <2>1
<1>3. \A i \in page : acts[i] \in authors
  OBVIOUS
<1>4. (at = "save" /\ page = {}) \/ at = "publish"
  OBVIOUS
<1> HIDE DEF authors, at
<1>5. /\ q \in Pull /\ q.pc = at /\ q.since = pull[p].since
      /\ q.next = pull[p].next /\ q.page = page /\ q.todo = authors
  BY <1>2, <1>4, InHand DEF Pull
<1>6. /\ pull' = [pull EXCEPT ![p] = q]
      /\ UNCHANGED <<acts, cursor, fresh, bus, shown, overlapped, fails>>
  BY DEF Distill, Goes, authors, at
<1> HIDE DEF q, page
<1>7. PullOK(q, acts, shown)
  BY <1>1, <1>3, <1>4, <1>5 DEF PullOK
<1> QED
  BY <1>5, <1>6, <1>7, CursorsKept, QuietStep DEF CursorInv, TypeOK

LEMMA PublishStep ==
  ASSUME CursorInv, NEW p \in Pulls, NEW w \in People, Publish(p, w)
  PROVE  CursorInv'
<1> DEFINE r == pull[p]
           at == IF r.todo = {w} THEN "save" ELSE "publish"
           q == [r EXCEPT !.todo = r.todo \ {w}, !.pc = at]
<1>0. /\ acts \in Activities /\ Extends(acts, acts) /\ r.pc = "publish"
      /\ UNCHANGED <<acts, cursor, fresh, overlapped, fails>>
  BY InHand DEF Publish, Goes, Extends, Activities
<1>1. /\ Covered(r.since, acts, shown) /\ r.page \subseteq AnswersIn(acts)
      /\ Covered(r.next, acts, shown \cup r.page)
      /\ \A i \in r.page : acts[i] \in r.todo \/ i \in shown
  BY <1>0, InHand DEF PullOK
<1>2. /\ shown' = shown \cup {i \in r.page : acts[i] = w} /\ shown \subseteq shown'
      /\ bus' = [bus EXCEPT ![w] = {i \in r.page : acts[i] = w}]
  BY DEF Publish, Batch, Of
<1>3. Answers' = Answers /\ Answers = AnswersIn(acts)
  BY <1>0 DEF Answers, AnswersIn
<1>4. /\ q \in Pull /\ q.pc = at /\ q.since = r.since /\ q.next = r.next
      /\ q.page = r.page /\ q.todo = r.todo \ {w}
  BY InHand DEF Pull
<1>5. pull' = [pull EXCEPT ![p] = q]
  BY <1>0 DEF Publish, Goes
<1>6. Covered(q.since, acts, shown') /\ Covered(q.next, acts, shown' \cup q.page)
  BY <1>1, <1>2, <1>4 DEF Covered
<1>7. \A i \in q.page : acts[i] \in q.todo \/ i \in shown'
  BY <1>1, <1>2, <1>4
<1>8. at = "save" => q.page \subseteq shown'
  BY <1>1, <1>2, <1>4
<1> HIDE DEF q
<1>9. PullOK(q, acts, shown')
  BY <1>1, <1>4, <1>6, <1>7, <1>8 DEF PullOK
<1> HIDE DEF at, r
<1>10. pull' \in [Pulls -> Pull] /\ PullsOK'
  <2>1. pull \in [Pulls -> Pull] /\ \A x \in Pulls : PullOK(pull[x], acts, shown)
    BY InHand
  <2>2. q \in Pull /\ acts \in Activities /\ shown \subseteq shown'
    BY <1>0, <1>2, <1>4
  <2>3. /\ [pull EXCEPT ![p] = q] \in [Pulls -> Pull]
        /\ \A x \in Pulls : PullOK([pull EXCEPT ![p] = q][x], acts, shown')
    BY <1>9, <2>1, <2>2, OneMoves
  <2> QED
    BY <1>0, <1>5, <2>3 DEF PullsOK
<1>11. CursorsOK'
  BY <1>0, <1>2 DEF CursorsOK, Covered, CursorInv
<1>12. TypeOK'
  BY <1>0, <1>1, <1>2, <1>3, <1>10 DEF TypeOK, CursorInv
<1> QED
  BY <1>0, <1>10, <1>11, <1>12 DEF CursorInv

LEMMA SaveStep ==
  ASSUME CursorInv, NEW p \in Pulls, Save(p)
  PROVE  CursorInv'
<1> DEFINE r == pull[p]
<1>1. Covered(r.next, acts, shown \cup r.page) /\ r.page \subseteq shown
  BY InHand DEF PullOK, Save
<1>2. Covered(r.next, acts, shown)
  BY <1>1 DEF Covered
<1>3. /\ \/ cursor' = cursor
         \/ cursor' = [cursor EXCEPT ![r.on] = r.next]
      /\ UNCHANGED <<acts, fresh, bus, shown, overlapped, fails>>
      /\ pull' = [pull EXCEPT ![p] = Done(p)]
  BY DEF Save, Goes
<1>4. cursor' \in [Machines -> 0..MaxActs] /\ CursorsOK'
  BY <1>2, <1>3, InHand DEF CursorInv, CursorsOK, TypeOK
<1>5. Done(p) \in Pull /\ PullOK(Done(p), acts, shown)
  BY InHand, StartedOK DEF Done
<1> QED
  BY <1>3, <1>4, <1>5, QuietStep DEF CursorInv, TypeOK

LEMMA FailStep ==
  ASSUME CursorInv, NEW p \in Pulls, Fail(p)
  PROVE  CursorInv'
<1>1. /\ UNCHANGED <<acts, cursor, fresh, bus, shown, overlapped>>
      /\ pull' = [pull EXCEPT ![p] = Done(p)]
  BY DEF Fail, CursorOnError
<1>2. fails' \in 0..MaxFails
  BY PullAssumption DEF Fail, CursorInv, TypeOK
<1>3. Done(p) \in Pull /\ PullOK(Done(p), acts, shown)
  BY InHand, StartedOK DEF Done
<1> QED
  BY <1>1, <1>2, <1>3, CursorsKept, QuietStep DEF CursorInv, TypeOK

LEMMA CursorStep ==
  ASSUME Ascending
  PROVE  CursorInv /\ [Next]_vars => CursorInv'
<1> SUFFICES ASSUME CursorInv, [Next]_vars PROVE CursorInv'
  OBVIOUS
<1>1. ASSUME NEW w \in People \cup {Nobody}, Post(w) PROVE CursorInv'
  BY <1>1, PostStep
<1>2. CASE UNCHANGED <<acts, cursor, pull, bus, shown, overlapped, fails>>
           /\ fresh' \in [Machines -> BOOLEAN]
  BY <1>2 DEF CursorInv, TypeOK, CursorsOK, PullsOK, Answers
<1>3. ASSUME NEW m \in Machines, WindowPasses(m) PROVE CursorInv'
  BY <1>2, <1>3 DEF WindowPasses, CursorInv, TypeOK
<1>4. ASSUME NEW p \in Pulls, NEW m \in Machines, PullHook(p, m) \/ PullNow(p, m)
      PROVE  CursorInv'
  BY <1>4, BeginStep
<1>5. ASSUME NEW p \in Pulls, Step(p) \/ Fail(p) PROVE CursorInv'
  BY <1>5, LoadStep, FetchStep, DistillStep, SaveStep, PublishStep, FailStep DEF Step
<1>6. CASE UNCHANGED vars
  BY <1>2, <1>6 DEF vars, CursorInv, TypeOK
<1> QED
  BY <1>1, <1>3, <1>4, <1>5, <1>6 DEF Next

(* No answer is lost to a failure (pull.go:96-98, linearagent.go:94-96): a *)
(* machine's cursor has passed an answer only once the answer was          *)
(* published, when the service returns the oldest activities first.        *)
THEOREM NoAnswerPassedOver ==
  ASSUME Ascending
  PROVE  Spec => []NonePassedOver
<1>1. CursorInv => NonePassedOver
  BY DEF CursorInv, CursorsOK, Covered, NonePassedOver, Answers, AnswersIn
<1>2. CursorInv /\ [Next]_vars => CursorInv'
  BY CursorStep
<1> QED
  BY <1>1, <1>2, CursorInit, PTL DEF Spec
----------------------------------------------------------------------------
(* One machine, one pull at a time.                                        *)

Busy(p) == pull[p].pc # "idle"
Loaded(p) == pull[p].pc \in {"fetch", "distill", "publish", "save"}
Fetched(p) == pull[p].pc \in {"distill", "publish", "save"}

(* What was shown past the cursor, by a pull that failed, is within a page *)
(* of it, so it is in the page of the next pull; and an author still to    *)
(* publish has an answer on that page.                                     *)
Alone ==
  /\ \A p, q \in Pulls : Busy(p) /\ Busy(q) => p = q
  /\ \A m \in Machines : \A i \in shown : i <= cursor[m] + Page
  /\ \A p \in Pulls : Loaded(p) => pull[p].since = cursor[pull[p].on]
  /\ \A p \in Pulls : Fetched(p) =>
       /\ pull[p].since <= pull[p].next
       /\ \A i \in shown : i <= pull[p].since \/ i \in pull[p].page
       /\ \A j \in pull[p].page : pull[p].since < j /\ j <= pull[p].since + Page
  /\ \A p \in Pulls : pull[p].pc = "publish" =>
       \A w \in pull[p].todo : \E j \in pull[p].page : acts[j] = w
  /\ NewestShown

OneMachine == \A m, n \in Machines : m = n
AloneInv == ~overlapped /\ OneMachine => Alone


LEMMA AloneInit == Init => AloneInv
<1> SUFFICES ASSUME Init PROVE Alone
  BY DEF AloneInv
<1>1. \A p \in Pulls : pull[p].pc = "idle"
  BY DEF Init, Started
<1> QED
  BY <1>1 DEF Init, Alone, Busy, Loaded, Fetched, NewestShown, Of

(* What the invariant says of the answers shown and of a pull in hand.     *)
LEMMA AloneFacts ==
  ASSUME CursorInv
  PROVE  /\ shown \subseteq AnswersIn(acts) /\ Len(acts) \in Nat /\ Page \in Nat
         /\ \A m \in Machines : cursor[m] \in Nat
         /\ \A p \in Pulls : /\ pull[p] \in Pull /\ pull[p].on \in Machines
                             /\ pull[p].since \in Nat /\ pull[p].next \in Nat
                             /\ Fetched(p) => pull[p].page \subseteq AnswersIn(acts)
<1>1. shown \subseteq AnswersIn(acts) /\ Len(acts) \in Nat
  BY DEF CursorInv, TypeOK, Answers, AnswersIn
<1>2. Page \in Nat /\ \A m \in Machines : cursor[m] \in Nat
  BY PullAssumption DEF CursorInv, TypeOK
<1>3. ASSUME NEW p \in Pulls
      PROVE  /\ pull[p] \in Pull /\ pull[p].on \in Machines
             /\ pull[p].since \in Nat /\ pull[p].next \in Nat
             /\ Fetched(p) => pull[p].page \subseteq AnswersIn(acts)
  <2>1. /\ pull[p] \in Pull /\ pull[p].on \in Machines /\ PullOK(pull[p], acts, shown)
        /\ pull[p].since \in 0..MaxActs /\ pull[p].next \in 0..MaxActs
    BY InHand
  <2>2. Fetched(p) => pull[p].page \subseteq AnswersIn(acts)
    BY <2>1 DEF Fetched, PullOK
  <2> QED
    BY <2>1, <2>2, PullAssumption
<1> QED
  BY <1>1, <1>2, <1>3

LEMMA AlonePost ==
  ASSUME CursorInv, Alone, NEW w \in People \cup {Nobody}, Post(w)
  PROVE  Alone'
<1>1. acts \in Activities
  BY DEF CursorInv, TypeOK, Activities
<1>2. \A i \in AnswersIn(acts) : acts'[i] = acts[i]
  BY <1>1 DEF Post, Activities, AnswersIn
<1>3. UNCHANGED <<cursor, pull, bus, shown>>
  BY DEF Post
<1>4. NewestShown'
  BY <1>2, <1>3, AloneFacts DEF Alone, NewestShown, Of
<1>5. \A p \in Pulls : pull[p].pc = "publish" =>
        \A v \in pull[p].todo : \E j \in pull[p].page : acts'[j] = v
  BY <1>2, AloneFacts DEF Alone, Fetched
<1> QED
  BY <1>3, <1>4, <1>5 DEF Alone, Busy, Loaded, Fetched

(* A pull that begins or ends, or has still to load the cursor.            *)
LEMMA AloneIdle ==
  ASSUME CursorInv, Alone, NEW p \in Pulls,
         UNCHANGED <<acts, bus, shown>>, ~Loaded(p)',
         \A q \in Pulls \ {p} : pull'[q] = pull[q],
         Busy(p)' => \A q \in Pulls \ {p} : ~Busy(q),
         \A m \in Machines : cursor'[m] \in Nat /\ cursor'[m] >= cursor[m],
         cursor' = cursor \/ \A q \in Pulls \ {p} : ~Busy(q)
  PROVE  Alone'
<1>1. ASSUME NEW q \in Pulls, Loaded(q)'
      PROVE  q # p /\ pull'[q] = pull[q] /\ Loaded(q) /\ Busy(q) /\ cursor' = cursor
  BY <1>1 DEF Loaded, Busy
<1>2. \A m \in Machines : \A i \in shown' : i <= cursor'[m] + Page
  <2>1. SUFFICES ASSUME NEW m \in Machines, NEW i \in shown PROVE i <= cursor'[m] + Page
    OBVIOUS
  <2>2. i \in Nat /\ i <= cursor[m] + Page /\ cursor[m] \in Nat /\ Page \in Nat
    BY <2>1, AloneFacts DEF Alone, AnswersIn
  <2> QED
    BY <2>2
<1>3. \A q, r \in Pulls : Busy(q)' /\ Busy(r)' => q = r
  <2>1. \A q \in Pulls : q # p /\ Busy(q)' => Busy(q)
    BY DEF Busy
  <2> QED
    BY <2>1 DEF Alone
<1>4. NewestShown'
  BY DEF Alone, NewestShown, Of
<1>5. \A q \in Pulls : Loaded(q)' => pull'[q].since = cursor'[pull'[q].on]
  BY <1>1 DEF Alone
<1>6. \A q \in Pulls : Fetched(q)' =>
       /\ pull'[q].since <= pull'[q].next
       /\ \A i \in shown' : i <= pull'[q].since \/ i \in pull'[q].page
       /\ \A j \in pull'[q].page : pull'[q].since < j /\ j <= pull'[q].since + Page
  BY <1>1 DEF Alone, Fetched, Loaded
<1>7. \A q \in Pulls : pull'[q].pc = "publish" =>
       \A w \in pull'[q].todo : \E j \in pull'[q].page : acts'[j] = w
  BY <1>1 DEF Alone, Loaded
<1> QED
  BY <1>2, <1>3, <1>4, <1>5, <1>6, <1>7 DEF Alone

(* The one pull in hand goes on: the others are idle.                      *)
LEMMA AloneMoves ==
  ASSUME CursorInv, Alone, NEW p \in Pulls, Busy(p), UNCHANGED <<acts, cursor>>,
         \A q \in Pulls \ {p} : pull'[q] = pull[q],
         \A m \in Machines : \A i \in shown' : i <= cursor[m] + Page,
         Loaded(p)' => pull'[p].since = cursor[pull'[p].on],
         Fetched(p)' =>
           /\ pull'[p].since <= pull'[p].next
           /\ \A i \in shown' : i <= pull'[p].since \/ i \in pull'[p].page
           /\ \A j \in pull'[p].page : pull'[p].since < j /\ j <= pull'[p].since + Page,
         pull'[p].pc = "publish" => \A w \in pull'[p].todo : \E j \in pull'[p].page : acts[j] = w,
         NewestShown'
  PROVE  Alone'
<1>1. \A q \in Pulls \ {p} : ~Busy(q)'
  BY DEF Alone, Busy
<1>2. \A q \in Pulls : Busy(q)' => q = p
  BY <1>1
<1>3. \A q \in Pulls : Loaded(q)' \/ Fetched(q)' \/ pull'[q].pc = "publish" => q = p
  BY <1>1 DEF Loaded, Fetched, Busy
<1> QED
  BY <1>2, <1>3 DEF Alone

LEMMA AloneStep ==
  ASSUME Ascending, CursorInv, CursorInv', AloneInv, OneMachine, ~overlapped', [Next]_vars
  PROVE  Alone'
<1>0. Alone
  <2>1. ~overlapped
    BY Zenon DEF Next, Post, WindowPasses, PullHook, PullNow, Begin, Step, LoadCursor, Fetch,
             Distill, Publish, Save, Fail, Goes, vars
  <2> QED
    BY <2>1 DEF AloneInv
<1>1. ASSUME NEW w \in People \cup {Nobody}, Post(w) PROVE Alone'
  BY <1>0, <1>1, AlonePost
<1>2. CASE UNCHANGED <<acts, cursor, pull, bus, shown>>
  BY <1>0, <1>2 DEF Alone, Busy, Loaded, Fetched, NewestShown, Of
<1>3. ASSUME NEW p \in Pulls, NEW m \in Machines, PullHook(p, m) \/ PullNow(p, m)
      PROVE  Alone'
  <2>1. Begin(p, m)
    BY <1>3 DEF PullHook, PullNow
  <2>2. /\ pull' = [pull EXCEPT ![p] = Started("load", m)]
        /\ \A q \in Pulls : ~Busy(q)
        /\ UNCHANGED <<acts, cursor, bus, shown>>
    BY <2>1 DEF Begin, Busy
  <2>3. pull'[p].pc = "load" /\ \A q \in Pulls \ {p} : pull'[q] = pull[q]
    BY <2>2 DEF CursorInv, TypeOK, Started
  <2>4. \A n \in Machines : cursor'[n] \in Nat /\ cursor'[n] >= cursor[n]
    BY <2>2, AloneFacts
  <2>5. ~Loaded(p)'
    BY <2>3 DEF Loaded
  <2> QED
    BY <1>0, <2>2, <2>3, <2>4, <2>5, AloneIdle
<1>4. ASSUME NEW p \in Pulls, Save(p) \/ Fail(p)
      PROVE  Alone'
  <2>1. /\ pull' = [pull EXCEPT ![p] = Done(p)] /\ UNCHANGED <<acts, bus, shown>> /\ Busy(p)
    BY <1>4 DEF Save, Fail, Goes, Busy
  <2>2. pull'[p].pc = "idle" /\ \A q \in Pulls \ {p} : pull'[q] = pull[q]
    BY <2>1 DEF CursorInv, TypeOK, Done, Started
  <2>3. \A q \in Pulls \ {p} : ~Busy(q)
    BY <1>0, <2>1 DEF Alone
  <2>4. ASSUME NEW n \in Machines PROVE cursor'[n] \in Nat /\ cursor'[n] >= cursor[n]
    <3>1. CASE cursor' = cursor
      BY <3>1, AloneFacts
    <3>2. CASE Save(p) /\ cursor' = [cursor EXCEPT ![pull[p].on] = pull[p].next]
      <4>1. /\ pull[p].since = cursor[pull[p].on] /\ pull[p].since <= pull[p].next
            /\ pull[p].next \in Nat
        BY <1>0, <3>2, AloneFacts DEF Alone, Save, Loaded, Fetched
      <4>2. cursor \in [Machines -> 0..MaxActs]
        BY DEF CursorInv, TypeOK
      <4>3. n # pull[p].on => cursor'[n] = cursor[n]
        BY <3>2, <4>2
      <4>4. n = pull[p].on => cursor'[n] = pull[p].next
        BY <3>2, <4>2
      <4> QED
        BY <4>1, <4>3, <4>4, AloneFacts
    <3> QED
      BY <1>4, <3>1, <3>2 DEF Save, Fail, CursorOnError
  <2>5. ~Loaded(p)' /\ ~Busy(p)'
    BY <2>2 DEF Loaded, Busy
  <2> QED
    BY <1>0, <2>1, <2>2, <2>3, <2>4, <2>5, AloneIdle
<1>5. ASSUME NEW p \in Pulls, LoadCursor(p) PROVE Alone'
  <2>1. /\ UNCHANGED <<acts, cursor, bus, shown>> /\ Busy(p)
        /\ pull' = [pull EXCEPT ![p] = [pull[p] EXCEPT !.pc = "fetch", !.since = cursor[pull[p].on]]]
    BY <1>5 DEF LoadCursor, Goes, Busy
  <2>2. /\ pull'[p].pc = "fetch" /\ pull'[p].since = cursor[pull[p].on] /\ pull'[p].on = pull[p].on
        /\ \A q \in Pulls \ {p} : pull'[q] = pull[q]
    BY <2>1, InHand DEF Pull
  <2>3. NewestShown'
    BY <1>0, <2>1 DEF Alone, NewestShown, Of
  <2>4. ~Fetched(p)' /\ pull'[p].pc # "publish"
    BY <2>2 DEF Fetched
  <2>5. \A m \in Machines : \A i \in shown' : i <= cursor[m] + Page
    BY <1>0, <2>1 DEF Alone
  <2> QED
    BY <1>0, <2>1, <2>2, <2>3, <2>4, <2>5, AloneMoves
<1>6. ASSUME NEW p \in Pulls, Fetch(p) PROVE Alone'
  <2> DEFINE since == pull[p].since
             page == PageOf(since) \cap Answers
  <2>1. /\ UNCHANGED <<acts, cursor, bus, shown>> /\ Busy(p) /\ Loaded(p)
        /\ pull' = [pull EXCEPT ![p] = [pull[p] EXCEPT !.pc = "distill", !.page = page,
                                                       !.next = CursorAfter(since)]]
    BY <1>6 DEF Fetch, Goes, Busy, Loaded
  <2>2. since \in Nat /\ since = cursor[pull[p].on] /\ pull[p].on \in Machines
    BY <1>0, <2>1, AloneFacts DEF Alone
  <2> HIDE DEF since
  <2>3. PageOf(since) = (since + 1)..Lower(Len(acts), since + Page)
    BY DEF PageOf
  <2>4. Len(acts) \in Nat /\ Page \in Nat
    BY AloneFacts
  <2>5. \A j \in page : since < j /\ j <= since + Page
    BY <2>2, <2>3, <2>4 DEF Lower
  <2>6. \A i \in shown : i <= since \/ i \in page
    <3>1. SUFFICES ASSUME NEW i \in shown, ~(i <= since) PROVE i \in page
      OBVIOUS
    <3>2. i \in Nat /\ i <= since + Page /\ i <= Len(acts) /\ i \in Answers
      BY <1>0, <2>2, <3>1, AloneFacts DEF Alone, AnswersIn, Answers
    <3> QED
      BY <2>2, <2>3, <2>4, <3>1, <3>2 DEF Lower
  <2>7. since <= CursorAfter(since)
    BY <2>2, <2>4 DEF CursorAfter, Upper, Lower, Higher
  <2> HIDE DEF page
  <2>8. /\ pull'[p].pc = "distill" /\ pull'[p].since = since /\ pull'[p].on = pull[p].on
        /\ pull'[p].page = page /\ pull'[p].next = CursorAfter(since)
        /\ \A q \in Pulls \ {p} : pull'[q] = pull[q]
    BY <2>1, InHand DEF Pull, since
  <2>9. NewestShown'
    BY <1>0, <2>1 DEF Alone, NewestShown, Of
  <2>10. \A m \in Machines : \A i \in shown' : i <= cursor[m] + Page
    BY <1>0, <2>1 DEF Alone
  <2> QED
    BY <1>0, <2>1, <2>2, <2>5, <2>6, <2>7, <2>8, <2>9, <2>10, AloneMoves
<1>7. ASSUME NEW p \in Pulls, Distill(p) PROVE Alone'
  <2> DEFINE page == pull[p].page
             at == IF page = {} THEN "save" ELSE "publish"
  <2>1. /\ UNCHANGED <<acts, cursor, bus, shown>> /\ Busy(p) /\ Loaded(p) /\ Fetched(p)
        /\ pull' = [pull EXCEPT ![p] = [pull[p] EXCEPT !.pc = at, !.todo = {acts[i] : i \in page}]]
    BY <1>7 DEF Distill, Goes, Busy, Loaded, Fetched
  <2> HIDE DEF page, at
  <2>2. /\ pull'[p].since = pull[p].since /\ pull'[p].on = pull[p].on
        /\ pull'[p].page = pull[p].page /\ pull'[p].next = pull[p].next
        /\ pull'[p].todo = {acts[i] : i \in page}
        /\ \A q \in Pulls \ {p} : pull'[q] = pull[q]
    BY <2>1, InHand DEF Pull
  <2>3. \A w \in pull'[p].todo : \E j \in pull'[p].page : acts[j] = w
    BY <2>2 DEF page
  <2>4. NewestShown'
    BY <1>0, <2>1 DEF Alone, NewestShown, Of
  <2>5. \A m \in Machines : \A i \in shown' : i <= cursor[m] + Page
    BY <1>0, <2>1 DEF Alone
  <2>6. /\ pull[p].since = cursor[pull[p].on] /\ pull[p].since <= pull[p].next
        /\ \A i \in shown : i <= pull[p].since \/ i \in pull[p].page
        /\ \A j \in pull[p].page : pull[p].since < j /\ j <= pull[p].since + Page
    BY <1>0, <2>1 DEF Alone
  <2> QED
    BY <1>0, <2>1, <2>2, <2>3, <2>4, <2>5, <2>6, AloneMoves
<1>8. ASSUME NEW p \in Pulls, NEW w \in People, Publish(p, w) PROVE Alone'
  <2> DEFINE page == pull[p].page
             at == IF pull[p].todo = {w} THEN "save" ELSE pull[p].pc
  <2>1. /\ UNCHANGED <<acts, cursor>> /\ Busy(p) /\ Loaded(p) /\ Fetched(p)
        /\ pull[p].pc = "publish" /\ w \in pull[p].todo
        /\ pull' = [pull EXCEPT ![p] = [pull[p] EXCEPT !.todo = pull[p].todo \ {w}, !.pc = at]]
        /\ bus' = [bus EXCEPT ![w] = Of(w, page)] /\ shown' = shown \cup Of(w, page)
    BY <1>8 DEF Publish, Batch, Goes, Busy, Loaded, Fetched
  <2> HIDE DEF page, at
  <2>2. /\ pull'[p].since = pull[p].since /\ pull'[p].on = pull[p].on
        /\ pull'[p].page = pull[p].page /\ pull'[p].next = pull[p].next
        /\ pull'[p].todo = pull[p].todo \ {w}
        /\ \A q \in Pulls \ {p} : pull'[q] = pull[q]
    BY <2>1, InHand DEF Pull
  <2>3. /\ pull[p].since = cursor[pull[p].on] /\ pull[p].since <= pull[p].next
        /\ \A i \in shown : i <= pull[p].since \/ i \in page
        /\ \A j \in page : pull[p].since < j /\ j <= pull[p].since + Page
        /\ \A v \in pull[p].todo : \E j \in page : acts[j] = v
    BY <1>0, <2>1 DEF Alone, page
  <2>4. \A i \in shown' : i <= pull[p].since \/ i \in page
    BY <2>1, <2>3 DEF Of
  <2>5. \A m \in Machines : m = pull[p].on
    BY AloneFacts DEF OneMachine
  <2>6. \A m \in Machines : \A i \in shown' : i <= cursor[m] + Page
    BY <1>0, <2>1, <2>3, <2>5 DEF Alone, Of
  <2>7. page \subseteq AnswersIn(acts) /\ shown \subseteq AnswersIn(acts) /\ pull[p].since \in Nat
    BY <2>1, AloneFacts DEF page
  <2>8. NewestShown'
    <3>1. SUFFICES ASSUME NEW v \in People, NEW i \in shown', acts[i] = v
                   PROVE  i \in bus'[v] \/ \E j \in bus'[v] : j > i
      BY <2>1 DEF NewestShown, Of
    <3>2. CASE v = w
      <4>1. bus'[v] = Of(w, page)
        BY <2>1, <3>2 DEF CursorInv, TypeOK
      <4>2. CASE i \in page
        BY <3>1, <3>2, <4>1, <4>2 DEF Of
      <4>3. CASE i \notin page
        <5>1. i <= pull[p].since /\ i \in Nat
          BY <2>1, <2>3, <2>7, <3>1, <4>3 DEF Of, AnswersIn
        <5>2. PICK j \in page : acts[j] = w
          BY <2>1, <2>3
        <5>3. j \in Nat /\ pull[p].since < j
          BY <2>3, <2>7 DEF AnswersIn
        <5>4. j > i
          BY <2>7, <5>1, <5>3
        <5>5. j \in Of(w, page)
          BY <5>2 DEF Of
        <5> QED
          BY <4>1, <5>4, <5>5
      <4> QED
        BY <4>2, <4>3
    <3>3. CASE v # w
      <4>1. bus'[v] = bus[v] /\ i \in Of(v, shown)
        BY <2>1, <3>1, <3>3 DEF CursorInv, TypeOK, Of
      <4> QED
        BY <1>0, <4>1 DEF Alone, NewestShown
    <3> QED
      BY <3>2, <3>3
  <2>9. Fetched(p)' =>
           /\ pull'[p].since <= pull'[p].next
           /\ \A i \in shown' : i <= pull'[p].since \/ i \in pull'[p].page
           /\ \A j \in pull'[p].page : pull'[p].since < j /\ j <= pull'[p].since + Page
    BY <2>2, <2>3, <2>4 DEF page
  <2>10. \A v \in pull'[p].todo : \E j \in pull'[p].page : acts[j] = v
    BY <2>2, <2>3 DEF page
  <2> QED
    BY <1>0, <2>1, <2>2, <2>3, <2>6, <2>8, <2>9, <2>10, AloneMoves
<1>9. ASSUME NEW m \in Machines, WindowPasses(m) PROVE Alone'
  BY <1>2, <1>9 DEF WindowPasses
<1>10. CASE UNCHANGED vars
  BY <1>2, <1>10 DEF vars
<1> QED
  BY <1>1, <1>3, <1>4, <1>5, <1>6, <1>7, <1>8, <1>9, <1>10 DEF Next, Step

(* pull.go:100-102: on one machine, while pulls do not overlap, the newest *)
(* answer of a teammate ever published is in their envelope or has given   *)
(* way to a newer one, through pulls that fail half way.                   *)
THEOREM NewestStands ==
  ASSUME Ascending
  PROVE  Spec => []NewestShownAlone
<1>1. CursorInv /\ AloneInv => NewestShownAlone
  BY DEF CursorInv, AloneInv, OneMachine, Alone, NewestShownAlone
<1>2. CursorInv /\ [Next]_vars => CursorInv'
  BY CursorStep
<1>3. CursorInv /\ CursorInv' /\ AloneInv /\ [Next]_vars => AloneInv'
  BY AloneStep DEF AloneInv, OneMachine
<1> QED
  BY <1>1, <1>2, <1>3, CursorInit, AloneInit, PTL DEF Spec
=============================================================================
