------------------------ MODULE TangleStores_proofs ------------------------
(***************************************************************************)
(* Proofs about TangleStores, for any keys, subjects and number of         *)
(* concurrent calls, kills and failed posts.                               *)
(***************************************************************************)
EXTENDS TangleStores, TLAPS

(* What may be in each store: keys a person gave that verdict on, and keys *)
(* that were posted.                                                       *)
Grounds ==
  [st \in Stores |-> IF st = "escalated" THEN {k \in Keys : posts[k] > 0}
                     ELSE given[st]]

EditsOK(c, G) == \A i \in DOMAIN c.edits : c.edits[i].add \subseteq G[c.edits[i].store]
Raising(c) == \E k \in Keys : c.edits = <<Adds("escalated", k)>>

(* What a call in progress holds is grounded: the edits it will make, the  *)
(* set it will save, and what `ettle escalate` loaded and posted so far.   *)
CallOK(c, G) ==
  /\ IF c.pc = "raise" THEN Raising(c) ELSE EditsOK(c, G)
  /\ c.pc \in {"load", "save", "write", "post"} => c.edits # <<>>
  /\ c.pc \in {"save", "write"} => c.set \subseteq G[c.edits[1].store]
  /\ c.pc = "emitted" => c.edits = <<>> /\ c.posted = {}
  /\ (c.pc \in {"mutes", "post"} /\ c.edits # <<>>) =>
       /\ c.edits[1].store = "escalated"
       /\ c.set \subseteq G["escalated"]
       /\ c.posted \subseteq G["escalated"]

CallsOK == \A p \in Procs : CallOK(call[p], Grounds)

(* Inductive: StoresGrounded strengthened with what the calls hold.        *)
GroundInv == TypeOK /\ StoresGrounded /\ CallsOK

Pcs == {"idle", "load", "save", "write", "raise", "emitted", "mutes", "post", "show"}
Grounding == [Stores -> SUBSET Keys]
Below(G, H) == \A st \in Stores : G[st] \subseteq H[st]

----------------------------------------------------------------------------
(* Calls and their edits.                                                  *)

LEMMA AddsEdit ==
  ASSUME NEW st \in Stores, NEW k \in Keys
  PROVE  Adds(st, k) \in Edit /\ Adds(st, k).store = st /\ Adds(st, k).add = {k}
BY DEF Adds, Edit

LEMMA DropsEdit ==
  ASSUME NEW st \in Stores, NEW D \in SUBSET Keys
  PROVE  Drops(st, D) \in Edit /\ Drops(st, D).store = st /\ Drops(st, D).add = {}
BY DEF Drops, Edit

LEMMA NewCallType ==
  ASSUME NEW at \in Pcs, NEW edits \in Seq(Edit), NEW T \in SUBSET Tangles
  PROVE  /\ NewCall(at, edits, T) \in Call
         /\ NewCall(at, edits, T).pc = at
         /\ NewCall(at, edits, T).edits = edits
         /\ NewCall(at, edits, T).posted = {}
BY DEF NewCall, Call, Pcs

LEMMA NoCallOK ==
  ASSUME NEW G \in Grounding
  PROVE  NoCall \in Call /\ CallOK(NoCall, G)
<1>1. <<>> \in Seq(Edit) /\ "idle" \in Pcs /\ {} \in SUBSET Tangles
  BY DEF Pcs
<1>2. NoCall \in Call
  BY <1>1, NewCallType, Zenon DEF NoCall
<1>3. NoCall.pc = "idle" /\ NoCall.edits = <<>>
  BY DEF NoCall, NewCall
<1>4. \A i \in DOMAIN NoCall.edits : FALSE
  BY <1>3
<1>5. EditsOK(NoCall, G)
  BY <1>4 DEF EditsOK
<1> QED
  BY <1>2, <1>3, <1>5 DEF CallOK

(* A call that starts with the edits of a verdict, or with none.           *)
LEMMA StartsOK ==
  ASSUME NEW G \in Grounding, NEW at \in {"load", "mutes", "emitted"},
         NEW edits \in Seq(Edit), NEW T \in SUBSET Tangles,
         at = "load" => edits # <<>>,
         at # "load" => edits = <<>>,
         \A i \in DOMAIN edits : edits[i].add \subseteq G[edits[i].store]
  PROVE  NewCall(at, edits, T) \in Call /\ CallOK(NewCall(at, edits, T), G)
<1> DEFINE c == NewCall(at, edits, T)
<1>1. c \in Call /\ c.pc = at /\ c.edits = edits /\ c.posted = {}
  BY NewCallType DEF Pcs
<1> HIDE DEF c
<1>2. EditsOK(c, G)
  BY <1>1 DEF EditsOK
<1>3. CallOK(c, G)
  BY <1>1, <1>2 DEF CallOK
<1> QED
  BY <1>1, <1>3 DEF c

(* Grounds only grow, so what a call in hand relies on stays true.         *)
LEMMA CallStable ==
  ASSUME NEW c \in Call, NEW G \in Grounding, NEW H \in Grounding,
         Below(G, H), CallOK(c, G)
  PROVE  CallOK(c, H)
<1>1. c.edits \in Seq(Edit) /\ c.set \in SUBSET Keys /\ c.posted \in SUBSET Keys
  BY DEF Call
<1>2. \A i \in DOMAIN c.edits : c.edits[i].store \in Stores
  <2>1. \A i \in DOMAIN c.edits : c.edits[i] \in Edit
    BY <1>1
  <2>2. \A e \in Edit : e.store \in Stores
    BY DEF Edit
  <2> QED
    BY <2>1, <2>2
<1>3. c.edits # <<>> => c.edits[1].store \in Stores
  BY <1>1, <1>2
<1>4. EditsOK(c, G) => EditsOK(c, H)
  BY <1>2 DEF EditsOK, Below
<1> QED
  BY <1>3, <1>4 DEF CallOK, Below, Stores

(* One call moves on and the others stay as they are.                      *)
LEMMA OneMoves ==
  ASSUME NEW K \in [Procs -> Call], NEW p \in Procs, NEW c \in Call,
         NEW G \in Grounding, NEW H \in Grounding, Below(G, H),
         \A q \in Procs : CallOK(K[q], G), CallOK(c, H)
  PROVE  /\ [K EXCEPT ![p] = c] \in [Procs -> Call]
         /\ \A q \in Procs : CallOK([K EXCEPT ![p] = c][q], H)
<1>1. ASSUME NEW q \in Procs, q # p PROVE CallOK(K[q], H)
  BY CallStable
<1> QED
  BY <1>1

(* Verdicts and posts are never taken back.                                *)
LEMMA GroundsGrow ==
  ASSUME TypeOK, given' \in [Stores -> SUBSET Keys], posts' \in [Keys -> 0..MaxPosts],
         \A st \in Stores : given[st] \subseteq given'[st],
         \A k \in Keys : posts[k] <= posts'[k]
  PROVE  Grounds \in Grounding /\ Grounds' \in Grounding /\ Below(Grounds, Grounds')
<1> USE StoresAssumption
<1>1. \A k \in Keys : posts[k] \in Nat /\ posts'[k] \in Nat
  BY DEF TypeOK
<1>2. {k \in Keys : posts[k] > 0} \subseteq {k \in Keys : posts'[k] > 0}
  BY <1>1
<1>3. Grounds \in Grounding /\ Grounds' \in Grounding
  BY DEF Grounds, Grounding, TypeOK
<1>4. Below(Grounds, Grounds')
  BY <1>2 DEF Grounds, Below
<1> QED
  BY <1>3, <1>4

LEMMA CallMoves ==
  ASSUME TypeOK, CallsOK, NEW p \in Procs, NEW c \in Call,
         call' = [call EXCEPT ![p] = c],
         given' \in [Stores -> SUBSET Keys], posts' \in [Keys -> 0..MaxPosts],
         \A st \in Stores : given[st] \subseteq given'[st],
         \A k \in Keys : posts[k] <= posts'[k],
         CallOK(c, Grounds')
  PROVE  call' \in [Procs -> Call] /\ CallsOK'
<1>1. Grounds \in Grounding /\ Grounds' \in Grounding /\ Below(Grounds, Grounds')
  BY GroundsGrow
<1>2. call \in [Procs -> Call]
  BY DEF TypeOK
<1>3. \A q \in Procs : CallOK(call[q], Grounds)
  BY DEF CallsOK
<1>4. \A q \in Procs : CallOK(call'[q], Grounds')
  BY <1>1, <1>2, <1>3, OneMoves
<1> QED
  BY <1>1, <1>2, <1>3, <1>4, OneMoves DEF CallsOK

(* The files: a step that leaves them, or that grows what grounds them.    *)
LEMMA FilesKept ==
  ASSUME TypeOK, StoresGrounded, UNCHANGED stores,
         given' \in [Stores -> SUBSET Keys], posts' \in [Keys -> 0..MaxPosts],
         \A st \in Stores : given[st] \subseteq given'[st],
         \A k \in Keys : posts[k] <= posts'[k]
  PROVE  StoresGrounded'
<1>1. \A k \in Keys : posts[k] \in Nat /\ posts'[k] \in Nat
  BY StoresAssumption DEF TypeOK
<1>2. file' = file /\ file["escalated"] \subseteq Keys
  BY DEF stores, TypeOK, Stores
<1>3. \A k \in file["escalated"] : posts'[k] > 0
  BY <1>1, <1>2 DEF StoresGrounded
<1> QED
  BY <1>2, <1>3 DEF StoresGrounded, Stores

LEMMA StandStill ==
  ASSUME TypeOK
  PROVE  /\ given \in [Stores -> SUBSET Keys] /\ posts \in [Keys -> 0..MaxPosts]
         /\ \A st \in Stores : given[st] \subseteq given[st]
         /\ \A k \in Keys : posts[k] <= posts[k]
BY StoresAssumption DEF TypeOK

----------------------------------------------------------------------------
(* Calls start.                                                            *)

LEMMA BeginStep ==
  ASSUME GroundInv, NEW p \in Procs, NEW c \in Call, Begin(p, c),
         given' \in [Stores -> SUBSET Keys], standing' \in [Stores -> SUBSET Keys],
         \A st \in Stores : given[st] \subseteq given'[st],
         CallOK(c, Grounds')
  PROVE  GroundInv'
<1> USE StoresAssumption DEF GroundInv
<1>1. UNCHANGED <<stores, view, posts, reposted, defied, faults, accidents>>
  BY DEF Begin
<1>2. posts' \in [Keys -> 0..MaxPosts] /\ \A k \in Keys : posts[k] <= posts'[k]
  BY <1>1 DEF TypeOK
<1>3. call' \in [Procs -> Call] /\ CallsOK'
  BY <1>2, CallMoves DEF Begin
<1>4. StoresGrounded'
  BY <1>1, <1>2, FilesKept
<1>5. overlapped' \in BOOLEAN
  BY Zenon DEF Begin
<1>6. calls' \in 0..MaxCalls
  BY DEF Begin, TypeOK
<1>7. TypeOK'
  BY <1>1, <1>2, <1>3, <1>5, <1>6 DEF TypeOK, stores
<1> QED
  BY <1>3, <1>4, <1>7

LEMMA StartsStep ==
  ASSUME GroundInv, NEW p \in Procs, Starts(p)
  PROVE  GroundInv'
<1> USE StoresAssumption DEF GroundInv
<1>0. given \in [Stores -> SUBSET Keys] /\ standing \in [Stores -> SUBSET Keys]
  BY DEF TypeOK
<1>g. ASSUME given' \in [Stores -> SUBSET Keys], UNCHANGED posts,
             \A st \in Stores : given[st] \subseteq given'[st]
      PROVE  Grounds' \in Grounding
  BY <1>g, StandStill, GroundsGrow
<1>1. ASSUME NEW k \in Keys, NEW st \in {"muted", "confirmed"}, Judge(p, st, k)
      PROVE  GroundInv'
  <2> DEFINE edits == <<Adds(st, k)>>
  <2>1. st \in Stores
    BY DEF Stores
  <2>2. /\ given' \in [Stores -> SUBSET Keys] /\ standing' \in [Stores -> SUBSET Keys]
        /\ \A s \in Stores : given[s] \subseteq given'[s]
        /\ k \in given'[st]
    BY <1>0, <1>1, <2>1 DEF Judge
  <2>3. Grounds' \in Grounding /\ k \in Grounds'[st]
    BY <1>1, <1>g, <2>1, <2>2 DEF Judge, Begin, Grounds
  <2>4. edits \in Seq(Edit) /\ edits # <<>> /\ DOMAIN edits = 1..1
    BY <2>1, AddsEdit
  <2>5. edits[1].add = {k} /\ edits[1].store = st
    BY <2>1, AddsEdit
  <2> HIDE DEF edits
  <2>6. \A i \in DOMAIN edits : edits[i].add \subseteq Grounds'[edits[i].store]
    BY <2>3, <2>4, <2>5
  <2>7. NewCall("load", edits, {}) \in Call /\ CallOK(NewCall("load", edits, {}), Grounds')
    BY <2>3, <2>4, <2>6, StartsOK
  <2> QED
    BY <1>1, <2>2, <2>7, BeginStep DEF Judge, edits
<1>2. ASSUME NEW st \in {"muted", "confirmed"}, NEW D \in SUBSET Keys, Withdraw(p, st, D)
      PROVE  GroundInv'
  <2> DEFINE edits == <<Drops(st, D)>>
  <2>1. st \in Stores
    BY DEF Stores
  <2>2. standing' \in [Stores -> SUBSET Keys] /\ given' = given
    BY <1>0, <1>2, <2>1 DEF Withdraw
  <2>3. Grounds' \in Grounding
    BY <1>0, <1>2, <1>g, <2>2 DEF Withdraw, Begin
  <2>4. edits \in Seq(Edit) /\ edits # <<>> /\ DOMAIN edits = 1..1
    BY <2>1, DropsEdit
  <2>5. edits[1].add = {}
    BY <2>1, DropsEdit
  <2> HIDE DEF edits
  <2>6. \A i \in DOMAIN edits : edits[i].add \subseteq Grounds'[edits[i].store]
    BY <2>4, <2>5
  <2>7. NewCall("load", edits, {}) \in Call /\ CallOK(NewCall("load", edits, {}), Grounds')
    BY <2>3, <2>4, <2>6, StartsOK
  <2> QED
    BY <1>0, <1>2, <2>2, <2>7, BeginStep DEF Withdraw, edits
<1>3. ASSUME NEW k \in Keys, RespondClear(p, k)
      PROVE  GroundInv'
  <2> DEFINE edits == <<Drops("muted", {k}), Drops("confirmed", {k})>>
  <2>2. standing' \in [Stores -> SUBSET Keys] /\ given' = given
    BY <1>0, <1>3 DEF RespondClear
  <2>3. Grounds' \in Grounding
    BY <1>0, <1>3, <1>g, <2>2 DEF RespondClear, Begin
  <2>4. edits \in Seq(Edit) /\ edits # <<>> /\ DOMAIN edits = 1..2
    BY DropsEdit DEF Stores
  <2>5. edits[1].add = {} /\ edits[2].add = {}
    BY DropsEdit DEF Stores
  <2> HIDE DEF edits
  <2>6. \A i \in DOMAIN edits : edits[i].add \subseteq Grounds'[edits[i].store]
    BY <2>4, <2>5
  <2>7. NewCall("load", edits, {}) \in Call /\ CallOK(NewCall("load", edits, {}), Grounds')
    BY <2>3, <2>4, <2>6, StartsOK
  <2> QED
    BY <1>0, <1>3, <2>2, <2>7, BeginStep DEF RespondClear, edits
<1>4. ASSUME NEW T \in SUBSET Tangles, NEW at \in {"mutes", "emitted"},
             Begin(p, NewCall(at, <<>>, T)), UNCHANGED <<given, standing>>
      PROVE  GroundInv'
  <2>1. Grounds' \in Grounding
    BY <1>0, <1>4, <1>g DEF Begin
  <2>2. <<>> \in Seq(Edit) /\ \A i \in DOMAIN <<>> : FALSE
    OBVIOUS
  <2>3. NewCall(at, <<>>, T) \in Call /\ CallOK(NewCall(at, <<>>, T), Grounds')
    BY <2>1, <2>2, StartsOK
  <2> QED
    BY <1>0, <1>4, <2>3, BeginStep
<1>5. ASSUME NEW k \in Keys, Raise(p, k)
      PROVE  GroundInv'
  <2> DEFINE c == NewCall("raise", <<Adds("escalated", k)>>, {})
  <2>1. <<Adds("escalated", k)>> \in Seq(Edit) /\ "raise" \in Pcs
    BY AddsEdit DEF Stores, Pcs
  <2>2. c \in Call /\ c.pc = "raise" /\ c.edits = <<Adds("escalated", k)>>
    BY <2>1 DEF NewCall, Call, Pcs
  <2> HIDE DEF c
  <2>3. CallOK(c, Grounds')
    BY <2>2 DEF CallOK, Raising
  <2> QED
    BY <1>0, <1>5, <2>2, <2>3, BeginStep DEF Raise, c
<1> QED
  BY <1>1, <1>2, <1>3, <1>4, <1>5 DEF Starts, Horizon, Escalate

----------------------------------------------------------------------------
(* Edits.                                                                  *)

LEMMA NextEditOK ==
  ASSUME NEW c \in Call, NEW G \in Grounding, EditsOK(c, G)
  PROVE  NextEdit(c) \in Call /\ CallOK(NextEdit(c), G)
<1>1. CASE Len(c.edits) <= 1
  BY <1>1, NoCallOK DEF NextEdit
<1>2. CASE ~(Len(c.edits) <= 1)
  <2> DEFINE d == [c EXCEPT !.pc = "load", !.edits = Tail(c.edits)]
  <2>1. c.edits \in Seq(Edit) /\ Len(c.edits) \in Nat
    BY DEF Call
  <2>2. /\ Tail(c.edits) \in Seq(Edit) /\ Tail(c.edits) # <<>>
        /\ DOMAIN Tail(c.edits) = 1 .. Len(c.edits) - 1
        /\ \A i \in 1 .. Len(c.edits) - 1 : Tail(c.edits)[i] = c.edits[i + 1]
    <3> DEFINE es == c.edits
    <3>1. es \in Seq(Edit) /\ Len(es) > 1 /\ es # <<>>
      BY <1>2, <2>1
    <3> HIDE DEF es
    <3>2. Tail(es) \in Seq(Edit) /\ Len(Tail(es)) = Len(es) - 1
      BY <3>1
    <3>3. Len(es) \in Nat /\ Len(Tail(es)) \in Nat /\ DOMAIN Tail(es) = 1 .. Len(Tail(es))
      BY <3>1, <3>2
    <3>5. Tail(es) # <<>> /\ DOMAIN Tail(es) = 1 .. Len(es) - 1
      <4>1. Len(Tail(es)) # 0 /\ Len(<<>>) = 0
        BY <3>1, <3>2, <3>3
      <4>2. Tail(es) # <<>>
        BY <4>1, Zenon
      <4> QED
        BY <3>2, <3>3, <4>2
    <3>4. \A i \in 1 .. Len(es) - 1 : Tail(es)[i] = es[i + 1]
      BY <3>1
    <3> QED
      BY <3>2, <3>4, <3>5 DEF es
  <2>3. d \in Call /\ d.pc = "load" /\ d.edits = Tail(c.edits)
    BY <2>2 DEF Call
  <2> HIDE DEF d
  <2>4. \A i \in 1 .. Len(c.edits) - 1 : i + 1 \in DOMAIN c.edits
    BY <2>1
  <2>5. EditsOK(d, G)
    BY <2>2, <2>3, <2>4 DEF EditsOK
  <2>6. CallOK(d, G)
    BY <2>2, <2>3, <2>5 DEF CallOK
  <2> QED
    BY <1>2, <2>3, <2>6 DEF NextEdit, d
<1> QED
  BY <1>1, <1>2

(* The head of a call that has edits left, and its store.                  *)
LEMMA HeadEdit ==
  ASSUME NEW c \in Call, c.edits # <<>>
  PROVE  /\ Head(c.edits) = c.edits[1] /\ c.edits[1] \in Edit /\ 1 \in DOMAIN c.edits
         /\ c.edits[1].store \in Stores /\ c.edits[1].add \in SUBSET Keys
<1>1. c.edits \in Seq(Edit)
  BY DEF Call
<1>2. c.edits[1] \in Edit /\ Head(c.edits) = c.edits[1] /\ 1 \in DOMAIN c.edits
  BY <1>1
<1> QED
  BY <1>2 DEF Edit

(* A store's keys are within its grounds; this is StoresGrounded.          *)
LEMMA FileBelow ==
  ASSUME TypeOK, StoresGrounded
  PROVE  /\ Grounds \in Grounding
         /\ \A st \in Stores : file[st] \subseteq Grounds[st] /\ file[st] \in SUBSET Keys
<1>1. Grounds \in Grounding
  BY DEF Grounds, Grounding, TypeOK
<1>2. \A st \in Stores : file[st] \in SUBSET Keys
  BY DEF TypeOK
<1>3. \A st \in Stores : file[st] \subseteq Grounds[st]
  BY <1>2 DEF StoresGrounded, Grounds, Stores
<1> QED
  BY <1>1, <1>2, <1>3

(* A step that moves one call and leaves files, posts and verdicts alone.  *)
LEMMA QuietStep ==
  ASSUME GroundInv, NEW p \in Procs, NEW c \in Call, call' = [call EXCEPT ![p] = c],
         UNCHANGED <<stores, posts, history, calls>>, view' \in SUBSET Keys,
         faults' \in 0..MaxFaults, accidents' \in 0..MaxFaults,
         CallOK(c, Grounds)
  PROVE  GroundInv'
<1> USE DEF GroundInv
<1>1. given' = given /\ posts' = posts /\ file' = file
  BY DEF history, stores
<1>2. Grounds' = Grounds
  BY <1>1 DEF Grounds
<1>3. call' \in [Procs -> Call] /\ CallsOK'
  BY <1>1, <1>2, StandStill, CallMoves
<1>4. StoresGrounded'
  BY <1>1 DEF StoresGrounded
<1>5. TypeOK'
  BY <1>3 DEF TypeOK, stores, history
<1> QED
  BY <1>3, <1>4, <1>5

(* A step that moves one call and writes one store.                        *)
LEMMA WriteStep ==
  ASSUME GroundInv, NEW p \in Procs, NEW c \in Call, call' = [call EXCEPT ![p] = c],
         UNCHANGED <<posts, history, counts, view>>,
         NEW st \in Stores, NEW S \in SUBSET Grounds[st],
         file' = [file EXCEPT ![st] = S],
         state' \in [Stores -> {"ok", "empty", "garbage"}],
         CallOK(c, Grounds)
  PROVE  GroundInv'
<1> USE DEF GroundInv
<1>1. given' = given /\ posts' = posts
  BY DEF history
<1>2. Grounds' = Grounds
  BY <1>1 DEF Grounds
<1>3. call' \in [Procs -> Call] /\ CallsOK'
  BY <1>1, <1>2, StandStill, CallMoves
<1>4. /\ Grounds \in Grounding
      /\ \A s \in Stores : file[s] \subseteq Grounds[s] /\ file[s] \in SUBSET Keys
  BY FileBelow
<1>5. /\ file' \in [Stores -> SUBSET Keys]
      /\ \A s \in Stores : file'[s] \subseteq Grounds[s]
  BY <1>4 DEF TypeOK, Grounding
<1>6. StoresGrounded'
  BY <1>1, <1>5 DEF StoresGrounded, Grounds, Stores
<1>7. TypeOK'
  BY <1>3, <1>5 DEF TypeOK, history, counts
<1> QED
  BY <1>3, <1>6, <1>7

LEMMA EditStep ==
  ASSUME GroundInv, NEW p \in Procs, Load(p) \/ Truncate(p) \/ Write(p)
  PROVE  GroundInv'
<1> DEFINE c == call[p]
           st == c.edits[1].store
<1> USE DEF GroundInv
<1>1. /\ c \in Call /\ CallOK(c, Grounds) /\ Grounds \in Grounding
      /\ view \in SUBSET Keys /\ faults \in 0..MaxFaults /\ accidents \in 0..MaxFaults
  BY FileBelow DEF TypeOK, CallsOK
<1>2. c.pc \in {"load", "save", "write"}
  BY DEF Load, Truncate, Write
<1>3. c.edits # <<>> /\ EditsOK(c, Grounds)
  BY <1>1, <1>2 DEF CallOK
<1>4. /\ Head(c.edits) = c.edits[1] /\ 1 \in DOMAIN c.edits
      /\ st \in Stores /\ c.edits[1].add \in SUBSET Keys
      /\ c.edits[1].add \subseteq Grounds[st]
  BY <1>1, <1>3, HeadEdit DEF EditsOK
<1>5. NextEdit(c) \in Call /\ CallOK(NextEdit(c), Grounds)
  BY <1>1, <1>3, NextEditOK
<1>6. NoCall \in Call /\ CallOK(NoCall, Grounds)
  BY <1>1, NoCallOK
<1>7. CASE Load(p)
  <2>1. Edited(c) \in SUBSET Grounds[st] /\ Edited(c) \in SUBSET Keys
    BY <1>4, FileBelow DEF Edited
  <2> DEFINE d == [c EXCEPT !.pc = "save", !.set = Edited(c)]
  <2>2. d \in Call /\ d.pc = "save" /\ d.edits = c.edits /\ d.set = Edited(c)
    BY <1>1, <2>1 DEF Call
  <2> HIDE DEF d
  <2>3. EditsOK(d, Grounds)
    BY <1>3, <2>2 DEF EditsOK
  <2>4. CallOK(d, Grounds)
    BY <1>3, <2>1, <2>2, <2>3 DEF CallOK
  <2>5. \E e \in {NoCall, NextEdit(c), d} : call' = [call EXCEPT ![p] = e]
    BY <1>4, <1>7 DEF Load, Refuse, Goes, d
  <2>6. UNCHANGED <<stores, posts, history, counts, view>>
    BY <1>7 DEF Load, Refuse, Goes
  <2>7. \A e \in {NoCall, NextEdit(c), d} : e \in Call /\ CallOK(e, Grounds)
    BY <1>5, <1>6, <2>2, <2>4
  <2> QED
    BY <1>1, <2>5, <2>6, <2>7, QuietStep DEF counts
<1>8. CASE Truncate(p)
  <2> DEFINE d == [c EXCEPT !.pc = "write"]
  <2>1. d \in Call /\ d.pc = "write" /\ d.edits = c.edits /\ d.set = c.set
    BY <1>1 DEF Call
  <2>2. c.set \subseteq Grounds[st]
    BY <1>1, <1>8 DEF CallOK, Truncate
  <2> HIDE DEF d
  <2>3. EditsOK(d, Grounds)
    BY <1>3, <2>1 DEF EditsOK
  <2>4. CallOK(d, Grounds)
    BY <1>3, <2>1, <2>2, <2>3 DEF CallOK
  <2>5. /\ call' = [call EXCEPT ![p] = d] /\ file' = [file EXCEPT ![st] = {}]
        /\ state' \in [Stores -> {"ok", "empty", "garbage"}]
        /\ UNCHANGED <<posts, history, counts, view>>
    BY <1>4, <1>8 DEF Truncate, Goes, TypeOK, d
  <2> QED
    BY <1>4, <2>1, <2>4, <2>5, WriteStep
<1>9. CASE Write(p)
  <2>1. c.set \in SUBSET Grounds[st]
    BY <1>1, <1>9 DEF CallOK, Write
  <2>2. \E S \in {c.set, {}} : file' = [file EXCEPT ![st] = S]
    BY <1>4, <1>9 DEF Write
  <2>3. /\ call' = [call EXCEPT ![p] = NextEdit(c)]
        /\ state' \in [Stores -> {"ok", "empty", "garbage"}]
        /\ UNCHANGED <<posts, history, counts, view>>
    BY <1>4, <1>9 DEF Write, Goes, TypeOK
  <2> QED
    BY <1>4, <1>5, <2>1, <2>2, <2>3, WriteStep
<1> QED
  BY <1>7, <1>8, <1>9

----------------------------------------------------------------------------
(* Readers and escalations.                                                *)

LEMMA ReaderStep ==
  ASSUME GroundInv, NEW p \in Procs,
         LoadEmitted(p) \/ LoadMutes(p) \/ LoadHidden(p) \/ Show(p) \/ Kill(p)
  PROVE  GroundInv'
<1> DEFINE c == call[p]
<1> USE DEF GroundInv
<1>1. /\ c \in Call /\ CallOK(c, Grounds) /\ Grounds \in Grounding
      /\ c.left \in SUBSET Tangles /\ c.set \in SUBSET Keys /\ view \in SUBSET Keys
      /\ faults \in 0..MaxFaults /\ accidents \in 0..MaxFaults
  BY FileBelow DEF TypeOK, CallsOK, Call
<1>2. NoCall \in Call /\ CallOK(NoCall, Grounds)
  BY <1>1, NoCallOK
<1>3. \A st \in Stores : file[st] \subseteq Grounds[st] /\ file[st] \in SUBSET Keys
  BY FileBelow
<1>4. CASE LoadEmitted(p)
  <2> DEFINE e == <<Drops("escalated", {})>>
             d == [c EXCEPT !.pc = "mutes", !.set = file["escalated"], !.edits = e]
  <2>1. /\ e \in Seq(Edit) /\ e # <<>> /\ DOMAIN e = 1..1
        /\ e[1].store = "escalated" /\ e[1].add = {}
    BY DropsEdit DEF Stores
  <2> HIDE DEF e
  <2>2. file["escalated"] \in SUBSET Keys /\ file["escalated"] \subseteq Grounds["escalated"]
    BY <1>3 DEF Stores
  <2>3. /\ d \in Call /\ d.pc = "mutes" /\ d.edits = e
        /\ d.set = file["escalated"] /\ d.posted = c.posted
    BY <1>1, <2>1, <2>2 DEF Call
  <2>4. c.posted = {}
    BY <1>1, <1>4 DEF CallOK, LoadEmitted
  <2> HIDE DEF d
  <2>5. EditsOK(d, Grounds)
    BY <2>1, <2>3 DEF EditsOK
  <2>6. CallOK(d, Grounds)
    BY <2>1, <2>2, <2>3, <2>4, <2>5 DEF CallOK
  <2>7. \E f \in {NoCall, d} : call' = [call EXCEPT ![p] = f]
    BY <1>4 DEF LoadEmitted, Refuse, Goes, d, e
  <2>8. UNCHANGED <<stores, posts, history, counts, view>>
    BY <1>4 DEF LoadEmitted, Refuse, Goes
  <2> QED
    BY <1>1, <1>2, <2>3, <2>6, <2>7, <2>8, QuietStep DEF counts
<1>5. CASE LoadMutes(p)
  <2> DEFINE d == [c EXCEPT !.pc = "post", !.left = Wanted(c)]
  <2>1. /\ d \in Call /\ d.pc = "post" /\ d.edits = c.edits
        /\ d.set = c.set /\ d.posted = c.posted
    BY <1>1 DEF Call, Wanted
  <2> HIDE DEF d
  <2>2. c.pc = "mutes" /\ c.edits # <<>>
    BY <1>5 DEF LoadMutes
  <2>3. EditsOK(d, Grounds)
    BY <1>1, <2>1, <2>2 DEF CallOK, EditsOK
  <2>4. CallOK(d, Grounds)
    BY <1>1, <2>1, <2>2, <2>3 DEF CallOK
  <2>5. \E f \in {NoCall, d} : call' = [call EXCEPT ![p] = f]
    BY <1>5 DEF LoadMutes, Refuse, Goes, d
  <2>6. UNCHANGED <<stores, posts, history, counts, view>>
    BY <1>5 DEF LoadMutes, Refuse, Goes
  <2> QED
    BY <1>1, <1>2, <2>1, <2>4, <2>5, <2>6, QuietStep DEF counts
<1>6. CASE LoadHidden(p)
  <2> DEFINE hidden == IF state["muted"] = "ok" THEN file["muted"] ELSE {}
             d == [c EXCEPT !.pc = "show", !.set = hidden]
  <2>1. hidden \in SUBSET Keys
    BY <1>3 DEF Stores
  <2> HIDE DEF hidden
  <2>2. d \in Call /\ d.pc = "show" /\ d.edits = c.edits
    BY <1>1, <2>1 DEF Call
  <2> HIDE DEF d
  <2>3. EditsOK(d, Grounds)
    BY <1>1, <1>6, <2>2 DEF CallOK, EditsOK, LoadHidden
  <2>4. CallOK(d, Grounds)
    BY <2>2, <2>3 DEF CallOK
  <2>5. call' = [call EXCEPT ![p] = d] /\ UNCHANGED <<stores, posts, history, counts, view>>
    BY <1>6 DEF LoadHidden, Goes, d, hidden
  <2> QED
    BY <1>1, <2>2, <2>4, <2>5, QuietStep DEF counts
<1>7. CASE Show(p)
  <2>1. \A t \in Tangles : KeyOf(t) \in Keys
    BY DEF Tangles, KeyOf
  <2>2. view' \in SUBSET Keys
    BY <1>1, <1>7, <2>1 DEF Show
  <2>3. /\ call' = [call EXCEPT ![p] = NoCall]
        /\ UNCHANGED <<stores, posts, history, counts>>
    BY <1>7 DEF Show, Goes
  <2> QED
    BY <1>1, <1>2, <2>2, <2>3, QuietStep DEF counts
<1>8. CASE Kill(p)
  <2>1. accidents' \in 0..MaxFaults /\ faults' = faults
    BY <1>1, <1>8, StoresAssumption DEF Kill, Accident
  <2>2. /\ call' = [call EXCEPT ![p] = NoCall]
        /\ UNCHANGED <<stores, posts, history, view, calls>>
    BY <1>8 DEF Kill
  <2> QED
    BY <1>1, <1>2, <2>1, <2>2, QuietStep
<1> QED
  BY <1>4, <1>5, <1>6, <1>7, <1>8

(* A post grounds its key and takes nothing back.                          *)
LEMMA LandsGrows ==
  ASSUME TypeOK, NEW who \in {"cli", "mcp"}, NEW k \in Keys, Lands(who, k)
  PROVE  /\ posts' \in [Keys -> 0..MaxPosts] /\ \A q \in Keys : posts[q] <= posts'[q]
         /\ given' = given /\ standing' = standing /\ overlapped' = overlapped
         /\ reposted' \in SUBSET Keys /\ defied' \in SUBSET ({"cli", "mcp"} \X Keys)
         /\ Grounds' \in Grounding /\ Below(Grounds, Grounds') /\ k \in Grounds'["escalated"]
<1> USE StoresAssumption
<1>1. posts' = [posts EXCEPT ![k] = @ + 1] /\ posts[k] < MaxPosts
  BY DEF Lands
<1>2. posts' \in [Keys -> 0..MaxPosts] /\ \A q \in Keys : posts[q] <= posts'[q]
  BY <1>1 DEF TypeOK
<1>3. posts'[k] > 0
  BY <1>1 DEF TypeOK
<1>4. given' = given /\ standing' = standing /\ overlapped' = overlapped
  BY DEF Lands
<1>5. reposted' \in SUBSET Keys /\ defied' \in SUBSET ({"cli", "mcp"} \X Keys)
  BY DEF Lands, TypeOK
<1>6. Grounds' \in Grounding /\ Below(Grounds, Grounds')
  BY <1>2, <1>4, StandStill, GroundsGrow
<1>7. k \in Grounds'["escalated"]
  BY <1>3 DEF Grounds, Stores
<1> QED
  BY <1>2, <1>4, <1>5, <1>6, <1>7

LEMMA LandsStep ==
  ASSUME GroundInv, NEW p \in Procs, NEW c \in Call, call' = [call EXCEPT ![p] = c],
         NEW who \in {"cli", "mcp"}, NEW k \in Keys, Lands(who, k),
         UNCHANGED <<stores, view, calls>>,
         faults' \in 0..MaxFaults, accidents' \in 0..MaxFaults,
         CallOK(c, Grounds')
  PROVE  GroundInv'
<1> USE DEF GroundInv
<1>1. /\ posts' \in [Keys -> 0..MaxPosts] /\ \A q \in Keys : posts[q] <= posts'[q]
      /\ given' = given /\ standing' = standing /\ overlapped' = overlapped
      /\ reposted' \in SUBSET Keys /\ defied' \in SUBSET ({"cli", "mcp"} \X Keys)
  BY LandsGrows
<1>2. call' \in [Procs -> Call] /\ CallsOK'
  BY <1>1, StandStill, CallMoves
<1>3. StoresGrounded'
  BY <1>1, StandStill, FilesKept
<1>4. TypeOK'
  BY <1>1, <1>2 DEF TypeOK, stores
<1> QED
  BY <1>2, <1>3, <1>4

(* What `ettle escalate` saves in the end was all posted.                  *)
LEMMA SaveEmittedOK ==
  ASSUME NEW c \in Call, NEW G \in Grounding, c.pc = "post", CallOK(c, G)
  PROVE  SaveEmitted(c) \in Call /\ CallOK(SaveEmitted(c), G)
<1> DEFINE d == SaveEmitted(c)
<1>1. /\ d \in Call /\ d.pc = "save" /\ d.edits = c.edits /\ d.set = c.set \cup c.posted
  BY DEF SaveEmitted, Call
<1> HIDE DEF d
<1>2. EditsOK(d, G)
  BY <1>1 DEF CallOK, EditsOK
<1>3. d.set \subseteq G[d.edits[1].store] /\ d.edits # <<>>
  BY <1>1 DEF CallOK
<1>4. CallOK(d, G)
  BY <1>1, <1>2, <1>3 DEF CallOK
<1> QED
  BY <1>1, <1>4 DEF d

LEMMA PostStep ==
  ASSUME GroundInv, NEW p \in Procs,
         (\E t \in Tangles : PostTangle(p, t)) \/ PostFails(p)
  PROVE  GroundInv'
<1> DEFINE c == call[p]
<1> USE DEF GroundInv
<1>1. /\ c \in Call /\ CallOK(c, Grounds) /\ Grounds \in Grounding
      /\ c.left \in SUBSET Tangles /\ c.posted \in SUBSET Keys /\ view \in SUBSET Keys
      /\ faults \in 0..MaxFaults /\ accidents \in 0..MaxFaults
  BY FileBelow DEF TypeOK, CallsOK, Call
<1>2. c.pc = "post"
  BY DEF PostTangle, PostFails
<1>3. \A t \in Tangles : KeyOf(t) \in Keys
  BY DEF Tangles, KeyOf
<1>4. ASSUME NEW t \in Tangles, PostTangle(p, t)
      PROVE  GroundInv'
  <2> DEFINE d == [c EXCEPT !.left = c.left \ {t}, !.posted = c.posted \cup {KeyOf(t)}]
  <2>1. Lands("cli", KeyOf(t)) /\ UNCHANGED <<stores, view, counts>>
    BY <1>4 DEF PostTangle
  <2>2. /\ Grounds' \in Grounding /\ Below(Grounds, Grounds')
        /\ KeyOf(t) \in Grounds'["escalated"]
    BY <1>3, <2>1, LandsGrows
  <2>3. CallOK(c, Grounds')
    BY <1>1, <2>2, CallStable
  <2>4. /\ d \in Call /\ d.pc = "post" /\ d.edits = c.edits /\ d.set = c.set
        /\ d.posted = c.posted \cup {KeyOf(t)}
    BY <1>1, <1>2, <1>3 DEF Call
  <2>5. call' = [call EXCEPT ![p] = IF d.left = {} THEN SaveEmitted(d) ELSE d]
    BY <1>4 DEF PostTangle
  <2> HIDE DEF d
  <2>6. EditsOK(d, Grounds')
    BY <1>2, <2>3, <2>4 DEF CallOK, EditsOK
  <2>7. CallOK(d, Grounds')
    BY <1>2, <2>2, <2>3, <2>4, <2>6 DEF CallOK
  <2>8. SaveEmitted(d) \in Call /\ CallOK(SaveEmitted(d), Grounds')
    BY <2>2, <2>4, <2>7, SaveEmittedOK
  <2>9. \E f \in {SaveEmitted(d), d} : call' = [call EXCEPT ![p] = f]
    BY <2>5
  <2> QED
    BY <1>1, <1>3, <2>1, <2>4, <2>7, <2>8, <2>9, LandsStep DEF counts
<1>5. ASSUME PostFails(p) PROVE GroundInv'
  <2>1. /\ call' = [call EXCEPT ![p] = SaveEmitted(c)]
        /\ UNCHANGED <<stores, view, calls>>
    BY <1>5 DEF PostFails
  <2>2. CASE Fault /\ UNCHANGED <<posts, history>>
    <3>1. SaveEmitted(c) \in Call /\ CallOK(SaveEmitted(c), Grounds)
      BY <1>1, <1>2, SaveEmittedOK
    <3>2. faults' \in 0..MaxFaults /\ accidents' \in 0..MaxFaults
      BY <1>1, <2>2, StoresAssumption DEF Fault
    <3> QED
      BY <1>1, <2>1, <2>2, <3>1, <3>2, QuietStep
  <2>3. ASSUME NEW t \in c.left, Accident, Lands("cli", KeyOf(t)) PROVE GroundInv'
    <3>1. KeyOf(t) \in Keys
      BY <1>1, <1>3
    <3>2. Grounds' \in Grounding /\ Below(Grounds, Grounds')
      BY <2>3, <3>1, LandsGrows
    <3>3. SaveEmitted(c) \in Call /\ CallOK(SaveEmitted(c), Grounds')
      BY <1>1, <1>2, <3>2, CallStable, SaveEmittedOK
    <3>4. faults' \in 0..MaxFaults /\ accidents' \in 0..MaxFaults
      BY <1>1, <2>3, StoresAssumption DEF Accident
    <3> QED
      BY <2>1, <2>3, <3>1, <3>3, <3>4, LandsStep
  <2> QED
    BY <1>5, <2>2, <2>3 DEF PostFails
<1> QED
  BY <1>4, <1>5

LEMMA RaiseStep ==
  ASSUME GroundInv, NEW p \in Procs, RaisePost(p) \/ RaiseFails(p)
  PROVE  GroundInv'
<1> DEFINE c == call[p]
<1> USE DEF GroundInv
<1>1. /\ c \in Call /\ CallOK(c, Grounds) /\ Grounds \in Grounding
      /\ view \in SUBSET Keys /\ faults \in 0..MaxFaults /\ accidents \in 0..MaxFaults
  BY FileBelow DEF TypeOK, CallsOK
<1>2. c.pc = "raise"
  BY DEF RaisePost, RaiseFails
<1>3. PICK k \in Keys : c.edits = <<Adds("escalated", k)>>
  BY <1>1, <1>2 DEF CallOK, Raising
<1>4. /\ DOMAIN c.edits = 1..1 /\ Head(c.edits) = c.edits[1] /\ c.edits # <<>>
      /\ c.edits[1].store = "escalated" /\ c.edits[1].add = {k}
  BY <1>3, AddsEdit DEF Stores
<1>5. CASE RaisePost(p)
  <2> DEFINE d == [c EXCEPT !.pc = "load"]
  <2>1. d \in Call /\ d.pc = "load" /\ d.edits = c.edits
    BY <1>1 DEF Call
  <2>2. Lands("mcp", k) /\ UNCHANGED <<stores, view, counts>>
    BY <1>4, <1>5 DEF RaisePost
  <2>3. call' = [call EXCEPT ![p] = d]
    BY <1>5 DEF RaisePost
  <2> HIDE DEF d
  <2>4. k \in Grounds'["escalated"]
    BY <2>2, LandsGrows
  <2>5. EditsOK(d, Grounds')
    BY <1>4, <2>1, <2>4 DEF EditsOK
  <2>6. CallOK(d, Grounds')
    BY <1>4, <2>1, <2>5 DEF CallOK
  <2> QED
    BY <1>1, <2>1, <2>2, <2>3, <2>6, LandsStep DEF counts
<1>6. CASE RaiseFails(p)
  <2>1. /\ call' = [call EXCEPT ![p] = NoCall]
        /\ UNCHANGED <<stores, view, calls>>
    BY <1>6 DEF RaiseFails
  <2>2. CASE Fault /\ UNCHANGED <<posts, history>>
    <3>1. NoCall \in Call /\ CallOK(NoCall, Grounds)
      BY <1>1, NoCallOK
    <3>2. faults' \in 0..MaxFaults /\ accidents' \in 0..MaxFaults
      BY <1>1, <2>2, StoresAssumption DEF Fault
    <3> QED
      BY <1>1, <2>1, <2>2, <3>1, <3>2, QuietStep
  <2>3. CASE Accident /\ Lands("mcp", k)
    <3>1. Grounds' \in Grounding
      BY <2>3, LandsGrows
    <3>2. NoCall \in Call /\ CallOK(NoCall, Grounds')
      BY <3>1, NoCallOK
    <3>3. faults' \in 0..MaxFaults /\ accidents' \in 0..MaxFaults
      BY <1>1, <2>3, StoresAssumption DEF Accident
    <3> QED
      BY <2>1, <2>3, <3>2, <3>3, LandsStep
  <2> QED
    BY <1>4, <1>6, <2>2, <2>3 DEF RaiseFails
<1> QED
  BY <1>5, <1>6

----------------------------------------------------------------------------
LEMMA GroundInit == Init => GroundInv
<1> SUFFICES ASSUME Init PROVE GroundInv
  OBVIOUS
<1> USE StoresAssumption DEF Init
<1>1. overlapped \in BOOLEAN
  BY Zenon
<1>2. Grounds \in Grounding
  BY DEF Grounds, Grounding
<1>3. NoCall \in Call /\ CallOK(NoCall, Grounds)
  BY <1>2, NoCallOK
<1>4. CallsOK
  BY <1>3 DEF CallsOK
<1>5. TypeOK
  BY <1>1, <1>3 DEF TypeOK
<1>6. StoresGrounded
  BY DEF StoresGrounded, Stores
<1> QED
  BY <1>4, <1>5, <1>6 DEF GroundInv

LEMMA GroundStep == GroundInv /\ [Next]_vars => GroundInv'
<1> SUFFICES ASSUME GroundInv, [Next]_vars PROVE GroundInv'
  OBVIOUS
<1>1. ASSUME NEW p \in Procs, Starts(p) \/ Runs(p) PROVE GroundInv'
  BY <1>1, StartsStep, EditStep, ReaderStep, PostStep, RaiseStep DEF Runs
<1>2. CASE UNCHANGED vars
  <2>1. UNCHANGED <<file, state, call, view, posts, given, standing, reposted,
                    defied, overlapped, calls, faults, accidents>>
    BY <1>2 DEF vars, stores, history, counts
  <2>2. Grounds' = Grounds
    BY <2>1 DEF Grounds
  <2>3. CallsOK'
    BY <2>1, <2>2 DEF CallsOK, GroundInv
  <2>4. TypeOK' /\ StoresGrounded'
    BY <2>1 DEF TypeOK, StoresGrounded, GroundInv
  <2> QED
    BY <2>3, <2>4 DEF GroundInv
<1> QED
  BY <1>1, <1>2 DEF Next

(* TypeOK of TangleStores holds in every reachable state.                  *)
THEOREM StoresTypeCorrect == Spec => []TypeOK
<1>1. GroundInv => TypeOK
  BY DEF GroundInv
<1> QED
  BY <1>1, GroundInit, GroundStep, PTL DEF Spec

(* Whatever the calls, their interleaving, splices and kills: a key is in   *)
(* the muted or the confirmed store only on a person's verdict, and in the *)
(* escalated store only once it was posted (escalate.go:193-197,           *)
(* server.go:752-771, 812-815).                                            *)
THEOREM StoresAreGrounded == Spec => []StoresGrounded
<1>1. GroundInv => StoresGrounded
  BY DEF GroundInv
<1> QED
  BY <1>1, GroundInit, GroundStep, PTL DEF Spec

----------------------------------------------------------------------------
(* Calls one at a time.  What each store ought to hold: the verdicts given *)
(* and not withdrawn, and the keys that were posted.                       *)
Posted == {k \in Keys : posts[k] > 0}
Truth == [st \in Stores |-> IF st = "escalated" THEN Posted ELSE standing[st]]

After(e, A) == (A \ e.drop) \cup e.add
OneEach(es) == \A i, j \in DOMAIN es : es[i].store = es[j].store => i = j

(* The edits es take the set A in store st to B.                           *)
Leads(es, st, A, B) ==
  /\ \A i \in DOMAIN es : es[i].store = st => B = After(es[i], A)
  /\ (\A i \in DOMAIN es : es[i].store # st) => B = A

AtRest(F, S, T) == \A st \in Stores : S[st] = "ok" /\ F[st] = T[st]

(* What a call that runs alone still owes the stores: files F in states S, *)
(* ought to hold T.                                                        *)
Owes(c, F, S, T) ==
  /\ OneEach(c.edits)
  /\ c.pc \in {"raise", "emitted", "mutes", "show"} => AtRest(F, S, T)
  /\ c.pc = "load" => \A st \in Stores : S[st] = "ok" /\ Leads(c.edits, st, F[st], T[st])
  /\ c.pc \in {"save", "write"} =>
       \A st \in Stores :
         IF st = c.edits[1].store
         THEN T[st] = c.set /\ S[st] = IF c.pc = "write" THEN "empty" ELSE "ok"
         ELSE S[st] = "ok" /\ Leads(c.edits, st, F[st], T[st])
  /\ (c.pc \in {"mutes", "post"} /\ c.edits # <<>>) => c.edits = <<Drops("escalated", {})>>
  /\ (c.pc = "mutes" /\ c.edits # <<>>) => c.set = T["escalated"] /\ c.posted = {}
  /\ c.pc = "post" =>
       /\ \A st \in Stores \ {"escalated"} : F[st] = T[st]
       /\ \A st \in Stores : S[st] = "ok"
       /\ T["escalated"] = c.set \cup c.posted

OneCall == \A p, q \in Procs : call[p].pc # "idle" /\ call[q].pc # "idle" => p = q
Idle == \A p \in Procs : call[p].pc = "idle"

(* What `ettle escalate` has still to post is neither muted nor, unless    *)
(* two tangles share a key, posted already.                                *)
PlanOK ==
  \A p \in Procs : call[p].pc = "post" =>
    \A t \in call[p].left : KeyOf(t) \notin file["muted"]

FreshOK ==
  \A p \in Procs : call[p].pc = "post" =>
    \A t \in call[p].left : KeyOf(t) \notin Posted

(* Inductive: MuteStopsEscalate strengthened.                              *)
SoloInv == /\ GroundInv
           /\ ~overlapped => OneCall /\ PlanOK
           /\ MuteStopsEscalate

(* Inductive: VerdictsStand and NoRepost strengthened with what the call   *)
(* in progress owes.                                                       *)
StandInv == /\ SoloInv
            /\ (~overlapped /\ accidents = 0) =>
                 /\ Idle => AtRest(file, state, Truth)
                 /\ \A p \in Procs : call[p].pc # "idle" => Owes(call[p], file, state, Truth)
                 /\ (\A a, b \in Subjects : a = b) => FreshOK /\ reposted = {}

Settled(c, F, S, T) == IF c.pc = "idle" THEN AtRest(F, S, T) ELSE Owes(c, F, S, T)

LEMMA NoCallSettled ==
  ASSUME NEW F, NEW S, NEW T, AtRest(F, S, T)
  PROVE  NoCall.pc = "idle" /\ Settled(NoCall, F, S, T)
BY DEF Settled, NoCall, NewCall

(* After the head edit: whatever stands, stands for the edits that follow. *)
LEMMA NextEditSettled ==
  ASSUME NEW c \in Call, c.edits # <<>>, OneEach(c.edits), NEW F, NEW S, NEW T,
         \A st \in Stores : S[st] = "ok",
         \A st \in Stores : st # c.edits[1].store => Leads(c.edits, st, F[st], T[st]),
         F[c.edits[1].store] = T[c.edits[1].store]
  PROVE  Settled(NextEdit(c), F, S, T) /\ NextEdit(c).pc \in {"idle", "load"}
<1> DEFINE es == c.edits
           h == es[1].store
<1>0. /\ es \in Seq(Edit) /\ Len(es) \in Nat /\ Len(es) > 0 /\ DOMAIN es = 1 .. Len(es)
      /\ \A i \in DOMAIN es : es[i].store \in Stores
  <2>1. es \in Seq(Edit) /\ es # <<>>
    BY DEF Call
  <2>2. \A e \in Edit : e.store \in Stores
    BY DEF Edit
  <2> HIDE DEF es
  <2> QED
    BY <2>1, <2>2
<1>1. CASE Len(es) <= 1
  <2>1. DOMAIN es = {1}
    BY <1>0, <1>1
  <2>2. \A st \in Stores : F[st] = T[st]
    BY <2>1 DEF Leads
  <2> QED
    BY <1>1, <2>2, NoCallSettled DEF AtRest, NextEdit
<1>2. CASE ~(Len(es) <= 1)
  <2> DEFINE d == [c EXCEPT !.pc = "load", !.edits = Tail(c.edits)]
             ts == Tail(es)
  <2>1. d.pc = "load" /\ d.edits = ts
    BY DEF Call
  <2>2. /\ DOMAIN ts = 1 .. Len(es) - 1
        /\ \A i \in DOMAIN ts : ts[i] = es[i + 1] /\ i + 1 \in DOMAIN es
    <3> HIDE DEF es
    <3>1. Len(ts) = Len(es) - 1 /\ DOMAIN ts = 1 .. Len(ts)
      BY <1>0, <1>2
    <3> QED
      BY <1>0, <1>2, <3>1
  <2>3. \A j \in DOMAIN es : j # 1 => j - 1 \in DOMAIN ts /\ ts[j - 1] = es[j]
    <3> HIDE DEF es, ts
    <3> QED
      BY <1>0, <2>2
  <2> HIDE DEF d, ts, es
  <2>4. OneEach(ts)
    BY <1>0, <2>2 DEF OneEach, es
  <2>5. ASSUME NEW st \in Stores, st # h PROVE Leads(ts, st, F[st], T[st])
    <3>1. Leads(es, st, F[st], T[st])
      BY <2>5 DEF es
    <3>2. \A i \in DOMAIN ts : ts[i].store = st => T[st] = After(ts[i], F[st])
      BY <2>2, <3>1 DEF Leads
    <3>3. ASSUME \A i \in DOMAIN ts : ts[i].store # st PROVE T[st] = F[st]
      BY <2>3, <2>5, <3>1, <3>3 DEF Leads
    <3> QED
      BY <3>2, <3>3 DEF Leads
  <2>6. Leads(ts, h, F[h], T[h])
    <3>1. ASSUME NEW i \in DOMAIN ts PROVE ts[i].store # h
      <4>1. ts[i] = es[i + 1] /\ i + 1 \in DOMAIN es /\ 1 \in DOMAIN es /\ i + 1 # 1
        BY <1>0, <2>2
      <4> QED
        BY <4>1 DEF OneEach, es
    <3> QED
      BY <3>1 DEF Leads, es
  <2>7. Owes(d, F, S, T)
    BY <2>1, <2>4, <2>5, <2>6 DEF Owes
  <2> QED
    BY <1>2, <2>1, <2>7 DEF NextEdit, Settled, d, es
<1> QED
  BY <1>1, <1>2

----------------------------------------------------------------------------
(* What a step of one call may do to the escalations' plans and posts.     *)
Plans(p) ==
  /\ call[p].pc # "idle" /\ overlapped' = overlapped
  /\ call' \in [Procs -> Call] /\ \A q \in Procs \ {p} : call'[q] = call[q]
  /\ call'[p].pc = "post" =>
       /\ file' = file
       /\ \A t \in call'[p].left : \/ call[p].pc = "mutes" /\ t \in Wanted(call[p])
                                   \/ call[p].pc = "post" /\ t \in call[p].left
  /\ \/ defied' = defied
     \/ \E k \in Keys : defied' = defied \cup {<<"mcp", k>>}
     \/ call[p].pc = "post" /\ \E t \in call[p].left : KeyOf(t) \in file["muted"]

LEMMA RunsPlans ==
  ASSUME GroundInv, NEW p \in Procs, Runs(p)
  PROVE  Plans(p)
<1> DEFINE c == call[p]
<1>1. /\ c \in Call /\ call \in [Procs -> Call] /\ call' \in [Procs -> Call]
      /\ c.left \in SUBSET Tangles
  BY GroundStep DEF GroundInv, TypeOK, Next, Call
<1>2. NoCall.pc = "idle" /\ NextEdit(c).pc \in {"idle", "load"} /\ SaveEmitted(c).pc = "save"
  BY <1>1 DEF NoCall, NewCall, NextEdit, SaveEmitted, Call
(* Steps that write no plan and post nothing.                              *)
<1>3. ASSUME NEW d, call' = [call EXCEPT ![p] = d], c.pc # "idle", d.pc # "post",
             UNCHANGED history
      PROVE  Plans(p)
  BY <1>1, <1>3 DEF Plans, history
<1>4. CASE Load(p) \/ Truncate(p) \/ Write(p)
  <2>1. \A S : [c EXCEPT !.pc = "save", !.set = S].pc = "save"
    BY <1>1 DEF Call
  <2>2. [c EXCEPT !.pc = "write"].pc = "write"
    BY <1>1 DEF Call
  <2>3. CASE Load(p)
    BY <1>2, <1>3, <2>1, <2>3 DEF Load, Refuse, Goes
  <2>4. CASE Truncate(p)
    BY <1>3, <2>2, <2>4 DEF Truncate, Goes
  <2>5. CASE Write(p)
    BY <1>2, <1>3, <2>5 DEF Write, Goes
  <2> QED
    BY <1>4, <2>3, <2>4, <2>5
<1>5. CASE LoadEmitted(p) \/ LoadHidden(p) \/ Show(p) \/ Kill(p)
  <2>1. \A S, E : [c EXCEPT !.pc = "mutes", !.set = S, !.edits = E].pc = "mutes"
    BY <1>1 DEF Call
  <2>2. \A S : [c EXCEPT !.pc = "show", !.set = S].pc = "show"
    BY <1>1 DEF Call
  <2>3. CASE LoadEmitted(p)
    <3> DEFINE d == [c EXCEPT !.pc = "mutes", !.set = file["escalated"],
                              !.edits = <<Drops("escalated", {})>>]
    <3>1. d.pc = "mutes"
      BY <2>1
    <3> HIDE DEF d
    <3>2. /\ c.pc = "emitted" /\ UNCHANGED history
          /\ call' = [call EXCEPT ![p] = NoCall] \/ call' = [call EXCEPT ![p] = d]
      BY <2>3 DEF LoadEmitted, Refuse, Goes, d
    <3> QED
      BY <1>2, <1>3, <3>1, <3>2
  <2>4. CASE LoadHidden(p)
    BY <1>3, <2>2, <2>4 DEF LoadHidden, Goes
  <2>5. CASE Show(p) \/ Kill(p)
    BY <1>2, <1>3, <2>5 DEF Show, Kill, Goes
  <2> QED
    BY <1>5, <2>3, <2>4, <2>5
<1>6. CASE LoadMutes(p)
  <2> DEFINE d == [c EXCEPT !.pc = "post", !.left = Wanted(c)]
  <2>1. d.left = Wanted(c)
    BY <1>1 DEF Call
  <2> HIDE DEF d
  <2>2. /\ call' = [call EXCEPT ![p] = NoCall] \/ call' = [call EXCEPT ![p] = d]
        /\ c.pc = "mutes" /\ UNCHANGED <<stores, history>>
    BY <1>6 DEF LoadMutes, Refuse, Goes, d
  <2> QED
    BY <1>1, <1>2, <1>3, <2>1, <2>2 DEF Plans, stores, history
<1>7. ASSUME NEW who \in {"cli", "mcp"}, NEW k \in Keys, Lands(who, k)
      PROVE  /\ overlapped' = overlapped
             /\ defied' = defied \/ (k \in file["muted"] /\ defied' = defied \cup {<<who, k>>})
  BY <1>7 DEF Lands
<1>8. \A t \in Tangles : KeyOf(t) \in Keys
  BY DEF Tangles, KeyOf
<1>9. ASSUME NEW t \in Tangles, PostTangle(p, t)
      PROVE  Plans(p)
  <2> DEFINE d == [c EXCEPT !.left = c.left \ {t}, !.posted = c.posted \cup {KeyOf(t)}]
  <2>1. d.pc = "post" /\ d.left = c.left \ {t} /\ SaveEmitted(d).pc = "save"
    BY <1>1, <1>9 DEF PostTangle, Call, SaveEmitted
  <2>2. /\ c.pc = "post" /\ t \in c.left /\ file' = file /\ Lands("cli", KeyOf(t))
        /\ call' = [call EXCEPT ![p] = IF d.left = {} THEN SaveEmitted(d) ELSE d]
    BY <1>9 DEF PostTangle, stores
  <2> HIDE DEF d
  <2>3. call'[p] \in {SaveEmitted(d), d} /\ \A q \in Procs \ {p} : call'[q] = call[q]
    BY <1>1, <2>2
  <2>4. \A u \in call'[p].left : call'[p].pc = "post" => u \in c.left
    BY <2>1, <2>3
  <2> QED
    BY <1>1, <1>7, <1>8, <2>2, <2>3, <2>4 DEF Plans
<1>10. CASE PostFails(p)
  <2>1. /\ c.pc = "post" /\ call' = [call EXCEPT ![p] = SaveEmitted(c)]
        /\ UNCHANGED history \/ \E t \in c.left : Lands("cli", KeyOf(t))
    BY <1>10 DEF PostFails
  <2> QED
    BY <1>1, <1>2, <1>3, <1>7, <1>8, <2>1 DEF Plans
<1>11. CASE RaisePost(p) \/ RaiseFails(p)
  <2> DEFINE d == [c EXCEPT !.pc = "load"]
  <2>1. d.pc = "load" /\ Head(c.edits).add \subseteq Keys
    <3>1. Raising(c) /\ c.pc = "raise"
      BY <1>11 DEF GroundInv, CallsOK, CallOK, RaisePost, RaiseFails
    <3>2. PICK k \in Keys : c.edits = <<Adds("escalated", k)>>
      BY <3>1 DEF Raising
    <3> QED
      BY <1>1, <3>2, AddsEdit DEF Call, Stores
  <2> HIDE DEF d
  <2>2. /\ c.pc = "raise"
        /\ call' = [call EXCEPT ![p] = d] \/ call' = [call EXCEPT ![p] = NoCall]
        /\ UNCHANGED history \/ \E k \in Head(c.edits).add : Lands("mcp", k)
    BY <1>11 DEF RaisePost, RaiseFails, d
  <2> QED
    BY <1>1, <1>2, <1>3, <1>7, <2>1, <2>2 DEF Plans
<1> QED
  BY <1>4, <1>5, <1>6, <1>9, <1>10, <1>11 DEF Runs

(* Every call starts with nothing to post, and alone when none overlap.    *)
LEMMA StartsPlans ==
  ASSUME GroundInv, NEW p \in Procs, Starts(p)
  PROVE  /\ UNCHANGED <<file, defied>>
         /\ call' \in [Procs -> Call] /\ \A q \in Procs \ {p} : call'[q] = call[q]
         /\ call'[p].pc \notin {"post", "idle"} /\ call[p].pc = "idle"
         /\ ~overlapped' => ~overlapped /\ Idle
<1>1. call \in [Procs -> Call] /\ call' \in [Procs -> Call]
  BY GroundStep DEF GroundInv, TypeOK, Next
<1>2. ASSUME NEW at \in {"load", "mutes", "emitted", "raise"}, NEW es, NEW T,
             Begin(p, NewCall(at, es, T))
      PROVE  /\ UNCHANGED <<file, defied>>
             /\ call'[p].pc \notin {"post", "idle"} /\ \A q \in Procs \ {p} : call'[q] = call[q]
             /\ call[p].pc = "idle" /\ (~overlapped' => ~overlapped /\ Idle)
  BY <1>1, <1>2 DEF Begin, NewCall, stores, Idle
<1> QED
  BY <1>1, <1>2 DEF Starts, Judge, Withdraw, RespondClear, Horizon, Escalate, Raise

LEMMA SoloInit == Init => SoloInv
<1> SUFFICES ASSUME Init PROVE SoloInv
  OBVIOUS
<1>1. \A p \in Procs : call[p].pc = "idle"
  BY DEF Init, NoCall, NewCall
<1>2. OneCall /\ PlanOK
  BY <1>1 DEF OneCall, PlanOK
<1> QED
  BY <1>2, GroundInit DEF SoloInv, MuteStopsEscalate, Init

LEMMA SoloStep == SoloInv /\ [Next]_vars => SoloInv'
<1> SUFFICES ASSUME SoloInv, [Next]_vars PROVE SoloInv'
  OBVIOUS
<1>0. GroundInv /\ GroundInv'
  BY GroundStep DEF SoloInv
<1>1. ASSUME NEW p \in Procs, Starts(p) PROVE SoloInv'
  <2>1. ~overlapped' => OneCall' /\ PlanOK'
    BY <1>0, <1>1, StartsPlans DEF OneCall, PlanOK, Idle, SoloInv
  <2>2. MuteStopsEscalate'
    BY <1>0, <1>1, StartsPlans DEF MuteStopsEscalate, SoloInv
  <2> QED
    BY <1>0, <2>1, <2>2 DEF SoloInv
<1>2. ASSUME NEW p \in Procs, Runs(p) PROVE SoloInv'
  <2> SUFFICES ASSUME ~overlapped
               PROVE  OneCall' /\ PlanOK' /\ MuteStopsEscalate'
    BY <1>0, <1>2, RunsPlans DEF SoloInv, Plans, MuteStopsEscalate
  <2>1. Plans(p) /\ OneCall /\ PlanOK /\ MuteStopsEscalate
    BY <1>0, <1>2, RunsPlans DEF SoloInv
  <2>2. \A q \in Procs \ {p} : call'[q] = call[q] /\ call[q].pc = "idle"
    BY <2>1 DEF Plans, OneCall
  <2>3. OneCall'
    BY <2>2 DEF OneCall
  <2>4. PlanOK'
    BY <2>1, <2>2 DEF Plans, PlanOK, Wanted
  <2>5. MuteStopsEscalate'
    <3>1. ~(call[p].pc = "post" /\ \E t \in call[p].left : KeyOf(t) \in file["muted"])
      BY <2>1 DEF PlanOK
    <3>2. defied' = defied \/ \E k \in Keys : defied' = defied \cup {<<"mcp", k>>}
      BY <2>1, <3>1 DEF Plans
    <3>3. \A k, l \in Keys : <<"mcp", k>> # <<"cli", l>>
      OBVIOUS
    <3>4. ASSUME NEW k \in Keys PROVE <<"cli", k>> \notin defied'
      <4>1. <<"cli", k>> \notin defied
        BY <2>1 DEF MuteStopsEscalate
      <4>2. ASSUME NEW l \in Keys, defied' = defied \cup {<<"mcp", l>>}
            PROVE  <<"cli", k>> \notin defied'
        BY <3>3, <4>1, <4>2
      <4> QED
        BY <3>2, <4>1, <4>2
    <3> QED
      BY <3>4 DEF MuteStopsEscalate
  <2> QED
    BY <2>3, <2>4, <2>5
<1>3. CASE UNCHANGED vars
  BY <1>0, <1>3 DEF SoloInv, OneCall, PlanOK, MuteStopsEscalate, vars, stores, history
<1> QED
  BY <1>1, <1>2, <1>3 DEF Next

(* Calls one at a time, kills and failed posts included: `ettle escalate`  *)
(* posts nothing that is muted (escalate.go:42-46, mute.go:24-26).         *)
THEOREM MutedNotEscalated == Spec => []MuteStopsEscalate
<1>1. SoloInv => MuteStopsEscalate
  BY DEF SoloInv
<1> QED
  BY <1>1, SoloInit, SoloStep, PTL DEF Spec

----------------------------------------------------------------------------
(* What the stores ought to hold, store by store.                          *)
LEMMA TruthOf ==
  /\ Truth["escalated"] = Posted
  /\ \A st \in Stores \ {"escalated"} : Truth[st] = standing[st]
BY DEF Truth, Stores

(* Two edits in different stores, or one, lead a store that they name once. *)
LEMMA OneEditLeads ==
  ASSUME NEW e \in Edit, NEW st, NEW A, NEW B,
         IF st = e.store THEN B = After(e, A) ELSE B = A
  PROVE  OneEach(<<e>>) /\ Leads(<<e>>, st, A, B)
<1>1. DOMAIN <<e>> = {1} /\ <<e>>[1] = e
  OBVIOUS
<1> QED
  BY <1>1 DEF OneEach, Leads

LEMMA NoEditSettled ==
  ASSUME NEW F, NEW S, NEW T, AtRest(F, S, T), NEW L, NEW at \in {"mutes", "emitted"}
  PROVE  Owes(NewCall(at, <<>>, L), F, S, T) /\ NewCall(at, <<>>, L).pc = at
<1> DEFINE c == NewCall(at, <<>>, L)
<1>1. c.pc = at /\ c.edits = <<>>
  BY DEF NewCall
<1> HIDE DEF c
<1>2. OneEach(c.edits)
  BY <1>1 DEF OneEach
<1> QED
  BY <1>1, <1>2 DEF Owes, c

LEMMA StartsSettled ==
  ASSUME GroundInv, NEW p \in Procs, Starts(p), AtRest(file, state, Truth)
  PROVE  Owes(call'[p], file', state', Truth') /\ call'[p].pc # "post"
<1>0. call \in [Procs -> Call] /\ standing \in [Stores -> SUBSET Keys]
  BY DEF GroundInv, TypeOK
<1>b. ASSUME NEW c, Begin(p, c)
      PROVE  call'[p] = c /\ file' = file /\ state' = state /\ Posted' = Posted
  BY <1>0, <1>b DEF Begin, stores, Posted
<1>l. ASSUME NEW es, NewCall("load", es, {}) = call'[p], OneEach(es),
             file' = file, state' = state,
             \A st \in Stores : Leads(es, st, file[st], Truth'[st])
      PROVE  Owes(call'[p], file', state', Truth') /\ call'[p].pc # "post"
  <2>1. call'[p].pc = "load" /\ call'[p].edits = es
    BY <1>l DEF NewCall
  <2> QED
    BY <1>l, <2>1 DEF Owes, AtRest
<1>1. ASSUME NEW k \in Keys, NEW st \in {"muted", "confirmed"}, Judge(p, st, k)
      PROVE  Owes(call'[p], file', state', Truth') /\ call'[p].pc # "post"
  <2>1. /\ Adds(st, k) \in Edit /\ Adds(st, k).store = st
        /\ \A A : After(Adds(st, k), A) = A \cup {k}
    BY AddsEdit DEF Stores, Adds, After
  <2>2. /\ call'[p] = NewCall("load", <<Adds(st, k)>>, {}) /\ file' = file /\ state' = state
        /\ Truth'["escalated"] = Truth["escalated"]
        /\ \A s \in Stores \ {"escalated"} :
             standing'[s] = IF s = st THEN standing[s] \cup {k} ELSE standing[s]
    BY <1>0, <1>1, <1>b, TruthOf DEF Judge, Truth, Stores
  <2>3. ASSUME NEW s \in Stores
        PROVE  IF s = st THEN Truth'[s] = After(Adds(st, k), file[s]) ELSE Truth'[s] = file[s]
    <3>1. CASE s = "escalated"
      BY <2>2, <3>1 DEF AtRest
    <3>2. CASE s # "escalated"
      <4>1. Truth'[s] = standing'[s] /\ file[s] = standing[s]
        BY <3>2, TruthOf DEF AtRest, Truth
      <4> QED
        BY <2>1, <2>2, <3>2, <4>1
    <3> QED
      BY <3>1, <3>2
  <2>4. \A s \in Stores : Leads(<<Adds(st, k)>>, s, file[s], Truth'[s])
    BY <2>1, <2>3, OneEditLeads
  <2>5. OneEach(<<Adds(st, k)>>)
    BY DEF OneEach
  <2> QED
    BY <1>l, <2>2, <2>4, <2>5
<1>2. ASSUME NEW st \in {"muted", "confirmed"}, NEW D \in SUBSET Keys, Withdraw(p, st, D)
      PROVE  Owes(call'[p], file', state', Truth') /\ call'[p].pc # "post"
  <2>1. /\ Drops(st, D) \in Edit /\ Drops(st, D).store = st
        /\ \A A : After(Drops(st, D), A) = A \ D
    BY DropsEdit DEF Stores, Drops, After
  <2>2. /\ call'[p] = NewCall("load", <<Drops(st, D)>>, {}) /\ file' = file /\ state' = state
        /\ Truth'["escalated"] = Truth["escalated"]
        /\ \A s \in Stores \ {"escalated"} :
             standing'[s] = IF s = st THEN standing[s] \ D ELSE standing[s]
    BY <1>0, <1>2, <1>b, TruthOf DEF Withdraw, Truth, Stores
  <2>3. ASSUME NEW s \in Stores
        PROVE  IF s = st THEN Truth'[s] = After(Drops(st, D), file[s]) ELSE Truth'[s] = file[s]
    <3>1. CASE s = "escalated"
      BY <2>2, <3>1 DEF AtRest
    <3>2. CASE s # "escalated"
      <4>1. Truth'[s] = standing'[s] /\ file[s] = standing[s]
        BY <3>2, TruthOf DEF AtRest, Truth
      <4> QED
        BY <2>1, <2>2, <3>2, <4>1
    <3> QED
      BY <3>1, <3>2
  <2>4. \A s \in Stores : Leads(<<Drops(st, D)>>, s, file[s], Truth'[s])
    BY <2>1, <2>3, OneEditLeads
  <2>5. OneEach(<<Drops(st, D)>>)
    BY DEF OneEach
  <2> QED
    BY <1>l, <2>2, <2>4, <2>5
<1>3. ASSUME NEW k \in Keys, RespondClear(p, k)
      PROVE  Owes(call'[p], file', state', Truth') /\ call'[p].pc # "post"
  <2> DEFINE m == Drops("muted", {k})
             c == Drops("confirmed", {k})
             es == <<m, c>>
  <2>1. /\ m.store = "muted" /\ c.store = "confirmed"
        /\ \A A : After(m, A) = A \ {k} /\ After(c, A) = A \ {k}
    BY DEF Drops, After
  <2>2. /\ call'[p] = NewCall("load", es, {}) /\ file' = file /\ state' = state
        /\ Truth'["escalated"] = Truth["escalated"]
        /\ \A s \in Stores \ {"escalated"} : standing'[s] = standing[s] \ {k}
    BY <1>3, <1>b, TruthOf DEF RespondClear, Truth, Stores
  <2> HIDE DEF m, c
  <2>3. DOMAIN es = {1, 2} /\ es[1] = m /\ es[2] = c
    OBVIOUS
  <2> HIDE DEF es
  <2>4. ASSUME NEW s \in Stores
        PROVE  Truth'[s] = IF s = "escalated" THEN file[s] ELSE file[s] \ {k}
    BY <2>2, <2>4, TruthOf DEF AtRest, Truth
  <2>5. \A s \in Stores : Leads(es, s, file[s], Truth'[s])
    BY <2>1, <2>3, <2>4 DEF Leads, Stores
  <2>6. OneEach(es)
    BY <2>1, <2>3 DEF OneEach
  <2> QED
    BY <1>l, <2>2, <2>5, <2>6
<1>4. ASSUME NEW T, NEW at \in {"mutes", "emitted"},
             Begin(p, NewCall(at, <<>>, T)), UNCHANGED standing
      PROVE  Owes(call'[p], file', state', Truth') /\ call'[p].pc # "post"
  <2>1. Truth' = Truth
    BY <1>4, <1>b DEF Truth
  <2> QED
    BY <1>4, <1>b, <2>1, NoEditSettled
<1>5. ASSUME NEW k \in Keys, Raise(p, k)
      PROVE  Owes(call'[p], file', state', Truth') /\ call'[p].pc # "post"
  <2> DEFINE c == NewCall("raise", <<Adds("escalated", k)>>, {})
  <2>1. c.pc = "raise" /\ c.edits = <<Adds("escalated", k)>>
    BY DEF NewCall
  <2>2. call'[p] = c /\ file' = file /\ state' = state /\ Truth' = Truth
    BY <1>5, <1>b DEF Raise, Truth
  <2> HIDE DEF c
  <2>3. OneEach(c.edits)
    BY <2>1 DEF OneEach
  <2> QED
    BY <2>1, <2>2, <2>3 DEF Owes
<1> QED
  BY <1>1, <1>2, <1>3, <1>4, <1>5 DEF Starts, Horizon, Escalate

(* The steps of a call alone and unharmed leave the stores settled: at     *)
(* rest when the call is done, and on their way until then.                *)
LEMMA EditSettled ==
  ASSUME GroundInv, NEW p \in Procs, Load(p) \/ Truncate(p) \/ Write(p),
         Owes(call[p], file, state, Truth)
  PROVE  /\ Settled(call'[p], file', state', Truth')
         /\ call'[p].pc # "post" /\ reposted' = reposted
<1> DEFINE c == call[p]
           h == c.edits[1].store
<1>0. /\ c \in Call /\ call \in [Procs -> Call] /\ CallOK(c, Grounds)
      /\ file \in [Stores -> SUBSET Keys] /\ state \in [Stores -> {"ok", "empty", "garbage"}]
  BY DEF GroundInv, TypeOK, CallsOK
<1>1. c.pc \in {"load", "save", "write"} /\ c.edits # <<>>
  BY <1>0 DEF Load, Truncate, Write, CallOK
<1>2. /\ Head(c.edits) = c.edits[1] /\ 1 \in DOMAIN c.edits /\ h \in Stores
      /\ OneEach(c.edits)
  BY <1>0, <1>1, HeadEdit DEF Owes
<1>3. Truth' = Truth /\ reposted' = reposted
  BY DEF Load, Truncate, Write, Goes, Refuse, history, Truth, Posted
<1>4. CASE Load(p)
  <2>1. /\ \A st \in Stores : state[st] = "ok" /\ Leads(c.edits, st, file[st], Truth[st])
        /\ UNCHANGED <<file, state>>
    BY <1>4 DEF Load, Owes, stores
  <2>2. Truth[h] = Edited(c)
    BY <1>2, <2>1 DEF Leads, Edited, After
  <2>3. CASE Edited(c) = file[h]
    <3>1. call'[p] = NextEdit(c)
      BY <1>0, <1>2, <1>4, <2>1, <2>3 DEF Load, Goes
    <3>2. Settled(NextEdit(c), file, state, Truth) /\ NextEdit(c).pc \in {"idle", "load"}
      <4>1. file[h] = Truth[h]
        BY <2>2, <2>3
      <4>2. \A st \in Stores : st # h => Leads(c.edits, st, file[st], Truth[st])
        BY <2>1
      <4> HIDE DEF h
      <4> QED
        BY <1>0, <1>1, <1>2, <2>1, <4>1, <4>2, NextEditSettled DEF h
    <3> QED
      BY <1>3, <2>1, <3>1, <3>2
  <2>4. CASE Edited(c) # file[h]
    <3> DEFINE d == [c EXCEPT !.pc = "save", !.set = Edited(c)]
    <3>1. call'[p] = d
      BY <1>0, <1>2, <1>4, <2>1, <2>4 DEF Load, Goes
    <3>2. d.pc = "save" /\ d.set = Edited(c) /\ d.edits = c.edits
      BY <1>0 DEF Call
    <3> HIDE DEF d
    <3>3. Owes(d, file, state, Truth)
      BY <1>2, <2>1, <2>2, <3>2 DEF Owes
    <3> QED
      BY <1>3, <2>1, <3>1, <3>2, <3>3 DEF Settled
  <2> QED
    BY <2>3, <2>4
<1>5. ASSUME c.pc \in {"save", "write"}
      PROVE  \A st \in Stores :
               IF st = h
               THEN Truth[st] = c.set /\ state[st] = IF c.pc = "write" THEN "empty" ELSE "ok"
               ELSE state[st] = "ok" /\ Leads(c.edits, st, file[st], Truth[st])
  BY <1>5 DEF Owes
<1>6. CASE Truncate(p)
  <2> DEFINE d == [c EXCEPT !.pc = "write"]
  <2>1. /\ call'[p] = d /\ c.pc = "save"
        /\ file' = [file EXCEPT ![h] = {}] /\ state' = [state EXCEPT ![h] = "empty"]
    BY <1>0, <1>2, <1>6 DEF Truncate, Goes
  <2>2. d.pc = "write" /\ d.set = c.set /\ d.edits = c.edits
    BY <1>0 DEF Call
  <2> HIDE DEF d
  <2>3. ASSUME NEW st \in Stores
        PROVE  IF st = h THEN Truth[st] = d.set /\ state'[st] = "empty"
               ELSE state'[st] = "ok" /\ Leads(d.edits, st, file'[st], Truth[st])
    BY <1>0, <1>5, <2>1, <2>2
  <2>4. Owes(d, file', state', Truth)
    BY <1>2, <2>2, <2>3 DEF Owes
  <2> QED
    BY <1>3, <2>1, <2>2, <2>4 DEF Settled
<1>7. CASE Write(p)
  <2>1. c.pc = "write" /\ state[h] = "empty"
    BY <1>2, <1>5, <1>7 DEF Write
  <2>2. /\ call'[p] = NextEdit(c)
        /\ file' = [file EXCEPT ![h] = c.set] /\ state' = [state EXCEPT ![h] = "ok"]
    BY <1>0, <1>2, <1>7, <2>1 DEF Write, Goes
  <2>3. /\ \A st \in Stores : state'[st] = "ok"
        /\ \A st \in Stores : st # h => Leads(c.edits, st, file'[st], Truth[st])
        /\ file'[h] = Truth[h]
    BY <1>0, <1>2, <1>5, <2>1, <2>2
  <2>4. Settled(NextEdit(c), file', state', Truth) /\ NextEdit(c).pc \in {"idle", "load"}
    BY <1>0, <1>1, <1>2, <2>3, NextEditSettled
  <2> QED
    BY <1>3, <2>2, <2>4
<1> QED
  BY <1>4, <1>6, <1>7

LEMMA ReaderSettled ==
  ASSUME GroundInv, NEW p \in Procs,
         LoadEmitted(p) \/ LoadMutes(p) \/ LoadHidden(p) \/ Show(p),
         Owes(call[p], file, state, Truth)
  PROVE  /\ Settled(call'[p], file', state', Truth') /\ reposted' = reposted
         /\ call'[p].pc = "post" => \A t \in call'[p].left : KeyOf(t) \notin Posted'
<1> DEFINE c == call[p]
<1>0. /\ c \in Call /\ call \in [Procs -> Call] /\ CallOK(c, Grounds)
  BY DEF GroundInv, TypeOK, CallsOK
<1>1. /\ UNCHANGED <<file, state, reposted>> /\ Truth' = Truth /\ Posted' = Posted
      /\ c.pc \in {"emitted", "mutes", "show"}
  BY DEF LoadEmitted, LoadMutes, LoadHidden, Show, Goes, Refuse, history, stores, Truth, Posted
<1>2. AtRest(file, state, Truth)
  BY <1>1 DEF Owes
<1>3. NoCall.pc = "idle" /\ Settled(NoCall, file, state, Truth)
  BY <1>2, NoCallSettled
<1>4. ASSUME call'[p] = NoCall
      PROVE  /\ Settled(call'[p], file', state', Truth') /\ reposted' = reposted
             /\ call'[p].pc = "post" => \A t \in call'[p].left : KeyOf(t) \notin Posted'
  BY <1>1, <1>3, <1>4
<1>5. CASE LoadEmitted(p)
  <2> DEFINE e == <<Drops("escalated", {})>>
             d == [c EXCEPT !.pc = "mutes", !.set = file["escalated"], !.edits = e]
  <2>1. call'[p] = d \/ call'[p] = NoCall
    BY <1>0, <1>5 DEF LoadEmitted, Goes, Refuse
  <2>2. /\ d.pc = "mutes" /\ d.edits = e /\ d.set = file["escalated"]
        /\ d.posted = c.posted
    BY <1>0 DEF Call
  <2>3. c.posted = {} /\ file["escalated"] = Truth["escalated"]
    BY <1>0, <1>2, <1>5 DEF CallOK, LoadEmitted, AtRest, Stores
  <2>4. OneEach(e)
    BY DEF OneEach
  <2> HIDE DEF d
  <2>5. Owes(d, file, state, Truth)
    BY <1>2, <2>2, <2>3, <2>4 DEF Owes
  <2> QED
    BY <1>1, <1>4, <2>1, <2>2, <2>5 DEF Settled
<1>6. CASE LoadMutes(p)
  <2> DEFINE d == [c EXCEPT !.pc = "post", !.left = Wanted(c)]
  <2>1. call'[p] = d \/ call'[p] = NoCall
    BY <1>0, <1>6 DEF LoadMutes, Goes, Refuse
  <2>2. /\ d.pc = "post" /\ d.edits = c.edits /\ d.set = c.set
        /\ d.posted = c.posted /\ d.left = Wanted(c)
    BY <1>0 DEF Call
  <2> HIDE DEF d
  <2>3. /\ c.edits # <<>> /\ c.pc = "mutes" /\ c.set = Truth["escalated"] /\ c.posted = {}
        /\ c.edits = <<Drops("escalated", {})>> /\ OneEach(c.edits)
    BY <1>6 DEF LoadMutes, Owes
  <2>4. Owes(d, file, state, Truth)
    BY <1>2, <2>2, <2>3 DEF Owes, AtRest
  <2>5. \A t \in d.left : KeyOf(t) \notin Posted
    BY <2>2, <2>3, TruthOf DEF Wanted
  <2> QED
    BY <1>1, <1>4, <2>1, <2>2, <2>4, <2>5 DEF Settled
<1>7. CASE LoadHidden(p)
  <2> DEFINE hidden == IF state["muted"] = "ok" THEN file["muted"] ELSE {}
             d == [c EXCEPT !.pc = "show", !.set = hidden]
  <2>1. call'[p] = d
    BY <1>0, <1>7 DEF LoadHidden, Goes
  <2>2. d.pc = "show" /\ d.edits = c.edits
    BY <1>0 DEF Call
  <2> HIDE DEF d
  <2>3. OneEach(c.edits)
    BY DEF Owes
  <2>4. Owes(d, file, state, Truth)
    BY <1>2, <2>2, <2>3 DEF Owes
  <2> QED
    BY <1>1, <2>1, <2>2, <2>4 DEF Settled
<1>8. CASE Show(p)
  <2>1. call'[p] = NoCall
    BY <1>0, <1>8 DEF Show, Goes
  <2> QED
    BY <1>4, <2>1
<1> QED
  BY <1>5, <1>6, <1>7, <1>8

LEMMA PostSettled ==
  ASSUME GroundInv, NEW p \in Procs, Owes(call[p], file, state, Truth),
         accidents' = 0,
         \/ \E t \in Tangles : PostTangle(p, t)
         \/ PostFails(p) \/ RaisePost(p) \/ RaiseFails(p)
  PROVE  Settled(call'[p], file', state', Truth')
<1> DEFINE c == call[p]
<1>0. /\ c \in Call /\ call \in [Procs -> Call] /\ CallOK(c, Grounds)
      /\ accidents \in Nat /\ posts \in [Keys -> 0..MaxPosts]
      /\ standing \in [Stores -> SUBSET Keys]
  BY StoresAssumption DEF GroundInv, TypeOK, CallsOK
<1>f. UNCHANGED <<file, state>> /\ ~Accident
  <2>1. ~Accident
    BY <1>0 DEF Accident
  <2>2. UNCHANGED stores
    BY Zenon DEF PostTangle, PostFails, RaisePost, RaiseFails
  <2> QED
    BY <2>1, <2>2 DEF stores
(* What the stores ought to hold after a post of k.                        *)
<1>l. ASSUME NEW who, NEW k \in Keys, Lands(who, k)
      PROVE  /\ Truth'["escalated"] = Truth["escalated"] \cup {k}
             /\ \A st \in Stores \ {"escalated"} : Truth'[st] = Truth[st]
  <2>1. posts' = [posts EXCEPT ![k] = @ + 1] /\ standing' = standing /\ posts[k] + 1 > 0
    BY <1>0, <1>l, StoresAssumption DEF Lands
  <2>2. Posted' = Posted \cup {k}
    BY <1>0, <2>1 DEF Posted
  <2> QED
    BY <2>1, <2>2 DEF Truth, Stores
<1>n. ASSUME UNCHANGED <<posts, history>> PROVE Truth' = Truth
  BY <1>n DEF Truth, Posted, history
(* What `ettle escalate` saves is what ought to be there.                  *)
<1>s. ASSUME NEW d \in Call, d.pc = "post", d.edits = <<Drops("escalated", {})>>,
             NEW T, T["escalated"] = d.set \cup d.posted,
             \A st \in Stores \ {"escalated"} : file[st] = T[st],
             \A st \in Stores : state[st] = "ok"
      PROVE  Settled(SaveEmitted(d), file, state, T)
  <2> DEFINE e == SaveEmitted(d)
             x == Drops("escalated", {})
  <2>1. e.pc = "save" /\ e.edits = <<x>> /\ e.set = d.set \cup d.posted
    BY <1>s DEF SaveEmitted, Call
  <2>2. x \in Edit /\ x.store = "escalated"
    BY DropsEdit DEF Stores
  <2> HIDE DEF e, x
  <2>3. DOMAIN <<x>> = {1} /\ <<x>>[1] = x
    OBVIOUS
  <2>4. \A st \in Stores \ {"escalated"} : Leads(<<x>>, st, file[st], T[st])
    BY <1>s, <2>2, <2>3 DEF Leads
  <2>5. OneEach(<<x>>)
    BY <2>3 DEF OneEach
  <2>6. Owes(e, file, state, T)
    BY <1>s, <2>1, <2>2, <2>3, <2>4, <2>5 DEF Owes
  <2> QED
    BY <2>1, <2>6 DEF Settled, e
<1>p. ASSUME c.pc = "post"
      PROVE  /\ c.edits = <<Drops("escalated", {})>> /\ OneEach(c.edits)
             /\ \A st \in Stores \ {"escalated"} : file[st] = Truth[st]
             /\ \A st \in Stores : state[st] = "ok"
             /\ Truth["escalated"] = c.set \cup c.posted
  BY <1>0, <1>p DEF Owes, CallOK
<1>1. ASSUME NEW t \in Tangles, PostTangle(p, t)
      PROVE  Settled(call'[p], file', state', Truth')
  <2> DEFINE d == [c EXCEPT !.left = c.left \ {t}, !.posted = c.posted \cup {KeyOf(t)}]
  <2>1. KeyOf(t) \in Keys /\ c.pc = "post" /\ Lands("cli", KeyOf(t))
    BY <1>1 DEF Tangles, KeyOf, PostTangle
  <2>2. /\ d \in Call /\ d.pc = "post" /\ d.edits = c.edits /\ d.set = c.set
        /\ d.posted = c.posted \cup {KeyOf(t)}
    BY <1>0, <2>1 DEF Call
  <2>3. call'[p] = SaveEmitted(d) \/ call'[p] = d
    BY <1>0, <1>1 DEF PostTangle
  <2> HIDE DEF d
  <2>4. /\ Truth'["escalated"] = d.set \cup d.posted
        /\ \A st \in Stores \ {"escalated"} : file[st] = Truth'[st]
    BY <1>l, <1>p, <2>1, <2>2
  <2>5. Settled(SaveEmitted(d), file, state, Truth')
    BY <1>p, <1>s, <2>1, <2>2, <2>4
  <2>6. Owes(d, file, state, Truth')
    BY <1>p, <2>1, <2>2, <2>4 DEF Owes
  <2> QED
    BY <1>f, <2>2, <2>3, <2>5, <2>6 DEF Settled
<1>2. CASE PostFails(p)
  <2>1. c.pc = "post" /\ call'[p] = SaveEmitted(c) /\ Truth' = Truth
    BY <1>0, <1>2, <1>f, <1>n DEF PostFails
  <2>2. Settled(SaveEmitted(c), file, state, Truth)
    BY <1>0, <1>p, <1>s, <2>1
  <2> QED
    BY <1>f, <2>1, <2>2
<1>3. CASE RaisePost(p) \/ RaiseFails(p)
  <2>1. c.pc = "raise" /\ AtRest(file, state, Truth) /\ Raising(c)
    BY <1>0, <1>3 DEF RaisePost, RaiseFails, Owes, CallOK
  <2>2. PICK k \in Keys : c.edits = <<Adds("escalated", k)>>
    BY <2>1 DEF Raising
  <2> DEFINE x == Adds("escalated", k)
  <2>3. /\ x \in Edit /\ x.store = "escalated" /\ x.add = {k}
        /\ \A A : After(x, A) = A \cup {k}
    BY AddsEdit DEF Stores, Adds, After
  <2> HIDE DEF x
  <2>4. Head(c.edits) = x /\ c.edits = <<x>> /\ OneEach(c.edits)
    BY <2>2 DEF x, Owes
  <2>5. CASE RaisePost(p)
    <3> DEFINE d == [c EXCEPT !.pc = "load"]
    <3>1. d.pc = "load" /\ d.edits = <<x>>
      BY <1>0, <2>4 DEF Call
    <3>2. call'[p] = d /\ Lands("mcp", k)
      BY <1>0, <2>3, <2>4, <2>5 DEF RaisePost
    <3> HIDE DEF d
    <3>3. ASSUME NEW st \in Stores PROVE Leads(<<x>>, st, file[st], Truth'[st])
      <4>1. IF st = x.store THEN Truth'[st] = After(x, file[st]) ELSE Truth'[st] = file[st]
        BY <1>l, <2>1, <2>3, <3>2 DEF AtRest
      <4> QED
        BY <2>3, <4>1, OneEditLeads
    <3>4. Owes(d, file, state, Truth')
      BY <2>1, <2>4, <3>1, <3>3 DEF Owes, AtRest
    <3> QED
      BY <1>f, <3>1, <3>2, <3>4 DEF Settled
  <2>6. CASE RaiseFails(p)
    <3>1. call'[p] = NoCall /\ Truth' = Truth
      BY <1>0, <1>f, <1>n, <2>6 DEF RaiseFails
    <3> QED
      BY <1>f, <2>1, <3>1, NoCallSettled
  <2> QED
    BY <1>3, <2>5, <2>6
<1> QED
  BY <1>1, <1>2, <1>3

(* Two tangles of one key are the same tangle: what is left to post after  *)
(* a post was not posted by it.                                            *)
LEMMA FreshPosts ==
  ASSUME GroundInv, NEW p \in Procs, accidents' = 0,
         \/ \E t \in Tangles : PostTangle(p, t)
         \/ PostFails(p) \/ RaisePost(p) \/ RaiseFails(p),
         \A a, b \in Subjects : a = b,
         call[p].pc = "post" => \A t \in call[p].left : KeyOf(t) \notin Posted
  PROVE  /\ reposted' = reposted
         /\ call'[p].pc = "post" => \A t \in call'[p].left : KeyOf(t) \notin Posted'
<1> DEFINE c == call[p]
<1>0. /\ c \in Call /\ call \in [Procs -> Call] /\ accidents \in Nat
      /\ posts \in [Keys -> 0..MaxPosts] /\ c.left \in SUBSET Tangles
  BY StoresAssumption DEF GroundInv, TypeOK, Call
<1>f. ~Accident
  BY <1>0 DEF Accident
<1>1. ASSUME NEW t \in Tangles, PostTangle(p, t)
      PROVE  /\ reposted' = reposted
             /\ call'[p].pc = "post" => \A u \in call'[p].left : KeyOf(u) \notin Posted'
  <2> DEFINE d == [c EXCEPT !.left = c.left \ {t}, !.posted = c.posted \cup {KeyOf(t)}]
  <2>1. c.pc = "post" /\ t \in c.left /\ Lands("cli", KeyOf(t)) /\ KeyOf(t) \in Keys
    BY <1>1 DEF PostTangle, Tangles, KeyOf
  <2>2. posts[KeyOf(t)] \in Nat /\ ~(posts[KeyOf(t)] > 0)
    BY <1>0, <2>1, StoresAssumption DEF Posted
  <2>3. reposted' = reposted /\ Posted' \subseteq Posted \cup {KeyOf(t)}
    BY <1>0, <2>1, <2>2 DEF Lands, Posted
  <2>4. d.left = c.left \ {t} /\ SaveEmitted(d).pc = "save"
    BY <1>0 DEF Call, SaveEmitted
  <2>5. call'[p] = SaveEmitted(d) \/ call'[p] = d
    BY <1>0, <1>1 DEF PostTangle
  <2> HIDE DEF d
  <2>6. ASSUME NEW u \in c.left, u # t PROVE KeyOf(u) # KeyOf(t)
    BY <1>0, <2>6 DEF Tangles, KeyOf
  <2> QED
    BY <2>1, <2>3, <2>4, <2>5, <2>6
<1>2. CASE PostFails(p)
  <2>1. reposted' = reposted /\ call'[p] = SaveEmitted(c) /\ SaveEmitted(c).pc = "save"
    BY <1>0, <1>2, <1>f DEF PostFails, history, SaveEmitted, Call
  <2> QED
    BY <2>1
<1>3. CASE RaisePost(p)
  <2>1. [c EXCEPT !.pc = "load"].pc = "load"
    BY <1>0 DEF Call
  <2>2. call'[p].pc = "load"
    BY <1>0, <1>3, <2>1 DEF RaisePost
  <2>3. reposted' = reposted
    BY <1>3 DEF RaisePost, Lands
  <2> QED
    BY <2>2, <2>3
<1>4. CASE RaiseFails(p)
  <2>1. reposted' = reposted /\ call'[p] = NoCall /\ NoCall.pc = "idle"
    BY <1>0, <1>4, <1>f DEF RaiseFails, history, NoCall, NewCall
  <2> QED
    BY <2>1
<1> QED
  BY <1>1, <1>2, <1>3, <1>4

LEMMA StandInit == Init => StandInv
<1> SUFFICES ASSUME Init PROVE StandInv
  OBVIOUS
<1>1. \A p \in Procs : call[p].pc = "idle"
  BY DEF Init, NoCall, NewCall
<1>2. Posted = {} /\ reposted = {}
  BY StoresAssumption DEF Init, Posted
<1>3. AtRest(file, state, Truth)
  BY <1>2 DEF AtRest, Truth, Init
<1>4. FreshOK
  BY <1>1 DEF FreshOK
<1> QED
  BY <1>1, <1>2, <1>3, <1>4, SoloInit DEF StandInv

LEMMA StandStep == StandInv /\ [Next]_vars => StandInv'
<1> SUFFICES ASSUME StandInv, [Next]_vars PROVE StandInv'
  OBVIOUS
<1>0. SoloInv /\ SoloInv' /\ GroundInv /\ accidents \in Nat /\ accidents' \in Nat
  BY SoloStep, StoresAssumption DEF StandInv, SoloInv, GroundInv, TypeOK
<1> SUFFICES ASSUME ~overlapped', accidents' = 0
             PROVE  /\ Idle' => AtRest(file', state', Truth')
                    /\ \A q \in Procs : call'[q].pc # "idle" => Owes(call'[q], file', state', Truth')
                    /\ (\A a, b \in Subjects : a = b) => FreshOK' /\ reposted' = {}
  BY <1>0 DEF StandInv
(* One call moves, the others being idle.                                  *)
<1>1. ASSUME NEW p \in Procs, \A q \in Procs \ {p} : call'[q].pc = "idle",
             Settled(call'[p], file', state', Truth')
      PROVE  /\ Idle' => AtRest(file', state', Truth')
             /\ \A q \in Procs : call'[q].pc # "idle" => Owes(call'[q], file', state', Truth')
  BY <1>1 DEF Settled, Idle
<1>2. ASSUME NEW p \in Procs, Starts(p)
      PROVE  /\ Idle' => AtRest(file', state', Truth')
             /\ \A q \in Procs : call'[q].pc # "idle" => Owes(call'[q], file', state', Truth')
             /\ (\A a, b \in Subjects : a = b) => FreshOK' /\ reposted' = {}
  <2>1. ~overlapped /\ Idle /\ \A q \in Procs \ {p} : call'[q] = call[q]
    BY <1>0, <1>2, StartsPlans
  <2>2. accidents = 0 /\ reposted' = reposted
    BY <1>2 DEF Starts, Judge, Withdraw, RespondClear, Horizon, Escalate, Raise, Begin
  <2>3. AtRest(file, state, Truth) /\ ((\A a, b \in Subjects : a = b) => reposted = {})
    BY <2>1, <2>2 DEF StandInv
  <2>4. Owes(call'[p], file', state', Truth') /\ call'[p].pc # "post"
    BY <1>0, <1>2, <2>3, StartsSettled
  <2>5. \A q \in Procs : call'[q].pc # "post" /\ (q # p => call'[q].pc = "idle")
    BY <2>1, <2>4 DEF Idle
  <2>6. call'[p].pc # "idle"
    BY <1>0, <1>2, StartsPlans
  <2>7. Settled(call'[p], file', state', Truth')
    BY <2>4, <2>6 DEF Settled
  <2>8. FreshOK'
    BY <2>5 DEF FreshOK
  <2> QED
    BY <1>1, <2>2, <2>3, <2>5, <2>7, <2>8
<1>3. ASSUME NEW p \in Procs, Runs(p)
      PROVE  /\ Idle' => AtRest(file', state', Truth')
             /\ \A q \in Procs : call'[q].pc # "idle" => Owes(call'[q], file', state', Truth')
             /\ (\A a, b \in Subjects : a = b) => FreshOK' /\ reposted' = {}
  <2>1. /\ ~overlapped /\ call[p].pc # "idle" /\ OneCall
        /\ \A q \in Procs \ {p} : call'[q] = call[q] /\ call[q].pc = "idle"
    BY <1>0, <1>3, RunsPlans DEF Plans, SoloInv, OneCall
  <2>2. accidents = 0 /\ ~Kill(p)
    <3>1. accidents' = accidents \/ accidents' = accidents + 1
      BY <1>3 DEF Runs, Load, Truncate, Write, LoadEmitted, LoadMutes, LoadHidden, Show,
                  Goes, Refuse, PostTangle, PostFails, RaisePost, RaiseFails, Kill,
                  Fault, Accident, counts
    <3>2. accidents = 0
      BY <1>0, <3>1
    <3> QED
      BY <3>2 DEF Kill, Accident
  <2>3. /\ Owes(call[p], file, state, Truth)
        /\ (\A a, b \in Subjects : a = b) => FreshOK /\ reposted = {}
    BY <2>1, <2>2 DEF StandInv
  <2>4. ASSUME \A a, b \in Subjects : a = b
        PROVE  call[p].pc = "post" => \A t \in call[p].left : KeyOf(t) \notin Posted
    BY <2>3, <2>4 DEF FreshOK
  <2>5. Load(p) \/ Truncate(p) \/ Write(p) =>
          /\ Settled(call'[p], file', state', Truth')
          /\ call'[p].pc # "post" /\ reposted' = reposted
    BY <1>0, <2>3, EditSettled
  <2>6. LoadEmitted(p) \/ LoadMutes(p) \/ LoadHidden(p) \/ Show(p) =>
          /\ Settled(call'[p], file', state', Truth') /\ reposted' = reposted
          /\ call'[p].pc = "post" => \A t \in call'[p].left : KeyOf(t) \notin Posted'
    BY <1>0, <2>3, ReaderSettled
  <2>7. (\E t \in Tangles : PostTangle(p, t)) \/ PostFails(p) \/ RaisePost(p) \/ RaiseFails(p) =>
          /\ Settled(call'[p], file', state', Truth')
          /\ (\A a, b \in Subjects : a = b) =>
               /\ reposted' = reposted
               /\ call'[p].pc = "post" => \A t \in call'[p].left : KeyOf(t) \notin Posted'
    BY <1>0, <2>3, <2>4, PostSettled, FreshPosts
  <2>8. /\ Settled(call'[p], file', state', Truth')
        /\ (\A a, b \in Subjects : a = b) =>
             /\ reposted' = reposted
             /\ call'[p].pc = "post" => \A t \in call'[p].left : KeyOf(t) \notin Posted'
    BY <1>3, <2>2, <2>5, <2>6, <2>7 DEF Runs
  <2>9. (\A a, b \in Subjects : a = b) => FreshOK' /\ reposted' = {}
    BY <2>1, <2>3, <2>8 DEF FreshOK
  <2> QED
    BY <1>1, <2>1, <2>8, <2>9
<1>4. CASE UNCHANGED vars
  <2>1. UNCHANGED <<file, state, call, posts, standing, reposted, overlapped, accidents>>
    BY <1>4 DEF vars, stores, history, counts
  <2>2. Truth' = Truth /\ Posted' = Posted
    BY <2>1 DEF Truth, Posted
  <2> QED
    BY <2>1, <2>2 DEF StandInv, Idle, FreshOK
<1> QED
  BY <1>2, <1>3, <1>4 DEF Next

(* Calls one at a time, none killed and no reply lost: every store is      *)
(* readable and holds exactly the verdicts given and not withdrawn, on     *)
(* either surface (mute.go:24-26, server.go:715-738).                      *)
THEOREM StandingVerdicts == Spec => []VerdictsStand
<1>1. StandInv => VerdictsStand
  BY DEF StandInv, VerdictsStand, Idle, AtRest, Truth, Stores
<1> QED
  BY <1>1, StandInit, StandStep, PTL DEF Spec

(* Calls one at a time, none killed and no reply lost: `ettle escalate`    *)
(* never posts again what was posted before (escalate.go:24, 193-194).     *)
THEOREM PostedOnce == Spec => []NoRepost
<1>1. StandInv => NoRepost
  BY DEF StandInv, NoRepost
<1> QED
  BY <1>1, StandInit, StandStep, PTL DEF Spec
=============================================================================
