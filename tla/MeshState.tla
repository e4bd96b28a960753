------------------------------ MODULE MeshState ------------------------------
(***************************************************************************)
(* The store of directed models (MeshState in directed.go) carried across  *)
(* rounds.  Between rounds people restate their self-models, whole (a new  *)
(* emit) or through a capture's merge; a round covers the people present.  *)
(***************************************************************************)
EXTENDS DirectedModels

CONSTANTS
  MaxRestates,  \* BOUND: times a self-model changes
  MaxRounds     \* BOUND: rounds

ASSUME MeshAssumption ==
  MaxRestates \in Nat /\ MaxRounds \in Nat

Unsaid == "unsaid"
NoMerge == <<>>

VARIABLES
  self,      \* each person's current self-model
  models,    \* models[o][s]: the beliefs o holds about s
  round,
  told,      \* history: told[o][s][slot]: what s last said of it with o present
  merge,     \* history: what the last step merged, <<prev, next>>, if it did
  restates

vars == <<self, models, round, told, merge, restates>>

TypeOK ==
  /\ self \in [People -> Seq(Atom)]
  /\ models \in [People -> [People -> Seq(Atom)]]
  /\ \A p \in People : models[p][p] = <<>>   \* nobody models themselves
  /\ round \in 0..MaxRounds
  /\ told \in [People -> [People -> [Slots -> Contents \cup {Unsaid}]]]
  /\ merge = NoMerge \/ merge \in Seq(Atom) \X Batches
  /\ restates \in 0..MaxRestates

Init ==
  /\ self = [p \in People |-> <<>>]
  /\ models = [o \in People |-> [s \in People |-> <<>>]]
  /\ round = 0
  /\ told = [o \in People |-> [s \in People |-> [k \in Slots |-> Unsaid]]]
  /\ merge = NoMerge
  /\ restates = 0

Restates(p, atoms) ==
  /\ restates < MaxRestates
  /\ restates' = restates + 1
  /\ self' = [self EXCEPT ![p] = atoms]
  /\ UNCHANGED <<models, round, told>>

(* An emit replaces what was published.                                    *)
Emit(p, atoms) == Restates(p, atoms) /\ merge' = NoMerge

(* A capture merges the newest turns into it.                              *)
Capture(p, atoms) ==
  /\ Restates(p, MergeSelf(self[p], atoms))
  /\ merge' = <<self[p], atoms>>

(* Advance over the people present: every other one of them absorbs what   *)
(* each would otherwise leave stale.                                       *)
Meet(P, o, s) == o \in P /\ s \in P /\ o # s

Advance(P) ==
  LET Tell(s, k, was) == IF \E i \in DOMAIN self[s] : beliefKey(self[s][i]) = k
                         THEN Latest(self[s], k).content ELSE was
  IN
  /\ round < MaxRounds
  /\ round' = round + 1
  /\ models' = [o \in People |-> [s \in People |->
       IF Meet(P, o, s) THEN absorb(models[o][s], EmitDelta(models[o][s], self[s]))
       ELSE models[o][s]]]
  /\ told' = [o \in People |-> [s \in People |->
       IF Meet(P, o, s) THEN [k \in Slots |-> Tell(s, k, told[o][s][k])]
       ELSE told[o][s]]]
  /\ merge' = NoMerge
  /\ UNCHANGED <<self, restates>>

Next ==
  \/ \E p \in People, atoms \in Batches : Emit(p, atoms) \/ Capture(p, atoms)
  \/ \E P \in SUBSET People : Advance(P)

Spec == Init /\ [][Next]_vars

----------------------------------------------------------------------------
(* After a round nobody present has anything left to send to anybody       *)
(* present: the emit rule never sends the same atom twice                  *)
(* (directed.go:70-75, "a phantom, unending emission").                    *)
RoundSettles ==
  [][\A P \in SUBSET People : Advance(P) =>
       \A o, s \in P : o # s => EmitDelta(models'[o][s], self[s]) = <<>>]_vars

(* A model holds one belief per slot, and it is the last thing its subject *)
(* said there in a round they shared: a shadowed atom, another observer's  *)
(* news or a round missed never shows (directed.go:69-78, 188-194, 296).   *)
(* The state is well formed.                                               *)
ModelIsWhatWasTold ==
  /\ TypeOK
  /\ \A o, s \in People :
       /\ Cardinality(Held(models[o][s])) = Len(models[o][s])
       /\ \A k \in Slots :
            told[o][s][k] = IF k \in Held(models[o][s])
                            THEN Latest(models[o][s], k).content ELSE Unsaid

(* The two sides of surprise agree (directed.go:158-163): what a subject   *)
(* would send covers exactly the slots whose belief drifted and the slots  *)
(* the observer knows nothing of.                                          *)
BothSidesAgree ==
  \A o, s \in People :
    LET m == models[o][s]
    IN Held(EmitDelta(m, self[s])) =
         {beliefKey(d.believed) : d \in {x \in StaleBeliefs(m, self[s]) : x.kind = "drifted"}}
           \cup (Held(self[s]) \ Held(m))

(* A merged self-model runs from the longest untouched belief to the last  *)
(* restated one, the order the reconcile's read cap relies on              *)
(* (directed.go:366-368).                                                  *)
RestatedComeLast ==
  merge # NoMerge /\ merge[2] # <<>> =>
    LET prev == Canonical(merge[1])
        next == merge[2]
        out  == MergeSelf(merge[1], next)
        At(atoms, a) == CHOOSE i \in DOMAIN atoms : atoms[i] = a
    IN /\ out[Len(out)] = next[Len(next)]
       /\ \A i, j \in DOMAIN out : i < j =>
            /\ out[i] \in Said(next) => out[j] \in Said(next)
            /\ out[j] \notin Said(next) => At(prev, out[i]) < At(prev, out[j])

(* What a merge may lose (directed.go:345-371): a fresh atom only to a     *)
(* later fresh one like it, a published one only to a fresh one like it;   *)
(* one atom supersedes one belief, its own slot if that is held, and no    *)
(* kept belief is closer to it than the one it supersedes.  What stays,     *)
(* and what was restated, is in the order of RestatedComeLast.             *)
Like(a, b) == a.typ = b.typ /\ (a.subject = b.subject \/ Alike(a.subject, b.subject))

MergeLosesOnlyRestated ==
  /\ RestatedComeLast
  /\ merge # NoMerge =>
       LET prev == Canonical(merge[1])
           next == merge[2]
           out  == MergeSelf(merge[1], next)
           Lost == Said(prev) \ Said(out)
       IN /\ \A i \in DOMAIN next :
               (\A j \in i+1..Len(next) : ~Like(next[j], next[i])) => next[i] \in Said(out)
          /\ \A b \in Lost : \E i \in DOMAIN next : Like(next[i], b)
          /\ Cardinality(Lost) <= Len(next)
          /\ Len(next) = 1 => \A b \in Lost, c \in Said(prev) \ Lost :
               LET a == next[1]
               IN beliefKey(b) = beliefKey(a) \/
                  (beliefKey(c) # beliefKey(a) /\
                     (c.typ = a.typ => NoCloser(a.subject, c.subject, b.subject)))

(* "re-merging the same atoms must not grow the model"                     *)
(* (mergeself_test.go:61): a capture whose cursor was not saved merges its *)
(* turns again.                                                            *)
RemergeDoesNotGrow ==
  merge # NoMerge =>
    LET once == MergeSelf(merge[1], merge[2])
    IN Len(MergeSelf(once, merge[2])) <= Len(once)
=============================================================================
