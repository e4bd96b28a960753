--------------------------- MODULE DirectedModels ---------------------------
(***************************************************************************)
(* The pure half of internal/ettlemesh/directed.go: belief slots, the emit *)
(* rule, the stale-belief detector, how a model absorbs a delta, and how a *)
(* capture merges fresh atoms into a published self-model.                 *)
(***************************************************************************)
EXTENDS Naturals, Sequences, FiniteSets

CONSTANTS
  People,    \* participants, equal up to folding of the name
  MaxAtoms,  \* BOUND: atoms of one emit, capture or envelope
  Types,     \* atom types
  Subjects,  \* subjects, equal up to case and white space
  Contents,  \* what an atom says of its subject: its content, with the confidence
  tokens     \* the salient words of each subject (tokenSet)

ASSUME ModelsAssumption == MaxAtoms \in Nat

ASSUME TokensAssumption ==
  /\ DOMAIN tokens = Subjects
  /\ \A s \in Subjects : IsFiniteSet(tokens[s])

Atom  == [typ : Types, subject : Subjects, content : Contents]
Slots == Types \X Subjects
Batches == UNION {[1..n -> Atom] : n \in 0..MaxAtoms}

beliefKey(a) == <<a.typ, a.subject>>
Said(atoms) == {atoms[i] : i \in DOMAIN atoms}
Held(atoms) == {beliefKey(a) : a \in Said(atoms)}

(* The last atom of slot k.                                                *)
Latest(atoms, k) ==
  LET at == {i \in DOMAIN atoms : beliefKey(atoms[i]) = k}
  IN atoms[CHOOSE i \in at : \A j \in at : j <= i]

(* The entries of a sequence at the places of I, in their order.           *)
Keep(s, I) ==
  LET kept[n \in 0..Len(s)] ==
        IF n = 0 THEN <<>>
        ELSE IF n \in I THEN Append(kept[n - 1], s[n]) ELSE kept[n - 1]
  IN kept[Len(s)]

(* Where each slot of atoms is first seen.                                 *)
Firsts(atoms) ==
  {i \in DOMAIN atoms : \A j \in 1..i-1 : beliefKey(atoms[j]) # beliefKey(atoms[i])}

CanonicalFirst(atoms) == Keep(atoms, Firsts(atoms))

(* One atom per slot: the last one, where the slot was first seen.         *)
Canonical(atoms) ==
  Keep([i \in DOMAIN atoms |-> Latest(atoms, beliefKey(atoms[i]))], Firsts(atoms))

sameBelief(a, b) == a.content = b.content

EmitDeltaRaw(prior, current) ==
  SelectSeq(current, LAMBDA a : ~\E p \in Said(prior) :
                       beliefKey(p) = beliefKey(a) /\ sameBelief(p, a))

(* The new slots and the changed ones.                                     *)
EmitDelta(prior, current) ==
  LET known == Said(Canonical(prior))
      now   == Canonical(current)
      New(a) == ~\E p \in known : beliefKey(p) = beliefKey(a) /\ sameBelief(p, a)
  IN Keep(now, {i \in DOMAIN now : New(now[i])})

(* The beliefs that drifted or were dropped.                               *)
StaleAmong(believed, now) ==
       {[believed |-> b, kind |-> "dropped"] :
           b \in {x \in believed : beliefKey(x) \notin Held(now)}}
  \cup {[believed |-> b, kind |-> "drifted"] :
           b \in {x \in believed : \E c \in Said(now) :
                     beliefKey(c) = beliefKey(x) /\ ~sameBelief(c, x)}}
StaleBeliefsRaw(beliefs, current) == StaleAmong(Said(beliefs), current)
StaleBeliefs(beliefs, current) ==
  StaleAmong(Said(Canonical(beliefs)), Canonical(current))

(* absorb: a changed slot is replaced in place, a new one is appended.     *)
absorb(beliefs, delta) ==
  [i \in DOMAIN beliefs |-> IF beliefKey(beliefs[i]) \in Held(delta)
                            THEN Latest(delta, beliefKey(beliefs[i]))
                            ELSE beliefs[i]]
  \o Keep(delta, {i \in DOMAIN delta : beliefKey(delta[i]) \notin Held(beliefs)})

----------------------------------------------------------------------------
(* MergeSelf.                                                              *)

(* jaccard(x, y) >= 1/2, and jaccard(x, y) <= jaccard(x, z), without division. *)
Common(x, y) == Cardinality(tokens[x] \cap tokens[y])
Union(x, y)  == Cardinality(tokens[x] \cup tokens[y])
Alike(x, y)  == Common(x, y) > 0 /\ 2 * Common(x, y) >= Union(x, y)
NoCloser(x, y, z) == Common(x, y) * Union(x, z) <= Common(x, z) * Union(x, y)

nearestAcross(in, a) ==
  {i \in DOMAIN in : /\ Alike(a.subject, in[i].subject)
                     /\ \A j \in 1..i-1 : ~Alike(a.subject, in[j].subject)}

(* The place of the atom a supersedes, as a set of at most one: its own    *)
(* slot, else the last of the closest subjects of its type.                *)
nearestSlot(in, a) ==
  LET own == {i \in DOMAIN in : beliefKey(in[i]) = beliefKey(a)}
      near == {i \in DOMAIN in : in[i].typ = a.typ /\ Alike(a.subject, in[i].subject)}
      Beats(i, j) == /\ NoCloser(a.subject, in[j].subject, in[i].subject)
                     /\ NoCloser(a.subject, in[i].subject, in[j].subject) => j <= i
  IN IF own # {} THEN own ELSE {i \in near : \A j \in near : Beats(i, j)}

Supersede(out, a) == Append(Keep(out, DOMAIN out \ nearestSlot(out, a)), a)

MergeSelf(prev, next) ==
  LET out[n \in 0..Len(next)] ==
        IF n = 0 THEN Canonical(prev) ELSE Supersede(out[n - 1], next[n])
  IN Canonical(out[Len(next)])
=============================================================================
