------------------------------ MODULE Detector ------------------------------
(***************************************************************************)
(* One detection as `ettle standup` runs it over the collected atoms       *)
(* (main.go, mesh.go, ground.go): the pairwise and team-wide passes once   *)
(* per sample, the vote over the samples, the self pass, and the coupling  *)
(* check.  Every pass is a forced tool call to a model that may miss.      *)
(* Confidences are in tenths; topics stand for the token sets of a         *)
(* tangle's subject and explanation.                                       *)
(***************************************************************************)
EXTENDS Naturals, Sequences, FiniteSets, FiniteSetsExt, SequencesExt

CONSTANTS
  People,        \* who a tangle may name
  Alike,         \* pairs of topics whose token sets pass the Jaccard threshold
  Rank,          \* each topic's place in the order of subjects
  AtomSets,      \* the atoms that may have been collected: sets of [from, conf]
  PairReplies,   \* what the model may report in a pairwise call,
  TeamReplies,   \*   in a team-wide call,
  SelfReplies,   \*   in a self call: sequences of raw tangles
  SampleCounts,  \* --samples
  StrayVerdicts  \* the coupling check may judge an index it was not shown

RawTangle == [kind : STRING, parties : SUBSET People, topic : DOMAIN Rank, conf : Int]

ASSUME DetectorAssumption ==
  /\ \A p \in Alike : <<p[2], p[1]>> \in Alike
  /\ \A as \in AtomSets : IsFiniteSet(as) /\ \A a \in as : a.conf \in 1..10
  /\ \A reply \in PairReplies \cup TeamReplies \cup SelfReplies : reply \in Seq(RawTangle)
  /\ SampleCounts \subseteq Nat
  /\ StrayVerdicts \in BOOLEAN

VARIABLES
  atoms,       \* the atoms of this detection
  samples,     \* --samples of this detection
  pc,          \* the call being made, or how the detection ended
  attempt,     \* attempts at the call so far
  left,        \* what failed attempts left in the reply structure
  pairwise,    \* the pairwise tangles of the run under way
  runs,        \* the tangles of each finished run
  cross,       \* the tangles the vote keeps
  floorHeld,   \* how many the abstention floor dropped
  self,        \* the tangles of the self pass
  verdicts,    \* the coupling check's verdicts, by index
  kept, suppressed

vars == <<atoms, samples, pc, attempt, left, pairwise, runs, cross, floorHeld,
          self, verdicts, kept, suppressed>>

-----------------------------------------------------------------------------
(* Tangles.                                                                *)

(* The entries of a sequence at the places of I, in their order.           *)
Keep(s, I) ==
  LET place(n) == CHOOSE i \in I : Cardinality({j \in I : j <= i}) = n
  IN [n \in 1..Cardinality(I) |-> s[place(n)]]

PairwiseKinds == {"collision", "duplication", "stale-assumption", "decision-rights"}
TeamwideKinds == {"teamwide-divergence"}
SelfKinds     == {"stale-assumption"}

SameTangle(a, b) ==
  /\ a.parties \cap b.parties # {}
  /\ <<a.topic, b.topic>> \in Alike

MultiPerson(k) == Cardinality(k.parties) >= 2

(* An unanchored tangle, no party of which shared an atom, gets 0.3.       *)
MinConfForParties(parties) ==
  LET theirs == {a.conf : a \in {x \in atoms : x.from \in parties}}
  IN IF theirs = {} THEN 3 ELSE Min(theirs)

BuildTangle(raw) ==
  [kind |-> raw.kind, parties |-> raw.parties, topic |-> raw.topic,
   conf |-> IF raw.conf \in 1..10 THEN raw.conf ELSE MinConfForParties(raw.parties),
   votes |-> 0, samples |-> 0]

BuildTangles(reply, allowed, selfOnly) ==
  LET accepted(raw) == /\ raw.kind \in allowed
                       /\ selfOnly => Cardinality(raw.parties) = 1
      raws == Keep(reply, {i \in DOMAIN reply : accepted(reply[i])})
  IN [i \in DOMAIN raws |-> BuildTangle(raws[i])]

FilterTeamwideQuorum(tangles) ==
  Keep(tangles, {i \in DOMAIN tangles : Cardinality(tangles[i].parties) >= 3})

DistinctAuthors == Cardinality({a.from : a \in atoms})

DedupeSelf(own, tangles) ==
  LET fresh(s) == ~\E i \in DOMAIN tangles : SameTangle(s, tangles[i])
  IN Keep(own, {i \in DOMAIN own : fresh(own[i])})

FirmBar(kind) == IF kind = "decision-rights" THEN 3 ELSE 5   \* tenths

Firm(k) == IF k.samples > 0 THEN 10 * k.votes >= FirmBar(k.kind) * k.samples
                            ELSE k.conf >= 5

-----------------------------------------------------------------------------
(* The vote.                                                               *)

Items(rs) ==
  LET of(r) == [i \in DOMAIN rs[r] |-> [k |-> rs[r][i], run |-> r]]
      upto[n \in 0..Len(rs)] == IF n = 0 THEN <<>> ELSE upto[n - 1] \o of(n)
  IN upto[Len(rs)]

(* Union-find over every pair of items: an item joins every cluster that   *)
(* holds one like it into one.                                             *)
Clusters(items) ==
  LET joined[n \in 0..Len(items)] ==
        IF n = 0 THEN {}
        ELSE LET before  == joined[n - 1]
                 touched == {c \in before : \E i \in c : SameTangle(items[i].k, items[n].k)}
             IN (before \ touched) \cup {{n} \cup UNION touched}
  IN joined[Len(items)]

(* The first of the members with the highest confidence.                   *)
Representative(items, members) ==
  Min({i \in members : \A j \in members : items[j].k.conf <= items[i].k.conf})

ClusterByMembers(items, members, count) ==
  [items[Representative(items, members)].k EXCEPT
     !.votes = Cardinality(members), !.samples = count]

(* The code divides conf by votes: the mean over runs of each run's best.  *)
Cluster(items, members, count) ==
  LET ran == {items[i].run : i \in members}
      best(r) == Max({items[i].k.conf : i \in {x \in members : items[x].run = r}})
      sum[r \in 0..count] ==
        IF r = 0 THEN 0 ELSE sum[r - 1] + (IF r \in ran THEN best(r) ELSE 0)
  IN [items[Representative(items, members)].k EXCEPT
        !.conf = sum[count],
        !.votes = Cardinality(ran),
        !.samples = count]

BelowHalf(k) == 2 * k.votes < k.samples
BelowFloor(k) == 4 * k.votes < k.samples   \* dropFloorFraction = 0.25

(* The clusters with the tangle that stands for each.                      *)
Voted(rs) ==
  LET items == Items(rs)
  IN {[members |-> c, k |-> Cluster(items, c, Len(rs))] : c \in Clusters(items)}

(* Most votes first, then by subject; clusters that tie in both come in    *)
(* the order the code's map yields, which is any.                          *)
Sorted(clusters) ==
  LET before(a, b) == \/ a.k.votes > b.k.votes
                      \/ a.k.votes = b.k.votes /\ Rank[a.k.topic] < Rank[b.k.topic]
      inOrder(o) == \A i, j \in DOMAIN o : before(o[i], o[j]) => i < j
  IN {[i \in DOMAIN o |-> o[i].k] : o \in {x \in SetToSeqs(clusters) : inOrder(x)}}

-----------------------------------------------------------------------------
(* The calls.                                                              *)

MaxToolAttempts == 3

Calls == {"pairwise", "teamwide", "self", "collision", "duplication", "teamwide-divergence"}

Tangles == cross \o DedupeSelf(self, cross)

(* The coupling check asks once per kind present, in this order.           *)
GroundKindOrder == <<"collision", "duplication", "teamwide-divergence">>

Groundable(ts, kind) == {i \in DOMAIN ts : ts[i].kind = kind /\ MultiPerson(ts[i])}

NextGround(ts, from) ==
  LET open == {n \in from..3 : Groundable(ts, GroundKindOrder[n]) # {}}
  IN IF open = {} THEN "done" ELSE GroundKindOrder[Min(open)]

ApplyAndForget(ts, vs) ==
  LET refused(k) == MultiPerson(k) /\ \E i \in DOMAIN vs : ts[i] = k /\ ~vs[i]
  IN [kept |-> SelectSeq(ts, LAMBDA k : ~refused(k)), suppressed |-> <<>>]

ApplyGroundingVerdicts(ts, vs) ==
  LET refused(i) == MultiPerson(ts[i]) /\ i \in DOMAIN vs /\ ~vs[i]
      held == {i \in DOMAIN ts : refused(i)}
  IN [kept |-> Keep(ts, DOMAIN ts \ held), suppressed |-> Keep(ts, held)]

Init ==
  /\ atoms \in AtomSets /\ samples \in SampleCounts
  /\ pc = "pairwise" /\ attempt = 1 /\ left = <<>>
  /\ pairwise = <<>> /\ runs = <<>>
  /\ cross = <<>> /\ floorHeld = 0 /\ self = <<>>
  /\ verdicts = <<>> /\ kept = <<>> /\ suppressed = <<>>

(* A usable call fills what it carries; an input without the field leaves  *)
(* what earlier attempts put there.                                        *)
Returned(replies) == replies \cup {left}

Fresh == attempt' = 1 /\ left' = <<>>

(* End a run with its tangles: the next run, or the vote over all of them. *)
FinishRun(tangles) ==
  \E rs \in {Append(runs, tangles)} :
    /\ runs' = rs
    /\ \/ /\ Len(rs) < samples
          /\ pc' = "pairwise" /\ UNCHANGED <<cross, floorHeld>>
       \/ /\ samples <= 1
          /\ pc' = "self" /\ cross' = tangles /\ floorHeld' = 0
       \/ /\ samples > 1 /\ Len(rs) = samples
          /\ pc' = "self"
          /\ \E voted \in {Voted(rs)} :
               LET low == {c \in voted : BelowFloor(c.k)}
               IN cross' \in Sorted(voted \ low) /\ floorHeld' = Cardinality(low)

PairwisePass ==
  /\ pc = "pairwise"
  /\ \E found \in {BuildTangles(r, PairwiseKinds, FALSE) : r \in Returned(PairReplies)} :
       \/ /\ DistinctAuthors < 3
          /\ FinishRun(found) /\ pairwise' = <<>>
       \/ /\ DistinctAuthors >= 3
          /\ pairwise' = found /\ pc' = "teamwide"
          /\ UNCHANGED <<runs, cross, floorHeld>>
  /\ Fresh
  /\ UNCHANGED <<atoms, samples, self, verdicts, kept, suppressed>>

TeamwidePass ==
  /\ pc = "teamwide"
  /\ \E found \in {BuildTangles(r, TeamwideKinds, FALSE) : r \in Returned(TeamReplies)} :
       FinishRun(pairwise \o FilterTeamwideQuorum(found))
  /\ pairwise' = <<>>
  /\ Fresh
  /\ UNCHANGED <<atoms, samples, self, verdicts, kept, suppressed>>

(* Where the detection goes once the coupling check has asked the kinds    *)
(* before number `from`.                                                   *)
Continue(ts, vs, from) ==
  /\ pc' = NextGround(ts, from)
  /\ LET split == ApplyGroundingVerdicts(ts, vs)
     IN IF pc' = "done" THEN kept' = split.kept /\ suppressed' = split.suppressed
                        ELSE UNCHANGED <<kept, suppressed>>

SelfPass ==
  /\ pc = "self"
  /\ \E reply \in Returned(SelfReplies) : self' = BuildTangles(reply, SelfKinds, TRUE)
  /\ Continue(cross \o DedupeSelf(self', cross), verdicts, 1)
  /\ Fresh
  /\ UNCHANGED <<atoms, samples, pairwise, runs, cross, floorHeld, verdicts>>

VerdictsByPlace(kind) ==
  UNION {[S -> BOOLEAN] : S \in SUBSET (1..Cardinality(Groundable(Tangles, kind)))}

(* The verdicts of one coupling call; any index left out stays unjudged.   *)
VerdictReplies(kind) ==
  LET shown == IF StrayVerdicts THEN DOMAIN Tangles ELSE Groundable(Tangles, kind)
  IN UNION {[S -> BOOLEAN] : S \in SUBSET shown}

GroundCall ==
  \E n \in 1..3 :
    /\ pc = GroundKindOrder[n]
    /\ \E reply \in Returned(VerdictReplies(pc)) :
         LET all == [i \in DOMAIN reply \cup DOMAIN verdicts |->
                       IF i \in DOMAIN reply THEN reply[i] ELSE verdicts[i]]
         IN verdicts' = all /\ Continue(Tangles, all, n + 1)
    /\ Fresh
    /\ UNCHANGED <<atoms, samples, pairwise, runs, cross, floorHeld, self>>

RepliesTo(call) ==
  CASE call = "pairwise" -> PairReplies
    [] call = "teamwide" -> TeamReplies
    [] call = "self"     -> SelfReplies
    [] OTHER             -> VerdictReplies(call)

MissUncounted ==
  /\ pc \in Calls
  /\ left' \in {left} \cup RepliesTo(pc)
  /\ UNCHANGED <<atoms, samples, pc, attempt, pairwise, runs, cross, floorHeld, self, verdicts,
                 kept, suppressed>>

(* No tool call, or one whose input does not match the schema: what did    *)
(* decode stays in the reply structure, and the call is made again.        *)
Miss ==
  /\ pc \in Calls
  /\ \/ attempt < MaxToolAttempts /\ attempt' = attempt + 1 /\ pc' = pc
        /\ left' \in {left} \cup RepliesTo(pc)
     \/ attempt = MaxToolAttempts /\ pc' = "failed" /\ Fresh
  /\ UNCHANGED <<atoms, samples, pairwise, runs, cross, floorHeld, self, verdicts, kept, suppressed>>

(* A transport or context error is returned at once.                       *)
CallFails ==
  /\ pc \in Calls
  /\ pc' = "failed" /\ Fresh
  /\ UNCHANGED <<atoms, samples, pairwise, runs, cross, floorHeld, self, verdicts, kept, suppressed>>

Next == PairwisePass \/ TeamwidePass \/ SelfPass \/ GroundCall \/ Miss \/ CallFails

Spec == Init /\ [][Next]_vars

-----------------------------------------------------------------------------
(* Properties.                                                             *)

Tangle == [kind : PairwiseKinds \cup TeamwideKinds, parties : SUBSET People,
           topic : DOMAIN Rank, conf : 0..10 * Len(runs) + 10,
           votes : 0..samples, samples : {0, samples}]

(* The state is well formed: tangles of known kinds, at most three         *)
(* attempts at a call, one run per sample.                                 *)
TypeOK ==
  /\ pc \in Calls \cup {"done", "failed"}
  /\ attempt \in 1..MaxToolAttempts
  /\ Len(runs) <= Max({1, samples})
  /\ \A ts \in {pairwise, cross, self, kept, suppressed} : ts \in Seq(Tangle)
  /\ DOMAIN verdicts \subseteq DOMAIN Tangles

(* The reference for the vote: the items reachable from i through pairs    *)
(* that name the same problem, whatever order they came in.                *)
Reachable(items, i) ==
  LET reach[n \in 0..Len(items)] ==
        IF n = 0 THEN {i}
        ELSE LET near == reach[n - 1]
             IN {j \in DOMAIN items :
                   j \in near \/ \E m \in near : SameTangle(items[m].k, items[j].k)}
  IN reach[Len(items)]

RunsOf(items, class) == Cardinality({items[i].run : i \in class})

JustVoted == pc = "self" /\ samples > 1

(* mesh.go 984-991: clusters are the classes of the alike relation, in any *)
(* order of arrival, and a class counts the runs that surfaced it: a run   *)
(* that names it in both passes counts once.  Every class is kept with its *)
(* votes or counted among the dropped.                                     *)
VoteCountsRuns ==
  JustVoted =>
    LET items   == Items(runs)
        classes == {Reachable(items, i) : i \in DOMAIN items}
        shown(class) == {c \in DOMAIN cross : \E i \in class :
                           /\ cross[c].parties = items[i].k.parties
                           /\ cross[c].topic = items[i].k.topic
                           /\ cross[c].votes = RunsOf(items, class)
                           /\ cross[c].samples = samples}
    IN /\ Len(cross) + floorHeld = Cardinality(classes)
       /\ Cardinality({class \in classes : shown(class) = {}}) = floorHeld

(* mesh.go 183-185: the floor drops nothing the firm bar would have        *)
(* asserted, whichever member of the class stands for it.                  *)
FloorBelowBar ==
  JustVoted =>
    LET items == Items(runs)
        n(i)  == RunsOf(items, Reachable(items, i))
        asserted(i) == Firm([items[i].k EXCEPT !.votes = n(i), !.samples = samples])
    IN \A i \in DOMAIN items :
         asserted(i) => \E c \in DOMAIN cross : cross[c].votes = n(i)

(* A detection that ends with nothing to show, nothing held back and       *)
(* nothing counted found nothing in any run: a failure, a drop or a        *)
(* suppression never reads as all clear (docs/LEGIBILITY.md 0a).           *)
ClearMeansNothingFound ==
  pc = "done" /\ kept = <<>> /\ suppressed = <<>> /\ floorHeld = 0 =>
    /\ Len(runs) = Max({1, samples})
    /\ self = <<>>
    /\ \A r \in DOMAIN runs : runs[r] = <<>>

(* ground.go 86-88: the coupling check holds back only cross-person        *)
(* tangles of the kinds it adjudicates, and never drops one unlisted; the  *)
(* state is well formed at every call.                                     *)
OnlyCheckedKindsHeldBack ==
  /\ TypeOK
  /\ pc = "done" =>
       /\ \A n \in DOMAIN suppressed : /\ suppressed[n].kind \in Range(GroundKindOrder)
                                       /\ MultiPerson(suppressed[n])
       /\ Len(kept) + Len(suppressed) = Len(Tangles)

(* mesh.go 666-674: a detection spends at most three attempts on each call *)
(* it has to make and always ends; no step leaves as much to spend.        *)
CallsAfter ==
  LET perRun == IF DistinctAuthors < 3 THEN 1 ELSE 2
      ahead  == perRun * (Max({1, samples}) - Len(runs))
  IN CASE pc = "pairwise" -> ahead + 3
       [] pc = "teamwide" -> ahead + 2
       [] pc = "self"     -> 3
       [] OTHER           -> 3 - SelectInSeq(GroundKindOrder, LAMBDA k : k = pc)

Budget == IF pc \in Calls THEN MaxToolAttempts * CallsAfter + (4 - attempt) ELSE 0

SpendIsBounded == [][Budget' < Budget]_vars

(* Not so (main.go 300-305): a self tangle is dropped for a cross-person   *)
(* tangle that covers it, before the coupling check; when the check holds  *)
(* that one back, neither is on the agenda.                                *)
CoveredSelfIsCovered ==
  pc = "done" =>
    \A i \in DOMAIN self : \E n \in DOMAIN kept : SameTangle(self[i], kept[n])

(* Not so (mesh.go 1033-1054): the representative of a class names its own *)
(* parties only; a party of another member is not shown the class.         *)
EveryPartySees ==
  JustVoted =>
    \A r \in DOMAIN runs : \A i \in DOMAIN runs[r] :
      floorHeld = 0 => \A w \in runs[r][i].parties :
        \E c \in DOMAIN cross : w \in cross[c].parties
=============================================================================
