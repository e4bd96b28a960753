---------------------------- MODULE Calibration ----------------------------
(***************************************************************************)
(* The verdict log and what `ettle calibrate` reads in it for one kind of  *)
(* tangle (mcpserver/server.go, calib/calib.go, calibrate.go).  Processes  *)
(* append one line per verdict; one that is killed, or a disk that fills,  *)
(* leaves the start of a line.  Nothing in the report depends on the order *)
(* of the rows, so the log is how many of each there are.                  *)
(***************************************************************************)
EXTENDS Integers, FiniteSets, FiniteSetsExt, Functions

CONSTANTS
  Samples,      \* reconcile samples of the horizons answered
  FirmVotes,    \* the firm bar in force, in votes of Samples
  MinPerKind,   \* rows below which a kind is not characterised
  MaxRows,      \* BOUND: verdicts given
  MaxTears      \* BOUND: lines left half-written

ASSUME CalibrationAssumption ==
  /\ Samples \in Nat \ {0}
  /\ FirmVotes \in 0..Samples
  /\ MinPerKind \in Nat /\ MaxRows \in Nat /\ MaxTears \in Nat

(* votes = 0: the row carries no recurrence (no tangle at or above the     *)
(* drop floor has none).                                                   *)
Row == [verdict : {"real", "not_real", "handled", "unknown"}, votes : 0..Samples]

VARIABLES
  log,        \* whole lines, by content
  malformed,  \* lines that do not parse
  torn,       \* the file ends in the middle of a line
  tears,      \* how many of them were left half-written
  given       \* how many verdicts processes set out to record

logVars == <<log, malformed, torn, tears, given>>

NoRows == [r \in Row |-> 0]
Size(rows) == SumFunction(rows)

LogInit == log = NoRows /\ malformed = 0 /\ torn = FALSE /\ tears = 0 /\ given = 0

RecordOver(row) ==
  /\ given < MaxRows
  /\ given' = given + 1
  /\ torn' = FALSE
  /\ log' = [log EXCEPT ![row] = @ + 1]
  /\ UNCHANGED <<malformed, tears>>

(* One appended line.  After a torn line it continues that line, and the   *)
(* two are one that does not parse.                                        *)
Record(row) ==
  /\ given < MaxRows
  /\ given' = given + 1
  /\ torn' = FALSE
  /\ \/ torn /\ malformed' = malformed + 1 /\ UNCHANGED log
     \/ ~torn /\ log' = [log EXCEPT ![row] = @ + 1] /\ UNCHANGED malformed
  /\ UNCHANGED tears

(* The write stops part-way.                                               *)
TornRecord ==
  /\ given < MaxRows
  /\ tears < MaxTears /\ tears' = tears + 1
  /\ given' = given + 1
  /\ torn' = TRUE
  /\ UNCHANGED <<log, malformed>>

LogNext == TornRecord \/ \E row \in Row : Record(row)

LogSpec == LogInit /\ [][LogNext]_logVars

-----------------------------------------------------------------------------
(* The report.                                                             *)

Count(P(_)) == SumFunctionOnSet(log, {r \in Row : P(r)})

Rows       == Size(log)
Real       == Count(LAMBDA r : r.verdict = "real")
NotReal    == Count(LAMBDA r : r.verdict = "not_real")
Malformed  == malformed + (IF torn THEN 1 ELSE 0)
WithRecurrence == Count(LAMBDA r : r.votes > 0)

(* The first of these that holds; the order decides the advice.            *)
BlockedReason ==
  CASE Real = 0 /\ NotReal = 0 -> "no arms"
    [] Real = 0 /\ NotReal > 0 -> "no real"
    [] Real > 0 /\ NotReal = 0 -> "no not_real"
    [] Real > 0 /\ NotReal > 0 /\ WithRecurrence = 0 -> "no recurrence"
    [] Real > 0 /\ NotReal > 0 /\ WithRecurrence > 0 /\ Rows < MinPerKind -> "too few"
    [] OTHER -> ""

BandOpen(votes) == Max({b \in 0..5 : b * Samples <= 5 * votes})
(* Rows are banded by recurrence in fifths, the last band closed above.    *)
Band(votes) ==
  IF votes = Samples THEN 4 ELSE Max({b \in 0..4 : b * Samples <= 5 * votes})

Bucket(b) ==
  [v \in {"real", "not_real", "handled"} |->
     Count(LAMBDA r : r.verdict = v /\ r.votes > 0 /\ Band(r.votes) = b)]

(* The labelled points: rows of either arm that carry recurrence.          *)
Labelled(r) == r.votes > 0 /\ r.verdict \in {"real", "not_real"}

SplitAbove(cut) ==
  [tp |-> Count(LAMBDA r : Labelled(r) /\ r.votes > cut /\ r.verdict = "real"),
   fp |-> Count(LAMBDA r : Labelled(r) /\ r.votes > cut /\ r.verdict = "not_real"),
   fn |-> Count(LAMBDA r : Labelled(r) /\ r.votes <= cut /\ r.verdict = "real"),
   tn |-> Count(LAMBDA r : Labelled(r) /\ r.votes <= cut /\ r.verdict = "not_real")]
SplitAt(cut) ==
  [tp |-> Count(LAMBDA r : Labelled(r) /\ r.votes >= cut /\ r.verdict = "real"),
   fp |-> Count(LAMBDA r : Labelled(r) /\ r.votes >= cut /\ r.verdict = "not_real"),
   fn |-> Count(LAMBDA r : Labelled(r) /\ r.votes < cut /\ r.verdict = "real"),
   tn |-> Count(LAMBDA r : Labelled(r) /\ r.votes < cut /\ r.verdict = "not_real")]

(* TPR + TNR - 1 times the product of the arms, which every cut shares;    *)
(* 0 when an arm is empty.                                                 *)
YoudenJ(c) ==
  LET reals == c.tp + c.fn
      nots  == c.tn + c.fp
  IN IF reals = 0 \/ nots = 0 THEN 0 ELSE c.tp * nots + c.tn * reals - reals * nots

Cuts == {r.votes : r \in {x \in Row : log[x] > 0 /\ Labelled(x)}}

(* The lowest best cut, and the run of neighbours that score the same.     *)
Suggest ==
  LET score == [c \in Cuts |-> YoudenJ(SplitAt(c))]
      bestJ == Max(Range(score))
      best  == Min({c \in Cuts : score[c] = bestJ})
      tied(c) == \A d \in Cuts : d \in (best..c \cup c..best) => score[d] = bestJ
  IN [best |-> best, j |-> bestJ,
      lo |-> Min({c \in Cuts : tied(c)}), hi |-> Max({c \in Cuts : tied(c)}),
      separates |-> bestJ > 0,
      sameAsCurrent |-> SplitAt(FirmVotes) = SplitAt(best)]

Suggests == BlockedReason = "" /\ Cuts # {}

-----------------------------------------------------------------------------
(* Properties.                                                             *)

(* The state is well formed.                                               *)
LogOK ==
  /\ log \in [Row -> 0..MaxRows] /\ given \in 0..MaxRows
  /\ malformed \in 0..tears /\ torn \in BOOLEAN /\ tears \in 0..MaxTears

(* calib.go 168-171: a torn line costs itself and at most the row appended *)
(* to it; every other verdict given is in the report, and the report says  *)
(* whenever one is not.  The state is well formed.                         *)
TearsAreCounted ==
  /\ LogOK
  /\ given - Rows \in 0..2 * tears
  /\ Malformed <= tears
  /\ given > Rows <=> Malformed > 0

(* Each row that carries recurrence is in the one band that holds it, and  *)
(* the bands hold nothing else: no recurrence falls between two bands,     *)
(* 1.0 included, and no band double counts.                                *)
BandsHoldTheRows ==
  /\ \A n \in 1..Samples : \/ n = Samples /\ Band(n) = 4
                           \/ Band(n) * Samples <= 5 * n /\ 5 * n < (Band(n) + 1) * Samples
  /\ \A v \in {"real", "not_real", "handled"} :
       SumFunction([b \in 0..4 |-> Bucket(b)[v]])
         = Count(LAMBDA r : r.verdict = v /\ r.votes > 0)

(* The reference for a cut: how much likelier it asserts a real tangle     *)
(* than one that is not, times both arms.                                  *)
Edge(cut) ==
  LET asserted(v) == Count(LAMBDA r : r.votes >= cut /\ r.votes > 0 /\ r.verdict = v)
      all(v)      == Count(LAMBDA r : r.votes > 0 /\ r.verdict = v)
  IN asserted("real") * all("not_real") - asserted("not_real") * all("real")

(* calib.go 104-108, calibrate.go 122: every cut of the interval, not only *)
(* the observed recurrences, separates the rows equally well, no cut       *)
(* anywhere separates them better, and no better than chance is said       *)
(* exactly when none does; and the bar in force is said to split the rows  *)
(* as the cut does (131-137) exactly when moving it to the cut would       *)
(* change the side of no row.                                              *)
IntervalSeparatesAlike ==
  Suggests =>
    /\ \A c \in Suggest.lo..Suggest.hi : Edge(c) = Edge(Suggest.best)
    /\ \A c \in 0..Samples + 1 : Edge(c) <= Edge(Suggest.best)
    /\ Suggest.separates <=> \E c \in 0..Samples + 1 : Edge(c) > 0
    /\ Suggest.sameAsCurrent <=>
         \A r \in Row : log[r] > 0 /\ Labelled(r) =>
           (r.votes >= FirmVotes <=> r.votes >= Suggest.best)

(* Not so (calib.go 318-320): a kind that reaches the cut may have one arm *)
(* all of whose rows carry no recurrence.                                  *)
BothArmsReachTheCut ==
  Suggests => /\ Count(LAMBDA r : r.votes > 0 /\ r.verdict = "real") > 0
              /\ Count(LAMBDA r : r.votes > 0 /\ r.verdict = "not_real") > 0

(* Not so (calib.go 361-370): best cuts with a worse one between them are  *)
(* a tie, and only the lower of them is reported.                          *)
EveryTieReported ==
  Suggests /\ Suggest.separates =>
    \A c \in Cuts : Edge(c) = Edge(Suggest.best) => c \in Suggest.lo..Suggest.hi

(* Not so (calib.go 168-171): the row after a torn line is lost with it.   *)
TornLineCostsItselfOnly == given - Rows <= tears
=============================================================================
