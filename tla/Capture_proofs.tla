--------------------------- MODULE Capture_proofs ---------------------------
(***************************************************************************)
(* Proofs about Capture, for any set of sessions and of concurrent capture *)
(* processes, any transcript length and any number of failures.            *)
(***************************************************************************)
EXTENDS Capture, TLAPS

(* The transcripts a live process has read by now.                         *)
HasRead(j) == IF j.pc = "read" THEN j.paths \ j.todo ELSE j.paths

(* What a process in flight knows of a transcript it has read, given the   *)
(* lengths L of the transcripts and the turns A accounted for: the range   *)
(* starts where everything is accounted for, and ends inside the file.     *)
JobOK(j, L, A) ==
  /\ j.todo \subseteq j.paths
  /\ j.pc = "idle" => j.paths = {}
  /\ \A s \in HasRead(j) :
       /\ j.from[s] <= j.total[s]
       /\ j.total[s] <= L[s]
       /\ Upto(s, j.from[s]) \subseteq A
  /\ j.pc = "save" =>
       \A s \in j.paths : Upto(s, j.total[s]) \subseteq A

JobsOK == \A p \in Procs : JobOK(job[p], len, accounted)

OffsetInFile == \A s \in Sessions : offset[s] <= len[s]

(* Inductive: OffsetCovered strengthened with what the processes hold.     *)
CoverInv == TypeOK /\ OffsetInFile /\ OffsetCovered /\ JobsOK

Lengths == [Sessions -> 0..MaxTurns]

----------------------------------------------------------------------------
LEMMA NoJobOK ==
  ASSUME NEW L, NEW A
  PROVE  NoJob \in Job /\ JobOK(NoJob, L, A)
BY CaptureAssumption DEF NoJob, NewJob, Job, JobOK, HasRead

LEMMA SpawnedJobOK ==
  ASSUME NEW S \in SUBSET Sessions, NEW L, NEW A
  PROVE  NewJob("read", S) \in Job /\ JobOK(NewJob("read", S), L, A)
BY CaptureAssumption DEF NewJob, Job, JobOK, HasRead

(* Transcripts only grow and turns stay accounted for, so what a process   *)
(* in hand relies on stays true while others step.                         *)
LEMMA JobStable ==
  ASSUME NEW j \in Job, NEW L \in Lengths, NEW M \in Lengths, NEW A, NEW B,
         \A s \in Sessions : L[s] <= M[s], A \subseteq B, JobOK(j, L, A)
  PROVE  JobOK(j, M, B)
<1>1. \A s \in HasRead(j) : /\ s \in Sessions
                            /\ j.total[s] \in Nat /\ L[s] \in Nat /\ M[s] \in Nat
  BY CaptureAssumption DEF HasRead, Job, Lengths
<1> QED
  BY <1>1 DEF JobOK

(* A read that starts where everything is accounted for leaves no hole     *)
(* once its own range is accounted for (capture.go:49-54, 91-93).          *)
LEMMA RangeCloses ==
  ASSUME NEW j \in Job, NEW s \in j.paths, NEW A,
         Upto(s, j.from[s]) \subseteq A
  PROVE  Upto(s, j.total[s]) \subseteq A \cup Range(j)
BY CaptureAssumption DEF Upto, Range, Turns, Job

LEMMA TypeInit == Init => TypeOK
<1> SUFFICES ASSUME Init PROVE TypeOK
  OBVIOUS
<1> USE CaptureAssumption DEF Init
<1>1. wired \in BOOLEAN /\ overlapped \in BOOLEAN
  BY Zenon
<1>2. job \in [Procs -> Job]
  BY NoJobOK
<1> QED
  BY <1>1, <1>2 DEF TypeOK

LEMMA TypeStep == TypeOK /\ [Next]_vars => TypeOK'
<1> SUFFICES ASSUME TypeOK, [Next]_vars PROVE TypeOK'
  OBVIOUS
<1> USE CaptureAssumption
<1>0. ASSUME NEW S \in SUBSET Sessions, NEW p \in Procs, Spawn(p, S)
      PROVE  job' \in [Procs -> Job] /\ overlapped' \in BOOLEAN
  <2>1. overlapped' \in BOOLEAN
    BY <1>0, Zenon DEF Spawn
  <2> QED
    BY <1>0, <2>1, SpawnedJobOK DEF Spawn, TypeOK
<1>1. CASE UNCHANGED vars
  BY <1>1 DEF TypeOK, vars, files, joining, history
<1>2. ASSUME NEW s \in Sessions, NEW loud \in BOOLEAN, Append(s, loud)
      PROVE TypeOK'
  <2>1. len[s] + 1 \in 1..MaxTurns
    BY <1>2 DEF Append, TypeOK
  <2> QED
    BY <1>2, <2>1 DEF Append, TypeOK, joining, history, Turns
<1>3. CASE InitRecord
  BY <1>3 DEF InitRecord, TypeOK, files, history
<1>4. ASSUME NEW I \in SUBSET Sessions, InitSeed(I)
      PROVE  TypeOK'
  <2>1. \A s \in Sessions : Upto(s, len[s]) \subseteq Turns
    BY DEF Upto, Turns, TypeOK
  <2> QED
    BY <1>4, <2>1 DEF InitSeed, TypeOK, files
<1>5. CASE InitInstall
  BY <1>5 DEF InitInstall, TypeOK, files, history
<1>6. ASSUME NEW s \in Sessions,
             SessionEndSkipped(s) \/ SpawnFails(s) \/ WindowPasses(s)
      PROVE TypeOK'
  <2>1. CASE SessionEndSkipped(s)
    BY <2>1 DEF SessionEndSkipped, TypeOK, joining, history
  <2>2. CASE SpawnFails(s)
    BY <2>2 DEF SpawnFails, TypeOK, files, joining, history
  <2>3. CASE WindowPasses(s)
    BY <2>3 DEF WindowPasses, TypeOK, files, joining, history
  <2> QED
    BY <1>6, <2>1, <2>2, <2>3
<1>7. ASSUME NEW s \in Sessions, NEW p \in Procs,
             StopHook(s, p) \/ SessionEndHook(s, p)
      PROVE TypeOK'
  <2>1. Spawn(p, {s})
    BY <1>7 DEF StopHook, SessionEndHook
  <2>2. job' \in [Procs -> Job] /\ overlapped' \in BOOLEAN
    BY <1>0, <2>1
  <2>3. CASE StopHook(s, p)
    BY <2>2, <2>3 DEF StopHook, TypeOK, files, joining
  <2>4. CASE SessionEndHook(s, p)
    BY <2>2, <2>4 DEF SessionEndHook, TypeOK, joining
  <2> QED
    BY <1>7, <2>3, <2>4
<1>8. ASSUME NEW S \in SUBSET Sessions, NEW p \in Procs, ManualCapture(p, S)
      PROVE TypeOK'
  <2>1. Spawn(p, S)
    BY <1>8 DEF ManualCapture
  <2>2. job' \in [Procs -> Job] /\ overlapped' \in BOOLEAN
    BY <1>0, <2>1
  <2> QED
    BY <1>8, <2>2 DEF ManualCapture, TypeOK, files, joining
<1>9. ASSUME NEW p \in Procs, Step(p) \/ Die(p)
      PROVE TypeOK'
  <2>0. job[p] \in Job /\ Range(job[p]) \subseteq Turns /\ Note(job[p]) \subseteq Turns
    BY DEF TypeOK, Range, Note
  <2>1. ASSUME NEW s \in Sessions, ReadPath(p, s) PROVE TypeOK'
    <3>1. Start(s) \in 0..MaxTurns
      BY DEF Start, TypeOK
    <3> QED
      <4> DEFINE j == [job[p] EXCEPT !.todo = @ \ {s}, !.from[s] = Start(s),
                                     !.total[s] = len[s]]
      <4>1. j \in Job
        BY <2>0, <3>1 DEF Job, TypeOK
      <4>2. job' = [job EXCEPT ![p] = j]
        BY <2>1 DEF ReadPath, TypeOK
      <4>3. job' \in [Procs -> Job]
        BY <4>1, <4>2 DEF TypeOK
      <4> QED
        BY <2>1, <4>3 DEF ReadPath, TypeOK, files, joining, history
  <2>2. ASSUME NEW s \in Sessions, SaveOffset(p, s) PROVE TypeOK'
    <3>1. Consumed(p, s) \in 0..MaxTurns
      BY <2>0 DEF Consumed, Job
    <3>2. job' \in [Procs -> Job]
      <4> DEFINE j == [job[p] EXCEPT !.todo = @ \ {s}]
      <4>1. j \in Job
        BY <2>0 DEF Job
      <4> QED
        BY <2>2, <4>1, NoJobOK DEF SaveOffset, TypeOK
    <3> QED
      BY <2>2, <3>1, <3>2 DEF SaveOffset, TypeOK, files, joining, history
  <2>3. ASSUME Through(p) PROVE job' \in [Procs -> Job] /\ accounted' \subseteq Turns
    BY <2>0, <2>3 DEF Through, TypeOK, Job
  <2>4. ASSUME NEW at \in {"distill", "fetch", "publish"}, Continue(p, at)
        PROVE job' \in [Procs -> Job] /\ accounted' \subseteq Turns
    BY <2>0, <2>4 DEF Continue, TypeOK, Job
  <2>5. CASE Digest(p)
    BY <2>3, <2>4, <2>5 DEF Digest, TypeOK, files, joining
  <2>6. CASE Distill(p)
    BY <2>3, <2>4, <2>6 DEF Distill, TypeOK, files, joining
  <2>7. CASE OwnAtoms(p)
    BY <2>0, <2>7 DEF OwnAtoms, TypeOK, Job, files, joining, history
  <2>8. CASE Publish(p)
    <3>1. bus' \subseteq Turns
      BY <2>0, <2>8 DEF Publish, Job
    <3> QED
      BY <2>0, <2>3, <2>8, <3>1 DEF Publish, TypeOK, files, joining
  <2>9. CASE Die(p)
    BY <2>9, NoJobOK DEF Die, TypeOK, files, joining, history
  <2> QED
    BY <1>9, <2>1, <2>2, <2>5, <2>6, <2>7, <2>8, <2>9 DEF Step
<1> QED
  BY <1>1, <1>2, <1>3, <1>4, <1>5, <1>6, <1>7, <1>8, <1>9 DEF Next

(* Type correctness: every step of every process keeps the files and the   *)
(* processes well formed.                                                  *)
THEOREM TypeCorrect == Spec => []TypeOK
BY TypeInit, TypeStep, PTL DEF Spec

----------------------------------------------------------------------------
LEMMA CoverInit == Init => CoverInv
<1> SUFFICES ASSUME Init PROVE CoverInv
  OBVIOUS
<1>1. OffsetInFile /\ OffsetCovered
  BY DEF Init, OffsetInFile, OffsetCovered, Upto
<1>2. JobsOK
  BY NoJobOK DEF Init, JobsOK
<1> QED
  BY <1>1, <1>2, TypeInit DEF CoverInv

LEMMA CoverStep == CoverInv /\ [Next]_vars => CoverInv'
<1> SUFFICES ASSUME CoverInv, [Next]_vars PROVE CoverInv'
  OBVIOUS
<1> USE CaptureAssumption
<1>0. TypeOK /\ TypeOK' /\ OffsetInFile /\ OffsetCovered /\ JobsOK
  BY TypeStep DEF CoverInv
<1>l. len \in Lengths /\ len' \in Lengths /\ job \in [Procs -> Job] /\ job' \in [Procs -> Job]
  BY <1>0 DEF TypeOK, Lengths
(* Steps that only let the files grow, or only account for more turns.     *)
<1>1. ASSUME \A s \in Sessions : len[s] <= len'[s],
             accounted \subseteq accounted', offset' = offset
      PROVE  OffsetInFile' /\ OffsetCovered'
  <2>1. \A s \in Sessions : offset[s] \in Nat /\ len[s] \in Nat /\ len'[s] \in Nat
    BY <1>0 DEF TypeOK
  <2> QED
    BY <1>0, <1>1, <2>1 DEF OffsetInFile, OffsetCovered
<1>2. ASSUME \A s \in Sessions : len[s] <= len'[s],
             accounted \subseteq accounted', NEW p \in Procs, job'[p] = job[p]
      PROVE  JobOK(job'[p], len', accounted')
  BY <1>0, <1>l, <1>2, JobStable DEF JobsOK
<1>3. \A s \in Sessions : len[s] <= len[s]
  BY <1>0 DEF TypeOK
(* A step of one process that leaves the files alone.                      *)
<1>4. ASSUME NEW p \in Procs, len' = len, accounted \subseteq accounted',
             \A q \in Procs \ {p} : job'[q] = job[q],
             JobOK(job'[p], len', accounted')
      PROVE  JobsOK'
  BY <1>2, <1>3, <1>4 DEF JobsOK
<1>5. CASE UNCHANGED vars
  BY <1>0, <1>5 DEF CoverInv, JobsOK, OffsetInFile, OffsetCovered,
                    vars, files, joining, history
<1>6. ASSUME NEW s \in Sessions, NEW loud \in BOOLEAN, Append(s, loud)
      PROVE  CoverInv'
  <2>1. \A t \in Sessions : len[t] <= len'[t]
    BY <1>0, <1>6 DEF Append, TypeOK
  <2>2. offset' = offset /\ job' = job /\ accounted' = accounted
    BY <1>6 DEF Append, history
  <2> QED
    BY <1>0, <1>1, <1>2, <2>1, <2>2 DEF CoverInv, JobsOK
<1>7. ASSUME InitRecord \/ InitInstall
               \/ \E s \in Sessions : SessionEndSkipped(s) \/ SpawnFails(s) \/ WindowPasses(s)
      PROVE  CoverInv'
  <2>1. len' = len /\ offset' = offset /\ job' = job /\ accounted' = accounted
    BY <1>7 DEF InitRecord, InitInstall, SessionEndSkipped, SpawnFails, WindowPasses,
                files, history
  <2> QED
    BY <1>0, <2>1 DEF CoverInv, JobsOK, OffsetInFile, OffsetCovered
<1>8. ASSUME NEW I \in SUBSET Sessions, InitSeed(I)
      PROVE  CoverInv'
  <2>1. len' = len /\ job' = job /\ accounted \subseteq accounted'
    BY <1>8 DEF InitSeed, files
  <2>2. JobsOK'
    BY <1>2, <1>3, <2>1 DEF JobsOK
  <2>3. ASSUME NEW s \in Sessions
        PROVE  offset'[s] <= len'[s] /\ Upto(s, offset'[s]) \subseteq accounted'
    <3>1. CASE s \in I \/ len[s] = 0
      BY <1>0, <1>8, <2>1, <3>1 DEF InitSeed, TypeOK, OffsetInFile, OffsetCovered
    <3>2. CASE s \notin I /\ len[s] # 0
      <4>1. offset'[s] = len[s] /\ Upto(s, len[s]) \subseteq accounted'
        BY <1>8, <3>2 DEF InitSeed
      <4> QED
        BY <1>3, <2>1, <4>1
    <3> QED
      BY <3>1, <3>2
  <2> QED
    BY <1>0, <2>2, <2>3 DEF CoverInv, OffsetInFile, OffsetCovered
<1>9. ASSUME NEW p \in Procs, NEW S \in SUBSET Sessions, Spawn(p, S),
             UNCHANGED <<len, offset, accounted>>
      PROVE  CoverInv'
  <2>1. job'[p] = NewJob("read", S) /\ \A q \in Procs \ {p} : job'[q] = job[q]
    BY <1>9, <1>l DEF Spawn
  <2>2. JobOK(job'[p], len', accounted')
    BY <2>1, SpawnedJobOK
  <2> QED
    BY <1>0, <1>1, <1>3, <1>4, <1>9, <2>1, <2>2 DEF CoverInv
<1>10. ASSUME NEW p \in Procs, Step(p) \/ Die(p)
       PROVE  CoverInv'
  <2>0. job[p] \in Job /\ JobOK(job[p], len, accounted)
    BY <1>0, <1>l DEF JobsOK
  <2>1. ASSUME Through(p), job[p].pc # "idle", HasRead(job[p]) = job[p].paths,
               UNCHANGED <<len, offset>>
        PROVE  CoverInv'
    <3>1. /\ job'[p] = [job[p] EXCEPT !.pc = "save", !.todo = job[p].paths]
          /\ \A q \in Procs \ {p} : job'[q] = job[q]
          /\ accounted' = accounted \cup Range(job[p])
      BY <1>l, <2>1 DEF Through
    <3>2. \A s \in job[p].paths : Upto(s, job[p].total[s]) \subseteq accounted'
      BY <2>0, <2>1, <3>1, RangeCloses DEF JobOK
    <3>3. JobOK(job'[p], len', accounted')
      <4>1. /\ job'[p].pc = "save"
            /\ job'[p].todo = job[p].paths /\ job'[p].paths = job[p].paths
            /\ job'[p].from = job[p].from /\ job'[p].total = job[p].total
        BY <2>0, <3>1 DEF Job
      <4>2. HasRead(job'[p]) = job[p].paths
        BY <4>1 DEF HasRead
      <4> QED
        BY <2>0, <2>1, <3>1, <3>2, <4>1, <4>2 DEF JobOK
    <3> QED
      BY <1>0, <1>1, <1>3, <1>4, <2>1, <3>1, <3>3 DEF CoverInv
  <2>2. ASSUME NEW j \in Job, job' = [job EXCEPT ![p] = j],
               j.pc \in {"distill", "fetch", "publish"},
               job[p].pc # "idle", job[p].pc # "save", HasRead(job[p]) = job[p].paths,
               j.todo = job[p].todo, j.paths = job[p].paths,
               j.from = job[p].from, j.total = job[p].total,
               UNCHANGED <<len, offset, accounted>>
        PROVE  CoverInv'
    <3>1. job'[p] = j /\ \A q \in Procs \ {p} : job'[q] = job[q]
      BY <1>l, <2>2
    <3>2. JobOK(j, len, accounted)
      BY <2>0, <2>2 DEF JobOK, HasRead
    <3> QED
      BY <1>0, <1>1, <1>3, <1>4, <2>2, <3>1, <3>2 DEF CoverInv
  <2>3. ASSUME NEW at \in {"distill", "fetch", "publish"}, Continue(p, at),
               job[p].pc # "idle", job[p].pc # "save", HasRead(job[p]) = job[p].paths,
               UNCHANGED <<len, offset>>
        PROVE  CoverInv'
    <3> DEFINE j == [job[p] EXCEPT !.pc = at]
    <3>1. /\ j \in Job /\ j.pc = at /\ j.todo = job[p].todo /\ j.paths = job[p].paths
          /\ j.from = job[p].from /\ j.total = job[p].total
      BY <2>0 DEF Job
    <3>2. job' = [job EXCEPT ![p] = j] /\ accounted' = accounted
      BY <2>3 DEF Continue
    <3> HIDE DEF j
    <3> QED
      BY <2>2, <2>3, <3>1, <3>2
  <2>4. ASSUME NEW s \in Sessions, ReadPath(p, s) PROVE CoverInv'
    <3> DEFINE j == [job[p] EXCEPT !.todo = @ \ {s}, !.from[s] = Start(s),
                                   !.total[s] = len[s]]
    <3>1. /\ job'[p] = j /\ \A q \in Procs \ {p} : job'[q] = job[q]
          /\ len' = len /\ offset' = offset /\ accounted' = accounted
          /\ job[p].pc = "read" /\ s \in job[p].todo
      BY <1>l, <2>4 DEF ReadPath, files, history
    <3>2. Start(s) = offset[s] /\ offset[s] \in Nat /\ len[s] \in Nat
      BY <1>0 DEF Start, TypeOK, OffsetInFile
    <3>3. /\ j.pc = "read" /\ j.paths = job[p].paths /\ j.todo = job[p].todo \ {s}
          /\ j.from[s] = offset[s] /\ j.total[s] = len[s]
          /\ \A t \in Sessions \ {s} : j.from[t] = job[p].from[t] /\ j.total[t] = job[p].total[t]
      BY <2>0, <3>1, <3>2 DEF Job
    <3> HIDE DEF j
    <3>4. HasRead(j) = HasRead(job[p]) \cup {s} /\ HasRead(j) \subseteq Sessions
      BY <2>0, <3>1, <3>3 DEF HasRead, JobOK, Job
    <3>5. ASSUME NEW t \in HasRead(j)
          PROVE  /\ j.from[t] <= j.total[t]
                 /\ j.total[t] <= len[t]
                 /\ Upto(t, j.from[t]) \subseteq accounted
      <4>1. CASE t = s
        BY <1>0, <1>3, <3>2, <3>3, <4>1 DEF OffsetInFile, OffsetCovered
      <4>2. CASE t # s
        BY <2>0, <3>3, <3>4, <3>5, <4>2 DEF JobOK
      <4> QED
        BY <4>1, <4>2
    <3>6. JobOK(j, len, accounted)
      BY <2>0, <3>1, <3>3, <3>5 DEF JobOK
    <3> QED
      BY <1>0, <1>1, <1>3, <1>4, <3>1, <3>6 DEF CoverInv
  <2>5. ASSUME NEW s \in Sessions, SaveOffset(p, s) PROVE CoverInv'
    <3>1. /\ job[p].pc = "save" /\ s \in job[p].paths /\ s \in HasRead(job[p])
          /\ len' = len /\ accounted' = accounted
          /\ \A q \in Procs \ {p} : job'[q] = job[q]
      BY <1>l, <2>0, <2>5 DEF SaveOffset, JobOK, HasRead, files, history
    <3>2. offset' = [offset EXCEPT ![s] = job[p].total[s]]
      BY <2>5 DEF SaveOffset, Consumed
    <3>3. OffsetInFile' /\ OffsetCovered'
      BY <1>0, <2>0, <3>1, <3>2 DEF OffsetInFile, OffsetCovered, JobOK, TypeOK
    <3>4. JobOK(job'[p], len', accounted')
      <4>1. CASE job[p].todo = {s}
        BY <1>l, <2>5, <4>1, NoJobOK DEF SaveOffset
      <4>2. CASE job[p].todo # {s}
        <5>1. /\ job'[p].pc = "save" /\ job'[p].paths = job[p].paths
              /\ job'[p].todo = job[p].todo \ {s}
              /\ job'[p].from = job[p].from /\ job'[p].total = job[p].total
          BY <1>l, <2>0, <2>5, <4>2 DEF SaveOffset, Job
        <5> QED
          BY <2>0, <3>1, <5>1 DEF JobOK, HasRead
      <4> QED
        BY <4>1, <4>2
    <3> QED
      BY <1>0, <1>4, <3>1, <3>3, <3>4 DEF CoverInv
  <2>6. CASE Digest(p)
    <3>1. job[p].pc = "read" /\ HasRead(job[p]) = job[p].paths /\ UNCHANGED <<len, offset>>
      BY <2>6 DEF Digest, HasRead, files
    <3> QED
      BY <2>1, <2>3, <2>6, <3>1 DEF Digest
  <2>7. CASE Distill(p)
    <3>1. job[p].pc = "distill" /\ HasRead(job[p]) = job[p].paths /\ UNCHANGED <<len, offset>>
      BY <2>7 DEF Distill, HasRead, files
    <3> QED
      BY <2>1, <2>3, <2>7, <3>1 DEF Distill
  <2>8. CASE OwnAtoms(p)
    <3> DEFINE j == [job[p] EXCEPT !.pc = "publish", !.prev = bus]
    <3>1. job[p].pc = "fetch" /\ HasRead(job[p]) = job[p].paths
          /\ UNCHANGED <<len, offset, accounted>>
      BY <2>8 DEF OwnAtoms, HasRead, files, history
    <3>2. /\ j \in Job /\ j.pc = "publish" /\ j.todo = job[p].todo /\ j.paths = job[p].paths
          /\ j.from = job[p].from /\ j.total = job[p].total
      BY <1>0, <2>0 DEF Job, TypeOK
    <3>3. job' = [job EXCEPT ![p] = j]
      BY <2>8 DEF OwnAtoms
    <3> HIDE DEF j
    <3> QED
      BY <2>2, <3>1, <3>2, <3>3
  <2>9. CASE Publish(p)
    <3>1. job[p].pc = "publish" /\ HasRead(job[p]) = job[p].paths /\ UNCHANGED <<len, offset>>
      BY <2>9 DEF Publish, HasRead, files
    <3> QED
      BY <2>1, <2>9, <3>1 DEF Publish
  <2>10. CASE Die(p)
    <3>1. /\ job'[p] = NoJob /\ \A q \in Procs \ {p} : job'[q] = job[q]
          /\ UNCHANGED <<len, offset, accounted>>
      BY <1>l, <2>10 DEF Die, files, history
    <3> QED
      BY <1>0, <1>1, <1>3, <1>4, <3>1, NoJobOK DEF CoverInv
  <2> QED
    BY <1>10, <2>4, <2>5, <2>6, <2>7, <2>8, <2>9, <2>10 DEF Step
<1>11. ASSUME NEW p \in Procs, NEW s \in Sessions, StopHook(s, p) \/ SessionEndHook(s, p)
       PROVE  CoverInv'
  BY <1>9, <1>11 DEF StopHook, SessionEndHook, files
<1>12. ASSUME NEW p \in Procs, NEW S \in SUBSET Sessions, ManualCapture(p, S)
       PROVE  CoverInv'
  BY <1>9, <1>12 DEF ManualCapture, files
<1> QED
  BY <1>5, <1>6, <1>7, <1>8, <1>10, <1>11, <1>12 DEF Next

(* No turn is skipped unread, however captures overlap, fail or are        *)
(* killed: below every recorded offset all is accounted for.               *)
THEOREM NothingSkipped == Spec => []OffsetCovered
<1>1. CoverInv => OffsetCovered
  BY DEF CoverInv
<1> QED
  BY <1>1, CoverInit, CoverStep, PTL DEF Spec

----------------------------------------------------------------------------
(* What a step of one process may do, as the invariants below see it: it   *)
(* reads a transcript, it moves on with what it has read, it saves an      *)
(* offset, or it dies.                                                     *)
SameHand(j, k) == k.paths = j.paths /\ k.from = j.from /\ k.total = j.total

Reads(p, s) ==
  /\ job[p].pc = "read" /\ job'[p].pc = "read"
  /\ job'[p].paths = job[p].paths
  /\ HasRead(job'[p]) = HasRead(job[p]) \cup {s}
  /\ job'[p].from[s] = offset[s] /\ job'[p].total[s] = len[s]
  /\ \A t \in Sessions \ {s} : /\ job'[p].from[t] = job[p].from[t]
                               /\ job'[p].total[t] = job[p].total[t]
  /\ UNCHANGED <<offset, bus, published>>

MovesOn(p) ==
  /\ job'[p].pc \in {"distill", "fetch", "publish", "save"}
  /\ SameHand(job[p], job'[p])
  /\ HasRead(job[p]) = job[p].paths /\ HasRead(job'[p]) = job[p].paths
  /\ job'[p].pc = "publish" => job'[p].prev = bus \/ ~Incremental(job'[p])
  /\ offset' = offset
  /\ \/ UNCHANGED <<bus, published>>
     \/ /\ job[p].pc = "publish" /\ job'[p].pc = "save"
        /\ bus' = job[p].prev \cup Note(job[p])
        /\ published' = published \cup Note(job[p])

Saves(p, s) ==
  /\ s \in job[p].paths /\ HasRead(job[p]) = job[p].paths
  /\ offset' = [offset EXCEPT ![s] = job[p].total[s]]
  /\ \/ job'[p] = NoJob
     \/ /\ job'[p].pc = "save" /\ SameHand(job[p], job'[p])
        /\ HasRead(job'[p]) = job[p].paths
  /\ UNCHANGED <<bus, published>>

Dies(p) == job'[p] = NoJob /\ UNCHANGED <<offset, bus, published>>

LEMMA ProcessStep ==
  ASSUME CoverInv, NEW p \in Procs, Step(p) \/ Die(p)
  PROVE  /\ job[p].pc # "idle"
         /\ \A q \in Procs \ {p} : job'[q] = job[q]
         /\ UNCHANGED <<len, signal, joined, wired, silent, before, overlapped>>
         /\ \/ \E s \in Sessions : Reads(p, s) \/ Saves(p, s)
            \/ MovesOn(p) \/ Dies(p)
<1> USE CaptureAssumption
<1>l. /\ job \in [Procs -> Job] /\ job[p] \in Job /\ JobOK(job[p], len, accounted)
      /\ offset \in [Sessions -> 0..MaxTurns] /\ len \in [Sessions -> 0..MaxTurns]
      /\ bus \subseteq Turns
  BY DEF CoverInv, TypeOK, JobsOK
<1>1. ASSUME NEW s \in Sessions, ReadPath(p, s)
      PROVE  /\ Reads(p, s) /\ \A q \in Procs \ {p} : job'[q] = job[q]
             /\ UNCHANGED <<len, signal, joined, wired, silent, before, overlapped>>
  <2> DEFINE j == [job[p] EXCEPT !.todo = @ \ {s}, !.from[s] = Start(s),
                                 !.total[s] = len[s]]
  <2>1. /\ job'[p] = j /\ \A q \in Procs \ {p} : job'[q] = job[q]
        /\ job[p].pc = "read" /\ s \in job[p].todo
        /\ UNCHANGED <<offset, bus, published>>
        /\ UNCHANGED <<len, signal, joined, wired, silent, before, overlapped>>
    BY <1>l, <1>1 DEF ReadPath, files, joining, history
  <2>2. Start(s) = offset[s]
    BY <1>l DEF Start, CoverInv, OffsetInFile
  <2>3. /\ j.pc = "read" /\ j.paths = job[p].paths /\ j.todo = job[p].todo \ {s}
        /\ j.from[s] = offset[s] /\ j.total[s] = len[s]
        /\ \A t \in Sessions \ {s} : j.from[t] = job[p].from[t] /\ j.total[t] = job[p].total[t]
    BY <1>l, <2>1, <2>2 DEF Job
  <2> HIDE DEF j
  <2>4. HasRead(j) = HasRead(job[p]) \cup {s}
    BY <1>l, <2>1, <2>3 DEF HasRead, JobOK, Job
  <2> QED
    BY <2>1, <2>3, <2>4 DEF Reads
<1>2. ASSUME NEW s \in Sessions, SaveOffset(p, s)
      PROVE  /\ Saves(p, s) /\ \A q \in Procs \ {p} : job'[q] = job[q]
             /\ UNCHANGED <<len, signal, joined, wired, silent, before, overlapped>>
  <2>1. /\ job[p].pc = "save" /\ s \in job[p].paths /\ HasRead(job[p]) = job[p].paths
        /\ offset' = [offset EXCEPT ![s] = job[p].total[s]]
        /\ UNCHANGED <<bus, published>>
        /\ UNCHANGED <<len, signal, joined, wired, silent, before, overlapped>>
        /\ \A q \in Procs \ {p} : job'[q] = job[q]
    BY <1>l, <1>2 DEF SaveOffset, Consumed, JobOK, HasRead, files, joining, history
  <2>2. CASE job[p].todo = {s}
    BY <1>l, <1>2, <2>1, <2>2 DEF SaveOffset, Saves
  <2>3. CASE job[p].todo # {s}
    <3>1. /\ job'[p].pc = "save" /\ job'[p].paths = job[p].paths
          /\ job'[p].from = job[p].from /\ job'[p].total = job[p].total
      BY <1>l, <1>2, <2>3 DEF SaveOffset, Job
    <3> QED
      BY <2>1, <3>1 DEF Saves, SameHand, HasRead
  <2> QED
    BY <2>1, <2>2, <2>3
<1>3. ASSUME Through(p), job[p].pc # "idle", HasRead(job[p]) = job[p].paths, offset' = offset,
             \/ UNCHANGED <<bus, published>>
             \/ /\ job[p].pc = "publish"
                /\ bus' = job[p].prev \cup Note(job[p])
                /\ published' = published \cup Note(job[p])
      PROVE  MovesOn(p) /\ \A q \in Procs \ {p} : job'[q] = job[q]
  <2>1. /\ job'[p].pc = "save" /\ SameHand(job[p], job'[p])
        /\ \A q \in Procs \ {p} : job'[q] = job[q]
    BY <1>l, <1>3 DEF Through, SameHand, Job
  <2> QED
    BY <1>3, <2>1 DEF MovesOn, SameHand, HasRead
<1>4. ASSUME NEW at \in {"distill", "fetch", "publish"}, Continue(p, at),
             HasRead(job[p]) = job[p].paths, at = "publish" => ~Incremental(job[p]),
             UNCHANGED <<offset, bus, published>>
      PROVE  MovesOn(p) /\ \A q \in Procs \ {p} : job'[q] = job[q]
  <2>1. /\ job'[p].pc = at /\ SameHand(job[p], job'[p])
        /\ \A q \in Procs \ {p} : job'[q] = job[q]
    BY <1>l, <1>4 DEF Continue, SameHand, Job
  <2>2. HasRead(job'[p]) = job[p].paths /\ (Incremental(job'[p]) => Incremental(job[p]))
    BY <2>1 DEF SameHand, HasRead, Incremental
  <2> QED
    BY <1>4, <2>1, <2>2 DEF MovesOn
<1>5. CASE Digest(p)
  <2>1. /\ job[p].pc = "read" /\ HasRead(job[p]) = job[p].paths
        /\ UNCHANGED <<offset, bus, published>>
        /\ UNCHANGED <<len, signal, joined, wired, silent, before, overlapped>>
    BY <1>5 DEF Digest, HasRead, files, joining
  <2>2. Through(p) \/ Continue(p, "distill")
    BY <1>5 DEF Digest
  <2> QED
    BY <1>3, <1>4, <2>1, <2>2
<1>6. CASE Distill(p)
  <2>1. /\ job[p].pc = "distill" /\ HasRead(job[p]) = job[p].paths
        /\ UNCHANGED <<offset, bus, published>>
        /\ UNCHANGED <<len, signal, joined, wired, silent, before, overlapped>>
    BY <1>6 DEF Distill, HasRead, files, joining
  <2>2. \/ Through(p) \/ Continue(p, "fetch")
        \/ Continue(p, "publish") /\ ~Incremental(job[p])
    BY <1>6 DEF Distill
  <2> QED
    BY <1>3, <1>4, <2>1, <2>2
<1>7. CASE OwnAtoms(p)
  <2>1. /\ job'[p].pc = "publish" /\ job'[p].prev = bus /\ SameHand(job[p], job'[p])
        /\ HasRead(job[p]) = job[p].paths /\ job[p].pc = "fetch"
        /\ \A q \in Procs \ {p} : job'[q] = job[q]
    BY <1>l, <1>7 DEF OwnAtoms, SameHand, HasRead, Job
  <2>2. MovesOn(p)
    BY <1>7, <2>1 DEF OwnAtoms, MovesOn, SameHand, HasRead, history
  <2> QED
    BY <1>7, <2>1, <2>2 DEF OwnAtoms, files, joining, history
<1>8. CASE Publish(p)
  <2>1. /\ job[p].pc = "publish" /\ HasRead(job[p]) = job[p].paths /\ offset' = offset
        /\ bus' = job[p].prev \cup Note(job[p])
        /\ published' = published \cup Note(job[p])
        /\ UNCHANGED <<len, signal, joined, wired, silent, before, overlapped>>
    BY <1>8 DEF Publish, HasRead, files, joining
  <2> QED
    BY <1>3, <1>8, <2>1 DEF Publish
<1>9. CASE Die(p)
  BY <1>l, <1>9 DEF Die, Dies, files, joining, history
<1>10. job[p].pc # "idle"
  BY DEF Step, ReadPath, SaveOffset, Digest, Distill, OwnAtoms, Publish, Die
<1> QED
  BY <1>1, <1>2, <1>5, <1>6, <1>7, <1>8, <1>9, <1>10 DEF Step

(* What the hooks and the person start: a capture of transcripts that have *)
(* turns, once init is over or with hooks wired.                           *)
Starts(p, S) ==
  /\ Spawn(p, S)
  /\ S # {} /\ \A s \in S : len[s] > 0
  /\ joined = "done" \/ wired
  /\ UNCHANGED <<len, signal, joined, wired, silent, before, offset, bus, published>>

(* Steps that touch none of it but the transcripts, which only grow.       *)
Elsewhere ==
  /\ \A s \in Sessions : len[s] <= len'[s]
  /\ signal \subseteq signal'
  /\ UNCHANGED <<joined, wired, silent, before, offset, job, bus, published, overlapped>>

LEMMA AnyStep ==
  ASSUME CoverInv, [Next]_vars
  PROVE  \/ Elsewhere
         \/ InitRecord \/ InitInstall \/ \E I \in SUBSET Sessions : InitSeed(I)
         \/ \E p \in Procs, S \in SUBSET Sessions : Starts(p, S)
         \/ \E p \in Procs : Step(p) \/ Die(p)
<1>1. len \in [Sessions -> 0..MaxTurns]
  BY DEF CoverInv, TypeOK
<1>2. CASE UNCHANGED vars
  BY <1>1, <1>2, CaptureAssumption DEF Elsewhere, vars, files, joining, history
<1>3. ASSUME NEW s \in Sessions, NEW loud \in BOOLEAN, Append(s, loud)
      PROVE  Elsewhere
  BY <1>1, <1>3, CaptureAssumption DEF Append, Elsewhere, joining, history
<1>4. ASSUME NEW s \in Sessions, SessionEndSkipped(s) \/ SpawnFails(s) \/ WindowPasses(s)
      PROVE  Elsewhere
  <2>1. UNCHANGED <<len, signal, joined, wired, silent, before, offset, job, bus,
                    published, overlapped>>
    BY <1>4 DEF SessionEndSkipped, SpawnFails, WindowPasses, files, joining, history
  <2> QED
    BY <1>1, <2>1, CaptureAssumption DEF Elsewhere
<1>5. ASSUME NEW s \in Sessions, NEW p \in Procs, StopHook(s, p) \/ SessionEndHook(s, p)
      PROVE  Starts(p, {s})
  BY <1>5 DEF StopHook, SessionEndHook, Due, Starts, files, joining
<1>6. ASSUME NEW p \in Procs, NEW S \in SUBSET Sessions, ManualCapture(p, S)
      PROVE  Starts(p, S)
  BY <1>6 DEF ManualCapture, Starts, files, joining
<1> QED
  BY <1>2, <1>3, <1>4, <1>5, <1>6 DEF Next

----------------------------------------------------------------------------
(* Before init is over nothing runs; once the offsets are seeded, whatever *)
(* a live session did before lies below them, and so below every range a   *)
(* process reads, however late it saves (init.go: record, seed, install).  *)
QuietUntilDone ==
  joined # "done" => ~wired /\ published = {} /\ \A p \in Procs : job[p].pc = "idle"

SeededPast ==
  /\ \A s \in Sessions : before[s] <= len[s]
  /\ joined \in {"seeded", "done"} =>
       \A s \in Sessions \ silent : before[s] <= offset[s]
  /\ \A p \in Procs : \A s \in HasRead(job[p]) \ silent : before[s] <= job[p].from[s]

(* Inductive: ConsentBoundary strengthened with where offsets and ranges lie. *)
BoundaryInv == CoverInv /\ QuietUntilDone /\ SeededPast /\ ConsentBoundary

LEMMA BoundaryInit == Init /\ ~Wired => BoundaryInv
<1> SUFFICES ASSUME Init, ~Wired PROVE BoundaryInv
  OBVIOUS
<1>1. \A p \in Procs : job[p] = NoJob /\ HasRead(job[p]) = {} /\ job[p].pc = "idle"
  BY DEF Init, NoJob, NewJob, HasRead
<1>2. QuietUntilDone
  BY <1>1 DEF Init, QuietUntilDone
<1>3. SeededPast
  BY <1>1 DEF Init, SeededPast
<1> QED
  BY <1>2, <1>3, CoverInit DEF BoundaryInv, ConsentBoundary, Init

LEMMA BoundaryStep == BoundaryInv /\ [Next]_vars => BoundaryInv'
<1> SUFFICES ASSUME BoundaryInv, [Next]_vars PROVE BoundaryInv'
  OBVIOUS
<1> USE CaptureAssumption
<1>0. CoverInv /\ CoverInv' /\ QuietUntilDone /\ SeededPast /\ ConsentBoundary
  BY CoverStep DEF BoundaryInv
<1>t. /\ TypeOK /\ TypeOK' /\ job \in [Procs -> Job] /\ job' \in [Procs -> Job]
      /\ joined \in {"no", "recorded", "seeded", "done"}
      /\ \A p \in Procs : job[p] \in Job /\ JobOK(job[p], len, accounted)
      /\ \A s \in Sessions : /\ before[s] \in Nat /\ before'[s] \in Nat
                             /\ len[s] \in Nat /\ len'[s] \in Nat
                             /\ offset[s] \in Nat /\ offset'[s] \in Nat
  BY <1>0 DEF CoverInv, TypeOK, JobsOK
<1>h. \A p \in Procs : /\ HasRead(job[p]) \subseteq Sessions
                       /\ HasRead(job'[p]) \subseteq Sessions
                       /\ \A s \in HasRead(job[p]) :
                            /\ job[p].from[s] \in Nat /\ job[p].total[s] \in Nat
                            /\ job[p].from[s] <= job[p].total[s]
                            /\ job[p].total[s] <= len[s]
  BY <1>t DEF Job, HasRead, JobOK
<1>1. CASE Elsewhere
  BY <1>0, <1>1, <1>t, <1>h DEF Elsewhere, BoundaryInv, QuietUntilDone, SeededPast, ConsentBoundary
<1>2. CASE InitRecord
  <2>1. \A p \in Procs : HasRead(job[p]) = {}
    BY <1>0, <1>t, <1>2 DEF InitRecord, QuietUntilDone, HasRead, JobOK
  <2> QED
    BY <1>0, <1>2, <1>t, <2>1
       DEF InitRecord, BoundaryInv, QuietUntilDone, SeededPast, ConsentBoundary, files, history
<1>3. ASSUME NEW I \in SUBSET Sessions, InitSeed(I)
      PROVE  BoundaryInv'
  <2>1. /\ joined = "recorded" /\ joined' = "seeded" /\ silent' = I /\ published = {}
        /\ \A p \in Procs : HasRead(job[p]) = {}
        /\ UNCHANGED <<len, before, wired, job, published>>
    BY <1>0, <1>t, <1>3 DEF InitSeed, QuietUntilDone, HasRead, JobOK, files
  <2>2. ASSUME NEW s \in Sessions \ I
        PROVE  before[s] <= offset'[s]
    <3>1. before[s] <= len[s]
      BY <1>0 DEF SeededPast
    <3>2. CASE len[s] = 0
      BY <1>t, <3>1, <3>2
    <3>3. CASE len[s] # 0
      BY <1>3, <3>1, <3>3 DEF InitSeed
    <3> QED
      BY <3>2, <3>3
  <2> QED
    BY <1>0, <2>1, <2>2 DEF BoundaryInv, QuietUntilDone, SeededPast, ConsentBoundary
<1>4. CASE InitInstall
  BY <1>0, <1>4, <1>t
     DEF InitInstall, BoundaryInv, QuietUntilDone, SeededPast, ConsentBoundary, files, history
<1>5. ASSUME NEW p \in Procs, NEW S \in SUBSET Sessions, Starts(p, S)
      PROVE  BoundaryInv'
  <2>1. /\ joined = "done" /\ joined' = "done"
        /\ UNCHANGED <<len, silent, before, offset, published>>
        /\ \A q \in Procs \ {p} : job'[q] = job[q]
        /\ HasRead(job'[p]) = {}
    BY <1>0, <1>5, <1>t DEF Starts, Spawn, QuietUntilDone, NewJob, HasRead
  <2> QED
    BY <1>0, <2>1 DEF BoundaryInv, QuietUntilDone, SeededPast, ConsentBoundary
<1>6. ASSUME NEW p \in Procs, Step(p) \/ Die(p)
      PROVE  BoundaryInv'
  <2>1. /\ joined = "done" /\ \A q \in Procs \ {p} : job'[q] = job[q]
        /\ UNCHANGED <<len, joined, silent, before>>
        /\ \/ \E s \in Sessions : Reads(p, s) \/ Saves(p, s)
           \/ MovesOn(p) \/ Dies(p)
    BY <1>0, <1>6, ProcessStep DEF QuietUntilDone
  <2>2. SUFFICES ASSUME \/ UNCHANGED published
                        \/ published' = published \cup Note(job[p]) /\ MovesOn(p),
                        \A s \in HasRead(job'[p]) \ silent : before[s] <= job'[p].from[s],
                        \A s \in Sessions \ silent : before[s] <= offset'[s]
                 PROVE  BoundaryInv'
    <3>1. \A s \in Sessions \ silent : before[s] <= offset[s]
      BY <1>0, <2>1 DEF SeededPast
    <3>2. ASSUME NEW s \in Sessions, Reads(p, s) PROVE BoundaryInv'
      <4>1. \A t \in HasRead(job'[p]) \ silent : before[t] <= job'[p].from[t]
        BY <1>0, <1>h, <3>1, <3>2 DEF Reads, SeededPast
      <4> QED
        BY <2>2, <3>1, <3>2, <4>1 DEF Reads
    <3>3. ASSUME NEW s \in Sessions, Saves(p, s) PROVE BoundaryInv'
      <4>1. s \notin silent => before[s] <= job[p].total[s]
        BY <1>0, <1>h, <1>t, <3>3 DEF Saves, SeededPast
      <4>2. \A t \in Sessions \ silent : before[t] <= offset'[t]
        BY <1>t, <3>1, <3>3, <4>1 DEF Saves, TypeOK
      <4>3. \A t \in HasRead(job'[p]) \ silent : before[t] <= job'[p].from[t]
        BY <1>0, <3>3 DEF Saves, SameHand, SeededPast, NoJob, NewJob, HasRead
      <4> QED
        BY <2>2, <3>3, <4>2, <4>3 DEF Saves
    <3>4. CASE MovesOn(p)
      <4>1. \A t \in HasRead(job'[p]) \ silent : before[t] <= job'[p].from[t]
        BY <1>0, <3>4 DEF MovesOn, SameHand, SeededPast
      <4> QED
        BY <2>2, <3>1, <3>4, <4>1 DEF MovesOn
    <3>5. CASE Dies(p)
      BY <2>2, <3>1, <3>5 DEF Dies, NoJob, NewJob, HasRead
    <3> QED
      BY <2>1, <3>2, <3>3, <3>4, <3>5
  <2>3. SeededPast'
    BY <1>0, <2>1, <2>2 DEF SeededPast
  <2>4. ASSUME NEW t \in published', t[1] \notin silent'
        PROVE  t[2] > before'[t[1]]
    <3>1. CASE t \in published
      BY <1>0, <2>1, <2>4, <3>1 DEF ConsentBoundary
    <3>2. CASE t \in Note(job[p]) /\ MovesOn(p)
      <4>1. t \in Turns /\ t[1] \in HasRead(job[p]) /\ job[p].from[t[1]] < t[2]
        BY <3>2 DEF MovesOn, Note, Range
      <4>2. before[t[1]] <= job[p].from[t[1]] /\ t[1] \in Sessions /\ t[2] \in Nat
        BY <1>0, <2>1, <2>4, <4>1 DEF SeededPast, Turns
      <4> QED
        BY <1>h, <1>t, <2>1, <4>1, <4>2
    <3> QED
      BY <2>2, <2>4, <3>1, <3>2
  <2> QED
    BY <1>0, <2>1, <2>3, <2>4 DEF BoundaryInv, QuietUntilDone, ConsentBoundary
<1> QED
  BY <1>0, <1>1, <1>2, <1>3, <1>4, <1>5, <1>6, AnyStep

(* The consent boundary, for a first init (no hooks wired before): nothing *)
(* a live session did before `ettle init` began is ever published,         *)
(* whatever captures overlap, fail or save late (capture.go:373-386).      *)
THEOREM ConsentKept == ASSUME ~Wired PROVE Spec => []ConsentBoundary
<1>1. Init => BoundaryInv
  BY BoundaryInit
<1>2. BoundaryInv => ConsentBoundary
  BY DEF BoundaryInv
<1> QED
  BY <1>1, <1>2, BoundaryStep, PTL DEF Spec

----------------------------------------------------------------------------
(* What a live process was started for, and what was published before.     *)
PathsHaveTurns ==
  \A p \in Procs : /\ job[p].pc # "idle" => job[p].paths # {}
                   /\ \A s \in job[p].paths : len[s] > 0

PublishedIsSignal ==
  published \subseteq signal /\ \A t \in published : t[2] <= len[t[1]]

(* Alone, a process that has read a transcript has read up to all that was *)
(* ever published of it, and when it publishes it merges with the bus as   *)
(* it is, or read every transcript from the start.                         *)
OneAtATime ==
  ~overlapped =>
    /\ \A p, q \in Procs : job[p].pc # "idle" /\ job[q].pc # "idle" => p = q
    /\ \A p \in Procs :
         /\ \A s \in HasRead(job[p]) : \A t \in published : t[1] = s => t[2] <= job[p].total[s]
         /\ job[p].pc = "publish" => job[p].prev = bus \/ ~Incremental(job[p])

(* Inductive: KeptWhenAlone strengthened.                                  *)
AloneInv == /\ BoundaryInv /\ PathsHaveTurns /\ PublishedIsSignal
            /\ OneAtATime /\ KeptWhenAlone

LEMMA AloneInit == Init /\ ~Wired => AloneInv
<1> SUFFICES ASSUME Init, ~Wired PROVE AloneInv
  OBVIOUS
<1>1. \A p \in Procs : job[p].pc = "idle" /\ job[p].paths = {} /\ HasRead(job[p]) = {}
  BY DEF Init, NoJob, NewJob, HasRead
<1>2. PathsHaveTurns /\ OneAtATime
  BY <1>1 DEF Init, PathsHaveTurns, OneAtATime
<1> QED
  BY <1>2, BoundaryInit DEF AloneInv, PublishedIsSignal, KeptWhenAlone, Init

LEMMA AloneStep == AloneInv /\ [Next]_vars => AloneInv'
<1> SUFFICES ASSUME AloneInv, [Next]_vars PROVE AloneInv'
  OBVIOUS
<1> USE CaptureAssumption
<1>0. /\ BoundaryInv /\ BoundaryInv' /\ CoverInv /\ CoverInv' /\ QuietUntilDone
      /\ PathsHaveTurns /\ PublishedIsSignal /\ OneAtATime /\ KeptWhenAlone
  BY BoundaryStep DEF AloneInv, BoundaryInv
<1>t. /\ job \in [Procs -> Job] /\ job' \in [Procs -> Job]
      /\ joined \in {"no", "recorded", "seeded", "done"}
      /\ overlapped \in BOOLEAN /\ published \subseteq Turns
      /\ \A p \in Procs : job[p] \in Job /\ JobOK(job[p], len, accounted)
      /\ \A s \in Sessions : /\ len[s] \in Nat /\ len'[s] \in Nat
                             /\ before[s] \in Nat /\ before'[s] \in Nat
  BY <1>0 DEF CoverInv, TypeOK, JobsOK
<1>h. /\ \A t \in published : t[1] \in Sessions /\ t[2] \in Nat \ {0}
      /\ \A p \in Procs : /\ job[p].paths \subseteq Sessions
                          /\ HasRead(job[p]) \subseteq job[p].paths
                          /\ \A s \in Sessions : /\ job[p].from[s] \in Nat
                                                 /\ job[p].total[s] \in Nat
  BY <1>t DEF Job, HasRead, JobOK, Turns
(* The transcripts only grow: a person with one session has had one.       *)
<1>1. ASSUME \A s \in Sessions : len[s] <= len'[s],
             UNCHANGED <<silent, before, published, bus>>, overlapped => overlapped'
      PROVE  KeptWhenAlone'
  <2>1. \A s \in Sessions : len'[s] = 0 => len[s] = 0
    BY <1>1, <1>t
  <2> QED
    BY <1>0, <1>1, <2>1 DEF KeptWhenAlone
<1>2. CASE Elsewhere
  <2>1. PathsHaveTurns'
    BY <1>0, <1>2, <1>t, <1>h DEF Elsewhere, PathsHaveTurns
  <2>2. PublishedIsSignal'
    BY <1>0, <1>2, <1>t, <1>h DEF Elsewhere, PublishedIsSignal
  <2>3. OneAtATime'
    BY <1>0, <1>2 DEF Elsewhere, OneAtATime, Incremental
  <2> QED
    BY <1>0, <1>1, <1>2, <2>1, <2>2, <2>3 DEF Elsewhere, AloneInv
<1>3. CASE InitRecord \/ InitInstall \/ \E I \in SUBSET Sessions : InitSeed(I)
  <2>1. /\ UNCHANGED <<len, signal, job, bus, published, overlapped>>
        /\ published = {}
    BY <1>0, <1>3 DEF InitRecord, InitInstall, InitSeed, QuietUntilDone, files, history
  <2>2. PathsHaveTurns' /\ PublishedIsSignal' /\ OneAtATime' /\ KeptWhenAlone'
    BY <1>0, <2>1 DEF PathsHaveTurns, PublishedIsSignal, OneAtATime, KeptWhenAlone, Incremental
  <2> QED
    BY <1>0, <2>2 DEF AloneInv
<1>4. ASSUME NEW p \in Procs, NEW S \in SUBSET Sessions, Starts(p, S)
      PROVE  AloneInv'
  <2>1. /\ UNCHANGED <<len, signal, silent, before, offset, bus, published>>
        /\ \A q \in Procs \ {p} : job'[q] = job[q]
        /\ job'[p].pc = "read" /\ job'[p].paths = S /\ HasRead(job'[p]) = {}
        /\ S # {} /\ \A s \in S : len[s] > 0
        /\ ~overlapped' => ~overlapped /\ \A q \in Procs : job[q].pc = "idle"
    BY <1>4, <1>t DEF Starts, Spawn, NewJob, HasRead
  <2>2. PathsHaveTurns' /\ PublishedIsSignal'
    BY <1>0, <2>1 DEF PathsHaveTurns, PublishedIsSignal
  <2>3. OneAtATime'
    BY <1>0, <2>1 DEF OneAtATime, Incremental
  <2> QED
    BY <1>0, <1>1, <1>t, <2>1, <2>2, <2>3 DEF AloneInv
<1>5. ASSUME NEW p \in Procs, Step(p) \/ Die(p)
      PROVE  AloneInv'
  <2>1. /\ job[p].pc # "idle" /\ joined = "done"
        /\ \A q \in Procs \ {p} : job'[q] = job[q]
        /\ UNCHANGED <<len, signal, joined, silent, before, overlapped>>
        /\ \/ \E s \in Sessions : Reads(p, s) \/ Saves(p, s)
           \/ MovesOn(p) \/ Dies(p)
    BY <1>0, <1>5, ProcessStep DEF QuietUntilDone
  <2>2. PathsHaveTurns'
    <3>1. job'[p].pc # "idle" => job'[p].paths = job[p].paths
      BY <2>1 DEF Reads, Saves, MovesOn, SameHand, Dies, NoJob, NewJob
    <3>2. job'[p].pc = "idle" => job'[p].paths = {}
      BY <2>1 DEF Reads, Saves, MovesOn, SameHand, Dies, NoJob, NewJob
    <3> QED
      BY <1>0, <2>1, <3>1, <3>2 DEF PathsHaveTurns
  <2>3. CASE UNCHANGED <<bus, published>>
    <3>1. PublishedIsSignal' /\ KeptWhenAlone'
      BY <1>0, <2>1, <2>3 DEF PublishedIsSignal, KeptWhenAlone
    <3>2. SUFFICES ASSUME ~overlapped
                   PROVE  /\ \A s \in HasRead(job'[p]) : \A t \in published :
                               t[1] = s => t[2] <= job'[p].total[s]
                          /\ job'[p].pc = "publish" => job'[p].prev = bus \/ ~Incremental(job'[p])
      <4>1. \A q \in Procs \ {p} : job'[q] = job[q] /\ (~overlapped => job[q].pc = "idle")
        BY <1>0, <2>1 DEF OneAtATime
      <4>2. \A q \in Procs \ {p} : HasRead(job'[q]) = HasRead(job[q])
        BY <4>1
      <4>3. OneAtATime'
        BY <1>0, <2>1, <2>3, <3>2, <4>1, <4>2 DEF OneAtATime
      <4> QED
        BY <1>0, <2>2, <3>1, <4>3 DEF AloneInv
    <3>3. \A s \in HasRead(job[p]) : \A t \in published : t[1] = s => t[2] <= job[p].total[s]
      BY <1>0, <3>2 DEF OneAtATime
    <3>4. ASSUME NEW s \in Sessions, Reads(p, s)
          PROVE  \A u \in HasRead(job'[p]) : \A t \in published : t[1] = u => t[2] <= job'[p].total[u]
      BY <1>0, <1>h, <3>3, <3>4 DEF Reads, PublishedIsSignal
    <3>5. ASSUME MovesOn(p) \/ \E s \in Sessions : Saves(p, s)
          PROVE  \A u \in HasRead(job'[p]) : \A t \in published : t[1] = u => t[2] <= job'[p].total[u]
      BY <1>h, <3>3, <3>5 DEF MovesOn, Saves, SameHand, NoJob, NewJob, HasRead
    <3>6. CASE Dies(p)
      BY <3>6 DEF Dies, NoJob, NewJob, HasRead
    <3>7. job'[p].pc = "publish" => job'[p].prev = bus \/ ~Incremental(job'[p])
      BY <2>1 DEF Reads, Saves, MovesOn, Dies, NoJob, NewJob
    <3> QED
      BY <2>1, <3>4, <3>5, <3>6, <3>7
  <2>4. CASE ~UNCHANGED <<bus, published>>
    <3>1. /\ job[p].pc = "publish" /\ job'[p].pc = "save"
          /\ SameHand(job[p], job'[p])
          /\ HasRead(job[p]) = job[p].paths /\ HasRead(job'[p]) = job[p].paths
          /\ bus' = job[p].prev \cup Note(job[p])
          /\ published' = published \cup Note(job[p])
      BY <2>1, <2>4 DEF Reads, Saves, MovesOn, Dies
    <3>2. \A t \in Note(job[p]) : /\ t \in signal /\ t[1] \in job[p].paths /\ t[2] \in Nat
                                  /\ t[2] <= job[p].total[t[1]] /\ t[2] <= len[t[1]]
      BY <1>t, <1>h, <3>1 DEF Note, Range, Turns, JobOK
    <3>3. PublishedIsSignal'
      BY <1>0, <2>1, <3>1, <3>2 DEF PublishedIsSignal
    <3>4. OneAtATime'
      <4> SUFFICES ASSUME ~overlapped' PROVE OneAtATime'
        BY DEF OneAtATime
      <4>1. \A q \in Procs \ {p} : job'[q] = job[q] /\ job[q].pc = "idle" /\ HasRead(job'[q]) = {}
        BY <1>0, <1>t, <2>1 DEF OneAtATime, HasRead, JobOK
      <4>2. \A s \in HasRead(job'[p]) : \A t \in published' : t[1] = s => t[2] <= job'[p].total[s]
        BY <1>0, <2>1, <3>1, <3>2 DEF OneAtATime, SameHand
      <4> QED
        BY <2>1, <3>1, <4>1, <4>2 DEF OneAtATime
    <3>5. KeptWhenAlone'
      <4> SUFFICES ASSUME ~overlapped',
                          \/ \E s \in Sessions : \A t \in Sessions \ {s} : len'[t] = 0
                          \/ silent' = {} /\ \A s \in Sessions : before'[s] > 0
                   PROVE  published' \subseteq bus'
        BY DEF KeptWhenAlone
      <4>1. published \subseteq bus
        BY <1>0, <2>1 DEF KeptWhenAlone
      <4>2. CASE job[p].prev = bus
        BY <3>1, <4>1, <4>2
      <4>3. CASE ~Incremental(job[p])
        <5>1. \A s \in job[p].paths : job[p].from[s] = 0
          BY <1>h, <4>3 DEF Incremental
        <5>2. PICK s \in job[p].paths : len[s] > 0
          BY <1>0, <3>1 DEF PathsHaveTurns
        <5>3. before[s] = 0 \/ s \in silent
          BY <1>0, <1>h, <1>t, <3>1, <5>1 DEF BoundaryInv, SeededPast
        <5>4. \A t \in Sessions \ {s} : len[t] = 0
          BY <1>h, <2>1, <5>2, <5>3
        <5>5. ASSUME NEW t \in published PROVE t \in Note(job[p])
          <6>1. t[1] \in Sessions /\ t[2] \in Nat \ {0} /\ t[2] <= len[t[1]] /\ t \in signal /\ t \in Turns
            BY <1>0, <1>h, <1>t DEF PublishedIsSignal
          <6>2. t[1] = s
            BY <5>4, <6>1
          <6>3. t[2] <= job[p].total[s]
            BY <1>0, <2>1, <3>1, <6>2 DEF OneAtATime
          <6> QED
            BY <5>1, <6>1, <6>2, <6>3 DEF Note, Range
        <5> QED
          BY <3>1, <5>5
      <4> QED
        BY <1>0, <2>1, <3>1, <4>2, <4>3 DEF OneAtATime
    <3> QED
      BY <1>0, <2>2, <3>3, <3>4, <3>5 DEF AloneInv
  <2> QED
    BY <2>3, <2>4
<1> QED
  BY <1>0, <1>2, <1>3, <1>4, <1>5, AnyStep

(* Captures that never overlap keep everything they published, through     *)
(* crashes between publish and save, for a person with one session and     *)
(* for sessions all seeded at a first init (capture.go:112-115).           *)
THEOREM MorningKept == ASSUME ~Wired PROVE Spec => []KeptWhenAlone
<1>1. Init => AloneInv
  BY AloneInit
<1>2. AloneInv => KeptWhenAlone
  BY DEF AloneInv
<1> QED
  BY <1>1, <1>2, AloneStep, PTL DEF Spec
=============================================================================
