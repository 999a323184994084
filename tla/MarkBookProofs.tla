---------------------------- MODULE MarkBookProofs ----------------------------
(***************************************************************************)
(* Proofs about MarkBook: a recording that nobody disturbed repeats no mark, a *)
(* corrected mark stays within its maximum, a deleted exam stays deleted, and    *)
(* the reports agree.                                                          *)
(*                                                                         *)
(* A row of the marks table changes in one field only: for whom, for what and    *)
(* out of how much a mark is never changes.  So what a request has read of a       *)
(* row stays true of it until the row is deleted, and what a recording found        *)
(* missing is missing until somebody else writes.  The reports agree because a     *)
(* percentage, rounded or not, is compared by the sign of a sum over the marks.    *)
(***************************************************************************)
EXTENDS MarkBook, SumTheorems, TLAPS

ExamUpdates == [kind : {"exam"}, exam : Exams, copy : ExamRows, change : [name : ExamNames]]
MarkJobs == {NoJob} \cup RecordJobs \cup CorrectJobs \cup DeskJobs \cup ExamUpdates

TablesFit ==
  /\ marks \in Seq(MarkRows \cup {NoMark}) /\ Len(marks) <= MaxMarks
  /\ exams \in [Exams -> ExamRows \cup {NoExam}]
  /\ deskEdits \in 0 .. MaxDeskEdits
MarkJobsFit == job \in [Sessions -> MarkJobs]

\* No row of the table M is for the mark of row r.
New(M, r) == \A m \in DOMAIN M : M[m] # NoMark =>
  ~(M[m].student = r.student /\ M[m].exam = r.exam /\ M[m].subject = r.subject)

\* What request j knows of the table M and the exams E.
MarkJobFits(j, M, E) ==
  /\ j.kind \in {"correct", "desk"} => j.id \in DOMAIN M /\ (M[j.id] # NoMark => M[j.id].max = j.copy.max)
  /\ j.kind = "correct" => j.change.obtained <= j.copy.max
  /\ j.kind = "exam" => E[j.exam] # NoExam /\ j.copy.active = TRUE
MarkRequestsFit == \A s \in Sessions : MarkJobFits(job[s], marks, exams)

\* A recording that is alone would still find none of its marks.
AllNew(j, M) == \A i \in DOMAIN j.rows : New(M, j.rows[i])
RecordsAloneFit == \A s \in alone : s \in Sessions /\ Working(s, "record") /\ AllNew(job[s], marks)

QuietFits == quiet \subseteq DOMAIN marks /\ RecordedOnce
CorrectedFits == corrected \subseteq DOMAIN marks /\ CorrectionsFit

MarkInv == TablesFit /\ MarkJobsFit /\ MarkRequestsFit /\ RecordsAloneFit /\ QuietFits /\ CorrectedFits

-----------------------------------------------------------------------------
(* What a step does to the tables. *)

\* Rows keep their key and their maximum, or are deleted; the table grows at its end.
MarkRowsStay ==
  /\ Len(marks') >= Len(marks)
  /\ \A m \in DOMAIN marks :
       \/ marks'[m] = NoMark
       \/ /\ marks[m] # NoMark
          /\ marks'[m].student = marks[m].student /\ marks'[m].exam = marks[m].exam
          /\ marks'[m].subject = marks[m].subject /\ marks'[m].max = marks[m].max

ExamsStay == \A e \in Exams : exams[e] # NoExam =>
  exams'[e] # NoExam /\ (exams[e].active = FALSE => exams'[e].active = FALSE)

LEMMA MarkJobKinds ==
  ASSUME NEW j \in MarkJobs
  PROVE  /\ j.kind = "record" => j \in RecordJobs
         /\ j.kind = "correct" => j \in CorrectJobs
         /\ j.kind = "desk" => j \in DeskJobs
         /\ j.kind = "exam" => j \in ExamUpdates
         /\ j.kind = "none" <=> j = NoJob
BY DEF MarkJobs, RecordJobs, CorrectJobs, DeskJobs, ExamUpdates, NoJob

LEMMA MarkJobOf ==
  ASSUME MarkInv, NEW s \in Sessions
  PROVE  job[s] \in MarkJobs /\ MarkJobFits(job[s], marks, exams)
BY DEF MarkInv, MarkJobsFit, MarkRequestsFit

LEMMA NoMarkToFit == NoJob \in MarkJobs /\ \A M, E : MarkJobFits(NoJob, M, E)
BY DEF MarkJobs, MarkJobFits, NoJob

\* A row that is there.
LEMMA HeldRow ==
  ASSUME TablesFit, NEW m \in Held
  PROVE  m \in 1 .. Len(marks) /\ m \in DOMAIN marks /\ marks[m] # NoMark /\ marks[m] \in MarkRows
BY DEF TablesFit, Held

LEMMA MarkFitsStay ==
  ASSUME MarkInv, TablesFit', MarkRowsStay, ExamsStay, NEW j \in MarkJobs, MarkJobFits(j, marks, exams)
  PROVE  MarkJobFits(j, marks', exams')
<1>1. \A m \in DOMAIN marks : m \in DOMAIN marks'
  BY DEF MarkInv, TablesFit, MarkRowsStay
<1>2. j.kind \in {"correct", "desk"} =>
        j.id \in DOMAIN marks' /\ (marks'[j.id] # NoMark => marks'[j.id].max = j.copy.max)
  BY <1>1 DEF MarkJobFits, MarkRowsStay
<1>3. j.kind = "exam" => exams'[j.exam] # NoExam
  BY MarkJobKinds DEF MarkJobFits, ExamsStay, ExamUpdates
<1> QED
  BY <1>2, <1>3 DEF MarkJobFits

\* What is left to show of the requests, when the tables are done.
LEMMA MarkRequestStep ==
  ASSUME MarkInv, TablesFit', MarkRowsStay, ExamsStay, NEW s \in Sessions, NEW j \in MarkJobs,
         job' = [job EXCEPT ![s] = j], MarkJobFits(j, marks, exams)
  PROVE  MarkJobsFit' /\ MarkRequestsFit' /\ job'[s] = j /\ \A k \in Sessions \ {s} : job'[k] = job[k]
<1>1. MarkJobsFit' /\ job'[s] = j /\ \A k \in Sessions \ {s} : job'[k] = job[k]
  BY DEF MarkInv, MarkJobsFit
<1>2. \A k \in Sessions : job'[k] \in MarkJobs /\ MarkJobFits(job'[k], marks, exams)
  BY <1>1, MarkJobOf
<1>3. \A k \in Sessions : MarkJobFits(job'[k], marks', exams')
  BY <1>2, MarkFitsStay
<1> QED
  BY <1>1, <1>3 DEF MarkRequestsFit

LEMMA MarkTableStep ==
  ASSUME MarkInv, TablesFit', MarkRowsStay, ExamsStay, job' = job
  PROVE  MarkJobsFit' /\ MarkRequestsFit'
<1>1. \A k \in Sessions : job'[k] \in MarkJobs /\ MarkJobFits(job'[k], marks, exams)
  BY MarkJobOf
<1>2. \A k \in Sessions : MarkJobFits(job'[k], marks', exams')
  BY <1>1, MarkFitsStay
<1> QED
  BY <1>1, <1>2 DEF MarkRequestsFit, MarkJobsFit, MarkInv

-----------------------------------------------------------------------------
(* What the history says after a step. *)

LEMMA MarkAloneStep ==
  ASSUME MarkInv, Watch({"record"}, marks' = marks),
         \A k \in Sessions : \/ job'[k] = job[k]
                             \/ job'[k].kind # "record"
                             \/ marks' = marks /\ AllNew(job'[k], marks)
  PROVE  RecordsAloneFit'
<1> SUFFICES ASSUME NEW s \in alone' PROVE s \in Sessions /\ Working(s, "record")' /\ AllNew(job'[s], marks')
  BY DEF RecordsAloneFit, AllNew, New
<1>1. s \in Sessions /\ job'[s].kind = "record" /\ (Idle(s) \/ (s \in alone /\ marks' = marks))
  BY DEF Watch
<1>2. CASE marks' = marks /\ AllNew(job'[s], marks)
  BY <1>1, <1>2 DEF Working
<1>3. CASE job'[s] = job[s]
  <2>1. ~Idle(s)
    BY <1>1, <1>3 DEF Idle, NoJob
  <2> QED
    BY <1>1, <1>3, <2>1 DEF MarkInv, RecordsAloneFit, Working
<1> QED
  BY <1>1, <1>2, <1>3

LEMMA QuietStays ==
  ASSUME MarkInv, TablesFit', MarkRowsStay, quiet' = quiet
  PROVE  QuietFits'
<1>1. \A m \in DOMAIN marks : m \in DOMAIN marks'
  BY DEF MarkInv, TablesFit, MarkRowsStay
<1>2. quiet' \subseteq DOMAIN marks'
  BY <1>1 DEF MarkInv, QuietFits
<1>3. ASSUME NEW m \in Held', NEW n \in Held', m < n, n \in quiet
      PROVE  ~(marks'[m].student = marks'[n].student /\ marks'[m].exam = marks'[n].exam
               /\ marks'[m].subject = marks'[n].subject)
  <2>1. n \in DOMAIN marks /\ m \in DOMAIN marks'
    BY <1>3 DEF MarkInv, QuietFits, Held
  <2>2. m \in DOMAIN marks
    BY <1>3, <2>1 DEF MarkInv, TablesFit
  <2>3. /\ marks'[m] # NoMark /\ marks'[n] # NoMark
        /\ marks[m] # NoMark /\ marks[n] # NoMark
    BY <1>3, <2>1, <2>2 DEF Held, MarkRowsStay
  <2>4. m \in Held /\ n \in Held
    BY <2>1, <2>2, <2>3 DEF Held
  <2> QED
    BY <1>3, <2>1, <2>2, <2>3, <2>4 DEF MarkInv, QuietFits, RecordedOnce, MarkRowsStay
<1> QED
  BY <1>2, <1>3 DEF QuietFits, RecordedOnce

\* Marks that were corrected before and not written since.
LEMMA CorrectedStays ==
  ASSUME MarkInv, TablesFit', MarkRowsStay, corrected' \subseteq corrected,
         \A m \in corrected' : marks'[m] # NoMark => marks'[m].obtained = marks[m].obtained
  PROVE  CorrectedFits'
<1>1. corrected' \subseteq DOMAIN marks /\ \A m \in DOMAIN marks : m \in DOMAIN marks'
  BY DEF MarkInv, TablesFit, MarkRowsStay, CorrectedFits
<1>2. ASSUME NEW m \in corrected', m \in Held' PROVE marks'[m].obtained <= marks'[m].max
  <2>1. m \in DOMAIN marks /\ marks'[m] # NoMark
    BY <1>1, <1>2 DEF Held
  <2>2. marks[m] # NoMark /\ marks'[m].max = marks[m].max
    BY <2>1 DEF MarkRowsStay
  <2>3. marks[m].obtained <= marks[m].max
    BY <2>1, <2>2 DEF MarkInv, CorrectedFits, CorrectionsFit, Held
  <2> QED
    BY <1>2, <2>1, <2>2, <2>3
<1> QED
  BY <1>1, <1>2 DEF CorrectedFits, CorrectionsFit

LEMMA MarksUnchanged ==
  ASSUME MarkInv, marks' = marks
  PROVE  MarkRowsStay
BY DEF MarkInv, TablesFit, MarkRowsStay

LEMMA ExamsUnchanged ==
  ASSUME MarkInv, exams' = exams
  PROVE  ExamsStay
BY DEF ExamsStay

\* A step that leaves marks and the history of marks alone, and is of no recording.
LEMMA OtherStep ==
  ASSUME MarkInv, TablesFit', ExamsStay, NEW s \in Sessions, NEW j \in MarkJobs,
         job' = [job EXCEPT ![s] = j] \/ job' = job,
         MarkJobFits(j, marks, exams), j.kind = "record" => AllNew(j, marks),
         marks' = marks, quiet' = quiet, corrected' = corrected, Watch({"record"}, marks' = marks)
  PROVE  MarkInv'
<1>1. MarkRowsStay
  BY MarksUnchanged
<1>2. MarkJobsFit' /\ MarkRequestsFit' /\ \A k \in Sessions : job'[k] = job[k] \/ job'[k] = j
  BY <1>1, MarkRequestStep, MarkTableStep
<1>3. RecordsAloneFit'
  BY <1>2, MarkAloneStep
<1>4. QuietFits' /\ CorrectedFits'
  BY <1>1, QuietStays, CorrectedStays
<1> QED
  BY <1>2, <1>3, <1>4 DEF MarkInv

-----------------------------------------------------------------------------
(* Recordings. *)

LEMMA SequenceMembers ==
  ASSUME NEW X, NEW q \in Seq(X)
  PROVE  \A i \in DOMAIN q : q[i] \in X
OBVIOUS

LEMMA RecordReadKeeps ==
  ASSUME MarkInv, NEW s \in Sessions, NEW r \in Recordings, RecordRead(s, r), Watch({"record"}, marks' = marks)
  PROVE  MarkInv' /\ ExamsStay
<1>1. PICK a \in ResolveStudent(r.lookup), e \in ResolveExam(r.exam) :
        /\ Duplicates(r, a, e) = {}
        /\ Begin(s, [kind |-> "record", rows |-> RowsFor(r, a, e)])
        /\ UNCHANGED markVars
  BY DEF RecordRead
<1>2. a \in Students /\ e \in Exams
  BY DEF ResolveStudent, ResolveExam, ActiveExams
<1>3. r.marks \in Seq([subject : Subjects, obtained : Int, max : Int])
  BY MarkBookAssumption DEF RecordRequests
<1> DEFINE R == RowsFor(r, a, e)
           j == [kind |-> "record", rows |-> R]
<1>4. R \in Seq(MarkRows) /\ DOMAIN R = DOMAIN r.marks
  <2>1. ASSUME NEW i \in DOMAIN r.marks PROVE R[i] \in MarkRows
    <3>1. r.marks[i] \in [subject : Subjects, obtained : Int, max : Int]
      BY <1>3, SequenceMembers
    <3>2. R[i] = [student |-> a, exam |-> e, subject |-> r.marks[i].subject,
                  obtained |-> r.marks[i].obtained, max |-> r.marks[i].max]
      BY DEF RowsFor
    <3> QED
      BY <1>2, <3>1, <3>2 DEF MarkRows
  <2>2. R = [i \in 1 .. Len(r.marks) |-> R[i]] /\ DOMAIN r.marks = 1 .. Len(r.marks) /\ Len(r.marks) \in Nat
    BY <1>3 DEF RowsFor
  <2> HIDE DEF R
  <2>3. R \in [1 .. Len(r.marks) -> MarkRows]
    BY <2>1, <2>2
  <2> QED
    BY <2>2, <2>3
<1>5. AllNew(j, marks)
  <2> SUFFICES ASSUME NEW i \in DOMAIN R, NEW m \in DOMAIN marks, marks[m] # NoMark,
                      marks[m].student = R[i].student, marks[m].exam = R[i].exam, marks[m].subject = R[i].subject
               PROVE  FALSE
    BY DEF AllNew, New
  <2>1. i \in DOMAIN r.marks /\ R[i].student = a /\ R[i].exam = e /\ R[i].subject = r.marks[i].subject
    BY <1>4 DEF RowsFor
  <2>2. m \in MarksOf(a, e) /\ marks[m].subject = r.marks[i].subject
    BY <2>1 DEF MarksOf, Held
  <2> QED
    BY <1>1, <2>1, <2>2 DEF Duplicates
<1> HIDE DEF R
<1>6. j \in MarkJobs /\ MarkJobFits(j, marks, exams)
  BY <1>4 DEF MarkJobs, RecordJobs, MarkJobFits
<1>7. /\ job' = [job EXCEPT ![s] = j] /\ TablesFit' /\ marks' = marks /\ exams' = exams
      /\ quiet' = quiet /\ corrected' = corrected
  BY <1>1 DEF Begin, markVars, MarkInv, TablesFit, R
<1>8. ExamsStay
  BY <1>7, ExamsUnchanged
<1> HIDE DEF j
<1> QED
  BY <1>5, <1>6, <1>7, <1>8, OtherStep

\* Rows are added at the end.
LEMMA Inserted ==
  ASSUME TablesFit, NEW R \in Seq(MarkRows), Insert(R), exams' = exams, deskEdits' = deskEdits
  PROVE  /\ TablesFit' /\ MarkRowsStay /\ Len(marks) \in Nat /\ Len(R) \in Nat
         /\ Len(marks') = Len(marks) + Len(R) /\ DOMAIN marks' = 1 .. Len(marks')
         /\ \A m \in DOMAIN marks : marks'[m] = marks[m]
         /\ \A i \in 1 .. Len(R) : marks'[Len(marks) + i] = R[i]
<1>1. marks \in Seq(MarkRows \cup {NoMark}) /\ R \in Seq(MarkRows \cup {NoMark})
  BY DEF TablesFit
<1>2. marks' = marks \o R /\ Len(marks) + Len(R) <= MaxMarks
  BY DEF Insert
<1>3. /\ marks' \in Seq(MarkRows \cup {NoMark}) /\ Len(marks) \in Nat /\ Len(R) \in Nat
      /\ Len(marks') = Len(marks) + Len(R) /\ DOMAIN marks' = 1 .. Len(marks')
      /\ \A m \in DOMAIN marks : marks'[m] = marks[m]
      /\ \A i \in 1 .. Len(R) : marks'[Len(marks) + i] = R[i]
  BY <1>1, <1>2
<1>4. TablesFit'
  BY <1>2, <1>3 DEF TablesFit
<1>5. MarkRowsStay
  BY <1>3 DEF MarkRowsStay
<1> QED
  BY <1>3, <1>4, <1>5

LEMMA RecordCommitKeeps ==
  ASSUME MarkInv, NEW s \in Sessions, RecordCommit(s), Watch({"record"}, marks' = marks)
  PROVE  MarkInv' /\ ExamsStay
<1> DEFINE R == job[s].rows
           ids == Len(marks) + 1 .. Len(marks) + Len(R)
           distinct == \A i, k \in DOMAIN R : R[i].subject = R[k].subject => i = k
<1>1. /\ Working(s, "record") /\ Insert(R) /\ EndJob(s) /\ exams' = exams /\ deskEdits' = deskEdits
      /\ corrected' = corrected
      /\ quiet' = IF s \in alone /\ distinct THEN quiet \cup ids ELSE quiet
  BY DEF RecordCommit
<1>2. R \in Seq(MarkRows)
  BY <1>1, MarkJobOf, MarkJobKinds DEF Working, RecordJobs
<1>3. TablesFit
  BY DEF MarkInv
<1> HIDE DEF R
<1>4. /\ TablesFit' /\ MarkRowsStay /\ Len(marks) \in Nat /\ Len(R) \in Nat
      /\ Len(marks') = Len(marks) + Len(R) /\ DOMAIN marks' = 1 .. Len(marks')
      /\ \A m \in DOMAIN marks : marks'[m] = marks[m]
      /\ \A i \in 1 .. Len(R) : marks'[Len(marks) + i] = R[i]
  BY <1>1, <1>2, <1>3, Inserted
<1>5. ExamsStay
  BY <1>1, ExamsUnchanged
<1>6. MarkJobsFit' /\ MarkRequestsFit' /\ \A k \in Sessions : job'[k] = job[k] \/ job'[k] = NoJob
  BY <1>1, <1>4, <1>5, NoMarkToFit, MarkRequestStep DEF EndJob
<1>7. RecordsAloneFit'
  BY <1>6, MarkAloneStep DEF NoJob
<1>8. CorrectedFits'
  BY <1>1, <1>4, CorrectedStays DEF MarkInv, CorrectedFits
<1>9. CASE quiet' = quiet
  BY <1>4, <1>5, <1>6, <1>7, <1>8, <1>9, QuietStays DEF MarkInv
<1>10. CASE s \in alone /\ distinct /\ quiet' = quiet \cup ids
  <2>1. quiet' \subseteq DOMAIN marks'
    BY <1>3, <1>4, <1>10 DEF MarkInv, QuietFits, TablesFit
  <2>2. ASSUME NEW m \in Held', NEW n \in Held', m < n, n \in quiet',
               marks'[m].student = marks'[n].student, marks'[m].exam = marks'[n].exam,
               marks'[m].subject = marks'[n].subject
        PROVE  FALSE
    <3>1. m \in 1 .. Len(marks') /\ n \in 1 .. Len(marks') /\ DOMAIN marks = 1 .. Len(marks)
      BY <1>3, <1>4 DEF Held, TablesFit
    <3>2. CASE n \in quiet
      <4>1. n \in DOMAIN marks /\ m \in DOMAIN marks
        BY <1>4, <2>2, <3>1, <3>2 DEF MarkInv, QuietFits
      <4>2. m \in Held /\ n \in Held
        BY <1>4, <4>1 DEF Held
      <4> QED
        BY <1>4, <2>2, <3>2, <4>1, <4>2 DEF MarkInv, QuietFits, RecordedOnce
    <3>3. CASE n \in ids
      <4>1. PICK i \in 1 .. Len(R) : n = Len(marks) + i
        <5>1. n - Len(marks) \in 1 .. Len(R) /\ n = Len(marks) + (n - Len(marks))
          BY <1>4, <3>3
        <5> QED
          BY <5>1
      <4>2. marks'[n] = R[i] /\ DOMAIN R = 1 .. Len(R)
        BY <1>2, <1>4, <4>1
      <4>3. CASE m \in DOMAIN marks
        <5>1. marks'[m] = marks[m] /\ marks[m] # NoMark
          BY <1>4, <4>3 DEF Held
        <5>2. New(marks, R[i])
          BY <1>10, <4>2 DEF MarkInv, RecordsAloneFit, AllNew, R
        <5> QED
          BY <2>2, <4>2, <4>3, <5>1, <5>2 DEF New
      <4>4. CASE m \notin DOMAIN marks
        <5>1. PICK k \in 1 .. Len(R) : m = Len(marks) + k
          <6>1. m - Len(marks) \in 1 .. Len(R) /\ m = Len(marks) + (m - Len(marks))
            BY <1>4, <3>1, <4>4
          <6> QED
            BY <6>1
        <5>2. marks'[m] = R[k] /\ R[k].subject = R[i].subject
          BY <1>4, <2>2, <4>2, <5>1
        <5>3. k = i
          BY <1>10, <4>2, <5>2
        <5> QED
          BY <1>4, <2>2, <4>1, <5>1, <5>3
      <4> QED
        BY <4>3, <4>4
    <3> QED
      BY <1>10, <2>2, <3>2, <3>3
  <2>3. QuietFits'
    BY <2>1, <2>2 DEF QuietFits, RecordedOnce
  <2> QED
    BY <1>4, <1>6, <1>7, <1>8, <2>3, <1>5 DEF MarkInv
<1> QED
  BY <1>1, <1>9, <1>10

-----------------------------------------------------------------------------
(* Corrections and the desk. *)

\* A commit of the ORM writes the marks and nothing else of the row.
LEMMA StoredRow ==
  ASSUME NEW r \in MarkRows, NEW c \in MarkRows, NEW h \in [obtained : Int]
  PROVE  /\ Flushed(r, c, h) \in MarkRows
         /\ Flushed(r, c, h).student = r.student /\ Flushed(r, c, h).exam = r.exam
         /\ Flushed(r, c, h).subject = r.subject /\ Flushed(r, c, h).max = r.max
         /\ Flushed(r, c, h).obtained = (IF h.obtained # c.obtained THEN h.obtained ELSE r.obtained)
<1> DEFINE q == Flushed(r, c, h)
<1>1. DOMAIN r = {"student", "exam", "subject", "obtained", "max"} /\ r.student \in Students /\ r.exam \in Exams
      /\ r.subject \in Subjects /\ r.obtained \in Int /\ r.max \in Int
  BY DEF MarkRows
<1>2. DOMAIN h = {"obtained"} /\ h.obtained \in Int
  OBVIOUS
<1>3. q = [f \in DOMAIN r |-> q[f]]
      /\ q.obtained = (IF h.obtained # c.obtained THEN h.obtained ELSE r.obtained)
  BY <1>1, <1>2 DEF Flushed
<1>4. q.student = r.student /\ q.exam = r.exam /\ q.subject = r.subject /\ q.max = r.max
  BY <1>1, <1>2 DEF Flushed
<1> HIDE DEF q
<1>5. q = [student |-> q.student, exam |-> q.exam, subject |-> q.subject, obtained |-> q.obtained, max |-> q.max]
  BY <1>1, <1>3
<1>6. q \in MarkRows
  BY <1>1, <1>2, <1>3, <1>4, <1>5 DEF MarkRows
<1> QED
  BY <1>3, <1>4, <1>6 DEF q

\* What a commit makes of the table.
LEMMA Stored ==
  ASSUME MarkInv, NEW s \in Sessions, job[s].kind \in {"correct", "desk"}, Store(job[s]),
         exams' = exams, deskEdits' = deskEdits
  PROVE  /\ TablesFit' /\ MarkRowsStay /\ job[s].id \in DOMAIN marks /\ DOMAIN marks' = DOMAIN marks
         /\ \A m \in DOMAIN marks \ {job[s].id} : marks'[m] = marks[m]
         /\ marks'[job[s].id] # NoMark =>
              /\ marks[job[s].id] # NoMark /\ marks[job[s].id].max = job[s].copy.max
              /\ marks'[job[s].id].obtained = IF job[s].change.obtained # job[s].copy.obtained
                                              THEN job[s].change.obtained ELSE marks[job[s].id].obtained
<1> DEFINE i == job[s].id  c == job[s].copy  h == job[s].change
           q == Flushed(marks[i], c, h)
<1>1. c \in MarkRows /\ h \in [obtained : Int] /\ i \in DOMAIN marks /\ (marks[i] # NoMark => marks[i].max = c.max)
  BY MarkJobOf, MarkJobKinds DEF CorrectJobs, DeskJobs, MarkJobFits
<1>2. marks \in Seq(MarkRows \cup {NoMark}) /\ Len(marks) \in Nat /\ DOMAIN marks = 1 .. Len(marks) /\ TablesFit
  BY DEF MarkInv, TablesFit
<1>3. CASE marks[i] = NoMark
  <2>1. marks' = marks
    BY <1>3 DEF Store
  <2> QED
    BY <1>1, <1>2, <1>3, <2>1, MarksUnchanged DEF TablesFit
<1>4. CASE marks[i] # NoMark
  <2>1. marks[i] \in MarkRows /\ marks' = [marks EXCEPT ![i] = q]
    BY <1>1, <1>2, <1>4 DEF Store
  <2>2. /\ q \in MarkRows
        /\ q.student = marks[i].student /\ q.exam = marks[i].exam
        /\ q.subject = marks[i].subject /\ q.max = marks[i].max
        /\ q.obtained = (IF h.obtained # c.obtained THEN h.obtained ELSE marks[i].obtained)
    BY <1>1, <2>1, StoredRow
  <2> HIDE DEF q
  <2>3. /\ marks' \in Seq(MarkRows \cup {NoMark}) /\ Len(marks') = Len(marks) /\ DOMAIN marks' = DOMAIN marks
        /\ marks'[i] = q /\ \A m \in DOMAIN marks \ {i} : marks'[m] = marks[m]
    BY <1>1, <1>2, <2>1, <2>2
  <2>4. TablesFit'
    BY <1>2, <2>3 DEF TablesFit
  <2>5. MarkRowsStay
    BY <1>2, <1>4, <2>2, <2>3 DEF MarkRowsStay
  <2> QED
    BY <1>1, <1>4, <2>2, <2>3, <2>4, <2>5
<1> QED
  BY <1>3, <1>4

LEMMA CorrectReadKeeps ==
  ASSUME MarkInv, NEW s \in Sessions, NEW c \in Corrections, CorrectRead(s, c), Watch({"record"}, marks' = marks)
  PROVE  MarkInv' /\ ExamsStay
<1>1. PICK m \in Held :
        /\ Fits(c.obtained, marks[m])
        /\ Begin(s, [kind |-> "correct", id |-> m, copy |-> marks[m], change |-> [obtained |-> c.obtained]])
        /\ UNCHANGED markVars
  BY DEF CorrectRead, MarksOf
<1> DEFINE j == [kind |-> "correct", id |-> m, copy |-> marks[m], change |-> [obtained |-> c.obtained]]
<1>2. m \in DOMAIN marks /\ m \in Nat /\ marks[m] \in MarkRows
  BY HeldRow DEF MarkInv, TablesFit
<1>3. c.obtained \in Int
  <2>1. c \in CorrectRequests
    BY MarkBookAssumption
  <2>2. c.obtained \in 0 .. 100
    BY <2>1 DEF CorrectRequests
  <2> QED
    BY <2>2
<1>4. j \in MarkJobs /\ MarkJobFits(j, marks, exams) /\ j.kind = "correct"
  BY <1>1, <1>2, <1>3 DEF MarkJobs, CorrectJobs, MarkJobFits, Fits
<1>5. /\ job' = [job EXCEPT ![s] = j] /\ TablesFit' /\ marks' = marks /\ exams' = exams
      /\ quiet' = quiet /\ corrected' = corrected
  BY <1>1 DEF Begin, markVars, MarkInv, TablesFit
<1>6. ExamsStay
  BY <1>5, ExamsUnchanged
<1> HIDE DEF j
<1> QED
  BY <1>4, <1>5, <1>6, OtherStep

LEMMA ChangeMarkReadKeeps ==
  ASSUME MarkInv, NEW s \in Sessions, NEW m, NEW v \in DeskValues, ChangeMarkRead(s, m, v),
         Watch({"record"}, marks' = marks)
  PROVE  MarkInv' /\ ExamsStay
<1> DEFINE j == [kind |-> "desk", id |-> m, copy |-> marks[m], change |-> [obtained |-> v]]
<1>1. m \in DOMAIN marks /\ m \in Nat /\ marks[m] \in MarkRows
  BY HeldRow DEF ChangeMarkRead, MarkInv, TablesFit
<1>2. j \in MarkJobs /\ MarkJobFits(j, marks, exams) /\ j.kind = "desk"
  BY <1>1, MarkBookAssumption DEF MarkJobs, DeskJobs, MarkJobFits
<1>3. /\ job' = [job EXCEPT ![s] = j] /\ TablesFit' /\ marks' = marks /\ exams' = exams
      /\ quiet' = quiet /\ corrected' = corrected
  BY DEF ChangeMarkRead, Begin, markVars, MarkInv, TablesFit
<1>4. ExamsStay
  BY <1>3, ExamsUnchanged
<1> HIDE DEF j
<1> QED
  BY <1>2, <1>3, <1>4, OtherStep

LEMMA CorrectCommitKeeps ==
  ASSUME MarkInv, NEW s \in Sessions, CorrectCommit(s), Watch({"record"}, marks' = marks)
  PROVE  MarkInv' /\ ExamsStay
<1> DEFINE i == job[s].id
           writes == job[s].change.obtained # job[s].copy.obtained /\ marks[i] # NoMark
<1>1. /\ job[s].kind = "correct" /\ Store(job[s]) /\ EndJob(s) /\ exams' = exams /\ deskEdits' = deskEdits
      /\ quiet' = quiet /\ corrected' = IF writes THEN corrected \cup {i} ELSE corrected
  BY DEF CorrectCommit, Working
<1>2. /\ TablesFit' /\ MarkRowsStay /\ i \in DOMAIN marks /\ DOMAIN marks' = DOMAIN marks
      /\ \A m \in DOMAIN marks \ {i} : marks'[m] = marks[m]
      /\ marks'[i] # NoMark =>
           /\ marks[i] # NoMark /\ marks[i].max = job[s].copy.max
           /\ marks'[i].obtained = IF job[s].change.obtained # job[s].copy.obtained
                                   THEN job[s].change.obtained ELSE marks[i].obtained
  BY <1>1, Stored
<1>3. job[s].change.obtained <= job[s].copy.max
  BY <1>1, MarkJobOf DEF MarkJobFits
<1>4. ExamsStay
  BY <1>1, ExamsUnchanged
<1>5. MarkJobsFit' /\ MarkRequestsFit' /\ \A k \in Sessions : job'[k] = job[k] \/ job'[k] = NoJob
  BY <1>1, <1>2, <1>4, NoMarkToFit, MarkRequestStep DEF EndJob
<1>6. RecordsAloneFit'
  BY <1>5, MarkAloneStep DEF NoJob
<1>7. QuietFits'
  BY <1>1, <1>2, QuietStays
<1>8. CorrectedFits'
  <2>1. corrected' \subseteq DOMAIN marks'
    BY <1>1, <1>2 DEF MarkInv, CorrectedFits
  <2>2. ASSUME NEW m \in corrected', m \in Held' PROVE marks'[m].obtained <= marks'[m].max
    <3>1. m \in DOMAIN marks /\ marks'[m] # NoMark
      BY <1>2, <2>2 DEF Held
    <3>2. marks[m] # NoMark /\ marks'[m].max = marks[m].max
      BY <1>2, <3>1 DEF MarkRowsStay
    <3>3. CASE m = i /\ writes
      BY <1>2, <1>3, <3>1, <3>2, <3>3
    <3>4. CASE ~(m = i /\ writes)
      <4>1. m \in corrected /\ marks'[m].obtained = marks[m].obtained
        BY <1>1, <1>2, <2>2, <3>1, <3>2, <3>4
      <4>2. marks[m].obtained <= marks[m].max
        BY <3>1, <3>2, <4>1 DEF MarkInv, CorrectedFits, CorrectionsFit, Held
      <4> QED
        BY <3>2, <4>1, <4>2
    <3> QED
      BY <3>3, <3>4
  <2> QED
    BY <2>1, <2>2 DEF CorrectedFits, CorrectionsFit
<1> QED
  BY <1>2, <1>4, <1>5, <1>6, <1>7, <1>8 DEF MarkInv

LEMMA ChangeMarkCommitKeeps ==
  ASSUME MarkInv, NEW s \in Sessions, ChangeMarkCommit(s), Watch({"record"}, marks' = marks)
  PROVE  MarkInv' /\ ExamsStay
<1> DEFINE i == job[s].id
           writes == job[s].change.obtained # job[s].copy.obtained
<1>1. /\ job[s].kind = "desk" /\ Store(job[s]) /\ EndJob(s) /\ exams' = exams /\ deskEdits' = deskEdits
      /\ quiet' = quiet /\ corrected' = IF writes THEN corrected \ {i} ELSE corrected
  BY DEF ChangeMarkCommit, Working
<1>2. /\ TablesFit' /\ MarkRowsStay /\ i \in DOMAIN marks /\ DOMAIN marks' = DOMAIN marks
      /\ \A m \in DOMAIN marks \ {i} : marks'[m] = marks[m]
      /\ marks'[i] # NoMark =>
           marks'[i].obtained = IF writes THEN job[s].change.obtained ELSE marks[i].obtained
  BY <1>1, Stored
<1>3. ExamsStay
  BY <1>1, ExamsUnchanged
<1>4. MarkJobsFit' /\ MarkRequestsFit' /\ \A k \in Sessions : job'[k] = job[k] \/ job'[k] = NoJob
  BY <1>1, <1>2, <1>3, NoMarkToFit, MarkRequestStep DEF EndJob
<1>5. RecordsAloneFit'
  BY <1>4, MarkAloneStep DEF NoJob
<1>6. corrected' \subseteq corrected /\ \A m \in corrected' : marks'[m] # NoMark => marks'[m].obtained = marks[m].obtained
  BY <1>1, <1>2 DEF MarkInv, CorrectedFits
<1> QED
  BY <1>1, <1>2, <1>3, <1>4, <1>5, <1>6, QuietStays, CorrectedStays DEF MarkInv

LEMMA EnterMarksKeeps ==
  ASSUME MarkInv, NEW R \in DeskEntries, EnterMarks(R), Watch({"record"}, marks' = marks)
  PROVE  MarkInv' /\ ExamsStay
<1>1. /\ R \in Seq(MarkRows) /\ Insert(R) /\ job' = job /\ exams' = exams /\ deskEdits' = deskEdits
      /\ quiet' = quiet /\ corrected' = corrected /\ TablesFit
  BY MarkBookAssumption DEF EnterMarks, MarkInv
<1>2. TablesFit' /\ MarkRowsStay /\ \A m \in DOMAIN marks : marks'[m] = marks[m]
  BY <1>1, Inserted
<1>3. ExamsStay
  BY <1>1, ExamsUnchanged
<1>4. MarkJobsFit' /\ MarkRequestsFit'
  BY <1>1, <1>2, <1>3, MarkTableStep
<1>5. RecordsAloneFit'
  BY <1>1, MarkAloneStep
<1> QED
  BY <1>1, <1>2, <1>3, <1>4, <1>5, QuietStays, CorrectedStays DEF MarkInv, CorrectedFits

LEMMA RemoveMarkKeeps ==
  ASSUME MarkInv, NEW m, RemoveMark(m), Watch({"record"}, marks' = marks)
  PROVE  MarkInv' /\ ExamsStay
<1>1. /\ m \in DOMAIN marks /\ marks' = [marks EXCEPT ![m] = NoMark] /\ job' = job /\ exams' = exams
      /\ deskEdits < MaxDeskEdits /\ deskEdits' = deskEdits + 1 /\ quiet' = quiet /\ corrected' = corrected
  BY DEF RemoveMark, Held
<1>2. /\ marks' \in Seq(MarkRows \cup {NoMark}) /\ Len(marks') = Len(marks) /\ DOMAIN marks' = DOMAIN marks
      /\ marks'[m] = NoMark /\ \A k \in DOMAIN marks \ {m} : marks'[k] = marks[k]
  BY <1>1 DEF MarkInv, TablesFit
<1>3. TablesFit'
  BY <1>1, <1>2, MarkBookAssumption DEF MarkInv, TablesFit
<1>4. MarkRowsStay
  BY <1>2 DEF MarkRowsStay, MarkInv, TablesFit
<1>5. ExamsStay
  BY <1>1, ExamsUnchanged
<1>6. MarkJobsFit' /\ MarkRequestsFit'
  BY <1>1, <1>3, <1>4, <1>5, MarkTableStep
<1>7. RecordsAloneFit'
  BY <1>1, MarkAloneStep
<1>8. \A k \in corrected' : marks'[k] # NoMark => marks'[k].obtained = marks[k].obtained
  BY <1>1, <1>2 DEF MarkInv, CorrectedFits
<1> QED
  BY <1>1, <1>3, <1>4, <1>5, <1>6, <1>7, <1>8, QuietStays, CorrectedStays DEF MarkInv

-----------------------------------------------------------------------------
(* Exams. *)

\* A step that changes the exams only.
LEMMA ExamStep ==
  ASSUME MarkInv, exams' \in [Exams -> ExamRows \cup {NoExam}], deskEdits' \in 0 .. MaxDeskEdits, ExamsStay,
         job' = job \/ \E s \in Sessions : EndJob(s),
         marks' = marks, quiet' = quiet, corrected' = corrected, Watch({"record"}, marks' = marks)
  PROVE  MarkInv'
<1>1. TablesFit'
  BY DEF MarkInv, TablesFit
<1>2. CASE Sessions = {}
  <2>1. MarkRowsStay /\ MarkJobsFit' /\ MarkRequestsFit'
    BY <1>1, <1>2, MarksUnchanged DEF MarkInv, MarkJobsFit, MarkRequestsFit, EndJob
  <2>2. RecordsAloneFit'
    BY <1>2, MarkAloneStep
  <2> QED
    BY <1>1, <2>1, <2>2, QuietStays, CorrectedStays DEF MarkInv
<1>3. CASE Sessions # {}
  BY <1>1, <1>3, NoMarkToFit, OtherStep DEF EndJob, NoJob
<1> QED
  BY <1>2, <1>3

LEMMA CreateExamKeeps ==
  ASSUME MarkInv, NEW e \in Exams, NEW name \in ExamNames, CreateExam(e, name), Watch({"record"}, marks' = marks)
  PROVE  MarkInv' /\ ExamsStay
<1>1. exams \in [Exams -> ExamRows \cup {NoExam}] /\ deskEdits' \in 0 .. MaxDeskEdits
  BY DEF MarkInv, TablesFit, CreateExam
<1>2. [name |-> name, active |-> TRUE] \in ExamRows
  BY DEF ExamRows
<1>3. exams' \in [Exams -> ExamRows \cup {NoExam}] /\ ExamsStay
  BY <1>1, <1>2 DEF CreateExam, ExamsStay
<1> QED
  BY <1>1, <1>3, ExamStep DEF CreateExam

LEMMA DeleteExamKeeps ==
  ASSUME MarkInv, NEW e \in Exams, DeleteExam(e), Watch({"record"}, marks' = marks)
  PROVE  MarkInv' /\ ExamsStay
<1>1. exams \in [Exams -> ExamRows \cup {NoExam}] /\ deskEdits' \in 0 .. MaxDeskEdits
  BY MarkBookAssumption DEF MarkInv, TablesFit, DeleteExam
<1>2. exams[e] \in ExamRows /\ exams' = [exams EXCEPT ![e] = [exams[e] EXCEPT !.active = FALSE]]
  BY <1>1 DEF DeleteExam, ActiveExams
<1> DEFINE r == [exams[e] EXCEPT !.active = FALSE]
<1>3. r \in ExamRows /\ r.active = FALSE
  BY <1>2 DEF ExamRows
<1>4. r # NoExam
  BY <1>3 DEF ExamRows, NoExam
<1> HIDE DEF r
<1>5. exams' = [exams EXCEPT ![e] = r]
  BY <1>2 DEF r
<1>6. exams' \in [Exams -> ExamRows \cup {NoExam}] /\ ExamsStay
  BY <1>1, <1>3, <1>4, <1>5 DEF ExamsStay
<1> QED
  BY <1>1, <1>6, ExamStep DEF DeleteExam

LEMMA ChangeExamReadKeeps ==
  ASSUME MarkInv, NEW s \in Sessions, NEW e \in Exams, NEW c \in [name : ExamNames], ChangeExamRead(s, e, c),
         Watch({"record"}, marks' = marks)
  PROVE  MarkInv' /\ ExamsStay
<1> DEFINE j == [kind |-> "exam", exam |-> e, copy |-> exams[e], change |-> c]
<1>1. exams[e] \in ExamRows /\ exams[e] # NoExam /\ exams[e].active
  BY DEF ChangeExamRead, ActiveExams, MarkInv, TablesFit
<1>2. exams[e].active = TRUE
  BY <1>1 DEF ExamRows
<1>3. j \in MarkJobs /\ MarkJobFits(j, marks, exams) /\ j.kind = "exam"
  BY <1>1, <1>2 DEF MarkJobs, ExamUpdates, MarkJobFits
<1>4. /\ job' = [job EXCEPT ![s] = j] /\ TablesFit' /\ marks' = marks /\ exams' = exams
      /\ quiet' = quiet /\ corrected' = corrected
  BY MarkBookAssumption DEF ChangeExamRead, Begin, MarkInv, TablesFit
<1>5. ExamsStay
  BY <1>4, ExamsUnchanged
<1> HIDE DEF j
<1> QED
  BY <1>3, <1>4, <1>5, OtherStep

\* The body has the name only, so whether the exam is deleted is not written.
LEMMA ChangeExamCommitKeeps ==
  ASSUME MarkInv, NEW s \in Sessions, ChangeExamCommit(s), Watch({"record"}, marks' = marks)
  PROVE  MarkInv' /\ ExamsStay
<1> DEFINE e == job[s].exam  c == job[s].copy  h == job[s].change
           q == Flushed(exams[e], c, h)
<1>1. e \in Exams /\ h \in [name : ExamNames] /\ exams[e] # NoExam
  BY MarkJobOf, MarkJobKinds DEF ChangeExamCommit, Working, ExamUpdates, MarkJobFits
<1>2. exams[e] \in ExamRows /\ exams \in [Exams -> ExamRows \cup {NoExam}] /\ exams' = [exams EXCEPT ![e] = q]
  BY <1>1 DEF MarkInv, TablesFit, ChangeExamCommit
<1>3. DOMAIN exams[e] = {"name", "active"} /\ exams[e].name \in ExamNames /\ exams[e].active \in BOOLEAN
      /\ DOMAIN h = {"name"} /\ h.name \in ExamNames
  BY <1>1, <1>2 DEF ExamRows
<1>4. q = [f \in {"name", "active"} |-> q[f]] /\ q.active = exams[e].active /\ q.name \in ExamNames
  BY <1>3 DEF Flushed
<1> HIDE DEF q
<1>5. q = [name |-> q.name, active |-> q.active]
  BY <1>4
<1>6. q \in ExamRows
  BY <1>3, <1>4, <1>5 DEF ExamRows
<1>7. q # NoExam
  BY <1>5 DEF NoExam
<1>8. exams' \in [Exams -> ExamRows \cup {NoExam}] /\ ExamsStay
  BY <1>1, <1>2, <1>4, <1>6, <1>7 DEF ExamsStay
<1>9. deskEdits' \in 0 .. MaxDeskEdits
  BY DEF ChangeExamCommit, MarkInv, TablesFit
<1> QED
  BY <1>8, <1>9, ExamStep DEF ChangeExamCommit

LEMMA MarkRequestFailsKeeps ==
  ASSUME MarkInv, NEW s \in Sessions, MarkRequestFails(s), Watch({"record"}, marks' = marks)
  PROVE  MarkInv' /\ ExamsStay
<1>1. exams' = exams /\ deskEdits' = deskEdits /\ marks' = marks /\ quiet' = quiet /\ corrected' = corrected /\ EndJob(s)
  BY DEF MarkRequestFails, markVars
<1>2. ExamsStay /\ exams' \in [Exams -> ExamRows \cup {NoExam}] /\ deskEdits' \in 0 .. MaxDeskEdits
  BY <1>1, ExamsUnchanged DEF MarkInv, TablesFit
<1> QED
  BY <1>1, <1>2, ExamStep

-----------------------------------------------------------------------------
(* The theorems. *)

LEMMA MarkInitial == MarkInit => MarkInv
<1> SUFFICES ASSUME MarkInit PROVE MarkInv
  OBVIOUS
<1>1. marks = <<>> /\ exams = [e \in Exams |-> NoExam] /\ deskEdits = 0 /\ quiet = {} /\ corrected = {}
      /\ job = [s \in Sessions |-> NoJob] /\ alone = {}
  BY DEF MarkInit, JobInit
<1>2. TablesFit
  BY <1>1, MarkBookAssumption DEF TablesFit
<1>3. MarkJobsFit /\ MarkRequestsFit
  BY <1>1, NoMarkToFit DEF MarkJobsFit, MarkRequestsFit
<1> QED
  BY <1>1, <1>2, <1>3 DEF MarkInv, RecordsAloneFit, QuietFits, CorrectedFits, RecordedOnce, CorrectionsFit

LEMMA MarkStepKeeps == MarkInv /\ [MarkNext]_<<job, alone, markVars>> => MarkInv' /\ ExamsStay
<1> SUFFICES ASSUME MarkInv, [MarkNext]_<<job, alone, markVars>> PROVE MarkInv' /\ ExamsStay
  OBVIOUS
<1>1. CASE MarkNext
  BY <1>1, RecordReadKeeps, CorrectReadKeeps, ChangeMarkReadKeeps, ChangeExamReadKeeps, RecordCommitKeeps,
     CorrectCommitKeeps, ChangeMarkCommitKeeps, ChangeExamCommitKeeps, MarkRequestFailsKeeps, EnterMarksKeeps,
     RemoveMarkKeeps, CreateExamKeeps, DeleteExamKeeps DEF MarkNext, MarkStep
<1>2. CASE UNCHANGED <<job, alone, markVars>>
  <2>1. job' = job /\ alone' = alone /\ marks' = marks /\ exams' = exams /\ deskEdits' = deskEdits
        /\ quiet' = quiet /\ corrected' = corrected
    BY <1>2 DEF markVars
  <2>2. MarkRowsStay /\ ExamsStay /\ TablesFit'
    BY <2>1, MarksUnchanged, ExamsUnchanged DEF MarkInv, TablesFit
  <2>3. RecordsAloneFit'
    BY <2>1 DEF MarkInv, RecordsAloneFit, AllNew, New, Working
  <2> QED
    BY <2>1, <2>2, <2>3, MarkTableStep, QuietStays, CorrectedStays DEF MarkInv
<1> QED
  BY <1>1, <1>2

LEMMA MarkInvariant == MarkSpec => []MarkInv
<1>1. MarkInv /\ [MarkNext]_<<job, alone, markVars>> => MarkInv'
  BY MarkStepKeeps
<1> QED
  BY <1>1, MarkInitial, PTL DEF MarkSpec

\* The tables and the sessions always hold values of their types.
THEOREM MarkTypesCorrect == MarkSpec => []MarkTypeOK
<1>1. MarkInv => MarkTypeOK
  <2> SUFFICES ASSUME MarkInv PROVE MarkTypeOK
    OBVIOUS
  <2>1. /\ Len(marks) \in Nat /\ DOMAIN marks = 1 .. Len(marks) /\ Len(marks) <= MaxMarks
        /\ \A m \in DOMAIN marks : marks[m] \in MarkRows \cup {NoMark}
    BY DEF MarkInv, TablesFit
  <2>2. quiet \subseteq 1 .. MaxMarks /\ corrected \subseteq 1 .. MaxMarks
    BY <2>1, MarkBookAssumption DEF MarkInv, QuietFits, CorrectedFits
  <2>3. ASSUME NEW s \in Sessions
        PROVE  \/ job[s] \in {NoJob} \cup CorrectJobs \cup DeskJobs \cup ExamJobs
               \/ job[s].kind = "record" /\ \A i \in DOMAIN job[s].rows : job[s].rows[i] \in MarkRows
    <3>1. job[s] \in RecordJobs => job[s].rows \in Seq(MarkRows) /\ job[s].kind = "record"
      BY DEF RecordJobs
    <3>2. job[s] \in ExamUpdates => job[s] \in ExamJobs
      BY DEF ExamUpdates, ExamJobs
    <3> QED
      BY <3>1, <3>2, MarkJobOf DEF MarkJobs
  <2> QED
    BY <2>1, <2>2, <2>3 DEF MarkInv, TablesFit, MarkTypeOK
<1> QED
  BY <1>1, MarkInvariant, PTL

\* A recording that nobody disturbed never gives a student a second mark for a
\* subject of an exam.
THEOREM RecordingsCorrect == MarkSpec => []RecordedOnce
<1>1. MarkInv => RecordedOnce
  BY DEF MarkInv, QuietFits
<1> QED
  BY <1>1, MarkInvariant, PTL

\* A mark corrected by the tool lies within its maximum.
THEOREM CorrectionsCorrect == MarkSpec => []CorrectionsFit
<1>1. MarkInv => CorrectionsFit
  BY DEF MarkInv, CorrectedFits
<1> QED
  BY <1>1, MarkInvariant, PTL

\* An exam that was deleted stays deleted, whatever an update has read before.
THEOREM DeletedExamsCorrect == MarkSpec => DeletedExamsStay
<1>1. MarkInv /\ [MarkNext]_<<job, alone, markVars>>
      => [\A e \in Exams : exams[e] # NoExam /\ ~exams[e].active => exams'[e] # NoExam /\ ~exams'[e].active]_markVars
  <2> SUFFICES ASSUME MarkInv, [MarkNext]_<<job, alone, markVars>>, NEW e \in Exams,
                      exams[e] # NoExam, ~exams[e].active
               PROVE  exams'[e] # NoExam /\ ~exams'[e].active
    OBVIOUS
  <2>1. exams[e].active = FALSE
    BY DEF MarkInv, TablesFit, ExamRows
  <2>2. exams'[e] # NoExam /\ exams'[e].active = FALSE
    BY <2>1, MarkStepKeeps DEF ExamsStay
  <2> QED
    BY <2>2
<1> QED
  BY <1>1, MarkInvariant, PTL DEF MarkSpec, DeletedExamsStay

-----------------------------------------------------------------------------
(* Every mark is for an exam that exists, so that the report card has a name   *)
(* to put it under: a recording finds the exam before and no exam goes away.    *)

There(r, E) == E[r.exam] # NoExam
AllThere(j, E) == j.kind = "record" => \A i \in DOMAIN j.rows : There(j.rows[i], E)
ExamsThere == (\A m \in Held : There(marks[m], exams)) /\ \A s \in Sessions : AllThere(job[s], exams)

\* A step of marks that are old or for an exam that is there, and of requests alike.
LEMMA ThereStep ==
  ASSUME MarkInv, MarkInv', ExamsThere, ExamsStay,
         \A m \in Held' : There(marks'[m], exams) \/ (m \in Held /\ marks'[m].exam = marks[m].exam),
         \A s \in Sessions : job'[s] = job[s] \/ AllThere(job'[s], exams)
  PROVE  ExamsThere'
<1>1. \A r \in MarkRows : There(r, exams) => There(r, exams')
  BY DEF There, ExamsStay, MarkRows
<1>2. ASSUME NEW m \in Held' PROVE There(marks'[m], exams')
  <2>1. There(marks'[m], exams)
    BY DEF ExamsThere, There
  <2>2. marks'[m] \in MarkRows
    BY DEF MarkInv, TablesFit, Held
  <2> QED BY <1>1, <2>1, <2>2
<1>3. ASSUME NEW s \in Sessions PROVE AllThere(job'[s], exams')
  <2>1. AllThere(job'[s], exams)
    BY DEF ExamsThere
  <2>2. ASSUME job'[s].kind = "record" PROVE job'[s].rows \in Seq(MarkRows)
    <3>1. job'[s] \in MarkJobs
      BY DEF MarkInv, MarkJobsFit
    <3> QED BY <2>2, <3>1, MarkJobKinds DEF RecordJobs
  <2>3. ASSUME job'[s].kind = "record" PROVE \A i \in DOMAIN job'[s].rows : job'[s].rows[i] \in MarkRows
    BY <2>2, <2>3, SequenceMembers
  <2> QED BY <1>1, <2>1, <2>3 DEF AllThere
<1> QED BY <1>2, <1>3 DEF ExamsThere

\* Rows that stay are rows of the same exam.
LEMMA StayingRows ==
  ASSUME MarkRowsStay, DOMAIN marks' = DOMAIN marks
  PROVE  \A m \in Held' : m \in Held /\ marks'[m].exam = marks[m].exam
BY DEF MarkRowsStay, Held

LEMMA ThereKeeps ==
  ASSUME MarkInv, MarkInv', ExamsThere, ExamsStay, MarkNext
  PROVE  ExamsThere'
<1> USE DEF EndJob, Begin
<1>0. job \in [Sessions -> MarkJobs] /\ AllThere(NoJob, exams)
  BY DEF MarkInv, MarkJobsFit, AllThere, NoJob
<1>1. ASSUME marks' = marks, \A s \in Sessions : job'[s] = job[s] \/ AllThere(job'[s], exams) PROVE ExamsThere'
  <2>1. \A m \in Held' : m \in Held /\ marks'[m].exam = marks[m].exam
    BY <1>1 DEF Held
  <2> QED BY <1>1, <2>1, ThereStep
<1>2. ASSUME NEW R \in Seq(MarkRows), Insert(R), \A i \in DOMAIN R : There(R[i], exams),
             exams' = exams, deskEdits' = deskEdits, \A s \in Sessions : job'[s] = job[s] \/ job'[s] = NoJob
      PROVE  ExamsThere'
  <2>1. /\ Len(marks) \in Nat /\ Len(R) \in Nat
        /\ Len(marks') = Len(marks) + Len(R) /\ DOMAIN marks' = 1 .. Len(marks')
        /\ \A m \in DOMAIN marks : marks'[m] = marks[m]
        /\ \A i \in 1 .. Len(R) : marks'[Len(marks) + i] = R[i]
    BY <1>2, Inserted DEF MarkInv
  <2>2. ASSUME NEW m \in Held'
        PROVE  There(marks'[m], exams) \/ (m \in Held /\ marks'[m].exam = marks[m].exam)
    <3>1. CASE m \in DOMAIN marks
      BY <2>1, <3>1 DEF Held
    <3>2. CASE m \notin DOMAIN marks
      <4>1. m \in 1 .. Len(marks) + Len(R) /\ DOMAIN marks = 1 .. Len(marks)
        BY <2>1 DEF Held, MarkInv, TablesFit
      <4>2. m - Len(marks) \in 1 .. Len(R) /\ m = Len(marks) + (m - Len(marks)) /\ DOMAIN R = 1 .. Len(R)
        BY <2>1, <3>2, <4>1
      <4> QED BY <1>2, <2>1, <4>2
    <3> QED BY <3>1, <3>2
  <2> QED BY <1>0, <1>2, <2>2, ThereStep
<1>3. ASSUME NEW s \in Sessions, NEW r \in Recordings, RecordRead(s, r) PROVE ExamsThere'
  <2>1. PICK a \in ResolveStudent(r.lookup), e \in ResolveExam(r.exam) :
          /\ job' = [job EXCEPT ![s] = [kind |-> "record", rows |-> RowsFor(r, a, e)]]
          /\ marks' = marks
    BY <1>3 DEF RecordRead, markVars
  <2>2. exams[e] # NoExam
    BY DEF ResolveExam, ActiveExams
  <2>3. AllThere([kind |-> "record", rows |-> RowsFor(r, a, e)], exams)
    BY <2>2 DEF AllThere, There, RowsFor
  <2> QED BY <1>0, <1>1, <2>1, <2>3
<1>4. ASSUME NEW s \in Sessions, RecordCommit(s) PROVE ExamsThere'
  <2>1. job[s].kind = "record" /\ job[s].rows \in Seq(MarkRows)
    BY <1>4, MarkJobOf, MarkJobKinds DEF RecordCommit, Working, RecordJobs
  <2>2. \A i \in DOMAIN job[s].rows : There(job[s].rows[i], exams)
    BY <2>1 DEF ExamsThere, AllThere
  <2>3. Insert(job[s].rows) /\ exams' = exams /\ deskEdits' = deskEdits /\ job' = [job EXCEPT ![s] = NoJob]
    BY <1>4 DEF RecordCommit
  <2> QED BY <1>0, <1>2, <2>1, <2>2, <2>3
<1>5. ASSUME NEW R \in DeskEntries, EnterMarks(R) PROVE ExamsThere'
  <2>1. R \in Seq(MarkRows)
    BY MarkBookAssumption
  <2>2. Insert(R) /\ (\A i \in DOMAIN R : There(R[i], exams)) /\ exams' = exams /\ deskEdits' = deskEdits /\ job' = job
    BY <1>5 DEF EnterMarks, There
  <2> QED BY <1>2, <2>1, <2>2
<1>6. ASSUME NEW s \in Sessions, CorrectCommit(s) \/ ChangeMarkCommit(s) PROVE ExamsThere'
  <2>1. /\ job[s].kind \in {"correct", "desk"} /\ Store(job[s]) /\ exams' = exams /\ deskEdits' = deskEdits
        /\ job' = [job EXCEPT ![s] = NoJob]
    BY <1>6 DEF CorrectCommit, ChangeMarkCommit, Working
  <2>2. MarkRowsStay /\ DOMAIN marks' = DOMAIN marks
    BY <2>1, Stored
  <2> QED BY <1>0, <2>1, <2>2, StayingRows, ThereStep
<1>7. ASSUME NEW m \in 1 .. MaxMarks, RemoveMark(m) PROVE ExamsThere'
  <2>1. marks \in Seq(MarkRows \cup {NoMark}) /\ marks' = [marks EXCEPT ![m] = NoMark] /\ job' = job
    BY <1>7 DEF RemoveMark, MarkInv, TablesFit
  <2>2. \A k \in Held' : k \in Held /\ marks'[k].exam = marks[k].exam
    BY <2>1 DEF Held
  <2> QED BY <2>1, <2>2, ThereStep
<1>8. ASSUME NEW s \in Sessions, \/ \E c \in Corrections : CorrectRead(s, c)
                                 \/ \E m \in 1 .. MaxMarks, v \in DeskValues : ChangeMarkRead(s, m, v)
                                 \/ \E e \in Exams, c \in [name : ExamNames] : ChangeExamRead(s, e, c)
                                 \/ ChangeExamCommit(s)
                                 \/ MarkRequestFails(s)
      PROVE  ExamsThere'
  <2>1. marks' = marks /\ \E j : job' = [job EXCEPT ![s] = j] /\ j.kind # "record"
    BY <1>8 DEF CorrectRead, ChangeMarkRead, ChangeExamRead, ChangeExamCommit, MarkRequestFails, markVars, NoJob
  <2>2. \A k \in Sessions : job'[k] = job[k] \/ job'[k].kind # "record"
    BY <1>0, <2>1
  <2> QED BY <1>1, <2>1, <2>2 DEF AllThere
<1>9. ASSUME \/ \E e \in Exams, n \in ExamNames : CreateExam(e, n)
             \/ \E e \in Exams : DeleteExam(e)
      PROVE  ExamsThere'
  <2>1. marks' = marks /\ job' = job
    BY <1>9 DEF CreateExam, DeleteExam
  <2> QED BY <1>1, <2>1
<1> QED BY <1>3, <1>4, <1>5, <1>6, <1>7, <1>8, <1>9 DEF MarkNext, MarkStep

LEMMA ThereInvariant == MarkSpec => []ExamsThere
<1>1. MarkInit => ExamsThere
  BY DEF MarkInit, JobInit, ExamsThere, Held, AllThere, NoJob
<1>2. MarkInv /\ ExamsThere /\ [MarkNext]_<<job, alone, markVars>> /\ MarkInv' => ExamsThere'
  <2>1. ASSUME MarkInv, ExamsThere, MarkInv', UNCHANGED <<job, alone, markVars>> PROVE ExamsThere'
    BY <2>1 DEF ExamsThere, Held, markVars
  <2> QED BY <2>1, ThereKeeps, MarkStepKeeps
<1> QED BY <1>1, <1>2, MarkInvariant, PTL DEF MarkSpec

-----------------------------------------------------------------------------
(* Reports: a percentage reaches a mark when a sum over the marks reaches 0, so *)
(* marks that all fall short fall short together.                              *)

\* By how much mark m is above p hundredths of a percent, in the terms of Percent.
Above(p) == [m \in Held |-> 20000 * marks[m].obtained - (2 * p - 1) * marks[m].max]

LEMMA MarkTotalIsSum == \A S, f : TotalOf(S, f) = SumOf([m \in S |-> marks[m][f]], S)
BY DEF TotalOf, FoldSet, MapThenFoldSet, SumOf, SumFunctionOnSet, FoldFunctionOnSet

\* Rounding to the next hundredth.
LEMMA PercentReaches ==
  ASSUME NEW o \in Int, NEW x \in Nat, x > 0, NEW p \in Nat
  PROVE  Percent(o, x) \in Int /\ (Percent(o, x) >= p <=> 20000 * o - (2 * p - 1) * x >= 0)
<1>1. PICK d, n : d = 2 * x /\ n = 20000 * o + x
  OBVIOUS
<1>2. d \in Nat /\ d > 0 /\ n \in Int
  BY <1>1
<1>3. PICK q : q = n \div d
  OBVIOUS
<1>4. q \in Int /\ d * q <= n /\ n < d * q + d
  BY <1>2, <1>3
<1>5. Percent(o, x) = q
  BY <1>1, <1>3 DEF Percent
<1>6. ASSUME q >= p PROVE d * p <= n
  <2>1. d * p <= d * q
    BY <1>2, <1>4, <1>6
  <2> QED BY <1>2, <1>4, <2>1
<1>7. ASSUME ~(q >= p) PROVE ~(d * p <= n)
  <2>1. q + 1 <= p
    BY <1>4, <1>7
  <2>2. d * (q + 1) <= d * p /\ d * (q + 1) = d * q + d
    BY <1>2, <1>4, <2>1
  <2> QED BY <1>2, <1>4, <2>2
<1>8. d * p <= n <=> 20000 * o - (2 * p - 1) * x >= 0
  <2>1. d * p = 2 * (p * x) /\ (2 * p - 1) * x = 2 * (p * x) - x
    BY <1>1
  <2>2. p * x \in Int
    OBVIOUS
  <2> QED BY <1>1, <2>1, <2>2
<1> QED BY <1>4, <1>5, <1>6, <1>7, <1>8

LEMMA PercentRounds ==
  ASSUME NEW o \in Int, NEW x \in Nat, x > 0
  PROVE  RoundedTo([obtained |-> o, max |-> x], Percent(o, x))
<1>1. PICK d, n : d = 2 * x /\ n = 20000 * o + x
  OBVIOUS
<1>2. d \in Nat /\ d > 0 /\ n \in Int
  BY <1>1
<1>3. PICK q : q = n \div d
  OBVIOUS
<1>4. q \in Int /\ d * q <= n /\ n < d * q + d
  BY <1>2, <1>3
<1>5. Percent(o, x) = q
  BY <1>1, <1>3 DEF Percent
<1>6. 2 * q * x = d * q /\ d * q \in Int
  BY <1>1, <1>2, <1>4
<1>7. 20000 * o - x <= 2 * q * x /\ 2 * q * x <= 20000 * o + x
  BY <1>1, <1>2, <1>4, <1>6
<1> QED BY <1>5, <1>7 DEF RoundedTo

LEMMA HeldFinite ==
  ASSUME MarkInv, NEW S \in SUBSET Held
  PROVE  IsFiniteSet(S) /\ \A m \in S : marks[m] \in MarkRows /\ marks[m].obtained \in Int /\ marks[m].max \in Int
<1>1. Held \subseteq 1 .. Len(marks) /\ Len(marks) \in Nat
  BY DEF MarkInv, TablesFit, Held
<1>2. IsFiniteSet(S)
  <2>1. IsFiniteSet(1 .. Len(marks)) /\ S \in SUBSET (1 .. Len(marks))
    BY <1>1, FS_Interval
  <2> QED BY <2>1, FS_Subset
<1> QED BY <1>2, HeldRow DEF MarkInv, MarkRows

\* A comparison with a quotient is the sum of the comparisons of the marks with it.
LEMMA RatioOfSums ==
  ASSUME MarkInv, NEW S \in SUBSET Held, NEW k \in Int, NEW h \in Int, NEW b,
         \A m \in S : b[m] = k * marks[m].obtained - h * marks[m].max
  PROVE  /\ Ratio(S).obtained \in Int /\ Ratio(S).max \in Int
         /\ Scaled(S) /\ S # {} => Ratio(S).max \in Nat /\ Ratio(S).max > 0
         /\ \A m \in S : b[m] \in Int
         /\ SumOf(b, S) = k * Ratio(S).obtained - h * Ratio(S).max
<1>1. PICK g \in Int : g = - h
  OBVIOUS
<1>2. PICK o, x, o2, x2 :
        /\ o = [m \in S |-> marks[m].obtained] /\ x = [m \in S |-> marks[m].max]
        /\ o2 = [m \in S |-> k * marks[m].obtained] /\ x2 = [m \in S |-> g * marks[m].max]
  OBVIOUS
<1>3. IsFiniteSet(S) /\ \A m \in S : marks[m].obtained \in Int /\ marks[m].max \in Int
  BY HeldFinite
<1>4. \A m \in S : /\ o[m] = marks[m].obtained /\ x[m] = marks[m].max
                   /\ o[m] \in Int /\ x[m] \in Int
                   /\ o2[m] = k * o[m] /\ x2[m] = g * x[m]
                   /\ o2[m] \in Int /\ x2[m] \in Int
  BY <1>2, <1>3
<1>5. ASSUME NEW m \in S PROVE b[m] = o2[m] + x2[m]
  <2>1. b[m] = k * o[m] - h * x[m]
    BY <1>4
  <2>2. h * x[m] \in Int /\ g * x[m] = - (h * x[m])
    BY <1>1, <1>4
  <2> QED BY <1>4, <2>1, <2>2
<1>6. SumOf(b, S) = SumOf(o2, S) + SumOf(x2, S)
  BY <1>3, <1>4, <1>5, SumsJoined
<1>7. SumOf(o2, S) = k * SumOf(o, S) /\ SumOf(x2, S) = g * SumOf(x, S)
  <2>1. SumOf(o2, S) = k * SumOf(o, S)
    BY <1>3, <1>4, SumsScaled
  <2>2. SumOf(x2, S) = g * SumOf(x, S)
    BY <1>3, <1>4, SumsScaled
  <2> QED BY <2>1, <2>2
<1>8. SumOf(o, S) \in Int /\ SumOf(x, S) \in Int
  BY <1>3, <1>4, SumTaken
<1>9. Ratio(S).obtained = SumOf(o, S) /\ Ratio(S).max = SumOf(x, S)
  BY <1>2, MarkTotalIsSum DEF Ratio
<1>10. ASSUME Scaled(S), S # {} PROVE SumOf(x, S) \in Nat /\ SumOf(x, S) > 0
  <2>1. \A m \in S : x[m] \in Nat /\ x[m] > 0
    BY <1>4, <1>10 DEF Scaled
  <2>2. SumOf(x, S) \in Nat /\ \A m \in S : x[m] <= SumOf(x, S)
    BY <1>3, <2>1, SumNatural
  <2> QED BY <1>10, <2>1, <2>2
<1>11. SumOf(b, S) = k * SumOf(o, S) - h * SumOf(x, S)
  <2>1. g * SumOf(x, S) = - (h * SumOf(x, S)) /\ h * SumOf(x, S) \in Int /\ k * SumOf(o, S) \in Int
    BY <1>1, <1>8
  <2> QED BY <1>6, <1>7, <2>1
<1>12. \A m \in S : b[m] \in Int
  BY <1>4, <1>5
<1> QED BY <1>8, <1>9, <1>10, <1>11, <1>12

LEMMA PercentAbove ==
  ASSUME MarkInv, NEW S \in SUBSET Held, S # {}, Scaled(S), NEW p \in Nat
  PROVE  PercentOf(S) \in Int /\ (PercentOf(S) >= p <=> SumOf(Above(p), S) >= 0)
<1>1. PICK b, h : b = Above(p) /\ h = 2 * p - 1
  OBVIOUS
<1>2. h \in Int /\ \A m \in S : b[m] = 20000 * marks[m].obtained - h * marks[m].max
  BY <1>1 DEF Above
<1>3. PICK o, x : o = Ratio(S).obtained /\ x = Ratio(S).max
  OBVIOUS
<1>4. o \in Int /\ x \in Nat /\ x > 0 /\ SumOf(b, S) = 20000 * o - h * x
  BY <1>2, <1>3, RatioOfSums
<1>5. PercentOf(S) = Percent(o, x)
  BY <1>3 DEF PercentOf, Ratio
<1> QED BY <1>1, <1>4, <1>5, PercentReaches

LEMMA AboveTyped ==
  ASSUME MarkInv, NEW p \in Nat, NEW m \in Held
  PROVE  Above(p)[m] \in Int
BY HeldFinite DEF Above

\* Who does well with some marks does well with one of them.
LEMMA SomeMarkReaches ==
  ASSUME MarkInv, NEW S \in SUBSET Held, S # {}, Scaled(S), NEW p \in Nat, PercentOf(S) >= p
  PROVE  \E m \in S : SubjectPercent(m) >= p
<1> SUFFICES ASSUME \A m \in S : ~(SubjectPercent(m) >= p) PROVE FALSE
  OBVIOUS
<1>1. PICK b : b = Above(p)
  OBVIOUS
<1>2. IsFiniteSet(S) /\ \A m \in S : b[m] \in Int
  BY <1>1, HeldFinite, AboveTyped
<1>3. ASSUME NEW m \in S PROVE b[m] < 0
  <2>1. {m} \in SUBSET Held /\ {m} # {} /\ Scaled({m}) /\ IsFiniteSet({m})
    BY FS_Singleton DEF Scaled
  <2>2. ~(SumOf(b, {m}) >= 0)
    BY <1>1, <2>1, PercentAbove DEF SubjectPercent
  <2>3. SumOf(b, {m}) = b[m] + SumOf(b, {m} \ {m}) /\ SumOf(b, {m} \ {m}) = 0
    <3>1. {m} \ {m} = {} /\ \A y \in {m} : b[y] \in Int
      BY <1>2
    <3> QED BY <2>1, <3>1, SumTaken, SumOfNone
  <2> QED BY <1>2, <2>2, <2>3
<1>4. SumOf(b, S) < 0
  BY <1>2, <1>3, SumsNegative
<1>5. SumOf(b, S) >= 0
  BY <1>1, PercentAbove
<1>6. SumOf(b, S) \in Int
  BY <1>2, SumTaken
<1> QED BY <1>4, <1>5, <1>6

\* What all marks together reach, those under one of the names reach.
LEMMA SomeCardReaches ==
  ASSUME MarkInv, ExamsThere, NEW a \in Students, NEW mine, mine = {m \in Held : marks[m].student = a},
         mine # {}, NEW k \in Int, NEW h \in Int, k * Ratio(mine).obtained - h * Ratio(mine).max >= 0
  PROVE  \E n \in ExamNames : /\ MarksNamed(a, n) # {}
                             /\ k * Ratio(MarksNamed(a, n)).obtained - h * Ratio(MarksNamed(a, n)).max >= 0
<1>1. PICK b : b = [m \in Held |-> k * marks[m].obtained - h * marks[m].max]
  OBVIOUS
<1>2. mine \in SUBSET Held /\ \A m \in Held : b[m] = k * marks[m].obtained - h * marks[m].max
  BY <1>1
<1> DEFINE name(m) == exams[marks[m].exam].name
<1>3. ASSUME NEW m \in mine PROVE name(m) \in ExamNames /\ m \in MarksNamed(a, name(m))
  <2>1. m \in Held /\ marks[m] \in MarkRows
    BY <1>2, HeldFinite
  <2>2. exams[marks[m].exam] \in ExamRows
    BY <2>1 DEF ExamsThere, There, MarkInv, TablesFit, MarkRows
  <2> QED BY <2>1, <2>2 DEF ExamRows, MarksNamed
<1>4. PICK c, names, part, v :
        /\ c = [m \in mine |-> name(m)] /\ names = {name(m) : m \in mine}
        /\ part = [n \in names |-> MarksNamed(a, n)]
        /\ v = [n \in names |-> SumOf(b, MarksNamed(a, n))]
  OBVIOUS
<1>5. ASSUME NEW n \in names
      PROVE  n \in ExamNames /\ MarksNamed(a, n) # {} /\ MarksNamed(a, n) \in SUBSET mine
  <2>1. PICK m \in mine : n = name(m)
    BY <1>4
  <2> QED BY <1>3, <2>1 DEF MarksNamed
<1>6. IsFiniteSet(mine) /\ IsFiniteSet(names) /\ \A m \in mine : b[m] \in Int
  <2>1. IsFiniteSet(mine)
    BY <1>2, HeldFinite
  <2>2. c \in Surjection(mine, names)
    BY <1>4 DEF Surjection
  <2>3. \A m \in mine : b[m] \in Int
    BY <1>2, RatioOfSums
  <2> QED BY <2>1, <2>2, <2>3, FS_Surjection
<1>7. Parted(mine, names, c, part)
  <2>1. \A m \in mine : c[m] \in names
    BY <1>4
  <2>2. \A n \in names : part[n] \in SUBSET mine /\ \A m \in mine : m \in part[n] <=> c[m] = n
    BY <1>4, <1>5 DEF MarksNamed
  <2> QED BY <2>1, <2>2 DEF Parted
<1>8. \A n \in names : v[n] = SumOf(b, part[n])
  BY <1>4
<1>9. SumOf(v, names) = SumOf(b, mine) /\ \A n \in names : v[n] \in Int
  BY <1>6, <1>7, <1>8, SumsGrouped
<1>10. ASSUME NEW n \in names
       PROVE  v[n] = k * Ratio(MarksNamed(a, n)).obtained - h * Ratio(MarksNamed(a, n)).max
  <2>1. PICK S : S = MarksNamed(a, n)
    OBVIOUS
  <2>2. S \in SUBSET Held /\ \A m \in S : b[m] = k * marks[m].obtained - h * marks[m].max
    BY <1>2, <1>5, <2>1
  <2>3. SumOf(b, S) = k * Ratio(S).obtained - h * Ratio(S).max
    BY <2>2, RatioOfSums
  <2> QED BY <1>4, <2>1, <2>3
<1>11. names # {}
  BY <1>4
<1>12. SumOf(b, mine) >= 0
  BY <1>2, RatioOfSums
<1> SUFFICES ASSUME \A n \in names : ~(v[n] >= 0) PROVE FALSE
  BY <1>5, <1>10
<1>13. \A n \in names : v[n] < 0
  BY <1>9
<1>14. SumOf(v, names) < 0
  BY <1>6, <1>9, <1>11, <1>13, SumsNegative
<1>15. SumOf(v, names) \in Int
  BY <1>6, <1>9, SumTaken
<1> QED BY <1>9, <1>12, <1>14, <1>15

\* The overall percentage lies between those of the exams.
LEMMA CardsAround ==
  ASSUME MarkInv, ExamsThere, NEW a \in Students, NEW mine, mine = {m \in Held : marks[m].student = a}, mine # {}
  PROVE  LET names == {n \in ExamNames : MarksNamed(a, n) # {}}
         IN  /\ \E n \in names : AtLeast(CardPercent(a, n), OverallPercent(a))
             /\ \E n \in names : AtLeast(OverallPercent(a), CardPercent(a, n))
<1>1. PICK o, x : o = Ratio(mine).obtained /\ x = Ratio(mine).max
  OBVIOUS
<1>2. ASSUME NEW S \in SUBSET Held PROVE Ratio(S).obtained \in Int /\ Ratio(S).max \in Int
  <2>1. PICK b : b = [m \in S |-> 0 * marks[m].obtained - 0 * marks[m].max]
    OBVIOUS
  <2> QED BY <2>1, RatioOfSums
<1>3. o \in Int /\ x \in Int /\ OverallPercent(a) = Ratio(mine)
  BY <1>1, <1>2 DEF OverallPercent
<1>4. PICK y, z : y = - x /\ z = - o
  OBVIOUS
<1>5. y \in Int /\ z \in Int /\ x * o - o * x >= 0 /\ y * o - z * x >= 0
  <2>1. y \in Int /\ z \in Int /\ x * o = o * x /\ o * x \in Int
    BY <1>3, <1>4
  <2>2. y * o = - (o * x) /\ z * x = - (o * x)
    BY <1>3, <1>4
  <2> QED BY <2>1, <2>2
<1>6. \E n \in ExamNames : MarksNamed(a, n) # {} /\ AtLeast(CardPercent(a, n), OverallPercent(a))
  <2>1. PICK n \in ExamNames : /\ MarksNamed(a, n) # {}
                              /\ x * Ratio(MarksNamed(a, n)).obtained - o * Ratio(MarksNamed(a, n)).max >= 0
    BY <1>1, <1>3, <1>5, SomeCardReaches
  <2>2. PICK r : r = Ratio(MarksNamed(a, n))
    OBVIOUS
  <2>3. r.obtained \in Int /\ r.max \in Int
    BY <1>2, <2>2 DEF MarksNamed
  <2>4. r.obtained * x >= o * r.max
    <3>1. r.obtained * x = x * r.obtained /\ x * r.obtained \in Int /\ o * r.max \in Int
      BY <1>3, <2>3
    <3> QED BY <2>1, <2>2, <3>1
  <2> QED BY <1>1, <1>3, <2>1, <2>2, <2>4 DEF AtLeast, CardPercent
<1>7. \E n \in ExamNames : MarksNamed(a, n) # {} /\ AtLeast(OverallPercent(a), CardPercent(a, n))
  <2>1. PICK n \in ExamNames : /\ MarksNamed(a, n) # {}
                              /\ y * Ratio(MarksNamed(a, n)).obtained - z * Ratio(MarksNamed(a, n)).max >= 0
    BY <1>1, <1>3, <1>5, SomeCardReaches
  <2>2. PICK r : r = Ratio(MarksNamed(a, n))
    OBVIOUS
  <2>3. r.obtained \in Int /\ r.max \in Int
    BY <1>2, <2>2 DEF MarksNamed
  <2>4. o * r.max >= r.obtained * x
    <3>1. /\ y * r.obtained = - (r.obtained * x) /\ z * r.max = - (o * r.max)
          /\ r.obtained * x \in Int /\ o * r.max \in Int
      BY <1>3, <1>4, <2>3
    <3> QED BY <2>1, <2>2, <3>1
  <2> QED BY <1>1, <1>3, <2>1, <2>2, <2>4 DEF AtLeast, CardPercent
<1> QED BY <1>6, <1>7

\* The tool rounds the percentage of the card.
LEMMA CardsRounded ==
  ASSUME MarkInv, NEW a \in Students, NEW n, MarksNamed(a, n) # {}, Scaled(MarksNamed(a, n))
  PROVE  RoundedTo(CardPercent(a, n), NamedPercent(a, n))
<1>1. PICK S : S = MarksNamed(a, n)
  OBVIOUS
<1>2. S \in SUBSET Held /\ S # {} /\ Scaled(S)
  BY <1>1 DEF MarksNamed
<1>3. PICK b : b = [m \in S |-> 0 * marks[m].obtained - 0 * marks[m].max]
  OBVIOUS
<1>4. PICK o, x : o = Ratio(S).obtained /\ x = Ratio(S).max
  OBVIOUS
<1>5. o \in Int /\ x \in Nat /\ x > 0
  BY <1>2, <1>3, <1>4, RatioOfSums
<1>6. NamedPercent(a, n) = Percent(o, x) /\ CardPercent(a, n) = [obtained |-> o, max |-> x]
  BY <1>1, <1>4 DEF NamedPercent, CardPercent, PercentOf, Ratio
<1> QED BY <1>5, <1>6, PercentRounds

LEMMA GradeReaches ==
  ASSUME NEW p \in Int
  PROVE  (Grade(p) # "F" <=> p >= 5000) /\ (IsPass(p) <=> p >= 100 * PassMark)
BY DEF Grade, IsPass

\* Out of 100 the marks are the percentage.
LEMMA HundredReaches ==
  ASSUME MarkInv, NEW m \in Held, marks[m].max = 100
  PROVE  IsPass(SubjectPercent(m)) <=> marks[m].obtained >= PassMark
<1>1. PICK b : b = Above(100 * PassMark)
  OBVIOUS
<1>2. {m} \in SUBSET Held /\ {m} # {} /\ Scaled({m}) /\ IsFiniteSet({m}) /\ 100 * PassMark \in Nat
  <2>1. IsFiniteSet({m})
    BY FS_Singleton
  <2>2. 100 * PassMark \in Nat
    BY MarkBookAssumption
  <2> QED BY <2>1, <2>2 DEF Scaled
<1>3. SubjectPercent(m) \in Int /\ (SubjectPercent(m) >= 100 * PassMark <=> SumOf(b, {m}) >= 0)
  BY <1>1, <1>2, PercentAbove DEF SubjectPercent
<1>4. b[m] \in Int /\ b[m] = 20000 * marks[m].obtained - (2 * (100 * PassMark) - 1) * 100 /\ marks[m].obtained \in Int
  BY <1>1, <1>2, AboveTyped, HeldFinite DEF Above
<1>5. SumOf(b, {m}) = b[m] + SumOf(b, {m} \ {m}) /\ SumOf(b, {m} \ {m}) = 0
  <2>1. {m} \ {m} = {} /\ \A y \in {m} : b[y] \in Int
    BY <1>4
  <2> QED BY <1>2, <2>1, SumTaken, SumOfNone
<1> QED BY <1>3, <1>4, <1>5, MarkBookAssumption DEF IsPass

\* A mark of the class in its subject, when it is out of something.
LEMMA InItsClass ==
  ASSUME MarkInv, NEW a \in Students, NEW m \in Held, marks[m].student = a, marks[m].max > 0
  PROVE  marks[m].subject \in Subjects /\ m \in ClassMarks(ClassOf[a], marks[m].subject)
BY HeldFinite DEF ClassMarks, MarkRows

LEMMA ExamReportsAgreeOn ==
  ASSUME MarkInv, NEW a \in Students, NEW e \in Exams, NEW ms, ms = MarksOf(a, e), ms # {}, Scaled(ms)
  PROVE  /\ ExamPassed(a, e) => \E x \in Subjects : ms \cap Passes(ClassOf[a], x) # {}
         /\ Grade(MarksheetPercent(a, e)) # "F" => \E m \in ms : Grade(SubjectPercent(m)) # "F"
         /\ (\A m \in ms : marks[m].max = 100) =>
              ms \cap PassedInExam(ClassOf[a], e) = ms \cap UNION {Passes(ClassOf[a], x) : x \in Subjects}
<1>0. 100 * PassMark \in Nat
  BY MarkBookAssumption
<1>1. ms \in SUBSET Held /\ MarksheetPercent(a, e) = PercentOf(ms)
      /\ \A m \in ms : marks[m].student = a /\ marks[m].exam = e
  BY DEF MarksOf, MarksheetPercent
<1>2. PercentOf(ms) \in Int
  BY <1>0, <1>1, PercentAbove
<1>3. \A m \in ms : SubjectPercent(m) \in Int
  <2>1. ASSUME NEW m \in ms PROVE PercentOf({m}) \in Int
    <3>1. {m} \in SUBSET Held /\ {m} # {} /\ Scaled({m})
      BY <1>1 DEF Scaled
    <3> QED BY <1>0, <3>1, PercentAbove
  <2> QED BY <2>1 DEF SubjectPercent
<1>4. ASSUME NEW m \in ms
      PROVE  /\ marks[m].subject \in Subjects
             /\ \A x \in Subjects : m \in Passes(ClassOf[a], x) => IsPass(SubjectPercent(m))
             /\ IsPass(SubjectPercent(m)) => m \in Passes(ClassOf[a], marks[m].subject)
  BY <1>1, InItsClass DEF Passes, Scaled
<1>5. ASSUME ExamPassed(a, e) PROVE \E x \in Subjects : ms \cap Passes(ClassOf[a], x) # {}
  <2>1. PercentOf(ms) >= 100 * PassMark
    BY <1>1, <1>2, <1>5, GradeReaches DEF ExamPassed
  <2>2. PICK m \in ms : SubjectPercent(m) >= 100 * PassMark
    BY <1>0, <1>1, <2>1, SomeMarkReaches
  <2>3. IsPass(SubjectPercent(m))
    BY <1>3, <2>2, GradeReaches
  <2> QED BY <1>4, <2>3
<1>6. ASSUME Grade(MarksheetPercent(a, e)) # "F" PROVE \E m \in ms : Grade(SubjectPercent(m)) # "F"
  <2>1. PercentOf(ms) >= 5000
    BY <1>1, <1>2, <1>6, GradeReaches
  <2>2. PICK m \in ms : SubjectPercent(m) >= 5000
    BY <1>1, <2>1, SomeMarkReaches
  <2> QED BY <1>3, <2>2, GradeReaches
<1>7. ASSUME \A m \in ms : marks[m].max = 100
      PROVE  ms \cap PassedInExam(ClassOf[a], e) = ms \cap UNION {Passes(ClassOf[a], x) : x \in Subjects}
  <2>1. ASSUME NEW m \in ms
        PROVE  m \in PassedInExam(ClassOf[a], e) <=> \E x \in Subjects : m \in Passes(ClassOf[a], x)
    <3>1. IsPass(SubjectPercent(m)) <=> marks[m].obtained >= PassMark
      BY <1>1, <1>7, HundredReaches
    <3>2. m \in PassedInExam(ClassOf[a], e) <=> marks[m].obtained >= PassMark
      BY <1>1 DEF PassedInExam
    <3> QED BY <1>4, <3>1, <3>2
  <2> QED BY <2>1
<1> QED BY <1>5, <1>6, <1>7

LEMMA ReportsAgreeOn ==
  ASSUME MarkInv, ExamsThere
  PROVE  ReportsAgree
<1>1. ASSUME NEW a \in Students, NEW e \in Exams PROVE ExamReportsAgree(a, e)
  BY ExamReportsAgreeOn DEF ExamReportsAgree
<1>2. ASSUME NEW a \in Students PROVE CardAgrees(a)
  <2>1. PICK mine : mine = {m \in Held : marks[m].student = a}
    OBVIOUS
  <2>2. ASSUME Scaled(mine), NEW n \in ExamNames, MarksNamed(a, n) # {}
        PROVE  RoundedTo(CardPercent(a, n), NamedPercent(a, n))
    <3>1. Scaled(MarksNamed(a, n))
      BY <2>1, <2>2 DEF MarksNamed, Scaled
    <3> QED BY <2>2, <3>1, CardsRounded
  <2> QED BY <2>1, <2>2, CardsAround DEF CardAgrees
<1> QED BY <1>1, <1>2 DEF ReportsAgree

\* The reports agree, whatever different maxima, second marks and rounding do to
\* what each of them counts.
THEOREM ReportsCorrect == MarkSpec => []ReportsAgree
<1>1. MarkInv /\ ExamsThere => ReportsAgree
  BY ReportsAgreeOn
<1> QED BY <1>1, MarkInvariant, ThereInvariant, PTL

=============================================================================
