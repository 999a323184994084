------------------------------- MODULE MarkBook -------------------------------
(***************************************************************************)
(* The marks of a school: the rows of the marks table, the exams they are    *)
(* for, and the two ways marks are written.  The desk (the HTTP endpoints)    *)
(* inserts, changes and deletes rows as it is told.  The tools of the mark    *)
(* agent find the student and the exam by name, look at the marks that are    *)
(* there, and then record or correct marks.  No key of the table keeps two    *)
(* marks of a student for one subject of an exam apart.                       *)
(*                                                                         *)
(* Who may call what is decided before; students, classes and subjects do not *)
(* change here, and a subject is resolved like an exam that never changes.     *)
(***************************************************************************)
EXTENDS Integers, FiniteSets, Sequences, FiniteSetsExt, School

CONSTANTS Exams,          \* ids of exams
          ExamNames,
          ClassOf,        \* ClassOf[a]: the class of student a
          Lookups,        \* names and ids students are asked for by
          Bearers,        \* Bearers[l]: students whose full name or id is l
          Alike,          \* Alike[l]: students search_students matches with l
          SearchLimit,    \* search_students is asked for so many at most
          Recordings,     \* calls of record_student_marks that are tried
          Corrections,    \* calls of update_student_marks that are tried
          DeskEntries,    \* bodies of POST /marks and /marks/bulk that are tried
          DeskValues,     \* marks of PUT /marks/{id} that are tried
          AnyClass,       \* a recording that names no class
          PassMark,       \* PASS_MARK_THRESHOLD
          MaxMarks,       \* bound: rows of the table
          MaxDeskEdits    \* bound: removals of marks, updates and deletions of exams

VARIABLES marks,      \* the rows in the order they were inserted; NoMark once deleted
          exams,      \* exams[e]: the row, or NoExam
          deskEdits,  \* history: removals of marks, updates and deletions of exams
          quiet,      \* history: rows of recordings that nobody disturbed
          corrected   \* history: rows last written by update_student_marks

markVars == <<marks, exams, deskEdits, quiet, corrected>>

-----------------------------------------------------------------------------
NoMark == [student |-> "none"]
NoExam == [name |-> "none"]
MarkRows == [student : Students, exam : Exams, subject : Subjects, obtained : Int, max : Int]
ExamRows == [name : ExamNames, active : BOOLEAN]

\* What the tools are called with.
RecordRequests == [lookup : Lookups, exam : ExamNames, class : Classes \cup {AnyClass},
                   marks : Seq([subject : Subjects, obtained : Int, max : Int])]
CorrectRequests == [lookup : Lookups, exam : ExamNames, subject : Subjects, obtained : 0 .. 100]

RecordJobs == [kind : {"record"}, rows : Seq(MarkRows)]
CorrectJobs == [kind : {"correct"}, id : Nat, copy : MarkRows, change : [obtained : Int]]
DeskJobs == [kind : {"desk"}, id : Nat, copy : MarkRows, change : [obtained : Int]]
ExamJobs == [kind : {"exam"}, exam : Exams, copy : ExamRows, change : [name : ExamNames]]

ASSUME MarkBookAssumption ==
  /\ Bearers \in [Lookups -> SUBSET Students] /\ Alike \in [Lookups -> SUBSET Students]
  /\ \A l \in Lookups : Bearers[l] \subseteq Alike[l]
  /\ Recordings \subseteq RecordRequests /\ Corrections \subseteq CorrectRequests
  /\ DeskEntries \subseteq Seq(MarkRows) /\ DeskValues \subseteq Int
  /\ ClassOf \in [Students -> Classes] /\ AnyClass \notin Classes
  /\ SearchLimit \in Nat \ {0} /\ PassMark \in Nat /\ MaxMarks \in Nat /\ MaxDeskEdits \in Nat

MarkInit == /\ marks = <<>>
            /\ exams = [e \in Exams |-> NoExam]
            /\ deskEdits = 0
            /\ quiet = {} /\ corrected = {}
            /\ JobInit

Held == {m \in DOMAIN marks : marks[m] # NoMark}
MarksOf(a, e) == {m \in Held : marks[m].student = a /\ marks[m].exam = e}

\* Numeric(5,2): the database refuses anything else, with the whole insert.
Storable(v) == -1000 < v /\ v < 1000

Insert(rows) == /\ Len(marks) + Len(rows) <= MaxMarks
                /\ \A i \in DOMAIN rows : Storable(rows[i].obtained)
                /\ marks' = marks \o rows

\* UPDATE of the fields that changed; a row deleted meanwhile raises StaleDataError.
Store(j) == marks' = IF marks[j.id] = NoMark THEN marks
                     ELSE [marks EXCEPT ![j.id] = Flushed(@, j.copy, j.change)]

-----------------------------------------------------------------------------
(* Whom and what a request means. *)

\* The only bearer of the full name among those found, else the only one found;
\* the search has no order, so any SearchLimit of the students alike may be found.
ResolveStudent(l) ==
  LET Found == {F \in SUBSET Alike[l] : Cardinality(F) = IF Cardinality(Alike[l]) <= SearchLimit
                                                         THEN Cardinality(Alike[l]) ELSE SearchLimit}
      Meant(F) == IF Bearers[l] \cap F # {} THEN Bearers[l] \cap F ELSE F
  IN {a \in Students : \E F \in Found : Meant(F) = {a}}

ActiveExams == {e \in Exams : exams[e] # NoExam /\ exams[e].active}

\* Active exams of that name: none and several are both refused.
ResolveExam(name) ==
  LET found == {e \in ActiveExams : exams[e].name = name}
  IN IF Cardinality(found) = 1 THEN found ELSE {}

\* MarkInput: the comparison with the maximum sees 100 whatever the maximum is,
\* because the field is validated before max_marks.
AcceptedMark(m) == 0 <= m.obtained /\ m.obtained <= 100 /\ 1 <= m.max

AsksForMarks(r, a) == /\ \A i \in DOMAIN r.marks : AcceptedMark(r.marks[i])
                      /\ r.class \in {AnyClass, ClassOf[a]}

-----------------------------------------------------------------------------
(* record_student_marks: the names are resolved and the marks that exist are   *)
(* read; a subject that has a mark ends the call.  The rows are inserted        *)
(* together.                                                                    *)

RowsFor(r, a, e) == [i \in DOMAIN r.marks |->
  [student |-> a, exam |-> e, subject |-> r.marks[i].subject,
   obtained |-> r.marks[i].obtained, max |-> r.marks[i].max]]

\* Mutant: a mark of 0 is taken for none.
DuplicatesPositive(r, a, e) ==
  {i \in DOMAIN r.marks : \E m \in MarksOf(a, e) : marks[m].subject = r.marks[i].subject /\ marks[m].obtained > 0}

Duplicates(r, a, e) == {i \in DOMAIN r.marks : \E m \in MarksOf(a, e) : marks[m].subject = r.marks[i].subject}

RecordRead(s, r) ==
  \E a \in ResolveStudent(r.lookup), e \in ResolveExam(r.exam) :
    /\ AsksForMarks(r, a)
    /\ Duplicates(r, a, e) = {}
    /\ Begin(s, [kind |-> "record", rows |-> RowsFor(r, a, e)])
    /\ UNCHANGED markVars

RecordCommit(s) ==
  /\ Working(s, "record")
  /\ LET rows == job[s].rows
         ids == Len(marks) + 1 .. Len(marks) + Len(rows)
         distinct == \A i, k \in DOMAIN rows : rows[i].subject = rows[k].subject => i = k
     IN /\ Insert(rows)
        /\ quiet' = IF s \in alone /\ distinct THEN quiet \cup ids ELSE quiet
  /\ EndJob(s)
  /\ UNCHANGED <<exams, deskEdits, corrected>>

-----------------------------------------------------------------------------
(* update_student_marks: the first mark of the subject is compared with its     *)
(* maximum and written.                                                         *)

\* Mutant: the new marks may be any.
FitsAny(new, row) == TRUE
Fits(new, row) == new <= row.max

CorrectRead(s, c) ==
  \E a \in ResolveStudent(c.lookup), e \in ResolveExam(c.exam) :
    \E m \in {x \in MarksOf(a, e) : marks[x].subject = c.subject} :
      /\ Fits(c.obtained, marks[m])
      /\ Begin(s, [kind |-> "correct", id |-> m, copy |-> marks[m], change |-> [obtained |-> c.obtained]])
      /\ UNCHANGED markVars

CorrectCommit(s) ==
  /\ Working(s, "correct")
  /\ Store(job[s])
  /\ corrected' = IF job[s].change.obtained # job[s].copy.obtained /\ marks[job[s].id] # NoMark
                  THEN corrected \cup {job[s].id} ELSE corrected
  /\ EndJob(s)
  /\ UNCHANGED <<exams, deskEdits, quiet>>

-----------------------------------------------------------------------------
(* The desk. *)

EnterMarks(rows) ==
  /\ Insert(rows)
  /\ \A i \in DOMAIN rows : exams[rows[i].exam] # NoExam
  /\ UNCHANGED <<job, exams, deskEdits, quiet, corrected>>

ChangeMarkRead(s, m, v) ==
  /\ m \in Held
  /\ Begin(s, [kind |-> "desk", id |-> m, copy |-> marks[m], change |-> [obtained |-> v]])
  /\ UNCHANGED markVars

ChangeMarkCommit(s) ==
  /\ Working(s, "desk")
  /\ Storable(job[s].change.obtained)
  /\ Store(job[s])
  /\ corrected' = IF job[s].change.obtained # job[s].copy.obtained THEN corrected \ {job[s].id} ELSE corrected
  /\ EndJob(s)
  /\ UNCHANGED <<exams, deskEdits, quiet>>

\* The row is found and deleted; that it was gone by then would only be a warning.
RemoveMark(m) ==
  /\ m \in Held /\ deskEdits < MaxDeskEdits
  /\ marks' = [marks EXCEPT ![m] = NoMark]
  /\ deskEdits' = deskEdits + 1
  /\ UNCHANGED <<job, exams, quiet, corrected>>

-----------------------------------------------------------------------------
(* Exams. *)

CreateExam(e, name) ==
  /\ exams[e] = NoExam
  /\ exams' = [exams EXCEPT ![e] = [name |-> name, active |-> TRUE]]
  /\ UNCHANGED <<job, marks, deskEdits, quiet, corrected>>

\* delete_exam answers for an inactive exam as if it had deleted it.
DeleteExam(e) ==
  /\ e \in ActiveExams /\ deskEdits < MaxDeskEdits
  /\ exams' = [exams EXCEPT ![e].active = FALSE]
  /\ deskEdits' = deskEdits + 1
  /\ UNCHANGED <<job, marks, quiet, corrected>>

\* update_exam loads the row and refuses an inactive one.
ChangeExamRead(s, e, change) ==
  /\ e \in ActiveExams /\ deskEdits < MaxDeskEdits
  /\ Begin(s, [kind |-> "exam", exam |-> e, copy |-> exams[e], change |-> change])
  /\ deskEdits' = deskEdits + 1
  /\ UNCHANGED <<marks, exams, quiet, corrected>>

\* Mutant: the whole row is written back.
ChangeExamCommitWhole(s) ==
  /\ Working(s, "exam")
  /\ exams' = [exams EXCEPT ![job[s].exam] =
       [f \in DOMAIN @ |-> IF f \in DOMAIN job[s].change THEN job[s].change[f] ELSE job[s].copy[f]]]
  /\ EndJob(s)
  /\ UNCHANGED <<marks, deskEdits, quiet, corrected>>

ChangeExamCommit(s) ==
  /\ Working(s, "exam")
  /\ exams' = [exams EXCEPT ![job[s].exam] = Flushed(@, job[s].copy, job[s].change)]
  /\ EndJob(s)
  /\ UNCHANGED <<marks, deskEdits, quiet, corrected>>

\* Anything that raises before the commit: the session is rolled back.
MarkRequestFails(s) == job[s] # NoJob /\ EndJob(s) /\ UNCHANGED markVars

MarkStep ==
  \/ \E s \in Sessions :
       \/ \E r \in Recordings : RecordRead(s, r)
       \/ \E c \in Corrections : CorrectRead(s, c)
       \/ \E m \in 1 .. MaxMarks, v \in DeskValues : ChangeMarkRead(s, m, v)
       \/ \E e \in Exams, c \in [name : ExamNames] : ChangeExamRead(s, e, c)
       \/ RecordCommit(s) \/ CorrectCommit(s) \/ ChangeMarkCommit(s)
       \/ ChangeExamCommit(s) \/ MarkRequestFails(s)
  \/ \E rows \in DeskEntries : EnterMarks(rows)
  \/ \E m \in 1 .. MaxMarks : RemoveMark(m)
  \/ \E e \in Exams, n \in ExamNames : CreateExam(e, n)
  \/ \E e \in Exams : DeleteExam(e)

MarkNext == MarkStep /\ Watch({"record"}, marks' = marks)

MarkSpec == MarkInit /\ [][MarkNext]_<<job, alone, markVars>>

-----------------------------------------------------------------------------
(* What the reports say.  The tools and the exam summary round a percentage to  *)
(* hundredths, the report card does not; marks out of nothing have none.  A tie  *)
(* rounds up here; the floats of the code may send one down.                     *)

\* round((obtained / max) * 100, 2).
Percent(obtained, max) == (2 * 10000 * obtained + max) \div (2 * max)
TotalOf(ms, f) == FoldSet(LAMBDA m, t : marks[m][f] + t, 0, ms)
HasPercent(ms) == TotalOf(ms, "max") > 0
PercentOf(ms) == Percent(TotalOf(ms, "obtained"), TotalOf(ms, "max"))

\* _grade_from_percentage.
Grade(p) == IF p >= 9000 THEN "A+" ELSE IF p >= 8000 THEN "A" ELSE IF p >= 7000 THEN "B+"
            ELSE IF p >= 6000 THEN "B" ELSE IF p >= 5000 THEN "C" ELSE "F"
IsPass(p) == p >= 100 * PassMark

\* Mutant: a second mark of a subject does not add its maximum.
MarksheetPercentOnce(a, e) ==
  LET ms == MarksOf(a, e)
      first == {m \in ms : \A k \in ms : marks[k].subject = marks[m].subject => m <= k}
  IN Percent(TotalOf(ms, "obtained"), TotalOf(first, "max"))

\* get_marksheet_for_exam: totals over all marks of the exam.
MarksheetPercent(a, e) == PercentOf(MarksOf(a, e))

\* get_exam_mark_summary: the same for the office, and only for an active exam.
ExamPassed(a, e) == e \in ActiveExams /\ HasPercent(MarksOf(a, e)) /\ IsPass(MarksheetPercent(a, e))

\* get_student_marks_for_exam puts together what bears one name.
MarksNamed(a, n) == {m \in Held : marks[m].student = a /\ exams[marks[m].exam].name = n}
NamedPercent(a, n) == PercentOf(MarksNamed(a, n))

\* So does the report card, which also has all exams together; its percentages
\* are the quotients as they are, and it says nothing of passing.
Ratio(ms) == [obtained |-> TotalOf(ms, "obtained"), max |-> TotalOf(ms, "max")]
AtLeast(r, q) == r.obtained * q.max >= q.obtained * r.max
CardPercent(a, n) == Ratio(MarksNamed(a, n))
OverallPercent(a) == Ratio({m \in Held : marks[m].student = a})

\* p hundredths are what rounding makes of the quotient r.
RoundedTo(r, p) == 20000 * r.obtained - r.max <= 2 * p * r.max /\ 2 * p * r.max <= 20000 * r.obtained + r.max

\* get_class_performance_in_subject: the marks of the class in the subject.
ClassMarks(c, x) == {m \in Held : ClassOf[marks[m].student] = c /\ marks[m].subject = x /\ marks[m].max > 0}
SubjectPercent(m) == PercentOf({m})
Passes(c, x) == {m \in ClassMarks(c, x) : IsPass(SubjectPercent(m))}

\* get_class_performance_in_exam compares the marks themselves with the pass mark.
PassedInExam(c, e) == {m \in Held : /\ ClassOf[marks[m].student] = c /\ marks[m].exam = e
                                    /\ marks[m].obtained >= PassMark}

-----------------------------------------------------------------------------
(* What the mark book promises. *)

\* The tables and the sessions hold values of their types.
MarkTypeOK ==
  /\ \A m \in DOMAIN marks : marks[m] \in MarkRows \cup {NoMark}
  /\ Len(marks) <= MaxMarks
  /\ exams \in [Exams -> ExamRows \cup {NoExam}]
  /\ deskEdits \in 0 .. MaxDeskEdits
  /\ quiet \subseteq 1 .. MaxMarks /\ corrected \subseteq 1 .. MaxMarks
  /\ \A s \in Sessions : \/ job[s] \in {NoJob} \cup CorrectJobs \cup DeskJobs \cup ExamJobs
                         \/ job[s].kind = "record" /\ \A i \in DOMAIN job[s].rows : job[s].rows[i] \in MarkRows

\* A recording that nobody disturbed never gives a student a second mark for a
\* subject of an exam, in whatever order recordings, retries and desk entries come.
RecordedOnce ==
  \A m, n \in Held : m < n /\ n \in quiet
    => ~(marks[m].student = marks[n].student /\ marks[m].exam = marks[n].exam
         /\ marks[m].subject = marks[n].subject)

\* A mark corrected by the tool lies within its maximum, although the maximum was
\* read before and the row may have been written since: nothing changes a maximum.
CorrectionsFit == \A m \in corrected \cap Held : marks[m].obtained <= marks[m].max

\* An exam that was deleted stays deleted: an update that read it before writes
\* the fields it changes and no others.
DeletedExamsStay ==
  [][\A e \in Exams : exams[e] # NoExam /\ ~exams[e].active => exams'[e] # NoExam /\ ~exams'[e].active]_markVars

\* Marks out of something.
Scaled(S) == \A m \in S : marks[m].max > 0

ExamReportsAgree(a, e) ==
  LET ms == MarksOf(a, e)
  IN ms # {} /\ Scaled(ms) =>
       /\ ExamPassed(a, e) => \E x \in Subjects : ms \cap Passes(ClassOf[a], x) # {}
       /\ Grade(MarksheetPercent(a, e)) # "F" => \E m \in ms : Grade(SubjectPercent(m)) # "F"
       /\ (\A m \in ms : marks[m].max = 100) =>
            ms \cap PassedInExam(ClassOf[a], e) = ms \cap UNION {Passes(ClassOf[a], x) : x \in Subjects}

CardAgrees(a) ==
  LET mine == {m \in Held : marks[m].student = a}
      names == {n \in ExamNames : MarksNamed(a, n) # {}}
  IN mine # {} /\ Scaled(mine) =>
       /\ \E n \in names : AtLeast(CardPercent(a, n), OverallPercent(a))
       /\ \E n \in names : AtLeast(OverallPercent(a), CardPercent(a, n))
       /\ \A n \in names : RoundedTo(CardPercent(a, n), NamedPercent(a, n))

\* The reports agree where different maxima, second marks, rounding and what bears
\* one name make them count differently: a student whose marksheet or exam summary
\* is a pass, or carries a grade above F, has done as well in some subject of the
\* class report; the count of passes by marks is the count by percentage where every
\* mark is out of 100; the overall percentage of the report card lies between those
\* of its exams; and the tool's percentage of an exam is the card's, rounded.  That
\* the card is not rounded shows: 1601 of 4003 is 40.00 and a pass on the marksheet,
\* and less than 40 on the card.
ReportsAgree == \A a \in Students : CardAgrees(a) /\ \A e \in Exams : ExamReportsAgree(a, e)

=============================================================================
