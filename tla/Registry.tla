------------------------------- MODULE Registry -------------------------------
(***************************************************************************)
(* The school's registers: students and teachers with their profiles,        *)
(* classes, subjects and attendance; and the lists that are replaced as a      *)
(* whole, the subjects of a class and the audience of an album.                *)
(*                                                                         *)
(* People, classes and subjects are never deleted, only turned off;             *)
(* attendance records are.  A list is replaced by a DELETE and an INSERT in       *)
(* one transaction.                                                             *)
(***************************************************************************)
EXTENDS Integers, FiniteSets, Sequences, School

CONSTANTS RegIds,          \* bound: ids of rows, in the order they are given out
          FirstRegister,   \* what the registers may hold
          NewAttendance,   \* what attendance submissions may hold
          RegEdits,        \* fields that PUT requests change, with the table
          Promotions,      \* ids of students and the class they are moved to
          Lists, Albums,   \* classes and albums, as owners of a list
          Entered,         \* what lists may be made of
          MaxTurns         \* bound: requests that change something

VARIABLES registry,   \* registry[i]: the row with id i
          listed,     \* rows of class_subjects and album_targets
          owners,     \* classes and albums that exist
          turns       \* requests so far

registryVars == <<registry, listed, owners, turns>>

-----------------------------------------------------------------------------
Unused == [table |-> "unused"]
Erased == [table |-> "erased"]
\* on is the row's is_active, profile that of the account's profile.
StudentRows == [table : {"student"}, on : BOOLEAN, profile : BOOLEAN, class : Lists]
TeacherRows == [table : {"teacher"}, on : BOOLEAN, profile : BOOLEAN]
ClassRows == [table : {"class"}, on : BOOLEAN]
SubjectRows == [table : {"subject"}, on : BOOLEAN]
AttendanceRows == [table : {"attendance"}, status : {"Present", "Absent", "Late"}]
RegisterRows == StudentRows \cup TeacherRows \cup ClassRows \cup SubjectRows \cup AttendanceRows

\* What a POST or a PUT may say: is_active, and the status of an attendance.
NewClass == [table |-> "class", on |-> TRUE]
NewSubject == [table |-> "subject", on |-> TRUE]
AttendanceLists == Seq(AttendanceRows)
TeacherBodies == [table : {"teacher"}, fields : [on : BOOLEAN]]
ClassBodies == [table : {"class"}, fields : [on : BOOLEAN]]
SubjectBodies == [table : {"subject"}, fields : [on : BOOLEAN]]
AttendanceBodies == [table : {"attendance"}, fields : [status : {"Present", "Absent", "Late"}]]

\* A student's profile is turned off with the student.
Enrolled == {r \in RegisterRows : r.table = "student" => (r.profile => r.on)}

ASSUME RegistryAssumption ==
  /\ RegIds \subseteq Nat \ {0} /\ MaxTurns \in Nat
  /\ FirstRegister \subseteq [RegIds -> Enrolled \cup {Unused}]
  /\ \A p \in Promotions : p.class \in Lists
  /\ NewAttendance \subseteq AttendanceLists
  /\ RegEdits \subseteq TeacherBodies \cup ClassBodies \cup SubjectBodies \cup AttendanceBodies

\* asked and turn are history: the request that entered the row.
ListRows == [owner : Lists \cup Albums, item : Entered, asked : SUBSET Entered, turn : 0 .. MaxTurns]
EntriesFor(o, W, n) == {[owner |-> o, item |-> x, asked |-> W, turn |-> n] : x \in W}

Filed(table) == {i \in RegIds : registry[i].table = table}
Active(table) == {i \in Filed(table) : registry[i].on}
HasProfile(i) == i \in Filed("student") \cup Filed("teacher") /\ registry[i].profile

RegistryInit ==
  /\ registry \in FirstRegister /\ turns = 0 /\ owners = Lists /\ JobInit
  /\ listed = UNION {EntriesFor(o, Entered, 0) : o \in Lists}

NextTurn == turns < MaxTurns /\ turns' = turns + 1

-----------------------------------------------------------------------------
(* Rows. *)

\* One POST adds all its rows after the last id given out, or none.
AddRows(q) ==
  /\ NextTurn
  /\ \E n \in {0} \cup RegIds :
       /\ Filed("unused") = {i \in RegIds : i > n} /\ n + Len(q) \in RegIds
       /\ registry' = [i \in RegIds |-> IF i - n \in DOMAIN q THEN q[i - n] ELSE registry[i]]
  /\ UNCHANGED <<listed, owners, job>>

AddClass == AddRows(<<NewClass>>)
AddSubject == AddRows(<<NewSubject>>)
\* A single record, or the attendance of a class: nothing keeps a period from being entered twice.
AddAttendance(q) == AddRows(q)

RegEditRead(s, i, c) ==
  /\ NextTurn /\ i \in Filed(c.table)
  /\ Begin(s, [kind |-> "regput", id |-> i, copy |-> registry[i], change |-> c.fields])
  /\ UNCHANGED <<registry, listed, owners>>

\* Teachers and subjects that were turned off are not found; classes are.
EditTeacher(s, i, c) == c \in TeacherBodies /\ i \in Active("teacher") /\ RegEditRead(s, i, c)
EditSubject(s, i, c) == c \in SubjectBodies /\ i \in Active("subject") /\ RegEditRead(s, i, c)
EditClass(s, i, c) == c \in ClassBodies /\ RegEditRead(s, i, c)
EditAttendance(s, i, c) == c \in AttendanceBodies /\ RegEditRead(s, i, c)

\* Mutant: every field of the copy is written back.
RegPutCommitWhole(s) ==
  /\ Working(s, "regput") /\ registry[job[s].id] # Erased
  /\ registry' = [registry EXCEPT ![job[s].id] =
       [f \in DOMAIN @ |-> IF f \in DOMAIN job[s].change THEN job[s].change[f] ELSE job[s].copy[f]]]
  /\ EndJob(s) /\ UNCHANGED <<listed, owners, turns>>

\* update_teacher, update_class, update_subject, update_attendance_record.
RegPutCommit(s) ==
  /\ Working(s, "regput") /\ registry[job[s].id] # Erased
  /\ registry' = [registry EXCEPT ![job[s].id] = Flushed(@, job[s].copy, job[s].change)]
  /\ EndJob(s) /\ UNCHANGED <<listed, owners, turns>>

TurnOff(i, fields) ==
  /\ NextTurn
  /\ registry' = [registry EXCEPT ![i] = [f \in DOMAIN @ |-> IF f \in fields THEN FALSE ELSE @[f]]]
  /\ UNCHANGED <<listed, owners, job>>

\* Who leaves takes the profile along, but a profile may be turned off alone.
StudentLeaves(i) == i \in Active("student") /\ TurnOff(i, {"on", "profile"})
TeacherLeaves(i) == i \in Active("teacher") /\ TurnOff(i, {"on", "profile"})
ProfileOff(i) == HasProfile(i) /\ TurnOff(i, {"profile"})
ClassOff(i) == i \in Active("class") /\ TurnOff(i, {"on"})
SubjectOff(i) == i \in Active("subject") /\ TurnOff(i, {"on"})

DeleteAttendance(i) ==
  /\ NextTurn /\ i \in Filed("attendance")
  /\ registry' = [registry EXCEPT ![i] = Erased]
  /\ UNCHANGED <<listed, owners, job>>

\* bulk_promote_students: one UPDATE, which students who left are moved by as well.
Promote(p) ==
  /\ NextTurn /\ \E i \in p.ids : i \in Filed("student")
  /\ registry' = [i \in RegIds |-> IF i \in p.ids \cap Filed("student")
                                   THEN [registry[i] EXCEPT !.class = p.class] ELSE registry[i]]
  /\ UNCHANGED <<listed, owners, job>>

-----------------------------------------------------------------------------
(* Lists. *)

\* create_album_with_targets: the album and its audience in one commit.
CreateAlbum(o, W) ==
  /\ NextTurn /\ o \in Albums \ owners
  /\ owners' = owners \cup {o}
  /\ listed' = listed \cup EntriesFor(o, W, turns + 1)
  /\ UNCHANGED <<registry, job>>

\* The DELETE works on the rows that were there when it started ...
ReplaceStart(s, o, W) ==
  /\ NextTurn /\ o \in owners
  /\ Begin(s, [kind |-> "replace", owner |-> o, wanted |-> W, turn |-> turns + 1, phase |-> 1,
               seen |-> {l \in listed : l.owner = o}])
  /\ UNCHANGED <<registry, listed, owners>>

AssignSubjects(s, o, W) == o \in Lists /\ ReplaceStart(s, o, W)
UpdateTargets(s, o, W) == o \in Albums /\ ReplaceStart(s, o, W)

\* ... and waits for those that another transaction is deleting.  Rows that
\* are gone then are passed over, and those that came instead are not seen.
ReplaceDelete(s) ==
  /\ Working(s, "replace") /\ job[s].phase = 1
  /\ \A k \in Sessions \ {s} : Working(k, "replace") /\ job[k].phase = 2 => job[k].seen \cap job[s].seen = {}
  /\ job' = [job EXCEPT ![s] = [@ EXCEPT !.phase = 2, !.seen = job[s].seen \cap listed]]
  /\ UNCHANGED registryVars

\* PRIMARY KEY (class_id, subject_id), UNIQUE (album_id, target_type, target_id).
Doubled(rows) == \E l, m \in rows : l # m /\ l.owner = m.owner /\ l.item = m.item
Replaced(s) == (listed \ job[s].seen) \cup EntriesFor(job[s].owner, job[s].wanted, job[s].turn)

\* Mutant: what is listed already is left out of the INSERT.
ReplaceCommitPresent(s) ==
  /\ Working(s, "replace") /\ job[s].phase = 2
  /\ listed' = (listed \ job[s].seen)
                 \cup {l \in EntriesFor(job[s].owner, job[s].wanted, job[s].turn) : ~Doubled({l} \cup (listed \ job[s].seen))}
  /\ EndJob(s) /\ UNCHANGED <<registry, owners, turns>>

\* The INSERT waits for keys that others have entered or are deleting, and fails
\* if one of them stays.
ReplaceCommit(s) ==
  /\ Working(s, "replace") /\ job[s].phase = 2 /\ ~Doubled(Replaced(s))
  /\ \A k \in Sessions \ {s} : Working(k, "replace") /\ job[k].phase = 2 =>
       \A l \in job[k].seen : l.owner = job[s].owner => l.item \notin job[s].wanted
  /\ listed' = Replaced(s)
  /\ EndJob(s) /\ UNCHANGED <<registry, owners, turns>>

\* An exception, a key that is there already, or an attendance record that is gone.
RegistryFails(s) == (Working(s, "replace") \/ Working(s, "regput")) /\ EndJob(s) /\ UNCHANGED registryVars

-----------------------------------------------------------------------------
RegistryNext ==
  /\ \/ \E s \in Sessions :
          \/ \E i \in RegIds, c \in RegEdits :
               EditTeacher(s, i, c) \/ EditSubject(s, i, c) \/ EditClass(s, i, c) \/ EditAttendance(s, i, c)
          \/ \E o \in Lists \cup Albums, W \in SUBSET Entered : AssignSubjects(s, o, W) \/ UpdateTargets(s, o, W)
          \/ RegPutCommit(s) \/ ReplaceDelete(s) \/ ReplaceCommit(s) \/ RegistryFails(s)
     \/ \E q \in NewAttendance : AddAttendance(q)
     \/ AddClass \/ AddSubject
     \/ \E i \in RegIds :
          \/ StudentLeaves(i) \/ TeacherLeaves(i) \/ ProfileOff(i)
          \/ ClassOff(i) \/ SubjectOff(i) \/ DeleteAttendance(i)
     \/ \E p \in Promotions : Promote(p)
     \/ \E o \in Albums, W \in SUBSET Entered : CreateAlbum(o, W)
  /\ UNCHANGED alone

RegistrySpec == RegistryInit /\ [][RegistryNext]_<<job, alone, registryVars>>

-----------------------------------------------------------------------------
(* What the registers promise. *)

\* Rows and requests have their types.
RegistryTypeOK ==
  /\ \A i \in RegIds : registry[i] \in RegisterRows \cup {Unused, Erased}
  /\ listed \subseteq ListRows /\ owners \subseteq Lists \cup Albums /\ turns \in 0 .. MaxTurns
  /\ \A s \in Sessions :
       \/ job[s] = NoJob
       \/ Working(s, "regput") /\ job[s].copy \in RegisterRows
       \/ Working(s, "replace") /\ job[s].seen \subseteq ListRows /\ job[s].wanted \subseteq Entered

\* A list is never half of what a request asked for: although two requests that
\* replace it together may leave the rows of both, each has all of its rows or
\* none, and none is entered twice.
ListsStayWhole ==
  /\ \A l \in listed : EntriesFor(l.owner, l.asked, l.turn) \subseteq listed
  /\ ~Doubled(listed)

\* Row i does not come back.
StaysAway(i) ==
  /\ registry[i] = Erased => registry'[i] = Erased
  /\ i \in Filed("teacher") \cup Filed("student") \cup Filed("subject") => (registry'[i].on => registry[i].on)
  /\ i \in Filed("teacher") \cup Filed("student") => (registry'[i].profile => registry[i].profile)
  /\ i \in Filed("student") => (registry'[i].profile => registry'[i].on)

\* Who has left stays away: a teacher, a subject or a profile that was turned off
\* and an attendance record that was deleted are not brought back by an edit that
\* read them before, and a student who leaves takes the profile along.
LeaversStay == [][\A i \in RegIds : StaysAway(i)]_registry
=============================================================================
