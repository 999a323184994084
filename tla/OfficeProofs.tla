----------------------------- MODULE OfficeProofs -----------------------------
(***************************************************************************)
(* Proofs about three parts of the school office, the registers and lists   *)
(* (Registry), the media (Media) and the chats (AgentChats), and about the    *)
(* office that all its parts make up.  Each part has an invariant of its own;  *)
(* they have in common the sessions only.                                      *)
(***************************************************************************)
EXTENDS SchoolOffice, TimetableProofs, MarkBookProofs, StudentLifeProofs, SalesProofs, TLAPS

-----------------------------------------------------------------------------
(***************************************************************************)
(* Proofs about Registry: the types, that who has left stays away, and that   *)
(* lists keep the rows of a request together.                                  *)
(*                                                                         *)
(* The registers and the lists share no variable but job, so their invariants  *)
(* are separate.  For the registers: an edit of a teacher or a subject works    *)
(* on a copy that was on, so that the commit can write is_active only to turn     *)
(* it off.  For the lists: what a DELETE sees is closed, that is, with a row it     *)
(* sees every row of the same request.                                              *)
(***************************************************************************)

Statuses == {"Present", "Absent", "Late"}
RegPutJobs == [kind : {"regput"}, id : RegIds, copy : RegisterRows,
               change : [on : BOOLEAN] \cup [status : Statuses]]
ReplaceJobs == [kind : {"replace"}, owner : Lists \cup Albums, wanted : SUBSET Entered,
                turn : 0 .. MaxTurns, phase : {1, 2}, seen : SUBSET ListRows]
RegistryJobs == {NoJob} \cup RegPutJobs \cup ReplaceJobs

RegistryJobsFit == job \in [Sessions -> RegistryJobs]
TurnsFit == turns \in 0 .. MaxTurns

\* A student who is off has no profile that is on.
RegRowsFit == registry \in [RegIds -> Enrolled \cup {Unused, Erased}]

\* What an edit has read, and what it may change of it.
RegEditFits(j) ==
  /\ j.copy.table # "student"
  /\ j.copy.table \in {"teacher", "subject"} => j.copy.on = TRUE
  /\ IF j.copy.table = "attendance" THEN j.change \in [status : Statuses] ELSE j.change \in [on : BOOLEAN]
  /\ registry[j.id] = Erased \/ registry[j.id].table = j.copy.table
EditsFit == \A s \in Sessions : Working(s, "regput") => RegEditFits(job[s])

Closed(R) == \A l \in R : EntriesFor(l.owner, l.asked, l.turn) \subseteq R
ListsFit ==
  /\ listed \subseteq ListRows /\ owners \subseteq Lists \cup Albums
  /\ \A l \in listed : l.item \in l.asked /\ l.owner \in owners
SeenClosed == \A s \in Sessions : Working(s, "replace") => Closed(job[s].seen) /\ job[s].owner \in owners

RegInv == RegistryJobsFit /\ TurnsFit /\ RegRowsFit /\ EditsFit
ListInv == ListsFit /\ Closed(listed) /\ ~Doubled(listed) /\ SeenClosed

-----------------------------------------------------------------------------
(* Jobs. *)

LEMMA RegistryJobKinds ==
  ASSUME NEW j \in RegistryJobs
  PROVE  /\ j.kind = "regput" => j \in RegPutJobs
         /\ j.kind = "replace" => j \in ReplaceJobs
         /\ j.kind = "none" <=> j = NoJob
BY DEF RegistryJobs, RegPutJobs, ReplaceJobs, NoJob

LEMMA BegunJob ==
  ASSUME RegistryJobsFit, NEW s \in Sessions, NEW j \in RegistryJobs, Begin(s, j)
  PROVE  RegistryJobsFit' /\ job'[s] = j /\ \A k \in Sessions \ {s} : job'[k] = job[k]
BY DEF RegistryJobsFit, Begin

LEMMA EndedJob ==
  ASSUME RegistryJobsFit, NEW s \in Sessions, EndJob(s)
  PROVE  RegistryJobsFit' /\ job'[s] = NoJob /\ \A k \in Sessions \ {s} : job'[k] = job[k]
<1>1. NoJob \in RegistryJobs /\ job' = [job EXCEPT ![s] = NoJob]
  BY DEF EndJob, RegistryJobs
<1> QED
  BY <1>1 DEF RegistryJobsFit

LEMMA TurnTaken ==
  ASSUME TurnsFit, NextTurn
  PROVE  TurnsFit' /\ turns + 1 \in 0 .. MaxTurns
BY RegistryAssumption DEF TurnsFit, NextTurn

\* The table of a row says which fields it has.
LEMMA RowTables ==
  ASSUME NEW r \in RegisterRows
  PROVE  /\ r.table = "student" => r \in StudentRows
         /\ r.table = "teacher" => r \in TeacherRows
         /\ r.table = "class" => r \in ClassRows
         /\ r.table = "subject" => r \in SubjectRows
         /\ r.table = "attendance" => r \in AttendanceRows
         /\ r.table \in {"student", "teacher", "class", "subject", "attendance"}
BY DEF RegisterRows, StudentRows, TeacherRows, ClassRows, SubjectRows, AttendanceRows

\* Ids that were not given out and rows that were deleted are of no table.
LEMMA FiledRows ==
  ASSUME RegRowsFit, NEW i \in RegIds
  PROVE  /\ registry[i] \in Enrolled \/ registry[i] = Unused \/ registry[i] = Erased
         /\ registry[i].table \notin {"unused", "erased"} => registry[i] \in Enrolled
         /\ registry[i].table = "erased" <=> registry[i] = Erased
         /\ registry[i].table = "unused" <=> registry[i] = Unused
<1>1. registry[i] \in Enrolled \/ registry[i] = Unused \/ registry[i] = Erased
  BY DEF RegRowsFit
<1>2. registry[i] \in Enrolled => registry[i].table \in {"student", "teacher", "class", "subject", "attendance"}
  BY RowTables DEF Enrolled
<1> QED
  BY <1>1, <1>2 DEF Unused, Erased

-----------------------------------------------------------------------------
(* What a commit of the ORM makes of a row. *)

LEMMA FlushedTeacher ==
  ASSUME NEW r \in TeacherRows, NEW c, NEW h \in [on : BOOLEAN]
  PROVE  Flushed(r, c, h) = [r EXCEPT !.on = IF h.on # c.on THEN h.on ELSE r.on]
<1>1. DOMAIN r = {"table", "on", "profile"} /\ DOMAIN h = {"on"}
  BY DEF TeacherRows
<1>2. Flushed(r, c, h) = [f \in DOMAIN r |-> IF f = "on" /\ h.on # c.on THEN h.on ELSE r[f]]
  BY <1>1 DEF Flushed
<1>3. [r EXCEPT !.on = IF h.on # c.on THEN h.on ELSE r.on]
      = [f \in DOMAIN r |-> IF f = "on" THEN (IF h.on # c.on THEN h.on ELSE r.on) ELSE r[f]]
  OBVIOUS
<1> QED
  BY <1>2, <1>3

LEMMA FlushedOffer ==
  ASSUME NEW t \in {"class", "subject"}, NEW r \in [table : {t}, on : BOOLEAN], NEW c, NEW h \in [on : BOOLEAN]
  PROVE  /\ Flushed(r, c, h) \in [table : {t}, on : BOOLEAN]
         /\ Flushed(r, c, h).on = (IF h.on # c.on THEN h.on ELSE r.on)
         /\ Flushed(r, c, h).table = t
<1>1. DOMAIN r = {"table", "on"} /\ DOMAIN h = {"on"} /\ r.table = t
  OBVIOUS
<1>2. Flushed(r, c, h) = [f \in {"table", "on"} |-> IF f = "on" /\ h.on # c.on THEN h.on ELSE r[f]]
  BY <1>1 DEF Flushed
<1>3. Flushed(r, c, h) = [table |-> t, on |-> IF h.on # c.on THEN h.on ELSE r.on]
  BY <1>1, <1>2
<1> QED
  BY <1>3

LEMMA FlushedAttendance ==
  ASSUME NEW r \in AttendanceRows, NEW c, NEW h \in [status : Statuses]
  PROVE  Flushed(r, c, h) \in AttendanceRows
<1>1. DOMAIN r = {"table", "status"} /\ DOMAIN h = {"status"} /\ r.table = "attendance" /\ r.status \in Statuses
  BY DEF AttendanceRows, Statuses
<1>2. Flushed(r, c, h) = [f \in {"table", "status"} |-> IF f = "status" /\ h.status # c.status THEN h.status ELSE r[f]]
  BY <1>1 DEF Flushed
<1>3. Flushed(r, c, h) = [table |-> "attendance", status |-> IF h.status # c.status THEN h.status ELSE r.status]
  BY <1>1, <1>2
<1>4. (IF h.status # c.status THEN h.status ELSE r.status) \in {"Present", "Absent", "Late"}
  BY <1>1 DEF Statuses
<1> QED
  BY <1>3, <1>4 DEF AttendanceRows

-----------------------------------------------------------------------------
(* The registers. *)

\* Rows keep their table or are erased.
TablesStay == \A i \in RegIds : registry[i] # Unused =>
                registry'[i] = Erased \/ (registry[i] # Erased /\ registry'[i].table = registry[i].table)

\* What an action makes of the registers: nothing is left to say about the jobs.
RegRowsStep == RegRowsFit' /\ TablesStay /\ \A i \in RegIds : StaysAway(i)

LEMMA SameRow ==
  ASSUME RegRowsFit, NEW i \in RegIds, registry'[i] = registry[i]
  PROVE  StaysAway(i)
<1>1. registry[i].table = "student" => (registry[i].profile => registry[i].on)
  BY FiledRows DEF Enrolled
<1> QED
  BY <1>1 DEF StaysAway, Filed

LEMMA SameRows ==
  ASSUME RegRowsFit, registry' = registry
  PROVE  RegRowsStep
<1>1. RegRowsFit'
  BY DEF RegRowsFit
<1>2. TablesStay
  BY DEF TablesStay
<1> QED
  BY <1>1, <1>2, SameRow DEF RegRowsStep

\* One row changes, to a row of the same table or to nothing.
LEMMA OneRegRow ==
  ASSUME RegRowsFit, NEW i \in RegIds, NEW r \in Enrolled \cup {Erased}, registry' = [registry EXCEPT ![i] = r],
         registry[i] \notin {Unused, Erased}, r = Erased \/ r.table = registry[i].table, StaysAway(i)
  PROVE  RegRowsStep
<1>1. RegRowsFit' /\ registry'[i] = r
  BY DEF RegRowsFit
<1>2. \A k \in RegIds \ {i} : registry'[k] = registry[k]
  BY DEF RegRowsFit
<1>3. TablesStay
  BY <1>1, <1>2 DEF TablesStay
<1> QED
  BY <1>1, <1>2, <1>3, SameRow DEF RegRowsStep

LEMMA AddRowsStep ==
  ASSUME RegRowsFit, NEW q \in Seq(ClassRows \cup SubjectRows \cup AttendanceRows), AddRows(q)
  PROVE  RegRowsStep
<1>1. PICK n \in {0} \cup RegIds :
        /\ Filed("unused") = {i \in RegIds : i > n}
        /\ registry' = [i \in RegIds |-> IF i - n \in DOMAIN q THEN q[i - n] ELSE registry[i]]
  BY DEF AddRows
<1>2. n \in Nat /\ DOMAIN q = 1 .. Len(q) /\ Len(q) \in Nat
  BY RegistryAssumption
<1>3. \A k \in DOMAIN q : q[k] \in Enrolled
  <2>1. \A k \in DOMAIN q : q[k] \in ClassRows \cup SubjectRows \cup AttendanceRows
    BY <1>2
  <2>2. ASSUME NEW r \in ClassRows \cup SubjectRows \cup AttendanceRows PROVE r \in Enrolled
    BY DEF Enrolled, RegisterRows, ClassRows, SubjectRows, AttendanceRows
  <2> QED
    BY <2>1, <2>2
<1>4. RegRowsFit'
  BY <1>1, <1>3 DEF RegRowsFit
<1>5. ASSUME NEW i \in RegIds, registry[i] # Unused PROVE registry'[i] = registry[i]
  <2>1. i \in Nat /\ ~(i > n)
    BY <1>1, <1>5, FiledRows, RegistryAssumption DEF Filed
  <2>2. i - n \notin 1 .. Len(q)
    BY <1>2, <2>1
  <2> QED
    BY <1>1, <1>2, <2>2
<1>6. TablesStay
  BY <1>5 DEF TablesStay
<1>7. ASSUME NEW i \in RegIds PROVE StaysAway(i)
  <2>1. CASE registry[i] = Unused
    BY <2>1 DEF StaysAway, Filed, Unused, Erased
  <2>2. CASE registry[i] # Unused
    BY <1>5, <2>2, SameRow
  <2> QED
    BY <2>1, <2>2
<1> QED
  BY <1>4, <1>6, <1>7 DEF RegRowsStep

LEMMA StudentLeavesStep ==
  ASSUME RegRowsFit, NEW i \in RegIds, StudentLeaves(i)
  PROVE  RegRowsStep
<1>1. registry[i].table = "student" /\ registry[i] \in Enrolled /\ registry[i] \in StudentRows
  BY FiledRows, RowTables DEF StudentLeaves, Active, Filed, Enrolled
<1> DEFINE r == [f \in DOMAIN registry[i] |-> IF f \in {"on", "profile"} THEN FALSE ELSE registry[i][f]]
<1>2. registry' = [registry EXCEPT ![i] = r]
  BY DEF StudentLeaves, TurnOff
<1>3. r = [table |-> "student", on |-> FALSE, profile |-> FALSE, class |-> registry[i].class]
  <2>1. DOMAIN registry[i] = {"table", "on", "profile", "class"}
    BY <1>1 DEF StudentRows
  <2>2. r = [f \in {"table", "on", "profile", "class"} |-> IF f \in {"on", "profile"} THEN FALSE ELSE registry[i][f]]
    BY <2>1
  <2> HIDE DEF r
  <2> QED
    BY <1>1, <2>2
<1>4. r \in Enrolled
  BY <1>1, <1>3 DEF Enrolled, RegisterRows, StudentRows
<1>5. registry'[i] = r /\ r.on = FALSE /\ r.profile = FALSE /\ r.table = "student"
  BY <1>2, <1>3 DEF RegRowsFit
<1>6. registry[i] \notin {Unused, Erased}
  BY <1>1 DEF Unused, Erased
<1>7. StaysAway(i)
  BY <1>5, <1>6 DEF StaysAway
<1> HIDE DEF r
<1> QED
  BY <1>1, <1>2, <1>4, <1>5, <1>6, <1>7, OneRegRow

LEMMA TeacherLeavesStep ==
  ASSUME RegRowsFit, NEW i \in RegIds, TeacherLeaves(i)
  PROVE  RegRowsStep
<1>1. registry[i].table = "teacher" /\ registry[i] \in Enrolled /\ registry[i] \in TeacherRows
  BY FiledRows, RowTables DEF TeacherLeaves, Active, Filed, Enrolled
<1> DEFINE r == [f \in DOMAIN registry[i] |-> IF f \in {"on", "profile"} THEN FALSE ELSE registry[i][f]]
<1>2. registry' = [registry EXCEPT ![i] = r]
  BY DEF TeacherLeaves, TurnOff
<1>3. r = [table |-> "teacher", on |-> FALSE, profile |-> FALSE]
  <2>1. DOMAIN registry[i] = {"table", "on", "profile"}
    BY <1>1 DEF TeacherRows
  <2>2. r = [f \in {"table", "on", "profile"} |-> IF f \in {"on", "profile"} THEN FALSE ELSE registry[i][f]]
    BY <2>1
  <2> HIDE DEF r
  <2> QED
    BY <1>1, <2>2
<1>4. r \in Enrolled
  BY <1>1, <1>3 DEF Enrolled, RegisterRows, TeacherRows
<1>5. registry'[i] = r /\ r.on = FALSE /\ r.profile = FALSE /\ r.table = "teacher"
  BY <1>2, <1>3 DEF RegRowsFit
<1>6. registry[i] \notin {Unused, Erased}
  BY <1>1 DEF Unused, Erased
<1>7. StaysAway(i)
  BY <1>5, <1>6 DEF StaysAway
<1> HIDE DEF r
<1> QED
  BY <1>1, <1>2, <1>4, <1>5, <1>6, <1>7, OneRegRow

LEMMA ProfileOffStep ==
  ASSUME RegRowsFit, NEW i \in RegIds, ProfileOff(i)
  PROVE  RegRowsStep
<1>1. registry[i].table \in {"student", "teacher"} /\ registry[i] \in Enrolled
  BY FiledRows DEF ProfileOff, HasProfile, Filed
<1>2. registry[i] \in StudentRows \cup TeacherRows
  BY <1>1, RowTables DEF Enrolled
<1> DEFINE r == [f \in DOMAIN registry[i] |-> IF f \in {"profile"} THEN FALSE ELSE registry[i][f]]
<1>3. registry' = [registry EXCEPT ![i] = r]
  BY DEF ProfileOff, TurnOff
<1>4. r \in Enrolled /\ r.table = registry[i].table /\ r.on = registry[i].on /\ r.profile = FALSE
  <2>1. CASE registry[i] \in StudentRows
    <3>1. r = [f \in {"table", "on", "profile", "class"} |-> IF f = "profile" THEN FALSE ELSE registry[i][f]]
      BY <2>1 DEF StudentRows
    <3> HIDE DEF r
    <3>2. r = [table |-> "student", on |-> registry[i].on, profile |-> FALSE, class |-> registry[i].class]
      BY <2>1, <3>1 DEF StudentRows
    <3> QED
      BY <2>1, <3>2 DEF Enrolled, RegisterRows, StudentRows
  <2>2. CASE registry[i] \in TeacherRows
    <3>1. r = [f \in {"table", "on", "profile"} |-> IF f = "profile" THEN FALSE ELSE registry[i][f]]
      BY <2>2 DEF TeacherRows
    <3> HIDE DEF r
    <3>2. r = [table |-> "teacher", on |-> registry[i].on, profile |-> FALSE]
      BY <2>2, <3>1 DEF TeacherRows
    <3> QED
      BY <2>2, <3>2 DEF Enrolled, RegisterRows, TeacherRows
  <2> QED
    BY <1>2, <2>1, <2>2
<1>5. registry'[i] = r
  BY <1>3 DEF RegRowsFit
<1>6. registry[i] \notin {Unused, Erased}
  BY <1>1 DEF Unused, Erased
<1> HIDE DEF r
<1>7. StaysAway(i)
  BY <1>4, <1>5, <1>6 DEF StaysAway
<1> QED
  BY <1>1, <1>3, <1>4, <1>5, <1>6, <1>7, OneRegRow

LEMMA OfferOffStep ==
  ASSUME RegRowsFit, NEW i \in RegIds, ClassOff(i) \/ SubjectOff(i)
  PROVE  RegRowsStep
<1>1. registry[i].table \in {"class", "subject"} /\ registry[i] \in Enrolled
  BY FiledRows DEF ClassOff, SubjectOff, Active, Filed
<1>2. registry[i] \in ClassRows \cup SubjectRows
  BY <1>1, RowTables DEF Enrolled
<1> DEFINE r == [f \in DOMAIN registry[i] |-> IF f \in {"on"} THEN FALSE ELSE registry[i][f]]
<1>3. registry' = [registry EXCEPT ![i] = r]
  BY DEF ClassOff, SubjectOff, TurnOff
<1>4. r = [table |-> registry[i].table, on |-> FALSE]
  <2>1. DOMAIN registry[i] = {"table", "on"}
    BY <1>2 DEF ClassRows, SubjectRows
  <2>2. r = [f \in {"table", "on"} |-> IF f = "on" THEN FALSE ELSE registry[i][f]]
    BY <2>1
  <2> HIDE DEF r
  <2> QED
    BY <2>2
<1>5. r \in Enrolled
  BY <1>1, <1>4 DEF Enrolled, RegisterRows, ClassRows, SubjectRows
<1>6. registry'[i] = r /\ r.on = FALSE /\ r.table = registry[i].table
  BY <1>3, <1>4 DEF RegRowsFit
<1>7. registry[i] \notin {Unused, Erased}
  BY <1>1 DEF Unused, Erased
<1> HIDE DEF r
<1>8. StaysAway(i)
  BY <1>1, <1>6, <1>7 DEF StaysAway, Filed
<1> QED
  BY <1>3, <1>5, <1>6, <1>7, <1>8, OneRegRow

LEMMA DeleteAttendanceStep ==
  ASSUME RegRowsFit, NEW i \in RegIds, DeleteAttendance(i)
  PROVE  RegRowsStep
<1>1. registry[i].table = "attendance" /\ registry' = [registry EXCEPT ![i] = Erased]
  BY DEF DeleteAttendance, Filed
<1>2. registry'[i] = Erased
  BY <1>1 DEF RegRowsFit
<1>3. registry[i] \notin {Unused, Erased}
  BY <1>1 DEF Unused, Erased
<1>4. StaysAway(i)
  BY <1>1, <1>2 DEF StaysAway, Filed
<1> QED
  BY <1>1, <1>3, <1>4, OneRegRow

LEMMA PromoteStep ==
  ASSUME RegRowsFit, NEW p \in Promotions, Promote(p)
  PROVE  RegRowsStep
<1>1. registry' = [i \in RegIds |-> IF i \in p.ids \cap Filed("student")
                                   THEN [registry[i] EXCEPT !.class = p.class] ELSE registry[i]]
  BY DEF Promote
<1>2. p.class \in Lists
  BY RegistryAssumption
<1>3. ASSUME NEW i \in RegIds, registry[i].table = "student"
      PROVE  /\ [registry[i] EXCEPT !.class = p.class] \in Enrolled
             /\ [registry[i] EXCEPT !.class = p.class].table = "student"
             /\ [registry[i] EXCEPT !.class = p.class].on = registry[i].on
             /\ [registry[i] EXCEPT !.class = p.class].profile = registry[i].profile
             /\ registry[i].profile => registry[i].on
  <2>1. registry[i] \in StudentRows /\ (registry[i].profile => registry[i].on)
    BY <1>3, FiledRows, RowTables DEF Enrolled
  <2> QED
    BY <1>2, <2>1 DEF Enrolled, RegisterRows, StudentRows
<1>4. \A i \in RegIds : \/ registry'[i] = registry[i]
                        \/ registry[i].table = "student" /\ registry'[i] = [registry[i] EXCEPT !.class = p.class]
  BY <1>1 DEF Filed
<1>5. RegRowsFit'
  BY <1>1, <1>3, <1>4 DEF RegRowsFit
<1>6. TablesStay
  <2> SUFFICES ASSUME NEW i \in RegIds, registry[i] # Unused
               PROVE  registry'[i] = Erased \/ (registry[i] # Erased /\ registry'[i].table = registry[i].table)
    BY DEF TablesStay
  <2>1. CASE registry'[i] = registry[i]
    BY <2>1
  <2>2. CASE registry[i].table = "student" /\ registry'[i] = [registry[i] EXCEPT !.class = p.class]
    BY <1>3, <2>2 DEF Erased
  <2> QED
    BY <1>4, <2>1, <2>2
<1>7. ASSUME NEW i \in RegIds PROVE StaysAway(i)
  <2>1. CASE registry'[i] = registry[i]
    BY <2>1, SameRow
  <2>2. CASE registry[i].table = "student" /\ registry'[i] = [registry[i] EXCEPT !.class = p.class]
    BY <1>3, <2>2 DEF StaysAway, Erased
  <2> QED
    BY <1>4, <2>1, <2>2
<1> QED
  BY <1>5, <1>6, <1>7 DEF RegRowsStep

LEMMA RegPutCommitStep ==
  ASSUME RegInv, NEW s \in Sessions, RegPutCommit(s)
  PROVE  RegRowsStep
<1> DEFINE j == job[s]  i == job[s].id  r == Flushed(registry[i], j.copy, j.change)
<1>1. j \in RegPutJobs /\ RegEditFits(j) /\ registry[i] # Erased
  BY RegistryJobKinds DEF RegPutCommit, RegInv, RegistryJobsFit, EditsFit, Working
<1>2. i \in RegIds /\ j.copy \in RegisterRows /\ registry[i].table = j.copy.table /\ RegRowsFit
  BY <1>1 DEF RegPutJobs, RegEditFits, RegInv
<1>3. registry[i] \in Enrolled /\ registry[i] \in RegisterRows /\ registry[i] # Unused
  BY <1>1, <1>2, FiledRows, RowTables DEF Enrolled, Unused
<1>4. registry' = [registry EXCEPT ![i] = r] /\ registry'[i] = r
  BY <1>2 DEF RegPutCommit, RegRowsFit
<1>5. CASE registry[i].table = "teacher"
  <2>1. registry[i] \in TeacherRows /\ j.change \in [on : BOOLEAN] /\ j.copy.on = TRUE
    BY <1>1, <1>2, <1>3, <1>5, RowTables DEF RegEditFits
  <2>2. r = [registry[i] EXCEPT !.on = IF j.change.on # j.copy.on THEN j.change.on ELSE registry[i].on]
    BY <2>1, FlushedTeacher
  <2>3. r \in Enrolled /\ r.table = "teacher" /\ r.profile = registry[i].profile
    BY <2>1, <2>2 DEF Enrolled, RegisterRows, TeacherRows
  <2>4. r.on = (IF j.change.on # j.copy.on THEN j.change.on ELSE registry[i].on)
    BY <2>1, <2>2 DEF TeacherRows
  <2>5. r.on => registry[i].on
    BY <2>1, <2>4
  <2> HIDE DEF r
  <2>6. StaysAway(i)
    BY <1>1, <1>4, <1>5, <2>3, <2>5 DEF StaysAway, Filed
  <2> QED
    BY <1>1, <1>2, <1>3, <1>4, <1>5, <2>3, <2>6, OneRegRow
<1>6. CASE registry[i].table \in {"class", "subject"}
  <2>1. /\ registry[i] \in [table : {registry[i].table}, on : BOOLEAN] /\ j.change \in [on : BOOLEAN]
        /\ registry[i].table = "subject" => j.copy.on = TRUE
    BY <1>1, <1>2, <1>3, <1>6, RowTables DEF RegEditFits, ClassRows, SubjectRows
  <2>2. /\ r \in [table : {registry[i].table}, on : BOOLEAN] /\ r.table = registry[i].table
        /\ r.on = (IF j.change.on # j.copy.on THEN j.change.on ELSE registry[i].on)
    BY <1>6, <2>1, FlushedOffer
  <2>3. r \in Enrolled
    BY <1>6, <2>2 DEF Enrolled, RegisterRows, ClassRows, SubjectRows
  <2>4. registry[i].table = "subject" => (r.on => registry[i].on)
    BY <2>1, <2>2
  <2> HIDE DEF r
  <2>5. StaysAway(i)
    BY <1>1, <1>4, <1>6, <2>4 DEF StaysAway, Filed
  <2> QED
    BY <1>1, <1>2, <1>3, <1>4, <2>2, <2>3, <2>5, OneRegRow
<1>7. CASE registry[i].table = "attendance"
  <2>1. registry[i] \in AttendanceRows /\ j.change \in [status : Statuses]
    BY <1>1, <1>2, <1>3, <1>7, RowTables DEF RegEditFits
  <2>2. r \in AttendanceRows
    BY <2>1, FlushedAttendance
  <2>3. r \in Enrolled /\ r.table = "attendance"
    BY <2>2 DEF Enrolled, RegisterRows, AttendanceRows
  <2> HIDE DEF r
  <2>4. StaysAway(i)
    BY <1>1, <1>4, <1>7 DEF StaysAway, Filed
  <2> QED
    BY <1>1, <1>2, <1>3, <1>4, <1>7, <2>3, <2>4, OneRegRow
<1> QED
  BY <1>1, <1>2, <1>3, <1>5, <1>6, <1>7, RowTables DEF RegEditFits

-----------------------------------------------------------------------------
(* Edits keep fitting the row they are about. *)

LEMMA EditsKeepFitting ==
  ASSUME RegistryJobsFit, EditsFit, RegRowsFit, TablesStay,
         \A k \in Sessions : job'[k] = job[k] \/ ~Working(k, "regput")'
  PROVE  EditsFit'
<1> SUFFICES ASSUME NEW k \in Sessions, Working(k, "regput")'
             PROVE  RegEditFits(job[k])'
  BY DEF EditsFit
<1>1. job'[k] = job[k] /\ Working(k, "regput")
  BY DEF Working
<1>2. RegEditFits(job[k]) /\ job[k] \in RegPutJobs
  BY <1>1, RegistryJobKinds DEF EditsFit, RegistryJobsFit, Working
<1>3. job[k].id \in RegIds /\ job[k].copy.table \in {"student", "teacher", "class", "subject", "attendance"}
  BY <1>2, RowTables DEF RegPutJobs
<1>4. registry[job[k].id] # Unused
  BY <1>2, <1>3 DEF RegEditFits, Unused, Erased
<1>5. registry'[job[k].id] = Erased \/ registry'[job[k].id].table = job[k].copy.table
  BY <1>2, <1>3, <1>4 DEF RegEditFits, TablesStay
<1> QED
  BY <1>1, <1>2, <1>5 DEF RegEditFits

LEMMA RegEditReadKeeps ==
  ASSUME RegInv, NEW s \in Sessions, NEW i \in RegIds, NEW c \in RegEdits,
         EditTeacher(s, i, c) \/ EditSubject(s, i, c) \/ EditClass(s, i, c) \/ EditAttendance(s, i, c)
  PROVE  RegInv' /\ registry' = registry
<1> DEFINE j == [kind |-> "regput", id |-> i, copy |-> registry[i], change |-> c.fields]
<1>1. RegEditRead(s, i, c) /\ registry' = registry /\ Begin(s, j) /\ NextTurn /\ registry[i].table = c.table
  BY DEF EditTeacher, EditSubject, EditClass, EditAttendance, RegEditRead, Filed
<1>2. /\ c.table \in {"teacher", "class", "subject", "attendance"}
      /\ IF c.table = "attendance" THEN c.fields \in [status : Statuses] ELSE c.fields \in [on : BOOLEAN]
  BY RegistryAssumption DEF TeacherBodies, ClassBodies, SubjectBodies, AttendanceBodies, Statuses
<1>3. registry[i] \in RegisterRows
  BY <1>1, <1>2, FiledRows DEF RegInv, Enrolled
<1>4. registry[i].table \in {"teacher", "subject"} => registry[i].on = TRUE
  <2>1. registry[i].table \in {"teacher", "subject"} => registry[i].on
    BY <1>1 DEF EditTeacher, EditSubject, EditClass, EditAttendance, Active, Filed,
                TeacherBodies, SubjectBodies, ClassBodies, AttendanceBodies
  <2>2. registry[i].table \in {"teacher", "subject"} => registry[i].on \in BOOLEAN
    BY <1>3, RowTables DEF TeacherRows, SubjectRows
  <2> QED
    BY <2>1, <2>2
<1>5. j \in RegistryJobs
  BY <1>2, <1>3 DEF RegistryJobs, RegPutJobs
<1>6. RegistryJobsFit' /\ job'[s] = j /\ \A k \in Sessions \ {s} : job'[k] = job[k]
  BY <1>1, <1>5, BegunJob DEF RegInv
<1>7. RegEditFits(j)
  BY <1>1, <1>2, <1>4 DEF RegEditFits
<1>8. EditsFit'
  <2>1. ASSUME NEW k \in Sessions, Working(k, "regput")' PROVE RegEditFits(job[k])'
    <3>1. CASE k = s
      BY <1>1, <1>6, <1>7, <3>1 DEF RegEditFits
    <3>2. CASE k # s
      BY <1>1, <1>6, <2>1, <3>2 DEF RegInv, EditsFit, RegEditFits, Working
    <3> QED
      BY <3>1, <3>2
  <2> QED
    BY <2>1 DEF EditsFit
<1> QED
  BY <1>1, <1>6, <1>8, TurnTaken DEF RegInv, RegRowsFit

\* Steps that change rows, and steps that change lists alone.
LEMMA RowsStepKeeps ==
  ASSUME RegInv, RegRowsStep, RegistryJobsFit', TurnsFit', \A k \in Sessions : job'[k] = job[k] \/ ~Working(k, "regput")'
  PROVE  RegInv'
BY EditsKeepFitting DEF RegInv, RegRowsStep

LEMMA ReplaceStartJob ==
  ASSUME RegistryJobsFit, TurnsFit, ListsFit, NEW s \in Sessions, NEW o \in Lists \cup Albums,
         NEW W \in SUBSET Entered, ReplaceStart(s, o, W)
  PROVE  /\ RegistryJobsFit' /\ TurnsFit' /\ \A k \in Sessions \ {s} : job'[k] = job[k]
         /\ job'[s] = [kind |-> "replace", owner |-> o, wanted |-> W, turn |-> turns + 1, phase |-> 1,
                       seen |-> {l \in listed : l.owner = o}]
<1>1. turns + 1 \in 0 .. MaxTurns /\ TurnsFit'
  BY TurnTaken DEF ReplaceStart
<1>2. [kind |-> "replace", owner |-> o, wanted |-> W, turn |-> turns + 1, phase |-> 1,
       seen |-> {l \in listed : l.owner = o}] \in RegistryJobs
  BY <1>1 DEF RegistryJobs, ReplaceJobs, ListsFit
<1> QED
  BY <1>1, <1>2, BegunJob DEF ReplaceStart

LEMMA ReplaceDeleteJob ==
  ASSUME RegistryJobsFit, NEW s \in Sessions, ReplaceDelete(s)
  PROVE  /\ RegistryJobsFit' /\ \A k \in Sessions \ {s} : job'[k] = job[k]
         /\ job'[s].kind = "replace" /\ job'[s].seen = job[s].seen \cap listed /\ job'[s].owner = job[s].owner
<1>1. job[s] \in ReplaceJobs /\ job' = [job EXCEPT ![s] = [@ EXCEPT !.phase = 2, !.seen = job[s].seen \cap listed]]
  BY RegistryJobKinds DEF ReplaceDelete, RegistryJobsFit, Working
<1> DEFINE j == [job[s] EXCEPT !.phase = 2, !.seen = job[s].seen \cap listed]
<1>2. /\ j \in ReplaceJobs /\ j.kind = "replace"
      /\ j.seen = job[s].seen \cap listed /\ j.owner = job[s].owner
  BY <1>1 DEF ReplaceJobs
<1>3. job' = [job EXCEPT ![s] = j]
  BY <1>1
<1> HIDE DEF j
<1>4. RegistryJobsFit' /\ job'[s] = j /\ \A k \in Sessions \ {s} : job'[k] = job[k]
  BY <1>2, <1>3 DEF RegistryJobsFit, RegistryJobs
<1> QED
  BY <1>2, <1>4

LEMMA RegistryInitial == RegistryInit => RegInv
<1> SUFFICES ASSUME RegistryInit PROVE RegInv
  OBVIOUS
<1>1. RegistryJobsFit /\ \A s \in Sessions : ~Working(s, "regput")
  BY DEF RegistryInit, JobInit, RegistryJobsFit, RegistryJobs, Working, NoJob
<1>2. RegRowsFit
  BY RegistryAssumption DEF RegistryInit, RegRowsFit
<1> QED
  BY <1>1, <1>2, RegistryAssumption DEF RegInv, EditsFit, TurnsFit, RegistryInit

-----------------------------------------------------------------------------
(* Lists. *)

LEMMA ListEntryFields ==
  ASSUME NEW o, NEW W, NEW n, NEW e \in EntriesFor(o, W, n)
  PROVE  e.owner = o /\ e.asked = W /\ e.turn = n /\ e.item \in W
         /\ e = [owner |-> o, item |-> e.item, asked |-> W, turn |-> n]
BY DEF EntriesFor

LEMMA EntriesClosed ==
  ASSUME NEW o, NEW W, NEW n
  PROVE  Closed(EntriesFor(o, W, n))
BY ListEntryFields DEF Closed

LEMMA ClosedUnion ==
  ASSUME NEW R, NEW T, Closed(R), Closed(T)
  PROVE  Closed(R \cup T)
BY DEF Closed

LEMMA ClosedCommon ==
  ASSUME NEW R, NEW T, Closed(R), Closed(T)
  PROVE  Closed(R \cap T)
BY DEF Closed

LEMMA ClosedRest ==
  ASSUME NEW R \in SUBSET ListRows, NEW T, Closed(R), Closed(T), \A l \in R : l.item \in l.asked
  PROVE  Closed(R \ T)
<1> SUFFICES ASSUME NEW l \in R \ T, NEW e \in EntriesFor(l.owner, l.asked, l.turn)
             PROVE  e \in R \ T
  BY DEF Closed
<1>1. e \in R
  BY DEF Closed
<1>2. ASSUME e \in T PROVE FALSE
  <2>1. EntriesFor(e.owner, e.asked, e.turn) \subseteq T
    BY <1>2 DEF Closed
  <2>2. e.owner = l.owner /\ e.asked = l.asked /\ e.turn = l.turn
    BY ListEntryFields
  <2>3. l = [owner |-> l.owner, item |-> l.item, asked |-> l.asked, turn |-> l.turn] /\ l.item \in l.asked
    BY DEF ListRows
  <2>4. l \in EntriesFor(l.owner, l.asked, l.turn)
    BY <2>3 DEF EntriesFor
  <2> QED
    BY <2>1, <2>2, <2>4
<1> QED
  BY <1>1, <1>2

LEMMA EntriesTyped ==
  ASSUME NEW o \in Lists \cup Albums, NEW W \in SUBSET Entered, NEW n \in 0 .. MaxTurns
  PROVE  EntriesFor(o, W, n) \subseteq ListRows
BY DEF EntriesFor, ListRows

LEMMA ListsUntouched ==
  ASSUME ListInv, listed' = listed, owners' = owners,
         \A k \in Sessions : job'[k] = job[k] \/ ~Working(k, "replace")'
  PROVE  ListInv'
<1>1. ListsFit' /\ Closed(listed)' /\ ~Doubled(listed)'
  BY DEF ListInv, ListsFit, Closed, Doubled
<1>2. SeenClosed'
  BY DEF ListInv, SeenClosed, Closed, Working
<1> QED
  BY <1>1, <1>2 DEF ListInv

LEMMA CreateAlbumKeeps ==
  ASSUME RegInv, ListInv, NEW o \in Albums, NEW W \in SUBSET Entered, CreateAlbum(o, W)
  PROVE  ListInv'
<1> DEFINE N == EntriesFor(o, W, turns + 1)
<1>1. o \notin owners /\ owners' = owners \cup {o} /\ listed' = listed \cup N /\ job' = job /\ turns + 1 \in 0 .. MaxTurns
  BY TurnTaken DEF CreateAlbum, RegInv
<1>2. N \subseteq ListRows
  BY <1>1, EntriesTyped
<1>3. \A e \in N : e.owner = o /\ e.asked = W /\ e.item \in W
  BY ListEntryFields
<1>4. ListsFit'
  BY <1>1, <1>2, <1>3 DEF ListInv, ListsFit
<1>5. Closed(listed')
  BY <1>1, EntriesClosed, ClosedUnion DEF ListInv
<1>6. ~Doubled(listed')
  <2> SUFFICES ASSUME NEW l \in listed \cup N, NEW m \in listed \cup N, l.owner = m.owner, l.item = m.item
               PROVE  l = m
    BY <1>1 DEF Doubled
  <2>1. CASE l \in listed /\ m \in listed
    BY <2>1 DEF ListInv, Doubled
  <2>2. CASE l \in N /\ m \in N
    BY <2>2, ListEntryFields
  <2>3. CASE (l \in N /\ m \in listed) \/ (l \in listed /\ m \in N)
    BY <1>1, <1>3, <2>3 DEF ListInv, ListsFit
  <2> QED
    BY <2>1, <2>2, <2>3
<1>7. SeenClosed'
  BY <1>1 DEF ListInv, SeenClosed, Working
<1> QED
  BY <1>4, <1>5, <1>6, <1>7 DEF ListInv

LEMMA ReplaceStartKeeps ==
  ASSUME RegInv, ListInv, NEW s \in Sessions, NEW o \in Lists \cup Albums, NEW W \in SUBSET Entered,
         ReplaceStart(s, o, W)
  PROVE  ListInv'
<1> DEFINE R == {l \in listed : l.owner = o}
<1>1. listed' = listed /\ owners' = owners /\ o \in owners
  BY DEF ReplaceStart
<1>2. job'[s].seen = R /\ job'[s].owner = o /\ \A k \in Sessions \ {s} : job'[k] = job[k]
  <2>1. RegistryJobsFit /\ TurnsFit /\ ListsFit
    BY DEF RegInv, ListInv
  <2>2. /\ job'[s] = [kind |-> "replace", owner |-> o, wanted |-> W, turn |-> turns + 1, phase |-> 1, seen |-> R]
        /\ \A k \in Sessions \ {s} : job'[k] = job[k]
    BY <2>1, ReplaceStartJob
  <2> HIDE DEF R
  <2> QED
    BY <2>2
<1>3. Closed(R)
  BY ListEntryFields DEF ListInv, Closed
<1>4. SeenClosed'
  <2> SUFFICES ASSUME NEW k \in Sessions, Working(k, "replace")'
               PROVE  Closed(job'[k].seen) /\ job'[k].owner \in owners
    BY <1>1 DEF SeenClosed
  <2>1. CASE k = s
    BY <1>1, <1>2, <1>3, <2>1
  <2>2. CASE k # s
    BY <1>2, <2>2 DEF ListInv, SeenClosed, Working
  <2> QED
    BY <2>1, <2>2
<1> QED
  BY <1>1, <1>4 DEF ListInv, ListsFit, Closed, Doubled

LEMMA ReplaceDeleteKeeps ==
  ASSUME RegInv, ListInv, NEW s \in Sessions, ReplaceDelete(s)
  PROVE  ListInv'
<1>1. listed' = listed /\ owners' = owners /\ Working(s, "replace")
  BY DEF ReplaceDelete, registryVars
<1>2. /\ job'[s].seen = job[s].seen \cap listed /\ job'[s].owner = job[s].owner
      /\ \A k \in Sessions \ {s} : job'[k] = job[k]
  BY ReplaceDeleteJob DEF RegInv
<1>3. Closed(job[s].seen \cap listed) /\ job[s].owner \in owners
  BY <1>1, ClosedCommon DEF ListInv, SeenClosed
<1>4. SeenClosed'
  <2> SUFFICES ASSUME NEW k \in Sessions, Working(k, "replace")'
               PROVE  Closed(job'[k].seen) /\ job'[k].owner \in owners
    BY <1>1 DEF SeenClosed
  <2>1. CASE k = s
    BY <1>2, <1>3, <2>1
  <2>2. CASE k # s
    BY <1>2, <2>2 DEF ListInv, SeenClosed, Working
  <2> QED
    BY <2>1, <2>2
<1> QED
  BY <1>1, <1>4 DEF ListInv, ListsFit, Closed, Doubled

LEMMA ReplaceCommitKeeps ==
  ASSUME RegInv, ListInv, NEW s \in Sessions, ReplaceCommit(s)
  PROVE  ListInv'
<1> DEFINE j == job[s]  N == EntriesFor(j.owner, j.wanted, j.turn)
<1>1. j \in ReplaceJobs /\ Closed(j.seen) /\ j.owner \in owners
  BY RegistryJobKinds DEF ReplaceCommit, RegInv, RegistryJobsFit, ListInv, SeenClosed, Working
<1>2. listed' = (listed \ j.seen) \cup N /\ ~Doubled(listed') /\ owners' = owners /\ EndJob(s)
  BY DEF ReplaceCommit, Replaced
<1>3. job'[s] = NoJob /\ \A k \in Sessions \ {s} : job'[k] = job[k]
  BY <1>2, EndedJob DEF RegInv
<1>4. N \subseteq ListRows /\ \A e \in N : e.owner = j.owner /\ e.asked = j.wanted /\ e.item \in j.wanted
  <2>1. j.owner \in Lists \cup Albums /\ j.wanted \in SUBSET Entered /\ j.turn \in 0 .. MaxTurns
    BY <1>1 DEF ReplaceJobs
  <2> QED
    BY <2>1, EntriesTyped, ListEntryFields
<1>5. ListsFit'
  BY <1>1, <1>2, <1>4 DEF ListInv, ListsFit
<1>6. Closed(listed')
  <2>1. Closed(listed \ j.seen)
    BY <1>1, ClosedRest DEF ListInv, ListsFit
  <2> QED
    BY <1>2, <2>1, EntriesClosed, ClosedUnion
<1>7. SeenClosed'
  BY <1>2, <1>3 DEF ListInv, SeenClosed, Working, NoJob
<1> QED
  BY <1>2, <1>5, <1>6, <1>7 DEF ListInv

LEMMA ListsInitial == RegistryInit => ListInv
<1> SUFFICES ASSUME RegistryInit PROVE ListInv
  OBVIOUS
<1>1. \A l \in listed : \E o \in Lists : l \in EntriesFor(o, Entered, 0)
  BY DEF RegistryInit
<1>2. \A l \in listed : /\ l.owner \in Lists /\ l.asked = Entered /\ l.turn = 0 /\ l.item \in Entered
                       /\ l = [owner |-> l.owner, item |-> l.item, asked |-> Entered, turn |-> 0]
  BY <1>1, ListEntryFields
<1>3. owners = Lists /\ 0 \in 0 .. MaxTurns
  BY RegistryAssumption DEF RegistryInit
<1>4. ListsFit
  <2>1. listed \subseteq ListRows
    BY <1>1, <1>3, EntriesTyped
  <2> QED
    BY <1>2, <1>3, <2>1 DEF ListsFit
<1>5. Closed(listed)
  <2> SUFFICES ASSUME NEW l \in listed PROVE EntriesFor(l.owner, l.asked, l.turn) \subseteq listed
    BY DEF Closed
  <2>1. l.owner \in Lists /\ EntriesFor(l.owner, l.asked, l.turn) = EntriesFor(l.owner, Entered, 0)
    BY <1>2
  <2> QED
    BY <2>1 DEF RegistryInit
<1>6. ~Doubled(listed)
  BY <1>2 DEF Doubled
<1>7. SeenClosed
  BY DEF RegistryInit, JobInit, SeenClosed, Working, NoJob
<1> QED
  BY <1>4, <1>5, <1>6, <1>7 DEF ListInv

-----------------------------------------------------------------------------
(* The registers. *)

\* A session that is done leaves both invariants as they were.
LEMMA RegistryFailsKeeps ==
  ASSUME RegInv, ListInv, NEW s \in Sessions, RegistryFails(s)
  PROVE  RegInv' /\ ListInv' /\ \A i \in RegIds : StaysAway(i)
<1>1. registry' = registry /\ listed' = listed /\ owners' = owners /\ turns' = turns /\ EndJob(s)
  BY DEF RegistryFails, registryVars
<1>2. RegistryJobsFit' /\ job'[s] = NoJob /\ \A k \in Sessions \ {s} : job'[k] = job[k]
  BY <1>1, EndedJob DEF RegInv
<1>3. \A k \in Sessions : job'[k] = job[k] \/ (~Working(k, "regput")' /\ ~Working(k, "replace")')
  BY <1>2 DEF Working, NoJob
<1>4. RegRowsStep /\ TurnsFit'
  BY <1>1, SameRows DEF RegInv, TurnsFit
<1>5. RegInv'
  BY <1>2, <1>3, <1>4, RowsStepKeeps
<1>6. ListInv'
  BY <1>1, <1>3, ListsUntouched
<1> QED
  BY <1>4, <1>5, <1>6 DEF RegRowsStep

\* A change of the rows leaves the lists and the jobs as they were.
LEMMA RowsChange ==
  ASSUME RegInv, ListInv, NextTurn, RegRowsStep, UNCHANGED <<listed, owners, job>>
  PROVE  RegInv' /\ ListInv' /\ \A i \in RegIds : StaysAway(i)
<1>1. RegistryJobsFit' /\ TurnsFit'
  BY TurnTaken DEF RegInv, RegistryJobsFit
<1>2. RegInv'
  BY <1>1, RowsStepKeeps DEF RegInv
<1>3. ListInv'
  BY ListsUntouched
<1> QED
  BY <1>2, <1>3 DEF RegRowsStep

\* A change of the lists leaves the rows as they were.
LEMMA ListsChange ==
  ASSUME RegInv, ListInv', registry' = registry, RegistryJobsFit', TurnsFit',
         \A k \in Sessions : job'[k] = job[k] \/ ~Working(k, "regput")'
  PROVE  RegInv' /\ ListInv' /\ \A i \in RegIds : StaysAway(i)
<1>1. RegRowsStep
  BY SameRows DEF RegInv
<1>2. RegInv'
  BY <1>1, RowsStepKeeps
<1> QED
  BY <1>1, <1>2 DEF RegRowsStep

LEMMA AddRowsKeep ==
  ASSUME RegInv, ListInv, NEW q, AddRows(q),
         q = <<NewClass>> \/ q = <<NewSubject>> \/ q \in NewAttendance
  PROVE  RegInv' /\ ListInv' /\ \A i \in RegIds : StaysAway(i)
<1>1. q \in Seq(ClassRows \cup SubjectRows \cup AttendanceRows)
  <2>1. CASE q \in NewAttendance
    <3>1. q \in Seq(AttendanceRows)
      BY <2>1, RegistryAssumption DEF AttendanceLists
    <3>2. AttendanceRows \subseteq ClassRows \cup SubjectRows \cup AttendanceRows
      OBVIOUS
    <3> QED
      BY <3>1, <3>2
  <2>2. CASE q = <<NewClass>>
    BY <2>2 DEF NewClass, ClassRows
  <2>3. CASE q = <<NewSubject>>
    BY <2>3 DEF NewSubject, SubjectRows
  <2> QED
    BY <2>1, <2>2, <2>3
<1>2. RegRowsStep /\ NextTurn /\ UNCHANGED <<listed, owners, job>>
  BY <1>1, AddRowsStep DEF AddRows, RegInv
<1> QED
  BY <1>2, RowsChange

LEMMA EditReadsKeep ==
  ASSUME RegInv, ListInv, NEW s \in Sessions, NEW i \in RegIds, NEW c \in RegEdits,
         EditTeacher(s, i, c) \/ EditSubject(s, i, c) \/ EditClass(s, i, c) \/ EditAttendance(s, i, c)
  PROVE  RegInv' /\ ListInv' /\ \A k \in RegIds : StaysAway(k)
<1> DEFINE j == [kind |-> "regput", id |-> i, copy |-> registry[i], change |-> c.fields]
<1>1. RegInv' /\ registry' = registry
  BY RegEditReadKeeps
<1>2. Begin(s, j) /\ listed' = listed /\ owners' = owners
  BY DEF EditTeacher, EditSubject, EditClass, EditAttendance, RegEditRead
<1>3. job' = [job EXCEPT ![s] = j] /\ j.kind = "regput"
  BY <1>2 DEF Begin
<1> HIDE DEF j
<1>4. \A k \in Sessions : job'[k] = job[k] \/ ~Working(k, "replace")'
  BY <1>3 DEF RegInv, RegistryJobsFit, Working
<1>5. ListInv'
  BY <1>2, <1>4, ListsUntouched
<1>6. RegRowsStep
  BY <1>1, SameRows DEF RegInv
<1> QED
  BY <1>1, <1>5, <1>6 DEF RegRowsStep

LEMMA RegPutCommitKeeps ==
  ASSUME RegInv, ListInv, NEW s \in Sessions, RegPutCommit(s)
  PROVE  RegInv' /\ ListInv' /\ \A i \in RegIds : StaysAway(i)
<1>1. listed' = listed /\ owners' = owners /\ turns' = turns /\ EndJob(s)
  BY DEF RegPutCommit
<1>2. RegistryJobsFit' /\ job'[s] = NoJob /\ \A k \in Sessions \ {s} : job'[k] = job[k]
  BY <1>1, EndedJob DEF RegInv
<1>3. \A k \in Sessions : job'[k] = job[k] \/ (~Working(k, "regput")' /\ ~Working(k, "replace")')
  BY <1>2 DEF Working, NoJob
<1>4. RegRowsStep /\ TurnsFit'
  BY <1>1, RegPutCommitStep DEF RegInv, TurnsFit
<1>5. RegInv'
  BY <1>2, <1>3, <1>4, RowsStepKeeps
<1>6. ListInv'
  BY <1>1, <1>3, ListsUntouched
<1> QED
  BY <1>4, <1>5, <1>6 DEF RegRowsStep

LEMMA ReplaceKeeps ==
  ASSUME RegInv, ListInv, NEW s \in Sessions,
         \/ \E o \in Lists \cup Albums, W \in SUBSET Entered : AssignSubjects(s, o, W) \/ UpdateTargets(s, o, W)
         \/ ReplaceDelete(s) \/ ReplaceCommit(s)
  PROVE  RegInv' /\ ListInv' /\ \A i \in RegIds : StaysAway(i)
<1>1. CASE \E o \in Lists \cup Albums, W \in SUBSET Entered : AssignSubjects(s, o, W) \/ UpdateTargets(s, o, W)
  <2>1. PICK o \in Lists \cup Albums, W \in SUBSET Entered : ReplaceStart(s, o, W)
    BY <1>1 DEF AssignSubjects, UpdateTargets
  <2> DEFINE j == [kind |-> "replace", owner |-> o, wanted |-> W, turn |-> turns + 1, phase |-> 1,
                   seen |-> {l \in listed : l.owner = o}]
  <2>2. RegistryJobsFit' /\ TurnsFit' /\ job'[s] = j /\ \A k \in Sessions \ {s} : job'[k] = job[k]
    BY <2>1, ReplaceStartJob DEF RegInv, ListInv
  <2>3. j.kind = "replace"
    OBVIOUS
  <2> HIDE DEF j
  <2>4. \A k \in Sessions : job'[k] = job[k] \/ ~Working(k, "regput")'
    BY <2>2, <2>3 DEF Working
  <2>5. ListInv' /\ registry' = registry
    BY <2>1, ReplaceStartKeeps DEF ReplaceStart
  <2> QED
    BY <2>2, <2>4, <2>5, ListsChange
<1>2. CASE ReplaceDelete(s)
  <2>1. RegistryJobsFit' /\ job'[s].kind = "replace" /\ \A k \in Sessions \ {s} : job'[k] = job[k]
    BY <1>2, ReplaceDeleteJob DEF RegInv
  <2>2. \A k \in Sessions : job'[k] = job[k] \/ ~Working(k, "regput")'
    BY <2>1 DEF Working
  <2>3. ListInv' /\ registry' = registry /\ TurnsFit'
    BY <1>2, ReplaceDeleteKeeps DEF ReplaceDelete, registryVars, RegInv, TurnsFit
  <2> QED
    BY <2>1, <2>2, <2>3, ListsChange
<1>3. CASE ReplaceCommit(s)
  <2>1. EndJob(s) /\ registry' = registry /\ TurnsFit'
    BY <1>3 DEF ReplaceCommit, RegInv, TurnsFit
  <2>2. RegistryJobsFit' /\ job'[s] = NoJob /\ \A k \in Sessions \ {s} : job'[k] = job[k]
    BY <2>1, EndedJob DEF RegInv
  <2>3. \A k \in Sessions : job'[k] = job[k] \/ ~Working(k, "regput")'
    BY <2>2 DEF Working, NoJob
  <2>4. ListInv'
    BY <1>3, ReplaceCommitKeeps
  <2> QED
    BY <2>1, <2>2, <2>3, <2>4, ListsChange
<1> QED
  BY <1>1, <1>2, <1>3

\* One step per action of RegistryNext.
LEMMA RegistryStep ==
  ASSUME RegInv, ListInv, RegistryNext
  PROVE  RegInv' /\ ListInv' /\ \A i \in RegIds : StaysAway(i)
<1> DEFINE Goal == RegInv' /\ ListInv' /\ \A i \in RegIds : StaysAway(i)
<1>1. ASSUME NEW s \in Sessions, NEW i \in RegIds, NEW c \in RegEdits,
             EditTeacher(s, i, c) \/ EditSubject(s, i, c) \/ EditClass(s, i, c) \/ EditAttendance(s, i, c)
      PROVE  Goal
  BY <1>1, EditReadsKeep
<1>2. ASSUME NEW s \in Sessions,
             \/ \E o \in Lists \cup Albums, W \in SUBSET Entered : AssignSubjects(s, o, W) \/ UpdateTargets(s, o, W)
             \/ ReplaceDelete(s) \/ ReplaceCommit(s)
      PROVE  Goal
  BY <1>2, ReplaceKeeps
<1>3. ASSUME NEW s \in Sessions, RegPutCommit(s) PROVE Goal
  BY <1>3, RegPutCommitKeeps
<1>4. ASSUME NEW s \in Sessions, RegistryFails(s) PROVE Goal
  BY <1>4, RegistryFailsKeeps
<1>5. ASSUME NEW q \in NewAttendance, AddAttendance(q) PROVE Goal
  BY <1>5, AddRowsKeep DEF AddAttendance
<1>6. ASSUME AddClass \/ AddSubject PROVE Goal
  BY <1>6, AddRowsKeep DEF AddClass, AddSubject
<1>7. ASSUME NEW i \in RegIds,
             \/ StudentLeaves(i) \/ TeacherLeaves(i) \/ ProfileOff(i)
             \/ ClassOff(i) \/ SubjectOff(i) \/ DeleteAttendance(i)
      PROVE  Goal
  <2>1. RegRowsFit
    BY DEF RegInv
  <2>2. RegRowsStep
    BY <1>7, <2>1, StudentLeavesStep, TeacherLeavesStep, ProfileOffStep, OfferOffStep, DeleteAttendanceStep
  <2>3. NextTurn /\ UNCHANGED <<listed, owners, job>>
    BY <1>7 DEF StudentLeaves, TeacherLeaves, ProfileOff, ClassOff, SubjectOff, DeleteAttendance, TurnOff
  <2> QED
    BY <2>2, <2>3, RowsChange
<1>8. ASSUME NEW p \in Promotions, Promote(p) PROVE Goal
  BY <1>8, PromoteStep, RowsChange DEF Promote, RegInv
<1>9. ASSUME NEW o \in Albums, NEW W \in SUBSET Entered, CreateAlbum(o, W) PROVE Goal
  <2>1. ListInv' /\ registry' = registry /\ job' = job /\ TurnsFit' /\ RegistryJobsFit'
    BY <1>9, CreateAlbumKeeps, TurnTaken DEF CreateAlbum, RegInv, RegistryJobsFit
  <2> QED
    BY <2>1, ListsChange
<1> HIDE DEF Goal
<1>10. ASSUME NEW s \in Sessions,
              \/ \E i \in RegIds, c \in RegEdits :
                   EditTeacher(s, i, c) \/ EditSubject(s, i, c) \/ EditClass(s, i, c) \/ EditAttendance(s, i, c)
              \/ \E o \in Lists \cup Albums, W \in SUBSET Entered : AssignSubjects(s, o, W) \/ UpdateTargets(s, o, W)
              \/ RegPutCommit(s) \/ ReplaceDelete(s) \/ ReplaceCommit(s) \/ RegistryFails(s)
       PROVE  Goal
  <2>1. CASE \E i \in RegIds, c \in RegEdits :
               EditTeacher(s, i, c) \/ EditSubject(s, i, c) \/ EditClass(s, i, c) \/ EditAttendance(s, i, c)
    BY <1>1, <2>1
  <2>2. CASE \E o \in Lists \cup Albums, W \in SUBSET Entered : AssignSubjects(s, o, W) \/ UpdateTargets(s, o, W)
    BY <1>2, <2>2
  <2> QED
    BY <1>2, <1>3, <1>4, <1>10, <2>1, <2>2
<1>11. ASSUME NEW i \in RegIds,
              \/ StudentLeaves(i) \/ TeacherLeaves(i) \/ ProfileOff(i)
              \/ ClassOff(i) \/ SubjectOff(i) \/ DeleteAttendance(i)
       PROVE  Goal
  BY <1>7, <1>11
<1>12. Goal
  <2> DEFINE Work(s) ==
        \/ \E i \in RegIds, c \in RegEdits :
             EditTeacher(s, i, c) \/ EditSubject(s, i, c) \/ EditClass(s, i, c) \/ EditAttendance(s, i, c)
        \/ \E o \in Lists \cup Albums, W \in SUBSET Entered : AssignSubjects(s, o, W) \/ UpdateTargets(s, o, W)
        \/ RegPutCommit(s) \/ ReplaceDelete(s) \/ ReplaceCommit(s) \/ RegistryFails(s)
  <2> DEFINE Turn(i) == \/ StudentLeaves(i) \/ TeacherLeaves(i) \/ ProfileOff(i)
                        \/ ClassOff(i) \/ SubjectOff(i) \/ DeleteAttendance(i)
  <2>1. \/ \E s \in Sessions : Work(s)
        \/ \E q \in NewAttendance : AddAttendance(q)
        \/ AddClass \/ AddSubject
        \/ \E i \in RegIds : Turn(i)
        \/ \E p \in Promotions : Promote(p)
        \/ \E o \in Albums, W \in SUBSET Entered : CreateAlbum(o, W)
    BY DEF RegistryNext
  <2>2. ASSUME NEW s \in Sessions, Work(s) PROVE Goal
    BY <1>10, <2>2
  <2>3. ASSUME NEW i \in RegIds, Turn(i) PROVE Goal
    BY <1>11, <2>3
  <2> HIDE DEF Work, Turn
  <2>4. CASE \E s \in Sessions : Work(s)
    BY <2>2, <2>4
  <2>5. CASE \E q \in NewAttendance : AddAttendance(q)
    BY <1>5, <2>5
  <2>6. CASE \E i \in RegIds : Turn(i)
    BY <2>3, <2>6
  <2>7. CASE \E p \in Promotions : Promote(p)
    BY <1>8, <2>7
  <2>8. CASE \E o \in Albums, W \in SUBSET Entered : CreateAlbum(o, W)
    BY <1>9, <2>8
  <2> QED
    BY <1>6, <2>1, <2>4, <2>5, <2>6, <2>7, <2>8
<1> QED
  BY <1>12 DEF Goal

LEMMA RegistryStutters ==
  ASSUME RegInv, ListInv, UNCHANGED <<job, alone, registryVars>>
  PROVE  RegInv' /\ ListInv'
<1>1. registry' = registry /\ listed' = listed /\ owners' = owners /\ turns' = turns /\ job' = job
  BY DEF registryVars
<1>2. RegistryJobsFit' /\ TurnsFit'
  BY <1>1 DEF RegInv, RegistryJobsFit, TurnsFit
<1>3. ListInv'
  BY <1>1, ListsUntouched
<1> QED
  BY <1>1, <1>2, <1>3, ListsChange

LEMMA RegistryInductive == RegistrySpec => [](RegInv /\ ListInv)
<1>1. RegistryInit => RegInv /\ ListInv
  BY RegistryInitial, ListsInitial
<1>2. RegInv /\ ListInv /\ [RegistryNext]_<<job, alone, registryVars>> => (RegInv /\ ListInv)'
  BY RegistryStep, RegistryStutters
<1> QED
  BY <1>1, <1>2, PTL DEF RegistrySpec

\* RegistryTypeOK always holds: rows, lists and requests have their types,
\* whatever is turned off or replaced meanwhile.
THEOREM RegistryTypesCorrect == RegistrySpec => []RegistryTypeOK
<1>1. RegInv /\ ListInv => RegistryTypeOK
  <2> SUFFICES ASSUME RegInv, ListInv PROVE RegistryTypeOK
    OBVIOUS
  <2>1. \A i \in RegIds : registry[i] \in RegisterRows \cup {Unused, Erased}
    BY FiledRows DEF RegInv, Enrolled
  <2>2. ASSUME NEW s \in Sessions
        PROVE  \/ job[s] = NoJob
               \/ Working(s, "regput") /\ job[s].copy \in RegisterRows
               \/ Working(s, "replace") /\ job[s].seen \subseteq ListRows /\ job[s].wanted \subseteq Entered
    <3>1. job[s] \in RegistryJobs
      BY DEF RegInv, RegistryJobsFit
    <3>2. CASE job[s] \in RegPutJobs
      BY <3>2 DEF RegPutJobs, Working
    <3>3. CASE job[s] \in ReplaceJobs
      BY <3>3 DEF ReplaceJobs, Working
    <3> QED
      BY <3>1, <3>2, <3>3 DEF RegistryJobs
  <2> QED
    BY <2>1, <2>2 DEF RegistryTypeOK, ListInv, ListsFit, RegInv, TurnsFit
<1> QED
  BY <1>1, RegistryInductive, PTL

\* LeaversStay always holds: an edit that read a teacher, a subject or an
\* attendance record before it was turned off or deleted does not bring it back.
THEOREM LeaversCorrect == RegistrySpec => LeaversStay
<1>1. RegInv /\ ListInv /\ [RegistryNext]_<<job, alone, registryVars>>
      => [\A i \in RegIds : StaysAway(i)]_registry
  BY RegistryStep DEF registryVars
<1> QED
  BY <1>1, RegistryInductive, PTL DEF RegistrySpec, LeaversStay

\* ListsStayWhole always holds: requests that replace a list together leave the
\* rows of a request all or none.
THEOREM ListsCorrect == RegistrySpec => []ListsStayWhole
<1>1. RegInv /\ ListInv => ListsStayWhole
  BY DEF ListInv, Closed, ListsStayWhole
<1> QED
  BY <1>1, RegistryInductive, PTL

-----------------------------------------------------------------------------
(***************************************************************************)
(* Proofs about Media: the tables keep their types, and the file storage and *)
(* the table of media agree wherever no request stands between its halves.    *)
(*                                                                         *)
(* Agreement alone is not inductive: that a commit makes the two stores agree  *)
(* about its path needs that nobody else can be working on the path of an       *)
(* upload, and that a file that was removed does not come back.                  *)
(***************************************************************************)

UploadJobs == [kind : {"upload"}, path : Paths]
RemoveJobs == [kind : {"remove"}, path : Paths, reached : BOOLEAN]
MediaJobs == {NoJob} \cup UploadJobs \cup RemoveJobs

MediaJobsFit == job \in [Sessions -> MediaJobs]
GivenBounds ==
  /\ given \in 0 .. MaxUploads /\ removals \in 0 .. MaxRemovals
  /\ files \subseteq 1 .. given /\ media \subseteq 1 .. given /\ torn \subseteq Paths

\* The path of an upload is its own, is stored and has no row yet.
UploadsOwn ==
  \A s \in Sessions : Working(s, "upload") =>
    /\ job[s].path \in files \ media
    /\ \A k \in Sessions \ {s} : job[k] # NoJob => job[k].path # job[s].path

\* A deletion works on a path that was given, and its file stays away.
RemovalsReach ==
  \A s \in Sessions : Working(s, "remove") =>
    job[s].path \in 1 .. given /\ (job[s].reached => job[s].path \notin files)

MediaInv == MediaJobsFit /\ GivenBounds /\ UploadsOwn /\ RemovalsReach /\ StoresAgree

-----------------------------------------------------------------------------
\* The kind of a job says which of the sets it is in.
LEMMA MediaJobKinds ==
  ASSUME NEW j \in MediaJobs
  PROVE  /\ j.kind = "none" <=> j = NoJob
         /\ j.kind = "upload" => j \in UploadJobs
         /\ j.kind = "remove" => j \in RemoveJobs
         /\ j.kind \in {"none", "upload", "remove"}
BY DEF MediaJobs, UploadJobs, RemoveJobs, NoJob

LEMMA MediaInitial == MediaInit => MediaInv
<1> SUFFICES ASSUME MediaInit PROVE MediaInv
  OBVIOUS
<1>1. \A s \in Sessions : job[s] = NoJob /\ ~Working(s, "upload") /\ ~Working(s, "remove")
  BY DEF MediaInit, JobInit, Working, NoJob
<1>2. MediaJobsFit
  BY DEF MediaInit, JobInit, MediaJobsFit, MediaJobs
<1>3. GivenBounds
  BY MediaAssumption DEF MediaInit, GivenBounds
<1>4. StoresAgree
  BY DEF MediaInit, StoresAgree
<1> QED
  BY <1>1, <1>2, <1>3, <1>4 DEF MediaInv, UploadsOwn, RemovalsReach

LEMMA UploadStoreKeeps ==
  ASSUME MediaInv, NEW s \in Sessions, UploadStore(s)
  PROVE  MediaInv'
<1> DEFINE p == given + 1
<1> USE MediaAssumption
<1>1. p \in Paths /\ given' = p /\ files' = files \cup {p} /\ media' = media /\ torn' = torn /\ removals' = removals
  BY DEF UploadStore, MediaInv, GivenBounds, Paths
<1>2. job[s] = NoJob /\ job' = [job EXCEPT ![s] = [kind |-> "upload", path |-> p]]
  BY <1>1 DEF UploadStore, Begin, Idle
<1>3. job'[s] = [kind |-> "upload", path |-> p] /\ \A k \in Sessions \ {s} : job'[k] = job[k]
  BY <1>2 DEF MediaInv, MediaJobsFit
<1>4. p \notin files /\ p \notin media /\ 1 .. given \subseteq 1 .. p
  BY DEF MediaInv, GivenBounds
<1>5. \A k \in Sessions : job[k] # NoJob => job[k].path \in 1 .. given
  <2> SUFFICES ASSUME NEW k \in Sessions, job[k] # NoJob PROVE job[k].path \in 1 .. given
    OBVIOUS
  <2>1. job[k].kind \in {"upload", "remove"}
    BY MediaJobKinds DEF MediaInv, MediaJobsFit
  <2> QED
    BY <2>1 DEF MediaInv, UploadsOwn, RemovalsReach, GivenBounds, Working
<1>6. \A k \in Sessions : job[k] # NoJob => job[k].path # p
  BY <1>5 DEF MediaInv, GivenBounds
<1>7. MediaJobsFit'
  BY <1>1, <1>2 DEF MediaInv, MediaJobsFit, MediaJobs, UploadJobs
<1>8. GivenBounds'
  BY <1>1, <1>4 DEF MediaInv, GivenBounds, Paths
<1>9. UploadsOwn'
  BY <1>1, <1>3, <1>4, <1>6 DEF MediaInv, UploadsOwn, Working, NoJob
<1>10. RemovalsReach'
  BY <1>1, <1>3, <1>4, <1>6 DEF MediaInv, RemovalsReach, Working, NoJob
<1>11. HalfWay \cup {p} \subseteq HalfWay'
  BY <1>1, <1>2, <1>3 DEF HalfWay, Working, NoJob
<1>12. StoresAgree'
  BY <1>1, <1>11 DEF MediaInv, StoresAgree
<1> QED
  BY <1>7, <1>8, <1>9, <1>10, <1>12 DEF MediaInv

\* A job that ends takes no path out of HalfWay but its own.
LEMMA HalfWayWithout ==
  ASSUME MediaJobsFit, NEW s \in Sessions, EndJob(s)
  PROVE  /\ \A k \in Sessions \ {s} : job'[k] = job[k]
         /\ job'[s] = NoJob /\ MediaJobsFit'
         /\ \A p \in HalfWay : p \in HalfWay' \/ (job[s] # NoJob /\ p = job[s].path)
<1>1. job' = [job EXCEPT ![s] = NoJob]
  BY DEF EndJob
<1>2. \A k \in Sessions \ {s} : job'[k] = job[k]
  BY <1>1 DEF MediaJobsFit
<1>3. job'[s] = NoJob /\ MediaJobsFit'
  BY <1>1 DEF MediaJobsFit, MediaJobs
<1>4. ASSUME NEW p \in HalfWay PROVE p \in HalfWay' \/ (job[s] # NoJob /\ p = job[s].path)
  BY <1>2, <1>4 DEF HalfWay, Working, NoJob
<1> QED
  BY <1>2, <1>3, <1>4

LEMMA UploadCommitKeeps ==
  ASSUME MediaInv, NEW s \in Sessions, UploadCommit(s)
  PROVE  MediaInv'
<1> DEFINE p == job[s].path
<1>1. Working(s, "upload") /\ EndJob(s) /\ media' = media \cup {p}
      /\ files' = files /\ given' = given /\ torn' = torn /\ removals' = removals
  BY DEF UploadCommit
<1>2. /\ \A k \in Sessions \ {s} : job'[k] = job[k]
      /\ job'[s] = NoJob /\ MediaJobsFit'
      /\ \A q \in HalfWay : q \in HalfWay' \/ q = p
  BY <1>1, HalfWayWithout DEF MediaInv
<1>3. p \in files \ media /\ \A k \in Sessions \ {s} : job[k] # NoJob => job[k].path # p
  BY <1>1 DEF MediaInv, UploadsOwn
<1>4. GivenBounds'
  BY <1>1, <1>3 DEF MediaInv, GivenBounds, Paths
<1>5. UploadsOwn'
  BY <1>1, <1>2, <1>3 DEF MediaInv, UploadsOwn, Working, NoJob
<1>6. RemovalsReach'
  BY <1>1, <1>2 DEF MediaInv, RemovalsReach, Working, NoJob
<1>7. StoresAgree'
  BY <1>1, <1>2, <1>3 DEF MediaInv, StoresAgree
<1> QED
  BY <1>2, <1>4, <1>5, <1>6, <1>7 DEF MediaInv

LEMMA RemoveReadKeeps ==
  ASSUME MediaInv, NEW s \in Sessions, NEW p \in Paths, RemoveRead(s, p)
  PROVE  MediaInv'
<1>1. p \in media /\ files' = files /\ media' = media /\ given' = given /\ torn' = torn
      /\ removals' = removals + 1 /\ removals < MaxRemovals
  BY DEF RemoveRead
<1>2. job[s] = NoJob /\ job' = [job EXCEPT ![s] = [kind |-> "remove", path |-> p, reached |-> FALSE]]
  BY DEF RemoveRead, Begin, Idle
<1>3. job'[s] = [kind |-> "remove", path |-> p, reached |-> FALSE] /\ \A k \in Sessions \ {s} : job'[k] = job[k]
  BY <1>2 DEF MediaInv, MediaJobsFit
<1>4. MediaJobsFit'
  BY <1>2 DEF MediaInv, MediaJobsFit, MediaJobs, RemoveJobs
<1>5. GivenBounds'
  BY <1>1, MediaAssumption DEF MediaInv, GivenBounds
<1>6. UploadsOwn'
  BY <1>1, <1>2, <1>3 DEF MediaInv, UploadsOwn, Working, NoJob
<1>7. RemovalsReach'
  BY <1>1, <1>3 DEF MediaInv, RemovalsReach, GivenBounds, Working, NoJob
<1>8. HalfWay \subseteq HalfWay'
  BY <1>2, <1>3 DEF HalfWay, Working, NoJob
<1>9. StoresAgree'
  BY <1>1, <1>8 DEF MediaInv, StoresAgree
<1> QED
  BY <1>4, <1>5, <1>6, <1>7, <1>9 DEF MediaInv

LEMMA RemoveFileKeeps ==
  ASSUME MediaInv, NEW s \in Sessions, RemoveFile(s)
  PROVE  MediaInv'
<1> DEFINE p == job[s].path
<1>1. Working(s, "remove") /\ files' = files \ {p}
      /\ media' = media /\ given' = given /\ torn' = torn /\ removals' = removals
  BY DEF RemoveFile
<1>2. job[s] \in RemoveJobs
  BY <1>1, MediaJobKinds DEF MediaInv, MediaJobsFit, Working
<1>3. job' = [job EXCEPT ![s].reached = TRUE]
  BY DEF RemoveFile
<1>4. job'[s] = [kind |-> "remove", path |-> p, reached |-> TRUE] /\ \A k \in Sessions \ {s} : job'[k] = job[k]
  BY <1>2, <1>3 DEF MediaInv, MediaJobsFit, RemoveJobs
<1>5. MediaJobsFit'
  <2>1. job' = [job EXCEPT ![s] = [kind |-> "remove", path |-> p, reached |-> TRUE]]
    BY <1>3, <1>4 DEF MediaInv, MediaJobsFit
  <2> QED
    BY <1>2, <2>1 DEF MediaInv, MediaJobsFit, MediaJobs, RemoveJobs
<1>6. GivenBounds'
  BY <1>1 DEF MediaInv, GivenBounds
<1>7. \A k \in Sessions : Working(k, "upload") => job[k].path # p
  BY <1>1, <1>2 DEF MediaInv, UploadsOwn, RemoveJobs, Working, NoJob
<1>8. UploadsOwn'
  BY <1>1, <1>2, <1>4, <1>7 DEF MediaInv, UploadsOwn, Working, NoJob, RemoveJobs
<1>9. RemovalsReach'
  BY <1>1, <1>2, <1>4 DEF MediaInv, RemovalsReach, Working, RemoveJobs
<1>10. HalfWay \cup {p} \subseteq HalfWay'
  BY <1>2, <1>4 DEF HalfWay, Working, RemoveJobs
<1>11. StoresAgree'
  BY <1>1, <1>10 DEF MediaInv, StoresAgree
<1> QED
  BY <1>5, <1>6, <1>8, <1>9, <1>11 DEF MediaInv

LEMMA RemoveCommitKeeps ==
  ASSUME MediaInv, NEW s \in Sessions, RemoveCommit(s)
  PROVE  MediaInv'
<1> DEFINE p == job[s].path
<1>1. Working(s, "remove") /\ job[s].reached /\ EndJob(s) /\ media' = media \ {p}
      /\ files' = files /\ given' = given /\ torn' = torn /\ removals' = removals
  BY DEF RemoveCommit
<1>2. /\ \A k \in Sessions \ {s} : job'[k] = job[k]
      /\ job'[s] = NoJob /\ MediaJobsFit'
      /\ \A q \in HalfWay : q \in HalfWay' \/ q = p
  BY <1>1, HalfWayWithout DEF MediaInv
<1>3. p \notin files
  BY <1>1 DEF MediaInv, RemovalsReach
<1>4. GivenBounds'
  BY <1>1 DEF MediaInv, GivenBounds
<1>5. UploadsOwn'
  BY <1>1, <1>2 DEF MediaInv, UploadsOwn, Working, NoJob
<1>6. RemovalsReach'
  BY <1>1, <1>2 DEF MediaInv, RemovalsReach, Working, NoJob
<1>7. StoresAgree'
  BY <1>1, <1>2, <1>3 DEF MediaInv, StoresAgree
<1> QED
  BY <1>2, <1>4, <1>5, <1>6, <1>7 DEF MediaInv

LEMMA MediaFailsKeeps ==
  ASSUME MediaInv, NEW s \in Sessions, MediaFails(s)
  PROVE  MediaInv'
<1> DEFINE p == job[s].path
<1>1. /\ Working(s, "upload") \/ Working(s, "remove")
      /\ EndJob(s) /\ media' = media /\ files' = files /\ given' = given /\ removals' = removals
      /\ torn' = torn \cup {q \in Paths : q = p /\ (Working(s, "upload") \/ job[s].reached)}
  BY DEF MediaFails
<1>2. /\ \A k \in Sessions \ {s} : job'[k] = job[k]
      /\ job'[s] = NoJob /\ MediaJobsFit'
      /\ \A q \in HalfWay : q \in HalfWay' \/ q = p
  BY <1>1, HalfWayWithout DEF MediaInv
<1>3. GivenBounds'
  BY <1>1 DEF MediaInv, GivenBounds
<1>4. UploadsOwn'
  BY <1>1, <1>2 DEF MediaInv, UploadsOwn, Working, NoJob
<1>5. RemovalsReach'
  BY <1>1, <1>2 DEF MediaInv, RemovalsReach, Working, NoJob
<1>6. ASSUME NEW q \in HalfWay PROVE q \in HalfWay' \cup torn'
  <2>1. CASE q \in HalfWay'
    BY <2>1
  <2>2. CASE q \notin HalfWay'
    <3>1. PICK k \in Sessions : \/ Working(k, "upload") /\ job[k].path = q
                                \/ Working(k, "remove") /\ job[k].path = q /\ job[k].reached
      BY <1>6 DEF HalfWay
    <3>2. k = s
      BY <1>2, <1>6, <2>2, <3>1 DEF HalfWay, Working
    <3> QED
      BY <1>1, <1>6, <3>1, <3>2 DEF HalfWay
  <2> QED
    BY <2>1, <2>2
<1>7. StoresAgree'
  BY <1>1, <1>6 DEF MediaInv, StoresAgree
<1> QED
  BY <1>2, <1>3, <1>4, <1>5, <1>7 DEF MediaInv

LEMMA MediaStep == MediaInv /\ [MediaNext]_<<job, alone, mediaVars>> => MediaInv'
<1> SUFFICES ASSUME MediaInv, [MediaNext]_<<job, alone, mediaVars>> PROVE MediaInv'
  OBVIOUS
<1>1. CASE UNCHANGED <<job, alone, mediaVars>>
  BY <1>1 DEF MediaInv, mediaVars, MediaJobsFit, GivenBounds, UploadsOwn, RemovalsReach, StoresAgree, HalfWay, Working
<1>2. CASE MediaNext
  BY <1>2, UploadStoreKeeps, UploadCommitKeeps, RemoveReadKeeps, RemoveFileKeeps, RemoveCommitKeeps, MediaFailsKeeps
     DEF MediaNext
<1> QED
  BY <1>1, <1>2

LEMMA MediaInvariant == MediaSpec => []MediaInv
<1> QED
  BY MediaInitial, MediaStep, PTL DEF MediaSpec

-----------------------------------------------------------------------------
\* The paths, the counters and the requests keep their types, for any number of
\* sessions, uploads and deletions.
THEOREM MediaTypesCorrect == MediaSpec => []MediaTypeOK
<1>1. MediaInv => MediaTypeOK
  <2> SUFFICES ASSUME MediaInv PROVE MediaTypeOK
    OBVIOUS
  <2>1. files \subseteq Paths /\ media \subseteq Paths /\ torn \subseteq Paths
        /\ given \in 0 .. MaxUploads /\ removals \in 0 .. MaxRemovals
    BY MediaAssumption DEF MediaInv, GivenBounds, Paths
  <2>2. ASSUME NEW s \in Sessions
        PROVE  \/ job[s] = NoJob
               \/ Working(s, "upload") /\ job[s].path \in Paths
               \/ Working(s, "remove") /\ job[s].path \in Paths /\ job[s].reached \in BOOLEAN
    BY DEF MediaInv, MediaJobsFit, MediaJobs, UploadJobs, RemoveJobs, Working
  <2> QED
    BY <2>1, <2>2 DEF MediaTypeOK
<1> QED
  BY MediaInvariant, <1>1, PTL

\* The storage and the table differ only at paths whose request is between its two
\* halves or ended there, however uploads and deletions overlap and fail.
THEOREM StoresCorrect == MediaSpec => []StoresAgree
<1>1. MediaInv => StoresAgree
  BY DEF MediaInv
<1> QED
  BY MediaInvariant, <1>1, PTL

-----------------------------------------------------------------------------
(***************************************************************************)
(* Proofs about AgentChats: whatever the model asks for, whatever the tools   *)
(* come to and however many steps a graph may take, the calls of a message     *)
(* are answered in order before the model is asked again.                      *)
(*                                                                         *)
(* The property speaks of the messages before the last one.  What makes it      *)
(* inductive is what the node that runs next says of the last one: between the    *)
(* two nodes it is a message of the model, with calls if the tools are next.      *)
(***************************************************************************)

UserEntries == [by : {"user"}]
ModelEntries == [by : {"model"}, calls : Requested]
ToolEntries == [by : {"tool"}, call : Nat, tool : Tried, what : {"result", "refusal", "exception"}]
ChatEntries == UserEntries \cup ModelEntries \cup ToolEntries

ChatJobs == [kind : {"chat"}, agent : Agents, log : Seq(ChatEntries), node : {"agent", "action", "end"},
             steps : 0 .. RecursionLimit]

ChatJobsFit == job \in [Sessions -> {NoJob} \cup ChatJobs]
CountsFit == chats \in 0 .. MaxChats /\ replies \subseteq [agent : Agents, what : {"model", "apology", "error"}]

\* The message of the model at place i has its answers after it.
AnsweredAt(log, i) ==
  LET n == Len(log[i].calls)
  IN /\ n > 0 /\ i + n <= Len(log)
     /\ \A k \in 1 .. n : log[i + k].by = "tool" /\ log[i + k].call = k /\ log[i + k].tool = log[i].calls[k]
     /\ i + n < Len(log) => log[i + n + 1].by = "model"

\* All messages of the model have, but for the last message between the nodes.
LogFits(j) ==
  /\ \A i \in DOMAIN j.log : j.log[i].by = "model" /\ (i < Len(j.log) \/ j.node = "agent") => AnsweredAt(j.log, i)
  /\ j.node # "agent" => Len(j.log) > 0 /\ j.log[Len(j.log)].by = "model"
  /\ j.node = "action" => j.log[Len(j.log)].calls # <<>>

LogsFit == \A s \in Sessions : Working(s, "chat") => LogFits(job[s])

ChatInv == ChatJobsFit /\ CountsFit /\ LogsFit

-----------------------------------------------------------------------------
(* Messages and calls. *)

LEMMA ChatJobKinds ==
  ASSUME NEW j \in {NoJob} \cup ChatJobs
  PROVE  (j.kind = "chat" <=> j \in ChatJobs) /\ (j.kind # "chat" <=> j = NoJob)
BY DEF ChatJobs, NoJob

\* What the model asks for is a sequence of tools.
LEMMA RequestedSequences ==
  ASSUME NEW calls \in Requested
  PROVE  calls \in Seq(Tried) /\ DOMAIN calls = 1 .. Len(calls)
<1>1. PICK n \in 0 .. MaxCalls : calls \in [1 .. n -> Tried]
  BY DEF Requested
<1>2. n \in Nat
  BY ChatAssumption
<1> QED
  BY <1>1, <1>2

LEMMA EntryKinds ==
  ASSUME NEW e \in ChatEntries
  PROVE  /\ e.by = "model" => e.calls \in Requested
         /\ e.by \in {"user", "model", "tool"}
BY DEF ChatEntries, UserEntries, ModelEntries, ToolEntries

LEMMA SpokenEntry ==
  ASSUME NEW calls \in Requested
  PROVE  Spoken(calls) \in ChatEntries /\ Spoken(calls).by = "model" /\ Spoken(calls).calls = calls
BY DEF Spoken, ChatEntries, ModelEntries

LEMMA AnswerEntry ==
  ASSUME NEW x \in Tried, NEW k \in Nat, NEW what \in {"result", "refusal", "exception"}
  PROVE  /\ Answer(x, k, what) \in ChatEntries
         /\ Answer(x, k, what).by = "tool" /\ Answer(x, k, what).call = k /\ Answer(x, k, what).tool = x
BY DEF Answer, ChatEntries, ToolEntries

\* What messages are when more are added.
LEMMA MessagesJoined ==
  ASSUME NEW log \in Seq(ChatEntries), NEW more \in Seq(ChatEntries)
  PROVE  /\ log \o more \in Seq(ChatEntries) /\ Len(log \o more) = Len(log) + Len(more)
         /\ DOMAIN (log \o more) = 1 .. Len(log \o more)
         /\ \A k \in 1 .. Len(log) : (log \o more)[k] = log[k]
         /\ \A k \in 1 .. Len(more) : (log \o more)[Len(log) + k] = more[k]
OBVIOUS

\* Answers do not go away when messages are added.
LEMMA AnsweredStays ==
  ASSUME NEW log \in Seq(ChatEntries), NEW more \in Seq(ChatEntries), NEW i \in 1 .. Len(log),
         log[i].by = "model", AnsweredAt(log, i),
         Len(more) > 0 => (i + Len(log[i].calls) < Len(log) \/ more[1].by = "model")
  PROVE  AnsweredAt(log \o more, i)
<1> DEFINE n == Len(log[i].calls)
           longer == log \o more
<1>1. longer \in Seq(ChatEntries) /\ Len(longer) = Len(log) + Len(more)
      /\ (\A k \in 1 .. Len(log) : longer[k] = log[k])
      /\ (\A k \in 1 .. Len(more) : longer[Len(log) + k] = more[k])
  BY MessagesJoined
<1>2. n \in Nat /\ n > 0 /\ i + n <= Len(log)
  <2>1. log[i].calls \in Requested
    BY EntryKinds
  <2> QED
    BY <2>1, RequestedSequences DEF AnsweredAt
<1>3. longer[i] = log[i] /\ Len(longer[i].calls) = n
  BY <1>1
<1>4. \A k \in 1 .. n : longer[i + k] = log[i + k]
  BY <1>1, <1>2
<1>5. \A k \in 1 .. n : longer[i + k].by = "tool" /\ longer[i + k].call = k /\ longer[i + k].tool = longer[i].calls[k]
  BY <1>3, <1>4 DEF AnsweredAt
<1>6. ASSUME i + n < Len(longer) PROVE longer[i + n + 1].by = "model"
  <2>1. CASE i + n < Len(log)
    <3>1. log[i + n + 1].by = "model"
      BY <2>1 DEF AnsweredAt
    <3>2. i + n + 1 \in 1 .. Len(log)
      BY <1>2, <2>1
    <3> QED
      BY <1>1, <3>1, <3>2
  <2>2. CASE i + n = Len(log)
    <3>1. Len(log) \in Nat /\ Len(more) \in Nat /\ Len(more) > 0
      BY <1>1, <1>6, <2>2
    <3>2. more[1].by = "model" /\ 1 \in 1 .. Len(more)
      BY <3>1, <2>2
    <3>3. i + n + 1 = Len(log) + 1
      BY <2>2
    <3> QED
      BY <1>1, <3>2, <3>3
  <2> HIDE DEF n, longer
  <2>3. i + n < Len(log) \/ i + n = Len(log)
    <3>1. Len(log) \in Nat /\ i \in Int
      OBVIOUS
    <3> QED
      BY <1>2, <3>1
  <2> QED
    BY <2>1, <2>2, <2>3
<1> HIDE DEF n, longer
<1>7. n > 0 /\ i + n <= Len(longer)
  BY <1>1, <1>2
<1> QED
  BY <1>3, <1>5, <1>6, <1>7 DEF AnsweredAt, longer

-----------------------------------------------------------------------------
(* The steps. *)

LEMMA ChatInitial == ChatInit => ChatInv
<1> SUFFICES ASSUME ChatInit PROVE ChatInv
  OBVIOUS
<1>1. \A s \in Sessions : ~Working(s, "chat")
  BY DEF ChatInit, JobInit, Working, NoJob
<1>2. ChatJobsFit /\ CountsFit
  BY ChatAssumption DEF ChatInit, JobInit, ChatJobsFit, CountsFit
<1> QED
  BY <1>1, <1>2 DEF ChatInv, LogsFit

LEMMA AskKeeps ==
  ASSUME ChatInv, NEW s \in Sessions, NEW a \in Agents, Ask(s, a)
  PROVE  ChatInv'
<1> DEFINE j == [kind |-> "chat", agent |-> a, log |-> <<[by |-> "user"]>>, node |-> "agent", steps |-> 0]
<1>1. job' = [job EXCEPT ![s] = j] /\ chats < MaxChats /\ chats' = chats + 1 /\ replies' = replies
  BY DEF Ask, Begin
<1>2. j.log \in Seq(ChatEntries) /\ Len(j.log) = 1 /\ j.log[1].by = "user" /\ j.node = "agent"
  BY DEF ChatEntries, UserEntries
<1>3. j \in ChatJobs
  BY <1>2, ChatAssumption DEF ChatJobs
<1>4. LogFits(j)
  <2>1. ~\E i \in DOMAIN j.log : j.log[i].by = "model"
    BY <1>2
  <2> QED
    BY <1>2, <2>1 DEF LogFits
<1> HIDE DEF j
<1>5. job'[s] = j /\ \A k \in Sessions \ {s} : job'[k] = job[k]
  BY <1>1 DEF ChatInv, ChatJobsFit
<1>6. ChatJobsFit' /\ CountsFit'
  BY <1>1, <1>3, ChatAssumption DEF ChatInv, ChatJobsFit, CountsFit
<1>7. LogsFit'
  BY <1>4, <1>5 DEF ChatInv, LogsFit, Working
<1> QED
  BY <1>6, <1>7 DEF ChatInv

\* A step of the graph keeps the invariant when the messages it makes fit the node
\* that is next.
LEMMA GraphStepKeeps ==
  ASSUME ChatInv, NEW s \in Sessions, NEW at \in {"agent", "action"},
         NEW entries \in Seq(ChatEntries), NEW next \in {"agent", "action", "end"},
         GraphStep(s, at, entries, next),
         LogFits([job[s] EXCEPT !.log = job[s].log \o entries, !.node = next, !.steps = job[s].steps + 1])
  PROVE  ChatInv'
<1> DEFINE j == [job[s] EXCEPT !.log = job[s].log \o entries, !.node = next, !.steps = job[s].steps + 1]
<1>1. /\ Working(s, "chat") /\ job[s].steps < RecursionLimit /\ job' = [job EXCEPT ![s] = j]
      /\ chats' = chats /\ replies' = replies
  BY DEF GraphStep, chatVars
<1>2. job[s] \in ChatJobs
  BY <1>1, ChatJobKinds DEF ChatInv, ChatJobsFit, Working
<1>3. job[s].log \o entries \in Seq(ChatEntries) /\ job[s].steps + 1 \in 0 .. RecursionLimit
  BY <1>1, <1>2, ChatAssumption DEF ChatJobs
<1>4. j \in ChatJobs
  BY <1>2, <1>3 DEF ChatJobs
<1>5. job'[s] = j /\ \A k \in Sessions \ {s} : job'[k] = job[k]
  BY <1>1 DEF ChatInv, ChatJobsFit
<1>6. LogFits(j)
  OBVIOUS
<1> HIDE DEF j
<1>7. ChatJobsFit' /\ CountsFit'
  BY <1>1, <1>4 DEF ChatInv, ChatJobsFit, CountsFit
<1>8. LogsFit'
  BY <1>5, <1>6 DEF ChatInv, LogsFit, Working
<1> QED
  BY <1>7, <1>8 DEF ChatInv

\* What a chat at a node is.
LEMMA AtNode ==
  ASSUME ChatInv, NEW s \in Sessions, Working(s, "chat")
  PROVE  job[s] \in ChatJobs /\ job[s].log \in Seq(ChatEntries) /\ LogFits(job[s])
<1>1. job[s] \in ChatJobs
  BY ChatJobKinds DEF ChatInv, ChatJobsFit, Working
<1> QED
  BY <1>1 DEF ChatInv, LogsFit, ChatJobs

LEMMA CallModelKeeps ==
  ASSUME ChatInv, NEW s \in Sessions, NEW calls \in Requested, CallModel(s, calls)
  PROVE  ChatInv'
<1> DEFINE log == job[s].log
           more == <<Spoken(calls)>>
           next == NodeAfter(calls)
           j == [job[s] EXCEPT !.log = job[s].log \o more, !.node = next, !.steps = job[s].steps + 1]
<1>1. GraphStep(s, "agent", more, next) /\ Working(s, "chat") /\ job[s].node = "agent"
  BY DEF CallModel, GraphStep
<1>2. job[s] \in ChatJobs /\ log \in Seq(ChatEntries) /\ LogFits(job[s])
  BY <1>1, AtNode
<1>3. more \in Seq(ChatEntries) /\ Len(more) = 1 /\ more[1].by = "model" /\ more[1].calls = calls
  BY SpokenEntry
<1>4. next \in {"action", "end"} /\ (next = "action" => calls # <<>>)
  BY DEF NodeAfter
<1>5. j.log = log \o more /\ j.node = next
  BY <1>2 DEF ChatJobs
<1> DEFINE longer == log \o more
<1>6. Len(longer) = Len(log) + 1 /\ DOMAIN longer = 1 .. Len(longer) /\ longer[Len(longer)] = more[1]
      /\ \A i \in 1 .. Len(log) : longer[i] = log[i]
  BY <1>2, <1>3
<1>7. ASSUME NEW i \in DOMAIN longer, longer[i].by = "model", i < Len(longer)
      PROVE  AnsweredAt(longer, i)
  <2>1. i \in 1 .. Len(log) /\ log[i].by = "model"
    BY <1>6, <1>7
  <2>2. AnsweredAt(log, i)
    BY <1>1, <1>2, <2>1 DEF LogFits
  <2> QED
    BY <1>2, <1>3, <2>1, <2>2, AnsweredStays
<1> HIDE DEF longer, more, next
<1>8. LogFits(j)
  <2>1. j.log = longer /\ Len(longer) > 0 /\ j.node # "agent"
    BY <1>4, <1>5, <1>2, <1>6 DEF longer
  <2>2. j.log[Len(j.log)].by = "model" /\ (j.node = "action" => j.log[Len(j.log)].calls # <<>>)
    BY <1>3, <1>4, <1>5, <1>6, <2>1
  <2> HIDE DEF j
  <2> QED
    BY <1>7, <2>1, <2>2 DEF LogFits
<1> QED
  BY <1>1, <1>3, <1>4, <1>8, GraphStepKeeps

\* The answers to the calls of a message.
LEMMA AnswersMade ==
  ASSUME NEW calls \in Requested, NEW what \in AllOutcomes(calls)
  PROVE  LET more == [k \in DOMAIN calls |-> Answer(calls[k], k, what[k])]
         IN /\ more \in Seq(ChatEntries) /\ Len(more) = Len(calls)
            /\ \A k \in 1 .. Len(calls) : more[k].by = "tool" /\ more[k].call = k /\ more[k].tool = calls[k]
<1> DEFINE more == [k \in DOMAIN calls |-> Answer(calls[k], k, what[k])]
<1>1. calls \in Seq(Tried) /\ DOMAIN calls = 1 .. Len(calls) /\ Len(calls) \in Nat
  BY RequestedSequences
<1>2. \A k \in 1 .. Len(calls) : calls[k] \in Tried /\ k \in Nat
  BY <1>1
<1>3. \A k \in 1 .. Len(calls) : what[k] \in {"result", "refusal", "exception"}
  BY <1>1 DEF AllOutcomes
<1>4. \A k \in 1 .. Len(calls) : /\ more[k] \in ChatEntries
                                 /\ more[k].by = "tool" /\ more[k].call = k /\ more[k].tool = calls[k]
  BY <1>1, <1>2, <1>3, AnswerEntry
<1>5. more = [k \in 1 .. Len(calls) |-> more[k]]
  BY <1>1
<1> HIDE DEF more
<1>6. more \in [1 .. Len(calls) -> ChatEntries]
  BY <1>4, <1>5
<1>7. more \in Seq(ChatEntries) /\ Len(more) = Len(calls)
  BY <1>1, <1>6
<1> QED
  BY <1>4, <1>7 DEF more

LEMMA CallToolsKeeps ==
  ASSUME ChatInv, NEW s \in Sessions, CallTools(s)
  PROVE  ChatInv'
<1> DEFINE log == job[s].log
           last == Len(log)
           calls == log[last].calls
<1>1. Working(s, "chat") /\ job[s].node = "action"
  BY DEF CallTools
<1>2. job[s] \in ChatJobs /\ log \in Seq(ChatEntries) /\ LogFits(job[s])
  BY <1>1, AtNode
<1>3. last \in Nat /\ last > 0 /\ last \in 1 .. Len(log) /\ log[last].by = "model" /\ calls # <<>>
  BY <1>1, <1>2 DEF LogFits
<1>4. calls \in Requested /\ calls \in Seq(Tried)
  BY <1>2, <1>3, EntryKinds, RequestedSequences
<1>5. Len(calls) \in Nat /\ Len(calls) > 0
  BY <1>3, <1>4
<1>6. PICK what \in AllOutcomes(calls) :
        GraphStep(s, "action", [k \in DOMAIN calls |-> Answer(calls[k], k, what[k])], "agent")
  BY DEF CallTools, LastOf
<1> DEFINE more == [k \in DOMAIN calls |-> Answer(calls[k], k, what[k])]
<1>7. /\ more \in Seq(ChatEntries) /\ Len(more) = Len(calls)
      /\ \A k \in 1 .. Len(calls) : more[k].by = "tool" /\ more[k].call = k /\ more[k].tool = calls[k]
  BY <1>4, AnswersMade
<1> HIDE DEF more
<1> DEFINE longer == log \o more
           j == [job[s] EXCEPT !.log = job[s].log \o more, !.node = "agent", !.steps = job[s].steps + 1]
<1>8. Len(longer) = last + Len(calls) /\ DOMAIN longer = 1 .. Len(longer)
      /\ (\A i \in 1 .. last : longer[i] = log[i])
      /\ (\A k \in 1 .. Len(calls) : longer[last + k] = more[k])
  <2>1. /\ Len(longer) = Len(log) + Len(more) /\ DOMAIN longer = 1 .. Len(longer)
        /\ (\A i \in 1 .. Len(log) : longer[i] = log[i])
        /\ (\A k \in 1 .. Len(more) : longer[Len(log) + k] = more[k])
    BY <1>2, <1>7, MessagesJoined
  <2> QED
    BY <1>7, <2>1
<1> HIDE DEF longer
<1>9. ASSUME NEW i \in DOMAIN longer, longer[i].by = "model" PROVE i \in 1 .. last
  <2>1. SUFFICES ASSUME i > last PROVE FALSE
    BY <1>3, <1>8
  <2>2. PICK k \in 1 .. Len(calls) : i = last + k
    <3>1. i - last \in 1 .. Len(calls) /\ i = last + (i - last)
      <4> HIDE DEF last, calls
      <4> QED
        BY <1>3, <1>5, <1>8, <2>1
    <3> QED
      BY <3>1
  <2>3. longer[i] = more[k] /\ more[k].by = "tool"
    BY <1>7, <1>8, <2>2
  <2> QED
    BY <1>9, <2>3
<1>10. AnsweredAt(longer, last)
  <2>1. longer[last] = log[last] /\ longer[last].calls = calls
    BY <1>3, <1>8
  <2>2. \A k \in 1 .. Len(calls) : /\ longer[last + k].by = "tool" /\ longer[last + k].call = k
                                  /\ longer[last + k].tool = longer[last].calls[k]
    BY <1>7, <1>8, <2>1
  <2> HIDE DEF calls, last
  <2> QED
    BY <1>3, <1>5, <1>8, <2>1, <2>2 DEF AnsweredAt
<1>11. ASSUME NEW i \in 1 .. last, i < last, log[i].by = "model" PROVE AnsweredAt(longer, i)
  <2> DEFINE n == Len(log[i].calls)
  <2>1. AnsweredAt(log, i)
    BY <1>2, <1>11 DEF LogFits
  <2>2. n \in Nat
    BY <1>2, <1>11, EntryKinds, RequestedSequences
  <2>3. n > 0 /\ i + n <= last /\ log[i + n].by = "tool"
    BY <2>1, <2>2 DEF AnsweredAt
  <2>4. i + n < last
    <3>1. i + n # last
      BY <1>3, <2>3
    <3> HIDE DEF n, last
    <3> QED
      BY <1>3, <2>2, <2>3, <3>1
  <2> QED
    BY <1>2, <1>7, <1>11, <2>1, <2>4, AnsweredStays DEF longer
<1>12. LogFits(j)
  <2>1. j.log = longer /\ j.node = "agent"
    BY <1>2 DEF ChatJobs, longer
  <2>2. \A i \in DOMAIN longer : longer[i].by = "model" => AnsweredAt(longer, i)
    <3> SUFFICES ASSUME NEW i \in DOMAIN longer, longer[i].by = "model" PROVE AnsweredAt(longer, i)
      OBVIOUS
    <3>1. i \in 1 .. last /\ log[i].by = "model"
      BY <1>8, <1>9
    <3>2. i = last \/ i < last
      BY <1>3, <3>1
    <3> QED
      BY <1>10, <1>11, <3>1, <3>2
  <2> HIDE DEF j
  <2> QED
    BY <2>1, <2>2 DEF LogFits
<1>13. GraphStep(s, "action", more, "agent")
  BY <1>6 DEF more
<1> QED
  BY <1>7, <1>12, <1>13, GraphStepKeeps

\* A reply ends the chat.
LEMMA ReplyKeeps ==
  ASSUME ChatInv, NEW s \in Sessions, Working(s, "chat"),
         NEW what \in {"model", "apology", "error"}, Reply(s, what)
  PROVE  ChatInv'
<1>1. job[s] \in ChatJobs
  BY AtNode
<1>2. /\ replies' = replies \cup {[agent |-> job[s].agent, what |-> what]} /\ chats' = chats
      /\ job' = [job EXCEPT ![s] = NoJob]
  BY DEF Reply, EndJob
<1>3. ChatJobsFit' /\ CountsFit'
  BY <1>1, <1>2 DEF ChatInv, ChatJobsFit, CountsFit, ChatJobs
<1>4. job'[s] = NoJob /\ \A k \in Sessions \ {s} : job'[k] = job[k]
  BY <1>2 DEF ChatInv, ChatJobsFit
<1>5. LogsFit'
  BY <1>4, ChatJobKinds DEF ChatInv, LogsFit, Working, NoJob
<1> QED
  BY <1>3, <1>5 DEF ChatInv

LEMMA RespondKeeps ==
  ASSUME ChatInv, NEW s \in Sessions, Respond(s)
  PROVE  ChatInv'
<1>1. Working(s, "chat") /\ job[s].node = "end" /\ Reply(s, LastOf(s).by)
  BY DEF Respond
<1>2. LastOf(s).by = "model"
  BY <1>1, AtNode DEF LogFits, LastOf
<1> QED
  BY <1>1, <1>2, ReplyKeeps

LEMMA GiveUpKeeps ==
  ASSUME ChatInv, NEW s \in Sessions, GiveUp(s)
  PROVE  ChatInv'
<1>1. Working(s, "chat") /\ Reply(s, IF job[s].agent = "attendance" THEN "apology" ELSE "error")
  BY DEF GiveUp
<1>2. (IF job[s].agent = "attendance" THEN "apology" ELSE "error") \in {"model", "apology", "error"}
  OBVIOUS
<1> QED
  BY <1>1, <1>2, ReplyKeeps

LEMMA ChatStepKeeps == ChatInv /\ [ChatNext]_<<job, alone, chatVars>> => ChatInv'
<1> SUFFICES ASSUME ChatInv, [ChatNext]_<<job, alone, chatVars>> PROVE ChatInv'
  OBVIOUS
<1>1. CASE ChatNext
  <2>1. PICK s \in Sessions : ChatStep(s) \/ \E a \in Agents : Ask(s, a)
    BY <1>1 DEF ChatNext
  <2> QED
    BY <2>1, AskKeeps, RespondKeeps, GiveUpKeeps, CallToolsKeeps, CallModelKeeps DEF ChatStep
<1>2. CASE UNCHANGED <<job, alone, chatVars>>
  BY <1>2 DEF ChatInv, ChatJobsFit, CountsFit, LogsFit, Working, chatVars
<1> QED
  BY <1>1, <1>2

-----------------------------------------------------------------------------
(* The theorems. *)

LEMMA ChatInvariant == ChatSpec => []ChatInv
BY ChatInitial, ChatStepKeeps, PTL DEF ChatSpec

\* The counters, the replies and the messages always have their types.
THEOREM ChatTypesCorrect == ChatSpec => []ChatTypeOK
<1>1. ChatInv => ChatTypeOK
  <2> SUFFICES ASSUME ChatInv PROVE ChatTypeOK
    OBVIOUS
  <2>1. chats \in 0 .. MaxChats /\ replies \subseteq [agent : Agents, what : {"user", "model", "tool", "apology", "error"}]
    BY DEF ChatInv, CountsFit
  <2>2. ASSUME NEW s \in Sessions, job[s] # NoJob
        PROVE  /\ Working(s, "chat") /\ job[s].agent \in Agents /\ job[s].steps \in 0 .. RecursionLimit
               /\ \A i \in DOMAIN job[s].log : job[s].log[i].by = "model" => job[s].log[i].calls \in Requested
    <3>1. job[s] \in ChatJobs
      BY <2>2 DEF ChatInv, ChatJobsFit
    <3>2. job[s].log \in Seq(ChatEntries)
      BY <3>1 DEF ChatJobs
    <3>3. \A i \in DOMAIN job[s].log : job[s].log[i] \in ChatEntries
      BY <3>2
    <3> QED
      BY <3>1, <3>3, EntryKinds DEF ChatJobs, Working
  <2> QED
    BY <2>1, <2>2 DEF ChatTypeOK
<1> QED
  BY <1>1, ChatInvariant, PTL

\* Whatever becomes of the calls, every one is answered once and in order before the
\* model is asked again, and the user gets the word of the model, never a tool's.
THEOREM AnswersCorrect == ChatSpec => []AnswersMatchCalls
<1>1. ChatInv => AnswersMatchCalls
  BY DEF ChatInv, CountsFit, LogsFit, LogFits, AnsweredAt, AnswersMatchCalls
<1> QED
  BY <1>1, ChatInvariant, PTL
-----------------------------------------------------------------------------
(***************************************************************************)
(* The office.  It begins as its parts begin, and a step of it is a step of   *)
(* the part it is about: so what was proved of a part alone is true of it in   *)
(* the office.  The other parts rest; of them the promises of the office are   *)
(* true because no session works for them and their tables are as they began.  *)
(***************************************************************************)

\* An office begins as each of its parts begins.
LEMMA OfficeStarts ==
  OfficeInit => /\ focus \in Foci /\ TimetableInit /\ MarkInit /\ LifeInit /\ CatalogInit /\ FeesInit
                /\ RegistryInit /\ MediaInit /\ ChatInit
  BY Zenon DEF OfficeInit

\* What the office is about does not change.
LEMMA FocusStays == [OfficeNext]_officeVars => UNCHANGED focus
  BY Zenon DEF OfficeNext, officeVars

\* A step of the office is a step of the part it is about, or none.
LEMMA TimetableMoves ==
  /\ focus \in {"generator", "timetable"}
  /\ [OfficeNext]_officeVars
  => [TimetableNext]_<<job, alone, timetableVars>>
<1> SUFFICES ASSUME focus \in {"generator", "timetable"}, OfficeNext  PROVE TimetableNext
  BY DEF officeVars
<1> QED
  BY DEF OfficeNext, TimetableNext

LEMMA MarksMove == focus = "marks" /\ [OfficeNext]_officeVars => [MarkNext]_<<job, alone, markVars>>
  BY DEF OfficeNext, officeVars
LEMMA LifeMoves == focus = "life" /\ [OfficeNext]_officeVars => [LifeNext]_<<job, alone, lifeVars>>
  BY DEF OfficeNext, officeVars
LEMMA CatalogMoves == focus = "catalog" /\ [OfficeNext]_officeVars => [CatalogNext]_<<job, alone, catalogVars>>
  BY DEF OfficeNext, officeVars
LEMMA FeesMove == focus = "fees" /\ [OfficeNext]_officeVars => [FeesNext]_<<job, alone, feesVars>>
  BY DEF OfficeNext, officeVars
LEMMA RegistryMoves == focus = "registry" /\ [OfficeNext]_officeVars => [RegistryNext]_<<job, alone, registryVars>>
  BY DEF OfficeNext, officeVars
LEMMA MediaMoves == focus = "media" /\ [OfficeNext]_officeVars => [MediaNext]_<<job, alone, mediaVars>>
  BY DEF OfficeNext, officeVars
LEMMA ChatsMove == focus = "chats" /\ [OfficeNext]_officeVars => [ChatNext]_<<job, alone, chatVars>>
  BY DEF OfficeNext, officeVars

\* The office implements the part it is about, fairness included.
THEOREM OfficeIsItsPart ==
  OfficeSpec => /\ focus \in {"generator", "timetable"} => TimetableSpec
                /\ focus = "marks" => MarkSpec
                /\ focus = "life" => LifeSpec
                /\ focus = "catalog" => CatalogSpec
                /\ focus = "fees" => FeesSpec
                /\ focus = "registry" => RegistrySpec
                /\ focus = "media" => MediaSpec
                /\ focus = "chats" => ChatSpec
<1>1. OfficeSpec /\ focus \in {"generator", "timetable"} => TimetableSpec
  <2>1. focus \in {"generator", "timetable"} /\ [OfficeNext]_officeVars => (focus \in {"generator", "timetable"})'
    BY FocusStays
  <2> QED
    BY <2>1, OfficeStarts, TimetableMoves, PTL DEF OfficeSpec, TimetableSpec
<1>2. OfficeSpec /\ focus = "marks" => MarkSpec
  <2>1. focus = "marks" /\ [OfficeNext]_officeVars => (focus = "marks")'
    BY FocusStays
  <2> QED
    BY <2>1, OfficeStarts, MarksMove, PTL DEF OfficeSpec, MarkSpec
<1>3. OfficeSpec /\ focus = "life" => LifeSpec
  <2>1. focus = "life" /\ [OfficeNext]_officeVars => (focus = "life")'
    BY FocusStays
  <2> QED
    BY <2>1, OfficeStarts, LifeMoves, PTL DEF OfficeSpec, LifeSpec
<1>4. OfficeSpec /\ focus = "catalog" => CatalogSpec
  <2>1. focus = "catalog" /\ [OfficeNext]_officeVars => (focus = "catalog")'
    BY FocusStays
  <2> QED
    BY <2>1, OfficeStarts, CatalogMoves, PTL DEF OfficeSpec, CatalogSpec
<1>5. OfficeSpec /\ focus = "fees" => FeesSpec
  <2>1. focus = "fees" /\ [OfficeNext]_officeVars => (focus = "fees")'
    BY FocusStays
  <2> QED
    BY <2>1, OfficeStarts, FeesMove, PTL DEF OfficeSpec, FeesSpec
<1>6. OfficeSpec /\ focus = "registry" => RegistrySpec
  <2>1. focus = "registry" /\ [OfficeNext]_officeVars => (focus = "registry")'
    BY FocusStays
  <2> QED
    BY <2>1, OfficeStarts, RegistryMoves, PTL DEF OfficeSpec, RegistrySpec
<1>7. OfficeSpec /\ focus = "media" => MediaSpec
  <2>1. focus = "media" /\ [OfficeNext]_officeVars => (focus = "media")'
    BY FocusStays
  <2> QED
    BY <2>1, OfficeStarts, MediaMoves, PTL DEF OfficeSpec, MediaSpec
<1>8. OfficeSpec /\ focus = "chats" => ChatSpec
  <2>1. focus = "chats" /\ [OfficeNext]_officeVars => (focus = "chats")'
    BY FocusStays
  <2> QED
    BY <2>1, OfficeStarts, ChatsMove, PTL DEF OfficeSpec, ChatSpec
<1> QED
  BY <1>1, <1>2, <1>3, <1>4, <1>5, <1>6, <1>7, <1>8, PTL

\* Every part keeps the types of its tables and requests while the office is about it.
THEOREM OfficeTypesCorrect == OfficeSpec => []OfficeTypeOK
<1>1. focus \in Foci /\ [OfficeNext]_officeVars => (focus \in Foci)'
  BY FocusStays
<1>2. OfficeSpec => [](focus \in Foci)
  BY <1>1, OfficeStarts, PTL DEF OfficeSpec
<1>3. OfficeSpec => [](focus \in {"generator", "timetable"} => TimetableTypeOK)
  <2>1. ~(focus \in {"generator", "timetable"}) /\ [OfficeNext]_officeVars => ~(focus \in {"generator", "timetable"})'
    BY FocusStays
  <2> QED
    BY <2>1, OfficeIsItsPart, TimetableTypesCorrect, PTL DEF OfficeSpec
<1>4. OfficeSpec => [](focus = "marks" => MarkTypeOK)
  <2>1. ~(focus = "marks") /\ [OfficeNext]_officeVars => ~(focus = "marks")'
    BY FocusStays
  <2> QED
    BY <2>1, OfficeIsItsPart, MarkTypesCorrect, PTL DEF OfficeSpec
<1>5. OfficeSpec => [](focus = "life" => LifeTypeOK)
  <2>1. ~(focus = "life") /\ [OfficeNext]_officeVars => ~(focus = "life")'
    BY FocusStays
  <2> QED
    BY <2>1, OfficeIsItsPart, LifeTypesCorrect, PTL DEF OfficeSpec
<1>6. OfficeSpec => [](focus = "catalog" => CatalogTypeOK)
  <2>1. ~(focus = "catalog") /\ [OfficeNext]_officeVars => ~(focus = "catalog")'
    BY FocusStays
  <2> QED
    BY <2>1, OfficeIsItsPart, CatalogTypesCorrect, PTL DEF OfficeSpec
<1>7. OfficeSpec => [](focus = "fees" => FeesTypeOK)
  <2>1. ~(focus = "fees") /\ [OfficeNext]_officeVars => ~(focus = "fees")'
    BY FocusStays
  <2> QED
    BY <2>1, OfficeIsItsPart, FeesTypesCorrect, PTL DEF OfficeSpec
<1>8. OfficeSpec => [](focus = "registry" => RegistryTypeOK)
  <2>1. ~(focus = "registry") /\ [OfficeNext]_officeVars => ~(focus = "registry")'
    BY FocusStays
  <2> QED
    BY <2>1, OfficeIsItsPart, RegistryTypesCorrect, PTL DEF OfficeSpec
<1>9. OfficeSpec => [](focus = "media" => MediaTypeOK)
  <2>1. ~(focus = "media") /\ [OfficeNext]_officeVars => ~(focus = "media")'
    BY FocusStays
  <2> QED
    BY <2>1, OfficeIsItsPart, MediaTypesCorrect, PTL DEF OfficeSpec
<1>10. OfficeSpec => [](focus = "chats" => ChatTypeOK)
  <2>1. ~(focus = "chats") /\ [OfficeNext]_officeVars => ~(focus = "chats")'
    BY FocusStays
  <2> QED
    BY <2>1, OfficeIsItsPart, ChatTypesCorrect, PTL DEF OfficeSpec
<1>11. /\ focus \in Foci
       /\ focus \in {"generator", "timetable"} => TimetableTypeOK
       /\ focus = "marks" => MarkTypeOK
       /\ focus = "life" => LifeTypeOK
       /\ focus = "catalog" => CatalogTypeOK
       /\ focus = "fees" => FeesTypeOK
       /\ focus = "registry" => RegistryTypeOK
       /\ focus = "media" => MediaTypeOK
       /\ focus = "chats" => ChatTypeOK
       => OfficeTypeOK
  BY DEF OfficeTypeOK
<1> QED
  BY <1>2, <1>3, <1>4, <1>5, <1>6, <1>7, <1>8, <1>9, <1>10, <1>11, PTL

\* A part that rests: what it promises of its tables holds of those it began with,
\* and nothing has been done in it yet.
Resting ==
  /\ focus \in Foci
  /\ focus # "marks" => marks = <<>>
  /\ focus # "life" => LifeRowsFit /\ ClubsFit /\ settled = {}
  /\ focus # "fees" => invoices = {}
  /\ focus # "registry" => ListsStayWhole
  /\ focus # "media" => files = {} /\ media = {}
  /\ focus # "chats" => replies = {}

\* Rows and lists that stay as they are keep what is true of them.
LEMMA LifeRowsRest == LifeRowsFit /\ ClubsFit /\ rows' = rows => LifeRowsFit' /\ ClubsFit'
  BY DEF LifeRowsFit, ClubsFit, ClubOf, Left

LEMMA ListsRest == ListsStayWhole /\ listed' = listed => ListsStayWhole'
  BY DEF ListsStayWhole, EntriesFor, Doubled

LEMMA OfficeRests == OfficeSpec => []Resting
<1>1. OfficeInit => Resting
  <2> SUFFICES ASSUME OfficeInit PROVE Resting
    OBVIOUS
  <2>1. LifeInv /\ ListInv
    BY OfficeStarts, LifeInitial, ListsInitial
  <2>2. ListsStayWhole
    BY <2>1 DEF ListInv, ListsStayWhole, Closed
  <2> QED
    BY <2>1, <2>2, OfficeStarts DEF LifeInv, Resting, MarkInit, LifeInit, FeesInit, MediaInit, ChatInit
<1>2. Resting /\ [OfficeNext]_officeVars => Resting'
  <2> SUFFICES ASSUME Resting, [OfficeNext]_officeVars PROVE Resting'
    OBVIOUS
  <2>1. UNCHANGED focus
    BY FocusStays
  <2>2. /\ focus # "marks" => UNCHANGED marks
        /\ focus # "life" => UNCHANGED <<rows, settled>>
        /\ focus # "fees" => UNCHANGED invoices
        /\ focus # "registry" => UNCHANGED listed
        /\ focus # "media" => UNCHANGED <<files, media>>
        /\ focus # "chats" => UNCHANGED replies
    BY DEF OfficeNext, officeVars, markVars, lifeVars, feesVars, registryVars, mediaVars, chatVars
  <2> QED
    BY <2>1, <2>2, LifeRowsRest, ListsRest DEF Resting
<1> QED
  BY <1>1, <1>2, PTL DEF OfficeSpec

\* The sessions serve requests to the part the office is about.
LEMMA OfficeServes ==
  OfficeTypeOK =>
    /\ focus \notin {"generator", "timetable"} => \A s \in Sessions : ~Working(s, "generate") /\ ~Working(s, "swap")
    /\ focus # "chats" => \A s \in Sessions : ~Working(s, "chat")
<1> SUFFICES ASSUME OfficeTypeOK, NEW s \in Sessions
             PROVE  /\ focus \notin {"generator", "timetable"} => job[s].kind \notin {"generate", "swap"}
                    /\ focus # "chats" => job[s].kind # "chat"
  BY DEF Working
<1>1. CASE focus \in {"generator", "timetable"}
  BY <1>1 DEF OfficeTypeOK, TimetableTypeOK, NoJob, GenerateJobs, SwapJobs, UpdateJobs
<1>2. CASE focus = "marks"
  BY <1>2 DEF OfficeTypeOK, MarkTypeOK, NoJob, CorrectJobs, DeskJobs, ExamJobs
<1>3. CASE focus = "life"
  BY <1>3 DEF OfficeTypeOK, LifeTypeOK, NoJob, VerifyJobs, DeleteJobs, YearJobs, Working
<1>4. CASE focus = "catalog"
  BY <1>4 DEF OfficeTypeOK, CatalogTypeOK, NoJob, NewJobs, FillJobs, TakeJobs, AmountJobs
<1>5. CASE focus = "fees"
  BY <1>5 DEF OfficeTypeOK, FeesTypeOK, NoJob, Working
<1>6. CASE focus = "registry"
  BY <1>6 DEF OfficeTypeOK, RegistryTypeOK, NoJob, Working
<1>7. CASE focus = "media"
  BY <1>7 DEF OfficeTypeOK, MediaTypeOK, NoJob, Working
<1>8. CASE focus = "chats"
  BY <1>8 DEF OfficeTypeOK, ChatTypeOK, NoJob, Working
<1> QED
  BY <1>1, <1>2, <1>3, <1>4, <1>5, <1>6, <1>7, <1>8 DEF OfficeTypeOK, Foci

\* What the other parts promise holds of them while they rest.
LEMMA TimetableRests ==
  OfficeTypeOK /\ focus \notin {"generator", "timetable"} => LessonsFit /\ LimitsPassedByDoubles /\ SpacingKept
  BY OfficeServes DEF Generating, LessonsFit, LimitsPassedByDoubles, SpacingKept

LEMMA MarksRest == Resting /\ focus # "marks" => RecordedOnce /\ CorrectionsFit /\ ReportsAgree
<1> SUFFICES ASSUME Resting, focus # "marks" PROVE RecordedOnce /\ CorrectionsFit /\ ReportsAgree
  OBVIOUS
<1>1. Held = {}
  BY DEF Resting, Held
<1>2. \A a \in Students : /\ {m \in Held : marks[m].student = a} = {}
                         /\ \A e \in Exams : MarksOf(a, e) = {}
                         /\ \A n \in ExamNames : MarksNamed(a, n) = {}
  BY <1>1 DEF MarksOf, MarksNamed
<1>3. ReportsAgree
  BY <1>2 DEF ReportsAgree, CardAgrees, ExamReportsAgree
<1> QED
  BY <1>1, <1>3 DEF RecordedOnce, CorrectionsFit

LEMMA LifeRests == Resting /\ focus # "life" => OneActiveYear /\ LeaderboardsAgree
  BY LeaderboardSums
  DEF Resting, OneActiveYear, LifeRowsFit, ClubsFit, ClubOf, Left, Table

LEMMA FeesRest == Resting /\ focus # "fees" => InvoiceAddsUp
  BY DEF Resting, InvoiceAddsUp

LEMMA MediaRests == Resting /\ focus # "media" => StoresAgree
  BY DEF Resting, StoresAgree

LEMMA ChatsRest == Resting /\ OfficeTypeOK /\ focus # "chats" => AnswersMatchCalls
  BY OfficeServes DEF Resting, AnswersMatchCalls

\* The safety of the office: what each part promises when it is alone, it keeps
\* among the others.
THEOREM OfficeStatesCorrect ==
  OfficeSpec => /\ [](LessonsFit /\ LimitsPassedByDoubles /\ SpacingKept)
                /\ [](RecordedOnce /\ CorrectionsFit /\ ReportsAgree)
                /\ [](OneActiveYear /\ LeaderboardsAgree)
                /\ []InvoiceAddsUp
                /\ []ListsStayWhole
                /\ []StoresAgree
                /\ []AnswersMatchCalls
<1>1. OfficeSpec => [](LessonsFit /\ LimitsPassedByDoubles /\ SpacingKept)
  <2>1. Resting /\ OfficeTypeOK /\ focus \notin {"generator", "timetable"} => (LessonsFit /\ LimitsPassedByDoubles /\ SpacingKept)
    BY TimetableRests
  <2>2. (focus \in {"generator", "timetable"} \/ focus \notin {"generator", "timetable"}) /\ (focus \notin {"generator", "timetable"} /\ [OfficeNext]_officeVars => (focus \notin {"generator", "timetable"})')
    BY FocusStays
  <2> QED
    BY <2>1, <2>2, OfficeRests, OfficeTypesCorrect, OfficeIsItsPart, WeeksCorrect, LimitsCorrect, SpacingCorrect, PTL DEF OfficeSpec
<1>2. OfficeSpec => [](RecordedOnce /\ CorrectionsFit /\ ReportsAgree)
  <2>1. Resting /\ OfficeTypeOK /\ focus # "marks" => (RecordedOnce /\ CorrectionsFit /\ ReportsAgree)
    BY MarksRest
  <2>2. (focus = "marks" \/ focus # "marks") /\ (focus # "marks" /\ [OfficeNext]_officeVars => (focus # "marks")')
    BY FocusStays
  <2> QED
    BY <2>1, <2>2, OfficeRests, OfficeTypesCorrect, OfficeIsItsPart, RecordingsCorrect, CorrectionsCorrect, ReportsCorrect, PTL DEF OfficeSpec
<1>3. OfficeSpec => [](OneActiveYear /\ LeaderboardsAgree)
  <2>1. Resting /\ OfficeTypeOK /\ focus # "life" => (OneActiveYear /\ LeaderboardsAgree)
    BY LifeRests
  <2>2. (focus = "life" \/ focus # "life") /\ (focus # "life" /\ [OfficeNext]_officeVars => (focus # "life")')
    BY FocusStays
  <2> QED
    BY <2>1, <2>2, OfficeRests, OfficeTypesCorrect, OfficeIsItsPart, OneYearCorrect, LeaderboardsCorrect, PTL DEF OfficeSpec
<1>4. OfficeSpec => []InvoiceAddsUp
  <2>1. Resting /\ OfficeTypeOK /\ focus # "fees" => InvoiceAddsUp
    BY FeesRest
  <2>2. (focus = "fees" \/ focus # "fees") /\ (focus # "fees" /\ [OfficeNext]_officeVars => (focus # "fees")')
    BY FocusStays
  <2> QED
    BY <2>1, <2>2, OfficeRests, OfficeTypesCorrect, OfficeIsItsPart, InvoicesAddUp, PTL DEF OfficeSpec
<1>5. OfficeSpec => []ListsStayWhole
  <2>1. Resting /\ OfficeTypeOK /\ focus # "registry" => ListsStayWhole
    BY DEF Resting
  <2>2. (focus = "registry" \/ focus # "registry") /\ (focus # "registry" /\ [OfficeNext]_officeVars => (focus # "registry")')
    BY FocusStays
  <2> QED
    BY <2>1, <2>2, OfficeRests, OfficeTypesCorrect, OfficeIsItsPart, ListsCorrect, PTL DEF OfficeSpec
<1>6. OfficeSpec => []StoresAgree
  <2>1. Resting /\ OfficeTypeOK /\ focus # "media" => StoresAgree
    BY MediaRests
  <2>2. (focus = "media" \/ focus # "media") /\ (focus # "media" /\ [OfficeNext]_officeVars => (focus # "media")')
    BY FocusStays
  <2> QED
    BY <2>1, <2>2, OfficeRests, OfficeTypesCorrect, OfficeIsItsPart, StoresCorrect, PTL DEF OfficeSpec
<1>7. OfficeSpec => []AnswersMatchCalls
  <2>1. Resting /\ OfficeTypeOK /\ focus # "chats" => AnswersMatchCalls
    BY ChatsRest
  <2>2. (focus = "chats" \/ focus # "chats") /\ (focus # "chats" /\ [OfficeNext]_officeVars => (focus # "chats")')
    BY FocusStays
  <2> QED
    BY <2>1, <2>2, OfficeRests, OfficeTypesCorrect, OfficeIsItsPart, AnswersCorrect, PTL DEF OfficeSpec
<1> QED
  BY <1>1, <1>2, <1>3, <1>4, <1>5, <1>6, <1>7, PTL

\* A step of the office changes the tables of one part.
LEMMA OthersRest ==
  [OfficeNext]_officeVars =>
    /\ focus \notin {"generator", "timetable"} => UNCHANGED timetableVars
    /\ focus # "marks" => UNCHANGED markVars
    /\ focus # "life" => UNCHANGED lifeVars
    /\ focus # "catalog" => UNCHANGED catalogVars
    /\ focus # "fees" => UNCHANGED feesVars
    /\ focus # "registry" => UNCHANGED registryVars
  BY DEF OfficeNext, officeVars

\* No teacher gets into two places, and no request commits, while their part rests.
LEMMA ClashesRest == UNCHANGED timetableVars => Clashes' = Clashes
  BY DEF timetableVars, Clashes, ActiveEntries, TeacherConflicts, ScheduleForDay, TeacherTimetable

LEMMA ShelfRests ==
  UNCHANGED catalogVars =>
    /\ \A k \in ShelfIds : ContentOf(k)' = ContentOf(k)
    /\ \A s \in Sessions : ~Commits(s)
  BY DEF catalogVars, ContentOf, Commits

\* The office is about a part for good, or never.
LEMMA Elsewhere ==
  OfficeSpec => /\ focus \in {"generator", "timetable"} \/ [](focus \notin {"generator", "timetable"})
                /\ focus = "marks" \/ [](focus # "marks")
                /\ focus = "life" \/ [](focus # "life")
                /\ focus = "catalog" \/ [](focus # "catalog")
                /\ focus = "fees" \/ [](focus # "fees")
                /\ focus = "registry" \/ [](focus # "registry")
                /\ focus = "media" \/ [](focus # "media")
                /\ focus = "chats" \/ [](focus # "chats")
<1>1. OfficeSpec => focus \in {"generator", "timetable"} \/ [](focus \notin {"generator", "timetable"})
  <2>1. (focus \in {"generator", "timetable"} \/ focus \notin {"generator", "timetable"}) /\ (focus \notin {"generator", "timetable"} /\ [OfficeNext]_officeVars => (focus \notin {"generator", "timetable"})')
    BY FocusStays
  <2> QED
    BY <2>1, PTL DEF OfficeSpec
<1>2. OfficeSpec => focus = "marks" \/ [](focus # "marks")
  <2>1. (focus = "marks" \/ focus # "marks") /\ (focus # "marks" /\ [OfficeNext]_officeVars => (focus # "marks")')
    BY FocusStays
  <2> QED
    BY <2>1, PTL DEF OfficeSpec
<1>3. OfficeSpec => focus = "life" \/ [](focus # "life")
  <2>1. (focus = "life" \/ focus # "life") /\ (focus # "life" /\ [OfficeNext]_officeVars => (focus # "life")')
    BY FocusStays
  <2> QED
    BY <2>1, PTL DEF OfficeSpec
<1>4. OfficeSpec => focus = "catalog" \/ [](focus # "catalog")
  <2>1. (focus = "catalog" \/ focus # "catalog") /\ (focus # "catalog" /\ [OfficeNext]_officeVars => (focus # "catalog")')
    BY FocusStays
  <2> QED
    BY <2>1, PTL DEF OfficeSpec
<1>5. OfficeSpec => focus = "fees" \/ [](focus # "fees")
  <2>1. (focus = "fees" \/ focus # "fees") /\ (focus # "fees" /\ [OfficeNext]_officeVars => (focus # "fees")')
    BY FocusStays
  <2> QED
    BY <2>1, PTL DEF OfficeSpec
<1>6. OfficeSpec => focus = "registry" \/ [](focus # "registry")
  <2>1. (focus = "registry" \/ focus # "registry") /\ (focus # "registry" /\ [OfficeNext]_officeVars => (focus # "registry")')
    BY FocusStays
  <2> QED
    BY <2>1, PTL DEF OfficeSpec
<1>7. OfficeSpec => focus = "media" \/ [](focus # "media")
  <2>1. (focus = "media" \/ focus # "media") /\ (focus # "media" /\ [OfficeNext]_officeVars => (focus # "media")')
    BY FocusStays
  <2> QED
    BY <2>1, PTL DEF OfficeSpec
<1>8. OfficeSpec => focus = "chats" \/ [](focus # "chats")
  <2>1. (focus = "chats" \/ focus # "chats") /\ (focus # "chats" /\ [OfficeNext]_officeVars => (focus # "chats")')
    BY FocusStays
  <2> QED
    BY <2>1, PTL DEF OfficeSpec
<1> QED
  BY <1>1, <1>2, <1>3, <1>4, <1>5, <1>6, <1>7, <1>8, PTL

\* What no step may do: no step of another part does it either.
THEOREM OfficeStepsCorrect ==
  OfficeSpec => /\ SwapsMakeNoClash
                /\ DeletedExamsStay
                /\ VerifiedStay
                /\ LastItemStays /\ NamesStayDistinct /\ DeletionsKeepSelling
                /\ ClassInvoicedWhole
                /\ LeaversStay
<1>1. OfficeSpec => SwapsMakeNoClash
  <2>1. UNCHANGED timetableVars
        => [\A s \in Sessions :
              s \in alone /\ Working(s, "swap") /\ job[s].phase = 3 /\ job'[s] = NoJob
                => Clashes' \subseteq Clashes]_<<job, timetableVars>>
    BY ClashesRest
  <2> QED
    BY <2>1, OthersRest, Elsewhere, OfficeIsItsPart, SwapsCorrect, PTL
    DEF OfficeSpec, SwapsMakeNoClash
<1>2. OfficeSpec => DeletedExamsStay
  BY OthersRest, Elsewhere, OfficeIsItsPart, DeletedExamsCorrect, PTL
    DEF OfficeSpec, DeletedExamsStay
<1>3. OfficeSpec => VerifiedStay
  <2>1. UNCHANGED lifeVars => UNCHANGED rows
    BY DEF lifeVars
  <2> QED
    BY <2>1, OthersRest, Elsewhere, OfficeIsItsPart, VerifiedCorrect, PTL
    DEF OfficeSpec, VerifiedStay
<1>4. OfficeSpec => LastItemStays
  <2>1. UNCHANGED catalogVars
        => [\A k \in OnShelf("package") : ContentOf(k) # {} /\ ContentOf(k)' = {}
              => \E s \in Sessions : Commits(s) /\ Working(s, "take") /\ s \notin alone]_<<content, job>>
    BY ShelfRests DEF OnShelf
  <2> QED
    BY <2>1, OthersRest, Elsewhere, OfficeIsItsPart, LastItemCorrect, PTL
    DEF OfficeSpec, LastItemStays
<1>5. OfficeSpec => NamesStayDistinct
  <2>1. UNCHANGED catalogVars
        => [\A i, k \in ShelfIds :
              (/\ shelf'[i].kind = shelf'[k].kind /\ shelf'[i].kind \in {"category", "product"} /\ i # k
               /\ shelf'[i].on /\ shelf'[k].on /\ shelf'[i].name = shelf'[k].name)
              => \/ shelf[i].kind = shelf[k].kind /\ shelf[i].on /\ shelf[k].on /\ shelf[i].name = shelf[k].name
                 \/ \E s \in Sessions :
                      Commits(s) /\ (s \notin alone \/ (Working(s, "edit") /\ "on" \in DOMAIN job[s].change))]_<<shelf, job>>
    BY DEF catalogVars
  <2> QED
    BY <2>1, OthersRest, Elsewhere, OfficeIsItsPart, NamesCorrect, PTL
    DEF OfficeSpec, NamesStayDistinct
<1>6. OfficeSpec => DeletionsKeepSelling
  <2>1. UNCHANGED catalogVars
        => [\A s \in Sessions : Commits(s) /\ Working(s, "retire") /\ s \in alone
              => /\ \A k \in OnShelf("package") \ job[s].ids : Purchasable(k) => Purchasable(k)'
                 /\ \A i \in Offered("product")' : shelf'[i].category \notin job[s].ids]_<<shelf, job>>
    BY ShelfRests
  <2> QED
    BY <2>1, OthersRest, Elsewhere, OfficeIsItsPart, DeletionsCorrect, PTL
    DEF OfficeSpec, DeletionsKeepSelling
<1>7. OfficeSpec => ClassInvoicedWhole
  <2>1. UNCHANGED feesVars => invoices' = invoices
    BY DEF feesVars
  <2>2. UNCHANGED feesVars
        => [LET new == invoices' \ invoices
            IN new # {} => \E s \in Sessions :
                 /\ Working(s, "invoice") /\ {i.student : i \in new} = job[s].students
                 /\ \A i \in new, k \in invoices' : NumberOn(i) = NumberOn(k) => i = k
                 /\ s \in alone => \A i \in new : {x.component : x \in i.items} = Billable(i.student)]_<<job, feesVars>>
    BY <2>1
  <2> QED
    BY <2>2, OthersRest, Elsewhere, OfficeIsItsPart, ClassesInvoicedWhole, PTL
    DEF OfficeSpec, ClassInvoicedWhole
<1>8. OfficeSpec => LeaversStay
  <2>1. UNCHANGED registryVars => UNCHANGED registry
    BY DEF registryVars
  <2> QED
    BY <2>1, OthersRest, Elsewhere, OfficeIsItsPart, LeaversCorrect, PTL
    DEF OfficeSpec, LeaversStay
<1> QED
  BY <1>1, <1>2, <1>3, <1>4, <1>5, <1>6, <1>7, <1>8, PTL
=============================================================================
