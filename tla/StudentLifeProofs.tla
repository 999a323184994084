-------------------------- MODULE StudentLifeProofs --------------------------
(***************************************************************************)
(* Proofs about StudentLife: verified achievements stay verified, members and  *)
(* activities keep their club, one year is active, however requests overlap,    *)
(* and the leaderboards count the same scores.                                *)
(*                                                                         *)
(* Ids are not given out twice, so a request that wakes up finds the row it      *)
(* read, a later state of it, or no row at all: never one of another table.       *)
(* What it may write then depends on its copy, and LifeJobFits says what that is.     *)
(* YearsInv adds what set-active requests know of the other years; the             *)
(* leaderboards are a matter of sums over the rows as they are (SumTheorems).       *)
(***************************************************************************)
EXTENDS StudentLife, SumTheorems, TLAPS

AnyRows == LifeRows \cup {NoRow, GoneRow}
LifePuts == [kind : {"put"}, id : RowIds, copy : LifeRows, change : {c.fields : c \in PutBodies}]
LifeJobs == {NoJob} \cup Joins \cup LifePuts \cup VerifyJobs \cup DeleteJobs \cup YearJobs

LifeRowsFit == rows \in [RowIds -> AnyRows]
LifeJobsFit == job \in [Sessions -> LifeJobs]
HistoryFits == writes \in 0 .. MaxWrites /\ settled \subseteq Sessions \cup {Everyone}

\* Points are given with the verification.
PointsFit == \A i \in RowIds : rows[i].table = "achievement" /\ ~rows[i].verified => rows[i].points = 0

ClubOf(f, i) == f[i].table \in {"member", "activity"} => f[i].club \in RowIds /\ f[f[i].club].table = "club"
Left(r) == r.table = "member" => ~(r.exited /\ r.status = "active")
ClubsFit == \A i \in RowIds : ClubOf(rows, i) /\ Left(rows[i])

\* What request j knows of the rows f it is going to write.
LifeJobFits(j, f) ==
  /\ j.kind = "put" => /\ BodyFits(j.copy.table, j.change)
                       /\ f[j.id].table \in {j.copy.table, "gone"}
  /\ j.kind = "verify" => /\ ~j.copy.verified /\ j.copy.points = 0
                          /\ f[j.id].table \in {"achievement", "gone"}
  /\ j.kind = "drop" => f[j.id].table \in {"achievement", "gone"}
  /\ j.kind = "year" => f[j.id].table = "year" /\ \A i \in j.others : f[i].table = "year"
LifeRequestsFit == \A s \in Sessions : LifeJobFits(job[s], rows)

LifeInv == LifeRowsFit /\ LifeJobsFit /\ HistoryFits /\ PointsFit /\ ClubsFit /\ LifeRequestsFit

\* What a step does to the rows.  A row stays in its table or is deleted; years are not.
TableStays(i) ==
  rows[i] # NoRow => \/ rows'[i].table = rows[i].table
                     \/ rows'[i] = GoneRow /\ rows[i].table # "year"
Verified(i) ==
  rows[i].table = "achievement" /\ rows[i].verified /\ rows'[i] # GoneRow
    => rows'[i].verified /\ (rows[i].points > 0 => rows'[i].points > 0)
LifeRowsStep ==
  LifeRowsFit' /\ PointsFit' /\ ClubsFit' /\ \A i \in RowIds : TableStays(i) /\ Verified(i)

-----------------------------------------------------------------------------
(* Rows. *)

\* The table of a row says which fields it has.
LEMMA LifeRowTables ==
  ASSUME NEW r \in LifeRows
  PROVE  /\ r.table = "club" => r \in Clubs
         /\ r.table = "member" => r \in Members
         /\ r.table = "activity" => r \in Activities
         /\ r.table = "rule" => r \in Rules
         /\ r.table = "achievement" => r \in Achievements
         /\ r.table = "year" => r \in Years
         /\ r.table \in {"club", "member", "activity", "rule", "achievement", "year"}
BY DEF LifeRows, Clubs, Members, Activities, Rules, Achievements, Years

LEMMA RowKinds ==
  ASSUME LifeRowsFit, NEW i \in RowIds
  PROVE  /\ rows[i] \in LifeRows \/ rows[i] = NoRow \/ rows[i] = GoneRow
         /\ rows[i].table \notin {"none", "gone"} => rows[i] \in LifeRows
         /\ rows[i].table = "none" <=> rows[i] = NoRow
         /\ rows[i].table = "gone" <=> rows[i] = GoneRow
<1>1. rows[i] \in LifeRows \/ rows[i] = NoRow \/ rows[i] = GoneRow
  BY DEF LifeRowsFit, AnyRows
<1>2. rows[i] \in LifeRows => rows[i].table \in {"club", "member", "activity", "rule", "achievement", "year"}
  BY LifeRowTables
<1> QED
  BY <1>1, <1>2 DEF NoRow, GoneRow

LEMMA LifeJobKinds ==
  ASSUME NEW j \in LifeJobs
  PROVE  /\ j.kind = "join" => j \in Joins
         /\ j.kind = "put" => j \in LifePuts
         /\ j.kind = "verify" => j \in VerifyJobs
         /\ j.kind = "drop" => j \in DeleteJobs
         /\ j.kind = "year" => j \in YearJobs
         /\ j.kind = "none" <=> j = NoJob
BY DEF LifeJobs, Joins, LifePuts, VerifyJobs, DeleteJobs, YearJobs, NoJob

\* One row is written: it keeps its table or goes, and what refers to it stays true.
LEMMA OneLifeRow ==
  ASSUME LifeInv, NEW i \in RowIds, NEW r \in AnyRows, rows' = [rows EXCEPT ![i] = r],
         \/ rows[i] = NoRow
         \/ r.table = rows[i].table
         \/ r = GoneRow /\ rows[i].table \notin {"year", "club"},
         r.table = "achievement" /\ ~r.verified => r.points = 0,
         r.table \in {"member", "activity"} => r.club \in Table("club"),
         Left(r),
         rows[i].table = "achievement" /\ rows[i].verified /\ r # GoneRow
           => r.verified /\ (rows[i].points > 0 => r.points > 0)
  PROVE  LifeRowsStep
<1>1. LifeRowsFit /\ PointsFit /\ ClubsFit
  BY DEF LifeInv
<1>2. rows'[i] = r /\ \A k \in RowIds \ {i} : rows'[k] = rows[k]
  BY <1>1 DEF LifeRowsFit
<1>3. LifeRowsFit'
  BY <1>1 DEF LifeRowsFit
<1>4. PointsFit'
  BY <1>1, <1>2 DEF PointsFit
<1>5. \A k \in RowIds : rows[k].table = "club" => rows'[k].table = "club"
  <2>1. rows[i].table = "club" => r.table = "club"
    BY <1>1, RowKinds
  <2> QED
    BY <1>2, <2>1
<1>6. ASSUME NEW k \in RowIds PROVE ClubOf(rows', k) /\ Left(rows'[k])
  <2>1. CASE k = i
    BY <1>2, <1>5, <2>1 DEF ClubOf, Table
  <2>2. CASE k # i
    BY <1>1, <1>2, <1>5, <2>2 DEF ClubOf, ClubsFit
  <2> QED
    BY <2>1, <2>2
<1>7. ClubsFit'
  BY <1>6 DEF ClubsFit, ClubOf, Left
<1>8. \A k \in RowIds : TableStays(k) /\ Verified(k)
  <2>1. TableStays(i) /\ Verified(i)
    BY <1>2 DEF TableStays, Verified
  <2>2. \A k \in RowIds \ {i} : TableStays(k) /\ Verified(k)
    BY <1>2 DEF TableStays, Verified
  <2> QED
    BY <2>1, <2>2
<1> QED
  BY <1>3, <1>4, <1>7, <1>8 DEF LifeRowsStep

\* Years are written, any number of them.
LEMMA YearsOnly ==
  ASSUME LifeInv, NEW on \in [RowIds -> BOOLEAN], NEW Y \in SUBSET Table("year"),
         rows' = [i \in RowIds |-> IF i \in Y THEN [rows[i] EXCEPT !.on = on[i]] ELSE rows[i]]
  PROVE  LifeRowsStep
<1>1. LifeRowsFit /\ PointsFit /\ ClubsFit
  BY DEF LifeInv
<1>2. ASSUME NEW i \in RowIds
      PROVE  rows'[i] = rows[i] \/ (rows[i] \in Years /\ rows'[i] \in Years)
  <2>1. CASE i \in Y
    <3>1. rows[i] \in Years
      BY <1>1, <2>1, RowKinds, LifeRowTables DEF Table
    <3> QED
      BY <2>1, <3>1 DEF Years
  <2> QED
    BY <2>1
<1>3. \A i \in RowIds : rows'[i] \in AnyRows /\ rows'[i].table = rows[i].table
  BY <1>1, <1>2 DEF LifeRowsFit, AnyRows, LifeRows, Years
<1>4. LifeRowsFit'
  BY <1>3 DEF LifeRowsFit
<1>5. \A i \in RowIds : rows[i].table # "year" => rows'[i] = rows[i]
  BY <1>2 DEF Years
<1>6. PointsFit'
  BY <1>1, <1>3, <1>5 DEF PointsFit
<1>7. ClubsFit'
  BY <1>1, <1>3, <1>5 DEF ClubsFit, ClubOf, Left
<1> QED
  BY <1>3, <1>4, <1>5, <1>6, <1>7 DEF LifeRowsStep, TableStays, Verified

\* Nothing is written.
LEMMA RowsUnchanged ==
  ASSUME LifeInv, rows' = rows
  PROVE  LifeRowsStep
BY DEF LifeInv, LifeRowsStep, LifeRowsFit, PointsFit, ClubsFit, ClubOf, Left, TableStays, Verified

-----------------------------------------------------------------------------
(* Requests. *)

\* A request keeps fitting its rows when those stay in their table.
LEMMA LifeFitsStay ==
  ASSUME LifeInv, \A i \in RowIds : TableStays(i), NEW j \in LifeJobs, LifeJobFits(j, rows)
  PROVE  LifeJobFits(j, rows')
<1>1. ASSUME NEW i \in RowIds, NEW t, t # "none", rows[i].table \in {t, "gone"}
      PROVE  rows'[i].table \in {t, "gone"}
  <2>1. rows[i] # NoRow
    BY <1>1 DEF NoRow
  <2> QED
    BY <1>1, <2>1 DEF TableStays, GoneRow
<1>2. ASSUME NEW i \in RowIds, rows[i].table = "year" PROVE rows'[i].table = "year"
  BY <1>2 DEF TableStays, NoRow
<1>3. j.kind = "put" => LifeJobFits(j, rows')
  <2> SUFFICES ASSUME j.kind = "put" PROVE LifeJobFits(j, rows')
    OBVIOUS
  <2>1. j.id \in RowIds /\ j.copy.table # "none"
    BY LifeJobKinds, LifeRowTables DEF LifePuts
  <2> QED
    BY <1>1, <2>1 DEF LifeJobFits
<1>4. j.kind \in {"verify", "drop"} => LifeJobFits(j, rows')
  <2> SUFFICES ASSUME j.kind \in {"verify", "drop"} PROVE LifeJobFits(j, rows')
    OBVIOUS
  <2>1. j.id \in RowIds
    BY LifeJobKinds DEF VerifyJobs, DeleteJobs
  <2> QED
    BY <1>1, <2>1 DEF LifeJobFits
<1>5. j.kind = "year" => LifeJobFits(j, rows')
  <2> SUFFICES ASSUME j.kind = "year" PROVE LifeJobFits(j, rows')
    OBVIOUS
  <2>1. j.id \in RowIds /\ j.others \subseteq RowIds
    BY LifeJobKinds DEF YearJobs
  <2> QED
    BY <1>2, <2>1 DEF LifeJobFits
<1> QED
  BY <1>3, <1>4, <1>5 DEF LifeJobFits

\* What is left to show of a step, when the rows are done.
LEMMA LifeRequestStep ==
  ASSUME LifeInv, LifeRowsStep, HistoryFits', NEW s \in Sessions, NEW j \in LifeJobs,
         job' = [job EXCEPT ![s] = j], LifeJobFits(j, rows)
  PROVE  LifeInv'
<1>1. LifeJobsFit /\ LifeRequestsFit
  BY DEF LifeInv
<1>2. LifeJobsFit' /\ job'[s] = j /\ \A k \in Sessions \ {s} : job'[k] = job[k]
  BY <1>1 DEF LifeJobsFit
<1>3. \A k \in Sessions : job'[k] \in LifeJobs /\ LifeJobFits(job'[k], rows)
  BY <1>1, <1>2 DEF LifeRequestsFit, LifeJobsFit
<1>4. \A k \in Sessions : LifeJobFits(job'[k], rows')
  BY <1>3, LifeFitsStay DEF LifeRowsStep
<1> QED
  BY <1>2, <1>4 DEF LifeInv, LifeRowsStep, LifeRequestsFit

\* A step of no request.
LEMMA LifeTableStep ==
  ASSUME LifeInv, LifeRowsStep, HistoryFits', job' = job
  PROVE  LifeInv'
<1>1. LifeJobsFit' /\ \A k \in Sessions : job'[k] \in LifeJobs /\ LifeJobFits(job'[k], rows)
  BY DEF LifeInv, LifeJobsFit, LifeRequestsFit
<1>2. \A k \in Sessions : LifeJobFits(job'[k], rows')
  BY <1>1, LifeFitsStay DEF LifeRowsStep
<1> QED
  BY <1>1, <1>2 DEF LifeInv, LifeRowsStep, LifeRequestsFit

LEMMA NoLifeToFit == NoJob \in LifeJobs /\ \A f : LifeJobFits(NoJob, f)
BY DEF LifeJobs, LifeJobFits, NoJob

\* A request ends.
LEMMA LifeEndStep ==
  ASSUME LifeInv, LifeRowsStep, HistoryFits', NEW s \in Sessions, EndJob(s)
  PROVE  LifeInv'
BY LifeRequestStep, NoLifeToFit DEF EndJob

\* A request begins with what it has read.
LEMMA BeginStep ==
  ASSUME LifeInv, rows' = rows, HistoryFits', NEW s \in Sessions, NEW j \in LifeJobs, Begin(s, j), LifeJobFits(j, rows)
  PROVE  LifeInv' /\ LifeRowsStep
BY LifeRequestStep, RowsUnchanged DEF Begin

LEMMA LifeJobOf ==
  ASSUME LifeInv, NEW s \in Sessions
  PROVE  job[s] \in LifeJobs /\ LifeJobFits(job[s], rows)
BY DEF LifeInv, LifeJobsFit, LifeRequestsFit

-----------------------------------------------------------------------------
(* What a commit of the ORM makes of a row. *)

LEMMA LifeFlushedField ==
  ASSUME NEW r, NEW c, NEW h, NEW f \in DOMAIN r
  PROVE  Flushed(r, c, h)[f] = r[f] \/ (f \in DOMAIN h /\ Flushed(r, c, h)[f] = h[f])
BY DEF Flushed

\* An edit gives a row of the same table, of which it does not write the fields that
\* no body has.
LEMMA FlushedEdit ==
  ASSUME NEW r \in LifeRows, NEW c, NEW h, BodyFits(r.table, h)
  PROVE  /\ Flushed(r, c, h) \in LifeRows /\ Flushed(r, c, h).table = r.table
         /\ r.table \in {"member", "activity"} => Flushed(r, c, h).club = r.club
         /\ r.table = "achievement" => /\ Flushed(r, c, h).verified = r.verified
                                       /\ Flushed(r, c, h).points = r.points
<1> DEFINE q == Flushed(r, c, h)
<1>1. q = [f \in DOMAIN r |-> q[f]] /\ DOMAIN q = DOMAIN r
  BY DEF Flushed
<1>2. \A f \in DOMAIN r : q[f] = r[f] \/ (f \in DOMAIN h /\ q[f] = h[f])
  BY LifeFlushedField
<1> HIDE DEF q
<1>3. CASE r \in Clubs
  <2>1. r.table = "club" /\ DOMAIN r = {"table", "capacity", "count", "open"} /\ r.capacity \in Nat \ {0}
        /\ r.count \in Nat /\ r.open \in BOOLEAN
    BY <1>3 DEF Clubs
  <2>2. q.table = "club" /\ q.count = r.count
    BY <1>2, <2>1 DEF BodyFits, Assignable
  <2>3. q.capacity \in Nat \ {0} /\ q.open \in BOOLEAN
    BY <1>2, <2>1 DEF BodyFits, Assignable
  <2>4. q = [table |-> q.table, capacity |-> q.capacity, count |-> q.count, open |-> q.open]
    BY <1>1, <2>1
  <2>5. q \in Clubs
    BY <2>1, <2>2, <2>3, <2>4 DEF Clubs
  <2> QED
    BY <2>1, <2>2, <2>5 DEF LifeRows, q
<1>4. CASE r \in Members
  <2>1. r.table = "member" /\ DOMAIN r = {"table", "club", "student", "status", "score", "exited"} /\ r.club \in RowIds
        /\ r.student \in Students /\ r.status \in {"active", "inactive"} /\ r.score \in Nat /\ r.exited \in BOOLEAN
    BY <1>4 DEF Members
  <2>2. q.table = "member" /\ q.club = r.club /\ q.student = r.student
    BY <1>2, <2>1 DEF BodyFits, Assignable
  <2>3. q.status \in {"active", "inactive"} /\ q.score \in Nat /\ q.exited \in BOOLEAN
    BY <1>2, <2>1 DEF BodyFits, Assignable
  <2>4. q = [table |-> q.table, club |-> q.club, student |-> q.student, status |-> q.status,
             score |-> q.score, exited |-> q.exited]
    BY <1>1, <2>1
  <2>5. q \in Members
    BY <2>1, <2>2, <2>3, <2>4 DEF Members
  <2> QED
    BY <2>1, <2>2, <2>5 DEF LifeRows, q
<1>5. CASE r \in Activities
  <2>1. r.table = "activity" /\ DOMAIN r = {"table", "club", "status"} /\ r.club \in RowIds
        /\ r.status \in {"planned", "cancelled"}
    BY <1>5 DEF Activities
  <2>2. q.table = "activity" /\ q.club = r.club
    BY <1>2, <2>1 DEF BodyFits, Assignable
  <2>3. q.status \in {"planned", "cancelled"}
    BY <1>2, <2>1 DEF BodyFits, Assignable
  <2>4. q = [table |-> q.table, club |-> q.club, status |-> q.status]
    BY <1>1, <2>1
  <2>5. q \in Activities
    BY <2>1, <2>2, <2>3, <2>4 DEF Activities
  <2> QED
    BY <2>1, <2>2, <2>5 DEF LifeRows, q
<1>6. CASE r \in Rules
  <2>1. r.table = "rule" /\ DOMAIN r = {"table", "category", "points", "on"} /\ r.category \in STRING
        /\ r.points \in Nat /\ r.on \in BOOLEAN
    BY <1>6 DEF Rules
  <2>2. q.table = "rule"
    BY <1>2, <2>1 DEF BodyFits, Assignable
  <2>3. q.category \in STRING /\ q.points \in Nat /\ q.on \in BOOLEAN
    BY <1>2, <2>1 DEF BodyFits, Assignable
  <2>4. q = [table |-> q.table, category |-> q.category, points |-> q.points, on |-> q.on]
    BY <1>1, <2>1
  <2>5. q \in Rules
    BY <2>2, <2>3, <2>4 DEF Rules
  <2> QED
    BY <2>1, <2>2, <2>5 DEF LifeRows, q
<1>7. CASE r \in Achievements
  <2>1. r.table = "achievement" /\ DOMAIN r = {"table", "student", "category", "points", "verified"}
        /\ r.student \in Students /\ r.category \in STRING /\ r.points \in Nat /\ r.verified \in BOOLEAN
    BY <1>7 DEF Achievements
  <2>2. q.table = "achievement" /\ q.student = r.student /\ q.points = r.points /\ q.verified = r.verified
    BY <1>2, <2>1 DEF BodyFits, Assignable
  <2>3. q.category \in STRING
    BY <1>2, <2>1 DEF BodyFits, Assignable
  <2>4. q = [table |-> q.table, student |-> q.student, category |-> q.category, points |-> q.points,
             verified |-> q.verified]
    BY <1>1, <2>1
  <2>5. q \in Achievements
    BY <2>1, <2>2, <2>3, <2>4 DEF Achievements
  <2> QED
    BY <2>1, <2>2, <2>5 DEF LifeRows, q
<1>8. CASE r \in Years
  <2>1. r.table = "year" /\ DOMAIN r = {"table", "on"} /\ r.on \in BOOLEAN
    BY <1>8 DEF Years
  <2>2. q.table = "year" /\ q.on \in BOOLEAN
    BY <1>2, <2>1 DEF BodyFits, Assignable
  <2>3. q = [table |-> q.table, on |-> q.on]
    BY <1>1, <2>1
  <2>4. q \in Years
    BY <2>2, <2>3 DEF Years
  <2> QED
    BY <2>1, <2>2, <2>4 DEF LifeRows, q
<1> QED
  BY <1>3, <1>4, <1>5, <1>6, <1>7, <1>8 DEF LifeRows

-----------------------------------------------------------------------------
(* The steps of all tables. *)

\* A new row under the next id.
LEMMA AddedRow ==
  ASSUME LifeInv, NEW r \in LifeRows, Add(r), r.table = "achievement" /\ ~r.verified => r.points = 0
  PROVE  LifeRowsStep
<1>1. PICK i \in Table("none") : Acceptable(i, r) /\ rows' = [rows EXCEPT ![i] = r]
  BY DEF Add
<1>2. i \in RowIds /\ rows[i] = NoRow
  BY <1>1, RowKinds DEF Table, LifeInv
<1>3. Left(r) /\ (r.table \in {"member", "activity"} => r.club \in Table("club"))
  BY <1>1 DEF Acceptable, Left
<1>4. r \in AnyRows /\ rows[i].table = "none"
  BY <1>2 DEF AnyRows, NoRow
<1> QED
  BY <1>1, <1>2, <1>3, <1>4, OneLifeRow

LEMMA CreateKeeps ==
  ASSUME LifeInv, NEW r \in NewRows, Create(r)
  PROVE  LifeInv' /\ LifeRowsStep
<1>1. r \in LifeRows /\ Add(r) /\ (r.table = "achievement" => r.points = 0)
  BY StudentLifeAssumption DEF Create
<1>2. LifeRowsStep
  BY <1>1, AddedRow
<1>3. HistoryFits' /\ job' = job
  BY DEF Create, LifeInv, HistoryFits
<1> QED
  BY <1>2, <1>3, LifeTableStep

LEMMA PutReadKeeps ==
  ASSUME LifeInv, NEW s \in Sessions, NEW i \in RowIds, NEW c \in PutBodies, PutRead(s, i, c)
  PROVE  LifeInv' /\ LifeRowsStep
<1> DEFINE j == [kind |-> "put", id |-> i, copy |-> rows[i], change |-> c.fields]
<1>1. rows[i] \in LifeRows /\ rows[i].table = c.table /\ BodyFits(c.table, c.fields)
  <2>1. rows[i] \in LifeRows \/ rows[i] = NoRow \/ rows[i] = GoneRow
    BY RowKinds DEF LifeInv
  <2> QED
    BY <2>1, StudentLifeAssumption DEF PutRead, Present
<1>2. j \in LifeJobs /\ LifeJobFits(j, rows)
  BY <1>1 DEF LifeJobs, LifePuts, LifeJobFits
<1>3. HistoryFits' /\ rows' = rows /\ Begin(s, j)
  BY StudentLifeAssumption DEF PutRead, LifeInv, HistoryFits
<1> QED
  BY <1>2, <1>3, BeginStep

LEMMA PutCommitKeeps ==
  ASSUME LifeInv, NEW s \in Sessions, PutCommit(s)
  PROVE  LifeInv' /\ LifeRowsStep
<1> DEFINE j == job[s]  i == job[s].id  r == Flushed(rows[i], j.copy, j.change)
<1>1. j \in LifePuts /\ BodyFits(j.copy.table, j.change) /\ rows[i].table \in {j.copy.table, "gone"}
  BY LifeJobOf, LifeJobKinds DEF PutCommit, Working, LifeJobFits
<1>2. i \in RowIds /\ rows[i] \in LifeRows /\ rows[i].table = j.copy.table
  <2>1. i \in RowIds /\ rows[i] \notin {NoRow, GoneRow}
    BY <1>1 DEF LifePuts, PutCommit, Present
  <2> QED
    BY <1>1, <2>1, RowKinds DEF LifeInv
<1>3. Acceptable(i, r) /\ rows' = [rows EXCEPT ![i] = r]
  BY DEF PutCommit
<1>4. /\ r \in LifeRows /\ r.table = rows[i].table
      /\ r.table = "achievement" => r.verified = rows[i].verified /\ r.points = rows[i].points
  BY <1>1, <1>2, FlushedEdit
<1> HIDE DEF r
<1>5. r.table = "achievement" /\ ~r.verified => r.points = 0
  BY <1>2, <1>4 DEF LifeInv, PointsFit
<1>6. Left(r) /\ (r.table \in {"member", "activity"} => r.club \in Table("club"))
  BY <1>3 DEF Acceptable, Left
<1>7. LifeRowsStep
  BY <1>2, <1>3, <1>4, <1>5, <1>6, OneLifeRow DEF AnyRows
<1>8. HistoryFits' /\ EndJob(s)
  BY DEF PutCommit, LifeInv, HistoryFits
<1> QED
  BY <1>7, <1>8, LifeEndStep

LEMMA LifeRequestFailsKeeps ==
  ASSUME LifeInv, NEW s \in Sessions, LifeRequestFails(s)
  PROVE  LifeInv' /\ LifeRowsStep
<1>1. HistoryFits' /\ EndJob(s) /\ rows' = rows
  BY DEF LifeRequestFails, LifeInv, HistoryFits
<1> QED
  BY <1>1, LifeEndStep, RowsUnchanged

\* A row that is not a club or a year is deleted.
LEMMA DeletedRow ==
  ASSUME LifeInv, NEW i \in RowIds, rows[i].table \notin {"club", "year"}, rows' = [rows EXCEPT ![i] = GoneRow]
  PROVE  LifeRowsStep
<1>1. GoneRow \in AnyRows /\ GoneRow.table = "gone"
  BY DEF AnyRows, GoneRow
<1> QED
  BY <1>1, OneLifeRow DEF Left

-----------------------------------------------------------------------------
(* Clubs. *)

LEMMA JoinReadKeeps ==
  ASSUME LifeInv, NEW s \in Sessions, NEW r \in NewRows, JoinRead(s, r)
  PROVE  LifeInv' /\ LifeRowsStep
<1> DEFINE j == [kind |-> "join", row |-> r]
<1>1. r \in Members
  BY StudentLifeAssumption, LifeRowTables DEF JoinRead
<1>2. j \in LifeJobs /\ LifeJobFits(j, rows)
  BY <1>1 DEF LifeJobs, Joins, LifeJobFits
<1>3. HistoryFits' /\ rows' = rows /\ Begin(s, j)
  BY DEF JoinRead, LifeInv, HistoryFits, lifeVars
<1> QED
  BY <1>2, <1>3, BeginStep

LEMMA JoinCommitKeeps ==
  ASSUME LifeInv, NEW s \in Sessions, JoinCommit(s)
  PROVE  LifeInv' /\ LifeRowsStep
<1>1. job[s].row \in LifeRows /\ job[s].row.table = "member" /\ Add(job[s].row)
  BY LifeJobOf, LifeJobKinds DEF JoinCommit, Working, Joins, Members, LifeRows
<1>2. LifeRowsStep
  BY <1>1, AddedRow
<1>3. HistoryFits' /\ EndJob(s)
  BY DEF JoinCommit, LifeInv, HistoryFits
<1> QED
  BY <1>2, <1>3, LifeEndStep

LEMMA RemoveMemberKeeps ==
  ASSUME LifeInv, NEW i \in RowIds, RemoveMember(i) \/ DeleteActivity(i)
  PROVE  LifeInv' /\ LifeRowsStep
<1>1. rows[i].table \in {"member", "activity"} /\ rows' = [rows EXCEPT ![i] = GoneRow] /\ job' = job
  BY DEF RemoveMember, DeleteActivity, Table
<1>2. LifeRowsStep
  BY <1>1, DeletedRow
<1>3. HistoryFits'
  BY StudentLifeAssumption DEF RemoveMember, DeleteActivity, LifeInv, HistoryFits
<1> QED
  BY <1>1, <1>2, <1>3, LifeTableStep

\* With the club goes what belongs to it, and nothing else refers to it.
LEMMA DeleteClubKeeps ==
  ASSUME LifeInv, NEW k \in RowIds, DeleteClub(k)
  PROVE  LifeInv' /\ LifeRowsStep
<1> DEFINE G == {i \in RowIds : i = k \/ (rows[i].table \in {"member", "activity"} /\ rows[i].club = k)}
<1>1. rows[k].table = "club" /\ job' = job /\ HistoryFits'
  BY StudentLifeAssumption DEF DeleteClub, Table, LifeInv, HistoryFits
<1>2. \A i \in RowIds : rows'[i] = IF i \in G THEN GoneRow ELSE rows[i]
  BY DEF DeleteClub, Table
<1>3. LifeRowsFit /\ PointsFit /\ ClubsFit
  BY DEF LifeInv
<1>4. LifeRowsFit'
  BY <1>3 DEF DeleteClub, LifeRowsFit, AnyRows
<1>5. \A i \in G : rows[i].table \in {"club", "member", "activity"}
  BY <1>1
<1>6. PointsFit'
  BY <1>2, <1>3 DEF PointsFit, GoneRow
<1>7. ASSUME NEW i \in RowIds PROVE ClubOf(rows', i) /\ Left(rows'[i])
  <2>1. CASE i \in G
    BY <1>2, <2>1 DEF ClubOf, Left, GoneRow
  <2>2. CASE i \notin G
    <3>1. rows'[i] = rows[i] /\ ClubOf(rows, i) /\ Left(rows[i])
      BY <1>2, <1>3, <2>2 DEF ClubsFit
    <3>2. ASSUME rows[i].table \in {"member", "activity"} PROVE rows'[rows[i].club] = rows[rows[i].club]
      <4>1. rows[i].club \in RowIds /\ rows[rows[i].club].table = "club" /\ rows[i].club # k
        BY <2>2, <3>1, <3>2 DEF ClubOf
      <4> QED
        BY <1>2, <4>1
    <3> QED
      BY <3>1, <3>2 DEF ClubOf
  <2> QED
    BY <2>1, <2>2
<1>8. ClubsFit'
  BY <1>7 DEF ClubsFit, ClubOf, Left
<1>9. \A i \in RowIds : TableStays(i) /\ Verified(i)
  BY <1>2, <1>5 DEF TableStays, Verified
<1> QED
  BY <1>1, <1>4, <1>6, <1>8, <1>9, LifeTableStep DEF LifeRowsStep

-----------------------------------------------------------------------------
(* Achievements. *)

LEMMA VerifyReadKeeps ==
  ASSUME LifeInv, NEW s \in Sessions, NEW i \in RowIds, VerifyRead(s, i)
  PROVE  LifeInv' /\ LifeRowsStep
<1> DEFINE j == [kind |-> "verify", id |-> i, copy |-> rows[i]]
<1>1. rows[i].table = "achievement" /\ ~rows[i].verified
  BY DEF VerifyRead, Table
<1>2. rows[i] \in Achievements /\ rows[i].points = 0
  BY <1>1, RowKinds, LifeRowTables DEF LifeInv, PointsFit
<1>3. j \in LifeJobs /\ LifeJobFits(j, rows)
  BY <1>1, <1>2 DEF LifeJobs, VerifyJobs, LifeJobFits
<1>4. HistoryFits' /\ rows' = rows /\ Begin(s, j)
  BY DEF VerifyRead, LifeInv, HistoryFits, lifeVars
<1> QED
  BY <1>3, <1>4, BeginStep

LEMMA PointsAreNatural ==
  ASSUME LifeRowsFit, NEW category
  PROVE  PointsFor(category) \in Nat
<1> DEFINE rule == {k \in Table("rule") : rows[k].category = category /\ rows[k].on}
<1>1. CASE rule = {}
  BY <1>1 DEF PointsFor
<1>2. CASE rule # {}
  <2>1. (CHOOSE k \in rule : TRUE) \in rule
    BY <1>2
  <2>2. \A k \in rule : rows[k].points \in Nat
    <3> SUFFICES ASSUME NEW k \in rule PROVE rows[k].points \in Nat
      OBVIOUS
    <3>1. rows[k] \in Rules
      BY RowKinds, LifeRowTables DEF Table
    <3> QED
      BY <3>1 DEF Rules
  <2> QED
    BY <1>2, <2>1, <2>2 DEF PointsFor
<1> QED
  BY <1>1, <1>2

LEMMA FlushedVerification ==
  ASSUME NEW r \in Achievements, NEW c, c.verified = FALSE, c.points = 0, NEW P \in Nat
  PROVE  LET q == Flushed(r, c, [verified |-> TRUE, points |-> P])
         IN q \in Achievements /\ q.verified = TRUE /\ q.points = (IF P # 0 THEN P ELSE r.points)
<1> DEFINE h == [verified |-> TRUE, points |-> P]
           q == Flushed(r, c, h)
<1>1. DOMAIN r = {"table", "student", "category", "points", "verified"} /\ r.table = "achievement"
      /\ r.student \in Students /\ r.category \in STRING /\ r.points \in Nat /\ r.verified \in BOOLEAN
  BY DEF Achievements
<1>2. DOMAIN h = {"verified", "points"} /\ h.verified = TRUE /\ h.points = P
  OBVIOUS
<1> HIDE DEF h
<1>3. q = [f \in DOMAIN r |-> q[f]] /\ q.verified = TRUE /\ q.points = (IF P # 0 THEN P ELSE r.points)
  BY <1>1, <1>2 DEF Flushed
<1>4. q.table = r.table /\ q.student = r.student /\ q.category = r.category
  BY <1>1, <1>2 DEF Flushed
<1> HIDE DEF q
<1>5. q = [table |-> q.table, student |-> q.student, category |-> q.category, points |-> q.points,
           verified |-> q.verified]
  BY <1>1, <1>3
<1>6. q \in Achievements
  BY <1>1, <1>3, <1>4, <1>5 DEF Achievements
<1> QED
  BY <1>3, <1>6 DEF q, h

\* A second verification writes points only when there are some to give: its copy has
\* none.
LEMMA VerifyCommitKeeps ==
  ASSUME LifeInv, NEW s \in Sessions, VerifyCommit(s)
  PROVE  LifeInv' /\ LifeRowsStep
<1> DEFINE j == job[s]  i == job[s].id  P == PointsFor(job[s].copy.category)
           r == Flushed(rows[i], j.copy, [verified |-> TRUE, points |-> P])
<1>1. j \in VerifyJobs /\ j.copy.verified = FALSE /\ j.copy.points = 0 /\ rows[i].table \in {"achievement", "gone"}
  BY LifeJobOf, LifeJobKinds DEF VerifyCommit, Working, LifeJobFits, VerifyJobs, Achievements
<1>2. i \in RowIds /\ rows[i].table = "achievement" /\ rows[i] \in Achievements
  <2>1. i \in RowIds /\ rows[i] \notin {NoRow, GoneRow}
    BY <1>1 DEF VerifyJobs, VerifyCommit, Present
  <2> QED
    BY <1>1, <2>1, RowKinds, LifeRowTables DEF LifeInv
<1>3. rows' = [rows EXCEPT ![i] = r]
  BY DEF VerifyCommit
<1>4. P \in Nat
  BY PointsAreNatural DEF LifeInv
<1> HIDE DEF P
<1>5. rows[i].points \in Nat
  BY <1>2 DEF Achievements
<1>6. /\ r \in Achievements /\ r.table = "achievement" /\ r.verified = TRUE
      /\ rows[i].points > 0 => r.points > 0
  <2>1. r \in Achievements /\ r.verified = TRUE /\ r.points = (IF P # 0 THEN P ELSE rows[i].points)
    BY <1>1, <1>2, <1>4, FlushedVerification
  <2> HIDE DEF r
  <2> QED
    BY <1>4, <1>5, <2>1 DEF Achievements
<1> HIDE DEF r
<1>7. LifeRowsStep
  BY <1>2, <1>3, <1>6, OneLifeRow DEF AnyRows, LifeRows, Left
<1>8. HistoryFits' /\ EndJob(s)
  BY DEF VerifyCommit, LifeInv, HistoryFits
<1> QED
  BY <1>7, <1>8, LifeEndStep

LEMMA DropReadKeeps ==
  ASSUME LifeInv, NEW s \in Sessions, NEW i \in RowIds, DropRead(s, i)
  PROVE  LifeInv' /\ LifeRowsStep
<1> DEFINE j == [kind |-> "drop", id |-> i]
<1>1. j \in LifeJobs /\ LifeJobFits(j, rows)
  BY DEF DropRead, Table, LifeJobs, DeleteJobs, LifeJobFits
<1>2. HistoryFits' /\ rows' = rows /\ Begin(s, j)
  BY StudentLifeAssumption DEF DropRead, LifeInv, HistoryFits
<1> QED
  BY <1>1, <1>2, BeginStep

LEMMA DropCommitKeeps ==
  ASSUME LifeInv, NEW s \in Sessions, DropCommit(s)
  PROVE  LifeInv' /\ LifeRowsStep
<1>1. job[s].id \in RowIds /\ rows[job[s].id].table \in {"achievement", "gone"}
  BY LifeJobOf, LifeJobKinds DEF DropCommit, Working, LifeJobFits, DeleteJobs
<1>2. LifeRowsStep
  BY <1>1, DeletedRow DEF DropCommit
<1>3. HistoryFits' /\ EndJob(s)
  BY DEF DropCommit, LifeInv, HistoryFits
<1> QED
  BY <1>2, <1>3, LifeEndStep

-----------------------------------------------------------------------------
(* Academic years. *)

LEMMA SetActiveReadKeeps ==
  ASSUME LifeInv, NEW s \in Sessions, NEW y \in RowIds, SetActiveRead(s, y)
  PROVE  LifeInv' /\ LifeRowsStep
<1> DEFINE j == [kind |-> "year", id |-> y, on |-> rows[y].on, others |-> {}, at |-> "loaded"]
<1>1. rows[y].table = "year" /\ rows[y] \in Years
  BY RowKinds, LifeRowTables DEF SetActiveRead, Table, LifeInv
<1>2. j \in LifeJobs /\ LifeJobFits(j, rows)
  BY <1>1 DEF LifeJobs, YearJobs, Years, LifeJobFits
<1>3. HistoryFits' /\ rows' = rows /\ Begin(s, j)
  BY DEF SetActiveRead, LifeInv, HistoryFits, lifeVars
<1> QED
  BY <1>2, <1>3, BeginStep

LEMMA SetActiveUpdateKeeps ==
  ASSUME LifeInv, NEW s \in Sessions, SetActiveUpdate(s)
  PROVE  LifeInv' /\ LifeRowsStep
<1> DEFINE others == Others(job[s].id)
           free == \A i \in others : ~Locked(s, i)
           j == [job[s] EXCEPT !.others = others, !.at = IF free THEN "off" ELSE "waiting"]
<1>1. job[s] \in YearJobs /\ rows[job[s].id].table = "year"
  BY LifeJobOf, LifeJobKinds DEF SetActiveUpdate, Working, LifeJobFits
<1>2. others \subseteq RowIds /\ \A i \in others : rows[i].table = "year"
  BY DEF Others, Table
<1>3. j \in YearJobs /\ j.kind = "year" /\ j.id = job[s].id /\ j.others = others
  <2> HIDE DEF others, free
  <2> QED BY <1>1, <1>2 DEF YearJobs
<1>4. job' = [job EXCEPT ![s] = j] /\ rows' = rows /\ HistoryFits'
  BY DEF SetActiveUpdate, LifeInv, HistoryFits
<1> HIDE DEF j, others
<1>5. j \in LifeJobs /\ LifeJobFits(j, rows)
  BY <1>1, <1>2, <1>3 DEF LifeJobs, LifeJobFits
<1> QED
  BY <1>4, <1>5, LifeRequestStep, RowsUnchanged

LEMMA SetActiveOthersOffKeeps ==
  ASSUME LifeInv, NEW s \in Sessions, SetActiveOthersOff(s)
  PROVE  LifeInv' /\ LifeRowsStep
<1> DEFINE j == [job[s] EXCEPT !.at = "off"]
<1>1. job[s] \in YearJobs /\ LifeJobFits(job[s], rows) /\ job[s].kind = "year"
  BY LifeJobOf, LifeJobKinds DEF SetActiveOthersOff, Working
<1>3. j \in YearJobs /\ j.kind = "year" /\ j.id = job[s].id /\ j.others = job[s].others
  BY <1>1 DEF YearJobs
<1>4. job' = [job EXCEPT ![s] = j] /\ rows' = rows /\ HistoryFits'
  BY DEF SetActiveOthersOff, LifeInv, HistoryFits
<1> HIDE DEF j
<1>5. j \in LifeJobs /\ LifeJobFits(j, rows)
  BY <1>1, <1>3 DEF LifeJobs, LifeJobFits
<1> QED
  BY <1>4, <1>5, LifeRequestStep, RowsUnchanged

LEMMA SetActiveCommitKeeps ==
  ASSUME LifeInv, NEW s \in Sessions, SetActiveCommit(s)
  PROVE  LifeInv' /\ LifeRowsStep
<1> DEFINE Y == job[s].others \cup (IF job[s].on THEN {} ELSE {job[s].id})
           on == [i \in RowIds |-> i \notin job[s].others]
<1>1. job[s] \in YearJobs /\ LifeJobFits(job[s], rows) /\ job[s].kind = "year"
  BY LifeJobOf, LifeJobKinds DEF SetActiveCommit, Working
<1>2. Y \in SUBSET Table("year") /\ on \in [RowIds -> BOOLEAN]
  BY <1>1 DEF YearJobs, LifeJobFits, Table
<1>3. rows' = [i \in RowIds |-> IF i \in Y THEN [rows[i] EXCEPT !.on = on[i]] ELSE rows[i]]
  <2>1. \A i \in RowIds :
          (IF i \in job[s].others THEN [rows[i] EXCEPT !.on = FALSE]
           ELSE IF i = job[s].id /\ ~job[s].on THEN [rows[i] EXCEPT !.on = TRUE] ELSE rows[i])
          = (IF i \in Y THEN [rows[i] EXCEPT !.on = on[i]] ELSE rows[i])
    BY Zenon
  <2> QED
    BY <2>1 DEF SetActiveCommit
<1> HIDE DEF Y, on
<1>4. LifeRowsStep
  BY <1>2, <1>3, YearsOnly
<1>5. HistoryFits' /\ EndJob(s)
  BY DEF SetActiveCommit, LifeInv, HistoryFits
<1> QED
  BY <1>4, <1>5, LifeEndStep

LEMMA DeleteYearKeeps ==
  ASSUME LifeInv, NEW y \in RowIds, DeleteYear(y)
  PROVE  LifeInv' /\ LifeRowsStep
<1> DEFINE on == [i \in RowIds |-> FALSE]
<1>1. {y} \in SUBSET Table("year") /\ on \in [RowIds -> BOOLEAN]
  BY DEF DeleteYear
<1>2. rows' = [i \in RowIds |-> IF i \in {y} THEN [rows[i] EXCEPT !.on = on[i]] ELSE rows[i]]
  BY DEF DeleteYear, LifeInv, LifeRowsFit
<1>3. LifeRowsStep
  BY <1>1, <1>2, YearsOnly
<1>4. HistoryFits' /\ job' = job
  BY StudentLifeAssumption DEF DeleteYear, LifeInv, HistoryFits
<1> QED
  BY <1>3, <1>4, LifeTableStep

-----------------------------------------------------------------------------
(* The theorems. *)

LEMMA LifeInitial == LifeInit => LifeInv
<1> SUFFICES ASSUME LifeInit PROVE LifeInv
  OBVIOUS
<1>1. rows \in [RowIds -> LifeRows \cup {NoRow}] /\ job = [s \in Sessions |-> NoJob]
  BY StudentLifeAssumption DEF LifeInit, JobInit
<1>2. LifeRowsFit /\ HistoryFits
  BY <1>1, StudentLifeAssumption DEF LifeInit, LifeRowsFit, HistoryFits, AnyRows
<1>3. LifeJobsFit /\ LifeRequestsFit
  BY <1>1, NoLifeToFit DEF LifeJobsFit, LifeRequestsFit
<1>4. PointsFit
  BY StudentLifeAssumption DEF LifeInit, PointsFit
<1>5. ClubsFit
  <2> SUFFICES ASSUME NEW i \in RowIds PROVE ClubOf(rows, i) /\ Left(rows[i])
    BY DEF ClubsFit
  <2>1. rows[i].table = "member" => ~(rows[i].exited /\ rows[i].status = "active")
    BY StudentLifeAssumption DEF LifeInit
  <2>2. rows[i].table \in {"member", "activity"} => rows[rows[i].club].table = "club"
    BY StudentLifeAssumption DEF LifeInit
  <2>3. rows[i].table \in {"member", "activity"} => rows[i].club \in RowIds
    BY <1>2, RowKinds, LifeRowTables DEF Members, Activities
  <2> QED
    BY <2>1, <2>2, <2>3 DEF ClubOf, Left
<1> QED
  BY <1>2, <1>3, <1>4, <1>5 DEF LifeInv

LEMMA LifeStep == LifeInv /\ [LifeNext]_<<job, alone, lifeVars>> => LifeInv' /\ LifeRowsStep
<1> SUFFICES ASSUME LifeInv, [LifeNext]_<<job, alone, lifeVars>> PROVE LifeInv' /\ LifeRowsStep
  OBVIOUS
<1>1. CASE LifeNext
  BY <1>1, VerifyReadKeeps, DropReadKeeps, SetActiveReadKeeps, PutReadKeeps, JoinReadKeeps, JoinCommitKeeps,
     PutCommitKeeps, VerifyCommitKeeps, DropCommitKeeps, SetActiveUpdateKeeps, SetActiveOthersOffKeeps, SetActiveCommitKeeps,
     LifeRequestFailsKeeps, CreateKeeps, RemoveMemberKeeps, DeleteClubKeeps, DeleteYearKeeps DEF LifeNext
<1>2. CASE UNCHANGED <<job, alone, lifeVars>>
  <2>1. rows' = rows /\ job' = job /\ HistoryFits'
    BY <1>2 DEF lifeVars, LifeInv, HistoryFits
  <2> QED
    BY <2>1, RowsUnchanged, LifeTableStep
<1> QED
  BY <1>1, <1>2

LEMMA LifeInvariant == LifeSpec => []LifeInv
<1>1. LifeInv /\ [LifeNext]_<<job, alone, lifeVars>> => LifeInv'
  BY LifeStep
<1> QED
  BY <1>1, LifeInitial, PTL DEF LifeSpec

\* Rows and requests always have their types.
THEOREM LifeTypesCorrect == LifeSpec => []LifeTypeOK
<1>1. LifeInv => LifeTypeOK
  <2> SUFFICES ASSUME LifeInv PROVE LifeTypeOK
    OBVIOUS
  <2>1. \A i \in RowIds : rows[i] \in LifeRows \cup {NoRow, GoneRow}
    BY DEF LifeInv, LifeRowsFit, AnyRows
  <2>2. ASSUME NEW s \in Sessions
        PROVE  \/ job[s] \in {NoJob} \cup VerifyJobs \cup DeleteJobs \cup YearJobs
               \/ Working(s, "join") /\ job[s].row \in Members
               \/ Working(s, "put") /\ job[s].copy \in LifeRows
    BY LifeJobOf DEF LifeJobs, Joins, LifePuts, Working
  <2> QED
    BY <2>1, <2>2 DEF LifeInv, HistoryFits, LifeTypeOK
<1> QED
  BY <1>1, LifeInvariant, PTL

\* No edit, second verification or deletion of something else takes back that an
\* achievement is verified, or the points it was given.
THEOREM VerifiedCorrect == LifeSpec => VerifiedStay
<1>1. LifeInv /\ [LifeNext]_<<job, alone, lifeVars>>
      => [\A i \in Table("achievement") : rows[i].verified /\ rows'[i] # GoneRow
            => rows'[i].verified /\ (rows[i].points > 0 => rows'[i].points > 0)]_rows
  BY LifeStep DEF LifeRowsStep, Verified, Table
<1> QED
  BY <1>1, LifeInvariant, PTL DEF LifeSpec, VerifiedStay

-----------------------------------------------------------------------------
(* Leaderboards: scores and points are summed by student and by club.        *)

LEMMA SumOverIsSum == \A ids, f : SumOver(ids, f) = SumOf([i \in ids |-> rows[i][f]], ids)
BY DEF SumOver, FoldSet, MapThenFoldSet, SumOf, SumFunctionOnSet, FoldFunctionOnSet

\* Sums over rows are numbers, and only what is summed matters.
LEMMA RowSums ==
  ASSUME NEW S \in SUBSET RowIds, NEW f, \A i \in S : rows[i][f] \in Int, NEW w, \A i \in S : w[i] = rows[i][f]
  PROVE  IsFiniteSet(S) /\ SumOver(S, f) = SumOf(w, S) /\ SumOver(S, f) \in Int
<1>1. IsFiniteSet(S)
  BY StudentLifeAssumption, FS_Subset
<1> DEFINE v == [i \in S |-> rows[i][f]]
<1>2. \A i \in S : v[i] = w[i] /\ v[i] \in Int
  OBVIOUS
<1>3. SumOver(S, f) = SumOf(v, S)
  BY SumOverIsSum
<1> HIDE DEF v
<1>4. SumOf(v, S) = SumOf(w, S) /\ SumOf(v, S) \in Int
  BY <1>1, <1>2, SumsEqual, SumTaken
<1> QED BY <1>1, <1>3, <1>4

LEMMA RowSumFits ==
  ASSUME NEW S \in SUBSET RowIds, NEW f, \A i \in S : rows[i][f] \in Int
  PROVE  SumOver(S, f) \in Int
<1> DEFINE w == [i \in S |-> rows[i][f]]
<1>1. \A i \in S : w[i] = rows[i][f]
  OBVIOUS
<1> HIDE DEF w
<1> QED BY <1>1, RowSums

\* Rows of which each belongs to someone: by owner, their sum is that of all.
LEMMA RowsByOwner ==
  ASSUME NEW S, IsFiniteSet(S), NEW L \in SUBSET RowIds, NEW c, NEW part, Parted(L, S, c, part), NEW f, NEW v,
         \A i \in L : rows[i][f] \in Int,
         \A x \in S : v[x] = SumOver(part[x], f)
  PROVE  SumOf(v, S) = SumOver(L, f)
<1> DEFINE w == [i \in L |-> rows[i][f]]
<1>1. \A i \in L : w[i] = rows[i][f] /\ w[i] \in Int
  OBVIOUS
<1> HIDE DEF w
<1>2. IsFiniteSet(L) /\ SumOver(L, f) = SumOf(w, L)
  BY <1>1, RowSums
<1>3. ASSUME NEW x \in S PROVE v[x] = SumOf(w, part[x])
  <2>1. PICK A : A = part[x]
    OBVIOUS
  <2>2. A \in SUBSET L
    BY <2>1 DEF Parted
  <2>3. A \in SUBSET RowIds /\ (\A i \in A : rows[i][f] \in Int) /\ \A i \in A : w[i] = rows[i][f]
    BY <1>1, <2>2
  <2>4. SumOver(A, f) = SumOf(w, A)
    BY <2>3, RowSums, Zenon
  <2> QED BY <2>1, <2>4
<1>4. SumOf(v, S) = SumOf(w, L)
  BY <1>1, <1>2, <1>3, SumsGrouped
<1> QED BY <1>2, <1>4

\* What a set of rows has and another has not.
LEMMA RowsApart ==
  ASSUME NEW A \in SUBSET RowIds, NEW B \in SUBSET RowIds, NEW f, \A i \in A \cup B : rows[i][f] \in Int
  PROVE  /\ SumOver(A, f) = SumOver(B, f) + SumOver(A \ B, f) - SumOver(B \ A, f)
         /\ SumOver(A, f) \in Int /\ SumOver(B, f) \in Int /\ SumOver(A \ B, f) \in Int /\ SumOver(B \ A, f) \in Int
<1> DEFINE w == [i \in RowIds |-> rows[i][f]]
           C == A \cap B
<1>1. \A i \in RowIds : w[i] = rows[i][f]
  OBVIOUS
<1> HIDE DEF w
<1>2. /\ C \in SUBSET A /\ C \in SUBSET B /\ A \ C = A \ B /\ B \ C = B \ A
      /\ \A i \in A : w[i] \in Int /\ rows[i][f] \in Int
      /\ \A i \in B : w[i] \in Int /\ rows[i][f] \in Int
  BY <1>1
<1>3. /\ IsFiniteSet(A) /\ SumOver(A, f) = SumOf(w, A) /\ SumOver(A, f) \in Int
      /\ IsFiniteSet(B) /\ SumOver(B, f) = SumOf(w, B) /\ SumOver(B, f) \in Int
  BY <1>1, <1>2, RowSums
<1>4. /\ SumOver(A \ B, f) = SumOf(w, A \ B) /\ SumOver(A \ B, f) \in Int
      /\ SumOver(B \ A, f) = SumOf(w, B \ A) /\ SumOver(B \ A, f) \in Int
  <2>1. PICK X, Y : X = A \ B /\ Y = B \ A
    OBVIOUS
  <2>2. /\ X \in SUBSET RowIds /\ \A i \in X : w[i] = rows[i][f] /\ rows[i][f] \in Int
        /\ Y \in SUBSET RowIds /\ \A i \in Y : w[i] = rows[i][f] /\ rows[i][f] \in Int
    BY <1>1, <1>2, <2>1
  <2>3. SumOver(X, f) = SumOf(w, X) /\ SumOver(X, f) \in Int /\ SumOver(Y, f) = SumOf(w, Y) /\ SumOver(Y, f) \in Int
    BY <2>2, RowSums
  <2> QED BY <2>1, <2>3
<1> HIDE DEF C
<1>5. SumOf(w, A) = SumOf(w, C) + SumOf(w, A \ B) /\ SumOf(w, B) = SumOf(w, C) + SumOf(w, B \ A)
  <2>1. SumOf(w, A) = SumOf(w, C) + SumOf(w, A \ C)
    BY <1>2, <1>3, SumsOfParts
  <2>2. SumOf(w, B) = SumOf(w, C) + SumOf(w, B \ C)
    BY <1>2, <1>3, SumsOfParts
  <2> QED BY <1>2, <2>1, <2>2
<1>6. SumOf(w, C) \in Int
  <2>1. IsFiniteSet(C) /\ \A i \in C : w[i] \in Int
    BY <1>2, <1>3, FS_Subset
  <2> QED BY <2>1, SumTaken
<1> QED BY <1>3, <1>4, <1>5, <1>6

LEMMA LeaderboardSums == LifeRowsFit /\ ClubsFit => LeaderboardsAgree
<1> SUFFICES ASSUME LifeRowsFit, ClubsFit PROVE LeaderboardsAgree
  OBVIOUS
<1> DEFINE V == {i \in Table("achievement") : rows[i].verified}
           A == {m \in Table("member") : rows[m].status = "active"}
           O == {m \in Table("member") : rows[rows[m].club].open}
           student == [i \in RowIds |-> rows[i].student]
           club == [i \in RowIds |-> rows[i].club]
           verified == [a \in Students |-> VerifiedOf(a)]
           active == [a \in Students |-> ActiveOf(a)]
           members == [k \in OpenClubs |-> {m \in Table("member") : rows[m].club = k}]
           points == [a \in Students |-> SumOver(VerifiedOf(a), "points")]
           scores == [a \in Students |-> SumOver(ActiveOf(a), "score")]
           clubs == [k \in OpenClubs |-> ClubPoints(k)]
           beside == [a \in Students |-> StudentPoints(a) - ExamPoints[a]]
<1>1. \A i \in Table("achievement") : rows[i].student \in Students /\ rows[i].points \in Int /\ i \in RowIds
  BY RowKinds, LifeRowTables DEF Table, Achievements
<1>2. \A m \in Table("member") : rows[m].student \in Students /\ rows[m].score \in Int /\ m \in RowIds
                                  /\ rows[m].club \in Table("club")
  <2> SUFFICES ASSUME NEW m \in Table("member")
               PROVE  rows[m].student \in Students /\ rows[m].score \in Int /\ rows[m].club \in Table("club")
    BY DEF Table
  <2>1. m \in RowIds /\ rows[m] \in Members
    BY RowKinds, LifeRowTables DEF Table
  <2> QED BY <2>1 DEF Members, ClubsFit, ClubOf, Table
<1>3. IsFiniteSet(Students) /\ IsFiniteSet(OpenClubs) /\ OpenClubs \subseteq RowIds
  BY StudentLifeAssumption, FS_Subset DEF OpenClubs, Table
<1>4. V \in SUBSET RowIds /\ A \in SUBSET RowIds /\ O \in SUBSET RowIds
  BY <1>1, <1>2
<1>5. /\ \A a \in Students : /\ verified[a] \in SUBSET V /\ (\A i \in V : i \in verified[a] <=> student[i] = a)
                             /\ points[a] = SumOver(verified[a], "points")
      /\ \A i \in V : rows[i]["points"] \in Int /\ student[i] \in Students
  BY <1>1 DEF VerifiedOf
<1>6. /\ \A a \in Students : /\ active[a] \in SUBSET A /\ (\A m \in A : m \in active[a] <=> student[m] = a)
                             /\ scores[a] = SumOver(active[a], "score")
      /\ \A m \in A : rows[m]["score"] \in Int /\ student[m] \in Students
  BY <1>2 DEF ActiveOf
<1>7. /\ \A k \in OpenClubs : /\ members[k] \in SUBSET O /\ (\A m \in O : m \in members[k] <=> club[m] = k)
                              /\ clubs[k] = SumOver(members[k], "score")
      /\ \A m \in O : rows[m]["score"] \in Int /\ club[m] \in OpenClubs
  BY <1>2 DEF ClubPoints, OpenClubs
<1>8. \A a \in Students : beside[a] = (points[a] + ExamPoints[a] + scores[a]) - ExamPoints[a]
  BY DEF StudentPoints
<1> HIDE DEF verified, active, members, points, scores, clubs, student, club, V, A, O
<1>9. SumOf(points, Students) = SumOver(V, "points") /\ \A a \in Students : points[a] \in Int
  <2>1. PICK f, M, K, c, part, v : f = "points" /\ M = V /\ K = Students /\ c = student /\ part = verified /\ v = points
    OBVIOUS
  <2>2. Parted(M, K, c, part) /\ M \in SUBSET RowIds /\ IsFiniteSet(K)
    BY <1>3, <1>4, <1>5, <2>1 DEF Parted
  <2>3. \A i \in M : rows[i][f] \in Int
    BY <1>5, <2>1
  <2>4. \A x \in K : v[x] = SumOver(part[x], f)
    BY <1>5, <2>1
  <2>5. SumOf(v, K) = SumOver(M, f)
    BY <2>2, <2>3, <2>4, RowsByOwner
  <2>6. ASSUME NEW x \in K PROVE v[x] \in Int
    <3>1. PICK P : P = part[x]
      OBVIOUS
    <3>2. P \in SUBSET RowIds /\ \A i \in P : rows[i][f] \in Int
      BY <2>2, <2>3, <3>1 DEF Parted
    <3>3. SumOver(P, f) \in Int
      BY <3>2, RowSumFits
    <3> QED BY <2>4, <3>1, <3>3
  <2> QED BY <2>1, <2>5, <2>6
<1>10. SumOf(scores, Students) = SumOver(A, "score") /\ \A a \in Students : scores[a] \in Int
  <2>1. PICK f, M, K, c, part, v : f = "score" /\ M = A /\ K = Students /\ c = student /\ part = active /\ v = scores
    OBVIOUS
  <2>2. Parted(M, K, c, part) /\ M \in SUBSET RowIds /\ IsFiniteSet(K)
    BY <1>3, <1>4, <1>6, <2>1 DEF Parted
  <2>3. \A i \in M : rows[i][f] \in Int
    BY <1>6, <2>1
  <2>4. \A x \in K : v[x] = SumOver(part[x], f)
    BY <1>6, <2>1
  <2>5. SumOf(v, K) = SumOver(M, f)
    BY <2>2, <2>3, <2>4, RowsByOwner
  <2>6. ASSUME NEW x \in K PROVE v[x] \in Int
    <3>1. PICK P : P = part[x]
      OBVIOUS
    <3>2. P \in SUBSET RowIds /\ \A i \in P : rows[i][f] \in Int
      BY <2>2, <2>3, <3>1 DEF Parted
    <3>3. SumOver(P, f) \in Int
      BY <3>2, RowSumFits
    <3> QED BY <2>4, <3>1, <3>3
  <2> QED BY <2>1, <2>5, <2>6
<1>11. SumOf(clubs, OpenClubs) = SumOver(O, "score")
  <2>1. PICK f, M, K, c, part, v : f = "score" /\ M = O /\ K = OpenClubs /\ c = club /\ part = members /\ v = clubs
    OBVIOUS
  <2>2. Parted(M, K, c, part) /\ M \in SUBSET RowIds /\ IsFiniteSet(K)
    BY <1>3, <1>4, <1>7, <2>1 DEF Parted
  <2>3. \A i \in M : rows[i][f] \in Int
    BY <1>7, <2>1
  <2>4. \A x \in K : v[x] = SumOver(part[x], f)
    BY <1>7, <2>1
  <2>5. SumOf(v, K) = SumOver(M, f)
    BY <2>2, <2>3, <2>4, RowsByOwner
  <2> QED BY <2>1, <2>5
<1>12. \A a \in Students : beside[a] = points[a] + scores[a]
  BY <1>8, <1>9, <1>10, StudentLifeAssumption
<1> HIDE DEF beside
<1>13. SumOf(beside, Students) = SumOf(points, Students) + SumOf(scores, Students)
  <2>1. \A a \in Students : points[a] \in Int /\ scores[a] \in Int /\ beside[a] = points[a] + scores[a]
    BY <1>9, <1>10, <1>12
  <2> QED BY <1>3, <2>1, SumsJoined
<1>14. /\ SumOver(A, "score") = SumOver(O, "score") + SumOver(A \ O, "score") - SumOver(O \ A, "score")
       /\ SumOver(A, "score") \in Int /\ SumOver(O, "score") \in Int
       /\ SumOver(A \ O, "score") \in Int /\ SumOver(O \ A, "score") \in Int
  <2>1. \A m \in A \cup O : rows[m]["score"] \in Int
    BY <1>6, <1>7
  <2> QED BY <1>4, <2>1, RowsApart
<1>15. SumOver(V, "points") \in Int
  <2>1. \A i \in V : rows[i]["points"] \in Int
    BY <1>5
  <2> QED BY <1>4, <2>1, RowsApart
<1>16. SumOf(beside, Students) = SumOver(V, "points") + SumOf(clubs, OpenClubs) + SumOver(A \ O, "score") - SumOver(O \ A, "score")
  BY <1>9, <1>10, <1>11, <1>13, <1>14, <1>15
<1>17. /\ FoldSet(LAMBDA a, t : StudentPoints(a) - ExamPoints[a] + t, 0, Students) = SumOf(beside, Students)
       /\ FoldSet(LAMBDA k, t : ClubPoints(k) + t, 0, OpenClubs) = SumOf(clubs, OpenClubs)
  BY DEF FoldSet, MapThenFoldSet, SumOf, SumFunctionOnSet, FoldFunctionOnSet, beside, clubs
<1>18. /\ {m \in Table("member") : ~rows[rows[m].club].open /\ rows[m].status = "active"} = A \ O
       /\ {m \in Table("member") : rows[rows[m].club].open /\ rows[m].status # "active"} = O \ A
  BY DEF A, O
<1> HIDE DEF beside
<1> QED BY <1>16, <1>17, <1>18 DEF LeaderboardsAgree, V

-----------------------------------------------------------------------------
(* Academic years.  Whoever is settled has turned off every year but its own, *)
(* and an edit never turns a year on: what it loaded was active.              *)

CopiesOn(j) == j.kind = "put" /\ j.copy.table = "year" => j.copy.on
PutsFindActive == \A s \in Sessions : CopiesOn(job[s])
SettledKnowAll ==
  \A s \in settled \ {Everyone} :
    s \in Sessions /\ Working(s, "year") /\ job[s].at = "off" /\ job[s].others = Others(job[s].id)
OneOn == Everyone \in settled => \A y, z \in Table("year") : rows[y].on /\ rows[z].on => y = z
YearsInv == PutsFindActive /\ SettledKnowAll /\ OneOn

\* No year comes, and none is turned on.
YearsRest ==
  \A i \in RowIds : rows'[i].table = "year" => rows[i].table = "year" /\ (rows'[i].on => rows[i].on)

\* Then those who are settled stay so, as long as their requests last.
LEMMA YearsKept ==
  ASSUME LifeInv, YearsInv, LifeRowsStep, YearsRest, PutsFindActive', settled' \subseteq settled,
         \A s \in settled' \ {Everyone} : job'[s] = job[s]
  PROVE  YearsInv'
<1>1. Table("year")' = Table("year")
  <2>1. \A i \in RowIds : rows[i].table = "year" => rows'[i].table = "year"
    BY DEF LifeRowsStep, TableStays, NoRow
  <2> QED BY <2>1 DEF Table, YearsRest
<1>2. SettledKnowAll'
  BY <1>1 DEF YearsInv, SettledKnowAll, Working, Others
<1>3. OneOn'
  <2>1. \A y \in Table("year") : rows'[y].on => rows[y].on
    BY <1>1 DEF YearsRest, Table
  <2> QED BY <1>1, <2>1 DEF YearsInv, OneOn
<1> QED BY <1>2, <1>3 DEF YearsInv

\* A request that is not setting a year begins or ends.
LEMMA OtherRequest ==
  ASSUME LifeInv, YearsInv, LifeRowsStep, YearsRest, NEW s \in Sessions, NEW j, job' = [job EXCEPT ![s] = j],
         CopiesOn(j), settled' \subseteq settled, s \notin settled'
  PROVE  YearsInv'
<1>1. DOMAIN job = Sessions
  BY DEF LifeInv, LifeJobsFit
<1>2. PutsFindActive'
  BY <1>1 DEF YearsInv, PutsFindActive
<1>3. \A k \in settled' \ {Everyone} : job'[k] = job[k]
  BY <1>1 DEF YearsInv, SettledKnowAll
<1> QED BY <1>2, <1>3, YearsKept

LEMMA NotSettled ==
  ASSUME YearsInv, NEW s \in Sessions, job[s].kind # "year"
  PROVE  s \notin settled
BY StudentLifeAssumption DEF YearsInv, SettledKnowAll, Working

\* A row that is no year is written.
LEMMA OtherRow ==
  ASSUME LifeInv, NEW i, NEW r, rows' = [rows EXCEPT ![i] = r], r.table # "year"
  PROVE  YearsRest
BY DEF YearsRest, LifeInv, LifeRowsFit

LEMMA ReadsKeepYears ==
  ASSUME LifeInv, YearsInv, LifeRowsStep, NEW s \in Sessions, NEW i \in RowIds,
         VerifyRead(s, i) \/ DropRead(s, i) \/ SetActiveRead(s, i)
           \/ (\E c \in PutBodies : PutRead(s, i, c)) \/ (\E r \in NewRows : JoinRead(s, r))
  PROVE  YearsInv'
<1>1. rows' = rows /\ settled' = settled /\ Idle(s)
      /\ \E j : CopiesOn(j) /\ job' = [job EXCEPT ![s] = j]
  <2>1. CASE VerifyRead(s, i) \/ DropRead(s, i) \/ SetActiveRead(s, i) \/ \E r \in NewRows : JoinRead(s, r)
    <3>1. rows' = rows /\ settled' = settled /\ Idle(s)
      BY <2>1 DEF VerifyRead, DropRead, SetActiveRead, JoinRead, Begin, lifeVars
    <3>2. \E j : j.kind # "put" /\ job' = [job EXCEPT ![s] = j]
      BY <2>1 DEF VerifyRead, DropRead, SetActiveRead, JoinRead, Begin
    <3> QED BY <3>1, <3>2 DEF CopiesOn
  <2>2. ASSUME NEW c \in PutBodies, PutRead(s, i, c)
        PROVE  rows' = rows /\ settled' = settled /\ Idle(s) /\ \E j : CopiesOn(j) /\ job' = [job EXCEPT ![s] = j]
    <3> DEFINE j == [kind |-> "put", id |-> i, copy |-> rows[i], change |-> c.fields]
    <3>1. rows' = rows /\ settled' = settled /\ Idle(s) /\ job' = [job EXCEPT ![s] = j]
      BY <2>2 DEF PutRead, Begin
    <3>2. CopiesOn(j)
      BY <2>2 DEF PutRead, Editable, CopiesOn
    <3> QED BY <3>1, <3>2
  <2> QED BY <2>1, <2>2
<1>2. s \notin settled
  BY <1>1, NotSettled DEF Idle, NoJob
<1>3. YearsRest
  BY <1>1 DEF YearsRest
<1> QED BY <1>1, <1>2, <1>3, OtherRequest

LEMMA NoJobCopies == CopiesOn(NoJob)
BY DEF CopiesOn, NoJob

LEMMA CommitsKeepYears ==
  ASSUME LifeInv, YearsInv, LifeRowsStep, NEW s \in Sessions,
         JoinCommit(s) \/ PutCommit(s) \/ VerifyCommit(s) \/ DropCommit(s) \/ LifeRequestFails(s)
  PROVE  YearsInv'
<1>1. job' = [job EXCEPT ![s] = NoJob] /\ settled' \subseteq settled
  BY DEF JoinCommit, PutCommit, VerifyCommit, DropCommit, LifeRequestFails, EndJob
<1>2. s \notin settled'
  <2>1. CASE LifeRequestFails(s)
    BY <2>1 DEF LifeRequestFails
  <2>2. CASE ~ LifeRequestFails(s)
    BY <1>1, <2>2, NotSettled DEF JoinCommit, PutCommit, VerifyCommit, DropCommit, Working
  <2> QED BY <2>1, <2>2
<1>3. YearsRest
  <2>1. CASE JoinCommit(s)
    <3>1. job[s].row.table = "member"
      BY <2>1, LifeJobOf, LifeJobKinds DEF JoinCommit, Working, Joins, Members
    <3>2. PICK i : rows' = [rows EXCEPT ![i] = job[s].row]
      BY <2>1 DEF JoinCommit, Add
    <3> QED BY <3>1, <3>2, OtherRow
  <2>2. CASE PutCommit(s)
    <3> DEFINE j == job[s]  i == job[s].id  r == Flushed(rows[i], j.copy, j.change)
    <3>1. j \in LifePuts /\ BodyFits(j.copy.table, j.change) /\ rows[i].table \in {j.copy.table, "gone"}
      BY <2>2, LifeJobOf, LifeJobKinds DEF PutCommit, Working, LifeJobFits
    <3>2. i \in RowIds /\ rows[i] \in LifeRows /\ rows[i].table = j.copy.table
      <4>1. i \in RowIds /\ rows[i] \notin {NoRow, GoneRow}
        BY <2>2, <3>1 DEF LifePuts, PutCommit, Present
      <4> QED BY <3>1, <4>1, RowKinds DEF LifeInv
    <3>3. rows' = [rows EXCEPT ![i] = r]
      BY <2>2 DEF PutCommit
    <3>4. r.table = rows[i].table
      BY <3>1, <3>2, FlushedEdit
    <3>5. CASE rows[i].table = "year"
      <4>1. rows[i] \in Years /\ j.copy.on /\ j.copy \in Years
        BY <2>2, <3>1, <3>2, <3>5, LifeRowTables DEF LifePuts, YearsInv, PutsFindActive, CopiesOn, PutCommit, Working
      <4>2. "on" \in DOMAIN rows[i] /\ j.copy.on = TRUE
        BY <4>1 DEF Years
      <4>3. "on" \in DOMAIN j.change => j.change.on \in BOOLEAN
        BY <3>1, <3>2, <3>5 DEF BodyFits, Assignable
      <4>4. r.on => rows[i].on
        BY <4>2, <4>3 DEF Flushed
      <4> HIDE DEF r
      <4> QED BY <3>2, <3>3, <3>5, <4>4 DEF YearsRest, LifeInv, LifeRowsFit
    <3>6. CASE rows[i].table # "year"
      <4> HIDE DEF r
      <4> QED BY <3>3, <3>4, <3>6, OtherRow
    <3> QED BY <3>5, <3>6
  <2>3. CASE VerifyCommit(s)
    <3> DEFINE i == job[s].id
               r == Flushed(rows[i], job[s].copy, [verified |-> TRUE, points |-> PointsFor(job[s].copy.category)])
    <3>1. i \in RowIds /\ rows[i].table \in {"achievement", "gone"}
      BY <2>3, LifeJobOf, LifeJobKinds DEF VerifyCommit, Working, LifeJobFits, VerifyJobs
    <3>2. rows' = [rows EXCEPT ![i] = r]
      BY <2>3 DEF VerifyCommit
    <3>3. \A k \in RowIds \ {i} : rows'[k] = rows[k]
      <4> HIDE DEF r
      <4> QED BY <3>2 DEF LifeInv, LifeRowsFit
    <3>4. rows'[i].table # "year"
      BY <3>1 DEF LifeRowsStep, TableStays, NoRow, GoneRow
    <3> QED BY <3>3, <3>4 DEF YearsRest
  <2>4. CASE DropCommit(s)
    <3>1. rows' = [rows EXCEPT ![job[s].id] = GoneRow] /\ GoneRow.table # "year"
      BY <2>4 DEF DropCommit, GoneRow
    <3> QED BY <3>1, OtherRow
  <2>5. CASE LifeRequestFails(s)
    BY <2>5 DEF LifeRequestFails, YearsRest
  <2> QED BY <2>1, <2>2, <2>3, <2>4, <2>5
<1> QED BY <1>1, <1>2, <1>3, NoJobCopies, OtherRequest

\* An UPDATE of the other years settles a request when it was of all of them.
LEMMA SettledGrow ==
  ASSUME LifeInv, YearsInv, NEW s \in Sessions, s \notin settled, NEW j, j.kind = "year",
         job' = [job EXCEPT ![s] = j], rows' = rows,
         settled' = settled \/ (settled' = settled \cup {s} /\ j.at = "off" /\ j.others = Others(j.id))
  PROVE  YearsInv'
<1>1. DOMAIN job = Sessions /\ job'[s] = j /\ \A k \in Sessions \ {s} : job'[k] = job[k]
  BY DEF LifeInv, LifeJobsFit
<1>2. Table("year")' = Table("year") /\ \A k : Others(k)' = Others(k)
  BY DEF Table, Others
<1>3. PutsFindActive'
  BY <1>1 DEF YearsInv, PutsFindActive, CopiesOn
<1>4. SettledKnowAll'
  <2> SUFFICES ASSUME NEW k \in settled' \ {Everyone}
               PROVE  k \in Sessions /\ Working(k, "year")' /\ job'[k].at = "off" /\ job'[k].others = Others(job'[k].id)
    BY <1>2 DEF SettledKnowAll
  <2>1. CASE k = s
    BY <1>1, <2>1 DEF Working
  <2>2. CASE k # s
    BY <1>1, <2>2 DEF YearsInv, SettledKnowAll, Working
  <2> QED BY <2>1, <2>2
<1>5. OneOn'
  BY <1>2, StudentLifeAssumption DEF YearsInv, OneOn
<1> QED BY <1>3, <1>4, <1>5 DEF YearsInv

LEMMA OthersOffKeepsYears ==
  ASSUME LifeInv, YearsInv, NEW s \in Sessions, SetActiveUpdate(s) \/ SetActiveOthersOff(s)
  PROVE  YearsInv'
<1>1. job[s] \in YearJobs /\ job[s].at # "off"
  BY LifeJobOf, LifeJobKinds DEF SetActiveUpdate, SetActiveOthersOff, Working
<1>2. s \notin settled
  BY <1>1, StudentLifeAssumption DEF YearsInv, SettledKnowAll
<1>3. CASE SetActiveUpdate(s)
  <2> DEFINE others == Others(job[s].id)
             free == \A i \in others : ~Locked(s, i)
  <2>1. PICK j : j = [job[s] EXCEPT !.others = others, !.at = IF free THEN "off" ELSE "waiting"]
    OBVIOUS
  <2>2. job' = [job EXCEPT ![s] = j] /\ rows' = rows /\ settled' = IF free THEN settled \cup {s} ELSE settled
    BY <1>3, <2>1 DEF SetActiveUpdate, lifeVars
  <2> HIDE DEF others, free
  <2>3. j.kind = "year" /\ j.id = job[s].id /\ j.others = others /\ (free => j.at = "off")
    BY <1>1, <2>1 DEF YearJobs
  <2> USE DEF others
  <2>4. settled' = settled \/ (settled' = settled \cup {s} /\ j.at = "off" /\ j.others = Others(j.id))
    BY <2>2, <2>3
  <2> QED BY <1>2, <2>2, <2>3, <2>4, SettledGrow
<1>4. CASE SetActiveOthersOff(s)
  <2>1. PICK j : j = [job[s] EXCEPT !.at = "off"]
    OBVIOUS
  <2>2. /\ job' = [job EXCEPT ![s] = j] /\ rows' = rows
        /\ settled' = IF job[s].others = Others(job[s].id) THEN settled \cup {s} ELSE settled
    BY <1>4, <2>1 DEF SetActiveOthersOff
  <2>3. j.kind = "year" /\ j.id = job[s].id /\ j.others = job[s].others /\ j.at = "off"
    BY <1>1, <2>1 DEF YearJobs
  <2> QED BY <1>2, <2>2, <2>3, SettledGrow
<1> QED BY <1>3, <1>4

\* Whoever was settled leaves its own year active, at most.
LEMMA SetActiveCommitKeepsYears ==
  ASSUME LifeInv, YearsInv, LifeRowsStep, NEW s \in Sessions, SetActiveCommit(s)
  PROVE  YearsInv'
<1>1. job[s] \in YearJobs /\ LifeJobFits(job[s], rows) /\ job[s].kind = "year"
  BY LifeJobOf, LifeJobKinds DEF SetActiveCommit, Working
<1>2. /\ rows' = [i \in RowIds |-> IF i \in job[s].others THEN [rows[i] EXCEPT !.on = FALSE]
                                   ELSE IF i = job[s].id /\ ~job[s].on THEN [rows[i] EXCEPT !.on = TRUE]
                                   ELSE rows[i]]
      /\ settled' = IF s \in settled THEN (settled \ {s}) \cup {Everyone} ELSE settled \ {Everyone}
      /\ job' = [job EXCEPT ![s] = NoJob]
  BY DEF SetActiveCommit, EndJob
<1>3. DOMAIN job = Sessions /\ job'[s] = NoJob /\ \A k \in Sessions \ {s} : job'[k] = job[k]
  BY <1>2 DEF LifeInv, LifeJobsFit
<1>4. PutsFindActive'
  BY <1>3, NoJobCopies DEF YearsInv, PutsFindActive
<1>5. Table("year")' = Table("year")
  <2>1. \A i \in RowIds : rows[i].table = "year" => rows'[i].table = "year"
    BY DEF LifeRowsStep, TableStays, NoRow
  <2>2. ASSUME NEW i \in RowIds, rows[i].table # "year" PROVE rows'[i] = rows[i]
    <3>1. i \notin job[s].others /\ i # job[s].id
      BY <1>1, <2>2 DEF LifeJobFits
    <3> QED BY <1>2, <3>1
  <2> QED BY <2>1, <2>2 DEF Table
<1>6. SettledKnowAll'
  <2>1. \A k \in settled' \ {Everyone} : k \in settled \ {Everyone} /\ k # s
    BY <1>2
  <2> QED BY <1>3, <1>5, <2>1 DEF YearsInv, SettledKnowAll, Working, Others
<1>7. OneOn'
  <2> SUFFICES ASSUME Everyone \in settled', NEW y \in Table("year"), rows'[y].on PROVE y = job[s].id
    BY <1>5 DEF OneOn
  <2>1. s \in settled /\ s # Everyone
    BY <1>2, StudentLifeAssumption
  <2>2. job[s].others = Table("year") \ {job[s].id}
    BY <2>1 DEF YearsInv, SettledKnowAll, Others
  <2>3. ASSUME y \in job[s].others PROVE FALSE
    <3>1. y \in RowIds /\ rows[y] \in Years
      BY RowKinds, LifeRowTables DEF Table, LifeInv
    <3>2. rows'[y] = [rows[y] EXCEPT !.on = FALSE]
      BY <1>2, <2>3, <3>1
    <3> QED BY <3>1, <3>2 DEF Years
  <2> QED BY <2>2, <2>3
<1> QED BY <1>4, <1>6, <1>7 DEF YearsInv

LEMMA TablesKeepYears ==
  ASSUME LifeInv, YearsInv, LifeRowsStep,
         \/ \E r \in NewRows : Create(r)
         \/ \E i \in RowIds : RemoveMember(i) \/ DeleteClub(i) \/ DeleteActivity(i) \/ DeleteYear(i)
  PROVE  YearsInv'
<1>1. job' = job /\ PutsFindActive' /\ settled' \subseteq settled
  BY DEF Create, RemoveMember, DeleteClub, DeleteActivity, DeleteYear, YearsInv, PutsFindActive
<1>2. CASE YearsRest
  BY <1>1, <1>2, YearsKept
<1>3. CASE settled' = {}
  BY <1>1, <1>3 DEF YearsInv, SettledKnowAll, OneOn
<1>4. YearsRest \/ settled' = {}
  <2>1. ASSUME NEW r \in NewRows, Create(r) PROVE YearsRest \/ settled' = {}
    <3>1. PICK i : rows' = [rows EXCEPT ![i] = r]
      BY <2>1 DEF Create, Add
    <3> QED BY <2>1, <3>1, OtherRow DEF Create
  <2>2. ASSUME NEW i \in RowIds, RemoveMember(i) \/ DeleteActivity(i) PROVE YearsRest
    <3>1. rows' = [rows EXCEPT ![i] = GoneRow] /\ GoneRow.table # "year"
      BY <2>2 DEF RemoveMember, DeleteActivity, GoneRow
    <3> QED BY <3>1, OtherRow
  <2>3. ASSUME NEW k \in RowIds, DeleteClub(k) PROVE YearsRest
    <3>1. \A i \in RowIds : rows'[i] = GoneRow \/ rows'[i] = rows[i]
      BY <2>3 DEF DeleteClub
    <3> QED BY <3>1 DEF YearsRest, GoneRow
  <2>4. ASSUME NEW y \in RowIds, DeleteYear(y) PROVE YearsRest
    <3>1. rows' = [rows EXCEPT ![y].on = FALSE] /\ rows[y].table = "year" /\ rows[y].on
      BY <2>4 DEF DeleteYear, Table
    <3> QED BY <3>1 DEF YearsRest, LifeInv, LifeRowsFit
  <2> QED BY <2>1, <2>2, <2>3, <2>4
<1> QED BY <1>2, <1>3, <1>4

LEMMA YearsStep == LifeInv /\ YearsInv /\ LifeRowsStep /\ [LifeNext]_<<job, alone, lifeVars>> => YearsInv'
<1> SUFFICES ASSUME LifeInv, YearsInv, LifeRowsStep, [LifeNext]_<<job, alone, lifeVars>> PROVE YearsInv'
  OBVIOUS
<1>1. CASE UNCHANGED <<job, alone, lifeVars>>
  <2>1. rows' = rows /\ job' = job /\ settled' = settled
    BY <1>1 DEF lifeVars
  <2>2. YearsRest /\ PutsFindActive'
    BY <2>1 DEF YearsRest, YearsInv, PutsFindActive
  <2> QED BY <2>1, <2>2, YearsKept
<1>2. CASE LifeNext
  <2>1. ASSUME NEW s \in Sessions, \E r \in NewRows : JoinRead(s, r) PROVE YearsInv'
    <3>1. PICK r \in NewRows : JoinRead(s, r)
      BY <2>1
    <3>2. \E i \in RowIds : TRUE
      BY <3>1 DEF JoinRead, Table
    <3> QED BY <2>1, <3>2, ReadsKeepYears
  <2> QED BY <1>2, <2>1, ReadsKeepYears, CommitsKeepYears, OthersOffKeepsYears, SetActiveCommitKeepsYears, TablesKeepYears
          DEF LifeNext
<1> QED BY <1>1, <1>2

\* Never are two years active after a set-active that knew of all years, whatever
\* else is going on.
THEOREM OneYearCorrect == LifeSpec => []OneActiveYear
<1>1. LifeInit => YearsInv
  BY DEF LifeInit, JobInit, NoJob, YearsInv, PutsFindActive, CopiesOn, SettledKnowAll, OneOn
<1>2. YearsInv => OneActiveYear
  <2> SUFFICES ASSUME YearsInv, Everyone \in settled PROVE Cardinality({y \in Table("year") : rows[y].on}) <= 1
    BY DEF OneActiveYear
  <2>1. PICK O : O = {y \in Table("year") : rows[y].on}
    OBVIOUS
  <2>2. \A y, z \in O : y = z
    BY <2>1 DEF YearsInv, OneOn
  <2>3. O = {} \/ \E y : O = {y}
    BY <2>2
  <2>4. CASE O = {}
    BY <2>1, <2>4, FS_EmptySet
  <2>5. ASSUME NEW y, O = {y} PROVE Cardinality(O) <= 1
    BY <2>5, FS_Singleton
  <2> QED BY <2>1, <2>3, <2>4, <2>5
<1>3. LifeInv /\ YearsInv /\ [LifeNext]_<<job, alone, lifeVars>> => YearsInv'
  BY LifeStep, YearsStep
<1> QED BY <1>1, <1>2, <1>3, LifeInvariant, PTL DEF LifeSpec

\* The two leaderboards agree, for any number of students, clubs and rows.
THEOREM LeaderboardsCorrect == LifeSpec => []LeaderboardsAgree
<1>1. LifeInv => LifeRowsFit /\ ClubsFit
  BY DEF LifeInv
<1> QED
  BY <1>1, LeaderboardSums, LifeInvariant, PTL
================================================================================
