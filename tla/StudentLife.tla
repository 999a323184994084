------------------------------ MODULE StudentLife ------------------------------
(***************************************************************************)
(* Life beside the lessons: clubs with their members and activities, the     *)
(* achievements of students and the rules that give points for them, the      *)
(* leaderboards made of both, and the academic years, of which one is to be    *)
(* active.  The rows of all the tables are kept under one counter of ids.      *)
(*                                                                         *)
(* A PUT of any table is the same two steps: the row is loaded, the fields of  *)
(* the body are set on the copy, and the commit writes those that differ.      *)
(***************************************************************************)
EXTENDS Integers, FiniteSets, FiniteSetsExt, School

CONSTANTS RowIds,        \* bound: ids of rows, in the order they are given out
          FirstRows,     \* what the tables may hold from earlier days
          NewRows,       \* rows that POST requests ask for
          PutBodies,       \* bodies of PUT requests, with the table they are for
          ExamPoints,    \* ExamPoints[a]: marks of student a, over all exams
          MaxWrites      \* bound: writes of PUT and DELETE requests

VARIABLES rows,       \* rows[i]: the row with id i; NoRow before, GoneRow once deleted
          writes,     \* history: PUT and DELETE requests begun
          settled     \* history: set-active requests that turned off every other year there is

lifeVars == <<rows, writes, settled>>

-----------------------------------------------------------------------------
NoRow == [table |-> "none"]
GoneRow == [table |-> "gone"]
Clubs == [table : {"club"}, capacity : Nat \ {0}, count : Nat, open : BOOLEAN]
Members == [table : {"member"}, club : RowIds, student : Students,
            status : {"active", "inactive"}, score : Nat, exited : BOOLEAN]
Activities == [table : {"activity"}, club : RowIds, status : {"planned", "cancelled"}]
Rules == [table : {"rule"}, category : STRING, points : Nat, on : BOOLEAN]
Achievements == [table : {"achievement"}, student : Students, category : STRING,
                 points : Nat, verified : BOOLEAN]
Years == [table : {"year"}, on : BOOLEAN]
LifeRows == Clubs \cup Members \cup Activities \cup Rules \cup Achievements \cup Years

\* Requests in progress.
Joins == [kind : {"join"}, row : Members]
PutJobs == [kind : {"put"}, id : RowIds, copy : LifeRows]
VerifyJobs == [kind : {"verify"}, id : RowIds, copy : Achievements]
DeleteJobs == [kind : {"drop"}, id : RowIds]
YearJobs == [kind : {"year"}, id : RowIds, on : BOOLEAN, others : SUBSET RowIds, at : {"loaded", "waiting", "off"}]

Everyone == "everyone"   \* in settled: so did the last set-active that committed

\* What the update schemas let a body assign, of the fields that are kept here.
Assignable ==
  [club |-> [capacity |-> Nat \ {0}, open |-> BOOLEAN],
   member |-> [status |-> {"active", "inactive"}, score |-> Nat, exited |-> BOOLEAN],
   activity |-> [status |-> {"planned", "cancelled"}],
   rule |-> [category |-> STRING, points |-> Nat, on |-> BOOLEAN],
   achievement |-> [category |-> STRING],
   year |-> [on |-> BOOLEAN]]
BodyFits(t, body) == \A f \in DOMAIN body : f \in DOMAIN Assignable[t] /\ body[f] \in Assignable[t][f]

ASSUME StudentLifeAssumption ==
  /\ RowIds \subseteq Nat \ {0} /\ MaxWrites \in Nat
  /\ IsFiniteSet(RowIds) /\ IsFiniteSet(Students) /\ Everyone \notin Sessions
  /\ ExamPoints \in [Students -> Nat]
  /\ \A r \in NewRows : r \in LifeRows
  /\ \A c \in PutBodies : c.table \in DOMAIN Assignable /\ BodyFits(c.table, c.fields)
  /\ \A f \in FirstRows :
       /\ f \in [RowIds -> LifeRows \cup {NoRow}]
       /\ \A i \in RowIds :
            /\ f[i].table \in {"member", "activity"} => f[f[i].club].table = "club"
            /\ f[i].table = "member" => ~(f[i].exited /\ f[i].status = "active")
            /\ f[i].table = "achievement" /\ ~f[i].verified => f[i].points = 0

LifeInit == rows \in FirstRows /\ writes = 0 /\ settled = {} /\ JobInit

Table(t) == {i \in RowIds : rows[i].table = t}
Present(i) == rows[i] \notin {NoRow, GoneRow}

\* CHECK and UNIQUE constraints and foreign keys of the tables.
Acceptable(i, r) ==
  /\ r.table = "club" => r.count <= r.capacity
  /\ r.table = "member" => ~(r.exited /\ r.status = "active")
  /\ r.table \in {"member", "activity"} => r.club \in Table("club")
  /\ r.table = "rule" => \A k \in Table("rule") \ {i} : rows[k].category # r.category

\* INSERT: the next id.
Add(r) ==
  \E i \in Table("none") :
    /\ \A k \in Table("none") : i <= k
    /\ Acceptable(i, r)
    /\ rows' = [rows EXCEPT ![i] = r]

\* Rows that the commit of another session still has to release.
Locked(s, i) == \E o \in Sessions \ {s} : Working(o, "year") /\ job[o].at = "off" /\ i \in job[o].others

-----------------------------------------------------------------------------
(* What every table has. *)

\* POST of a club, an activity, a rule or a year, or of an unverified achievement.
Create(r) ==
  /\ r.table # "member"
  /\ r.table = "achievement" => ~r.verified /\ r.points = 0
  /\ Add(r)
  /\ settled' = IF r.table = "year" THEN {} ELSE settled
  /\ UNCHANGED <<job, writes>>

\* A verified achievement is not edited, and an inactive year is not found.
Editable(r) == (r.table = "achievement" => ~r.verified) /\ (r.table = "year" => r.on)

PutRead(s, i, c) ==
  /\ Present(i) /\ rows[i].table = c.table /\ Editable(rows[i])
  /\ writes < MaxWrites /\ writes' = writes + 1
  /\ Begin(s, [kind |-> "put", id |-> i, copy |-> rows[i], change |-> c.fields])
  /\ UNCHANGED <<rows, settled>>

\* Mutant: the whole row is written back.
PutCommitWhole(s) ==
  /\ Working(s, "put") /\ Present(job[s].id)
  /\ LET i == job[s].id  c == job[s].change
     IN rows' = [rows EXCEPT ![i] = [f \in DOMAIN @ |-> IF f \in DOMAIN c THEN c[f] ELSE job[s].copy[f]]]
  /\ EndJob(s) /\ UNCHANGED <<writes, settled>>

PutCommit(s) ==
  /\ Working(s, "put") /\ Present(job[s].id) /\ ~Locked(s, job[s].id)
  /\ LET i == job[s].id
         r == Flushed(rows[i], job[s].copy, job[s].change)
     IN /\ Acceptable(i, r)
        /\ rows' = [rows EXCEPT ![i] = r]
  /\ EndJob(s) /\ UNCHANGED <<writes, settled>>

\* Anything that raises before the commit, a constraint, a row that is gone and a
\* deadlock the database breaks included.
LifeRequestFails(s) ==
  /\ job[s] # NoJob /\ EndJob(s)
  /\ settled' = settled \ {s} /\ UNCHANGED <<rows, writes>>

-----------------------------------------------------------------------------
(* Clubs. *)

\* add_student_to_club: the club is not full by its count of members, which is
\* never raised, and the student is not an active member.
JoinRead(s, r) ==
  /\ r.table = "member" /\ r.club \in Table("club")
  /\ rows[r.club].count < rows[r.club].capacity
  /\ ~\E m \in Table("member") : rows[m].club = r.club /\ rows[m].student = r.student /\ rows[m].status = "active"
  /\ Begin(s, [kind |-> "join", row |-> r])
  /\ UNCHANGED lifeVars

JoinCommit(s) ==
  /\ Working(s, "join") /\ Add(job[s].row)
  /\ EndJob(s) /\ UNCHANGED <<writes, settled>>

\* remove_member and remove_member_by_student (which may take any of several).
RemoveMember(i) ==
  /\ i \in Table("member") /\ writes < MaxWrites /\ writes' = writes + 1
  /\ rows' = [rows EXCEPT ![i] = GoneRow]
  /\ UNCHANGED <<job, settled>>

\* delete_club with what belongs to the club.
DeleteClub(k) ==
  /\ k \in Table("club") /\ writes < MaxWrites /\ writes' = writes + 1
  /\ rows' = [i \in RowIds |-> IF \/ i = k
                                  \/ i \in Table("member") \cup Table("activity") /\ rows[i].club = k
                               THEN GoneRow ELSE rows[i]]
  /\ UNCHANGED <<job, settled>>

DeleteActivity(i) ==
  /\ i \in Table("activity") /\ writes < MaxWrites /\ writes' = writes + 1
  /\ rows' = [rows EXCEPT ![i] = GoneRow]
  /\ UNCHANGED <<job, settled>>

-----------------------------------------------------------------------------
(* Achievements. *)

VerifyRead(s, i) ==
  /\ i \in Table("achievement") /\ ~rows[i].verified
  /\ Begin(s, [kind |-> "verify", id |-> i, copy |-> rows[i]])
  /\ UNCHANGED lifeVars

\* The points of the rule that is on for the category as it was read.
PointsFor(category) ==
  LET rule == {k \in Table("rule") : rows[k].category = category /\ rows[k].on}
  IN IF rule = {} THEN 0 ELSE rows[CHOOSE k \in rule : TRUE].points

VerifyCommit(s) ==
  /\ Working(s, "verify") /\ Present(job[s].id)
  /\ LET change == [verified |-> TRUE, points |-> PointsFor(job[s].copy.category)]
     IN rows' = [rows EXCEPT ![job[s].id] = Flushed(@, job[s].copy, change)]
  /\ EndJob(s) /\ UNCHANGED <<writes, settled>>

\* delete_achievement, only of what is read as unverified.
DropRead(s, i) ==
  /\ i \in Table("achievement") /\ ~rows[i].verified
  /\ writes < MaxWrites /\ writes' = writes + 1
  /\ Begin(s, [kind |-> "drop", id |-> i])
  /\ UNCHANGED <<rows, settled>>

DropCommit(s) ==
  /\ Working(s, "drop")
  /\ rows' = [rows EXCEPT ![job[s].id] = GoneRow]
  /\ EndJob(s) /\ UNCHANGED <<writes, settled>>

-----------------------------------------------------------------------------
(* Academic years. *)

\* set_active_academic_year loads the year that is to be active, ...
SetActiveRead(s, y) ==
  /\ y \in Table("year")
  /\ Begin(s, [kind |-> "year", id |-> y, on |-> rows[y].on, others |-> {}, at |-> "loaded"])
  /\ UNCHANGED lifeVars

\* Mutant: only the year that is active is turned off.
OthersActive(y) == {i \in Table("year") : rows[i].on /\ i # y}
Others(y) == Table("year") \ {y}

\* ... sends the UPDATE of the others, which finds the years there are then and
\* turns them off at once when no other session has locked one, ...
SetActiveUpdate(s) ==
  /\ Working(s, "year") /\ job[s].at = "loaded"
  /\ LET others == Others(job[s].id)
         free == \A i \in others : ~Locked(s, i)
     IN /\ job' = [job EXCEPT ![s] = [@ EXCEPT !.others = others, !.at = IF free THEN "off" ELSE "waiting"]]
        /\ settled' = IF free THEN settled \cup {s} ELSE settled
  /\ UNCHANGED <<rows, writes>>

\* ... or after a wait: those it found, and none that came since.  (That it locks
\* them row by row can only end more requests, by a deadlock.)
SetActiveOthersOff(s) ==
  /\ Working(s, "year") /\ job[s].at = "waiting"
  /\ \A i \in job[s].others : ~Locked(s, i)
  /\ job' = [job EXCEPT ![s].at = "off"]
  /\ settled' = IF job[s].others = Others(job[s].id) THEN settled \cup {s} ELSE settled
  /\ UNCHANGED <<rows, writes>>

\* Then it turns its own on, unless the copy says that it is.
SetActiveCommit(s) ==
  /\ Working(s, "year") /\ job[s].at = "off"
  /\ job[s].on \/ ~Locked(s, job[s].id)
  /\ rows' = [i \in RowIds |-> IF i \in job[s].others THEN [rows[i] EXCEPT !.on = FALSE]
                               ELSE IF i = job[s].id /\ ~job[s].on THEN [rows[i] EXCEPT !.on = TRUE]
                               ELSE rows[i]]
  /\ settled' = IF s \in settled THEN (settled \ {s}) \cup {Everyone} ELSE settled \ {Everyone}
  /\ EndJob(s) /\ UNCHANGED writes

\* soft_delete_academic_year.
DeleteYear(y) ==
  /\ y \in Table("year") /\ rows[y].on /\ writes < MaxWrites
  /\ \A s \in Sessions : ~(Working(s, "year") /\ job[s].at = "off" /\ y \in job[s].others)
  /\ rows' = [rows EXCEPT ![y].on = FALSE]
  /\ writes' = writes + 1 /\ UNCHANGED <<job, settled>>

-----------------------------------------------------------------------------
LifeNext ==
  /\ \/ \E s \in Sessions :
          \/ \E i \in RowIds : VerifyRead(s, i) \/ DropRead(s, i) \/ SetActiveRead(s, i)
          \/ \E i \in RowIds, c \in PutBodies : PutRead(s, i, c)
          \/ \E r \in NewRows : JoinRead(s, r)
          \/ JoinCommit(s) \/ PutCommit(s) \/ VerifyCommit(s) \/ DropCommit(s)
          \/ SetActiveUpdate(s) \/ SetActiveOthersOff(s) \/ SetActiveCommit(s) \/ LifeRequestFails(s)
     \/ \E r \in NewRows : Create(r)
     \/ \E i \in RowIds : RemoveMember(i) \/ DeleteClub(i) \/ DeleteActivity(i) \/ DeleteYear(i)
  /\ UNCHANGED alone

LifeSpec == LifeInit /\ [][LifeNext]_<<job, alone, lifeVars>>

-----------------------------------------------------------------------------
(* Leaderboards. *)

SumOver(ids, f) == FoldSet(LAMBDA i, t : rows[i][f] + t, 0, ids)

VerifiedOf(a) == {i \in Table("achievement") : rows[i].student = a /\ rows[i].verified}
ActiveOf(a) == {m \in Table("member") : rows[m].student = a /\ rows[m].status = "active"}

\* Mutant: the scores are summed over the join of achievements and memberships.
StudentPointsJoined(a) ==
  SumOver(VerifiedOf(a), "points") * (IF ActiveOf(a) = {} THEN 1 ELSE Cardinality(ActiveOf(a)))
    + ExamPoints[a] + SumOver(ActiveOf(a), "score")

\* _get_student_base_query: each kind of points is summed before they are joined.
StudentPoints(a) == SumOver(VerifiedOf(a), "points") + ExamPoints[a] + SumOver(ActiveOf(a), "score")

\* get_club_leaderboard: every member counts, of clubs that are open.
ClubPoints(k) == SumOver({m \in Table("member") : rows[m].club = k}, "score")
OpenClubs == {k \in Table("club") : rows[k].open}

-----------------------------------------------------------------------------
(* What is promised. *)

\* Rows and requests have their types.
LifeTypeOK ==
  /\ \A i \in RowIds : rows[i] \in LifeRows \cup {NoRow, GoneRow}
  /\ writes \in 0 .. MaxWrites
  /\ settled \subseteq Sessions \cup {Everyone}
  /\ \A s \in Sessions :
       \/ job[s] \in {NoJob} \cup VerifyJobs \cup DeleteJobs \cup YearJobs
       \/ Working(s, "join") /\ job[s].row \in Members
       \/ Working(s, "put") /\ job[s].copy \in LifeRows

\* An achievement that was verified stays verified, and points it was given are
\* not taken away, by edits and second verifications that read it before: only a
\* deletion can remove it.
VerifiedStay ==
  [][\A i \in Table("achievement") : rows[i].verified /\ rows'[i] # GoneRow
       => rows'[i].verified /\ (rows[i].points > 0 => rows'[i].points > 0)]_rows

\* When the last set-active to commit had turned off every other year there is, at
\* most one year is active, whatever set-active requests, edits and deletions overlap.
\* (One that misses a year created after its UPDATE began may leave two.)
OneActiveYear == Everyone \in settled => Cardinality({y \in Table("year") : rows[y].on}) <= 1

\* The two leaderboards count the same scores: what students have beside their
\* marks is their verified points and what the clubs show for them, less the
\* scores of inactive members and of clubs that are closed.
LeaderboardsAgree ==
  LET students == FoldSet(LAMBDA a, t : StudentPoints(a) - ExamPoints[a] + t, 0, Students)
      clubs == FoldSet(LAMBDA k, t : ClubPoints(k) + t, 0, OpenClubs)
      hidden == {m \in Table("member") : ~rows[rows[m].club].open /\ rows[m].status = "active"}
      ended == {m \in Table("member") : rows[rows[m].club].open /\ rows[m].status # "active"}
  IN students = SumOver({i \in Table("achievement") : rows[i].verified}, "points")
                  + clubs + SumOver(hidden, "score") - SumOver(ended, "score")
=============================================================================
