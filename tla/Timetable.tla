------------------------------ MODULE Timetable ------------------------------
(***************************************************************************)
(* The timetable of a school: the rows of the timetable table, the periods  *)
(* they refer to, the generator that fills the week of one class, and the   *)
(* manual edits and swaps of principals.                                     *)
(*                                                                         *)
(* A request runs in a session of its own under READ COMMITTED; job[s] is    *)
(* what the request of session s has read and decided.  The generator reads  *)
(* the periods, works on its own memory, and inserts everything in one       *)
(* commit; it never reads the timetable table.  A swap reads two rows, asks  *)
(* twice whether a teacher is taken, and writes both rows in one commit.     *)
(* Random choices of the generator are nondeterministic.  School membership  *)
(* of classes, teachers and subjects is decided before any of this and is    *)
(* left out, and so is is_editable: no code ever clears it.                  *)
(***************************************************************************)
EXTENDS Integers, FiniteSets, Sequences, School

CONSTANTS Days,           \* days of the week, as numbers
          Periods,        \* period rows
          Number,         \* Number[p]: period_number
          Recess,         \* the periods with is_recess set
          DayOf,          \* DayOf[p]: day_of_week of the period, NoDay when it has none
          NoDay,
          EntryIds,       \* bound: ids of timetable rows
          GenerateRequests, \* bodies of POST /generate that are tried
          NewEntries,     \* bodies of POST /timetable that are tried
          EntryChanges,   \* bodies of PUT /timetable/{id} that are tried
          MorningNamed,   \* last morning period for subjects named as core
          MorningCore,    \* last morning period for requirements flagged core
          MaxRows,        \* bound: rows one generation may insert
          MaxEdits        \* bound: manual changes of entries and periods

VARIABLES timetable,  \* timetable[e]: the row, or NoEntry
          periods,    \* periods[p]: "active" or "inactive"
          edits       \* history: manual changes made

timetableVars == <<timetable, periods, edits>>

-----------------------------------------------------------------------------
(* Rows and requests. *)

NoEntry == [class |-> "none"]
Entries == [class : Classes, teacher : Teachers, day : Days, period : Periods, active : BOOLEAN]

\* One requirement of a request: how often a subject is taught, by whom and how.
Requirements == [subject : Subjects, teacher : Teachers, periods : 1 .. 10, core : BOOLEAN,
                 named : BOOLEAN, consecutive : BOOLEAN, gap : Nat]

\* Limits of 0 are unset.  blocked[t]: days teacher t is away; allowed[x]: the
\* periods subject x is restricted to.
GenerateBodies == [class : Classes, days : SUBSET Days, needs : Seq(Requirements),
                   maxDay : Nat, maxWeek : Nat, blocked : [Teachers -> SUBSET Days],
                   allowed : [Subjects -> SUBSET Periods], dry : BOOLEAN]

Lessons == [subject : Subjects, teacher : Teachers, day : Days, period : Periods,
            need : Nat, attempt : Nat]

GenerateJobs == [kind : {"generate"}, body : GenerateRequests, phase : {"grid", "place"},
                 grid : SUBSET (Days \X Periods), todo : SUBSET Nat, placed : Nat,
                 lessons : SUBSET Lessons]
SwapJobs == [kind : {"swap"}, ids : EntryIds \X EntryIds, rows : Entries \X Entries, phase : 1 .. 3]
UpdateJobs == [kind : {"update"}, id : EntryIds, row : Entries, change : EntryChanges]

ASSUME TimetableAssumption ==
  /\ Days \subseteq Nat \ {0} /\ Number \in [Periods -> Nat] /\ Recess \subseteq Periods
  /\ DayOf \in [Periods -> Days \cup {NoDay}]
  /\ GenerateRequests \subseteq GenerateBodies /\ NewEntries \subseteq Entries
  /\ \A c \in EntryChanges : /\ "class" \in DOMAIN c => c.class \in Classes
                             /\ "teacher" \in DOMAIN c => c.teacher \in Teachers
                             /\ "day" \in DOMAIN c => c.day \in Days
                             /\ "period" \in DOMAIN c => c.period \in Periods
                             /\ "active" \in DOMAIN c => c.active \in BOOLEAN
  /\ IsFiniteSet(EntryIds)
  /\ MorningNamed \in Nat /\ MorningCore \in Nat /\ MaxRows \in Nat /\ MaxEdits \in Nat

ActiveEntries == {e \in EntryIds : timetable[e] # NoEntry /\ timetable[e].active}
ActivePeriods == {p \in Periods : periods[p] = "active"}
FreeIds == {e \in EntryIds : timetable[e] = NoEntry}

\* Ids kept for the generations under way.
Reserved == MaxRows * Cardinality({s \in Sessions : Working(s, "generate") /\ ~job[s].body.dry})

TimetableInit == /\ timetable = [e \in EntryIds |-> NoEntry]
                 /\ periods = [p \in Periods |-> "active"]
                 /\ JobInit
                 /\ edits = 0

-----------------------------------------------------------------------------
(* The generator's memory: all of it follows from the lessons placed so far. *)

DailyLoad(L, t, d) == Cardinality({l \in L : l.teacher = t /\ l.day = d})
WeeklyLoad(L, t) == Cardinality({l \in L : l.teacher = t})
TimesOn(L, x, d) == Cardinality({l \in L : l.subject = x /\ l.day = d})
\* Mutant: slots are not marked occupied.
TakenNothing(L) == {}
Taken(L) == {<<l.day, l.period>> : l \in L}
Apart(d, e) == IF d < e THEN e - d ELSE d - e

\* Mutant: the limits are compared with <=.
CanAssignTeacherOneMore(body, L, t, d) ==
  /\ body.maxDay > 0 => DailyLoad(L, t, d) <= body.maxDay
  /\ body.maxWeek > 0 => WeeklyLoad(L, t) <= body.maxWeek

\* can_assign_teacher: asked once per attempt and day, before a double period too.
CanAssignTeacher(body, L, t, d) ==
  /\ body.maxDay > 0 => DailyLoad(L, t, d) < body.maxDay
  /\ body.maxWeek > 0 => WeeklyLoad(L, t) < body.maxWeek

\* Mutant: the gap counts the free days in between.
ValidGapLoose(n, L, d) == \A l \in L : l.subject = n.subject => n.gap = 0 \/ Apart(l.day, d) + 1 >= n.gap
ValidGap(n, L, d) == \A l \in L : l.subject = n.subject => n.gap = 0 \/ Apart(l.day, d) >= n.gap

\* find_consecutive_slots: the first two free periods with adjacent numbers.
ConsecutiveSlots(free) ==
  LET Pairs == {pq \in free \X free : Number[pq[2]] = Number[pq[1]] + 1}
  IN {{pq[1], pq[2]} : pq \in {x \in Pairs : \A y \in Pairs : Number[x[1]] <= Number[y[1]]}}

\* Core subjects prefer the morning periods while any of them is free.
SingleSlots(n, free) ==
  LET morning == {p \in free : \/ n.named /\ Number[p] <= MorningNamed
                               \/ ~n.named /\ n.core /\ Number[p] <= MorningCore}
  IN {{p} : p \in IF morning = {} THEN free ELSE morning}

\* What the generator may pick on day d for need n.
Picks(body, grid, n, L, d) ==
  LET free == {p \in Periods : <<d, p>> \in grid \ Taken(L)}
  IN IF ~CanAssignTeacher(body, L, n.teacher, d) \/ ~ValidGap(n, L, d) THEN {}
     ELSE IF n.consecutive THEN ConsecutiveSlots(free) ELSE SingleSlots(n, free)

\* validate_teacher_availability and validate_subject_timing, for each slot picked.
Valid(body, n, L, d, slots) ==
  /\ d \notin body.blocked[n.teacher]
  /\ \A p \in slots : /\ p \in body.allowed[n.subject]
                      /\ \A l \in L : ~(l.teacher = n.teacher /\ l.day = d /\ l.period = p)

\* Mutant: only a day with an invalid pick is passed over.
MayPassPicked(body, grid, n, L, d) == \E slots \in Picks(body, grid, n, L, d) : ~Valid(body, n, L, d, slots)

\* One random pick per day: the day is passed over when there is none or it is invalid.
MayPass(body, grid, n, L, d) ==
  LET picks == Picks(body, grid, n, L, d)
  IN picks = {} \/ \E slots \in picks : ~Valid(body, n, L, d, slots)

\* Requirements are taken in order of difficulty, equal ones as they were given.
Difficulty(n) == (IF n.consecutive THEN 200 ELSE 0) + (IF n.core THEN 100 ELSE 0) + n.periods
Hardest(needs, todo) ==
  CHOOSE i \in todo : \A j \in todo \ {i} :
    \/ Difficulty(needs[i]) > Difficulty(needs[j])
    \/ Difficulty(needs[i]) = Difficulty(needs[j]) /\ i < j

\* initialize_grid: one period row decides whether the periods belong to days.
GridFor(days, sample) ==
  LET teaching == ActivePeriods \ Recess
      DayNumber(p) == IF DayOf[p] = NoDay THEN 1 ELSE DayOf[p]
  IN IF DayOf[sample] # NoDay
     THEN {g \in days \X teaching : g[1] = DayNumber(g[2])}
     ELSE {g \in days \X teaching : DayOf[g[2]] = NoDay}

-----------------------------------------------------------------------------
(* POST /generate. *)

GenerateStart(s, body) ==
  /\ body.dry \/ Cardinality(FreeIds) >= Reserved + MaxRows
  /\ Begin(s, [kind |-> "generate", body |-> body, phase |-> "grid", grid |-> {},
               todo |-> 1 .. Len(body.needs), placed |-> 0, lessons |-> {}])
  /\ UNCHANGED <<timetable, periods, edits>>

ReadGrid(s) ==
  /\ Working(s, "generate") /\ job[s].phase = "grid"
  /\ \/ /\ ActivePeriods = {}                   \* ValueError: answered with success = False
        /\ EndJob(s)
     \/ \E sample \in ActivePeriods :
          job' = [job EXCEPT ![s] = [@ EXCEPT !.phase = "place", !.grid = GridFor(job[s].body.days, sample)]]
  /\ UNCHANGED <<timetable, periods, edits>>

\* schedule_subject, one attempt: days with fewer periods of the subject first,
\* equal days in random order; the first day with a valid pick gets the lesson.
PlaceLesson(s) ==
  /\ Working(s, "generate") /\ job[s].phase = "place" /\ job[s].todo # {}
  /\ LET j == job[s]
         i == Hardest(j.body.needs, j.todo)
         n == j.body.needs[i]
         L == j.lessons
         last == j.placed + 1 = n.periods
     IN \E d \in j.body.days : \E slots \in Picks(j.body, j.grid, n, L, d) :
          /\ Valid(j.body, n, L, d, slots)
          /\ \A e \in j.body.days :
               TimesOn(L, n.subject, e) < TimesOn(L, n.subject, d) => MayPass(j.body, j.grid, n, L, e)
          /\ job' = [job EXCEPT ![s] = [j EXCEPT
               !.lessons = L \cup {[subject |-> n.subject, teacher |-> n.teacher, day |-> d, period |-> p,
                                    need |-> i, attempt |-> j.placed] : p \in slots},
               !.placed = IF last THEN 0 ELSE j.placed + 1,
               !.todo = IF last THEN j.todo \ {i} ELSE j.todo]]
  /\ UNCHANGED <<timetable, periods, edits>>

\* Every day was passed over: the rest of this subject stays unassigned.
GiveUpSubject(s) ==
  /\ Working(s, "generate") /\ job[s].phase = "place" /\ job[s].todo # {}
  /\ LET j == job[s]
         i == Hardest(j.body.needs, j.todo)
     IN /\ \A d \in j.body.days : MayPass(j.body, j.grid, j.body.needs[i], j.lessons, d)
        /\ job' = [job EXCEPT ![s] = [@ EXCEPT !.todo = j.todo \ {i}, !.placed = 0]]
  /\ UNCHANGED <<timetable, periods, edits>>

\* Flush and commit of all lessons together; a dry run writes nothing.
SaveTimetable(s) ==
  /\ Working(s, "generate") /\ job[s].phase = "place" /\ job[s].todo = {}
  /\ LET j == job[s]
         RowOf(l) == [class |-> j.body.class, teacher |-> l.teacher, day |-> l.day,
                      period |-> l.period, active |-> TRUE]
     IN IF j.body.dry THEN timetable' = timetable
        ELSE \E ids \in {X \in SUBSET FreeIds : Cardinality(X) = Cardinality(j.lessons)} :
               /\ \A e \in FreeIds \ ids : \A x \in ids : x < e
               /\ LET f == CHOOSE g \in [ids -> j.lessons] : \A x, y \in ids : x # y => g[x] # g[y]
                  IN timetable' = [e \in EntryIds |-> IF e \in ids THEN RowOf(f[e]) ELSE timetable[e]]
  /\ EndJob(s)
  /\ UNCHANGED <<periods, edits>>

-----------------------------------------------------------------------------
(* POST /swap and POST /check-conflict. *)

\* What the schedule pages read.
ClassTimetable(c) == {e \in ActiveEntries : timetable[e].class = c}
TeacherTimetable(t) == {e \in ActiveEntries : timetable[e].teacher = t}
ScheduleForDay(entries, d) == {e \in entries : timetable[e].day = d}

\* check_teacher_conflict: the other active rows of the teacher at that time.
\* One is a conflict; scalar_one_or_none raises on more, which ends the request too.
TeacherConflicts(t, d, p, except) ==
  {e \in ScheduleForDay(TeacherTimetable(t), d) \ except : timetable[e].period = p}

SwapStart(s, e1, e2) ==
  /\ e1 \in ActiveEntries /\ e2 \in ActiveEntries
  /\ Begin(s, [kind |-> "swap", ids |-> <<e1, e2>>, rows |-> <<timetable[e1], timetable[e2]>>, phase |-> 1])
  /\ UNCHANGED <<timetable, periods, edits>>

\* Mutant: only the first teacher is asked for.
SwapCheckOne(s) ==
  /\ Working(s, "swap") /\ job[s].phase = 1
  /\ LET mine == job[s].rows[1]
         other == job[s].rows[2]
     IN IF TeacherConflicts(mine.teacher, other.day, other.period, {job[s].ids[1]}) = {}
        THEN job' = [job EXCEPT ![s].phase = 3]
        ELSE EndJob(s)
  /\ UNCHANGED <<timetable, periods, edits>>

\* _can_swap asks for the first teacher at the second time, then the reverse.
SwapCheck(s) ==
  /\ Working(s, "swap") /\ job[s].phase \in {1, 2}
  /\ LET k == job[s].phase
         mine == job[s].rows[k]
         other == job[s].rows[3 - k]
     IN IF TeacherConflicts(mine.teacher, other.day, other.period, {job[s].ids[k]}) = {}
        THEN job' = [job EXCEPT ![s].phase = k + 1]
        ELSE EndJob(s)
  /\ UNCHANGED <<timetable, periods, edits>>

\* The teachers as they were read change places; a row whose teacher stays the
\* same is not written.
SwapCommit(s) ==
  /\ Working(s, "swap") /\ job[s].phase = 3
  /\ LET ids == job[s].ids
         rows == job[s].rows
     IN timetable' = IF rows[1].teacher = rows[2].teacher THEN timetable
                     ELSE [timetable EXCEPT ![ids[1]].teacher = rows[2].teacher,
                                            ![ids[2]].teacher = rows[1].teacher]
  /\ EndJob(s)
  /\ UNCHANGED <<periods, edits>>

-----------------------------------------------------------------------------
(* Entries by hand, and the periods. *)

Edit == edits < MaxEdits /\ edits' = edits + 1

\* POST /timetable inserts the row as it is: nothing is checked against other rows.
CreateEntry(row) ==
  /\ Edit /\ Cardinality(FreeIds) > Reserved
  /\ \E e \in FreeIds : /\ \A x \in FreeIds : e <= x
                        /\ timetable' = [timetable EXCEPT ![e] = row]
  /\ UNCHANGED <<periods, job>>

\* PUT /timetable/{id} loads an active row and writes the fields the body changes.
UpdateEntryRead(s, e, change) ==
  /\ e \in ActiveEntries /\ Edit
  /\ Begin(s, [kind |-> "update", id |-> e, row |-> timetable[e], change |-> change])
  /\ UNCHANGED <<timetable, periods>>

UpdateEntryCommit(s) ==
  /\ Working(s, "update")
  /\ timetable' = [timetable EXCEPT ![job[s].id] = Flushed(@, job[s].row, job[s].change)]
  /\ EndJob(s)
  /\ UNCHANGED <<periods, edits>>

SoftDeleteEntry(e) ==
  /\ Edit /\ e \in ActiveEntries
  /\ timetable' = [timetable EXCEPT ![e].active = FALSE]
  /\ UNCHANGED <<periods, job>>

\* DELETE /clear/{class_id}: one UPDATE over the class's active rows.
ClearClass(c) ==
  /\ Edit /\ ClassTimetable(c) # {}
  /\ timetable' = [e \in EntryIds |->
       IF e \in ClassTimetable(c) THEN [timetable[e] EXCEPT !.active = FALSE] ELSE timetable[e]]
  /\ UNCHANGED <<periods, job>>

\* PUT /periods/{id} finds inactive periods as well; DELETE answers 204 for them.
UpdatePeriod(p, state) ==
  /\ Edit /\ periods[p] # "none"
  /\ periods' = [periods EXCEPT ![p] = state]
  /\ UNCHANGED <<timetable, job>>

DeletePeriod(p) ==
  /\ Edit /\ periods[p] = "active"
  /\ periods' = [periods EXCEPT ![p] = "inactive"]
  /\ UNCHANGED <<timetable, job>>

GenerateStep(s) ==
  \/ \E body \in GenerateRequests : GenerateStart(s, body)
  \/ ReadGrid(s) \/ PlaceLesson(s) \/ GiveUpSubject(s) \/ SaveTimetable(s)

EditStep ==
  \/ \E s \in Sessions :
       \/ \E e1, e2 \in EntryIds : SwapStart(s, e1, e2)
       \/ SwapCheck(s) \/ SwapCommit(s)
       \/ \E e \in EntryIds, c \in EntryChanges : UpdateEntryRead(s, e, c)
       \/ UpdateEntryCommit(s)
  \/ \E row \in NewEntries : CreateEntry(row)
  \/ \E e \in EntryIds : SoftDeleteEntry(e)
  \/ \E c \in Classes : ClearClass(c)
  \/ \E p \in Periods, b \in {"active", "inactive"} : UpdatePeriod(p, b)
  \/ \E p \in Periods : DeletePeriod(p)

WatchSwaps == Watch({"swap"}, timetable' = timetable)

TimetableNext == ((\E s \in Sessions : GenerateStep(s)) \/ EditStep) /\ WatchSwaps

\* A generation that is being served goes on.
TimetableFairness ==
  \A s \in Sessions : WF_job(ReadGrid(s) \/ PlaceLesson(s) \/ GiveUpSubject(s) \/ SaveTimetable(s))

TimetableSpec == TimetableInit /\ [][TimetableNext]_<<job, alone, timetableVars>> /\ TimetableFairness

-----------------------------------------------------------------------------
(* What the timetable promises. *)

\* The table, the periods and the sessions hold values of their types.
TimetableTypeOK ==
  /\ timetable \in [EntryIds -> Entries \cup {NoEntry}]
  /\ periods \in [Periods -> {"active", "inactive"}]
  /\ \A s \in Sessions : job[s] \in {NoJob} \cup GenerateJobs \cup SwapJobs \cup UpdateJobs
  /\ edits \in 0 .. MaxEdits /\ alone \subseteq Sessions

Generating == {s \in Sessions : Working(s, "generate")}

\* A generated week of a class is one that can be held: no two lessons at the
\* same time, and a consecutive requirement always gets two adjacent periods of
\* one day, never one of the two.
LessonsFit ==
  \A s \in Generating :
    LET L == job[s].lessons
    IN /\ \A l, m \in L : l # m => l.day # m.day \/ l.period # m.period
       /\ \A l \in L : LET together == {m \in L : m.need = l.need /\ m.attempt = l.attempt}
                       IN IF job[s].body.needs[l.need].consecutive
                          THEN /\ Cardinality(together) = 2
                               /\ \A m \in together : m.day = l.day /\ Apart(Number[m.period], Number[l.period]) <= 1
                          ELSE together = {l}

\* The docstring of the limits says that teachers cannot exceed them.  They are
\* checked once per attempt, so a double period may: a day or a week of a teacher
\* that has one holds a lesson too many at most, and no other passes its limit.
Slack(needs, L) == IF \E l \in L : needs[l.need].consecutive THEN 1 ELSE 0
LimitsPassedByDoubles ==
  \A s \in Generating : \A t \in Teachers :
    LET body == job[s].body
        week == {l \in job[s].lessons : l.teacher = t}
        Day(d) == {l \in week : l.day = d}
    IN /\ body.maxDay > 0 => \A d \in Days : Cardinality(Day(d)) <= body.maxDay + Slack(body.needs, Day(d))
       /\ body.maxWeek > 0 => Cardinality(week) <= body.maxWeek + Slack(body.needs, week)

\* Two attempts of one requirement lie at least its gap apart, whatever days
\* were full, blocked or passed over in between.
SpacingKept ==
  \A s \in Generating : \A l, m \in job[s].lessons :
    l.need = m.need /\ l.attempt # m.attempt => Apart(l.day, m.day) >= job[s].body.needs[l.need].gap

\* Pairs of lessons that put one teacher in two places at once.
Clashes == {x \in ActiveEntries \X ActiveEntries :
              x[1] # x[2] /\ x[2] \in TeacherConflicts(timetable[x[1]].teacher, timetable[x[1]].day,
                                                    timetable[x[1]].period, {})}

\* A swap that nobody interfered with puts no teacher in two places at once.
SwapsMakeNoClash ==
  [][\A s \in Sessions :
       s \in alone /\ Working(s, "swap") /\ job[s].phase = 3 /\ job'[s] = NoJob
         => Clashes' \subseteq Clashes]_<<job, timetableVars>>

\* schedule_subject stops at the first period it cannot place, so that every
\* generation ends.
GenerationEnds == \A s \in Sessions : Working(s, "generate") ~> job[s].kind # "generate"

\* Claimed by the validator, for every timetable it lets through: "Teacher
\* availability (can't be in two places at once)".  It knows the lessons of its
\* own generation only, and two generations may book one teacher.
GeneratedTeachersOnce == edits = 0 => Clashes = {}

=============================================================================
