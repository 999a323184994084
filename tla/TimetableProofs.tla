---------------------------- MODULE TimetableProofs ----------------------------
(***************************************************************************)
(* Proofs about Timetable: a generated week can be held, passes the limits of *)
(* a teacher by one lesson at most and keeps the gaps; a swap that nobody      *)
(* disturbed books no teacher twice.                                          *)
(*                                                                         *)
(* A week is built one requirement after the other, and an attempt is counted   *)
(* before the next one begins: so the lessons of an attempt are added together,  *)
(* and no later lesson joins them.  A swap knows what it has read and, after      *)
(* each of its two questions, that the row is free for the other teacher, for as  *)
(* long as nobody writes the table.                                              *)
(***************************************************************************)
EXTENDS Timetable, SumTheorems, TLAPS

-----------------------------------------------------------------------------
(* What a generation has placed. *)

NoTwoAtOnce(L) == \A l, m \in L : l # m => l.day # m.day \/ l.period # m.period
Together(L, l) == {m \in L : m.need = l.need /\ m.attempt = l.attempt}
InPairs(needs, L) ==
  \A l \in L : IF needs[l.need].consecutive
               THEN /\ Cardinality(Together(L, l)) = 2
                    /\ \A m \in Together(L, l) : m.day = l.day /\ Apart(Number[m.period], Number[l.period]) <= 1
               ELSE Together(L, l) = {l}
Spaced(needs, L) ==
  \A l, m \in L : l.need = m.need /\ l.attempt # m.attempt => Apart(l.day, m.day) >= needs[l.need].gap
Week(L, t) == {l \in L : l.teacher = t}
Day(L, t, d) == {l \in L : l.teacher = t /\ l.day = d}
Within(body, L) == \A t \in Teachers :
  /\ body.maxDay > 0 => \A d \in Days : Cardinality(Day(L, t, d)) <= body.maxDay + Slack(body.needs, Day(L, t, d))
  /\ body.maxWeek > 0 => Cardinality(Week(L, t)) <= body.maxWeek + Slack(body.needs, Week(L, t))
WeekFits(body, L) == NoTwoAtOnce(L) /\ InPairs(body.needs, L) /\ Spaced(body.needs, L) /\ Within(body, L)

\* The requirement that is being placed is the hardest that is left, and has
\* lessons of the attempts before this one; no other requirement that is left has any.
Counted(needs, L, todo, placed) ==
  \A l \in L : /\ l.need \in DOMAIN needs /\ l.subject = needs[l.need].subject
               /\ l.need \in todo => l.need = Hardest(needs, todo) /\ l.attempt < placed

GenerationFits(j) ==
  /\ IsFiniteSet(j.lessons) /\ j.todo \subseteq DOMAIN j.body.needs
  /\ Counted(j.body.needs, j.lessons, j.todo, j.placed)
  /\ WeekFits(j.body, j.lessons)

\* What a request knows of the table.
TimetableJobFits(j, E) ==
  /\ j.kind = "generate" => GenerationFits(j)
  /\ j.kind = "swap" => E[j.ids[1]] # NoEntry /\ E[j.ids[2]] # NoEntry
  /\ j.kind = "update" => E[j.id] # NoEntry

\* No row but x has teacher t at this time.
FreeBut(E, t, d, p, x) == \A e \in EntryIds \ {x} : E[e] # NoEntry /\ E[e].active
                                                  => ~(E[e].teacher = t /\ E[e].day = d /\ E[e].period = p)
\* The rows are as they were read, and each of the questions asked has its answer.
SwapKnows(j, E) ==
  \A k \in {1, 2} : /\ E[j.ids[k]] # NoEntry /\ E[j.ids[k]].active /\ j.rows[k] = E[j.ids[k]]
                    /\ k < j.phase => FreeBut(E, j.rows[k].teacher, j.rows[3 - k].day, j.rows[3 - k].period, j.ids[k])

Jobs == {NoJob} \cup GenerateJobs \cup SwapJobs \cup UpdateJobs
TableFits == /\ timetable \in [EntryIds -> Entries \cup {NoEntry}]
             /\ periods \in [Periods -> {"active", "inactive"}]
             /\ edits \in 0 .. MaxEdits
TimetableJobsFit == job \in [Sessions -> Jobs]
TimetableRequestsFit == \A s \in Sessions : TimetableJobFits(job[s], timetable)
SwapsAloneFit == \A s \in alone : s \in Sessions /\ Working(s, "swap") /\ SwapKnows(job[s], timetable)

TimetableInv == TableFits /\ TimetableJobsFit /\ TimetableRequestsFit /\ SwapsAloneFit

-----------------------------------------------------------------------------
(* The hardest requirement that is left. *)

Easier(needs, i, j) == \/ Difficulty(needs[i]) > Difficulty(needs[j])
                       \/ Difficulty(needs[i]) = Difficulty(needs[j]) /\ i < j

LEMMA DifficultyNatural ==
  ASSUME NEW n \in Requirements
  PROVE  Difficulty(n) \in Nat
<1>1. n.periods \in 1 .. 10
  BY DEF Requirements
<1> QED BY <1>1 DEF Difficulty

LEMMA HardestLeft ==
  ASSUME NEW needs \in Seq(Requirements), NEW todo \in SUBSET DOMAIN needs, todo # {}
  PROVE  Hardest(needs, todo) \in todo
<1> DEFINE First(s, i) == \A j \in s \ {i} : Easier(needs, i, j)
           G == {s \in SUBSET todo : s = {} \/ \E i \in s : First(s, i)}
<1>1. DOMAIN needs = 1 .. Len(needs) /\ Len(needs) \in Nat /\ \A i \in DOMAIN needs : needs[i] \in Requirements
  OBVIOUS
<1>2. IsFiniteSet(todo)
  <2>1. IsFiniteSet(DOMAIN needs)
    BY <1>1, FS_Interval
  <2> QED BY <2>1, FS_Subset
<1>3. \A i \in todo : i \in Nat /\ Difficulty(needs[i]) \in Nat
  BY <1>1, DifficultyNatural
<1>4. ASSUME NEW i \in todo, NEW j \in todo, NEW k \in todo, Easier(needs, i, j), Easier(needs, j, k)
      PROVE  Easier(needs, i, k)
  BY <1>3, <1>4 DEF Easier
<1>5. ASSUME NEW i \in todo, NEW j \in todo, i # j PROVE Easier(needs, i, j) \/ Easier(needs, j, i)
  BY <1>3, <1>5 DEF Easier
<1>6. {} \in G
  OBVIOUS
<1>7. ASSUME NEW s \in SUBSET todo, s # {}, \A x \in s : s \ {x} \in G PROVE s \in G
  <2>1. PICK x \in s : TRUE
    BY <1>7
  <2>2. CASE s \ {x} = {}
    BY <2>1, <2>2
  <2>3. CASE s \ {x} # {}
    <3>1. PICK i \in s \ {x} : First(s \ {x}, i)
      BY <1>7, <2>3
    <3>2. CASE Easier(needs, i, x)
      <4>1. First(s, i)
        BY <3>1, <3>2
      <4> QED BY <3>1, <4>1
    <3>3. CASE Easier(needs, x, i)
      <4>1. ASSUME NEW j \in s \ {x} PROVE Easier(needs, x, j)
        <5>1. j = i \/ Easier(needs, i, j)
          BY <3>1
        <5>2. x \in todo /\ i \in todo /\ j \in todo
          BY <2>1, <3>1
        <5> QED BY <1>4, <3>3, <5>1, <5>2
      <4> QED BY <2>1, <4>1
    <3> QED BY <1>5, <2>1, <3>1, <3>2, <3>3
  <2> QED BY <2>2, <2>3
<1>8. todo \in G
  <2> HIDE DEF G
  <2> QED BY <1>2, <1>6, <1>7, EverySubset
<1>9. \E i \in todo : \A j \in todo \ {i} : \/ Difficulty(needs[i]) > Difficulty(needs[j])
                                            \/ Difficulty(needs[i]) = Difficulty(needs[j]) /\ i < j
  BY <1>8 DEF Easier
<1> QED BY <1>9 DEF Hardest

-----------------------------------------------------------------------------
(* One attempt: the lessons N of requirement i on day d, in the periods slots. *)

LessonAt(n, d, i, k, p) ==
  [subject |-> n.subject, teacher |-> n.teacher, day |-> d, period |-> p, need |-> i, attempt |-> k]
LessonsAt(n, d, i, k, slots) == {LessonAt(n, d, i, k, p) : p \in slots}

\* The periods that are picked are free, and two in a row for a double period.
LEMMA PickedSlots ==
  ASSUME NEW body, NEW grid, NEW n \in Requirements, NEW L, NEW d, NEW slots \in Picks(body, grid, n, L, d)
  PROVE  /\ CanAssignTeacher(body, L, n.teacher, d) /\ ValidGap(n, L, d)
         /\ \A p \in slots : p \in Periods /\ <<d, p>> \notin Taken(L)
         /\ n.consecutive => \E p, q \in Periods : slots = {p, q} /\ Number[q] = Number[p] + 1
         /\ ~n.consecutive => \E p \in Periods : slots = {p}
<1>1. PICK free : free = {p \in Periods : <<d, p>> \in grid \ Taken(L)}
  OBVIOUS
<1>2. CanAssignTeacher(body, L, n.teacher, d) /\ ValidGap(n, L, d)
  BY DEF Picks
<1>3. slots \in IF n.consecutive THEN ConsecutiveSlots(free) ELSE SingleSlots(n, free)
  BY <1>1, <1>2 DEF Picks
<1>4. ASSUME n.consecutive
      PROVE  \E p, q \in free : slots = {p, q} /\ Number[q] = Number[p] + 1
  <2>1. slots \in ConsecutiveSlots(free)
    BY <1>3, <1>4
  <2> QED BY <2>1 DEF ConsecutiveSlots
<1>5. ASSUME ~n.consecutive PROVE \E p \in free : slots = {p}
  <2>1. slots \in SingleSlots(n, free)
    BY <1>3, <1>5
  <2> QED BY <2>1 DEF SingleSlots
<1>6. \A p \in slots : p \in free
  BY <1>4, <1>5
<1> QED BY <1>1, <1>2, <1>4, <1>5, <1>6

LEMMA LessonsAdded ==
  ASSUME NEW n \in Requirements, NEW d, NEW i, NEW k, NEW slots, NEW N, N = LessonsAt(n, d, i, k, slots)
  PROVE  /\ \A l \in N : /\ l.subject = n.subject /\ l.teacher = n.teacher /\ l.day = d
                         /\ l.need = i /\ l.attempt = k /\ l.period \in slots
         /\ \A l, m \in N : l # m => l.period # m.period
         /\ \A p \in slots : LessonAt(n, d, i, k, p) \in N
BY DEF LessonsAt, LessonAt

\* As many lessons as periods.
LEMMA LessonsCounted ==
  ASSUME NEW n \in Requirements, NEW d, NEW i, NEW k, NEW slots, NEW N, N = LessonsAt(n, d, i, k, slots),
         n.consecutive => \E p, q \in Periods : slots = {p, q} /\ Number[q] = Number[p] + 1,
         ~n.consecutive => \E p \in Periods : slots = {p}
  PROVE  /\ IsFiniteSet(N)
         /\ n.consecutive => Cardinality(N) = 2 /\ \A l, m \in N : Apart(Number[m.period], Number[l.period]) <= 1
         /\ ~n.consecutive => Cardinality(N) = 1 /\ \A l \in N : N = {l}
<1>1. ASSUME n.consecutive
      PROVE  /\ IsFiniteSet(N) /\ Cardinality(N) = 2
             /\ \A l, m \in N : Apart(Number[m.period], Number[l.period]) <= 1
  <2>1. PICK p, q \in Periods : slots = {p, q} /\ Number[q] = Number[p] + 1
    BY <1>1
  <2>2. PICK a, b : a = LessonAt(n, d, i, k, p) /\ b = LessonAt(n, d, i, k, q)
    OBVIOUS
  <2>3. Number[p] \in Nat /\ Number[q] \in Nat /\ p # q
    BY <2>1, TimetableAssumption
  <2>4. N = {a} \cup {b} /\ a # b
    <3>1. N = {a} \cup {b}
      BY <2>1, <2>2 DEF LessonsAt
    <3>2. a.period = p /\ b.period = q
      BY <2>2 DEF LessonAt
    <3> QED BY <2>3, <3>1, <3>2
  <2>5. IsFiniteSet({a}) /\ Cardinality({a}) = 1
    BY FS_Singleton
  <2>6. IsFiniteSet(N) /\ Cardinality(N) = 2
    <3>1. b \notin {a}
      BY <2>4
    <3>2. IsFiniteSet({a} \cup {b}) /\ Cardinality({a} \cup {b}) = Cardinality({a}) + 1
      BY <2>5, <3>1, FS_AddElement
    <3> QED BY <2>4, <2>5, <3>2
  <2>7. \A l \in N : l.period = p \/ l.period = q
    BY <2>1, LessonsAdded
  <2>8. ASSUME NEW l \in N, NEW m \in N PROVE Apart(Number[m.period], Number[l.period]) <= 1
    <3>1. Number[m.period] \in {Number[p], Number[p] + 1} /\ Number[l.period] \in {Number[p], Number[p] + 1}
      BY <2>1, <2>7
    <3> QED BY <2>3, <3>1 DEF Apart
  <2> QED BY <2>6, <2>8
<1>2. ASSUME ~n.consecutive PROVE IsFiniteSet(N) /\ Cardinality(N) = 1 /\ \A l \in N : N = {l}
  <2>1. PICK p \in Periods : slots = {p}
    BY <1>2
  <2>2. N = {LessonAt(n, d, i, k, p)}
    BY <2>1 DEF LessonsAt
  <2> QED BY <2>2, FS_Singleton
<1> QED BY <1>1, <1>2

\* What there is to know when lessons are added.
Adding(body, L, todo, k, i, n, d, slots, N) ==
  /\ IsFiniteSet(L) /\ L \subseteq Lessons /\ i \in todo /\ i \in DOMAIN body.needs /\ n = body.needs[i]
  /\ \A l \in L : l.need \in DOMAIN body.needs /\ l.subject = body.needs[l.need].subject
                  /\ (l.need = i => l.attempt < k)
  /\ d \in Days /\ k \in Nat /\ N = LessonsAt(n, d, i, k, slots)
  /\ CanAssignTeacher(body, L, n.teacher, d) /\ ValidGap(n, L, d)
  /\ \A p \in slots : p \in Periods /\ <<d, p>> \notin Taken(L)
  /\ n.consecutive => \E p, q \in Periods : slots = {p, q} /\ Number[q] = Number[p] + 1
  /\ ~n.consecutive => \E p \in Periods : slots = {p}

LEMMA BodyTypes ==
  ASSUME NEW body \in GenerateBodies
  PROVE  /\ body.needs \in Seq(Requirements) /\ body.maxDay \in Nat /\ body.maxWeek \in Nat
         /\ DOMAIN body.needs = 1 .. Len(body.needs) /\ Len(body.needs) \in Nat
         /\ \A i \in DOMAIN body.needs : body.needs[i] \in Requirements
         /\ body.days \in SUBSET Days
<1>1. body.needs \in Seq(Requirements) /\ body.maxDay \in Nat /\ body.maxWeek \in Nat /\ body.days \in SUBSET Days
  BY DEF GenerateBodies
<1> QED BY <1>1

\* The old lessons and the new ones are of different attempts and at different times.
LEMMA NewLessons ==
  ASSUME NEW body \in GenerateBodies, NEW L, NEW todo, NEW k, NEW i, NEW n, NEW d, NEW slots, NEW N,
         Adding(body, L, todo, k, i, n, d, slots, N)
  PROVE  /\ n \in Requirements /\ IsFiniteSet(N) /\ N \subseteq Lessons
         /\ \A l \in N : /\ l.subject = n.subject /\ l.teacher = n.teacher /\ l.day = d
                         /\ l.need = i /\ l.attempt = k /\ l.period \in slots
         /\ \A l, m \in N : l # m => l.period # m.period
         /\ \A l \in N, m \in L : /\ l.day # m.day \/ l.period # m.period
                                  /\ ~(l.need = m.need /\ l.attempt = m.attempt)
         /\ n.consecutive => Cardinality(N) = 2 /\ \A l, m \in N : Apart(Number[m.period], Number[l.period]) <= 1
         /\ ~n.consecutive => Cardinality(N) = 1 /\ \A l \in N : N = {l}
<1>1. n \in Requirements
  BY BodyTypes DEF Adding
<1>2. /\ \A l \in N : /\ l.subject = n.subject /\ l.teacher = n.teacher /\ l.day = d
                      /\ l.need = i /\ l.attempt = k /\ l.period \in slots
      /\ \A l, m \in N : l # m => l.period # m.period
  BY <1>1, LessonsAdded DEF Adding
<1>3. /\ IsFiniteSet(N)
      /\ n.consecutive => Cardinality(N) = 2 /\ \A l, m \in N : Apart(Number[m.period], Number[l.period]) <= 1
      /\ ~n.consecutive => Cardinality(N) = 1 /\ \A l \in N : N = {l}
  BY <1>1, LessonsCounted DEF Adding
<1>4. N \subseteq Lessons
  <2> SUFFICES ASSUME NEW p \in slots PROVE LessonAt(n, d, i, k, p) \in Lessons
    BY DEF Adding, LessonsAt
  <2>1. p \in Periods /\ d \in Days /\ k \in Nat /\ i \in Nat
    BY BodyTypes DEF Adding
  <2>2. n.subject \in Subjects /\ n.teacher \in Teachers
    BY <1>1 DEF Requirements
  <2> QED BY <2>1, <2>2 DEF LessonAt, Lessons
<1>5. ASSUME NEW l \in N, NEW m \in L
      PROVE  /\ l.day # m.day \/ l.period # m.period
             /\ ~(l.need = m.need /\ l.attempt = m.attempt)
  <2>1. <<d, l.period>> \notin Taken(L) /\ <<m.day, m.period>> \in Taken(L)
    BY <1>2 DEF Adding, Taken
  <2>2. m.need = i => m.attempt < k
    BY DEF Adding
  <2>3. k \in Nat
    BY DEF Adding
  <2> QED BY <1>2, <2>1, <2>2, <2>3
<1> QED BY <1>1, <1>2, <1>3, <1>4, <1>5

LEMMA NoTwoStays ==
  ASSUME NEW body \in GenerateBodies, NEW L, NEW todo, NEW k, NEW i, NEW n, NEW d, NEW slots, NEW N,
         Adding(body, L, todo, k, i, n, d, slots, N), NoTwoAtOnce(L)
  PROVE  NoTwoAtOnce(L \cup N)
<1> SUFFICES ASSUME NEW l \in L \cup N, NEW m \in L \cup N, l # m PROVE l.day # m.day \/ l.period # m.period
  BY DEF NoTwoAtOnce
<1>1. CASE l \in L /\ m \in L
  BY <1>1 DEF NoTwoAtOnce
<1>2. CASE l \in N /\ m \in N
  BY <1>2, NewLessons
<1>3. CASE l \in N /\ m \in L
  BY <1>3, NewLessons
<1>4. CASE l \in L /\ m \in N
  BY <1>4, NewLessons
<1> QED BY <1>1, <1>2, <1>3, <1>4

LEMMA PairsStay ==
  ASSUME NEW body \in GenerateBodies, NEW L, NEW todo, NEW k, NEW i, NEW n, NEW d, NEW slots, NEW N,
         Adding(body, L, todo, k, i, n, d, slots, N), InPairs(body.needs, L)
  PROVE  InPairs(body.needs, L \cup N)
<1> DEFINE P(l, T) == IF body.needs[l.need].consecutive
                      THEN /\ Cardinality(T) = 2
                           /\ \A m \in T : m.day = l.day /\ Apart(Number[m.period], Number[l.period]) <= 1
                      ELSE T = {l}
<1>1. ASSUME NEW l \in L PROVE P(l, Together(L \cup N, l))
  <2>1. Together(L \cup N, l) = Together(L, l)
    BY NewLessons DEF Together
  <2>2. P(l, Together(L, l))
    BY DEF InPairs
  <2> HIDE DEF P
  <2> QED BY <2>1, <2>2
<1>2. ASSUME NEW l \in N PROVE P(l, Together(L \cup N, l))
  <2>1. Together(L \cup N, l) = N
    BY NewLessons DEF Together
  <2>2. l.need = i /\ \A m \in N : m.day = l.day
    BY NewLessons
  <2>5. body.needs[l.need] = n
    BY <2>2 DEF Adding
  <2>3. CASE n.consecutive
    <3>1. Cardinality(N) = 2 /\ \A m \in N : Apart(Number[m.period], Number[l.period]) <= 1
      BY <2>3, NewLessons
    <3> QED BY <2>1, <2>2, <2>3, <2>5, <3>1
  <2>4. CASE ~n.consecutive
    <3>1. N = {l}
      BY <2>4, NewLessons
    <3> QED BY <2>1, <2>4, <2>5, <3>1
  <2> QED BY <2>3, <2>4
<1> QED BY <1>1, <1>2 DEF InPairs

LEMMA SpacingStays ==
  ASSUME NEW body \in GenerateBodies, NEW L, NEW todo, NEW k, NEW i, NEW n, NEW d, NEW slots, NEW N,
         Adding(body, L, todo, k, i, n, d, slots, N), Spaced(body.needs, L)
  PROVE  Spaced(body.needs, L \cup N)
<1> SUFFICES ASSUME NEW l \in L \cup N, NEW m \in L \cup N, l.need = m.need, l.attempt # m.attempt
             PROVE  Apart(l.day, m.day) >= body.needs[l.need].gap
  BY DEF Spaced
<1>1. CASE l \in L /\ m \in L
  BY <1>1 DEF Spaced
<1>2. l \notin N \/ m \notin N
  BY NewLessons
<1>3. ASSUME NEW o \in L, NEW e \in N, o.need = e.need
      PROVE  Apart(o.day, e.day) >= body.needs[o.need].gap /\ Apart(e.day, o.day) = Apart(o.day, e.day)
  <2>0. e.need = i /\ e.day = d
    BY NewLessons
  <2>1. e.day = d /\ o.subject = n.subject /\ body.needs[o.need] = n
    BY <1>3, <2>0 DEF Adding
  <2>2. n.gap = 0 \/ Apart(o.day, d) >= n.gap
    BY <2>1 DEF Adding, ValidGap
  <2>3. o.day \in Nat /\ d \in Nat
    BY TimetableAssumption DEF Adding, Lessons
  <2> QED BY <2>1, <2>2, <2>3 DEF Apart
<1> QED BY <1>1, <1>2, <1>3

\* A set that is below its limit and gets lessons of one attempt more.
LEMMA OneAttemptMore ==
  ASSUME NEW body \in GenerateBodies, NEW L, NEW todo, NEW k, NEW i, NEW n, NEW d, NEW slots, NEW N,
         Adding(body, L, todo, k, i, n, d, slots, N),
         NEW A \in SUBSET L, NEW B \in SUBSET (A \cup N), NEW limit \in Nat, Cardinality(A) < limit
  PROVE  Cardinality(B) <= limit + Slack(body.needs, B)
<1>1. IsFiniteSet(A) /\ IsFiniteSet(N)
  <2>1. IsFiniteSet(L)
    BY DEF Adding
  <2> QED BY <2>1, FS_Subset, NewLessons
<1>2. IsFiniteSet(A \cup N) /\ Cardinality(A \cup N) <= Cardinality(A) + Cardinality(N)
  <2>1. /\ IsFiniteSet(A \cup N)
        /\ Cardinality(A \cup N) = Cardinality(A) + Cardinality(N) - Cardinality(A \cap N)
    BY <1>1, FS_Union
  <2>2. IsFiniteSet(A \cap N)
    BY <1>1, FS_Subset
  <2> QED BY <1>1, <2>1, <2>2, FS_CardinalityType
<1>3. IsFiniteSet(B) /\ Cardinality(B) <= Cardinality(A \cup N)
  BY <1>2, FS_Subset
<1>4. Cardinality(A) \in Nat /\ Cardinality(B) \in Nat /\ Cardinality(A \cup N) \in Nat /\ Cardinality(N) \in Nat
  BY <1>1, <1>2, <1>3, FS_CardinalityType
<1>5. Slack(body.needs, B) \in Nat
  BY DEF Slack
<1>6. CASE n.consecutive /\ B \cap N # {}
  <2>1. PICK l \in B : l \in N
    BY <1>6
  <2>3. body.needs[l.need].consecutive
    <3>1. l.need = i
      BY <2>1, NewLessons
    <3>2. n = body.needs[i]
      BY DEF Adding
    <3> QED BY <1>6, <3>1, <3>2
  <2>4. Slack(body.needs, B) = 1
    BY <2>1, <2>3 DEF Slack
  <2>2. Cardinality(N) = 2
    BY <1>6, NewLessons
  <2> QED BY <1>2, <1>3, <1>4, <2>2, <2>4
<1>7. CASE B \cap N = {}
  <2>1. B \in SUBSET A
    BY <1>7
  <2>2. Cardinality(B) <= Cardinality(A)
    BY <1>1, <2>1, FS_Subset
  <2> QED BY <1>4, <1>5, <2>2
<1>8. CASE ~n.consecutive
  <2>1. Cardinality(N) <= 1
    BY <1>8, NewLessons
  <2> QED BY <1>2, <1>3, <1>4, <1>5, <2>1
<1> QED BY <1>6, <1>7, <1>8

LEMMA LimitsStay ==
  ASSUME NEW body \in GenerateBodies, NEW L, NEW todo, NEW k, NEW i, NEW n, NEW d, NEW slots, NEW N,
         Adding(body, L, todo, k, i, n, d, slots, N), Within(body, L)
  PROVE  Within(body, L \cup N)
<1>0. body.maxDay \in Nat /\ body.maxWeek \in Nat
  BY BodyTypes
<1>1. ASSUME NEW t \in Teachers, NEW e \in Days, body.maxDay > 0
      PROVE  Cardinality(Day(L \cup N, t, e)) <= body.maxDay + Slack(body.needs, Day(L \cup N, t, e))
  <2>1. CASE t = n.teacher /\ e = d
    <3>1. PICK A, B : A = Day(L, t, e) /\ B = Day(L \cup N, t, e)
      OBVIOUS
    <3>2. A \in SUBSET L /\ B \in SUBSET (A \cup N) /\ Cardinality(A) < body.maxDay
      BY <1>1, <2>1, <3>1 DEF Adding, CanAssignTeacher, DailyLoad, Day
    <3>3. Cardinality(B) <= body.maxDay + Slack(body.needs, B)
      BY <1>0, <3>2, OneAttemptMore
    <3> QED BY <3>1, <3>3
  <2>2. CASE ~(t = n.teacher /\ e = d)
    <3>1. Day(L \cup N, t, e) = Day(L, t, e)
      BY <2>2, NewLessons DEF Day
    <3> QED BY <1>1, <3>1 DEF Within
  <2> QED BY <2>1, <2>2
<1>2. ASSUME NEW t \in Teachers, body.maxWeek > 0
      PROVE  Cardinality(Week(L \cup N, t)) <= body.maxWeek + Slack(body.needs, Week(L \cup N, t))
  <2>1. CASE t = n.teacher
    <3>1. PICK A, B : A = Week(L, t) /\ B = Week(L \cup N, t)
      OBVIOUS
    <3>2. A \in SUBSET L /\ B \in SUBSET (A \cup N) /\ Cardinality(A) < body.maxWeek
      BY <1>2, <2>1, <3>1 DEF Adding, CanAssignTeacher, WeeklyLoad, Week
    <3>3. Cardinality(B) <= body.maxWeek + Slack(body.needs, B)
      BY <1>0, <3>2, OneAttemptMore
    <3> QED BY <3>1, <3>3
  <2>2. CASE t # n.teacher
    <3>1. Week(L \cup N, t) = Week(L, t)
      BY <2>2, NewLessons DEF Week
    <3> QED BY <1>2, <3>1 DEF Within
  <2> QED BY <2>1, <2>2
<1> QED BY <1>1, <1>2 DEF Within

LEMMA WeekStays ==
  ASSUME NEW body \in GenerateBodies, NEW L, NEW todo, NEW k, NEW i, NEW n, NEW d, NEW slots, NEW N,
         Adding(body, L, todo, k, i, n, d, slots, N), WeekFits(body, L)
  PROVE  WeekFits(body, L \cup N)
BY NoTwoStays, PairsStay, SpacingStays, LimitsStay DEF WeekFits

-----------------------------------------------------------------------------
(* What a step does to the table and to the requests. *)

EntriesStay == \A e \in EntryIds : timetable[e] # NoEntry => timetable'[e] # NoEntry

LEMMA EntryIsRow == \A r \in Entries : r # NoEntry
BY DEF Entries, NoEntry

LEMMA TimetableEntryFields ==
  ASSUME NEW r \in Entries
  PROVE  /\ r.class \in Classes /\ r.teacher \in Teachers /\ r.day \in Days /\ r.period \in Periods /\ r.active \in BOOLEAN
         /\ DOMAIN r = {"class", "teacher", "day", "period", "active"}
BY DEF Entries

LEMMA JobKinds ==
  ASSUME NEW j \in Jobs
  PROVE  /\ j.kind = "generate" => j \in GenerateJobs
         /\ j.kind = "swap" => j \in SwapJobs
         /\ j.kind = "update" => j \in UpdateJobs
         /\ j.kind = "none" <=> j = NoJob
BY DEF Jobs, GenerateJobs, SwapJobs, UpdateJobs, NoJob

LEMMA TimetableJobOf ==
  ASSUME TimetableInv, NEW s \in Sessions
  PROVE  job[s] \in Jobs /\ TimetableJobFits(job[s], timetable)
BY DEF TimetableInv, TimetableJobsFit, TimetableRequestsFit

LEMMA NoEntryToFit == NoJob \in Jobs /\ NoJob.kind = "none" /\ \A E : TimetableJobFits(NoJob, E)
BY DEF Jobs, TimetableJobFits, NoJob

LEMMA EntriesFitStay ==
  ASSUME EntriesStay, NEW j \in Jobs, TimetableJobFits(j, timetable)
  PROVE  TimetableJobFits(j, timetable')
<1>1. j.kind = "swap" => j.ids[1] \in EntryIds /\ j.ids[2] \in EntryIds
  BY JobKinds DEF SwapJobs
<1>2. j.kind = "update" => j.id \in EntryIds
  BY JobKinds DEF UpdateJobs
<1> QED BY <1>1, <1>2 DEF TimetableJobFits, EntriesStay

\* What is left to show when the table is done and session s goes on with j.
LEMMA Stepped ==
  ASSUME TimetableInv, TableFits', EntriesStay, WatchSwaps,
         NEW s \in Sessions, NEW j \in Jobs, job' = [job EXCEPT ![s] = j], TimetableJobFits(j, timetable),
         j.kind = "swap" => /\ timetable' = timetable
                            /\ job[s] = NoJob \/ s \in alone => SwapKnows(j, timetable)
  PROVE  TimetableInv'
<1>1. job' \in [Sessions -> Jobs] /\ job'[s] = j /\ \A k \in Sessions \ {s} : job'[k] = job[k]
  BY DEF TimetableInv, TimetableJobsFit
<1>2. TimetableJobsFit'
  BY <1>1 DEF TimetableJobsFit
<1>3. TimetableRequestsFit'
  <2> SUFFICES ASSUME NEW k \in Sessions PROVE TimetableJobFits(job'[k], timetable')
    BY DEF TimetableRequestsFit
  <2>1. job'[k] \in Jobs /\ TimetableJobFits(job'[k], timetable)
    BY <1>1, TimetableJobOf
  <2> QED BY <2>1, EntriesFitStay
<1>4. SwapsAloneFit'
  <2> SUFFICES ASSUME NEW k \in alone' PROVE k \in Sessions /\ job'[k].kind = "swap" /\ SwapKnows(job'[k], timetable')
    BY DEF SwapsAloneFit, Working
  <2>1. k \in Sessions /\ job'[k].kind = "swap" /\ (job[k] = NoJob \/ (k \in alone /\ timetable' = timetable))
    BY DEF WatchSwaps, Watch, Idle
  <2>2. CASE k = s
    BY <1>1, <2>1, <2>2
  <2>3. CASE k # s
    <3>1. job'[k] = job[k] /\ job[k] # NoJob
      BY <1>1, <2>1, <2>3, NoEntryToFit
    <3> QED BY <2>1, <3>1 DEF TimetableInv, SwapsAloneFit
  <2> QED BY <2>1, <2>2, <2>3
<1> QED BY <1>2, <1>3, <1>4 DEF TimetableInv

LEMMA OnlyTables ==
  ASSUME TimetableInv, TableFits', EntriesStay, WatchSwaps, job' = job
  PROVE  TimetableInv'
<1>1. TimetableJobsFit'
  BY DEF TimetableInv, TimetableJobsFit
<1>2. TimetableRequestsFit'
  <2> SUFFICES ASSUME NEW k \in Sessions PROVE TimetableJobFits(job'[k], timetable')
    BY DEF TimetableRequestsFit
  <2>1. job'[k] \in Jobs /\ TimetableJobFits(job'[k], timetable)
    BY TimetableJobOf
  <2> QED BY <2>1, EntriesFitStay
<1>3. SwapsAloneFit'
  <2> SUFFICES ASSUME NEW k \in alone' PROVE k \in Sessions /\ job'[k].kind = "swap" /\ SwapKnows(job'[k], timetable')
    BY DEF SwapsAloneFit, Working
  <2>1. k \in Sessions /\ job[k].kind = "swap" /\ (job[k] = NoJob \/ (k \in alone /\ timetable' = timetable))
    BY DEF WatchSwaps, Watch, Idle
  <2> QED BY <2>1, NoEntryToFit DEF TimetableInv, SwapsAloneFit
<1> QED BY <1>1, <1>2, <1>3 DEF TimetableInv

\* A step that leaves the tables alone.
LEMMA SameTimetable ==
  ASSUME TimetableInv, timetable' = timetable, periods' = periods, edits' \in 0 .. MaxEdits
  PROVE  TableFits' /\ EntriesStay
BY DEF TimetableInv, TableFits, EntriesStay

-----------------------------------------------------------------------------
(* The generator. *)

LEMMA GenerateStartKeeps ==
  ASSUME TimetableInv, NEW s \in Sessions, NEW body \in GenerateRequests, GenerateStart(s, body), WatchSwaps
  PROVE  TimetableInv'
<1>1. PICK j : j = [kind |-> "generate", body |-> body, phase |-> "grid", grid |-> {},
                    todo |-> 1 .. Len(body.needs), placed |-> 0, lessons |-> {}]
  OBVIOUS
<1>2. body \in GenerateBodies
  BY TimetableAssumption
<1>3. j.todo \subseteq Nat /\ j.todo = DOMAIN body.needs
  BY <1>1, <1>2, BodyTypes
<1>4. j \in GenerateJobs
  BY <1>1, <1>3 DEF GenerateJobs
<1>5. Within(body, {})
  <2>1. \A t, d : Day({}, t, d) = {} /\ Week({}, t) = {}
    BY DEF Day, Week
  <2>2. Slack(body.needs, {}) \in Nat /\ Cardinality({}) = 0
    BY FS_EmptySet DEF Slack
  <2>3. body.maxDay \in Nat /\ body.maxWeek \in Nat
    BY <1>2, BodyTypes
  <2>4. ASSUME NEW t \in Teachers, NEW d \in Days
        PROVE  Cardinality(Day({}, t, d)) <= body.maxDay + Slack(body.needs, Day({}, t, d))
    BY <2>1, <2>2, <2>3
  <2>5. ASSUME NEW t \in Teachers
        PROVE  Cardinality(Week({}, t)) <= body.maxWeek + Slack(body.needs, Week({}, t))
    BY <2>1, <2>2, <2>3
  <2> QED BY <2>4, <2>5 DEF Within
<1>6. WeekFits(body, {})
  BY <1>5 DEF WeekFits, NoTwoAtOnce, InPairs, Spaced
<1>7. GenerationFits(j)
  BY <1>1, <1>3, <1>6, FS_EmptySet DEF GenerationFits, Counted
<1>8. j.kind = "generate" /\ j \in Jobs /\ TimetableJobFits(j, timetable)
  BY <1>1, <1>4, <1>7 DEF Jobs, TimetableJobFits
<1>9. job' = [job EXCEPT ![s] = j] /\ TableFits' /\ EntriesStay
  <2>1. timetable' = timetable /\ periods' = periods /\ edits' = edits /\ edits \in 0 .. MaxEdits
    BY DEF GenerateStart, TimetableInv, TableFits
  <2> QED BY <1>1, <2>1, SameTimetable DEF GenerateStart, Begin
<1> QED BY <1>8, <1>9, Stepped

\* A session whose request is a generation.
LEMMA GenerationOf ==
  ASSUME TimetableInv, NEW s \in Sessions, Working(s, "generate"), NEW j, j = job[s]
  PROVE  /\ j \in GenerateJobs /\ j.kind = "generate" /\ GenerationFits(j)
         /\ j.body \in GenerateBodies /\ j.todo \subseteq Nat /\ j.placed \in Nat /\ j.lessons \subseteq Lessons
         /\ j.grid \subseteq Days \X Periods /\ j.phase \in {"grid", "place"}
<1>1. j \in GenerateJobs /\ j.kind = "generate" /\ GenerationFits(j)
  BY TimetableJobOf, JobKinds DEF Working, TimetableJobFits
<1> QED BY <1>1, TimetableAssumption DEF GenerateJobs

\* It goes on with j, or ends, and leaves the tables alone.
LEMMA GenerationStep ==
  ASSUME TimetableInv, NEW s \in Sessions, WatchSwaps, timetable' = timetable, periods' = periods, edits' = edits,
         NEW j, (j \in GenerateJobs /\ GenerationFits(j)) \/ j = NoJob, job' = [job EXCEPT ![s] = j]
  PROVE  TimetableInv'
<1>1. j \in Jobs /\ TimetableJobFits(j, timetable) /\ j.kind # "swap"
  <2>1. CASE j \in GenerateJobs /\ GenerationFits(j)
    BY <2>1 DEF Jobs, TimetableJobFits, GenerateJobs
  <2> QED BY <2>1, NoEntryToFit
<1>2. TableFits' /\ EntriesStay
  <2>1. edits' \in 0 .. MaxEdits
    BY DEF TimetableInv, TableFits
  <2> QED BY <2>1, SameTimetable
<1> QED BY <1>1, <1>2, Stepped

LEMMA ReadGridKeeps ==
  ASSUME TimetableInv, NEW s \in Sessions, ReadGrid(s), WatchSwaps
  PROVE  TimetableInv'
<1>1. timetable' = timetable /\ periods' = periods /\ edits' = edits /\ Working(s, "generate")
  BY DEF ReadGrid
<1>2. CASE EndJob(s)
  BY <1>1, <1>2, GenerationStep DEF EndJob
<1>3. ASSUME NEW sample \in ActivePeriods,
             job' = [job EXCEPT ![s] = [@ EXCEPT !.phase = "place", !.grid = GridFor(job[s].body.days, sample)]]
      PROVE  TimetableInv'
  <2>1. PICK j : j = job[s]
    OBVIOUS
  <2>2. PICK g : g = GridFor(j.body.days, sample)
    OBVIOUS
  <2>3. PICK r : r = [j EXCEPT !.phase = "place", !.grid = g]
    OBVIOUS
  <2>4. j \in GenerateJobs /\ GenerationFits(j) /\ j.body \in GenerateBodies
    BY <1>1, <2>1, GenerationOf
  <2>5. g \subseteq Days \X Periods
    <3>1. g \subseteq j.body.days \X (ActivePeriods \ Recess)
      BY <2>2 DEF GridFor
    <3> QED BY <2>4, <3>1, BodyTypes DEF ActivePeriods
  <2>6. r \in GenerateJobs
    BY <2>3, <2>4, <2>5 DEF GenerateJobs
  <2>7. r.body = j.body /\ r.lessons = j.lessons /\ r.todo = j.todo /\ r.placed = j.placed
    BY <2>3, <2>4 DEF GenerateJobs
  <2>8. GenerationFits(r)
    BY <2>4, <2>7 DEF GenerationFits
  <2>9. job' = [job EXCEPT ![s] = r]
    BY <1>3, <2>1, <2>2, <2>3 DEF TimetableInv, TimetableJobsFit
  <2> QED BY <1>1, <2>6, <2>8, <2>9, GenerationStep
<1> QED BY <1>2, <1>3 DEF ReadGrid

\* The request after the attempt.
Placing(j, n, i, d, slots) ==
  [j EXCEPT !.lessons = j.lessons \cup LessonsAt(n, d, i, j.placed, slots),
            !.placed = IF j.placed + 1 = n.periods THEN 0 ELSE j.placed + 1,
            !.todo = IF j.placed + 1 = n.periods THEN j.todo \ {i} ELSE j.todo]

LEMMA PlaceLessonKeeps ==
  ASSUME TimetableInv, NEW s \in Sessions, PlaceLesson(s), WatchSwaps
  PROVE  TimetableInv'
<1> DEFINE J == job[s]  I == Hardest(J.body.needs, J.todo)
           M == J.body.needs[I]
<1>0. \E d \in J.body.days : \E slots \in Picks(J.body, J.grid, M, J.lessons, d) :
        job' = [job EXCEPT ![s] = Placing(J, M, I, d, slots)]
  BY DEF PlaceLesson, Placing, LessonsAt, LessonAt
<1>1. PICK j : j = J
  OBVIOUS
<1>2. PICK i : i = Hardest(j.body.needs, j.todo)
  OBVIOUS
<1>3. PICK n, L, k : n = j.body.needs[i] /\ L = j.lessons /\ k = j.placed
  OBVIOUS
<1>4. PICK d \in J.body.days : \E slots \in Picks(J.body, J.grid, M, J.lessons, d) :
        job' = [job EXCEPT ![s] = Placing(J, M, I, d, slots)]
  BY <1>0
<1>5. PICK slots \in Picks(j.body, j.grid, n, L, d) : job' = [job EXCEPT ![s] = Placing(J, M, I, d, slots)]
  BY <1>1, <1>2, <1>3, <1>4
<1>6. PICK N, left, next : /\ N = LessonsAt(n, d, i, k, slots)
                           /\ next = (IF k + 1 = n.periods THEN 0 ELSE k + 1)
                           /\ left = (IF k + 1 = n.periods THEN j.todo \ {i} ELSE j.todo)
  OBVIOUS
<1>7. PICK r : r = [j EXCEPT !.lessons = L \cup N, !.placed = next, !.todo = left]
  OBVIOUS
<1>8. /\ timetable' = timetable /\ periods' = periods /\ edits' = edits /\ Working(s, "generate") /\ j.todo # {}
      /\ job' = [job EXCEPT ![s] = r]
  <2>1. r = Placing(j, n, i, d, slots)
    BY <1>3, <1>6, <1>7 DEF Placing
  <2>2. job' = [job EXCEPT ![s] = r]
    BY <1>1, <1>2, <1>3, <1>5, <2>1
  <2> QED BY <1>1, <2>2 DEF PlaceLesson
<1>9. /\ j \in GenerateJobs /\ GenerationFits(j) /\ j.body \in GenerateBodies
      /\ j.todo \subseteq Nat /\ k \in Nat /\ L \subseteq Lessons /\ j.placed = k /\ j.lessons = L
  BY <1>1, <1>3, <1>8, GenerationOf
<1>10. /\ IsFiniteSet(L) /\ j.todo \subseteq DOMAIN j.body.needs /\ WeekFits(j.body, L)
       /\ Counted(j.body.needs, L, j.todo, k)
  BY <1>9 DEF GenerationFits
<1>11. i \in j.todo
  <2>1. j.body.needs \in Seq(Requirements) /\ j.todo \in SUBSET DOMAIN j.body.needs
    BY <1>9, <1>10, BodyTypes
  <2> QED BY <1>2, <1>8, <2>1, HardestLeft
<1>12. n \in Requirements /\ d \in Days
  BY <1>1, <1>3, <1>9, <1>10, <1>11, BodyTypes
<1>13. Adding(j.body, L, j.todo, k, i, n, d, slots, N)
  <2>1. \A l \in L : l.need \in DOMAIN j.body.needs /\ l.subject = j.body.needs[l.need].subject
                     /\ (l.need = i => l.attempt < k)
    BY <1>10, <1>11 DEF Counted
  <2>2. /\ CanAssignTeacher(j.body, L, n.teacher, d) /\ ValidGap(n, L, d)
        /\ \A p \in slots : p \in Periods /\ <<d, p>> \notin Taken(L)
        /\ n.consecutive => \E p, q \in Periods : slots = {p, q} /\ Number[q] = Number[p] + 1
        /\ ~n.consecutive => \E p \in Periods : slots = {p}
    BY <1>12, PickedSlots
  <2> QED BY <1>3, <1>6, <1>9, <1>10, <1>11, <1>12, <2>1, <2>2 DEF Adding
<1>14. WeekFits(j.body, L \cup N)
  BY <1>9, <1>10, <1>13, WeekStays
<1>15. IsFiniteSet(N) /\ N \subseteq Lessons /\ \A l \in N : l.subject = n.subject /\ l.need = i /\ l.attempt = k
  BY <1>9, <1>13, NewLessons
<1>16. IsFiniteSet(L \cup N)
  BY <1>10, <1>15, FS_Union
<1>17. left \subseteq j.todo /\ next \in Nat
  BY <1>6, <1>9
<1>18. Counted(j.body.needs, L \cup N, left, next)
  <2>1. CASE k + 1 = n.periods
    <3>1. left = j.todo \ {i}
      BY <1>6, <2>1
    <3> QED BY <1>2, <1>3, <1>10, <1>11, <1>15, <3>1 DEF Counted
  <2>2. CASE k + 1 # n.periods
    <3>1. left = j.todo /\ next = k + 1
      BY <1>6, <2>2
    <3>2. ASSUME NEW l \in L PROVE l.need \in j.todo => l.attempt < k + 1
      <4>1. l.attempt \in Nat
        BY <1>9 DEF Lessons
      <4> QED BY <1>9, <1>10, <4>1 DEF Counted
    <3> QED BY <1>2, <1>3, <1>9, <1>10, <1>11, <1>15, <3>1, <3>2 DEF Counted
  <2> QED BY <2>1, <2>2
<1>19. r.body = j.body /\ r.lessons = L \cup N /\ r.todo = left /\ r.placed = next
  BY <1>7, <1>9 DEF GenerateJobs
<1>20. GenerationFits(r)
  BY <1>10, <1>14, <1>16, <1>17, <1>18, <1>19 DEF GenerationFits
<1>21. r \in GenerateJobs
  <2>1. L \cup N \in SUBSET Lessons /\ left \in SUBSET Nat
    BY <1>9, <1>15, <1>17
  <2> QED BY <1>7, <1>9, <1>17, <2>1 DEF GenerateJobs
<1> QED BY <1>8, <1>20, <1>21, GenerationStep

LEMMA GiveUpSubjectKeeps ==
  ASSUME TimetableInv, NEW s \in Sessions, GiveUpSubject(s), WatchSwaps
  PROVE  TimetableInv'
<1>1. PICK j : j = job[s]
  OBVIOUS
<1>2. PICK i : i = Hardest(j.body.needs, j.todo)
  OBVIOUS
<1>3. PICK r : r = [j EXCEPT !.todo = j.todo \ {i}, !.placed = 0]
  OBVIOUS
<1>4. /\ timetable' = timetable /\ periods' = periods /\ edits' = edits /\ Working(s, "generate")
      /\ job' = [job EXCEPT ![s] = r]
  BY <1>1, <1>2, <1>3 DEF GiveUpSubject, TimetableInv, TimetableJobsFit
<1>5. j \in GenerateJobs /\ GenerationFits(j) /\ j.todo \subseteq Nat
  BY <1>1, <1>4, GenerationOf
<1>6. r.body = j.body /\ r.lessons = j.lessons /\ r.todo = j.todo \ {i} /\ r.placed = 0
  BY <1>3, <1>5 DEF GenerateJobs
<1>7. Counted(r.body.needs, r.lessons, r.todo, r.placed)
  BY <1>2, <1>5, <1>6 DEF GenerationFits, Counted
<1>8. GenerationFits(r)
  BY <1>5, <1>6, <1>7 DEF GenerationFits
<1>9. r \in GenerateJobs
  <2>1. j.todo \ {i} \in SUBSET Nat
    BY <1>5
  <2> QED BY <1>3, <1>5, <2>1 DEF GenerateJobs
<1> QED BY <1>4, <1>8, <1>9, GenerationStep

\* All lessons become rows, under ids that were free.
LEMMA SaveTimetableKeeps ==
  ASSUME TimetableInv, NEW s \in Sessions, SaveTimetable(s), WatchSwaps
  PROVE  TimetableInv'
<1> DEFINE j == job[s]
<1>2. Working(s, "generate") /\ periods' = periods /\ edits' = edits /\ job' = [job EXCEPT ![s] = NoJob]
  BY DEF SaveTimetable, EndJob
<1>3. j.body \in GenerateBodies /\ j.lessons \subseteq Lessons /\ IsFiniteSet(j.lessons)
  BY <1>2, GenerationOf DEF GenerationFits
<1>4. CASE timetable' = timetable
  BY <1>2, <1>4, GenerationStep
<1> DEFINE RowOf(l) == [class |-> j.body.class, teacher |-> l.teacher, day |-> l.day,
                        period |-> l.period, active |-> TRUE]
<1>5. ASSUME NEW ids \in SUBSET FreeIds, Cardinality(ids) = Cardinality(j.lessons),
             timetable' = [e \in EntryIds |->
               IF e \in ids THEN RowOf((CHOOSE g \in [ids -> j.lessons] : \A x, y \in ids : x # y => g[x] # g[y])[e])
               ELSE timetable[e]]
      PROVE  TimetableInv'
  <2>1. PICK f : f = CHOOSE g \in [ids -> j.lessons] : \A x, y \in ids : x # y => g[x] # g[y]
    OBVIOUS
  <2>2. f \in [ids -> j.lessons]
    <3>1. IsFiniteSet(ids)
      BY TimetableAssumption, FS_Subset DEF FreeIds
    <3>2. ExistsBijection(ids, j.lessons)
      BY <1>3, <1>5, <3>1, FS_SameCardinalityBij
    <3>3. \E g \in [ids -> j.lessons] : \A x, y \in ids : x # y => g[x] # g[y]
      BY <3>2 DEF ExistsBijection, Bijection, Injection, IsInjective
    <3> QED BY <2>1, <3>3
  <2>3. \A l \in j.lessons : RowOf(l) \in Entries
    BY <1>3 DEF Entries, Lessons, GenerateBodies
  <2>4. \A e \in EntryIds : timetable'[e] = IF e \in ids THEN RowOf(f[e]) ELSE timetable[e]
    BY <1>5, <2>1
  <2>5. timetable' \in [EntryIds -> Entries \cup {NoEntry}]
    <3>1. \A e \in EntryIds : timetable'[e] \in Entries \cup {NoEntry}
      BY <2>2, <2>3, <2>4 DEF TimetableInv, TableFits
    <3>2. timetable' = [e \in EntryIds |-> timetable'[e]]
      BY <1>5
    <3> QED BY <3>1, <3>2
  <2>6. EntriesStay
    BY <2>4 DEF EntriesStay, FreeIds
  <2>7. TableFits'
    BY <1>2, <2>5 DEF TimetableInv, TableFits
  <2> QED BY <1>2, <2>6, <2>7, NoEntryToFit, Stepped
<1>6. \/ timetable' = timetable
      \/ \E ids \in SUBSET FreeIds :
           /\ Cardinality(ids) = Cardinality(j.lessons)
           /\ timetable' = [e \in EntryIds |->
                IF e \in ids THEN RowOf((CHOOSE g \in [ids -> j.lessons] : \A x, y \in ids : x # y => g[x] # g[y])[e])
                ELSE timetable[e]]
  BY DEF SaveTimetable
<1> HIDE DEF RowOf
<1> QED BY <1>4, <1>5, <1>6

-----------------------------------------------------------------------------
(* Swaps. *)

LEMMA FreeMeansNoConflict ==
  ASSUME NEW t, NEW d, NEW p, NEW x
  PROVE  TeacherConflicts(t, d, p, {x}) = {} <=> FreeBut(timetable, t, d, p, x)
BY DEF TeacherConflicts, ScheduleForDay, TeacherTimetable, ActiveEntries, FreeBut

LEMMA ActiveRow ==
  ASSUME TimetableInv, NEW e \in ActiveEntries
  PROVE  e \in EntryIds /\ timetable[e] \in Entries /\ timetable[e] # NoEntry /\ timetable[e].active = TRUE
<1>1. e \in EntryIds /\ timetable[e] # NoEntry /\ timetable[e].active /\ timetable[e] \in Entries
  BY DEF ActiveEntries, TimetableInv, TableFits
<1> QED BY <1>1, TimetableEntryFields

LEMMA SwapStartKeeps ==
  ASSUME TimetableInv, NEW s \in Sessions, NEW e1 \in EntryIds, NEW e2 \in EntryIds, SwapStart(s, e1, e2), WatchSwaps
  PROVE  TimetableInv'
<1>1. PICK j : j = [kind |-> "swap", ids |-> <<e1, e2>>, rows |-> <<timetable[e1], timetable[e2]>>, phase |-> 1]
  OBVIOUS
<1>2. e1 \in ActiveEntries /\ e2 \in ActiveEntries /\ job' = [job EXCEPT ![s] = j]
      /\ timetable' = timetable /\ periods' = periods /\ edits' = edits
  BY <1>1 DEF SwapStart, Begin
<1>3. /\ timetable[e1] \in Entries /\ timetable[e1] # NoEntry /\ timetable[e1].active = TRUE
      /\ timetable[e2] \in Entries /\ timetable[e2] # NoEntry /\ timetable[e2].active = TRUE
  BY <1>2, ActiveRow
<1>4. j \in SwapJobs /\ j.kind = "swap"
  BY <1>1, <1>3 DEF SwapJobs
<1>5. j \in Jobs /\ TimetableJobFits(j, timetable)
  BY <1>1, <1>3, <1>4 DEF Jobs, TimetableJobFits
<1>6. SwapKnows(j, timetable)
  BY <1>1, <1>3 DEF SwapKnows
<1>7. TableFits' /\ EntriesStay
  BY <1>2, SameTimetable DEF TimetableInv, TableFits
<1> QED BY <1>2, <1>5, <1>6, <1>7, Stepped

LEMMA SwapCheckKeeps ==
  ASSUME TimetableInv, NEW s \in Sessions, SwapCheck(s), WatchSwaps
  PROVE  TimetableInv'
<1> DEFINE J == job[s]
<1>0. /\ J.kind = "swap" /\ J.phase \in {1, 2} /\ timetable' = timetable /\ periods' = periods /\ edits' = edits
      /\ IF TeacherConflicts(J.rows[J.phase].teacher, J.rows[3 - J.phase].day, J.rows[3 - J.phase].period,
                             {J.ids[J.phase]}) = {}
         THEN job' = [job EXCEPT ![s].phase = J.phase + 1] ELSE job' = [job EXCEPT ![s] = NoJob]
  BY DEF SwapCheck, EndJob, Working
<1>1. PICK j, k : j = J /\ k = J.phase
  OBVIOUS
<1>2. j \in SwapJobs /\ TimetableJobFits(j, timetable) /\ k \in {1, 2} /\ j.phase = k /\ j.kind = "swap"
  BY <1>0, <1>1, TimetableJobOf, JobKinds
<1>3. TableFits' /\ EntriesStay
  BY <1>0, SameTimetable DEF TimetableInv, TableFits
<1>4. CASE job' = [job EXCEPT ![s] = NoJob]
  BY <1>3, <1>4, NoEntryToFit, Stepped
<1>5. ASSUME TeacherConflicts(j.rows[k].teacher, j.rows[3 - k].day, j.rows[3 - k].period, {j.ids[k]}) = {},
             job' = [job EXCEPT ![s].phase = J.phase + 1]
      PROVE  TimetableInv'
  <2>1. PICK r : r = [j EXCEPT !.phase = k + 1]
    OBVIOUS
  <2>2. job' = [job EXCEPT ![s] = r]
    BY <1>1, <1>5, <2>1 DEF TimetableInv, TimetableJobsFit
  <2>3. r.ids = j.ids /\ r.rows = j.rows /\ r.phase = k + 1 /\ r.kind = "swap"
    BY <1>2, <2>1 DEF SwapJobs
  <2>4. r \in SwapJobs
    BY <1>2, <2>1 DEF SwapJobs
  <2>5. r \in Jobs /\ TimetableJobFits(r, timetable)
    BY <1>2, <2>3, <2>4 DEF Jobs, TimetableJobFits
  <2>6. FreeBut(timetable, j.rows[k].teacher, j.rows[3 - k].day, j.rows[3 - k].period, j.ids[k])
    BY <1>5, FreeMeansNoConflict
  <2>7. ASSUME s \in alone PROVE SwapKnows(r, timetable)
    <3>1. SwapKnows(j, timetable)
      BY <1>1, <2>7 DEF TimetableInv, SwapsAloneFit
    <3>2. ASSUME NEW m \in {1, 2}, m < r.phase
          PROVE  FreeBut(timetable, j.rows[m].teacher, j.rows[3 - m].day, j.rows[3 - m].period, j.ids[m])
      <4>1. m < j.phase \/ m = k
        BY <1>2, <2>3, <3>2
      <4> QED BY <2>6, <3>1, <4>1 DEF SwapKnows
    <3> QED BY <2>3, <3>1, <3>2 DEF SwapKnows
  <2>8. job[s] # NoJob
    BY <1>1, <1>2, NoEntryToFit
  <2> QED BY <1>0, <1>3, <2>2, <2>5, <2>7, <2>8, Stepped
<1> QED BY <1>0, <1>1, <1>4, <1>5

\* A row with another teacher.
LEMMA OtherTeacher ==
  ASSUME NEW r \in Entries, NEW t \in Teachers, NEW q, q = [r EXCEPT !.teacher = t]
  PROVE  q \in Entries /\ q.teacher = t /\ q.day = r.day /\ q.period = r.period /\ q.active = r.active /\ q # NoEntry
BY DEF Entries, NoEntry

\* A session that is about to write a swap.
LEMMA SwapOf ==
  ASSUME TimetableInv, NEW s \in Sessions, Working(s, "swap"), NEW j, j = job[s]
  PROVE  /\ j.kind = "swap" /\ j.phase \in 1 .. 3
         /\ \A k \in {1, 2} : j.ids[k] \in EntryIds /\ j.rows[k] \in Entries
                              /\ timetable[j.ids[k]] \in Entries /\ timetable[j.ids[k]] # NoEntry
<1>1. j \in SwapJobs /\ TimetableJobFits(j, timetable) /\ j.kind = "swap"
  BY TimetableJobOf, JobKinds DEF Working
<1>2. j.phase \in 1 .. 3 /\ \A k \in {1, 2} : j.ids[k] \in EntryIds /\ j.rows[k] \in Entries
  BY <1>1 DEF SwapJobs
<1>3. \A k \in {1, 2} : timetable[j.ids[k]] # NoEntry
  BY <1>1 DEF TimetableJobFits
<1> QED BY <1>1, <1>2, <1>3 DEF TimetableInv, TableFits

\* The table with another teacher in row a.
Taught(E, a, t) == [E EXCEPT ![a] = [E[a] EXCEPT !.teacher = t]]

LEMMA Swapped ==
  ASSUME TimetableInv, NEW s \in Sessions, SwapCommit(s), job[s].rows[1].teacher # job[s].rows[2].teacher
  PROVE  timetable' = Taught(Taught(timetable, job[s].ids[1], job[s].rows[2].teacher),
                             job[s].ids[2], job[s].rows[1].teacher)
<1>1. timetable' = [timetable EXCEPT ![job[s].ids[1]].teacher = job[s].rows[2].teacher,
                                     ![job[s].ids[2]].teacher = job[s].rows[1].teacher]
  BY DEF SwapCommit
<1>2. PICK a, b, x, y : a = job[s].ids[1] /\ b = job[s].ids[2] /\ x = job[s].rows[2].teacher /\ y = job[s].rows[1].teacher
  OBVIOUS
<1>3. timetable' = [timetable EXCEPT ![a].teacher = x, ![b].teacher = y]
  BY <1>1, <1>2
<1>4. a \in EntryIds /\ b \in EntryIds /\ DOMAIN timetable = EntryIds
  BY <1>2, SwapOf DEF SwapCommit, TimetableInv, TableFits
<1>5. timetable' = Taught(Taught(timetable, a, x), b, y)
  BY <1>3, <1>4 DEF Taught
<1> QED BY <1>2, <1>5

LEMMA TaughtRows ==
  ASSUME NEW E \in [EntryIds -> Entries \cup {NoEntry}], NEW a \in EntryIds, E[a] \in Entries, NEW t \in Teachers
  PROVE  /\ Taught(E, a, t) \in [EntryIds -> Entries \cup {NoEntry}]
         /\ \A e \in EntryIds \ {a} : Taught(E, a, t)[e] = E[e]
         /\ Taught(E, a, t)[a] \in Entries /\ Taught(E, a, t)[a] # NoEntry
         /\ Taught(E, a, t)[a].teacher = t /\ Taught(E, a, t)[a].day = E[a].day
         /\ Taught(E, a, t)[a].period = E[a].period /\ Taught(E, a, t)[a].active = E[a].active
         /\ \A e \in EntryIds : E[e] \in Entries => Taught(E, a, t)[e] \in Entries
<1>1. PICK q : q = [E[a] EXCEPT !.teacher = t]
  OBVIOUS
<1>2. q \in Entries /\ q.teacher = t /\ q.day = E[a].day /\ q.period = E[a].period /\ q.active = E[a].active /\ q # NoEntry
  BY <1>1, OtherTeacher
<1>3. Taught(E, a, t) = [E EXCEPT ![a] = q]
  BY <1>1 DEF Taught
<1> QED BY <1>2, <1>3

LEMMA SwapCommitKeeps ==
  ASSUME TimetableInv, NEW s \in Sessions, SwapCommit(s), WatchSwaps
  PROVE  TimetableInv'
<1>1. PICK j : j = job[s]
  OBVIOUS
<1>2. periods' = periods /\ edits' = edits /\ job' = [job EXCEPT ![s] = NoJob]
  BY DEF SwapCommit, EndJob
<1>3. TableFits' /\ EntriesStay
  <2>1. CASE j.rows[1].teacher = j.rows[2].teacher
    <3>1. timetable' = timetable
      BY <1>1, <2>1 DEF SwapCommit
    <3> QED BY <1>2, <3>1, SameTimetable DEF TimetableInv, TableFits
  <2>2. CASE j.rows[1].teacher # j.rows[2].teacher
    <3>1. PICK a, b, x, y : a = j.ids[1] /\ b = j.ids[2] /\ x = j.rows[2].teacher /\ y = j.rows[1].teacher
      OBVIOUS
    <3>2. timetable' = Taught(Taught(timetable, a, x), b, y)
      BY <1>1, <2>2, <3>1, Swapped
    <3>3. /\ a \in EntryIds /\ b \in EntryIds /\ timetable[a] \in Entries /\ timetable[b] \in Entries
          /\ x \in Teachers /\ y \in Teachers
      BY <1>1, <3>1, SwapOf, TimetableEntryFields DEF SwapCommit
    <3>4. PICK f : f = Taught(timetable, a, x)
      OBVIOUS
    <3>5. timetable \in [EntryIds -> Entries \cup {NoEntry}]
      BY DEF TimetableInv, TableFits
    <3>6. /\ f \in [EntryIds -> Entries \cup {NoEntry}] /\ f[b] \in Entries
          /\ \A e \in EntryIds : timetable[e] \in Entries => f[e] \in Entries
      BY <3>3, <3>4, <3>5, TaughtRows
    <3>7. timetable' = Taught(f, b, y)
      BY <3>2, <3>4
    <3>8. /\ timetable' \in [EntryIds -> Entries \cup {NoEntry}]
          /\ \A e \in EntryIds : f[e] \in Entries => timetable'[e] \in Entries
      BY <3>3, <3>6, <3>7, TaughtRows
    <3>9. EntriesStay
      BY <3>5, <3>6, <3>8, EntryIsRow DEF EntriesStay
    <3>10. TableFits'
      BY <1>2, <3>8 DEF TimetableInv, TableFits
    <3> QED BY <3>9, <3>10
  <2> QED BY <2>1, <2>2
<1> QED BY <1>2, <1>3, NoEntryToFit, Stepped

-----------------------------------------------------------------------------
(* Entries by hand, and the periods. *)

LEMMA Edited ==
  ASSUME TimetableInv, Edit
  PROVE  edits' \in 0 .. MaxEdits
BY TimetableAssumption DEF Edit, TimetableInv, TableFits

LEMMA CreateEntryKeeps ==
  ASSUME TimetableInv, NEW row \in NewEntries, CreateEntry(row), WatchSwaps
  PROVE  TimetableInv'
<1>1. PICK e \in FreeIds : timetable' = [timetable EXCEPT ![e] = row]
  BY DEF CreateEntry
<1>2. row \in Entries /\ row # NoEntry /\ periods' = periods /\ job' = job /\ edits' \in 0 .. MaxEdits
  BY TimetableAssumption, EntryIsRow, Edited DEF CreateEntry
<1>3. TableFits' /\ EntriesStay
  BY <1>1, <1>2 DEF TimetableInv, TableFits, EntriesStay, FreeIds
<1> QED BY <1>2, <1>3, OnlyTables

LEMMA UpdateEntryReadKeeps ==
  ASSUME TimetableInv, NEW s \in Sessions, NEW e \in EntryIds, NEW c \in EntryChanges, UpdateEntryRead(s, e, c), WatchSwaps
  PROVE  TimetableInv'
<1>1. PICK j : j = [kind |-> "update", id |-> e, row |-> timetable[e], change |-> c]
  OBVIOUS
<1>2. timetable[e] \in Entries /\ timetable[e] # NoEntry
  BY ActiveRow DEF UpdateEntryRead
<1>3. j \in UpdateJobs /\ j.kind = "update" /\ j.id = e
  BY <1>1, <1>2 DEF UpdateJobs
<1>4. j \in Jobs /\ TimetableJobFits(j, timetable)
  BY <1>2, <1>3 DEF Jobs, TimetableJobFits
<1>5. TableFits' /\ EntriesStay /\ job' = [job EXCEPT ![s] = j]
  BY <1>1, Edited, SameTimetable DEF UpdateEntryRead, Begin
<1> QED BY <1>3, <1>4, <1>5, Stepped

\* A commit of the ORM writes fields that the request body names.
LEMMA FlushedEntry ==
  ASSUME NEW r \in Entries, NEW k, NEW c \in EntryChanges
  PROVE  Flushed(r, k, c) \in Entries
<1>1. PICK q : q = Flushed(r, k, c)
  OBVIOUS
<1>2. DOMAIN r = {"class", "teacher", "day", "period", "active"}
  BY TimetableEntryFields
<1>3. q = [f \in {"class", "teacher", "day", "period", "active"} |->
             IF f \in DOMAIN c /\ c[f] # k[f] THEN c[f] ELSE r[f]]
  BY <1>1, <1>2 DEF Flushed
<1>4. /\ q.class \in Classes /\ q.teacher \in Teachers /\ q.day \in Days /\ q.period \in Periods
      /\ q.active \in BOOLEAN
  <2>1. q.class \in Classes
    BY <1>3, TimetableEntryFields, TimetableAssumption
  <2>2. q.teacher \in Teachers
    BY <1>3, TimetableEntryFields, TimetableAssumption
  <2>3. q.day \in Days
    BY <1>3, TimetableEntryFields, TimetableAssumption
  <2>4. q.period \in Periods
    BY <1>3, TimetableEntryFields, TimetableAssumption
  <2>5. q.active \in BOOLEAN
    BY <1>3, TimetableEntryFields, TimetableAssumption
  <2> QED BY <2>1, <2>2, <2>3, <2>4, <2>5
<1>5. q = [class |-> q.class, teacher |-> q.teacher, day |-> q.day, period |-> q.period, active |-> q.active]
  BY <1>3
<1>6. q \in Entries
  BY <1>4, <1>5 DEF Entries
<1> QED BY <1>1, <1>6

LEMMA UpdateEntryCommitKeeps ==
  ASSUME TimetableInv, NEW s \in Sessions, UpdateEntryCommit(s), WatchSwaps
  PROVE  TimetableInv'
<1>1. PICK j : j = job[s]
  OBVIOUS
<1>2. j \in UpdateJobs /\ timetable[j.id] # NoEntry
  BY <1>1, TimetableJobOf, JobKinds DEF UpdateEntryCommit, Working, TimetableJobFits
<1>3. j.id \in EntryIds /\ j.change \in EntryChanges /\ timetable[j.id] \in Entries
  BY <1>2 DEF UpdateJobs, TimetableInv, TableFits
<1>4. PICK q : q = Flushed(timetable[j.id], j.row, j.change)
  OBVIOUS
<1>5. q \in Entries /\ q # NoEntry
  BY <1>3, <1>4, FlushedEntry, EntryIsRow
<1>6. /\ timetable' = [timetable EXCEPT ![j.id] = q] /\ job' = [job EXCEPT ![s] = NoJob]
      /\ periods' = periods /\ edits' = edits
  BY <1>1, <1>3, <1>4 DEF UpdateEntryCommit, EndJob, TimetableInv, TableFits
<1>7. TableFits' /\ EntriesStay
  BY <1>3, <1>5, <1>6 DEF TimetableInv, TableFits, EntriesStay
<1> QED BY <1>6, <1>7, NoEntryToFit, Stepped

LEMMA Deactivated ==
  ASSUME NEW r \in Entries
  PROVE  [r EXCEPT !.active = FALSE] \in Entries
BY DEF Entries

LEMMA SoftDeleteEntryKeeps ==
  ASSUME TimetableInv, NEW e \in EntryIds, SoftDeleteEntry(e), WatchSwaps
  PROVE  TimetableInv'
<1>1. PICK q : q = [timetable[e] EXCEPT !.active = FALSE]
  OBVIOUS
<1>2. q \in Entries /\ q # NoEntry
  BY <1>1, ActiveRow, Deactivated, EntryIsRow DEF SoftDeleteEntry
<1>3. timetable' = [timetable EXCEPT ![e] = q] /\ periods' = periods /\ job' = job /\ edits' \in 0 .. MaxEdits
  BY <1>1, Edited DEF SoftDeleteEntry, TimetableInv, TableFits
<1>4. TableFits' /\ EntriesStay
  BY <1>2, <1>3 DEF TimetableInv, TableFits, EntriesStay
<1> QED BY <1>3, <1>4, OnlyTables

LEMMA ClearClassKeeps ==
  ASSUME TimetableInv, NEW c \in Classes, ClearClass(c), WatchSwaps
  PROVE  TimetableInv'
<1>1. ASSUME NEW e \in ClassTimetable(c)
      PROVE  [timetable[e] EXCEPT !.active = FALSE] \in Entries /\ [timetable[e] EXCEPT !.active = FALSE] # NoEntry
  BY ActiveRow, Deactivated, EntryIsRow DEF ClassTimetable
<1>2. /\ timetable' = [e \in EntryIds |->
           IF e \in ClassTimetable(c) THEN [timetable[e] EXCEPT !.active = FALSE] ELSE timetable[e]]
      /\ periods' = periods /\ job' = job /\ edits' \in 0 .. MaxEdits
  BY Edited DEF ClearClass
<1>3. TableFits' /\ EntriesStay
  BY <1>1, <1>2 DEF TimetableInv, TableFits, EntriesStay
<1> QED BY <1>2, <1>3, OnlyTables

LEMMA PeriodsKeep ==
  ASSUME TimetableInv, NEW p \in Periods, NEW b \in {"active", "inactive"}, UpdatePeriod(p, b) \/ DeletePeriod(p), WatchSwaps
  PROVE  TimetableInv'
<1>1. timetable' = timetable /\ job' = job /\ edits' \in 0 .. MaxEdits
      /\ periods' \in [Periods -> {"active", "inactive"}]
  BY Edited DEF UpdatePeriod, DeletePeriod, TimetableInv, TableFits
<1>2. TableFits' /\ EntriesStay
  BY <1>1 DEF TimetableInv, TableFits, EntriesStay
<1> QED BY <1>1, <1>2, OnlyTables

-----------------------------------------------------------------------------
(* The theorems. *)

LEMMA TimetableInitial == TimetableInit => TimetableInv
BY NoEntryToFit, TimetableAssumption
   DEF TimetableInit, JobInit, TimetableInv, TableFits, TimetableJobsFit, TimetableRequestsFit, SwapsAloneFit

LEMMA TimetableStepKeeps == TimetableInv /\ [TimetableNext]_<<job, alone, timetableVars>> => TimetableInv'
<1> SUFFICES ASSUME TimetableInv, [TimetableNext]_<<job, alone, timetableVars>> PROVE TimetableInv'
  OBVIOUS
<1>1. CASE UNCHANGED <<job, alone, timetableVars>>
  <2>1. job' = job /\ alone' = alone /\ timetable' = timetable /\ periods' = periods /\ edits' = edits
    BY <1>1 DEF timetableVars
  <2>2. TableFits' /\ TimetableJobsFit'
    BY <2>1 DEF TimetableInv, TableFits, TimetableJobsFit
  <2>3. TimetableRequestsFit' /\ SwapsAloneFit'
    BY <2>1 DEF TimetableInv, TimetableRequestsFit, SwapsAloneFit, Working
  <2> QED BY <2>2, <2>3 DEF TimetableInv
<1>2. ASSUME WatchSwaps, NEW s \in Sessions, GenerateStep(s) PROVE TimetableInv'
  BY <1>2, GenerateStartKeeps, ReadGridKeeps, PlaceLessonKeeps, GiveUpSubjectKeeps, SaveTimetableKeeps DEF GenerateStep
<1>3. ASSUME WatchSwaps, EditStep PROVE TimetableInv'
  BY <1>3, SwapStartKeeps, SwapCheckKeeps, SwapCommitKeeps, UpdateEntryReadKeeps, UpdateEntryCommitKeeps,
     CreateEntryKeeps, SoftDeleteEntryKeeps, ClearClassKeeps, PeriodsKeep DEF EditStep
<1> QED BY <1>1, <1>2, <1>3 DEF TimetableNext

LEMMA TimetableInvariant == TimetableSpec => []TimetableInv
BY TimetableInitial, TimetableStepKeeps, PTL DEF TimetableSpec

\* The table, the periods and the sessions always hold values of their types.
THEOREM TimetableTypesCorrect == TimetableSpec => []TimetableTypeOK
<1>1. TimetableInv => TimetableTypeOK
  <2> SUFFICES ASSUME TimetableInv PROVE TimetableTypeOK
    OBVIOUS
  <2>1. \A s \in Sessions : job[s] \in {NoJob} \cup GenerateJobs \cup SwapJobs \cup UpdateJobs
    BY TimetableJobOf DEF Jobs
  <2> QED BY <2>1 DEF TimetableInv, TableFits, SwapsAloneFit, TimetableTypeOK
<1> QED BY <1>1, TimetableInvariant, PTL

LEMMA WeekOf ==
  ASSUME TimetableInv, NEW s \in Generating
  PROVE  s \in Sessions /\ WeekFits(job[s].body, job[s].lessons)
BY GenerationOf DEF Generating, GenerationFits

\* A generated week of a class is one that can be held: no two lessons at the same
\* time, and a consecutive requirement gets two adjacent periods of one day.
THEOREM WeeksCorrect == TimetableSpec => []LessonsFit
<1>1. TimetableInv => LessonsFit
  <2> SUFFICES ASSUME TimetableInv, NEW s \in Generating
               PROVE  LET L == job[s].lessons
                      IN /\ \A l, m \in L : l # m => l.day # m.day \/ l.period # m.period
                         /\ \A l \in L : LET together == {m \in L : m.need = l.need /\ m.attempt = l.attempt}
                                         IN IF job[s].body.needs[l.need].consecutive
                                            THEN /\ Cardinality(together) = 2
                                                 /\ \A m \in together : /\ m.day = l.day
                                                                        /\ Apart(Number[m.period], Number[l.period]) <= 1
                                            ELSE together = {l}
    BY DEF LessonsFit
  <2>1. NoTwoAtOnce(job[s].lessons) /\ InPairs(job[s].body.needs, job[s].lessons)
    BY WeekOf DEF WeekFits
  <2> QED BY <2>1 DEF NoTwoAtOnce, InPairs, Together
<1> QED BY <1>1, TimetableInvariant, PTL

\* A day or a week of a teacher passes its limit by a double period only, and by
\* one lesson.
THEOREM LimitsCorrect == TimetableSpec => []LimitsPassedByDoubles
<1>1. TimetableInv => LimitsPassedByDoubles
  <2> SUFFICES ASSUME TimetableInv, NEW s \in Generating, NEW t \in Teachers
               PROVE  LET body == job[s].body
                          week == {l \in job[s].lessons : l.teacher = t}
                          D(d) == {l \in week : l.day = d}
                      IN /\ body.maxDay > 0 => \A d \in Days : Cardinality(D(d)) <= body.maxDay + Slack(body.needs, D(d))
                         /\ body.maxWeek > 0 => Cardinality(week) <= body.maxWeek + Slack(body.needs, week)
    BY DEF LimitsPassedByDoubles
  <2>1. Within(job[s].body, job[s].lessons)
    BY WeekOf DEF WeekFits
  <2>2. PICK L : L = job[s].lessons
    OBVIOUS
  <2>3. \A d \in Days : {l \in {l \in L : l.teacher = t} : l.day = d} = Day(L, t, d)
    BY DEF Day
  <2>4. {l \in L : l.teacher = t} = Week(L, t)
    BY DEF Week
  <2> QED BY <2>1, <2>2, <2>3, <2>4 DEF Within
<1> QED BY <1>1, TimetableInvariant, PTL

\* Two attempts of one requirement lie at least its gap apart.
THEOREM SpacingCorrect == TimetableSpec => []SpacingKept
<1>1. TimetableInv => SpacingKept
  <2> SUFFICES ASSUME TimetableInv, NEW s \in Generating
               PROVE  \A l, m \in job[s].lessons :
                        l.need = m.need /\ l.attempt # m.attempt => Apart(l.day, m.day) >= job[s].body.needs[l.need].gap
    BY DEF SpacingKept
  <2>1. Spaced(job[s].body.needs, job[s].lessons)
    BY WeekOf DEF WeekFits
  <2> QED BY <2>1 DEF Spaced
<1> QED BY <1>1, TimetableInvariant, PTL

-----------------------------------------------------------------------------
(* A swap that is done and was alone. *)

\* Rows x and y put one teacher in two places at once.
ClashIn(E, x, y) ==
  /\ E[x] # NoEntry /\ E[x].active /\ E[y] # NoEntry /\ E[y].active
  /\ x # y /\ E[x].teacher = E[y].teacher /\ E[x].day = E[y].day /\ E[x].period = E[y].period

LEMMA ClashesAre == \A x, y \in EntryIds : <<x, y>> \in Clashes <=> ClashIn(timetable, x, y)
BY DEF Clashes, ClashIn, TeacherConflicts, ScheduleForDay, TeacherTimetable, ActiveEntries

\* The rows a and b change teachers, and each is free for the teacher it gets.
LEMMA NoNewClash ==
  ASSUME NEW E \in [EntryIds -> Entries \cup {NoEntry}], NEW a \in EntryIds, NEW b \in EntryIds, a # b,
         E[a] \in Entries, E[b] \in Entries, E[a].active, E[b].active, E[a].teacher # E[b].teacher,
         FreeBut(E, E[a].teacher, E[b].day, E[b].period, a), FreeBut(E, E[b].teacher, E[a].day, E[a].period, b),
         NEW F, F = Taught(Taught(E, a, E[b].teacher), b, E[a].teacher),
         NEW x \in EntryIds, NEW y \in EntryIds, ClashIn(F, x, y)
  PROVE  ClashIn(E, x, y)
<1>1. PICK f : f = Taught(E, a, E[b].teacher)
  OBVIOUS
<1>2. E[a].teacher \in Teachers /\ E[b].teacher \in Teachers
  BY TimetableEntryFields
<1>3. /\ f \in [EntryIds -> Entries \cup {NoEntry}] /\ f[b] = E[b]
      /\ \A e \in EntryIds \ {a} : f[e] = E[e]
      /\ f[a].teacher = E[b].teacher /\ f[a].day = E[a].day /\ f[a].period = E[a].period
  BY <1>1, <1>2, TaughtRows
<1>4. F = Taught(f, b, E[a].teacher)
  BY <1>1
<1>5. /\ \A e \in EntryIds \ {b} : F[e] = f[e]
      /\ F[b].teacher = E[a].teacher /\ F[b].day = E[b].day /\ F[b].period = E[b].period
  BY <1>2, <1>3, <1>4, TaughtRows
<1>6. /\ \A e \in EntryIds \ {a, b} : F[e] = E[e]
      /\ F[a].teacher = E[b].teacher /\ F[a].day = E[a].day /\ F[a].period = E[a].period
  BY <1>3, <1>5
<1>7. \A e \in EntryIds \ {a, b} : E[e] # NoEntry /\ E[e].active =>
        /\ ~(E[e].teacher = E[a].teacher /\ E[e].day = E[b].day /\ E[e].period = E[b].period)
        /\ ~(E[e].teacher = E[b].teacher /\ E[e].day = E[a].day /\ E[e].period = E[a].period)
  BY DEF FreeBut
<1>8. CASE x \notin {a, b} /\ y \notin {a, b}
  BY <1>6, <1>8 DEF ClashIn
<1>9. CASE x \in {a, b} /\ y \in {a, b}
  BY <1>5, <1>6, <1>9 DEF ClashIn
<1>10. CASE x \in {a, b} /\ y \notin {a, b}
  BY <1>5, <1>6, <1>7, <1>10 DEF ClashIn
<1>11. CASE x \notin {a, b} /\ y \in {a, b}
  BY <1>5, <1>6, <1>7, <1>11 DEF ClashIn
<1> QED BY <1>8, <1>9, <1>10, <1>11

\* Only its commit ends a swap that has both answers.
LEMMA LastStepCommits ==
  ASSUME TimetableInv, NEW s \in Sessions, Working(s, "swap"), job[s].phase = 3, job'[s] = NoJob, TimetableNext
  PROVE  SwapCommit(s)
<1>1. job \in [Sessions -> Jobs] /\ job[s] # NoJob /\ job[s].kind = "swap" /\ job[s].phase \notin {1, 2}
  BY NoEntryToFit DEF TimetableInv, TimetableJobsFit, Working
<1>2. ASSUME NEW k \in Sessions, GenerateStep(k) PROVE FALSE
  <2>1. Idle(k) \/ Working(k, "generate")
    BY <1>2 DEF GenerateStep, GenerateStart, Begin, ReadGrid, PlaceLesson, GiveUpSubject, SaveTimetable
  <2>2. k # s
    BY <1>1, <2>1 DEF Idle, Working
  <2>3. \E j : job' = [job EXCEPT ![k] = j]
    BY <1>2, Zenon DEF GenerateStep, GenerateStart, Begin, ReadGrid, PlaceLesson, GiveUpSubject, SaveTimetable, EndJob
  <2> QED BY <1>1, <2>2, <2>3
<1>3. ASSUME NEW k \in Sessions,
             \/ \E e1, e2 \in EntryIds : SwapStart(k, e1, e2)
             \/ SwapCheck(k)
             \/ \E e \in EntryIds, c \in EntryChanges : UpdateEntryRead(k, e, c)
             \/ UpdateEntryCommit(k)
      PROVE  FALSE
  <2>1. k # s
    BY <1>1, <1>3 DEF SwapStart, SwapCheck, UpdateEntryRead, UpdateEntryCommit, Begin, Idle, Working
  <2>2. job'[s] = job[s]
    BY <1>1, <1>3, <2>1 DEF SwapStart, SwapCheck, UpdateEntryRead, UpdateEntryCommit, Begin, EndJob
  <2> QED BY <1>1, <2>2
<1>4. ASSUME \/ \E row \in NewEntries : CreateEntry(row)
             \/ \E e \in EntryIds : SoftDeleteEntry(e)
             \/ \E c \in Classes : ClearClass(c)
             \/ \E p \in Periods, b \in {"active", "inactive"} : UpdatePeriod(p, b)
             \/ \E p \in Periods : DeletePeriod(p)
      PROVE  FALSE
  <2>1. job' = job
    BY <1>4 DEF CreateEntry, SoftDeleteEntry, ClearClass, UpdatePeriod, DeletePeriod
  <2> QED BY <1>1, <2>1
<1>5. ASSUME NEW k \in Sessions, SwapCommit(k) PROVE k = s
  <2> SUFFICES ASSUME k # s PROVE FALSE
    OBVIOUS
  <2>1. job'[s] = job[s]
    BY <1>1, <1>5 DEF SwapCommit, EndJob
  <2> QED BY <1>1, <2>1
<1>6. (\E k \in Sessions : GenerateStep(k)) \/ EditStep
  BY DEF TimetableNext
<1> QED BY <1>2, <1>3, <1>4, <1>5, <1>6 DEF EditStep

\* A swap that nobody interfered with puts no teacher in two places at once.
THEOREM SwapsCorrect == TimetableSpec => SwapsMakeNoClash
<1>1. TimetableInv /\ [TimetableNext]_<<job, alone, timetableVars>>
      => [\A s \in Sessions :
            s \in alone /\ Working(s, "swap") /\ job[s].phase = 3 /\ job'[s] = NoJob
              => Clashes' \subseteq Clashes]_<<job, timetableVars>>
  <2> SUFFICES ASSUME TimetableInv, TimetableNext \/ UNCHANGED <<job, alone, timetableVars>>, NEW s \in Sessions,
                      s \in alone, Working(s, "swap"), job[s].phase = 3, job'[s] = NoJob
               PROVE  Clashes' \subseteq Clashes
    OBVIOUS
  <2>1. CASE UNCHANGED <<job, alone, timetableVars>>
    <3>1. job'[s] = job[s]
      BY <2>1
    <3> QED BY <3>1, NoEntryToFit DEF Working
  <2>2. CASE TimetableNext
    <3>1. SwapCommit(s)
      BY <2>2, LastStepCommits
    <3>2. PICK j : j = job[s]
      OBVIOUS
    <3>3. PICK a, b : a = j.ids[1] /\ b = j.ids[2]
      OBVIOUS
    <3>4. SwapKnows(j, timetable) /\ j.phase = 3
      BY <3>2 DEF TimetableInv, SwapsAloneFit
    <3>5. a \in EntryIds /\ b \in EntryIds /\ timetable[a] \in Entries /\ timetable[b] \in Entries
      BY <3>2, <3>3, SwapOf
    <3>6. /\ timetable[a].active /\ timetable[b].active
          /\ j.rows[1] = timetable[a] /\ j.rows[2] = timetable[b]
          /\ FreeBut(timetable, timetable[a].teacher, timetable[b].day, timetable[b].period, a)
          /\ FreeBut(timetable, timetable[b].teacher, timetable[a].day, timetable[a].period, b)
      BY <3>3, <3>4 DEF SwapKnows
    <3>7. CASE timetable[a].teacher = timetable[b].teacher
      <4>1. timetable' = timetable
        BY <3>1, <3>2, <3>6, <3>7 DEF SwapCommit
      <4> QED BY <4>1 DEF Clashes, TeacherConflicts, ScheduleForDay, TeacherTimetable, ActiveEntries
    <3>8. CASE timetable[a].teacher # timetable[b].teacher
      <4>1. timetable' = Taught(Taught(timetable, a, timetable[b].teacher), b, timetable[a].teacher)
        BY <3>1, <3>2, <3>3, <3>6, <3>8, Swapped
      <4>2. timetable \in [EntryIds -> Entries \cup {NoEntry}]
        BY DEF TimetableInv, TableFits
      <4>3. \A x, y \in EntryIds : ClashIn(timetable', x, y) => ClashIn(timetable, x, y)
        BY <3>5, <3>6, <3>8, <4>1, <4>2, NoNewClash
      <4>4. \A z \in Clashes' : \E x, y \in EntryIds : z = <<x, y>> /\ ClashIn(timetable', x, y)
        BY DEF Clashes, ClashIn, TeacherConflicts, ScheduleForDay, TeacherTimetable, ActiveEntries
      <4> QED BY <4>3, <4>4, ClashesAre
    <3> QED BY <3>7, <3>8
  <2> QED BY <2>1, <2>2
<1> QED BY <1>1, TimetableInvariant, PTL DEF TimetableSpec, SwapsMakeNoClash
=============================================================================
