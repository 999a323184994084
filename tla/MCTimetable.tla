------------------------------ MODULE MCTimetable ------------------------------
(* Two classes that share a teacher, two days of two periods.                 *)
EXTENDS Timetable

CONSTANTS c1, c2, math, lab, t1, t2

TwoDays == {1, 2}
NumberOf == [p \in Periods |-> p]
AnyDay == [p \in Periods |-> NoDay]

Need(x, t, n, core, double, gap) ==
  [subject |-> x, teacher |-> t, periods |-> n, core |-> core, named |-> FALSE,
   consecutive |-> double, gap |-> gap]
Body(c, needs, maxDay, maxWeek, dry) ==
  [class |-> c, days |-> Days, needs |-> needs, maxDay |-> maxDay, maxWeek |-> maxWeek,
   blocked |-> [t \in Teachers |-> {}], allowed |-> [x \in Subjects |-> Periods], dry |-> dry]

\* A week that is stored, for each class.
Weeks ==
  {[Body(c1, <<Need(math, t1, 1, TRUE, FALSE, 1)>>, 0, 0, FALSE) EXCEPT !.days = {1}],
   [Body(c2, <<Need(lab, t1, 1, FALSE, TRUE, 0)>>, 1, 0, FALSE) EXCEPT !.days = {1}]}

\* Three previews: a double period against the limits, gaps and blocked days, and
\* core subjects with restrictions.
Previews ==
  {Body(c1, <<Need(math, t1, 2, TRUE, FALSE, 0), Need(lab, t1, 2, FALSE, TRUE, 1)>>, 2, 3, TRUE),
   [Body(c1, <<Need(math, t1, 3, FALSE, FALSE, 1), Need(lab, t2, 2, FALSE, FALSE, 1)>>, 0, 0, TRUE)
      EXCEPT !.blocked[t1] = {1}],
   [Body(c2, <<[Need(math, t2, 3, TRUE, FALSE, 0) EXCEPT !.named = TRUE], Need(lab, t1, 2, FALSE, FALSE, 0)>>, 0, 1, TRUE)
      EXCEPT !.allowed[lab] = {2}, !.blocked[t2] = {1}]}

Bodies == Weeks \cup Previews

Row(c, t, d, p) == [class |-> c, teacher |-> t, day |-> d, period |-> p, active |-> TRUE]
Rows == {Row(c1, t2, 1, 1), Row(c2, t2, 2, 2)}
Changes == {[teacher |-> t1], [day |-> 2, active |-> FALSE]}
=============================================================================
