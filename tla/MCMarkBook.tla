----------------------------- MODULE MCMarkBook -----------------------------
(* Two students alike by name, one exam, marks out of 50 and of 100.          *)
EXTENDS MarkBook, MCTimetable

CONSTANTS a1, a2, asha, midterm, e1, AnyClassNamed

OneClass == [a \in Students |-> c1]
BearersOf == [l \in Lookups |-> {a1}]
AlikeOf == [l \in Lookups |-> Students]

MarkFor(x, v, max) == [subject |-> x, obtained |-> v, max |-> max]
Recording(class, ms) == [lookup |-> asha, exam |-> midterm, class |-> class, marks |-> ms]
RecordingsTried == {Recording(AnyClassNamed, <<MarkFor(math, 90, 50)>>), Recording(c1, <<MarkFor(lab, 30, 100), MarkFor(lab, 20, 50)>>)}
CorrectionsTried == {[lookup |-> asha, exam |-> midterm, subject |-> math, obtained |-> v] : v \in {45, 60}}
DeskEntriesTried == {<<[student |-> a1, exam |-> e1, subject |-> math, obtained |-> 0, max |-> 100]>>}
=============================================================================
