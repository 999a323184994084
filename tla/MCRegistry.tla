------------------------------ MODULE MCRegistry ------------------------------
(* A student and a teacher, a class and a subject; one list and one album.     *)
EXTENDS Registry

CONSTANTS roll, album

Filing(q) == [i \in RegIds |-> IF i \in DOMAIN q THEN q[i] ELSE Unused]
Attended == [table |-> "attendance", status |-> "Present"]
Registers == {Filing(<<[table |-> "student", on |-> TRUE, profile |-> TRUE, class |-> roll],
                       [table |-> "teacher", on |-> TRUE, profile |-> TRUE],
                       [table |-> "class", on |-> TRUE]>>)}
Submissions == {<<Attended>>, <<Attended, Attended>>}
RegEdit(table, fields) == [table |-> table, fields |-> fields]
EditsOfRows == {RegEdit("teacher", [on |-> FALSE]), RegEdit("subject", [on |-> TRUE]),
                RegEdit("class", [on |-> TRUE]), RegEdit("attendance", [status |-> "Late"])}
Moves == {[ids |-> {1, 2}, class |-> roll]}
=============================================================================
