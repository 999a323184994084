-------------------------------- MODULE MCFees --------------------------------
(* One class of two students; a term of each of two templates.                *)
EXTENDS Fees, MCMarkBook

CONSTANTS tuition, bus, yearly, monthly

Prices == [x \in Components |-> IF x = tuition THEN 101 ELSE 20]
Parts == [t \in Templates |-> IF t = yearly THEN {tuition, bus} ELSE {bus}]
TermsNamed == [t \in Templates |-> {t}]
OneFeeClass == [a \in Students |-> c1]
NotTheBus == [a \in Students |-> IF a = a2 THEN {bus} ELSE {}]
Grant(a, active, percent, v, for) == [student |-> a, active |-> active, percent |-> percent, value |-> v, for |-> for]
GrantsMade == {Grant(a1, TRUE, TRUE, 50, {tuition, bus}), Grant(a1, TRUE, FALSE, 15, {bus}),
               Grant(a2, FALSE, TRUE, 50, {tuition})}
=============================================================================
