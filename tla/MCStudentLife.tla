----------------------------- MODULE MCStudentLife -----------------------------
(* A school with two years, one with a single year that is over, or one with a *)
(* club, a rule and an achievement.                                           *)
EXTENDS StudentLife, MCMarkBook

YearRow(on) == [table |-> "year", on |-> on]
ClubRow == [table |-> "club", capacity |-> 1, count |-> 0, open |-> TRUE]
MemberRow(k, a, status) == [table |-> "member", club |-> k, student |-> a, status |-> status, score |-> 3, exited |-> FALSE]
ActivityRow(k) == [table |-> "activity", club |-> k, status |-> "planned"]
RuleRow(p) == [table |-> "rule", category |-> "chess", points |-> p, on |-> TRUE]
AchievementRow(a) == [table |-> "achievement", student |-> a, category |-> "chess", points |-> 0, verified |-> FALSE]

Start(f) == [i \in RowIds |-> IF i \in DOMAIN f THEN f[i] ELSE NoRow]
Schools == {Start(<<YearRow(FALSE), RuleRow(10), [RuleRow(5) EXCEPT !.category = "debate"], YearRow(TRUE)>>),
            Start(<<YearRow(FALSE), RuleRow(10), ActivityRow(4), ClubRow>>),
            Start(<<ClubRow, RuleRow(10), AchievementRow(a1), MemberRow(1, a1, "active")>>)}
RowsWanted == {YearRow(TRUE), ActivityRow(1), MemberRow(1, a1, "active"), MemberRow(1, a2, "inactive")}
Put(t, fields) == [table |-> t, fields |-> fields]
PutsTried == {Put("club", [open |-> FALSE]), Put("member", [status |-> "active"]),
              Put("member", [status |-> "inactive"]), Put("member", [exited |-> TRUE]),
              Put("rule", [points |-> 20]),
              Put("achievement", [category |-> "debate"]), Put("year", [on |-> FALSE])}
Marks == [a \in Students |-> IF a = a1 THEN 7 ELSE 0]
=============================================================================
