------------------------------- MODULE School --------------------------------
(***************************************************************************)
(* What the parts of the school office have in common.  Each request runs   *)
(* in a database session of its own; job[s] is what the request of session s *)
(* has read and decided so far.  A request is a few steps, one for each       *)
(* SELECT whose answer it keeps and one for the commit; requests that read    *)
(* and write in a single statement, or whose read cannot go stale, are one    *)
(* step.                                                                      *)
(***************************************************************************)
CONSTANTS Sessions, Students, Teachers, Classes, Subjects

VARIABLES job,
          alone   \* history: sessions in whose time nobody else wrote what they work on

NoJob == [kind |-> "none"]
Idle(s) == job[s] = NoJob
Working(s, kind) == job[s].kind = kind
Begin(s, j) == Idle(s) /\ job' = [job EXCEPT ![s] = j]
EndJob(s) == job' = [job EXCEPT ![s] = NoJob]

JobInit == job = [s \in Sessions |-> NoJob] /\ alone = {}

\* Bookkeeping for requests of these kinds: a request is alone until some step
\* of another one changes the tables.
Watch(kinds, same) ==
  alone' = {s \in Sessions : job'[s].kind \in kinds /\ (Idle(s) \/ (s \in alone /\ same))}

\* A commit of the ORM: of the fields the request assigned, those whose new value
\* differs from the copy the session loaded are written; the row keeps the rest.
Flushed(row, copy, change) ==
  [f \in DOMAIN row |-> IF f \in DOMAIN change /\ change[f] # copy[f] THEN change[f] ELSE row[f]]
=============================================================================
