------------------------------- MODULE AgentChats -------------------------------
(***************************************************************************)
(* Chats with the agents: a graph of two nodes in which the language model    *)
(* answers or asks for calls of tools, the tools are called one after the      *)
(* other, and the model is asked again, until it asks for nothing or the         *)
(* graph has taken as many steps as it may.  The endpoint runs the graph in a     *)
(* synchronous call on the server's only event loop: one chat at a time.           *)
(***************************************************************************)
EXTENDS Integers, FiniteSets, Sequences, School

CONSTANTS Tried,            \* bound: tools the model asks for
          MaxCalls,         \* bound: calls the model asks for at a time
          RecursionLimit,   \* steps a graph may take
          MaxChats          \* bound: chats

ASSUME ChatAssumption == MaxCalls \in Nat /\ RecursionLimit \in Nat /\ MaxChats \in Nat

VARIABLES chats,    \* chats asked so far
          replies   \* what endpoints answered

chatVars == <<chats, replies>>

-----------------------------------------------------------------------------
(* The agents and their tools. *)

\* Tools that read and write marks with the session of the request (see MarkBook).
MarkTools == {"get_student_marks_for_exam", "record_student_marks", "update_student_marks",
              "get_marksheet_for_exam", "get_class_performance_in_subject"}

\* Tools that make up a result.
ExamTools == {"schedule_exam", "get_exam_schedule_for_class", "get_upcoming_exams", "define_new_exam_type"}
SubjectTools == {"list_subjects_for_class", "get_teacher_for_subject", "assign_subject_to_class",
                 "list_academic_streams", "assign_teacher_to_subject"}
TimetableTools == {"get_class_timetable", "get_teacher_timetable", "find_current_period_for_class",
                   "find_free_teachers", "update_timetable_entry"}

\* Tools that open a session of their own for the school of the chat ...
ClassTools == {"create_new_class", "get_class_details", "list_students_in_class", "get_class_schedule",
               "assign_class_teacher", "list_all_classes"}
\* ... and tools that ask the server over HTTP with the token of the chat.
AttendanceTools == {"mark_student_attendance", "get_student_attendance_for_date_range",
                    "get_class_attendance_for_date", "get_student_attendance_summary"}

ToolsOf == [marks |-> MarkTools, exams |-> ExamTools, subjects |-> SubjectTools,
            timetable |-> TimetableTools, classes |-> ClassTools, attendance |-> AttendanceTools]
Agents == DOMAIN ToolsOf

Requested == UNION {[1 .. n -> Tried] : n \in 0 .. MaxCalls}
Spoken(calls) == [by |-> "model", calls |-> calls]
Answer(x, k, what) == [by |-> "tool", call |-> k, tool |-> x, what |-> what]

-----------------------------------------------------------------------------
ChatInit == chats = 0 /\ replies = {} /\ JobInit

\* invoke: the system prompt and the query; nothing of an earlier chat.
Ask(s, a) ==
  /\ chats < MaxChats /\ chats' = chats + 1
  /\ \A k \in Sessions : ~Working(k, "chat")
  /\ Begin(s, [kind |-> "chat", agent |-> a, log |-> <<[by |-> "user"]>>, node |-> "agent", steps |-> 0])
  /\ UNCHANGED replies

\* _should_continue.
NodeAfter(calls) == IF calls = <<>> THEN "end" ELSE "action"

\* A step of the graph: what the node adds to the messages, and the node after it.
GraphStep(s, at, entries, next) ==
  /\ Working(s, "chat") /\ job[s].node = at /\ job[s].steps < RecursionLimit
  /\ job' = [job EXCEPT ![s] = [@ EXCEPT !.log = job[s].log \o entries, !.node = next, !.steps = job[s].steps + 1]]
  /\ UNCHANGED chatVars

\* _call_model: a model that cannot be reached gives a message without calls.
CallModel(s, calls) ==
  /\ \A k \in DOMAIN calls : calls[k] \in ToolsOf[job[s].agent]
  /\ GraphStep(s, "agent", <<Spoken(calls)>>, NodeAfter(calls))

\* The endpoint of the class agent sets no context, and that of the attendance agent
\* one without a token.
WithoutContext(x) == x \in ClassTools
WithoutToken(x) == x \in AttendanceTools

\* The schema of update_timetable_entry names an argument that the tool does not have,
\* and the tool others that the schema does not know.  Of the tools that make up a
\* result, those of the timetable know fewer days and periods than their schemas.
NeverEntered == {"update_timetable_entry"}
NeverRefuses == ExamTools \cup SubjectTools \cup {"find_current_period_for_class"}

\* What a call may come to.  Arguments that the schema of the tool does not take
\* are an exception before the tool is entered.
Outcomes(x) ==
  {what \in {"result", "refusal", "exception"} :
     /\ what # "exception" => x \notin NeverEntered
     /\ what = "result" => ~WithoutContext(x) /\ ~WithoutToken(x)
     /\ what = "refusal" => x \notin NeverRefuses}
AllOutcomes(calls) == {what \in [DOMAIN calls -> {"result", "refusal", "exception"}] :
                         \A k \in DOMAIN calls : what[k] \in Outcomes(calls[k])}
LastOf(s) == job[s].log[Len(job[s].log)]

\* Mutant: a call that raises is passed over.
CallToolsQuiet(s) ==
  /\ Working(s, "chat") /\ job[s].node = "action"
  /\ LET calls == LastOf(s).calls
     IN \E what \in AllOutcomes(calls) :
          GraphStep(s, "action", SelectSeq([k \in DOMAIN calls |-> Answer(calls[k], k, what[k])],
                                           LAMBDA e : e.what # "exception"), "agent")

\* _call_tool: every call of the last message is answered, an exception by its text.
CallTools(s) ==
  /\ Working(s, "chat") /\ job[s].node = "action"
  /\ LET calls == LastOf(s).calls
     IN \E what \in AllOutcomes(calls) :
          GraphStep(s, "action", [k \in DOMAIN calls |-> Answer(calls[k], k, what[k])], "agent")

Reply(s, what) ==
  /\ replies' = replies \cup {[agent |-> job[s].agent, what |-> what]}
  /\ EndJob(s) /\ UNCHANGED chats

\* The last message of the graph is the answer.
Respond(s) ==
  /\ Working(s, "chat") /\ job[s].node = "end"
  /\ Reply(s, LastOf(s).by)

\* The graph raises when it may take no more steps; the agent gives an apology and no
\* messages.  Most endpoints ask for success or for the last message, and fail.
GiveUp(s) ==
  /\ Working(s, "chat") /\ job[s].node # "end" /\ job[s].steps = RecursionLimit
  /\ Reply(s, IF job[s].agent = "attendance" THEN "apology" ELSE "error")

ChatStep(s) ==
  /\ Working(s, "chat")
  /\ Respond(s) \/ GiveUp(s) \/ CallTools(s) \/ \E calls \in Requested : CallModel(s, calls)

ChatNext ==
  /\ \E s \in Sessions : ChatStep(s) \/ \E a \in Agents : Ask(s, a)
  /\ UNCHANGED alone

\* Nothing else runs on the loop, and calls of the model and of tools return.
ChatFairness == \A s \in Sessions : WF_<<job, alone, chatVars>>(ChatStep(s) /\ UNCHANGED alone)

ChatSpec == ChatInit /\ [][ChatNext]_<<job, alone, chatVars>> /\ ChatFairness

-----------------------------------------------------------------------------
(* What a chat promises. *)

\* The counters, the replies and the messages have their types.
ChatTypeOK ==
  /\ chats \in 0 .. MaxChats
  /\ replies \subseteq [agent : Agents, what : {"user", "model", "tool", "apology", "error"}]
  /\ \A s \in Sessions :
       \/ job[s] = NoJob
       \/ /\ Working(s, "chat") /\ job[s].agent \in Agents /\ job[s].steps \in 0 .. RecursionLimit
          /\ \A i \in DOMAIN job[s].log : job[s].log[i].by = "model" => job[s].log[i].calls \in Requested

\* Every call the model asked for is answered once and in order, whatever became of
\* the calls before it, before the model is asked again; models refuse other
\* histories.  And what the user gets is the model's word, never a tool's.
AnswersMatchCalls ==
  /\ \A s \in Sessions : Working(s, "chat") =>
       LET log == job[s].log
       IN \A i \in DOMAIN log : log[i].by = "model" /\ (i < Len(log) \/ job[s].node = "agent") =>
            LET n == Len(log[i].calls)
            IN /\ n > 0 /\ i + n <= Len(log)
               /\ \A k \in 1 .. n : log[i + k].by = "tool" /\ log[i + k].call = k /\ log[i + k].tool = log[i].calls[k]
               /\ i + n < Len(log) => log[i + n + 1].by = "model"
  /\ \A r \in replies : r.what \in {"model", "apology", "error"}

\* A chat ends although the model may ask for calls without end.
ChatsEnd == \A s \in Sessions : Working(s, "chat") ~> ~Working(s, "chat")
=============================================================================
