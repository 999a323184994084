--------------------------------- MODULE Fees ---------------------------------
(***************************************************************************)
(* What a school charges: fee templates, the fees of a class, and invoices.  *)
(* An invoice is drawn up from the fees of the student's class, less what the  *)
(* student opted out of and the discounts granted.  A class is billed in one    *)
(* transaction, a student at a time in no particular order, and the invoice     *)
(* number, made of the student and the term, is what keeps a student from       *)
(* being billed twice.                                                          *)
(*                                                                         *)
(* Prices are in cents, intermediate amounts in hundredths of a cent: the        *)
(* columns of an item round to cents, the amount due of an invoice does not.     *)
(***************************************************************************)
EXTENDS Integers, FiniteSets, FiniteSetsExt, School

CONSTANTS Components, Base,   \* fee components and their base amounts
          Templates,          \* names of templates that may be created ...
          PartsOf, TermsOf,   \* ... with their components and terms
          EnrolledIn,         \* the class of each student
          OptedOut,           \* components each student opted out of
          Grants,             \* discounts of students
          FeeYears,
          MaxFeeRequests,     \* bound: requests that change something
          LastYear            \* bound: calendar years

VARIABLES templates,   \* templates that exist
          structure,   \* structure[k]: rows of class_fee_structure with key k
          invoices,    \* committed invoices with their items and logged discounts
          asked,       \* requests so far
          today        \* the calendar year

feesVars == <<templates, structure, invoices, asked, today>>

-----------------------------------------------------------------------------
FeeKeys == [class : Classes, component : Components, year : FeeYears]
GrantRows == [student : Students, active : BOOLEAN, percent : BOOLEAN, value : Nat \ {0}, for : SUBSET Components]
InvoiceItems == [component : Components, original : Nat, off : Nat, final : Nat]
DiscountLogs == [grant : Grants, component : Components, amount : Nat]
Invoices == [student : Students, year : Nat, term : UNION {TermsOf[t] : t \in Templates},
             due : Nat, items : SUBSET InvoiceItems, logs : SUBSET DiscountLogs]

ASSUME FeesAssumption ==
  /\ IsFiniteSet(Sessions) /\ IsFiniteSet(Components) /\ IsFiniteSet(Grants)
  /\ Base \in [Components -> Nat] /\ Grants \subseteq GrantRows
  /\ EnrolledIn \in [Students -> Classes] /\ OptedOut \in [Students -> SUBSET Components]
  /\ PartsOf \in [Templates -> SUBSET Components]
  /\ MaxFeeRequests \in Nat /\ LastYear \in Nat \ {0}

\* UNIQUE (invoice_number): the number is made of the year, the student and the term.
NumberOn(i) == <<i.year, i.student, i.term>>

FeesInit ==
  /\ templates = {} /\ invoices = {} /\ asked = 0 /\ today = 1 /\ JobInit
  /\ structure = [k \in FeeKeys |-> 0]

-----------------------------------------------------------------------------
(* Templates and the fees of a class. *)

\* create_fee_template: the template, its components and its terms in one commit.
CreateTemplate(t) ==
  /\ t \notin templates /\ asked < MaxFeeRequests
  /\ templates' = templates \cup {t}
  /\ asked' = asked + 1 /\ UNCHANGED <<structure, invoices, today, job>>

\* assign_template_to_class reads which components the class has for the year ...
AssignRead(s, t, c, y) ==
  /\ t \in templates /\ asked < MaxFeeRequests
  /\ Begin(s, [kind |-> "assign", missing |-> {k \in FeeKeys :
         k.class = c /\ k.year = y /\ k.component \in PartsOf[t] /\ structure[k] = 0}])
  /\ asked' = asked + 1 /\ UNCHANGED <<templates, structure, invoices, today>>

\* ... and adds the others: no constraint keeps a key from being added twice.
AssignCommit(s) ==
  /\ Working(s, "assign")
  /\ structure' = [k \in FeeKeys |-> structure[k] + (IF k \in job[s].missing THEN 1 ELSE 0)]
  /\ EndJob(s) /\ UNCHANGED <<templates, invoices, asked, today>>

-----------------------------------------------------------------------------
(* What a student is charged. *)

\* The fees of every year count, under any template; a component is charged once.
Billable(a) ==
  {x \in Components : \E y \in FeeYears :
     structure[[class |-> EnrolledIn[a], component |-> x, year |-> y]] > 0} \ OptedOut[a]

Cents(v) == (v + 50) \div 100

GrantsOn(a, x) == {g \in Grants : g.student = a /\ g.active /\ x \in g.for}
ValueOf(g, x) == IF g.percent THEN Base[x] * g.value ELSE 100 * g.value
OffOn(a, x) == FoldSet(LAMBDA g, t : ValueOf(g, x) + t, 0, GrantsOn(a, x))

\* Mutant: discounts may exceed what they are taken from.
FinalUnclamped(a, x) == 100 * Base[x] - OffOn(a, x)

\* Discounts add up, but never below nothing.
Final(a, x) == IF OffOn(a, x) > 100 * Base[x] THEN 0 ELSE 100 * Base[x] - OffOn(a, x)

\* Mutant: the sum is taken before the discounts are cut off at the price.
AmountDueUnclamped(a) ==
  FoldSet(LAMBDA x, t : 100 * Base[x] - OffOn(a, x) + t, 0, Billable(a))

AmountDue(a) == FoldSet(LAMBDA x, t : Final(a, x) + t, 0, Billable(a))

InvoiceFor(a, term) ==
  [student |-> a, year |-> today, term |-> term, due |-> AmountDue(a),
   items |-> {[component |-> x, original |-> Base[x], off |-> Cents(OffOn(a, x)), final |-> Cents(Final(a, x))]
                : x \in Billable(a)},
   logs |-> {[grant |-> g, component |-> x, amount |-> Cents(ValueOf(g, x))]
               : g \in {g \in Grants : g.student = a /\ g.active}, x \in Billable(a)}
            \cap {l \in DiscountLogs : l.component \in l.grant.for}]

-----------------------------------------------------------------------------
(* Billing. *)

\* A request that bills these students, in any order.
BillingStart(s, students, term) ==
  /\ students # {} /\ asked < MaxFeeRequests
  /\ \E t \in templates : term \in TermsOf[t]
  /\ \E a \in students :
       Begin(s, [kind |-> "invoice", students |-> students, term |-> term,
                 todo |-> students, next |-> a, drafts |-> {}])
  /\ asked' = asked + 1 /\ UNCHANGED <<templates, structure, invoices, today>>

\* generate_invoice_for_student and generate_invoices_for_class.
GenerateForStudent(s, a, term) == BillingStart(s, {a}, term)
GenerateForClass(s, c, term) == BillingStart(s, {a \in Students : EnrolledIn[a] = c}, term)

NextNumber(s) == <<today, job[s].next, job[s].term>>
NumberTaken(s) == \E i \in invoices : NumberOn(i) = NextNumber(s)

\* An INSERT with a number that another session has inserted and not committed waits.
WaitsFor(s) == {k \in Sessions \ {s} : Working(k, "invoice")
                                        /\ \E i \in job[k].drafts : NumberOn(i) = NextNumber(s)}
StillBilling(s) == Working(s, "invoice") /\ job[s].todo # {}

\* Mutant: the loop starts over with the student it has just billed.
BillAgain(s) ==
  /\ StillBilling(s) /\ ~NumberTaken(s) /\ WaitsFor(s) = {}
  /\ job' = [job EXCEPT ![s].drafts = @ \cup {InvoiceFor(job[s].next, job[s].term)}]
  /\ UNCHANGED feesVars

\* _generate_invoice_for_student_core: the fees are read when the student's turn comes.
Bill(s) ==
  /\ StillBilling(s) /\ ~NumberTaken(s) /\ WaitsFor(s) = {}
  /\ LET left == job[s].todo \ {job[s].next}
     IN \E a \in (IF left = {} THEN {job[s].next} ELSE left) :
          job' = [job EXCEPT ![s] = [job[s] EXCEPT !.todo = left, !.next = a,
                                                  !.drafts = job[s].drafts \cup {InvoiceFor(job[s].next, job[s].term)}]]
  /\ UNCHANGED feesVars

BillingCommit(s) ==
  /\ Working(s, "invoice") /\ job[s].todo = {}
  /\ invoices' = invoices \cup job[s].drafts
  /\ EndJob(s) /\ UNCHANGED <<templates, structure, asked, today>>

\* Mutant: the savepoint is not rolled back.
BillingFailsKept(s) ==
  Working(s, "invoice") /\ EndJob(s)
    /\ invoices' = invoices \cup job[s].drafts /\ UNCHANGED <<templates, structure, asked, today>>

\* A request that fails rolls back to its savepoint: none of its invoices remain.
BillingFails(s) == Working(s, "invoice") /\ EndJob(s) /\ UNCHANGED feesVars

\* It fails when a student has an invoice with that number, ...
NumberRefused(s) == StillBilling(s) /\ NumberTaken(s) /\ BillingFails(s)

\* ... and when the database finds that it waits in a circle.
Circle(C) == \A s \in C : (\E k \in C : k \in WaitsFor(s)) /\ (\E k \in C : s \in WaitsFor(k))
DeadlockBroken(s) ==
  /\ \E C \in SUBSET {k \in Sessions : StillBilling(k)} : s \in C /\ Circle(C)
  /\ BillingFails(s)

-----------------------------------------------------------------------------
FeesStep(s) ==
  \/ \E t \in Templates, c \in Classes, y \in FeeYears : AssignRead(s, t, c, y)
  \/ AssignCommit(s)
  \/ \E t \in Templates : \E term \in TermsOf[t] :
       (\E a \in Students : GenerateForStudent(s, a, term)) \/ (\E c \in Classes : GenerateForClass(s, c, term))
  \/ Bill(s) \/ BillingCommit(s) \/ BillingFails(s) \/ NumberRefused(s) \/ DeadlockBroken(s)

\* The number of an invoice has the year in it: a term can be billed again next year.
NewYear == today < LastYear /\ today' = today + 1 /\ UNCHANGED <<templates, structure, invoices, asked, job>>

FeesNext ==
  /\ \/ \E s \in Sessions : FeesStep(s)
     \/ \E t \in Templates : CreateTemplate(t)
     \/ NewYear
  /\ Watch({"invoice"}, UNCHANGED structure)

\* A transaction goes on, and the database resolves what stops it.
FeesFairness ==
  \A s \in Sessions : WF_job(Bill(s) \/ BillingCommit(s) \/ NumberRefused(s) \/ DeadlockBroken(s))

FeesSpec == FeesInit /\ [][FeesNext]_<<job, alone, feesVars>> /\ FeesFairness

-----------------------------------------------------------------------------
(* What billing promises. *)

\* Rows and requests have their types; no amount is below nothing.
FeesTypeOK ==
  /\ templates \subseteq Templates /\ invoices \subseteq Invoices /\ asked \in 0 .. MaxFeeRequests /\ today \in 1 .. LastYear
  /\ structure \in [FeeKeys -> 0 .. Cardinality(Sessions)]
  /\ \A s \in Sessions :
       \/ job[s] = NoJob
       \/ Working(s, "assign") /\ job[s].missing \subseteq FeeKeys
       \/ Working(s, "invoice") /\ job[s].drafts \subseteq Invoices /\ job[s].todo \subseteq job[s].students

Total(items, f(_)) == FoldSet(LAMBDA i, t : f(i) + t, 0, items)

\* An invoice adds up, although its amount is summed before its items are rounded:
\* it has one item for a component, its amount is within half a cent per item of
\* the items, and whatever it is below the prices is in the discounts logged.
InvoiceAddsUp ==
  \A i \in invoices :
    LET items == 100 * Total(i.items, LAMBDA x : x.final)
        prices == 100 * Total(i.items, LAMBDA x : x.original)
        granted == 100 * Total(i.logs, LAMBDA l : l.amount)
    IN /\ \A x, y \in i.items : x.component = y.component => x = y
       /\ i.due - items \in -(50 * Cardinality(i.items)) .. 50 * Cardinality(i.items)
       /\ prices - i.due <= granted + 50 * Cardinality(i.logs)

\* A request bills all of its students or none, and nobody twice for a term in
\* a year; if the fees did not change meanwhile, all of them by the fees that hold when it
\* commits.
ClassInvoicedWhole ==
  [][LET new == invoices' \ invoices
     IN new # {} => \E s \in Sessions :
          /\ Working(s, "invoice") /\ {i.student : i \in new} = job[s].students
          /\ \A i \in new, k \in invoices' : NumberOn(i) = NumberOn(k) => i = k
          /\ s \in alone => \A i \in new : {x.component : x \in i.items} = Billable(i.student)]_<<job, feesVars>>

\* A request that bills students ends: the database breaks every circle in which
\* such requests wait for each other.
BillingEnds == \A s \in Sessions : Working(s, "invoice") ~> job[s].kind # "invoice"
=============================================================================
