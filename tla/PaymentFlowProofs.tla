-------------------------- MODULE PaymentFlowProofs ---------------------------
(***************************************************************************)
(* Proofs about PaymentFlow, for every set of sessions, payments, invoices *)
(* and orders, and for invoices of any items.  The first part speaks of     *)
(* locks, of the gateway and of the status of a payment; the second, from   *)
(* TypeInv on, of the money.                                               *)
(***************************************************************************)
EXTENDS PaymentFlow, SumTheorems, TLAPS

-----------------------------------------------------------------------------
(* The shape of the tables and of the sessions.  Amounts are left out: they *)
(* do not matter to locks and statuses.                                    *)

Fields == DOMAIN Blank

\* What is known of the record of any session.
SessionShape(r) ==
  /\ DOMAIN r = Fields
  /\ r.batch \subseteq Payments
  /\ r.pc \notin {"idle", "sweep"} => r.pay \in Payments

Shape ==
  /\ req = [s \in Sessions |-> req[s]]
  /\ DOMAIN payLock = Payments /\ DOMAIN payStatus = Payments
  /\ DOMAIN allocated = Payments /\ DOMAIN event = Payments
  /\ \A s \in Sessions : SessionShape(req[s])

\* The fields of a session.
LEMMA FieldNames == Fields = {"pc", "flow", "pay", "was", "item", "left", "plan", "loaded", "total", "saved",
                              "seen", "batch"}
BY DEF Fields, Blank

\* A session with nothing in flight has the shape.
LEMMA BlankShape == SessionShape(Blank)
BY DEF SessionShape, Blank, Fields

\* The record of a session that has just turned to payment p.
Fresh(r, flow, p, was) ==
  /\ r.pc \in {"allocate", "order", "order commit"}
  /\ r.flow = flow /\ r.pay = p /\ r.was = was /\ ~ r.saved

\* Turning to a payment gives a record for that payment, in its first step.
LEMMA BeginReq ==
  ASSUME Shape, NEW s \in Sessions, NEW flow, NEW p \in Payments, NEW was, Begin(s, flow, p, was)
  PROVE  \E r : req' = [req EXCEPT ![s] = r] /\ SessionShape(r) /\ Fresh(r, flow, p, was)
<1> DEFINE r == [Blank EXCEPT !.pc = IF target[p] \in Invoices THEN "allocate"
                                   ELSE IF flow = "sweep" THEN "order commit" ELSE "order",
                             !.flow = flow, !.pay = p, !.was = was, !.item = 1, !.left = Amount,
                             !.loaded = [v \in Invoices |-> IF v = target[p] /\ req[s].loaded[v] = None
                                                            THEN amountPaid[v] ELSE req[s].loaded[v]],
                             !.batch = req[s].batch \ {p}]
<1>1. req' = [req EXCEPT ![s] = r]
  BY DEF Begin
<1>2. req[s].batch \subseteq Payments
  BY DEF Shape, SessionShape
<1>3. SessionShape(r)
  BY <1>2 DEF SessionShape, Blank, Fields
<1>4. Fresh(r, flow, p, was)
  BY DEF Fresh, Blank
<1> QED BY <1>1, <1>3, <1>4

\* A session that is done with a payment is idle or looks at its next one.
LEMMA ReturnReq ==
  ASSUME Shape, NEW s \in Sessions, NEW loaded, Return(s, loaded)
  PROVE  \E r : /\ req' = [req EXCEPT ![s] = r] /\ SessionShape(r) /\ r.pc \in {"idle", "sweep"}
<1>1. req[s].batch \subseteq Payments
  BY DEF Shape, SessionShape
<1>2. CASE req[s].batch = {}
  <2>1. req' = [req EXCEPT ![s] = Blank]
    BY <1>2 DEF Return
  <2>2. Blank.pc = "idle"
    BY DEF Blank
  <2> QED BY <2>1, <2>2, BlankShape
<1>3. CASE req[s].batch # {}
  <2> DEFINE r == [Blank EXCEPT !.pc = "sweep", !.flow = "sweep", !.batch = req[s].batch, !.loaded = loaded]
  <2>1. SessionShape(r) /\ r.pc = "sweep"
    BY <1>1 DEF SessionShape, Blank, Fields
  <2>2. req' = [req EXCEPT ![s] = r]
    BY <1>3 DEF Return
  <2> QED BY <2>1, <2>2
<1> QED BY <1>2, <1>3

\* A step of a session gives it a record of the same shape.
LEMMA StepReq ==
  ASSUME Shape, NEW s \in Sessions, NextOf(s)
  PROVE  \E r : req' = [req EXCEPT ![s] = r] /\ SessionShape(r)
<1> DEFINE Goal == \E r : req' = [req EXCEPT ![s] = r] /\ SessionShape(r)
<1>a. SessionShape(req[s]) /\ DOMAIN req = Sessions /\ req = [r \in Sessions |-> req[r]]
  BY DEF Shape
<1>1. ASSUME UNCHANGED req PROVE Goal
  <2>1. req' = [req EXCEPT ![s] = req[s]]
    BY <1>1, <1>a
  <2> QED BY <2>1, <1>a
<1>2. ASSUME NEW p \in Payments, VerifyLock(s, p) \/ SweepCapture(s, p)
      PROVE  Goal
  <2>1. PICK flow : Begin(s, flow, p, "pending")
    BY <1>2 DEF VerifyLock, SweepCapture
  <2> QED BY <2>1, BeginReq
<1>3. ASSUME NEW p \in Payments, WebhookNew(s, p)
      PROVE  Goal
  <2> DEFINE r == [Blank EXCEPT !.pc = "webhook", !.flow = "webhook", !.pay = p]
  <2>1. req' = [req EXCEPT ![s] = r]
    BY <1>3 DEF WebhookNew
  <2>2. SessionShape(r)
    BY DEF SessionShape, Blank, Fields
  <2> QED BY <2>1, <2>2
<1>4. ASSUME WebhookLock(s) PROVE Goal
  <2>1. req[s].pay \in Payments
    BY <1>4, <1>a DEF WebhookLock, SessionShape
  <2>2. CASE req' = [req EXCEPT ![s].pc = "record"]
    <3>1. req' = [req EXCEPT ![s] = [req[s] EXCEPT !.pc = "record"]]
      BY <2>2
    <3>2. SessionShape([req[s] EXCEPT !.pc = "record"])
      BY <1>a, <2>1, FieldNames DEF SessionShape
    <3> QED BY <3>1, <3>2
  <2>3. CASE Begin(s, "webhook", req[s].pay, payStatus[req[s].pay])
    BY <2>1, <2>3, BeginReq
  <2> QED BY <1>4, <2>2, <2>3 DEF WebhookLock
<1>5. ASSUME WebhookBadSignature(s) \/ AllocateItem(s) \/ SaveAllocations(s) \/ ReadTotal(s) \/ ReadOrder(s)
      PROVE  Goal
  <2>1. req[s].pay \in Payments
    BY <1>5, <1>a DEF WebhookBadSignature, AllocateItem, SaveAllocations, ReadTotal, ReadOrder, ToSave,
                      Allocated, SessionShape
  <2>2. CASE WebhookBadSignature(s)
    <3>1. PICK saved : req' = [req EXCEPT ![s] = [req[s] EXCEPT !.pc = "mark", !.saved = saved]]
      BY <2>2 DEF WebhookBadSignature
    <3>2. SessionShape([req[s] EXCEPT !.pc = "mark", !.saved = saved])
      BY <1>a, <2>1, FieldNames DEF SessionShape
    <3> QED BY <3>1, <3>2
  <2>3. CASE AllocateItem(s)
    <3>1. PICK item, plan, left : req' = [req EXCEPT ![s] = [req[s] EXCEPT !.item = item, !.plan = plan, !.left = left]]
      BY <2>3 DEF AllocateItem
    <3>2. SessionShape([req[s] EXCEPT !.item = item, !.plan = plan, !.left = left])
      BY <1>a, <2>1, FieldNames DEF SessionShape
    <3> QED BY <3>1, <3>2
  <2>4. CASE SaveAllocations(s)
    <3>1. PICK was : req' = [req EXCEPT ![s] = [req[s] EXCEPT !.pc = "settle", !.saved = TRUE, !.was = was]]
      BY <2>4 DEF SaveAllocations
    <3>2. SessionShape([req[s] EXCEPT !.pc = "settle", !.saved = TRUE, !.was = was])
      BY <1>a, <2>1, FieldNames DEF SessionShape
    <3> QED BY <3>1, <3>2
  <2>5. CASE ReadTotal(s)
    <3>1. PICK total : req' = [req EXCEPT ![s] = [req[s] EXCEPT !.pc = "finish", !.total = total]]
      BY <2>5 DEF ReadTotal
    <3>2. SessionShape([req[s] EXCEPT !.pc = "finish", !.total = total])
      BY <1>a, <2>1, FieldNames DEF SessionShape
    <3> QED BY <3>1, <3>2
  <2>6. CASE ReadOrder(s)
    <3>1. PICK seen : req' = [req EXCEPT ![s] = [req[s] EXCEPT !.pc = "order commit", !.seen = seen]]
      BY <2>6 DEF ReadOrder
    <3>2. SessionShape([req[s] EXCEPT !.pc = "order commit", !.seen = seen])
      BY <1>a, <2>1, FieldNames DEF SessionShape
    <3> QED BY <3>1, <3>2
  <2> QED BY <1>5, <2>2, <2>3, <2>4, <2>5, <2>6
<1>6. ASSUME End(s)
      PROVE  Goal
  BY <1>6, BlankShape DEF End
<1>7. ASSUME NEW loaded, Return(s, loaded)
      PROVE  Goal
  BY <1>7, ReturnReq
<1>8. ASSUME WebhookDuplicate(s) PROVE Goal
  <2>1. CASE ToSave(s) /\ req' = [req EXCEPT ![s].pc = "mark"]
    <3>1. req[s].pay \in Payments
      BY <1>a, <2>1 DEF ToSave, Allocated, SessionShape
    <3>2. req' = [req EXCEPT ![s] = [req[s] EXCEPT !.pc = "mark"]]
      BY <2>1
    <3>3. SessionShape([req[s] EXCEPT !.pc = "mark"])
      BY <1>a, <3>1, FieldNames DEF SessionShape
    <3> QED BY <3>2, <3>3
  <2> QED BY <1>6, <1>8, <2>1 DEF WebhookDuplicate
<1>9. ASSUME SweepRead(s) PROVE Goal
  <2> DEFINE r == [Blank EXCEPT !.pc = "sweep", !.flow = "sweep",
                                !.batch = {p \in Payments : payStatus[p] = "pending"}]
  <2>1. req' = [req EXCEPT ![s] = r]
    BY <1>9 DEF SweepRead
  <2>2. SessionShape(r)
    BY DEF SessionShape, Blank, Fields
  <2> QED BY <2>1, <2>2
<1>10. ASSUME NEW p \in Payments, SweepReject(s, p)
       PROVE  Goal
  <2> DEFINE r == [req[s] EXCEPT !.pc = "reject", !.pay = p, !.was = "pending", !.batch = req[s].batch \ {p}]
  <2>1. req' = [req EXCEPT ![s] = r]
    BY <1>10, <1>a, FieldNames DEF SweepReject, SessionShape
  <2>2. SessionShape(r)
    BY <1>a, FieldNames DEF SessionShape
  <2> QED BY <2>1, <2>2
<1>11. ASSUME NEW p \in Payments, SweepSkip(s, p)
       PROVE  Goal
  <2>1. CASE req[s].batch = {p}
    <3>1. req' = [req EXCEPT ![s] = Blank]
      BY <1>11, <2>1 DEF SweepSkip
    <3> QED BY <3>1, BlankShape
  <2>2. CASE req[s].batch # {p}
    <3> DEFINE r == [req[s] EXCEPT !.batch = req[s].batch \ {p}]
    <3>1. req' = [req EXCEPT ![s] = r]
      BY <1>11, <2>2 DEF SweepSkip
    <3>2. SessionShape(r)
      BY <1>11, <1>a, FieldNames DEF SweepSkip, SessionShape
    <3> QED BY <3>1, <3>2
  <2> QED BY <2>1, <2>2
<1>12. ASSUME NEW p \in Payments, RetryAllocation(s, p)
       PROVE  Goal
  <2>1. CASE Begin(s, "retry", p, "captured_allocation_failed")
    BY <2>1, BeginReq
  <2>2. CASE target[p] \in Orders /\ ~ Begin(s, "retry", p, "captured_allocation_failed")
    <3> DEFINE r == [Blank EXCEPT !.pc = "order commit", !.flow = "retry", !.pay = p,
                                  !.was = "captured_allocation_failed"]
    <3>1. req' = [req EXCEPT ![s] = r]
      BY <1>12, <2>2 DEF RetryAllocation
    <3>2. SessionShape(r)
      BY DEF SessionShape, Blank, Fields
    <3> QED BY <3>1, <3>2
  <2> QED BY <1>12, <2>1, <2>2 DEF RetryAllocation
<1>13. ASSUME Fail(s) PROVE Goal
  <2>1. CASE req[s].flow = "retry"
    <3>1. req' = [req EXCEPT ![s] = Blank]
      BY <1>13, <2>1 DEF Fail
    <3> QED BY <3>1, BlankShape
  <2>2. CASE req[s].flow # "retry"
    <3> DEFINE r == [Blank EXCEPT !.pc = "mark", !.flow = req[s].flow, !.pay = req[s].pay,
                                  !.was = req[s].was, !.saved = req[s].saved]
    <3>1. req' = [req EXCEPT ![s] = r]
      BY <1>13, <2>2 DEF Fail
    <3>2. req[s].pay \in Payments
      BY <1>13, <1>a DEF Fail, Working, SessionShape
    <3>3. SessionShape(r)
      BY <3>2 DEF SessionShape, Blank, Fields
    <3> QED BY <3>1, <3>3
  <2> QED BY <2>1, <2>2
<1>14. ASSUME (\E p \in Payments, t \in Invoices \cup Orders : InitiatePayment(s, p, t))
              \/ (\E p \in Payments : VerifyBadSignature(s, p))
       PROVE  Goal
  BY <1>14, <1>1 DEF InitiatePayment, VerifyBadSignature
<1>15. ASSUME WebhookRecord(s) \/ MarkPayment(s) \/ MarkEvent(s) \/ Crash(s)
       PROVE  Goal
  BY <1>15, <1>6 DEF WebhookRecord, MarkPayment, MarkEvent, Crash
<1>16. ASSUME FinishInvoice(s) \/ FinishOrder(s) \/ SweepFail(s)
       PROVE  Goal
  <2>1. PICK loaded : Return(s, loaded)
    BY <1>16 DEF FinishInvoice, FinishOrder, SweepFail
  <2> QED BY <2>1, <1>7
<1> HIDE DEF Goal
<1>17. Goal
  BY <1>2, <1>3, <1>4, <1>5, <1>8, <1>9, <1>10, <1>11, <1>12, <1>13, <1>14, <1>15, <1>16, Zenon DEF NextOf
<1> QED BY <1>17 DEF Goal

\* Every step keeps the shape.
LEMMA ShapeStep ==
  ASSUME Shape, [Next]_vars
  PROVE  Shape'
<1>1. CASE UNCHANGED vars
  BY <1>1 DEF Shape, SessionShape, vars, db
<1>2. ASSUME NEW s \in Sessions, NextOf(s)
      PROVE  Shape'
  <2>1. req' = [r \in Sessions |-> req'[r]] /\ \A r \in Sessions : SessionShape(req'[r])
    <3>1. PICK new : req' = [req EXCEPT ![s] = new] /\ SessionShape(new)
      BY <1>2, StepReq
    <3> QED BY <3>1 DEF Shape
  <2>2. /\ DOMAIN payLock' = Payments /\ DOMAIN payStatus' = Payments
        /\ DOMAIN allocated' = Payments /\ DOMAIN event' = Payments
    BY <1>2
       DEF Shape, NextOf, InitiatePayment, VerifyLock, VerifyBadSignature, WebhookNew, WebhookLock,
           WebhookBadSignature, WebhookRecord, WebhookDuplicate, AllocateItem, SaveAllocations, ReadTotal,
           FinishInvoice, ReadOrder, FinishOrder, SweepRead, SweepCapture, SweepReject, SweepFail, SweepSkip,
           RetryAllocation, Fail, MarkPayment, MarkEvent, Crash, End, Return, Release, Write, db
  <2> QED BY <2>1, <2>2 DEF Shape, SessionShape
<1>3. ASSUME (\E p \in Payments : GatewayCaptures(p))
             \/ (\E o \in Orders, to \in Statuses : MoveOrder(o, to))
      PROVE  Shape'
  BY <1>3 DEF GatewayCaptures, MoveOrder, db, Shape, SessionShape
<1> QED BY <1>1, <1>2, <1>3 DEF Next

\* Nothing is in flight at the start.
LEMMA ShapeInit == Init => Shape
BY BlankShape DEF Init, Shape

\* A step of one session leaves the others where they are.
LEMMA OthersStay ==
  ASSUME Shape, NEW s \in Sessions, NextOf(s), NEW r \in Sessions, r # s
  PROVE  req'[r] = req[r]
<1>1. PICK new : req' = [req EXCEPT ![s] = new]
  BY StepReq
<1> QED BY <1>1 DEF Shape

\* What a step makes of the session that takes it: it has begun payment p, it
\* goes on with the payment it has, or it is done with it.
Began(s, flow, p, was) == Fresh(req'[s], flow, p, was)
GoesOn(s, pc) == req'[s].pc = pc /\ req'[s].flow = req[s].flow /\ req'[s].pay = req[s].pay
Done(s) == req'[s].pc \in {"idle", "sweep"}

\* Begin and Return, in these terms.
LEMMA Begins ==
  ASSUME Shape, NEW s \in Sessions, NEW flow, NEW p \in Payments, NEW was, Begin(s, flow, p, was)
  PROVE  Began(s, flow, p, was)
<1>1. PICK r : req' = [req EXCEPT ![s] = r] /\ SessionShape(r) /\ Fresh(r, flow, p, was)
  BY BeginReq
<1>2. req'[s] = r
  BY <1>1 DEF Shape
<1> QED BY <1>1, <1>2 DEF Began

LEMMA Returns ==
  ASSUME Shape, NEW s \in Sessions, NEW loaded, Return(s, loaded)
  PROVE  Done(s)
<1>1. PICK r : req' = [req EXCEPT ![s] = r] /\ r.pc \in {"idle", "sweep"}
  BY ReturnReq
<1> QED BY <1>1 DEF Shape, Done

LEMMA Ends ==
  ASSUME Shape, NEW s \in Sessions, End(s)
  PROVE  Done(s)
BY DEF Shape, End, Blank, Done

\* The actions that leave a session working on a payment.
LEMMA WorkingSteps ==
  ASSUME Shape, NEW s \in Sessions
  PROVE  /\ WebhookLock(s) => \/ GoesOn(s, "record") /\ payStatus[req[s].pay] = "captured"
                             \/ Began(s, "webhook", req[s].pay, payStatus[req[s].pay])
         /\ WebhookBadSignature(s) => GoesOn(s, "mark")
         /\ AllocateItem(s) => GoesOn(s, "allocate") /\ req'[s].saved = req[s].saved
         /\ SaveAllocations(s) => GoesOn(s, "settle")
         /\ ReadTotal(s) => GoesOn(s, "finish") /\ req'[s].saved = req[s].saved
         /\ ReadOrder(s) => GoesOn(s, "order commit") /\ req'[s].saved = req[s].saved
         /\ WebhookDuplicate(s) => GoesOn(s, "mark") \/ Done(s)
         /\ Fail(s) => GoesOn(s, "mark") \/ Done(s)
<1>a. SessionShape(req[s]) /\ DOMAIN req = Sessions
  BY DEF Shape
<1>1. ASSUME WebhookLock(s)
      PROVE  \/ GoesOn(s, "record") /\ payStatus[req[s].pay] = "captured"
             \/ Began(s, "webhook", req[s].pay, payStatus[req[s].pay])
  <2>1. req[s].pay \in Payments
    BY <1>1, <1>a DEF WebhookLock, SessionShape
  <2>2. CASE Begin(s, "webhook", req[s].pay, payStatus[req[s].pay])
    BY <2>1, <2>2, Begins
  <2>3. CASE req' = [req EXCEPT ![s].pc = "record"] /\ payStatus[req[s].pay] = "captured"
    BY <2>3, <1>a, FieldNames DEF SessionShape, GoesOn
  <2> QED BY <1>1, <2>2, <2>3 DEF WebhookLock
<1>2. ASSUME WebhookBadSignature(s)
      PROVE  GoesOn(s, "mark")
  BY <1>2, <1>a, FieldNames DEF WebhookBadSignature, SessionShape, GoesOn
<1>3. ASSUME AllocateItem(s)
      PROVE  GoesOn(s, "allocate") /\ req'[s].saved = req[s].saved
  <2>1. PICK item, plan, left : req' = [req EXCEPT ![s] = [req[s] EXCEPT !.item = item, !.plan = plan, !.left = left]]
    BY <1>3 DEF AllocateItem
  <2>2. req[s].pc = "allocate"
    BY <1>3 DEF AllocateItem
  <2> QED BY <2>1, <2>2, <1>a, FieldNames DEF SessionShape, GoesOn
<1>4. ASSUME SaveAllocations(s)
      PROVE  GoesOn(s, "settle")
  <2>1. PICK was : req' = [req EXCEPT ![s] = [req[s] EXCEPT !.pc = "settle", !.saved = TRUE, !.was = was]]
    BY <1>4 DEF SaveAllocations
  <2> QED BY <2>1, <1>a, FieldNames DEF SessionShape, GoesOn
<1>5. ASSUME ReadTotal(s)
      PROVE  GoesOn(s, "finish") /\ req'[s].saved = req[s].saved
  <2>1. PICK total : req' = [req EXCEPT ![s] = [req[s] EXCEPT !.pc = "finish", !.total = total]]
    BY <1>5 DEF ReadTotal
  <2> QED BY <2>1, <1>a, FieldNames DEF SessionShape, GoesOn
<1>6. ASSUME ReadOrder(s)
      PROVE  GoesOn(s, "order commit") /\ req'[s].saved = req[s].saved
  <2>1. PICK seen : req' = [req EXCEPT ![s] = [req[s] EXCEPT !.pc = "order commit", !.seen = seen]]
    BY <1>6 DEF ReadOrder
  <2> QED BY <2>1, <1>a, FieldNames DEF SessionShape, GoesOn
<1>7. ASSUME WebhookDuplicate(s)
      PROVE  GoesOn(s, "mark") \/ Done(s)
  <2>1. CASE req' = [req EXCEPT ![s].pc = "mark"]
    BY <2>1, <1>a, FieldNames DEF SessionShape, GoesOn
  <2> QED BY <1>7, <2>1, Ends DEF WebhookDuplicate
<1>8. ASSUME Fail(s)
      PROVE  GoesOn(s, "mark") \/ Done(s)
  <2>1. CASE req[s].flow = "retry"
    <3>1. req' = [req EXCEPT ![s] = Blank]
      BY <1>8, <2>1 DEF Fail
    <3> QED BY <3>1, <1>a DEF Done, Blank
  <2>2. CASE req[s].flow # "retry"
    <3>1. req' = [req EXCEPT ![s] = [Blank EXCEPT !.pc = "mark", !.flow = req[s].flow, !.pay = req[s].pay,
                                                  !.was = req[s].was, !.saved = req[s].saved]]
      BY <1>8, <2>2 DEF Fail
    <3> QED BY <3>1, <1>a DEF GoesOn, Blank
  <2> QED BY <2>1, <2>2
<1> QED BY <1>1, <1>2, <1>3, <1>4, <1>5, <1>6, <1>7, <1>8

\* The actions by which a session turns to a payment.
LEMMA BeginningSteps ==
  ASSUME Shape, NEW s \in Sessions, NEW p \in Payments
  PROVE  /\ VerifyLock(s, p) => Began(s, "verify", p, "pending")
         /\ WebhookNew(s, p) => req'[s].pc = "webhook" /\ req'[s].pay = p /\ req'[s].flow = "webhook"
         /\ SweepCapture(s, p) => Began(s, "sweep", p, "pending")
         /\ SweepReject(s, p) => req'[s].pc = "reject" /\ req'[s].pay = p /\ req'[s].was = "pending"
         /\ SweepSkip(s, p) => Done(s)
         /\ RetryAllocation(s, p) => Began(s, "retry", p, "captured_allocation_failed")
<1>a. SessionShape(req[s]) /\ DOMAIN req = Sessions
  BY DEF Shape
<1>1. VerifyLock(s, p) => Began(s, "verify", p, "pending")
  BY Begins DEF VerifyLock
<1>2. WebhookNew(s, p) => req'[s].pc = "webhook" /\ req'[s].pay = p /\ req'[s].flow = "webhook"
  BY <1>a DEF WebhookNew, Blank
<1>3. SweepCapture(s, p) => Began(s, "sweep", p, "pending")
  BY Begins DEF SweepCapture
<1>4. SweepReject(s, p) => req'[s].pc = "reject" /\ req'[s].pay = p /\ req'[s].was = "pending"
  BY <1>a, FieldNames DEF SweepReject, SessionShape
<1>5. ASSUME SweepSkip(s, p)
      PROVE  Done(s)
  <2>1. req'[s] = IF req[s].batch = {p} THEN Blank ELSE [req[s] EXCEPT !.batch = req[s].batch \ {p}]
    BY <1>5, <1>a DEF SweepSkip
  <2>2. req[s].pc = "sweep"
    BY <1>5 DEF SweepSkip
  <2> QED BY <2>1, <2>2, <1>a, FieldNames DEF SessionShape, Done, Blank
<1>6. ASSUME RetryAllocation(s, p)
      PROVE  Began(s, "retry", p, "captured_allocation_failed")
  <2>1. CASE Begin(s, "retry", p, "captured_allocation_failed")
    BY <2>1, Begins
  <2>2. CASE req' = [req EXCEPT ![s] = [Blank EXCEPT !.pc = "order commit", !.flow = "retry", !.pay = p,
                                                     !.was = "captured_allocation_failed"]]
    BY <2>2, <1>a DEF Began, Fresh, Blank
  <2> QED BY <1>6, <2>1, <2>2 DEF RetryAllocation
<1> QED BY <1>1, <1>2, <1>3, <1>4, <1>5, <1>6

\* The actions after which a session is done with its payment.
LEMMA DoneSteps ==
  ASSUME Shape, NEW s \in Sessions,
         \/ WebhookRecord(s) \/ FinishInvoice(s) \/ FinishOrder(s) \/ SweepRead(s)
         \/ SweepFail(s) \/ MarkPayment(s) \/ MarkEvent(s) \/ Crash(s)
  PROVE  Done(s)
<1>1. CASE End(s)
  BY <1>1, Ends
<1>2. ASSUME NEW loaded, Return(s, loaded)
      PROVE  Done(s)
  BY <1>2, Returns
<1>3. CASE SweepRead(s)
  BY <1>3 DEF SweepRead, Shape, Blank, Done
<1> QED BY <1>1, <1>2, <1>3
     DEF WebhookRecord, FinishInvoice, FinishOrder, SweepFail, MarkPayment, MarkEvent, Crash

-----------------------------------------------------------------------------
(* The row lock.                                                           *)

\* From its first read to the commit that records the money, verify and
\* webhook hold the row lock of their payment.
HoldsLock(s) ==
  /\ req[s].flow \in {"verify", "webhook"}
  /\ req[s].pc \in {"allocate", "order", "order commit", "record"}
  => payLock[req[s].pay] = s

LockInv == Shape /\ \A s \in Sessions : HoldsLock(s)

\* No step of another session takes a lock away.
LEMMA LockKept ==
  ASSUME Shape, NEW s \in Sessions, NextOf(s), NEW r \in Sessions, r # s, NEW p \in Payments, payLock[p] = r
  PROVE  payLock'[p] = r
<1>1. r # None
  BY PaymentAssumption
<1>2. CASE UNCHANGED payLock
  BY <1>2
<1>3. CASE Release(s)
  BY <1>3 DEF Release
<1>4. ASSUME NEW q \in Payments, VerifyLock(s, q)
      PROVE  payLock'[p] = r
  BY <1>1, <1>4 DEF VerifyLock, Shape
<1>5. CASE WebhookLock(s)
  BY <1>1, <1>5 DEF WebhookLock, Shape
<1> QED BY <1>2, <1>3, <1>4, <1>5
     DEF NextOf, InitiatePayment, VerifyBadSignature, WebhookNew, WebhookBadSignature, WebhookRecord,
         WebhookDuplicate, AllocateItem, SaveAllocations, ReadTotal, FinishInvoice, ReadOrder, FinishOrder,
         SweepRead, SweepCapture, SweepReject, SweepFail, SweepSkip, RetryAllocation, Fail, MarkPayment,
         MarkEvent, Crash, End, Return, db

\* A session holds the lock when it begins, and until its commit.
LEMMA LockTaken ==
  ASSUME LockInv, NEW s \in Sessions, NextOf(s)
  PROVE  HoldsLock(s)'
<1>a. SessionShape(req[s]) /\ Shape /\ HoldsLock(s)
  BY DEF Shape, LockInv
<1>1. ASSUME Done(s) \/ (\E pc \in {"mark", "settle", "finish"} : GoesOn(s, pc))
      PROVE  HoldsLock(s)'
  BY <1>1 DEF HoldsLock, Done, GoesOn
<1>2. ASSUME NEW p \in Payments, VerifyLock(s, p)
      PROVE  HoldsLock(s)'
  <2>1. req'[s].pay = p
    BY <1>2, <1>a, BeginningSteps DEF Began, Fresh
  <2>2. payLock'[p] = s
    BY <1>2, <1>a DEF VerifyLock, Shape
  <2> QED BY <2>1, <2>2 DEF HoldsLock
<1>3. CASE WebhookLock(s)
  <2>1. req'[s].pay = req[s].pay
    BY <1>3, <1>a, WorkingSteps DEF Began, Fresh, GoesOn
  <2>2. req[s].pay \in Payments
    BY <1>3, <1>a DEF WebhookLock, SessionShape
  <2>3. payLock'[req[s].pay] = s
    BY <1>3, <1>a, <2>2 DEF WebhookLock, Shape
  <2> QED BY <2>1, <2>3 DEF HoldsLock
<1>4. CASE AllocateItem(s) \/ ReadOrder(s)
  <2>1. payLock' = payLock /\ req[s].pc \in {"allocate", "order"}
    BY <1>4 DEF AllocateItem, ReadOrder, db
  <2>2. req'[s].pay = req[s].pay /\ req'[s].flow = req[s].flow
    BY <1>4, <1>a, WorkingSteps DEF GoesOn
  <2> QED BY <1>a, <2>1, <2>2 DEF HoldsLock
<1>5. ASSUME NEW p \in Payments, \/ WebhookNew(s, p) \/ SweepCapture(s, p) \/ SweepReject(s, p)
                                 \/ SweepSkip(s, p) \/ RetryAllocation(s, p)
      PROVE  HoldsLock(s)'
  BY <1>5, <1>a, BeginningSteps DEF Began, Fresh, Done, HoldsLock
<1>6. ASSUME \/ \E p \in Payments, t \in Invoices \cup Orders : InitiatePayment(s, p, t)
             \/ \E p \in Payments : VerifyBadSignature(s, p)
      PROVE  HoldsLock(s)'
  BY <1>6, <1>a DEF InitiatePayment, VerifyBadSignature, HoldsLock
<1>7. CASE WebhookBadSignature(s) \/ SaveAllocations(s) \/ ReadTotal(s) \/ WebhookDuplicate(s) \/ Fail(s)
  BY <1>1, <1>7, <1>a, WorkingSteps
<1>8. CASE \/ WebhookRecord(s) \/ FinishInvoice(s) \/ FinishOrder(s) \/ SweepRead(s)
           \/ SweepFail(s) \/ MarkPayment(s) \/ MarkEvent(s) \/ Crash(s)
  BY <1>1, <1>8, <1>a, DoneSteps
<1> QED BY <1>2, <1>3, <1>4, <1>5, <1>6, <1>7, <1>8 DEF NextOf

\* Every step keeps the invariant of the row lock.
LEMMA LockStep ==
  ASSUME LockInv, [Next]_vars
  PROVE  LockInv'
<1>1. Shape /\ Shape'
  BY ShapeStep DEF LockInv
<1>2. CASE UNCHANGED vars
  BY <1>1, <1>2 DEF LockInv, HoldsLock, vars, db
<1>3. ASSUME NEW s \in Sessions, NextOf(s), NEW r \in Sessions
      PROVE  HoldsLock(r)'
  <2>1. CASE r = s
    BY <1>3, <2>1, LockTaken
  <2>2. CASE r # s
    <3>1. req'[r] = req[r]
      BY <1>1, <1>3, <2>2, OthersStay
    <3>2. req[r].pc \in {"allocate", "order", "order commit", "record"} => req[r].pay \in Payments
      BY <1>1 DEF Shape, SessionShape
    <3>3. HoldsLock(r)
      BY DEF LockInv
    <3> QED BY <1>1, <1>3, <2>2, <3>1, <3>2, <3>3, LockKept DEF HoldsLock
  <2> QED BY <2>1, <2>2
<1>4. ASSUME (\E p \in Payments : GatewayCaptures(p))
             \/ (\E o \in Orders, to \in Statuses : MoveOrder(o, to))
      PROVE  LockInv'
  BY <1>1, <1>4 DEF GatewayCaptures, MoveOrder, db, LockInv, HoldsLock
<1> QED BY <1>1, <1>2, <1>3, <1>4 DEF Next, LockInv

\* verify_payment and handle_webhook_event never work on the same payment at
\* once: the SELECT ... FOR UPDATE that each begins with keeps the other out.
THEOREM LockedCorrect == Spec => []LockedFlowsExclude
<1>1. Init => LockInv
  <2>1. Blank.pc = "idle"
    BY DEF Blank
  <2>2. Init => \A s \in Sessions : req[s] = Blank
    BY DEF Init
  <2>3. Init => \A s \in Sessions : HoldsLock(s)
    BY <2>1, <2>2 DEF HoldsLock
  <2> QED BY <2>3, ShapeInit DEF LockInv
<1>2. LockInv /\ [Next]_vars => LockInv'
  BY LockStep
<1>3. LockInv => LockedFlowsExclude
  BY DEF LockInv, HoldsLock, LockedFlowsExclude
<1> QED BY <1>1, <1>2, <1>3, PTL DEF Spec

-----------------------------------------------------------------------------
(* No flow invents money.                                                  *)

\* A session that records money works on a payment the gateway has captured: the
\* signature of a customer or of a call, the answer to a query or an earlier
\* capture said so.  A call that has just come in knows nothing yet, and one that
\* failed may have been unsigned.
KnowsOfMoney(s) ==
  /\ req[s].pc = "webhook" => req[s].flow = "webhook"
  /\ \/ req[s].pc \in Working \cup {"record"}
     \/ req[s].pc = "mark" /\ req[s].flow # "webhook"
     => req[s].pay \in gateway

CaptureInv == Shape /\ CapturesArePaid /\ \A s \in Sessions : KnowsOfMoney(s)

\* Sessions read the gateway, they do not change it.
LEMMA GatewayKept ==
  ASSUME NEW s \in Sessions, NextOf(s)
  PROVE  gateway' = gateway
BY DEF NextOf, InitiatePayment, VerifyLock, VerifyBadSignature, WebhookNew, WebhookLock, WebhookBadSignature,
       WebhookRecord, WebhookDuplicate, AllocateItem, SaveAllocations, ReadTotal, FinishInvoice, ReadOrder,
       FinishOrder, SweepRead, SweepCapture, SweepReject, SweepFail, SweepSkip, RetryAllocation, Fail,
       MarkPayment, MarkEvent, Crash

\* A payment without money gets no allocation, no processed event and no capture.
LEMMA UnpaidKept ==
  ASSUME CaptureInv, NEW s \in Sessions, NextOf(s), NEW p \in Payments, p \notin gateway
  PROVE  payStatus'[p] \notin Captured /\ ~ (allocated'[p] > 0) /\ event'[p] # "processed"
<1> DEFINE Goal == payStatus'[p] \notin Captured /\ ~ (allocated'[p] > 0) /\ event'[p] # "processed"
<1>a. payStatus[p] \notin Captured /\ ~ (allocated[p] > 0) /\ event[p] # "processed"
  BY DEF CaptureInv, CapturesArePaid
<1>b. Shape /\ KnowsOfMoney(s)
  BY DEF CaptureInv
<1>1. ASSUME UNCHANGED <<payStatus, allocated, event>> PROVE Goal
  BY <1>1, <1>a
<1>2. ASSUME \/ \E q \in Payments, t \in Invoices \cup Orders : InitiatePayment(s, q, t)
             \/ \E q \in Payments : VerifyBadSignature(s, q)
             \/ SweepFail(s)
      PROVE  Goal
  <2>1. UNCHANGED <<allocated, event>>
    BY <1>2 DEF InitiatePayment, VerifyBadSignature, SweepFail
  <2>2. PICK q, new : payStatus' = [payStatus EXCEPT ![q] = new] /\ new \in {"pending", "failed"}
    BY <1>2 DEF InitiatePayment, VerifyBadSignature, SweepFail, Write
  <2>3. payStatus'[p] \notin Captured
    BY <1>a, <1>b, <2>2 DEF Captured, Shape
  <2> QED BY <1>a, <2>1, <2>3
<1>3. ASSUME WebhookBadSignature(s) \/ WebhookRecord(s) \/ MarkEvent(s) PROVE Goal
  <2>1. UNCHANGED <<payStatus, allocated>>
    BY <1>3 DEF WebhookBadSignature, WebhookRecord, MarkEvent
  <2>2. WebhookRecord(s) => p # req[s].pay
    BY <1>b DEF WebhookRecord, KnowsOfMoney
  <2>3. event'[p] # "processed"
    BY <1>3, <1>a, <1>b, <2>2 DEF WebhookBadSignature, WebhookRecord, MarkEvent, Shape
  <2> QED BY <1>a, <2>1, <2>3
<1>4. ASSUME SaveAllocations(s) \/ FinishInvoice(s) \/ FinishOrder(s) \/ MarkPayment(s) PROVE Goal
  <2>1. p # req[s].pay
    <3>1. req[s].pc \in Working \/ (req[s].pc = "mark" /\ req[s].flow # "webhook")
      BY <1>4 DEF SaveAllocations, FinishInvoice, FinishOrder, MarkPayment, ToSave, Allocated, Working
    <3> QED BY <1>b, <3>1 DEF KnowsOfMoney
  <2>2. payStatus'[p] = payStatus[p]
    BY <1>4, <1>b, <2>1 DEF SaveAllocations, FinishInvoice, FinishOrder, MarkPayment, Write, Shape
  <2>3. allocated'[p] = allocated[p]
    BY <1>4, <1>b, <2>1 DEF SaveAllocations, FinishInvoice, FinishOrder, MarkPayment, Shape
  <2>4. event'[p] = event[p]
    BY <1>4, <1>b, <2>1 DEF SaveAllocations, FinishInvoice, FinishOrder, MarkPayment, Shape
  <2> QED BY <1>a, <2>2, <2>3, <2>4
<1>5. ASSUME NEW q \in Payments, \/ VerifyLock(s, q) \/ WebhookNew(s, q) \/ SweepCapture(s, q)
                                 \/ SweepReject(s, q) \/ SweepSkip(s, q) \/ RetryAllocation(s, q)
      PROVE  Goal
  <2>1. UNCHANGED <<payStatus, allocated, event>>
    BY <1>5 DEF VerifyLock, WebhookNew, SweepCapture, SweepReject, SweepSkip, RetryAllocation, db
  <2> QED BY <1>1, <2>1
<1>6. ASSUME \/ WebhookLock(s) \/ WebhookDuplicate(s) \/ AllocateItem(s) \/ ReadTotal(s) \/ ReadOrder(s)
             \/ SweepRead(s) \/ Fail(s) \/ Crash(s)
      PROVE  Goal
  <2>1. UNCHANGED <<payStatus, allocated, event>>
    BY <1>6 DEF WebhookLock, WebhookDuplicate, AllocateItem, ReadTotal, ReadOrder, SweepRead, Fail, Crash, db
  <2> QED BY <1>1, <2>1
<1> HIDE DEF Goal
<1>7. Goal
  BY <1>2, <1>3, <1>4, <1>5, <1>6, Zenon DEF NextOf
<1> QED BY <1>7 DEF Goal

\* A session that takes a step still works on money the gateway has captured.
LEMMA MoneyKnown ==
  ASSUME CaptureInv, NEW s \in Sessions, NextOf(s)
  PROVE  KnowsOfMoney(s)'
<1>a. Shape /\ KnowsOfMoney(s) /\ gateway' = gateway
  BY GatewayKept DEF CaptureInv
<1>1. ASSUME Done(s) PROVE KnowsOfMoney(s)'
  BY <1>1 DEF KnowsOfMoney, Done, Working
<1>2. ASSUME NEW p \in Payments, VerifyLock(s, p) \/ SweepCapture(s, p)
      PROVE  KnowsOfMoney(s)'
  <2>1. p \in gateway
    BY <1>2 DEF VerifyLock, SweepCapture
  <2>2. req'[s].pay = p /\ req'[s].pc # "webhook"
    BY <1>2, <1>a, BeginningSteps DEF Began, Fresh
  <2> QED BY <1>a, <2>1, <2>2 DEF KnowsOfMoney
<1>8. ASSUME NEW p \in Payments, WebhookNew(s, p)
      PROVE  KnowsOfMoney(s)'
  BY <1>8, <1>a, BeginningSteps DEF KnowsOfMoney, Working
<1>3. ASSUME NEW p \in Payments, RetryAllocation(s, p)
      PROVE  KnowsOfMoney(s)'
  <2>1. p \in gateway
    BY <1>3 DEF RetryAllocation, CaptureInv, CapturesArePaid, Captured
  <2>2. req'[s].pay = p /\ req'[s].pc # "webhook"
    BY <1>3, <1>a, BeginningSteps DEF Began, Fresh
  <2> QED BY <1>a, <2>1, <2>2 DEF KnowsOfMoney
<1>4. ASSUME NEW p \in Payments, SweepReject(s, p) \/ SweepSkip(s, p)
      PROVE  KnowsOfMoney(s)'
  BY <1>4, <1>1, <1>a, BeginningSteps DEF KnowsOfMoney, Working
<1>5. ASSUME \/ AllocateItem(s) \/ SaveAllocations(s) \/ ReadTotal(s) \/ ReadOrder(s)
             \/ WebhookDuplicate(s)
      PROVE  KnowsOfMoney(s)'
  <2>1. (req'[s].pay = req[s].pay /\ req'[s].pc # "webhook") \/ Done(s)
    BY <1>5, <1>a, WorkingSteps DEF GoesOn
  <2>2. CASE ~ WebhookDuplicate(s)
    <3>1. req[s].pay \in gateway
      BY <1>5, <1>a, <2>2 DEF KnowsOfMoney, AllocateItem, SaveAllocations, ReadTotal, ReadOrder, ToSave,
                              Allocated, Working
    <3> QED BY <1>1, <1>a, <2>1, <3>1 DEF KnowsOfMoney
  <2>3. CASE WebhookDuplicate(s)
    <3>1. ToSave(s) \/ Done(s)
      BY <1>a, <2>3, Ends DEF WebhookDuplicate
    <3>2. ToSave(s) => req[s].pay \in gateway
      BY <1>a DEF KnowsOfMoney, ToSave, Allocated, Working
    <3> QED BY <1>1, <1>a, <2>1, <3>1, <3>2 DEF KnowsOfMoney
  <2> QED BY <2>2, <2>3
<1>9. ASSUME WebhookLock(s) PROVE KnowsOfMoney(s)'
  <2>1. req[s].pay \in gateway
    BY <1>9 DEF WebhookLock
  <2>2. req'[s].pay = req[s].pay /\ req'[s].pc # "webhook"
    BY <1>9, <1>a, WorkingSteps DEF Began, Fresh, GoesOn
  <2> QED BY <1>a, <2>1, <2>2 DEF KnowsOfMoney
<1>10. ASSUME WebhookBadSignature(s) \/ Fail(s) PROVE KnowsOfMoney(s)'
  <2>1. GoesOn(s, "mark") \/ Done(s)
    BY <1>10, <1>a, WorkingSteps
  <2>2. req[s].pc = "webhook" \/ req[s].pc \in Working
    BY <1>10 DEF WebhookBadSignature, Fail
  <2>3. CASE GoesOn(s, "mark")
    BY <1>a, <2>2, <2>3 DEF GoesOn, KnowsOfMoney, Working
  <2> QED BY <1>1, <2>1, <2>3
<1>6. ASSUME \/ \E p \in Payments, t \in Invoices \cup Orders : InitiatePayment(s, p, t)
             \/ \E p \in Payments : VerifyBadSignature(s, p)
      PROVE  KnowsOfMoney(s)'
  BY <1>6, <1>a DEF InitiatePayment, VerifyBadSignature, KnowsOfMoney
<1>7. ASSUME \/ WebhookRecord(s) \/ FinishInvoice(s) \/ FinishOrder(s) \/ SweepRead(s)
             \/ SweepFail(s) \/ MarkPayment(s) \/ MarkEvent(s) \/ Crash(s)
      PROVE  KnowsOfMoney(s)'
  BY <1>7, <1>1, <1>a, DoneSteps
<1> QED BY <1>2, <1>3, <1>4, <1>5, <1>6, <1>7, <1>8, <1>9, <1>10 DEF NextOf

\* Every step keeps the invariant of captures.
LEMMA CaptureStep ==
  ASSUME CaptureInv, [Next]_vars
  PROVE  CaptureInv'
<1>1. Shape /\ Shape'
  BY ShapeStep DEF CaptureInv
<1>2. CASE UNCHANGED vars
  BY <1>1, <1>2 DEF CaptureInv, CapturesArePaid, KnowsOfMoney, vars, db
<1>3. ASSUME NEW s \in Sessions, NextOf(s)
      PROVE  CaptureInv'
  <2>1. CapturesArePaid'
    BY <1>3, UnpaidKept, GatewayKept DEF CapturesArePaid
  <2>2. ASSUME NEW r \in Sessions
        PROVE  KnowsOfMoney(r)'
    <3>1. CASE r = s
      BY <1>3, <3>1, MoneyKnown
    <3>2. CASE r # s
      BY <1>1, <1>3, <3>2, OthersStay, GatewayKept DEF CaptureInv, KnowsOfMoney
    <3> QED BY <3>1, <3>2
  <2> QED BY <1>1, <2>1, <2>2 DEF CaptureInv
<1>4. ASSUME NEW p \in Payments, GatewayCaptures(p)
      PROVE  CaptureInv'
  BY <1>1, <1>4 DEF GatewayCaptures, db, history, CaptureInv, CapturesArePaid, KnowsOfMoney
<1>5. ASSUME NEW o \in Orders, NEW to \in Statuses, MoveOrder(o, to)
      PROVE  CaptureInv'
  BY <1>1, <1>5 DEF MoveOrder, CaptureInv, CapturesArePaid, KnowsOfMoney
<1> QED BY <1>2, <1>3, <1>4, <1>5 DEF Next

\* CapturesArePaid: a payment is captured, is allocated or has its event processed
\* only when the gateway holds its money, whichever flow said so, whoever called
\* the webhook and whatever failed on the way.
THEOREM CapturesCorrect == Spec => []CapturesArePaid
<1>1. Init => CaptureInv
  <2>1. Blank.pc = "idle"
    BY DEF Blank
  <2>2. Init => \A s \in Sessions : req[s] = Blank
    BY DEF Init
  <2>3. Init => \A s \in Sessions : KnowsOfMoney(s)
    BY <2>1, <2>2 DEF KnowsOfMoney, Working
  <2>4. Init => CapturesArePaid
    BY DEF Init, CapturesArePaid, Captured
  <2> QED BY <2>3, <2>4, ShapeInit DEF CaptureInv
<1>2. CaptureInv /\ [Next]_vars => CaptureInv'
  BY CaptureStep
<1>3. CaptureInv => CapturesArePaid
  BY DEF CaptureInv
<1> QED BY <1>1, <1>2, <1>3, PTL DEF Spec

-----------------------------------------------------------------------------
(* What is captured is not lost.                                           *)

\* A sweep gives up a payment it has seen pending.
RejectsPending(s) == req[s].pc = "reject" => req[s].was = "pending"

\* A session that is past the point where it saves money, or that retries an
\* allocation, works on a payment that is captured, unless its status was
\* written over a change nobody saw.
KnowsCapture(s) ==
  /\ \/ req[s].pc = "record"
     \/ req[s].pc \in Working /\ (req[s].flow = "retry" \/ req[s].saved)
  /\ req[s].pay \notin stale
  => payStatus[req[s].pay] \in Captured

StayInv == Shape /\ CapturedStays /\ \A s \in Sessions : RejectsPending(s) /\ KnowsCapture(s)

\* What was written over an unseen change stays marked.
LEMMA StaleKept ==
  ASSUME NEW s \in Sessions, NextOf(s)
  PROVE  stale \subseteq stale'
BY DEF NextOf, InitiatePayment, VerifyLock, VerifyBadSignature, WebhookNew, WebhookLock, WebhookBadSignature,
       WebhookRecord, WebhookDuplicate, AllocateItem, SaveAllocations, ReadTotal, FinishInvoice, ReadOrder,
       FinishOrder, SweepRead, SweepCapture, SweepReject, SweepFail, SweepSkip, RetryAllocation, Fail,
       MarkPayment, MarkEvent, Crash, Write, history

\* No step takes a capture back without marking the payment stale.
LEMMA StatusKept ==
  ASSUME StayInv, NEW s \in Sessions, NextOf(s), NEW p \in Payments,
         payStatus[p] \in Captured, p \notin stale'
  PROVE  payStatus'[p] \in Captured
<1> DEFINE Goal == payStatus'[p] \in Captured
<1>a. Shape /\ RejectsPending(s)
  BY DEF StayInv
<1>1. ASSUME UNCHANGED payStatus PROVE Goal
  BY <1>1
<1>2. ASSUME NEW q, NEW new, Write(s, q, new), new \in Captured PROVE Goal
  BY <1>2, <1>a DEF Write, Shape
<1>3. ASSUME \/ \E q \in Payments, t \in Invoices \cup Orders : InitiatePayment(s, q, t)
             \/ \E q \in Payments : VerifyBadSignature(s, q)
      PROVE  Goal
  <2>1. PICK q, new : payStatus' = [payStatus EXCEPT ![q] = new] /\ payStatus[q] \in {"none", "pending"}
    BY <1>3 DEF InitiatePayment, VerifyBadSignature
  <2>2. q # p
    BY <2>1 DEF Captured
  <2> QED BY <2>1, <2>2, <1>a DEF Shape
<1>4. ASSUME SweepFail(s) PROVE Goal
  <2>1. req[s].was = "pending" /\ Write(s, req[s].pay, "failed")
    BY <1>4, <1>a DEF SweepFail, RejectsPending
  <2>2. req[s].pay # p
    BY <2>1 DEF Write, Captured
  <2> QED BY <2>1, <2>2, <1>a DEF Write, Shape
<1>5. ASSUME SaveAllocations(s) \/ FinishInvoice(s) \/ FinishOrder(s) \/ MarkPayment(s) PROVE Goal
  <2>1. \/ UNCHANGED payStatus
        \/ Write(s, req[s].pay, "captured") \/ Write(s, req[s].pay, "captured_allocation_failed")
    BY <1>5 DEF SaveAllocations, FinishInvoice, FinishOrder, MarkPayment
  <2> QED BY <1>1, <1>2, <2>1 DEF Captured
<1>6. ASSUME NEW q \in Payments, \/ VerifyLock(s, q) \/ WebhookNew(s, q) \/ SweepCapture(s, q)
                                 \/ SweepReject(s, q) \/ SweepSkip(s, q) \/ RetryAllocation(s, q)
      PROVE  Goal
  <2>1. UNCHANGED payStatus
    BY <1>6 DEF VerifyLock, WebhookNew, SweepCapture, SweepReject, SweepSkip, RetryAllocation, db
  <2> QED BY <1>1, <2>1
<1>7. ASSUME \/ WebhookLock(s) \/ WebhookBadSignature(s) \/ WebhookRecord(s) \/ WebhookDuplicate(s)
             \/ AllocateItem(s) \/ ReadTotal(s) \/ ReadOrder(s) \/ SweepRead(s) \/ Fail(s) \/ MarkEvent(s)
             \/ Crash(s)
      PROVE  Goal
  <2>1. UNCHANGED payStatus
    BY <1>7 DEF WebhookLock, WebhookBadSignature, WebhookRecord, WebhookDuplicate, AllocateItem, ReadTotal,
                ReadOrder, SweepRead, Fail, MarkEvent, Crash, db
  <2> QED BY <1>1, <2>1
<1> HIDE DEF Goal
<1>8. Goal
  BY <1>3, <1>4, <1>5, <1>6, <1>7, Zenon DEF NextOf
<1> QED BY <1>8 DEF Goal

\* A commit that saves money, or notes that an event is processed, leaves the
\* payment captured.
LEMMA SavesCaptured ==
  ASSUME StayInv, NEW s \in Sessions, req[s].pay \notin stale',
         \/ SaveAllocations(s)
         \/ FinishInvoice(s) \/ FinishOrder(s)
         \/ WebhookRecord(s)
  PROVE  payStatus'[req[s].pay] \in Captured
<1> DEFINE p == req[s].pay
<1>a. Shape /\ KnowsCapture(s)
  BY DEF StayInv
<1>b. req[s].pc \in {"allocate", "finish", "order commit", "record"}
  BY DEF SaveAllocations, FinishInvoice, FinishOrder, WebhookRecord, ToSave, Allocated
<1>c. p \in Payments
  BY <1>a, <1>b DEF Shape, SessionShape
<1>1. CASE Write(s, p, "captured")
  BY <1>1, <1>a, <1>c DEF Write, Shape, Captured
<1>2. CASE UNCHANGED <<payStatus, stale>>
  <2>1. req[s].pc = "record" \/ (req[s].pc \in Working /\ (req[s].flow = "retry" \/ req[s].saved))
        \/ Write(s, p, "captured")
    BY <1>2, <1>b DEF SaveAllocations, FinishInvoice, FinishOrder, WebhookRecord, ToSave, Allocated, Working
  <2> QED BY <1>1, <1>2, <1>a, <2>1 DEF KnowsCapture
<1> QED BY <1>1, <1>2 DEF SaveAllocations, FinishInvoice, FinishOrder, WebhookRecord, history

\* A payment that has money or a processed event after a step of s had it
\* before, or s has just saved it.
LEMMA NewMoney ==
  ASSUME StayInv, NEW s \in Sessions, NextOf(s), NEW p \in Payments,
         allocated'[p] > 0 \/ event'[p] = "processed"
  PROVE  \/ allocated[p] > 0 \/ event[p] = "processed"
         \/ /\ p = req[s].pay
            /\ SaveAllocations(s) \/ FinishInvoice(s) \/ FinishOrder(s) \/ WebhookRecord(s)
<1> DEFINE Goal == \/ allocated[p] > 0 \/ event[p] = "processed"
                   \/ /\ p = req[s].pay
                      /\ SaveAllocations(s) \/ FinishInvoice(s) \/ FinishOrder(s) \/ WebhookRecord(s)
<1>a. Shape
  BY DEF StayInv
<1>1. ASSUME UNCHANGED <<allocated, event>> PROVE Goal
  BY <1>1
<1>2. ASSUME SaveAllocations(s) \/ FinishInvoice(s) \/ FinishOrder(s) \/ WebhookRecord(s) PROVE Goal
  <2>1. CASE p = req[s].pay
    BY <1>2, <2>1
  <2>2. CASE p # req[s].pay
    <3>1. allocated'[p] = allocated[p]
      BY <1>2, <1>a, <2>2 DEF SaveAllocations, FinishInvoice, FinishOrder, WebhookRecord, Shape
    <3>2. event'[p] = event[p]
      BY <1>2, <1>a, <2>2 DEF SaveAllocations, FinishInvoice, FinishOrder, WebhookRecord, Shape
    <3> QED BY <3>1, <3>2
  <2> QED BY <2>1, <2>2
<1>3. ASSUME WebhookBadSignature(s) \/ MarkEvent(s) PROVE Goal
  <2>1. UNCHANGED allocated
    BY <1>3 DEF WebhookBadSignature, MarkEvent
  <2>2. event'[p] \in {event[p], "received", "failed"}
    BY <1>3, <1>a DEF WebhookBadSignature, MarkEvent, Shape
  <2> QED BY <2>1, <2>2
<1>4. ASSUME NEW q \in Payments, \/ VerifyLock(s, q) \/ WebhookNew(s, q) \/ SweepCapture(s, q)
                                 \/ SweepReject(s, q) \/ SweepSkip(s, q) \/ RetryAllocation(s, q)
                                 \/ VerifyBadSignature(s, q)
      PROVE  Goal
  <2>1. UNCHANGED <<allocated, event>>
    BY <1>4 DEF VerifyLock, WebhookNew, SweepCapture, SweepReject, SweepSkip, RetryAllocation,
                VerifyBadSignature, db
  <2> QED BY <1>1, <2>1
<1>5. ASSUME \/ WebhookLock(s) \/ WebhookDuplicate(s) \/ AllocateItem(s) \/ ReadTotal(s) \/ ReadOrder(s)
             \/ SweepRead(s) \/ SweepFail(s) \/ Fail(s) \/ MarkPayment(s) \/ Crash(s)
             \/ \E q \in Payments, t \in Invoices \cup Orders : InitiatePayment(s, q, t)
      PROVE  Goal
  <2>1. UNCHANGED <<allocated, event>>
    BY <1>5 DEF WebhookLock, WebhookDuplicate, AllocateItem, ReadTotal, ReadOrder, SweepRead, SweepFail, Fail,
                MarkPayment, Crash, InitiatePayment, db
  <2> QED BY <1>1, <2>1
<1> HIDE DEF Goal
<1>6. Goal
  BY <1>2, <1>3, <1>4, <1>5, Zenon DEF NextOf
<1> QED BY <1>6 DEF Goal

\* A session that takes a step still knows what it must know.
LEMMA CaptureKnown ==
  ASSUME StayInv, NEW s \in Sessions, NextOf(s)
  PROVE  RejectsPending(s)' /\ KnowsCapture(s)'
<1> DEFINE Goal == RejectsPending(s)' /\ KnowsCapture(s)'
<1>a. Shape /\ KnowsCapture(s) /\ RejectsPending(s) /\ stale \subseteq stale'
  BY StaleKept DEF StayInv
<1>1. ASSUME Done(s) \/ GoesOn(s, "mark") PROVE Goal
  BY <1>1 DEF RejectsPending, KnowsCapture, Done, GoesOn, Working
<1>2. ASSUME NEW p \in Payments, NEW flow, NEW was, Began(s, flow, p, was),
             flow = "retry" => payStatus'[p] \in Captured
      PROVE  Goal
  BY <1>2 DEF RejectsPending, KnowsCapture, Began, Fresh
<1>3. ASSUME NEW p \in Payments, \/ VerifyLock(s, p) \/ WebhookNew(s, p) \/ SweepCapture(s, p)
                                 \/ SweepReject(s, p) \/ SweepSkip(s, p) \/ RetryAllocation(s, p)
      PROVE  Goal
  <2>1. CASE VerifyLock(s, p) \/ SweepCapture(s, p)
    BY <1>2, <2>1, <1>a, BeginningSteps
  <2>2. CASE RetryAllocation(s, p)
    <3>1. payStatus'[p] \in Captured
      BY <2>2 DEF RetryAllocation, Captured, db
    <3> QED BY <1>2, <2>2, <3>1, <1>a, BeginningSteps
  <2>3. CASE WebhookNew(s, p) \/ SweepReject(s, p)
    BY <2>3, <1>a, BeginningSteps DEF RejectsPending, KnowsCapture, Working
  <2>4. CASE SweepSkip(s, p)
    BY <1>1, <2>4, <1>a, BeginningSteps
  <2> QED BY <1>3, <2>1, <2>2, <2>3, <2>4
<1>4. ASSUME WebhookLock(s) PROVE Goal
  <2>1. req[s].pay \in Payments /\ payStatus' = payStatus
    BY <1>4, <1>a DEF WebhookLock, Shape, SessionShape
  <2>2. CASE Began(s, "webhook", req[s].pay, payStatus[req[s].pay])
    BY <1>2, <2>1, <2>2
  <2>3. CASE GoesOn(s, "record") /\ payStatus[req[s].pay] = "captured"
    BY <2>1, <2>3 DEF GoesOn, RejectsPending, KnowsCapture, Captured
  <2> QED BY <1>4, <1>a, <2>2, <2>3, WorkingSteps
<1>5. ASSUME AllocateItem(s) \/ ReadTotal(s) \/ ReadOrder(s) PROVE Goal
  <2>1. req[s].pc \in Working /\ UNCHANGED <<payStatus, stale>>
    BY <1>5 DEF AllocateItem, ReadTotal, ReadOrder, Allocated, Working, db, history
  <2>2. /\ req'[s].pc \in {"allocate", "finish", "order commit"} /\ req'[s].pay = req[s].pay
        /\ req'[s].flow = req[s].flow /\ req'[s].saved = req[s].saved
    BY <1>5, <1>a, WorkingSteps DEF GoesOn
  <2> QED BY <1>a, <2>1, <2>2 DEF RejectsPending, KnowsCapture
<1>6. ASSUME SaveAllocations(s) PROVE Goal
  <2>1. GoesOn(s, "settle")
    BY <1>6, <1>a, WorkingSteps
  <2>2. req[s].pay \notin stale' => payStatus'[req[s].pay] \in Captured
    BY <1>6, SavesCaptured
  <2> QED BY <2>1, <2>2 DEF GoesOn, RejectsPending, KnowsCapture
<1>7. ASSUME WebhookBadSignature(s) \/ WebhookDuplicate(s) \/ Fail(s) PROVE Goal
  BY <1>1, <1>7, <1>a, WorkingSteps
<1>8. ASSUME \/ WebhookRecord(s) \/ FinishInvoice(s) \/ FinishOrder(s) \/ SweepRead(s)
             \/ SweepFail(s) \/ MarkPayment(s) \/ MarkEvent(s) \/ Crash(s)
      PROVE  Goal
  BY <1>1, <1>8, <1>a, DoneSteps
<1>9. ASSUME \/ \E p \in Payments, t \in Invoices \cup Orders : InitiatePayment(s, p, t)
             \/ \E p \in Payments : VerifyBadSignature(s, p)
      PROVE  Goal
  <2>1. req' = req /\ stale' = stale
    BY <1>9 DEF InitiatePayment, VerifyBadSignature, history
  <2>2. req[s].pc \in Working \cup {"record"} => req[s].pay \in Payments
    BY <1>a DEF Shape, SessionShape, Working
  <2>3. payStatus[req[s].pay] \in Captured /\ req[s].pay \in Payments /\ req[s].pay \notin stale'
        => payStatus'[req[s].pay] \in Captured
    BY StatusKept
  <2> QED BY <1>a, <2>1, <2>2, <2>3 DEF RejectsPending, KnowsCapture
<1> HIDE DEF Goal
<1>10. Goal
  BY <1>3, <1>4, <1>5, <1>6, <1>7, <1>8, <1>9, Zenon DEF NextOf
<1> QED BY <1>10 DEF Goal

\* Every step keeps the invariant of captured payments.
LEMMA StayStep ==
  ASSUME StayInv, [Next]_vars
  PROVE  StayInv'
<1>1. Shape /\ Shape'
  BY ShapeStep DEF StayInv
<1>2. CASE UNCHANGED vars
  BY <1>1, <1>2 DEF StayInv, CapturedStays, RejectsPending, KnowsCapture, vars, db, history
<1>3. ASSUME NEW s \in Sessions, NextOf(s)
      PROVE  StayInv'
  <2>1. ASSUME NEW p \in Payments \ stale', allocated'[p] > 0 \/ event'[p] = "processed"
        PROVE  payStatus'[p] \in Captured
    <3>1. CASE allocated[p] > 0 \/ event[p] = "processed"
      <4>1. payStatus[p] \in Captured
        BY <1>3, <3>1, StaleKept DEF StayInv, CapturedStays
      <4> QED BY <1>3, <4>1, StatusKept
    <3>2. CASE ~ (allocated[p] > 0 \/ event[p] = "processed")
      BY <1>3, <2>1, <3>2, NewMoney, SavesCaptured
    <3> QED BY <3>1, <3>2
  <2>2. ASSUME NEW r \in Sessions
        PROVE  RejectsPending(r)' /\ KnowsCapture(r)'
    <3>1. CASE r = s
      BY <1>3, <3>1, CaptureKnown
    <3>2. CASE r # s
      <4>1. req'[r] = req[r] /\ stale \subseteq stale'
        BY <1>1, <1>3, <3>2, OthersStay, StaleKept
      <4>2. req[r].pc \in Working \cup {"record"} => req[r].pay \in Payments
        BY <1>1 DEF Shape, SessionShape, Working
      <4>3. payStatus[req[r].pay] \in Captured /\ req[r].pay \in Payments /\ req[r].pay \notin stale'
            => payStatus'[req[r].pay] \in Captured
        BY <1>3, StatusKept
      <4>4. RejectsPending(r) /\ KnowsCapture(r)
        BY DEF StayInv
      <4> QED BY <4>1, <4>2, <4>3, <4>4 DEF RejectsPending, KnowsCapture
    <3> QED BY <3>1, <3>2
  <2> QED BY <1>1, <2>1, <2>2 DEF StayInv, CapturedStays
<1>4. ASSUME (\E p \in Payments : GatewayCaptures(p))
             \/ (\E o \in Orders, to \in Statuses : MoveOrder(o, to))
      PROVE  StayInv'
  BY <1>1, <1>4 DEF GatewayCaptures, MoveOrder, db, history, StayInv, CapturedStays, RejectsPending, KnowsCapture
<1> QED BY <1>2, <1>3, <1>4 DEF Next

\* A payment with allocations or a processed event stays captured, or marked
\* for a retry, unless a session wrote its status over a change it had not seen.
THEOREM StaysCorrect == Spec => []CapturedStays
<1>1. Init => StayInv
  <2>1. Blank.pc = "idle"
    BY DEF Blank
  <2>2. Init => \A s \in Sessions : req[s] = Blank
    BY DEF Init
  <2>3. Init => \A s \in Sessions : RejectsPending(s) /\ KnowsCapture(s)
    BY <2>1, <2>2 DEF RejectsPending, KnowsCapture, Working
  <2>4. Init => CapturedStays
    BY DEF Init, CapturedStays
  <2> QED BY <2>3, <2>4, ShapeInit DEF StayInv
<1>2. StayInv /\ [Next]_vars => StayInv'
  BY StayStep
<1>3. StayInv => CapturedStays
  BY DEF StayInv
<1> QED BY <1>1, <1>2, <1>3, PTL DEF Spec

-----------------------------------------------------------------------------
(* The money.  First the types, which need that a session works on a        *)
(* payment that exists and for a target of the right sort.                  *)

\* What is known of the payment and the target of a session.
Placed(r) ==
  /\ r.pc \notin {"idle", "sweep"} => r.pay \in Payments /\ payStatus[r.pay] # "none"
  /\ r.pc \in {"allocate", "settle", "finish"} => target[r.pay] \in Invoices
  /\ r.pc \in {"order", "order commit"} => target[r.pay] \in Orders
  /\ \A p \in r.batch : payStatus[p] # "none"
  /\ r.left <= Amount

\* A payment that exists is for something, and only such a payment is paid.
Aimed ==
  /\ \A p \in Payments : payStatus[p] # "none" => target[p] \in Invoices \cup Orders
  /\ \A p \in gateway : payStatus[p] # "none"

TypeInv == TypeOK /\ Aimed /\ \A s \in Sessions : Placed(req[s])

LEMMA ItemsFinite == IsFiniteSet(Items) /\ Final \in [Items -> Nat]
<1>1. Final \in Seq(Nat)
  BY PaymentAssumption
<1>2. Items = 1 .. Len(Final) /\ Len(Final) \in Nat /\ Final \in [1 .. Len(Final) -> Nat]
  BY <1>1 DEF Items
<1>3. IsFiniteSet(1 .. Len(Final))
  BY <1>2, FS_Interval
<1> QED BY <1>2, <1>3

\* What a total is, and that it is an amount.
LEMMA TotalIsSum ==
  ASSUME NEW f \in [Items -> Nat]
  PROVE  Total(f) = SumOf(f, Items) /\ Total(f) \in Nat /\ \A i \in Items : f[i] <= Total(f)
<1>1. Total(f) = SumOf(f, Items)
  BY DEF Total, SumOf, FoldFunction, SumFunctionOnSet
<1>2. SumOf(f, Items) \in Nat /\ \A i \in Items : f[i] <= SumOf(f, Items)
  BY ItemsFinite, SumNatural
<1> QED BY <1>1, <1>2

LEMMA AmountNat == Amount \in Nat
BY PaymentAssumption

LEMMA NoItemsNone ==
  /\ NoItems \in [Items -> Nat] /\ Total(NoItems) = 0
  /\ \A f \in [Items -> Nat] : Total(f) = 0 => f = NoItems
<1>1. NoItems \in [Items -> Nat]
  BY DEF NoItems
<1> DEFINE w == [i \in Items |-> 0]
<1>2. SumOf(NoItems, Items) = 0
  <2> DEFINE u == NoItems
  <2>1. \A i \in Items : u[i] \in Int /\ u[i] = u[i] + u[i]
    BY DEF NoItems
  <2> HIDE DEF u
  <2>2. SumOf(u, Items) = SumOf(u, Items) + SumOf(u, Items)
    BY <2>1, ItemsFinite, SumsJoined
  <2>3. SumOf(u, Items) \in Int
    BY <2>1, ItemsFinite, SumTaken
  <2> QED BY <2>2, <2>3 DEF u
<1>3. ASSUME NEW f \in [Items -> Nat], Total(f) = 0 PROVE f = NoItems
  <2>1. \A i \in Items : f[i] = 0
    BY <1>3, TotalIsSum
  <2> QED BY <2>1 DEF NoItems
<1> QED BY <1>1, <1>2, <1>3, TotalIsSum

\* A session with nothing in flight, and one that goes on with its sweep.
LEMMA BlankFits == Blank \in Requests /\ Placed(Blank)
BY NoItemsNone, AmountNat DEF Blank, Requests, Placed, Working, Flows, NotLoaded

LEMMA SweepFits ==
  ASSUME TypeInv, NEW batch \in SUBSET Payments, \A p \in batch : payStatus[p] # "none",
         NEW loaded \in [Invoices -> Nat \cup {None}]
  PROVE  LET r == [Blank EXCEPT !.pc = "sweep", !.flow = "sweep", !.batch = batch, !.loaded = loaded]
         IN  r \in Requests /\ Placed(r)
<1>1. PICK r : r = [Blank EXCEPT !.pc = "sweep", !.flow = "sweep", !.batch = batch, !.loaded = loaded]
  OBVIOUS
<1>2. r \in Requests
  BY <1>1, BlankFits DEF Requests, Working, Flows
<1>3. r.pc = "sweep" /\ r.batch = batch /\ r.left = 0
  BY <1>1 DEF Blank
<1>4. Placed(r)
  BY <1>3, AmountNat DEF Placed
<1> QED BY <1>1, <1>2, <1>4

\* A session turns to a payment that exists.
LEMMA BeginFits ==
  ASSUME TypeInv, NEW s \in Sessions, NEW flow \in Flows, NEW p \in Payments, payStatus[p] # "none",
         NEW was \in PaymentStatuses \cup {"none"}, Begin(s, flow, p, was)
  PROVE  /\ \E r \in Requests : req' = [req EXCEPT ![s] = r] /\ Placed(r)
         /\ shared' \in SUBSET (Payments \cup Invoices)
<1> DEFINE t == target[p]
           loaded == [v \in Invoices |-> IF v = t /\ req[s].loaded[v] = None
                                         THEN amountPaid[v] ELSE req[s].loaded[v]]
           pc == IF t \in Invoices THEN "allocate" ELSE IF flow = "sweep" THEN "order commit" ELSE "order"
<1>0. PICK r : r = [Blank EXCEPT !.pc = pc, !.flow = flow, !.pay = p, !.was = was, !.item = 1, !.left = Amount,
                                 !.loaded = loaded, !.batch = req[s].batch \ {p}]
  OBVIOUS
<1>1. req' = [req EXCEPT ![s] = r]
  BY <1>0 DEF Begin
<1>2. req[s] \in Requests /\ Placed(req[s]) /\ amountPaid \in [Invoices -> Nat] /\ t \in Invoices \cup Orders
  BY DEF TypeInv, TypeOK, Aimed
<1>3. loaded \in [Invoices -> Nat \cup {None}] /\ req[s].batch \in SUBSET Payments
  BY <1>2 DEF Requests
<1>4. pc \in Working /\ (pc = "allocate" => t \in Invoices) /\ (pc # "allocate" => t \in Orders)
  BY <1>2 DEF Working
<1>5. pc \in {"allocate", "order", "order commit"}
  OBVIOUS
<1> HIDE DEF loaded, pc, t
<1>6. r.pc = pc /\ r.pay = p /\ r.left = Amount /\ r.batch = req[s].batch \ {p}
  BY <1>0 DEF Blank
<1>7. r \in Requests
  BY <1>0, <1>3, <1>4, BlankFits, AmountNat DEF Requests
<1>9. Placed(r)
  <2>1. \A q \in req[s].batch : payStatus[q] # "none"
    BY <1>2 DEF Placed
  <2>2. r.left <= Amount
    BY <1>6, AmountNat
  <2>3. r.pc \in {"allocate", "settle", "finish"} => target[r.pay] \in Invoices
    BY <1>4, <1>5, <1>6 DEF t
  <2>4. r.pc \in {"order", "order commit"} => target[r.pay] \in Orders
    BY <1>4, <1>5, <1>6 DEF t
  <2> QED BY <1>6, <2>1, <2>2, <2>3, <2>4 DEF Placed
<1>8. shared' \in SUBSET (Payments \cup Invoices)
  <2>1. \A q \in Sessions : req[q].pc = "allocate" => req[q].pay \in Payments /\ target[req[q].pay] \in Invoices
    BY DEF TypeInv, Placed
  <2>2. shared \in SUBSET (Payments \cup Invoices)
    BY DEF TypeInv, TypeOK
  <2>3. shared' = shared \cup {x \in {p, t} : \E q \in {o \in Sessions \ {s} : req[o].pc = "allocate"} :
                                              x \in {req[q].pay, target[req[q].pay]}}
    BY DEF Begin, t
  <2> QED BY <2>1, <2>2, <2>3
<1> QED BY <1>1, <1>7, <1>8, <1>9

\* The record a step leaves to its session fits, whatever the step.
Fitting(s) == \E r \in Requests : req' = [req EXCEPT ![s] = r] /\ Placed(r)

LEMMA EndFits ==
  ASSUME TypeInv, NEW s \in Sessions, End(s)
  PROVE  Fitting(s)
BY BlankFits DEF End, Fitting

LEMMA ReturnFits ==
  ASSUME TypeInv, NEW s \in Sessions, NEW loaded \in [Invoices -> Nat \cup {None}], Return(s, loaded)
  PROVE  Fitting(s)
<1>1. CASE req[s].batch = {}
  <2>1. req' = [req EXCEPT ![s] = Blank]
    BY <1>1 DEF Return
  <2> QED BY <2>1, BlankFits DEF Fitting
<1>2. CASE req[s].batch # {}
  <2>1. PICK r : r = [Blank EXCEPT !.pc = "sweep", !.flow = "sweep", !.batch = req[s].batch, !.loaded = loaded]
    OBVIOUS
  <2>2. req' = [req EXCEPT ![s] = r]
    BY <1>2, <2>1 DEF Return
  <2>3. req[s].batch \in SUBSET Payments /\ \A p \in req[s].batch : payStatus[p] # "none"
    BY DEF TypeInv, TypeOK, Requests, Placed
  <2>4. r \in Requests /\ Placed(r)
    BY <2>1, <2>3, SweepFits
  <2> QED BY <2>2, <2>4 DEF Fitting
<1> QED BY <1>1, <1>2

\* A step of the loop over the items takes from what is left.
LEMMA AllocateFits ==
  ASSUME TypeInv, NEW s \in Sessions, AllocateItem(s)
  PROVE  /\ Fitting(s)
         /\ \E give \in Nat :
              /\ give <= req[s].left
              /\ give = LET need == Final[req[s].item] - paid[target[req[s].pay]][req[s].item]
                        IN  IF need <= 0 THEN 0 ELSE IF need < req[s].left THEN need ELSE req[s].left
              /\ req' = [req EXCEPT ![s] = [req[s] EXCEPT !.item = req[s].item + 1, !.plan[req[s].item] = give,
                                                         !.left = req[s].left - give]]
<1> DEFINE q == req[s]
           need == Final[q.item] - paid[target[q.pay]][q.item]
           give == IF need <= 0 THEN 0 ELSE IF need < q.left THEN need ELSE q.left
<1>1. q \in Requests /\ Placed(q) /\ q.pc = "allocate" /\ q.item \in Items
  BY DEF TypeInv, TypeOK, AllocateItem
<1>2. paid[target[q.pay]][q.item] \in Nat /\ Final[q.item] \in Nat /\ q.left \in Nat
  <2>1. target[q.pay] \in Invoices /\ paid \in [Invoices -> [Items -> Nat]]
    BY <1>1 DEF TypeInv, TypeOK, Placed
  <2>2. q.left \in Nat
    BY <1>1 DEF Requests
  <2> QED BY <1>1, <2>1, <2>2, ItemsFinite
<1>3. give \in Nat /\ give <= q.left
  BY <1>2
<1>4. req' = [req EXCEPT ![s] = [q EXCEPT !.item = q.item + 1, !.plan[q.item] = give, !.left = q.left - give]]
  BY DEF AllocateItem
<1> HIDE DEF give
<1>5. PICK r : r = [q EXCEPT !.item = q.item + 1, !.plan[q.item] = give, !.left = q.left - give]
  OBVIOUS
<1>6. r \in Requests
  <2>1. q.item + 1 \in Nat /\ q.left - give \in Nat
    BY <1>1, <1>2, <1>3 DEF Requests
  <2>2. [q.plan EXCEPT ![q.item] = give] \in [Items -> Nat]
    BY <1>1, <1>3 DEF Requests
  <2>3. r = [q EXCEPT !.item = q.item + 1, !.plan = [q.plan EXCEPT ![q.item] = give], !.left = q.left - give]
    BY <1>5
  <2> QED BY <1>1, <2>1, <2>2, <2>3 DEF Requests
<1>7. r.pc = q.pc /\ r.pay = q.pay /\ r.batch = q.batch /\ r.left = q.left - give
  BY <1>1, <1>5 DEF Requests
<1>8. r.left <= Amount
  <2>1. q.left <= Amount
    BY <1>1 DEF Placed
  <2> QED BY <1>2, <1>3, <1>7, <2>1, AmountNat
<1>9. Placed(r)
  BY <1>1, <1>7, <1>8 DEF Placed
<1>10. Fitting(s)
  BY <1>4, <1>5, <1>6, <1>9 DEF Fitting
<1> QED BY <1>3, <1>4, <1>10 DEF give

\* The total of an invoice that is read is an amount.
LEMMA ReadTotalFits ==
  ASSUME TypeInv, NEW s \in Sessions, ReadTotal(s)
  PROVE  Fitting(s)
<1> DEFINE total == Total(paid[target[req[s].pay]]) + Amount - req[s].left
<1>1. req[s] \in Requests /\ Placed(req[s]) /\ req[s].pc \in {"allocate", "settle"}
  BY DEF TypeInv, TypeOK, ReadTotal, Allocated
<1>2. target[req[s].pay] \in Invoices
  BY <1>1 DEF Placed
<1>3. Total(paid[target[req[s].pay]]) \in Nat
  BY <1>2, TotalIsSum DEF TypeInv, TypeOK
<1>4. total \in Nat
  <2>1. req[s].left \in Nat /\ req[s].left <= Amount
    BY <1>1 DEF Requests, Placed
  <2> QED BY <1>3, <2>1, AmountNat
<1>5. req' = [req EXCEPT ![s] = [req[s] EXCEPT !.pc = "finish", !.total = total]]
  BY DEF ReadTotal
<1> HIDE DEF total
<1>6. PICK r : r = [req[s] EXCEPT !.pc = "finish", !.total = total]
  OBVIOUS
<1>7. r \in Requests
  BY <1>1, <1>4, <1>6 DEF Requests, Working
<1>8. r.pc = "finish" /\ r.pay = req[s].pay /\ r.batch = req[s].batch /\ r.left = req[s].left
  BY <1>1, <1>6 DEF Requests
<1>9. Placed(r)
  BY <1>1, <1>2, <1>8 DEF Placed
<1> QED BY <1>5, <1>6, <1>7, <1>9 DEF Fitting

\* A step of a session leaves it a record that fits.
LEMMA StepFits ==
  ASSUME TypeInv, NEW s \in Sessions, NextOf(s)
  PROVE  Fitting(s)
<1>a. req[s] \in Requests /\ Placed(req[s]) /\ req \in [Sessions -> Requests]
  BY DEF TypeInv, TypeOK
<1>0. ASSUME UNCHANGED req PROVE Fitting(s)
  <2>1. req' = [req EXCEPT ![s] = req[s]]
    BY <1>0, <1>a
  <2> QED BY <2>1, <1>a DEF Fitting
<1>1. ASSUME \/ \E p \in Payments, t \in Invoices \cup Orders : InitiatePayment(s, p, t)
             \/ \E p \in Payments : VerifyBadSignature(s, p)
      PROVE  Fitting(s)
  BY <1>0, <1>1 DEF InitiatePayment, VerifyBadSignature
<1>2. ASSUME NEW p \in Payments, VerifyLock(s, p) \/ SweepCapture(s, p) PROVE Fitting(s)
  <2>1. PICK flow \in Flows : Begin(s, flow, p, "pending")
    BY <1>2 DEF VerifyLock, SweepCapture, Flows
  <2>2. payStatus[p] # "none"
    BY <1>2, <1>a DEF VerifyLock, SweepCapture, Placed
  <2> QED BY <2>1, <2>2, BeginFits DEF Fitting, PaymentStatuses
<1>3. ASSUME NEW p \in Payments, RetryAllocation(s, p) PROVE Fitting(s)
  <2>1. payStatus[p] # "none"
    BY <1>3 DEF RetryAllocation
  <2>2. CASE Begin(s, "retry", p, "captured_allocation_failed")
    BY <2>1, <2>2, BeginFits DEF Fitting, PaymentStatuses, Flows
  <2>3. CASE /\ target[p] \in Orders
             /\ req' = [req EXCEPT ![s] = [Blank EXCEPT !.pc = "order commit", !.flow = "retry", !.pay = p,
                                                        !.was = "captured_allocation_failed"]]
    <3>1. PICK r : r = [Blank EXCEPT !.pc = "order commit", !.flow = "retry", !.pay = p,
                                     !.was = "captured_allocation_failed"]
      OBVIOUS
    <3>2. r \in Requests
      BY <3>1, BlankFits DEF Requests, Working, Flows, PaymentStatuses
    <3>3. r.pc = "order commit" /\ r.pay = p /\ r.left = 0 /\ r.batch = {}
      BY <3>1 DEF Blank
    <3>4. Placed(r)
      <4>0. r.left = 0
        BY <3>3
      <4>1. r.left <= Amount
        BY <4>0, AmountNat
      <4> QED BY <2>1, <2>3, <3>3, <4>1 DEF Placed
    <3> QED BY <2>3, <3>1, <3>2, <3>4 DEF Fitting
  <2> QED BY <1>3, <2>2, <2>3 DEF RetryAllocation
<1>4. ASSUME NEW p \in Payments, WebhookNew(s, p) PROVE Fitting(s)
  <2>1. PICK r : r = [Blank EXCEPT !.pc = "webhook", !.flow = "webhook", !.pay = p]
    OBVIOUS
  <2>2. r \in Requests
    BY <2>1, BlankFits DEF Requests, Working, Flows
  <2>3. r.pc = "webhook" /\ r.pay = p /\ r.left = 0 /\ r.batch = {}
    BY <2>1 DEF Blank
  <2>4. payStatus[p] # "none"
    BY <1>4 DEF WebhookNew
  <2>5. Placed(r)
    BY <2>3, <2>4, AmountNat DEF Placed
  <2> QED BY <1>4, <2>1, <2>2, <2>5 DEF WebhookNew, Fitting
<1>5. ASSUME WebhookLock(s) PROVE Fitting(s)
  <2>1. req[s].pc = "webhook" /\ req[s].pay \in Payments /\ payStatus[req[s].pay] # "none"
    BY <1>5, <1>a DEF WebhookLock, Placed
  <2>2. CASE Begin(s, "webhook", req[s].pay, payStatus[req[s].pay])
    <3>1. payStatus[req[s].pay] \in PaymentStatuses \cup {"none"}
      BY <2>1 DEF TypeInv, TypeOK
    <3> QED BY <2>1, <2>2, <3>1, BeginFits DEF Fitting, Flows
  <2>3. CASE req' = [req EXCEPT ![s].pc = "record"]
    <3>1. PICK r : r = [req[s] EXCEPT !.pc = "record"]
      OBVIOUS
    <3>2. r \in Requests
      BY <3>1, <1>a DEF Requests
    <3>3. r.pc = "record" /\ r.pay = req[s].pay /\ r.left = req[s].left /\ r.batch = req[s].batch
      BY <3>1, <1>a DEF Requests
    <3>4. Placed(r)
      BY <3>3, <2>1, <1>a DEF Placed
    <3> QED BY <2>3, <3>1, <3>2, <3>4 DEF Fitting
  <2> QED BY <1>5, <2>2, <2>3 DEF WebhookLock
<1>6. ASSUME WebhookBadSignature(s) PROVE Fitting(s)
  <2>1. PICK r : r = [req[s] EXCEPT !.pc = "mark", !.saved = event[req[s].pay] = "none"]
    OBVIOUS
  <2>2. r \in Requests
    BY <2>1, <1>a DEF Requests
  <2>3. r.pc = "mark" /\ r.pay = req[s].pay /\ r.left = req[s].left /\ r.batch = req[s].batch
    BY <2>1, <1>a DEF Requests
  <2>4. Placed(r)
    BY <1>6, <2>3, <1>a DEF Placed, WebhookBadSignature
  <2> QED BY <1>6, <2>1, <2>2, <2>4 DEF WebhookBadSignature, Fitting
<1>7. ASSUME WebhookDuplicate(s) PROVE Fitting(s)
  <2>1. CASE ToSave(s) /\ req' = [req EXCEPT ![s].pc = "mark"]
    <3>1. PICK r : r = [req[s] EXCEPT !.pc = "mark"]
      OBVIOUS
    <3>2. r \in Requests
      BY <3>1, <1>a DEF Requests
    <3>3. r.pc = "mark" /\ r.pay = req[s].pay /\ r.left = req[s].left /\ r.batch = req[s].batch
      BY <3>1, <1>a DEF Requests
    <3>4. Placed(r)
      BY <2>1, <3>3, <1>a DEF Placed, ToSave, Allocated
    <3> QED BY <2>1, <3>1, <3>2, <3>4 DEF Fitting
  <2> QED BY <1>7, <2>1, EndFits DEF WebhookDuplicate
<1>8. ASSUME AllocateItem(s) PROVE Fitting(s)
  BY <1>8, AllocateFits
<1>9. ASSUME SaveAllocations(s) PROVE Fitting(s)
  <2> DEFINE was == IF req[s].flow = "retry" THEN req[s].was ELSE "captured"
  <2>1. PICK r : r = [req[s] EXCEPT !.pc = "settle", !.saved = TRUE, !.was = was]
    OBVIOUS
  <2>2. req' = [req EXCEPT ![s] = r]
    BY <1>9, <2>1 DEF SaveAllocations
  <2>3. was \in PaymentStatuses \cup {"none"}
    BY <1>a DEF Requests, PaymentStatuses
  <2> HIDE DEF was
  <2>4. r \in Requests
    BY <2>1, <2>3, <1>a DEF Requests, Working
  <2>5. r.pc = "settle" /\ r.pay = req[s].pay /\ r.left = req[s].left /\ r.batch = req[s].batch
    BY <2>1, <1>a DEF Requests
  <2>6. req[s].pc = "allocate"
    BY <1>9 DEF SaveAllocations, ToSave, Allocated
  <2>7. Placed(r)
    BY <2>5, <2>6, <1>a DEF Placed
  <2> QED BY <2>2, <2>4, <2>7 DEF Fitting
<1>10. ASSUME ReadTotal(s) PROVE Fitting(s)
  BY <1>10, ReadTotalFits
<1>11. ASSUME ReadOrder(s) PROVE Fitting(s)
  <2> DEFINE seen == orderStatus[target[req[s].pay]]
  <2>1. PICK r : r = [req[s] EXCEPT !.pc = "order commit", !.seen = seen]
    OBVIOUS
  <2>2. req' = [req EXCEPT ![s] = r] /\ req[s].pc = "order"
    BY <1>11, <2>1 DEF ReadOrder
  <2>3. seen \in Statuses
    BY <2>2, <1>a DEF Placed, TypeInv, TypeOK
  <2> HIDE DEF seen
  <2>4. r \in Requests
    BY <2>1, <2>3, <1>a DEF Requests, Working
  <2>5. r.pc = "order commit" /\ r.pay = req[s].pay /\ r.left = req[s].left /\ r.batch = req[s].batch
    BY <2>1, <1>a DEF Requests
  <2>6. Placed(r)
    BY <2>2, <2>5, <1>a DEF Placed
  <2> QED BY <2>2, <2>4, <2>6 DEF Fitting
<1>12. ASSUME FinishInvoice(s) PROVE Fitting(s)
  <2> DEFINE loaded == [req[s].loaded EXCEPT ![target[req[s].pay]] = req[s].total]
  <2>1. loaded \in [Invoices -> Nat \cup {None}]
    BY <1>a DEF Requests
  <2>2. Return(s, loaded)
    BY <1>12 DEF FinishInvoice
  <2> HIDE DEF loaded
  <2> QED BY <2>1, <2>2, ReturnFits
<1>13. ASSUME FinishOrder(s) \/ SweepFail(s) PROVE Fitting(s)
  <2>1. req[s].loaded \in [Invoices -> Nat \cup {None}]
    BY <1>a DEF Requests
  <2>2. Return(s, req[s].loaded)
    BY <1>13 DEF FinishOrder, SweepFail
  <2> QED BY <2>1, <2>2, ReturnFits
<1>14. ASSUME SweepRead(s) PROVE Fitting(s)
  <2> DEFINE batch == {p \in Payments : payStatus[p] = "pending"}
  <2>1. PICK r : r = [Blank EXCEPT !.pc = "sweep", !.flow = "sweep", !.batch = batch]
    OBVIOUS
  <2>2. r \in Requests
    BY <2>1, BlankFits DEF Requests, Flows
  <2>3. r.pc = "sweep" /\ r.left = 0 /\ r.batch = batch
    BY <2>1 DEF Blank
  <2>4. Placed(r)
    BY <2>3, AmountNat DEF Placed
  <2> QED BY <1>14, <2>1, <2>2, <2>4 DEF SweepRead, Fitting
<1>15. ASSUME NEW p \in Payments, SweepReject(s, p) PROVE Fitting(s)
  <2>1. PICK r : r = [req[s] EXCEPT !.pc = "reject", !.pay = p, !.was = "pending", !.batch = req[s].batch \ {p}]
    OBVIOUS
  <2>2. r \in Requests
    BY <2>1, <1>a DEF Requests, PaymentStatuses
  <2>3. r.pc = "reject" /\ r.pay = p /\ r.left = req[s].left /\ r.batch = req[s].batch \ {p}
    BY <2>1, <1>a DEF Requests
  <2>4. payStatus[p] # "none"
    BY <1>15, <1>a DEF SweepReject, Placed
  <2>5. Placed(r)
    BY <2>3, <2>4, <1>a DEF Placed
  <2> QED BY <1>15, <2>1, <2>2, <2>5 DEF SweepReject, Fitting
<1>16. ASSUME NEW p \in Payments, SweepSkip(s, p) PROVE Fitting(s)
  <2>1. CASE req[s].batch = {p}
    BY <1>16, <2>1, BlankFits DEF SweepSkip, Fitting
  <2>2. CASE req[s].batch # {p}
    <3>1. PICK r : r = [req[s] EXCEPT !.batch = req[s].batch \ {p}]
      OBVIOUS
    <3>2. r \in Requests
      BY <3>1, <1>a DEF Requests
    <3>3. r.pc = req[s].pc /\ r.pay = req[s].pay /\ r.left = req[s].left /\ r.batch = req[s].batch \ {p}
      BY <3>1, <1>a DEF Requests
    <3>4. Placed(r)
      BY <3>3, <1>a DEF Placed
    <3>5. req' = [req EXCEPT ![s] = r]
      BY <1>16, <2>2, <3>1 DEF SweepSkip
    <3> QED BY <3>2, <3>4, <3>5 DEF Fitting
  <2> QED BY <2>1, <2>2
<1>17. ASSUME Fail(s) PROVE Fitting(s)
  <2>1. CASE req[s].flow = "retry"
    BY <1>17, <2>1, BlankFits DEF Fail, Fitting
  <2>2. CASE req[s].flow # "retry"
    <3>1. PICK r : r = [Blank EXCEPT !.pc = "mark", !.flow = req[s].flow, !.pay = req[s].pay,
                                     !.was = req[s].was, !.saved = req[s].saved]
      OBVIOUS
    <3>2. r \in Requests
      BY <3>1, <1>a, BlankFits DEF Requests
    <3>3. r.pc = "mark" /\ r.pay = req[s].pay /\ r.left = 0 /\ r.batch = {}
      BY <3>1 DEF Blank
    <3>4. req[s].pay \in Payments /\ payStatus[req[s].pay] # "none"
      BY <1>17, <1>a DEF Fail, Placed, Working
    <3>5. Placed(r)
      BY <3>3, <3>4, AmountNat DEF Placed
    <3> QED BY <1>17, <2>2, <3>1, <3>2, <3>5 DEF Fail, Fitting
  <2> QED BY <2>1, <2>2
<1>18. ASSUME WebhookRecord(s) \/ MarkPayment(s) \/ MarkEvent(s) \/ Crash(s) PROVE Fitting(s)
  BY <1>18, EndFits DEF WebhookRecord, MarkPayment, MarkEvent, Crash
<1> QED BY <1>1, <1>2, <1>3, <1>4, <1>5, <1>6, <1>7, <1>8, <1>9, <1>10, <1>11, <1>12, <1>13, <1>14, <1>15,
           <1>16, <1>17, <1>18, Zenon DEF NextOf

\* What a payment that exists is for stays, and it goes on existing.
TargetsStay ==
  /\ \A p \in Payments : payStatus[p] # "none" => payStatus'[p] # "none" /\ target'[p] = target[p]
  /\ gateway' \subseteq {p \in Payments : payStatus'[p] # "none"}
  /\ \A p \in Payments : payStatus'[p] # "none" => target'[p] \in Invoices \cup Orders

\* The tables after a step.
TablesFit ==
  /\ payStatus \in [Payments -> PaymentStatuses \cup {"none"}]
  /\ target \in [Payments -> Invoices \cup Orders \cup {None}]
  /\ payLock \in [Payments -> Sessions \cup {None}]
  /\ paid \in [Invoices -> [Items -> Nat]]
  /\ allocated \in [Payments -> Nat]
  /\ amountPaid \in [Invoices -> Nat]
  /\ orderStatus \in [Orders -> Statuses]
  /\ event \in [Payments -> {"none", "received", "processed", "failed"}]
  /\ gateway \in SUBSET Payments
  /\ stale \in SUBSET Payments
  /\ shared \in SUBSET (Payments \cup Invoices)

\* A commit writes a status that exists.
LEMMA WriteKeeps ==
  ASSUME TypeInv, NEW s \in Sessions, NEW p \in Payments, payStatus[p] # "none",
         NEW new \in PaymentStatuses, Write(s, p, new), UNCHANGED <<target, gateway>>
  PROVE  /\ payStatus' \in [Payments -> PaymentStatuses \cup {"none"}] /\ stale' \in SUBSET Payments
         /\ TargetsStay
<1>1. payStatus' = [payStatus EXCEPT ![p] = new] /\ stale' \in {stale, stale \cup {p}}
  BY DEF Write
<1>2. new # "none"
  BY DEF PaymentStatuses
<1>3. payStatus \in [Payments -> PaymentStatuses \cup {"none"}] /\ stale \in SUBSET Payments
      /\ gateway \in SUBSET Payments
  BY DEF TypeInv, TypeOK
<1>4. \A q \in Payments : payStatus[q] # "none" => payStatus'[q] # "none"
  BY <1>1, <1>2, <1>3
<1>5. \A q \in Payments : payStatus'[q] # "none" => payStatus[q] # "none"
  BY <1>1, <1>3
<1> QED BY <1>1, <1>3, <1>4, <1>5 DEF TargetsStay, TypeInv, Aimed

\* Every step of a session keeps the tables, and what payments are for.
LEMMA TablesStep ==
  ASSUME TypeInv, NEW s \in Sessions, NextOf(s)
  PROVE  TablesFit' /\ TargetsStay
<1> DEFINE Goal == TablesFit' /\ TargetsStay
<1>a. TablesFit /\ Aimed
  BY DEF TypeInv, TypeOK, TablesFit
<1>b. req[s] \in Requests /\ Placed(req[s])
  BY DEF TypeInv, TypeOK
<1>c. Release(s) => payLock' \in [Payments -> Sessions \cup {None}]
  BY <1>a DEF Release, TablesFit
<1>d. UNCHANGED <<payStatus, target, gateway>> => TargetsStay
  BY <1>a DEF Aimed, TargetsStay, TablesFit
<1>1. ASSUME UNCHANGED <<db, gateway, history>> PROVE Goal
  BY <1>1, <1>a, <1>d DEF db, history, TablesFit
<1>2. ASSUME NEW p \in Payments, NEW t \in Invoices \cup Orders, InitiatePayment(s, p, t) PROVE Goal
  <2>1. payStatus' \in [Payments -> PaymentStatuses \cup {"none"}]
    BY <1>2, <1>a DEF InitiatePayment, TablesFit, PaymentStatuses
  <2>2. target' \in [Payments -> Invoices \cup Orders \cup {None}]
    BY <1>2, <1>a DEF InitiatePayment, TablesFit
  <2>3. TargetsStay
    BY <1>2, <1>a DEF InitiatePayment, TargetsStay, TablesFit, Aimed
  <2> QED BY <1>2, <1>a, <2>1, <2>2, <2>3 DEF InitiatePayment, TablesFit, history
<1>3. ASSUME NEW p \in Payments, VerifyBadSignature(s, p) PROVE Goal
  <2>1. payStatus' \in [Payments -> PaymentStatuses \cup {"none"}]
    BY <1>3, <1>a DEF VerifyBadSignature, TablesFit, PaymentStatuses
  <2>2. TargetsStay
    BY <1>3, <1>a DEF VerifyBadSignature, TargetsStay, TablesFit, Aimed
  <2> QED BY <1>3, <1>a, <2>1, <2>2 DEF VerifyBadSignature, TablesFit, history
<1>4. ASSUME NEW p \in Payments, NEW flow \in Flows, NEW was \in PaymentStatuses \cup {"none"},
             Begin(s, flow, p, was), payStatus[p] # "none",
             UNCHANGED <<payStatus, target, paid, allocated, amountPaid, orderStatus, event, gateway, stale>>,
             payLock' \in {payLock, [payLock EXCEPT ![p] = s]}
      PROVE  Goal
  <2>1. shared' \in SUBSET (Payments \cup Invoices)
    BY <1>4, BeginFits
  <2>2. payLock' \in [Payments -> Sessions \cup {None}]
    BY <1>4, <1>a DEF TablesFit
  <2> QED BY <1>4, <1>a, <1>d, <2>1, <2>2 DEF TablesFit
<1>5. ASSUME NEW p \in Payments, VerifyLock(s, p) PROVE Goal
  <2>1. Begin(s, "verify", p, "pending") /\ payStatus[p] # "none"
    BY <1>5 DEF VerifyLock
  <2>2. payLock' = [payLock EXCEPT ![p] = s]
    BY <1>5 DEF VerifyLock
  <2>3. UNCHANGED <<payStatus, target, paid, allocated, amountPaid, orderStatus, event, gateway, stale>>
    BY <1>5 DEF VerifyLock
  <2> QED BY <2>1, <2>2, <2>3, <1>4 DEF Flows, PaymentStatuses
<1>6. ASSUME NEW p \in Payments, SweepCapture(s, p) PROVE Goal
  <2>1. Begin(s, "sweep", p, "pending") /\ payStatus[p] # "none"
    BY <1>6, <1>b DEF SweepCapture, Placed
  <2>2. UNCHANGED <<payStatus, target, payLock, paid, allocated, amountPaid, orderStatus, event, gateway, stale>>
    BY <1>6 DEF SweepCapture, db
  <2> QED BY <2>1, <2>2, <1>4 DEF Flows, PaymentStatuses
<1>7. ASSUME NEW p \in Payments, RetryAllocation(s, p) PROVE Goal
  <2>1. CASE Begin(s, "retry", p, "captured_allocation_failed")
    <3>1. payStatus[p] # "none"
      BY <1>7 DEF RetryAllocation
    <3>2. UNCHANGED <<payStatus, target, payLock, paid, allocated, amountPaid, orderStatus, event, gateway, stale>>
      BY <1>7 DEF RetryAllocation, db
    <3> QED BY <2>1, <3>1, <3>2, <1>4 DEF Flows, PaymentStatuses
  <2>2. CASE UNCHANGED shared
    BY <1>7, <2>2, <1>1 DEF RetryAllocation, history
  <2> QED BY <1>7, <2>1, <2>2 DEF RetryAllocation
<1>8. ASSUME WebhookLock(s) PROVE Goal
  <2>1. req[s].pay \in Payments /\ payStatus[req[s].pay] # "none"
    BY <1>8, <1>b DEF WebhookLock, Placed
  <2>2. payStatus[req[s].pay] \in PaymentStatuses \cup {"none"}
    BY <2>1, <1>a DEF TablesFit
  <2>3. payLock' = [payLock EXCEPT ![req[s].pay] = s]
    BY <1>8 DEF WebhookLock
  <2>4. UNCHANGED <<payStatus, target, paid, allocated, amountPaid, orderStatus, event, gateway, stale>>
    BY <1>8 DEF WebhookLock
  <2>5. CASE Begin(s, "webhook", req[s].pay, payStatus[req[s].pay])
    BY <2>1, <2>2, <2>3, <2>4, <2>5, <1>4 DEF Flows
  <2>6. CASE UNCHANGED shared
    <3>1. payLock' \in [Payments -> Sessions \cup {None}]
      BY <2>3, <1>a DEF TablesFit
    <3> QED BY <2>4, <2>6, <3>1, <1>a, <1>d DEF TablesFit
  <2> QED BY <1>8, <2>5, <2>6 DEF WebhookLock
<1>9. ASSUME WebhookBadSignature(s) \/ WebhookRecord(s) \/ MarkEvent(s) PROVE Goal
  <2>1. event' \in [Payments -> {"none", "received", "processed", "failed"}]
    BY <1>9, <1>a DEF WebhookBadSignature, WebhookRecord, MarkEvent, TablesFit
  <2>2. payLock' \in [Payments -> Sessions \cup {None}]
    BY <1>9, <1>a, <1>c DEF WebhookBadSignature, WebhookRecord, MarkEvent, TablesFit, End
  <2>3. UNCHANGED <<payStatus, target, paid, allocated, amountPaid, orderStatus, gateway, stale, shared>>
    BY <1>9 DEF WebhookBadSignature, WebhookRecord, MarkEvent, history
  <2> QED BY <1>a, <1>d, <2>1, <2>2, <2>3 DEF TablesFit
<1>10. ASSUME WebhookDuplicate(s) \/ Fail(s) \/ Crash(s) PROVE Goal
  <2>1. payLock' \in [Payments -> Sessions \cup {None}]
    BY <1>10, <1>c DEF WebhookDuplicate, Fail, Crash, End
  <2>2. UNCHANGED <<payStatus, target, paid, allocated, amountPaid, orderStatus, event, gateway, stale, shared>>
    BY <1>10 DEF WebhookDuplicate, Fail, Crash, history
  <2> QED BY <1>a, <1>d, <2>1, <2>2 DEF TablesFit
<1>11. ASSUME \/ AllocateItem(s) \/ ReadTotal(s) \/ ReadOrder(s) \/ SweepRead(s)
              \/ \E p \in Payments : WebhookNew(s, p) \/ SweepReject(s, p) \/ SweepSkip(s, p)
       PROVE  Goal
  <2>1. UNCHANGED <<db, gateway, history>>
    BY <1>11 DEF AllocateItem, ReadTotal, ReadOrder, SweepRead, WebhookNew, SweepReject, SweepSkip
  <2> QED BY <1>1, <2>1
<1>12. ASSUME SaveAllocations(s) PROVE Goal
  <2>1. req[s].pay \in Payments /\ payStatus[req[s].pay] # "none" /\ target[req[s].pay] \in Invoices
    BY <1>12, <1>b DEF SaveAllocations, ToSave, Allocated, Placed
  <2>2. req[s].plan \in [Items -> Nat]
    BY <1>b DEF Requests
  <2>3. paid' \in [Invoices -> [Items -> Nat]]
    <3>1. [i \in Items |-> paid[target[req[s].pay]][i] + req[s].plan[i]] \in [Items -> Nat]
      BY <1>a, <2>1, <2>2 DEF TablesFit
    <3>2. paid' = [paid EXCEPT ![target[req[s].pay]] = [i \in Items |-> paid[target[req[s].pay]][i] + req[s].plan[i]]]
      BY <1>12, <1>a, <2>1 DEF SaveAllocations, TablesFit
    <3> QED BY <1>a, <3>1, <3>2 DEF TablesFit
  <2>4. allocated' \in [Payments -> Nat]
    <3>1. Total(req[s].plan) \in Nat
      BY <2>2, TotalIsSum
    <3>2. allocated' = [allocated EXCEPT ![req[s].pay] = @ + Total(req[s].plan)]
      BY <1>12 DEF SaveAllocations
    <3> QED BY <1>a, <2>1, <3>1, <3>2 DEF TablesFit
  <2>5. event' \in [Payments -> {"none", "received", "processed", "failed"}]
    BY <1>12, <1>a DEF SaveAllocations, TablesFit
  <2>6. payLock' \in [Payments -> Sessions \cup {None}]
    BY <1>12, <1>c DEF SaveAllocations
  <2>7. UNCHANGED <<target, amountPaid, orderStatus, gateway, shared>>
    BY <1>12 DEF SaveAllocations
  <2>8. /\ payStatus' \in [Payments -> PaymentStatuses \cup {"none"}] /\ stale' \in SUBSET Payments
        /\ TargetsStay
    <3>1. CASE UNCHANGED <<payStatus, stale>>
      BY <3>1, <2>7, <1>a, <1>d DEF TablesFit
    <3>2. CASE Write(s, req[s].pay, "captured")
      BY <3>2, <2>1, <2>7, WriteKeeps DEF PaymentStatuses
    <3> QED BY <1>12, <3>1, <3>2 DEF SaveAllocations
  <2> QED BY <1>a, <2>3, <2>4, <2>5, <2>6, <2>7, <2>8 DEF TablesFit
<1>13. ASSUME FinishInvoice(s) PROVE Goal
  <2>1. req[s].pay \in Payments /\ payStatus[req[s].pay] # "none" /\ target[req[s].pay] \in Invoices
    BY <1>13, <1>b DEF FinishInvoice, Placed
  <2>2. amountPaid' \in [Invoices -> Nat]
    <3>1. req[s].total \in Nat
      BY <1>b DEF Requests
    <3>2. amountPaid' = amountPaid \/ amountPaid' = [amountPaid EXCEPT ![target[req[s].pay]] = req[s].total]
      BY <1>13 DEF FinishInvoice
    <3> QED BY <1>a, <3>1, <3>2 DEF TablesFit
  <2>3. event' \in [Payments -> {"none", "received", "processed", "failed"}]
    BY <1>13, <1>a DEF FinishInvoice, TablesFit
  <2>4. payLock' \in [Payments -> Sessions \cup {None}]
    BY <1>13, <1>c DEF FinishInvoice, Return
  <2>5. UNCHANGED <<target, paid, allocated, orderStatus, gateway, shared>>
    BY <1>13 DEF FinishInvoice
  <2>6. /\ payStatus' \in [Payments -> PaymentStatuses \cup {"none"}] /\ stale' \in SUBSET Payments
        /\ TargetsStay
    <3>1. CASE UNCHANGED <<payStatus, stale>>
      BY <3>1, <2>5, <1>a, <1>d DEF TablesFit
    <3>2. CASE Write(s, req[s].pay, "captured")
      BY <3>2, <2>1, <2>5, WriteKeeps DEF PaymentStatuses
    <3> QED BY <1>13, <3>1, <3>2 DEF FinishInvoice
  <2> QED BY <1>a, <2>2, <2>3, <2>4, <2>5, <2>6 DEF TablesFit
<1>14. ASSUME FinishOrder(s) \/ SweepFail(s) \/ MarkPayment(s) PROVE Goal
  <2>1. req[s].pay \in Payments /\ payStatus[req[s].pay] # "none"
    BY <1>14, <1>b DEF FinishOrder, SweepFail, MarkPayment, Placed
  <2>2. UNCHANGED <<target, paid, allocated, amountPaid, gateway, shared>>
    BY <1>14 DEF FinishOrder, SweepFail, MarkPayment
  <2>3. orderStatus' \in [Orders -> Statuses]
    <3>1. orderStatus' = orderStatus \/ orderStatus' = [orderStatus EXCEPT ![target[req[s].pay]] = "processing"]
      BY <1>14 DEF FinishOrder, SweepFail, MarkPayment
    <3> QED BY <3>1, <1>a DEF TablesFit, Statuses
  <2>4. event' \in [Payments -> {"none", "received", "processed", "failed"}]
    <3>1. event' = event \/ event' = [event EXCEPT ![req[s].pay] = "processed"]
      BY <1>14 DEF FinishOrder, SweepFail, MarkPayment
    <3> QED BY <3>1, <1>a DEF TablesFit
  <2>5. payLock' \in [Payments -> Sessions \cup {None}]
    BY <1>14, <1>c DEF FinishOrder, SweepFail, MarkPayment, Return, End
  <2>6. \E new \in PaymentStatuses : Write(s, req[s].pay, new)
    BY <1>14 DEF FinishOrder, SweepFail, MarkPayment, PaymentStatuses
  <2>7. /\ payStatus' \in [Payments -> PaymentStatuses \cup {"none"}] /\ stale' \in SUBSET Payments
        /\ TargetsStay
    BY <2>1, <2>2, <2>6, WriteKeeps
  <2> QED BY <1>a, <2>2, <2>3, <2>4, <2>5, <2>7 DEF TablesFit
<1> HIDE DEF Goal
<1>15. Goal
  BY <1>2, <1>3, <1>5, <1>6, <1>7, <1>8, <1>9, <1>10, <1>11, <1>12, <1>13, <1>14, Zenon DEF NextOf
<1> QED BY <1>15 DEF Goal

\* What is placed stays placed while what payments are for stays.
PlacedThen(r) ==
  /\ r.pc \notin {"idle", "sweep"} => r.pay \in Payments /\ payStatus'[r.pay] # "none"
  /\ r.pc \in {"allocate", "settle", "finish"} => target'[r.pay] \in Invoices
  /\ r.pc \in {"order", "order commit"} => target'[r.pay] \in Orders
  /\ \A p \in r.batch : payStatus'[p] # "none"
  /\ r.left <= Amount

LEMMA PlacedStays ==
  ASSUME NEW r \in Requests, Placed(r), TargetsStay
  PROVE  PlacedThen(r)
<1>1. r.batch \subseteq Payments
  BY DEF Requests
<1>2. r.pc \in {"allocate", "settle", "finish", "order", "order commit"} => r.pc \notin {"idle", "sweep"}
  OBVIOUS
<1> QED BY <1>1, <1>2 DEF Placed, PlacedThen, TargetsStay

LEMMA TypeStep == TypeInv /\ [Next]_vars => TypeInv'
<1> SUFFICES ASSUME TypeInv, [Next]_vars PROVE TypeInv'
  OBVIOUS
<1>1. CASE UNCHANGED vars
  BY <1>1 DEF TypeInv, TypeOK, Aimed, Placed, vars, db, history
<1>2. ASSUME NEW s \in Sessions, NextOf(s) PROVE TypeInv'
  <2>1. PICK r \in Requests : req' = [req EXCEPT ![s] = r] /\ Placed(r)
    BY <1>2, StepFits DEF Fitting
  <2>2. TablesFit' /\ TargetsStay
    BY <1>2, TablesStep
  <2>3. req \in [Sessions -> Requests] /\ \A q \in Sessions : Placed(req[q])
    BY DEF TypeInv, TypeOK
  <2>4. req' \in [Sessions -> Requests] /\ \A q \in Sessions : Placed(req'[q])
    BY <2>1, <2>3
  <2>5. \A q \in Sessions : PlacedThen(req'[q])
    BY <2>2, <2>4, PlacedStays
  <2>6. TypeOK'
    BY <2>2, <2>4 DEF TablesFit, TypeOK
  <2>7. Aimed'
    BY <2>2 DEF TargetsStay, Aimed
  <2>8. (\A q \in Sessions : Placed(req[q]))'
    BY <2>5 DEF Placed, PlacedThen
  <2> QED BY <2>6, <2>7, <2>8 DEF TypeInv
<1>3. ASSUME NEW p \in Payments, GatewayCaptures(p) PROVE TypeInv'
  BY <1>3 DEF GatewayCaptures, db, history, TypeInv, TypeOK, Aimed, Placed
<1>4. ASSUME NEW o \in Orders, NEW to \in Statuses, MoveOrder(o, to) PROVE TypeInv'
  BY <1>4 DEF MoveOrder, history, TypeInv, TypeOK, Aimed, Placed
<1> QED BY <1>1, <1>2, <1>3, <1>4 DEF Next

LEMMA TypeInitial == Init => TypeInv
<1> SUFFICES ASSUME Init PROVE TypeInv
  OBVIOUS
<1>1. \A s \in Sessions : req[s] \in Requests /\ Placed(req[s])
  BY BlankFits DEF Init
<1>2. TypeOK
  BY <1>1, NoItemsNone DEF Init, TypeOK, Statuses
<1> QED BY <1>1, <1>2 DEF TypeInv, Aimed, Init
-----------------------------------------------------------------------------
(* What an allocation that is under way has done so far.                   *)

\* No more is open than a payment of amount_due cannot pay.
Covered(bought) == Total(Lacks(bought)) <= Short
With(bought, plan) == [i \in Items |-> bought[i] + plan[i]]
ItemsFrom(n) == {i \in Items : i >= n}

\* The pass has dealt with the items before r.item: it gives none of them more
\* than it costs, and while there is money left they are paid in full.
PassFits(r, bought) ==
  /\ r.item >= 1
  /\ \A i \in ItemsFrom(r.item) : r.plan[i] = 0
  /\ \A i \in Items : r.plan[i] <= Final[i]
  /\ SumOf(r.plan, Items) + r.left = Amount
  /\ r.left > 0 => \A i \in Items : i < r.item => bought[i] + r.plan[i] >= Final[i]

\* Alone on its invoice it gives no item too much.  Alone on its payment, it
\* gives what was open before: with what the payment was allocated earlier and
\* what stays open, that is no more than the items cost.
PassOwn(r, bought, before, v, together) ==
  /\ v \notin together => \A i \in Items : bought[i] + r.plan[i] <= Final[i]
  /\ r.pay \notin together => before + Total(r.plan) + Total(Lacks(With(bought, r.plan))) <= Total(Final)

PassesFit ==
  \A s \in Sessions : req[s].pc = "allocate" =>
    LET v == target[req[s].pay] IN
    PassFits(req[s], paid[v]) /\ PassOwn(req[s], paid[v], allocated[req[s].pay], v, shared)

\* Two sessions that allocate at once share what they have in common.
PassesApart ==
  \A s, r \in Sessions : s # r /\ req[s].pc = "allocate" /\ req[r].pc = "allocate" =>
    /\ req[s].pay = req[r].pay => req[s].pay \in shared
    /\ target[req[s].pay] = target[req[r].pay] => target[req[s].pay] \in shared

\* A pass that has ended has covered the invoice.
PassesCover ==
  \A s \in Sessions : req[s].pc \in {"settle", "finish"} => Covered(paid[target[req[s].pay]])

\* Only a payment of an invoice is allocated; with what is open on the invoice,
\* its allocations are no more than the items cost.
AllocationsAimed ==
  \A p \in Payments : allocated[p] > 0 => payStatus[p] # "none" /\ target[p] \in Invoices

SpendingFits ==
  \A p \in Payments \ shared :
    target[p] \in Invoices => allocated[p] + Open(target[p]) <= Total(Final)

MoneyInv ==
  /\ TypeInv /\ PassesFit /\ PassesApart /\ PassesCover
  /\ AllocationsAimed /\ SpendingFits /\ NoOverAllocation /\ CapturedPaysInvoice

\* What is open is an amount, of no more than the items cost.
LEMMA LacksFit ==
  ASSUME NEW f \in [Items -> Nat]
  PROVE  /\ Lacks(f) \in [Items -> Nat]
         /\ Total(Lacks(f)) \in Nat /\ Total(Lacks(f)) <= Total(Final)
<1>1. Final \in [Items -> Nat] /\ IsFiniteSet(Items)
  BY ItemsFinite
<1>2. Lacks(f) \in [Items -> Nat]
  BY <1>1 DEF Lacks
<1>3. \A i \in Items : Lacks(f)[i] <= Final[i]
  BY <1>1 DEF Lacks
<1>4. Total(Lacks(f)) = SumOf(Lacks(f), Items) /\ Total(Lacks(f)) \in Nat /\ Total(Final) = SumOf(Final, Items)
  BY <1>1, <1>2, TotalIsSum
<1>5. \A i \in Items : Lacks(f)[i] \in Int /\ Final[i] \in Int /\ Lacks(f)[i] <= Final[i]
  BY <1>1, <1>2, <1>3
<1>6. SumOf(Lacks(f), Items) <= SumOf(Final, Items)
  <2>1. PICK g : g = Lacks(f)
    OBVIOUS
  <2> QED BY <1>1, <1>5, <2>1, SumsOrdered
<1> QED BY <1>2, <1>4, <1>6

\* The more is allocated, the less is open.
LEMMA LacksShrink ==
  ASSUME NEW f \in [Items -> Nat], NEW g \in [Items -> Nat], \A i \in Items : f[i] <= g[i]
  PROVE  Total(Lacks(g)) <= Total(Lacks(f))
<1>1. PICK a, b : a = Lacks(f) /\ b = Lacks(g)
  OBVIOUS
<1>2. a \in [Items -> Nat] /\ b \in [Items -> Nat]
  BY <1>1, LacksFit
<1>3. \A i \in Items : b[i] <= a[i]
  BY <1>1, ItemsFinite DEF Lacks
<1>4. \A i \in Items : b[i] \in Int /\ a[i] \in Int /\ b[i] <= a[i]
  BY <1>2, <1>3
<1>5. SumOf(b, Items) <= SumOf(a, Items)
  BY <1>4, ItemsFinite, SumsOrdered
<1> QED BY <1>1, <1>2, <1>5, TotalIsSum

LEMMA WithFits ==
  ASSUME NEW f \in [Items -> Nat], NEW plan \in [Items -> Nat]
  PROVE  With(f, plan) \in [Items -> Nat] /\ \A i \in Items : With(f, plan)[i] = f[i] + plan[i]
BY DEF With

LEMMA ShortFits == Short \in Nat /\ Total(Final) \in Nat
<1>1. Total(Final) \in Nat
  BY ItemsFinite, TotalIsSum
<1> QED BY <1>1, AmountNat DEF Short

\* The pass begins with every item before it and the whole amount.
LEMMA PassBegins ==
  ASSUME NEW r, r.item = 1, r.left = Amount, r.plan = NoItems, NEW bought
  PROVE  PassFits(r, bought)
<1>1. ItemsFrom(1) = Items /\ \A i \in Items : i \in Nat /\ ~ (i < 1)
  <2>1. Final \in Seq(Nat)
    BY PaymentAssumption
  <2>2. Items = 1 .. Len(Final) /\ Len(Final) \in Nat
    BY <2>1 DEF Items
  <2> QED BY <2>2 DEF ItemsFrom
<1>2. SumOf(NoItems, Items) = 0
  BY NoItemsNone, TotalIsSum
<1>3. \A i \in Items : NoItems[i] = 0
  BY DEF NoItems
<1>4. Amount \in Nat /\ \A i \in Items : NoItems[i] <= Final[i]
  BY <1>3, AmountNat, ItemsFinite
<1> QED BY <1>1, <1>2, <1>3, <1>4 DEF PassFits

\* One turn of the loop.
LEMMA PassGoesOn ==
  ASSUME NEW r \in Requests, r.item \in Items, NEW bought \in [Items -> Nat], PassFits(r, bought),
         NEW give \in Nat,
         give = LET need == Final[r.item] - bought[r.item]
                IN  IF need <= 0 THEN 0 ELSE IF need < r.left THEN need ELSE r.left,
         NEW new, new.item = r.item + 1, new.plan = [r.plan EXCEPT ![r.item] = give], new.left = r.left - give
  PROVE  PassFits(new, bought)
<1> DEFINE n == r.item
           plan == [r.plan EXCEPT ![n] = give]
<1>1. new.item = n + 1 /\ new.plan = plan /\ new.left = r.left - give
  OBVIOUS
<1>2. n \in Nat /\ \A i \in Items : i \in Nat
  <2>1. Final \in Seq(Nat)
    BY PaymentAssumption
  <2>2. Items = 1 .. Len(Final) /\ Len(Final) \in Nat
    BY <2>1 DEF Items
  <2> QED BY <2>2
<1>3. r.plan \in [Items -> Nat] /\ r.left \in Nat /\ plan \in [Items -> Nat]
  BY DEF Requests
<1>4. Final[n] \in Nat /\ bought[n] \in Nat /\ \A i \in Items : Final[i] \in Int
  BY ItemsFinite
<1>5. SumOf(r.plan, Items) + r.left = Amount /\ r.plan[n] = 0 /\ n >= 1
  BY <1>2 DEF PassFits, ItemsFrom
<1>6. ItemsFrom(n + 1) = ItemsFrom(n) \ {n} /\ n \in ItemsFrom(n)
  BY <1>2 DEF ItemsFrom
<1>7. IsFiniteSet(ItemsFrom(n)) /\ IsFiniteSet(ItemsFrom(n + 1)) /\ IsFiniteSet(Items \ {n})
  BY ItemsFinite, FS_Subset DEF ItemsFrom
<1>10. /\ give <= Final[n] /\ give <= r.left
       /\ r.left - give > 0 => bought[n] + give >= Final[n]
  BY <1>3, <1>4
<1>11. SumOf(plan, Items) = SumOf(r.plan, Items) + give
  <2>1. SumOf(plan, Items \ {n}) = SumOf(r.plan, Items \ {n})
    <3>1. \A i \in Items \ {n} : plan[i] = r.plan[i]
      BY <1>3
    <3> HIDE DEF plan
    <3> QED BY <1>7, <3>1, SumsEqual
  <2>2. SumOf(plan, Items) = plan[n] + SumOf(plan, Items \ {n})
    <3> HIDE DEF plan
    <3> QED BY <1>3, ItemsFinite, SumTaken
  <2>3. SumOf(r.plan, Items) = r.plan[n] + SumOf(r.plan, Items \ {n})
    BY <1>3, ItemsFinite, SumTaken
  <2>4. plan[n] = give
    BY <1>3
  <2>5. SumOf(r.plan, Items \ {n}) \in Int
    <3>1. \A i \in Items \ {n} : r.plan[i] \in Nat
      BY <1>3
    <3> QED BY <1>7, <3>1, SumNatural
  <2> HIDE DEF plan
  <2> QED BY <1>5, <2>1, <2>2, <2>3, <2>4, <2>5
<1>12. SumOf(plan, Items) + (r.left - give) = Amount
  <2>1. SumOf(r.plan, Items) \in Nat
    BY <1>3, ItemsFinite, SumNatural
  <2> QED BY <1>3, <1>5, <1>11, <2>1
<1>13. \A i \in ItemsFrom(n + 1) : plan[i] = 0
  <2>1. \A i \in ItemsFrom(n) : r.plan[i] = 0
    BY DEF PassFits
  <2> QED BY <1>3, <1>6, <2>1 DEF ItemsFrom
<1>14. ASSUME r.left - give > 0, NEW i \in Items, i < n + 1 PROVE bought[i] + plan[i] >= Final[i]
  <2>1. CASE i = n
    BY <1>3, <1>10, <1>14, <2>1
  <2>2. CASE i # n
    <3>1. i < n /\ r.left > 0
      BY <1>2, <1>3, <1>14, <2>2
    <3>2. bought[i] + r.plan[i] >= Final[i]
      BY <3>1 DEF PassFits
    <3> QED BY <1>3, <2>2, <3>2
  <2> QED BY <2>1, <2>2
<1>16. \A i \in Items : plan[i] <= Final[i]
  <2>1. \A i \in Items : r.plan[i] <= Final[i]
    BY DEF PassFits
  <2> QED BY <1>3, <1>10, <2>1
<1>15. n + 1 >= 1
  BY <1>2
<1> HIDE DEF plan, n
<1> QED BY <1>1, <1>12, <1>13, <1>14, <1>15, <1>16 DEF PassFits

LEMMA PassOwnGoesOn ==
  ASSUME NEW r \in Requests, r.item \in Items, NEW bought \in [Items -> Nat], PassFits(r, bought),
         NEW give \in Nat,
         give = LET need == Final[r.item] - bought[r.item]
                IN  IF need <= 0 THEN 0 ELSE IF need < r.left THEN need ELSE r.left,
         NEW plan, plan = [r.plan EXCEPT ![r.item] = give]
  PROVE  /\ (\A i \in Items : bought[i] + r.plan[i] <= Final[i]) => \A i \in Items : bought[i] + plan[i] <= Final[i]
         /\ Total(plan) + Total(Lacks(With(bought, plan))) = Total(r.plan) + Total(Lacks(With(bought, r.plan)))
<1> DEFINE n == r.item
<1>2. r.plan \in [Items -> Nat] /\ r.left \in Nat /\ Final[n] \in Nat /\ bought[n] \in Nat
  BY ItemsFinite DEF Requests
<1>3. r.plan[n] = 0
  <2>1. n \in Nat
    <3>1. Final \in Seq(Nat)
      BY PaymentAssumption
    <3>2. Items = 1 .. Len(Final) /\ Len(Final) \in Nat
      BY <3>1 DEF Items
    <3> QED BY <3>2
  <2> QED BY <2>1 DEF PassFits, ItemsFrom
<1>4. ASSUME \A i \in Items : bought[i] + r.plan[i] <= Final[i], NEW i \in Items PROVE bought[i] + plan[i] <= Final[i]
  <2>1. bought[i] + r.plan[i] <= Final[i]
    BY <1>4
  <2>2. CASE i # n
    BY <1>2, <2>1, <2>2
  <2>3. CASE i = n
    <3>1. bought[n] <= Final[n]
      BY <1>2, <1>3, <2>1, <2>3
    <3>2. bought[n] + give <= Final[n]
      BY <1>2, <3>1
    <3> QED BY <1>2, <2>3, <3>2
  <2> QED BY <2>2, <2>3
<1>5. plan \in [Items -> Nat] /\ plan[n] = give /\ \A i \in Items : i # n => plan[i] = r.plan[i]
  BY <1>2
<1>6. PICK open, less : open = Lacks(With(bought, r.plan)) /\ less = Lacks(With(bought, plan))
  OBVIOUS
<1>7. open \in [Items -> Nat] /\ less \in [Items -> Nat]
  BY <1>2, <1>5, <1>6, LacksFit, WithFits
<1>8. ASSUME NEW i \in Items PROVE plan[i] + less[i] = r.plan[i] + open[i]
  <2>1. /\ open[i] = IF bought[i] + r.plan[i] < Final[i] THEN Final[i] - (bought[i] + r.plan[i]) ELSE 0
        /\ less[i] = IF bought[i] + plan[i] < Final[i] THEN Final[i] - (bought[i] + plan[i]) ELSE 0
    BY <1>6 DEF Lacks, With
  <2>2. Final[i] \in Nat /\ bought[i] \in Nat
    BY ItemsFinite
  <2>3. CASE i # n
    BY <1>5, <2>1, <2>3
  <2>4. CASE i = n
    <3>1. /\ open[n] = IF bought[n] < Final[n] THEN Final[n] - bought[n] ELSE 0
          /\ less[n] = IF bought[n] + give < Final[n] THEN Final[n] - (bought[n] + give) ELSE 0
      BY <1>2, <1>3, <1>5, <2>1, <2>4
    <3>2. give = 0 \/ (give > 0 /\ bought[n] + give <= Final[n])
      BY <1>2
    <3>3. give + less[n] = open[n]
      <4>1. bought[n] \in Nat /\ Final[n] \in Nat
        BY <1>2
      <4>2. CASE give = 0
        BY <3>1, <4>1, <4>2
      <4>3. CASE give > 0 /\ bought[n] + give <= Final[n]
        <5>1. bought[n] < Final[n]
          BY <4>1, <4>3
        <5>2. open[n] = Final[n] - bought[n]
          BY <3>1, <5>1
        <5>3. less[n] = Final[n] - (bought[n] + give)
          BY <3>1, <4>1, <4>3
        <5> QED BY <4>1, <5>2, <5>3
      <4> QED BY <3>2, <4>2, <4>3
    <3> QED BY <1>3, <1>5, <1>7, <2>4, <3>3
  <2> QED BY <2>3, <2>4
<1>9. PICK u, w : u = With(r.plan, open) /\ w = With(plan, less)
  OBVIOUS
<1>10. /\ \A i \in Items : r.plan[i] \in Int /\ open[i] \in Int /\ u[i] = r.plan[i] + open[i]
       /\ \A i \in Items : plan[i] \in Int /\ less[i] \in Int /\ w[i] = plan[i] + less[i]
       /\ \A i \in Items : u[i] = w[i]
  <2>1. \A i \in Items : u[i] = r.plan[i] + open[i] /\ w[i] = plan[i] + less[i]
    BY <1>9 DEF With
  <2> QED BY <1>2, <1>5, <1>7, <1>8, <2>1
<1>11. SumOf(u, Items) = SumOf(r.plan, Items) + SumOf(open, Items)
  <2>1. PICK v : v = r.plan
    OBVIOUS
  <2> QED BY <1>10, <2>1, ItemsFinite, SumsJoined
<1>12. SumOf(w, Items) = SumOf(plan, Items) + SumOf(less, Items)
  <2>1. PICK v : v = plan
    OBVIOUS
  <2>2. \A i \in Items : v[i] \in Int /\ less[i] \in Int /\ w[i] = v[i] + less[i]
    BY <1>10, <2>1
  <2>3. SumOf(w, Items) = SumOf(v, Items) + SumOf(less, Items)
    BY <2>2, ItemsFinite, SumsJoined
  <2> QED BY <2>1, <2>3
<1>13. SumOf(u, Items) = SumOf(w, Items)
  BY <1>10, ItemsFinite, SumsEqual
<1>14. Total(plan) + Total(less) = Total(r.plan) + Total(open)
  BY <1>2, <1>5, <1>7, <1>11, <1>12, <1>13, TotalIsSum
<1> QED BY <1>4, <1>6, <1>14

\* A pass that is at the end leaves no more open than the rounding.
LEMMA PassEnds ==
  ASSUME NEW r \in Requests, r.item \notin Items, NEW bought \in [Items -> Nat], PassFits(r, bought)
  PROVE  Covered(With(bought, r.plan))
<1>1. Final \in Seq(Nat)
  BY PaymentAssumption
<1>2. Items = 1 .. Len(Final) /\ Len(Final) \in Nat
  BY <1>1 DEF Items
<1>3. r.item \in Nat /\ r.item >= 1 /\ r.left \in Nat /\ r.plan \in [Items -> Nat]
  BY DEF PassFits, Requests
<1>4. \A i \in Items : i < r.item
  BY <1>2, <1>3
<1>5. PICK open : open = Lacks(With(bought, r.plan))
  OBVIOUS
<1>6. open \in [Items -> Nat] /\ Total(open) \in Nat
  BY <1>3, <1>5, LacksFit, WithFits
<1>7. \A i \in Items : open[i] = IF bought[i] + r.plan[i] < Final[i] THEN Final[i] - (bought[i] + r.plan[i]) ELSE 0
  BY <1>5 DEF Lacks, With
<1>8. \A i \in Items : Final[i] \in Nat /\ bought[i] \in Nat /\ r.plan[i] \in Nat /\ r.plan[i] <= Final[i]
  BY <1>3, ItemsFinite DEF PassFits
<1>9. CASE r.left > 0
  <2>1. \A i \in Items : bought[i] + r.plan[i] >= Final[i]
    BY <1>4, <1>9 DEF PassFits
  <2>2. \A i \in Items : open[i] = 0
    BY <1>7, <1>8, <2>1
  <2>3. open = NoItems
    BY <1>6, <2>2 DEF NoItems
  <2> QED BY <1>5, <2>3, NoItemsNone, ShortFits DEF Covered
<1>10. CASE ~ (r.left > 0)
  <2>1. SumOf(r.plan, Items) = Amount
    <3>1. SumOf(r.plan, Items) + r.left = Amount
      BY DEF PassFits
    <3>2. SumOf(r.plan, Items) \in Nat
      BY <1>8, ItemsFinite, SumNatural
    <3> QED BY <1>3, <1>10, <3>1, <3>2
  <2>2. PICK rest, plan : rest = [i \in Items |-> Final[i] - r.plan[i]] /\ plan = r.plan
    OBVIOUS
  <2>3. /\ \A i \in Items : plan[i] \in Int /\ rest[i] \in Int /\ Final[i] = plan[i] + rest[i]
        /\ \A i \in Items : open[i] \in Int /\ rest[i] \in Int /\ open[i] <= rest[i]
    BY <1>7, <1>8, <2>2
  <2>4. SumOf(Final, Items) = SumOf(plan, Items) + SumOf(rest, Items)
    BY <2>3, ItemsFinite, SumsJoined
  <2>5. SumOf(open, Items) <= SumOf(rest, Items)
    BY <2>3, ItemsFinite, SumsOrdered
  <2>6. Total(Final) = SumOf(Final, Items) /\ Total(open) = SumOf(open, Items)
    BY <1>6, ItemsFinite, TotalIsSum
  <2>7. SumOf(rest, Items) \in Int
    BY <2>3, ItemsFinite, SumTaken
  <2>8. Total(open) <= Total(Final) - Amount
    BY <1>6, <2>1, <2>2, <2>4, <2>5, <2>6, <2>7, AmountNat, ShortFits
  <2>9. Total(open) <= Short
    BY <1>6, <2>8, AmountNat, ShortFits DEF Short
  <2> QED BY <1>5, <2>9 DEF Covered
<1> QED BY <1>9, <1>10

\* The steps that matter to the money: a pass begins, or the step is none of it.
PassBegun(s) ==
  \E p \in Payments :
    /\ req'[s].pc = "allocate" /\ req'[s].pay = p
    /\ req'[s].item = 1 /\ req'[s].left = Amount /\ req'[s].plan = NoItems
    /\ payStatus[p] # "none" /\ target[p] \in Invoices
    /\ shared' = shared \cup {x \in {p, target[p]} :
                                \E q \in Sessions \ {s} : req[q].pc = "allocate" /\ x \in {req[q].pay, target[req[q].pay]}}
    /\ UNCHANGED <<paid, allocated, payStatus>>

Aside(s) ==
  /\ req'[s].pc \notin {"allocate", "settle", "finish"}
  /\ UNCHANGED <<paid, allocated>>
  /\ shared \subseteq shared'
  /\ \A p \in Payments : payStatus'[p] = "captured" =>
       payStatus[p] = "captured" \/ (payStatus[p] # "none" /\ target[p] \in Orders)

LEMMA BeginKind ==
  ASSUME TypeInv, NEW s \in Sessions, NEW flow \in Flows, NEW p \in Payments, payStatus[p] # "none", NEW was,
         Begin(s, flow, p, was), UNCHANGED <<paid, allocated, payStatus>>
  PROVE  PassBegun(s) \/ Aside(s)
<1> DEFINE pc == IF target[p] \in Invoices THEN "allocate" ELSE IF flow = "sweep" THEN "order commit" ELSE "order"
           loaded == [v \in Invoices |-> IF v = target[p] /\ req[s].loaded[v] = None
                                         THEN amountPaid[v] ELSE req[s].loaded[v]]
<1>1. PICK r : r = [Blank EXCEPT !.pc = pc, !.flow = flow, !.pay = p, !.was = was, !.item = 1, !.left = Amount,
                                 !.loaded = loaded, !.batch = req[s].batch \ {p}]
  OBVIOUS
<1>2. req' = [req EXCEPT ![s] = r]
  BY <1>1 DEF Begin
<1>3. req'[s] = r
  BY <1>2 DEF TypeInv, TypeOK
<1>4. shared' = shared \cup {x \in {p, target[p]} :
                               \E q \in Sessions \ {s} : req[q].pc = "allocate" /\ x \in {req[q].pay, target[req[q].pay]}}
  <2>1. shared' = shared \cup {x \in {p, target[p]} : \E q \in {o \in Sessions \ {s} : req[o].pc = "allocate"} :
                                                         x \in {req[q].pay, target[req[q].pay]}}
    BY DEF Begin
  <2> QED BY <2>1
<1> HIDE DEF pc, loaded
<1>5. r.pc = pc /\ r.pay = p /\ r.item = 1 /\ r.left = Amount /\ r.plan = NoItems
  BY <1>1 DEF Blank
<1>6. CASE target[p] \in Invoices
  <2>1. pc = "allocate"
    BY <1>6 DEF pc
  <2> QED BY <1>3, <1>4, <1>5, <1>6, <2>1 DEF PassBegun
<1>7. CASE target[p] \notin Invoices
  <2>1. pc \in {"order", "order commit"}
    BY <1>7 DEF pc
  <2>2. shared \subseteq shared'
    BY <1>4
  <2>3. req'[s].pc \notin {"allocate", "settle", "finish"}
    BY <1>3, <1>5, <2>1
  <2> QED BY <2>2, <2>3 DEF Aside
<1> QED BY <1>6, <1>7

\* What a step that ends or resumes a request leaves behind.
LEMMA NotWorking ==
  ASSUME TypeInv, NEW s \in Sessions
  PROVE  /\ End(s) => req'[s].pc = "idle"
         /\ \A loaded : Return(s, loaded) => req'[s].pc \in {"idle", "sweep"}
<1>1. req \in [Sessions -> Requests] /\ Blank.pc = "idle"
  BY DEF TypeInv, TypeOK, Blank
<1>2. End(s) => req'[s].pc = "idle"
  BY <1>1 DEF End
<1>3. ASSUME NEW loaded, Return(s, loaded) PROVE req'[s].pc \in {"idle", "sweep"}
  <2>1. CASE req[s].batch = {}
    BY <1>1, <1>3, <2>1 DEF Return
  <2>2. CASE req[s].batch # {}
    <3>1. PICK r : r = [Blank EXCEPT !.pc = "sweep", !.flow = "sweep", !.batch = req[s].batch, !.loaded = loaded]
      OBVIOUS
    <3>2. req' = [req EXCEPT ![s] = r]
      BY <1>3, <2>2, <3>1 DEF Return
    <3>3. r.pc = "sweep"
      BY <3>1 DEF Blank
    <3> QED BY <1>1, <3>2, <3>3
  <2> QED BY <2>1, <2>2
<1> QED BY <1>2, <1>3

LEMMA StepKinds ==
  ASSUME TypeInv, NEW s \in Sessions, NextOf(s)
  PROVE  \/ PassBegun(s) \/ Aside(s)
         \/ AllocateItem(s) \/ SaveAllocations(s) \/ ReadTotal(s) \/ FinishInvoice(s)
<1> DEFINE Goal == PassBegun(s) \/ Aside(s)
<1>a. req[s] \in Requests /\ Placed(req[s]) /\ req \in [Sessions -> Requests]
      /\ payStatus \in [Payments -> PaymentStatuses \cup {"none"}]
  BY DEF TypeInv, TypeOK
<1>0. ASSUME req'[s].pc \notin {"allocate", "settle", "finish"}, UNCHANGED <<paid, allocated, payStatus, shared>>
      PROVE  Goal
  BY <1>0 DEF Aside
<1>1. ASSUME \/ \E p \in Payments, t \in Invoices \cup Orders : InitiatePayment(s, p, t)
             \/ \E p \in Payments : VerifyBadSignature(s, p)
      PROVE  Goal
  <2>1. PICK p \in Payments, new \in {"pending", "failed"} : payStatus' = [payStatus EXCEPT ![p] = new]
    BY <1>1 DEF InitiatePayment, VerifyBadSignature
  <2>2. \A q \in Payments : payStatus'[q] = "captured" => payStatus[q] = "captured"
    BY <1>a, <2>1
  <2>3. req' = req /\ req[s].pc = "idle" /\ UNCHANGED <<paid, allocated, shared>>
    BY <1>1 DEF InitiatePayment, VerifyBadSignature, history
  <2> QED BY <2>2, <2>3 DEF Aside
<1>2. ASSUME NEW p \in Payments, VerifyLock(s, p) \/ SweepCapture(s, p) PROVE Goal
  <2>1. PICK flow \in Flows : Begin(s, flow, p, "pending")
    BY <1>2 DEF VerifyLock, SweepCapture, Flows
  <2>2. payStatus[p] # "none" /\ UNCHANGED <<paid, allocated, payStatus>>
    BY <1>2, <1>a DEF VerifyLock, SweepCapture, Placed, db
  <2> QED BY <2>1, <2>2, BeginKind
<1>3. ASSUME NEW p \in Payments, RetryAllocation(s, p) PROVE Goal
  <2>1. payStatus[p] # "none" /\ UNCHANGED <<paid, allocated, payStatus>>
    BY <1>3 DEF RetryAllocation, db
  <2>2. CASE Begin(s, "retry", p, "captured_allocation_failed")
    BY <2>1, <2>2, BeginKind DEF Flows
  <2>3. CASE /\ req' = [req EXCEPT ![s] = [Blank EXCEPT !.pc = "order commit", !.flow = "retry", !.pay = p,
                                                        !.was = "captured_allocation_failed"]]
             /\ UNCHANGED shared
    <3>1. req'[s].pc = "order commit"
      BY <2>3, <1>a DEF Blank
    <3> QED BY <2>1, <2>3, <3>1, <1>0
  <2> QED BY <1>3, <2>2, <2>3 DEF RetryAllocation
<1>4. ASSUME WebhookLock(s) PROVE Goal
  <2>1. req[s].pay \in Payments /\ payStatus[req[s].pay] # "none" /\ UNCHANGED <<paid, allocated, payStatus>>
    BY <1>4, <1>a DEF WebhookLock, Placed
  <2>2. CASE Begin(s, "webhook", req[s].pay, payStatus[req[s].pay])
    BY <2>1, <2>2, BeginKind DEF Flows
  <2>3. CASE req' = [req EXCEPT ![s].pc = "record"] /\ UNCHANGED shared
    <3>1. req'[s].pc = "record"
      BY <2>3, <1>a DEF Requests
    <3> QED BY <2>1, <2>3, <3>1, <1>0
  <2> QED BY <1>4, <2>2, <2>3 DEF WebhookLock
<1>5. ASSUME NEW p \in Payments, WebhookNew(s, p) \/ SweepReject(s, p) \/ SweepSkip(s, p) PROVE Goal
  <2>1. UNCHANGED <<paid, allocated, payStatus, shared>>
    BY <1>5 DEF WebhookNew, SweepReject, SweepSkip, db, history
  <2>2. CASE WebhookNew(s, p)
    <3>1. req'[s].pc = "webhook"
      BY <2>2, <1>a DEF WebhookNew, Blank
    <3> QED BY <2>1, <3>1, <1>0
  <2>3. CASE SweepReject(s, p)
    <3>1. req'[s].pc = "reject"
      BY <2>3, <1>a DEF SweepReject, Requests
    <3> QED BY <2>1, <3>1, <1>0
  <2>4. CASE SweepSkip(s, p)
    <3>1. req[s].pc = "sweep" /\ req'[s] \in {Blank, [req[s] EXCEPT !.batch = req[s].batch \ {p}]}
      BY <2>4, <1>a DEF SweepSkip
    <3>2. Blank.pc = "idle" /\ [req[s] EXCEPT !.batch = req[s].batch \ {p}].pc = "sweep"
      BY <3>1, <1>a DEF Blank, Requests
    <3>3. req'[s].pc \in {"idle", "sweep"}
      BY <3>1, <3>2
    <3> QED BY <2>1, <3>3, <1>0
  <2> QED BY <1>5, <2>2, <2>3, <2>4
<1>6. ASSUME WebhookBadSignature(s) \/ ReadOrder(s) PROVE Goal
  <2>1. UNCHANGED <<paid, allocated, payStatus, shared>>
    BY <1>6 DEF WebhookBadSignature, ReadOrder, db, history
  <2>2. req'[s].pc \in {"mark", "order commit"}
    <3>1. CASE WebhookBadSignature(s)
      <4>1. PICK saved : req'[s] = [req[s] EXCEPT !.pc = "mark", !.saved = saved]
        BY <3>1, <1>a DEF WebhookBadSignature
      <4> QED BY <4>1, <1>a DEF Requests
    <3>2. CASE ReadOrder(s)
      <4>1. PICK seen : req'[s] = [req[s] EXCEPT !.pc = "order commit", !.seen = seen]
        BY <3>2, <1>a DEF ReadOrder
      <4> QED BY <4>1, <1>a DEF Requests
    <3> QED BY <1>6, <3>1, <3>2
  <2> QED BY <2>1, <2>2, <1>0
<1>7. ASSUME WebhookDuplicate(s) \/ Fail(s) PROVE Goal
  <2>1. UNCHANGED <<paid, allocated, payStatus, shared>>
    BY <1>7 DEF WebhookDuplicate, Fail, history
  <2>2. CASE WebhookDuplicate(s)
    <3>1. req' = [req EXCEPT ![s].pc = "mark"] => req'[s].pc = "mark"
      BY <1>a DEF Requests
    <3>2. req'[s].pc \in {"mark", "idle"}
      BY <2>2, <3>1, NotWorking DEF WebhookDuplicate
    <3> QED BY <2>1, <3>2, <1>0
  <2>3. CASE Fail(s)
    <3>1. PICK r : r = [Blank EXCEPT !.pc = "mark", !.flow = req[s].flow, !.pay = req[s].pay,
                                     !.was = req[s].was, !.saved = req[s].saved]
      OBVIOUS
    <3>2. r.pc = "mark" /\ Blank.pc = "idle"
      BY <3>1 DEF Blank
    <3>3. req'[s].pc \in {"mark", "idle"}
      <4>1. req'[s] \in {Blank, r}
        BY <2>3, <1>a, <3>1 DEF Fail
      <4> QED BY <3>2, <4>1
    <3> QED BY <2>1, <3>3, <1>0
  <2> QED BY <1>7, <2>2, <2>3
<1>8. ASSUME SweepRead(s) PROVE Goal
  <2>1. UNCHANGED <<paid, allocated, payStatus, shared>>
    BY <1>8 DEF SweepRead, db, history
  <2>2. req'[s].pc = "sweep"
    BY <1>8, <1>a DEF SweepRead, Blank
  <2> QED BY <2>1, <2>2, <1>0
<1>9. ASSUME WebhookRecord(s) \/ MarkEvent(s) \/ Crash(s) PROVE Goal
  <2>1. UNCHANGED <<paid, allocated, payStatus, shared>>
    BY <1>9 DEF WebhookRecord, MarkEvent, Crash, history
  <2>2. req'[s].pc = "idle"
    BY <1>9, NotWorking DEF WebhookRecord, MarkEvent, Crash
  <2> QED BY <2>1, <2>2, <1>0
<1>10. ASSUME FinishOrder(s) PROVE Goal
  <2>1. req[s].pay \in Payments /\ payStatus[req[s].pay] # "none" /\ target[req[s].pay] \in Orders
    BY <1>10, <1>a DEF FinishOrder, Placed
  <2>2. payStatus' = [payStatus EXCEPT ![req[s].pay] = "captured"] /\ UNCHANGED <<paid, allocated, shared>>
    BY <1>10 DEF FinishOrder, Write
  <2>3. req'[s].pc \in {"idle", "sweep"}
    BY <1>10, NotWorking DEF FinishOrder
  <2> QED BY <1>a, <2>1, <2>2, <2>3 DEF Aside
<1>11. ASSUME SweepFail(s) \/ MarkPayment(s) PROVE Goal
  <2>1. PICK new \in {"failed", "captured_allocation_failed"} : payStatus' = [payStatus EXCEPT ![req[s].pay] = new]
    BY <1>11 DEF SweepFail, MarkPayment, Write
  <2>2. \A q \in Payments : payStatus'[q] = "captured" => payStatus[q] = "captured"
    BY <1>a, <2>1
  <2>3. req'[s].pc \in {"idle", "sweep"} /\ UNCHANGED <<paid, allocated, shared>>
    BY <1>11, NotWorking DEF SweepFail, MarkPayment
  <2> QED BY <2>2, <2>3 DEF Aside
<1> HIDE DEF Goal
<1>12. Goal \/ AllocateItem(s) \/ SaveAllocations(s) \/ ReadTotal(s) \/ FinishInvoice(s)
  BY <1>1, <1>2, <1>3, <1>4, <1>5, <1>6, <1>7, <1>8, <1>9, <1>10, <1>11, Zenon DEF NextOf
<1> QED BY <1>12 DEF Goal

\* More paid, more shared: what fits goes on fitting.
LEMMA PassStays ==
  ASSUME NEW r \in Requests, NEW bought \in [Items -> Nat], NEW more \in [Items -> Nat],
         PassFits(r, bought), \A i \in Items : bought[i] <= more[i]
  PROVE  PassFits(r, more)
<1>1. r.plan \in [Items -> Nat] /\ \A i \in Items : Final[i] \in Nat
  BY ItemsFinite DEF Requests
<1>2. ASSUME r.left > 0, NEW i \in Items, i < r.item PROVE more[i] + r.plan[i] >= Final[i]
  <2>1. bought[i] + r.plan[i] >= Final[i] /\ bought[i] <= more[i]
    BY <1>2 DEF PassFits
  <2>2. bought[i] \in Nat /\ more[i] \in Nat /\ r.plan[i] \in Nat /\ Final[i] \in Nat
    BY <1>1
  <2> QED BY <2>1, <2>2
<1> QED BY <1>2 DEF PassFits

LEMMA PassOwnStays ==
  ASSUME NEW r \in Requests, NEW bought \in [Items -> Nat], NEW more \in [Items -> Nat],
         \A i \in Items : bought[i] <= more[i],
         NEW v, NEW together, NEW later, together \subseteq later,
         NEW before \in Nat, NEW after, PassOwn(r, bought, before, v, together),
         v \notin together => more = bought, r.pay \notin together => after = before
  PROVE  PassOwn(r, more, after, v, later)
<1>1. r.plan \in [Items -> Nat] /\ Total(r.plan) \in Nat
  BY TotalIsSum DEF Requests
<1>2. v \notin later => \A i \in Items : more[i] + r.plan[i] <= Final[i]
  BY DEF PassOwn
<1>3. ASSUME r.pay \notin later
      PROVE  after + Total(r.plan) + Total(Lacks(With(more, r.plan))) <= Total(Final)
  <2>1. after = before /\ before + Total(r.plan) + Total(Lacks(With(bought, r.plan))) <= Total(Final)
    BY <1>3 DEF PassOwn
  <2>2. PICK f, g : f = With(bought, r.plan) /\ g = With(more, r.plan)
    OBVIOUS
  <2>3. f \in [Items -> Nat] /\ g \in [Items -> Nat] /\ \A i \in Items : f[i] <= g[i]
    <3>1. /\ f \in [Items -> Nat] /\ g \in [Items -> Nat]
          /\ \A i \in Items : f[i] = bought[i] + r.plan[i] /\ g[i] = more[i] + r.plan[i]
      BY <1>1, <2>2, WithFits
    <3>2. \A i \in Items : bought[i] \in Nat /\ more[i] \in Nat /\ r.plan[i] \in Nat
      BY <1>1
    <3> QED BY <3>1, <3>2
  <2>4. Total(Lacks(g)) <= Total(Lacks(f)) /\ Total(Lacks(g)) \in Nat /\ Total(Lacks(f)) \in Nat
    BY <2>3, LacksShrink, LacksFit
  <2> QED BY <1>1, <2>1, <2>2, <2>4, ShortFits
<1> QED BY <1>2, <1>3 DEF PassOwn

LEMMA CoverStays ==
  ASSUME NEW bought \in [Items -> Nat], NEW more \in [Items -> Nat], Covered(bought),
         \A i \in Items : bought[i] <= more[i]
  PROVE  Covered(more)
<1>1. Total(Lacks(more)) <= Total(Lacks(bought)) /\ Total(Lacks(more)) \in Nat /\ Total(Lacks(bought)) \in Nat
  BY LacksShrink, LacksFit
<1> QED BY <1>1, ShortFits DEF Covered

\* What a step does to the money, for the sessions that do not take it: no
\* amount shrinks, and only what is shared is paid behind the back of a pass.
MoneyGrows(s) ==
  /\ \A v \in Invoices, i \in Items : paid[v][i] <= paid'[v][i]
  /\ shared \subseteq shared'
  /\ \A q \in Sessions \ {s} : req'[q] = req[q] /\ req[q].pc = "allocate" =>
       LET v == target[req[q].pay] IN
       /\ v \notin shared => paid'[v] = paid[v]
       /\ req[q].pay \notin shared => allocated'[req[q].pay] = allocated[req[q].pay]

LEMMA SavesGrow ==
  ASSUME MoneyInv, NEW s \in Sessions, SaveAllocations(s)
  PROVE  MoneyGrows(s)
<1> DEFINE p == req[s].pay
           v == target[p]
<1>1. req[s] \in Requests /\ Placed(req[s]) /\ req[s].pc = "allocate"
  BY DEF MoneyInv, TypeInv, TypeOK, SaveAllocations, ToSave, Allocated
<1>2. p \in Payments /\ v \in Invoices /\ req[s].plan \in [Items -> Nat]
      /\ paid \in [Invoices -> [Items -> Nat]] /\ allocated \in [Payments -> Nat]
      /\ req \in [Sessions -> Requests]
  BY <1>1 DEF Placed, Requests, MoneyInv, TypeInv, TypeOK
<1>3. paid' = [paid EXCEPT ![v] = [i \in Items |-> paid[v][i] + req[s].plan[i]]]
      /\ allocated' = [allocated EXCEPT ![p] = @ + Total(req[s].plan)] /\ shared' = shared
  BY <1>2 DEF SaveAllocations
<1> HIDE DEF v, p
<1>4. ASSUME NEW u \in Invoices, NEW i \in Items PROVE paid[u][i] <= paid'[u][i]
  <2>1. paid[u][i] \in Nat /\ req[s].plan[i] \in Nat
    BY <1>2
  <2>2. CASE u # v
    BY <1>2, <1>3, <2>1, <2>2
  <2>3. CASE u = v
    <3>1. paid'[v][i] = paid[v][i] + req[s].plan[i]
      BY <1>2, <1>3
    <3> QED BY <2>1, <2>3, <3>1
  <2> QED BY <2>2, <2>3
<1>5. ASSUME NEW q \in Sessions \ {s}, req[q].pc = "allocate"
      PROVE  /\ target[req[q].pay] \notin shared => paid'[target[req[q].pay]] = paid[target[req[q].pay]]
             /\ req[q].pay \notin shared => allocated'[req[q].pay] = allocated[req[q].pay]
  <2>1. /\ req[q].pay = p => p \in shared
        /\ target[req[q].pay] = v => v \in shared
    BY <1>1, <1>5 DEF MoneyInv, PassesApart, p, v
  <2>2. req[q].pay \in Payments /\ target[req[q].pay] \in Invoices
    BY <1>5 DEF MoneyInv, TypeInv, Placed
  <2> QED BY <1>2, <1>3, <2>1, <2>2
<1> QED BY <1>3, <1>4, <1>5 DEF MoneyGrows

LEMMA StepGrows ==
  ASSUME MoneyInv, NEW s \in Sessions, NextOf(s)
  PROVE  MoneyGrows(s)
<1>a. paid \in [Invoices -> [Items -> Nat]]
  BY DEF MoneyInv, TypeInv, TypeOK
<1>b. \A v \in Invoices, i \in Items : paid[v][i] <= paid[v][i]
  <2>1. \A v \in Invoices, i \in Items : paid[v][i] \in Nat
    BY <1>a
  <2> QED BY <2>1
<1>1. ASSUME UNCHANGED <<paid, allocated>>, shared \subseteq shared' PROVE MoneyGrows(s)
  BY <1>1, <1>b DEF MoneyGrows
<1>2. CASE PassBegun(s) \/ Aside(s)
  BY <1>1, <1>2 DEF PassBegun, Aside
<1>3. CASE AllocateItem(s) \/ ReadTotal(s) \/ FinishInvoice(s)
  BY <1>1, <1>3 DEF AllocateItem, ReadTotal, FinishInvoice, db, history
<1>4. CASE SaveAllocations(s)
  BY <1>4, SavesGrow
<1> QED BY <1>2, <1>3, <1>4, StepKinds DEF MoneyInv

\* A step of one session leaves the records of the others.
LEMMA RecordsStay ==
  ASSUME TypeInv, NEW s \in Sessions, NextOf(s), NEW q \in Sessions, q # s
  PROVE  req'[q] = req[q]
<1>1. PICK r : req' = [req EXCEPT ![s] = r]
  BY StepFits DEF Fitting
<1> QED BY <1>1 DEF TypeInv, TypeOK

\* A pass in the next state has begun with this step or gone on with it.
LEMMA PassSource ==
  ASSUME MoneyInv, NEW s \in Sessions, NextOf(s), req'[s].pc = "allocate"
  PROVE  PassBegun(s) \/ (AllocateItem(s) /\ req[s].pc = "allocate" /\ req'[s].pay = req[s].pay)
<1>1. req \in [Sessions -> Requests] /\ req[s] \in Requests
  BY DEF MoneyInv, TypeInv, TypeOK
<1>2. ASSUME SaveAllocations(s) PROVE FALSE
  <2>1. PICK was : req' = [req EXCEPT ![s] = [req[s] EXCEPT !.pc = "settle", !.saved = TRUE, !.was = was]]
    BY <1>2 DEF SaveAllocations
  <2>2. req'[s].pc = "settle"
    BY <1>1, <2>1 DEF Requests
  <2> QED BY <2>2
<1>3. ASSUME ReadTotal(s) PROVE FALSE
  <2>1. PICK total : req' = [req EXCEPT ![s] = [req[s] EXCEPT !.pc = "finish", !.total = total]]
    BY <1>3 DEF ReadTotal
  <2>2. req'[s].pc = "finish"
    BY <1>1, <2>1 DEF Requests
  <2> QED BY <2>2
<1>4. ASSUME FinishInvoice(s) PROVE FALSE
  <2>1. req'[s].pc \in {"idle", "sweep"}
    BY <1>4, NotWorking DEF FinishInvoice, MoneyInv
  <2> QED BY <2>1
<1>5. ASSUME AllocateItem(s) PROVE req[s].pc = "allocate" /\ req'[s].pay = req[s].pay
  <2>1. PICK give : req' = [req EXCEPT ![s] = [req[s] EXCEPT !.item = req[s].item + 1, !.plan[req[s].item] = give,
                                                           !.left = req[s].left - give]]
    BY <1>5, AllocateFits DEF MoneyInv
  <2>2. req'[s].pay = req[s].pay
    BY <1>1, <2>1 DEF Requests
  <2> QED BY <1>5, <2>2 DEF AllocateItem
<1>6. ~ Aside(s)
  BY DEF Aside
<1> QED BY <1>2, <1>3, <1>4, <1>5, <1>6, StepKinds DEF MoneyInv

\* What a pass commits covers its invoice, and is too much for neither the
\* invoice nor the payment, when it is alone on it.
LEMMA SaveCovers ==
  ASSUME MoneyInv, NEW s \in Sessions, SaveAllocations(s)
  PROVE  LET p == req[s].pay
             v == target[p]
         IN
         /\ p \in Payments /\ v \in Invoices
         /\ paid' = [paid EXCEPT ![v] = [i \in Items |-> paid[v][i] + req[s].plan[i]]]
         /\ allocated' = [allocated EXCEPT ![p] = @ + Total(req[s].plan)]
         /\ Covered(paid'[v])
         /\ v \notin shared => \A i \in Items : paid'[v][i] <= Final[i]
         /\ p \notin shared => allocated'[p] + Total(Lacks(paid'[v])) <= Total(Final)
<1> DEFINE p == req[s].pay
           v == target[p]
           plan == req[s].plan
<1>1. req[s] \in Requests /\ Placed(req[s]) /\ req[s].pc = "allocate" /\ req[s].item \notin Items /\ plan # NoItems
  BY DEF MoneyInv, TypeInv, TypeOK, SaveAllocations, ToSave, Allocated
<1>2. p \in Payments /\ v \in Invoices /\ plan \in [Items -> Nat]
      /\ paid \in [Invoices -> [Items -> Nat]] /\ allocated \in [Payments -> Nat]
  BY <1>1 DEF Placed, Requests, MoneyInv, TypeInv, TypeOK
<1>3. paid' = [paid EXCEPT ![v] = [i \in Items |-> paid[v][i] + plan[i]]]
      /\ allocated' = [allocated EXCEPT ![p] = @ + Total(plan)]
  BY <1>2 DEF SaveAllocations
<1>4. PassFits(req[s], paid[v]) /\ PassOwn(req[s], paid[v], allocated[p], v, shared)
  BY <1>1 DEF MoneyInv, PassesFit
<1>5. paid[v] \in [Items -> Nat] /\ \A i \in Items : paid'[v][i] = paid[v][i] + plan[i]
  BY <1>2, <1>3
<1>6. Covered(With(paid[v], plan)) /\ paid'[v] = With(paid[v], plan)
  <2>1. Covered(With(paid[v], plan))
    BY <1>1, <1>4, <1>5, PassEnds
  <2>2. paid'[v] = With(paid[v], plan)
    BY <1>2, <1>3 DEF With
  <2> QED BY <2>1, <2>2
<1> HIDE DEF p, v, plan
<1>7. Covered(paid'[v])
  BY <1>6
<1>8. v \notin shared => \A i \in Items : paid'[v][i] <= Final[i]
  BY <1>4, <1>5 DEF PassOwn, v, p, plan
<1>9. p \notin shared => allocated'[p] + Total(Lacks(paid'[v])) <= Total(Final)
  <2> SUFFICES ASSUME p \notin shared PROVE allocated'[p] + Total(Lacks(paid'[v])) <= Total(Final)
    OBVIOUS
  <2>1. allocated[p] + Total(plan) + Total(Lacks(With(paid[v], plan))) <= Total(Final)
    BY <1>4 DEF PassOwn, p, plan
  <2>2. allocated'[p] = allocated[p] + Total(plan)
    BY <1>2, <1>3
  <2> QED BY <1>6, <2>1, <2>2
<1> QED BY <1>2, <1>3, <1>7, <1>8, <1>9 DEF p, v, plan

\* Otherwise nothing is paid.
LEMMA NothingPaid ==
  ASSUME MoneyInv, NEW s \in Sessions, NextOf(s), ~ SaveAllocations(s)
  PROVE  UNCHANGED <<paid, allocated>>
<1>1. CASE PassBegun(s) \/ Aside(s)
  BY <1>1 DEF PassBegun, Aside
<1>2. CASE AllocateItem(s) \/ ReadTotal(s) \/ FinishInvoice(s)
  BY <1>2 DEF AllocateItem, ReadTotal, FinishInvoice, db
<1> QED BY <1>1, <1>2, StepKinds DEF MoneyInv

\* What each pass has done so far, after a step.
LEMMA OthersFit ==
  ASSUME MoneyInv, NEW s \in Sessions, NextOf(s), TypeInv', NEW q \in Sessions, q # s, req'[q].pc = "allocate"
  PROVE  /\ target'[req'[q].pay] = target[req[q].pay]
         /\ PassFits(req'[q], paid'[target[req[q].pay]])
         /\ PassOwn(req'[q], paid'[target[req[q].pay]], allocated'[req[q].pay], target[req[q].pay], shared')
<1> DEFINE r == req[q]
           v == target[r.pay]
<1>1. req'[q] = r
  BY RecordsStay DEF MoneyInv
<1>2. r \in Requests /\ Placed(r) /\ r.pc = "allocate"
  BY <1>1 DEF MoneyInv, TypeInv, TypeOK
<1>3. r.pay \in Payments /\ payStatus[r.pay] # "none" /\ v \in Invoices
  BY <1>2 DEF Placed
<1>4. target'[r.pay] = v
  BY <1>3, TablesStep DEF TargetsStay, MoneyInv
<1>5. paid[v] \in [Items -> Nat] /\ paid'[v] \in [Items -> Nat]
  BY <1>3 DEF MoneyInv, TypeInv, TypeOK
<1>6. /\ \A i \in Items : paid[v][i] <= paid'[v][i]
      /\ shared \subseteq shared'
      /\ v \notin shared => paid'[v] = paid[v]
      /\ r.pay \notin shared => allocated'[r.pay] = allocated[r.pay]
  BY <1>1, <1>2, <1>3, StepGrows DEF MoneyGrows
<1>7. PassFits(r, paid[v]) /\ PassOwn(r, paid[v], allocated[r.pay], v, shared)
  BY <1>2 DEF MoneyInv, PassesFit
<1> HIDE DEF v, r
<1>8. PassFits(r, paid'[v])
  BY <1>2, <1>5, <1>6, <1>7, PassStays
<1>9. PassOwn(r, paid'[v], allocated'[r.pay], v, shared')
  <2>1. allocated[r.pay] \in Nat
    BY <1>3 DEF MoneyInv, TypeInv, TypeOK
  <2> QED BY <1>2, <1>5, <1>6, <1>7, <2>1, PassOwnStays
<1> QED BY <1>1, <1>4, <1>8, <1>9 DEF r, v

LEMMA OwnFits ==
  ASSUME MoneyInv, NEW s \in Sessions, NextOf(s), TypeInv', req'[s].pc = "allocate"
  PROVE  LET v == target'[req'[s].pay] IN
         PassFits(req'[s], paid'[v]) /\ PassOwn(req'[s], paid'[v], allocated'[req'[s].pay], v, shared')
<1> DEFINE r == req[s]
           new == req'[s]
<1>1. CASE PassBegun(s)
  <2>1. PICK p \in Payments :
          /\ new.pay = p /\ new.item = 1 /\ new.left = Amount /\ new.plan = NoItems
          /\ payStatus[p] # "none" /\ target[p] \in Invoices
          /\ shared \subseteq shared'
          /\ UNCHANGED <<paid, allocated>>
    BY <1>1 DEF PassBegun
  <2>2. target'[p] = target[p]
    BY <2>1, TablesStep DEF TargetsStay, MoneyInv
  <2> HIDE DEF new
  <2>3. PassFits(new, paid[target[p]])
    BY <2>1, PassBegins
  <2>4. PassOwn(new, paid[target[p]], allocated[p], target[p], shared')
    <3>1. ASSUME target[p] \notin shared', NEW i \in Items PROVE paid[target[p]][i] + new.plan[i] <= Final[i]
      <4>1. paid[target[p]][i] <= Final[i]
        BY <2>1, <3>1 DEF MoneyInv, NoOverAllocation
      <4>2. paid[target[p]][i] \in Nat /\ new.plan[i] = 0
        BY <2>1 DEF MoneyInv, TypeInv, TypeOK, NoItems
      <4> QED BY <4>1, <4>2
    <3>2. ASSUME p \notin shared'
          PROVE  allocated[p] + Total(new.plan) + Total(Lacks(With(paid[target[p]], new.plan))) <= Total(Final)
      <4>1. allocated[p] + Total(Lacks(paid[target[p]])) <= Total(Final)
        BY <2>1, <3>2 DEF MoneyInv, SpendingFits, Open
      <4>2. paid[target[p]] \in [Items -> Nat] /\ allocated[p] \in Nat
        BY <2>1 DEF MoneyInv, TypeInv, TypeOK
      <4>3. With(paid[target[p]], NoItems) = paid[target[p]]
        BY <4>2 DEF With, NoItems
      <4>4. Total(NoItems) = 0
        BY NoItemsNone
      <4> QED BY <2>1, <4>1, <4>2, <4>3, <4>4
    <3> QED BY <2>1, <3>1, <3>2 DEF PassOwn
  <2> QED BY <2>1, <2>2, <2>3, <2>4 DEF new
<1>2. CASE AllocateItem(s)
  <2>1. r \in Requests /\ Placed(r) /\ r.pc = "allocate" /\ r.item \in Items
    BY <1>2 DEF MoneyInv, TypeInv, TypeOK, AllocateItem
  <2> DEFINE v == target[r.pay]
  <2>2. r.pay \in Payments /\ payStatus[r.pay] # "none" /\ v \in Invoices
    BY <2>1 DEF Placed
  <2>3. target'[r.pay] = v
    BY <2>2, TablesStep DEF TargetsStay, MoneyInv
  <2>4. paid' = paid /\ allocated' = allocated /\ shared' = shared
    BY <1>2 DEF AllocateItem, db, history
  <2>5. PassFits(r, paid[v]) /\ PassOwn(r, paid[v], allocated[r.pay], v, shared)
    BY <2>1 DEF MoneyInv, PassesFit
  <2>6. paid[v] \in [Items -> Nat] /\ allocated[r.pay] \in Nat
    BY <2>2 DEF MoneyInv, TypeInv, TypeOK
  <2>8. PICK give \in Nat :
          /\ give = LET need == Final[r.item] - paid[v][r.item]
                    IN  IF need <= 0 THEN 0 ELSE IF need < r.left THEN need ELSE r.left
          /\ req' = [req EXCEPT ![s] = [r EXCEPT !.item = r.item + 1, !.plan[r.item] = give, !.left = r.left - give]]
    BY <1>2, AllocateFits DEF MoneyInv
  <2>9. new = [r EXCEPT !.item = r.item + 1, !.plan[r.item] = give, !.left = r.left - give]
    BY <2>8 DEF MoneyInv, TypeInv, TypeOK
  <2>10. /\ new.item = r.item + 1 /\ new.plan = [r.plan EXCEPT ![r.item] = give]
         /\ new.left = r.left - give /\ new.pay = r.pay
    BY <2>1, <2>9 DEF Requests
  <2> HIDE DEF v, r, new
  <2>11. PassFits(new, paid[v])
    BY <2>1, <2>5, <2>6, <2>8, <2>10, PassGoesOn
  <2>12. PassOwn(new, paid[v], allocated[r.pay], v, shared)
    <3>1. /\ (\A i \in Items : paid[v][i] + r.plan[i] <= Final[i])
               => \A i \in Items : paid[v][i] + new.plan[i] <= Final[i]
          /\ Total(new.plan) + Total(Lacks(With(paid[v], new.plan)))
               = Total(r.plan) + Total(Lacks(With(paid[v], r.plan)))
      BY <2>1, <2>5, <2>6, <2>8, <2>10, PassOwnGoesOn
    <3>2. /\ Total(new.plan) \in Nat /\ Total(Lacks(With(paid[v], new.plan))) \in Nat
          /\ Total(r.plan) \in Nat /\ Total(Lacks(With(paid[v], r.plan))) \in Nat
      <4>1. r.plan \in [Items -> Nat] /\ new.plan \in [Items -> Nat]
        BY <2>1, <2>8, <2>10 DEF Requests
      <4> QED BY <2>6, <4>1, TotalIsSum, LacksFit, WithFits
    <3>3. /\ v \notin shared => \A i \in Items : paid[v][i] + r.plan[i] <= Final[i]
          /\ r.pay \notin shared =>
               allocated[r.pay] + Total(r.plan) + Total(Lacks(With(paid[v], r.plan))) <= Total(Final)
      BY <2>5 DEF PassOwn
    <3>4. r.pay \notin shared =>
            allocated[r.pay] + Total(new.plan) + Total(Lacks(With(paid[v], new.plan))) <= Total(Final)
      BY <2>6, <3>1, <3>2, <3>3, ShortFits
    <3> QED BY <2>10, <3>1, <3>3, <3>4 DEF PassOwn
  <2> QED BY <2>3, <2>4, <2>10, <2>11, <2>12 DEF new
<1> QED BY <1>1, <1>2, PassSource

\* Two passes at once have what they share noted, after a step.
ApartThen(a, b) ==
  /\ req'[a].pay = req'[b].pay => req'[a].pay \in shared'
  /\ target'[req'[a].pay] = target'[req'[b].pay] => target'[req'[a].pay] \in shared'

LEMMA StayApart ==
  ASSUME MoneyInv, NEW s \in Sessions, NextOf(s), NEW a \in Sessions, NEW b \in Sessions \ {s}, a # b,
         req'[a].pc = "allocate", req'[b].pc = "allocate"
  PROVE  ApartThen(a, b) /\ ApartThen(b, a)
<1>1. req'[b] = req[b] /\ shared \subseteq shared'
  BY RecordsStay, StepGrows DEF MoneyInv, MoneyGrows
<1>2. ASSUME NEW q \in Sessions, req[q].pc = "allocate"
      PROVE  req[q].pay \in Payments /\ payStatus[req[q].pay] # "none" /\ target'[req[q].pay] = target[req[q].pay]
  <2>1. req[q].pay \in Payments /\ payStatus[req[q].pay] # "none"
    BY <1>2 DEF MoneyInv, TypeInv, Placed
  <2> QED BY <2>1, TablesStep DEF TargetsStay, MoneyInv
<1>3. CASE req[a].pc = "allocate" /\ req'[a].pay = req[a].pay
  <2>1. /\ req[a].pay = req[b].pay => req[a].pay \in shared
        /\ target[req[a].pay] = target[req[b].pay] => target[req[a].pay] \in shared
    BY <1>1, <1>3 DEF MoneyInv, PassesApart
  <2> QED BY <1>1, <1>2, <1>3, <2>1 DEF ApartThen
<1>4. CASE a = s /\ PassBegun(s)
  <2>1. PICK p \in Payments :
          /\ req'[s].pay = p /\ payStatus[p] # "none" /\ target[p] \in Invoices
          /\ shared' = shared \cup {x \in {p, target[p]} :
                         \E q \in Sessions \ {s} : req[q].pc = "allocate" /\ x \in {req[q].pay, target[req[q].pay]}}
    BY <1>4 DEF PassBegun
  <2>2. target'[p] = target[p]
    BY <2>1, TablesStep DEF TargetsStay, MoneyInv
  <2>3. req[b].pc = "allocate"
    BY <1>1
  <2>4. target'[req[b].pay] = target[req[b].pay]
    BY <1>2, <2>3
  <2>5. p = req[b].pay => p \in shared'
    BY <2>1, <2>3
  <2>6. target[p] = target[req[b].pay] => target[p] \in shared'
    BY <2>1, <2>3
  <2> QED BY <1>1, <1>4, <2>1, <2>2, <2>4, <2>5, <2>6 DEF ApartThen
<1>5. CASE a # s
  BY <1>3, <1>5, RecordsStay DEF MoneyInv
<1> QED BY <1>3, <1>4, <1>5, PassSource

\* Passes that have ended have covered their invoice, after a step.
LEMMA StayCovered ==
  ASSUME MoneyInv, NEW s \in Sessions, NextOf(s), TypeInv', NEW v \in Invoices, Covered(paid[v])
  PROVE  Covered(paid'[v])
<1>1. paid[v] \in [Items -> Nat] /\ paid'[v] \in [Items -> Nat]
  BY DEF MoneyInv, TypeInv, TypeOK
<1>2. \A i \in Items : paid[v][i] <= paid'[v][i]
  BY StepGrows DEF MoneyGrows
<1> QED BY <1>1, <1>2, CoverStays

LEMMA EndedCovers ==
  ASSUME MoneyInv, NEW s \in Sessions, NextOf(s), TypeInv', NEW q \in Sessions, req'[q].pc \in {"settle", "finish"}
  PROVE  Covered(paid'[target'[req'[q].pay]])
<1>a. req \in [Sessions -> Requests] /\ req[s] \in Requests /\ req[q] \in Requests /\ Placed(req[s]) /\ Placed(req[q])
  BY DEF MoneyInv, TypeInv, TypeOK
<1>b. ASSUME NEW r \in Sessions, req'[r].pay = req[r].pay, req[r].pc \in {"allocate", "settle", "finish"}
      PROVE  target'[req'[r].pay] = target[req[r].pay] /\ target[req[r].pay] \in Invoices
  <2>1. req[r].pay \in Payments /\ payStatus[req[r].pay] # "none" /\ target[req[r].pay] \in Invoices
    BY <1>b DEF Placed, MoneyInv, TypeInv
  <2> QED BY <1>b, <2>1, TablesStep DEF TargetsStay, MoneyInv
<1>1. CASE q # s
  <2>1. req'[q] = req[q]
    BY <1>1, RecordsStay DEF MoneyInv
  <2>2. Covered(paid[target[req[q].pay]])
    BY <2>1 DEF MoneyInv, PassesCover
  <2> QED BY <1>b, <2>1, <2>2, StayCovered
<1>2. CASE q = s /\ SaveAllocations(s)
  <2>1. PICK was : req' = [req EXCEPT ![s] = [req[s] EXCEPT !.pc = "settle", !.saved = TRUE, !.was = was]]
    BY <1>2 DEF SaveAllocations
  <2>2. req'[s].pay = req[s].pay
    BY <1>a, <2>1 DEF Requests
  <2>3. req[s].pc = "allocate"
    BY <1>2 DEF SaveAllocations, ToSave, Allocated
  <2>4. Covered(paid'[target[req[s].pay]])
    BY <1>2, SaveCovers
  <2> QED BY <1>2, <1>b, <2>2, <2>3, <2>4
<1>3. CASE q = s /\ ReadTotal(s)
  <2>1. PICK total : req' = [req EXCEPT ![s] = [req[s] EXCEPT !.pc = "finish", !.total = total]]
    BY <1>3 DEF ReadTotal
  <2>2. req'[s].pay = req[s].pay
    BY <1>a, <2>1 DEF Requests
  <2>3. req[s].pc \in {"allocate", "settle"} /\ paid' = paid
    BY <1>3 DEF ReadTotal, Allocated, db
  <2>4. Covered(paid[target[req[s].pay]])
    <3>1. CASE req[s].pc = "settle"
      BY <3>1 DEF MoneyInv, PassesCover
    <3>2. CASE req[s].pc # "settle"
      <4>1. req[s].pc = "allocate" /\ req[s].item \notin Items /\ req[s].plan = NoItems
        BY <1>3, <3>2 DEF ReadTotal, ToSave, Allocated
      <4>2. PassFits(req[s], paid[target[req[s].pay]]) /\ paid[target[req[s].pay]] \in [Items -> Nat]
        BY <4>1, <1>a DEF MoneyInv, PassesFit, Placed, TypeInv, TypeOK
      <4>3. Covered(With(paid[target[req[s].pay]], req[s].plan))
        BY <1>a, <4>1, <4>2, PassEnds
      <4>4. With(paid[target[req[s].pay]], req[s].plan) = paid[target[req[s].pay]]
        BY <4>1, <4>2 DEF With, NoItems
      <4> QED BY <4>3, <4>4
    <3> QED BY <3>1, <3>2
  <2> QED BY <1>3, <1>b, <2>2, <2>3, <2>4
<1>4. CASE q = s /\ (PassBegun(s) \/ Aside(s) \/ AllocateItem(s) \/ FinishInvoice(s))
  <2>1. ASSUME AllocateItem(s) PROVE FALSE
    <3>1. PICK give : req' = [req EXCEPT ![s] = [req[s] EXCEPT !.item = req[s].item + 1, !.plan[req[s].item] = give,
                                                             !.left = req[s].left - give]]
      BY <2>1, AllocateFits DEF MoneyInv
    <3>2. req'[s].pc = req[s].pc /\ req[s].pc = "allocate"
      BY <2>1, <1>a, <3>1 DEF Requests, AllocateItem
    <3> QED BY <1>4, <3>2
  <2>2. ASSUME FinishInvoice(s) PROVE FALSE
    BY <1>4, <2>2, NotWorking DEF FinishInvoice, MoneyInv
  <2> QED BY <1>4, <2>1, <2>2 DEF PassBegun, Aside
<1> QED BY <1>1, <1>2, <1>3, <1>4, StepKinds DEF MoneyInv

\* Only payments of invoices are allocated, after a step.
LEMMA AimedAllocations ==
  ASSUME MoneyInv, NEW s \in Sessions, NextOf(s), TypeInv', NEW p \in Payments, allocated'[p] > 0
  PROVE  payStatus'[p] # "none" /\ target'[p] \in Invoices
<1>a. allocated \in [Payments -> Nat] /\ TargetsStay
  BY TablesStep DEF MoneyInv, TypeInv, TypeOK
<1>1. CASE allocated[p] > 0
  <2>1. payStatus[p] # "none" /\ target[p] \in Invoices
    BY <1>1 DEF MoneyInv, AllocationsAimed
  <2> QED BY <1>a, <2>1 DEF TargetsStay
<1>2. CASE ~ (allocated[p] > 0)
  <2>1. SaveAllocations(s)
    BY <1>2, NothingPaid
  <2>2. allocated' = [allocated EXCEPT ![req[s].pay] = @ + Total(req[s].plan)] /\ target[req[s].pay] \in Invoices
    BY <2>1, SaveCovers
  <2>3. p = req[s].pay
    BY <1>a, <1>2, <2>2
  <2>4. payStatus[p] # "none"
    BY <2>1, <2>3 DEF MoneyInv, TypeInv, Placed, SaveAllocations, ToSave, Allocated
  <2> QED BY <1>a, <2>2, <2>3, <2>4 DEF TargetsStay
<1> QED BY <1>1, <1>2

\* What a payment was allocated and what is open, after a step.
LEMMA SpendingStays ==
  ASSUME MoneyInv, NEW s \in Sessions, NextOf(s), TypeInv', NEW p \in Payments, p \notin shared',
         target'[p] \in Invoices
  PROVE  allocated'[p] + Total(Lacks(paid'[target'[p]])) <= Total(Final)
<1>a. /\ paid \in [Invoices -> [Items -> Nat]] /\ allocated \in [Payments -> Nat]
      /\ paid' \in [Invoices -> [Items -> Nat]] /\ allocated' \in [Payments -> Nat]
  BY DEF MoneyInv, TypeInv, TypeOK
<1>b. /\ shared \subseteq shared' /\ TargetsStay
      /\ \A v \in Invoices, i \in Items : paid[v][i] <= paid'[v][i]
  BY StepGrows, TablesStep DEF MoneyGrows, MoneyInv
<1>1. CASE allocated'[p] = 0
  BY <1>1, <1>a, LacksFit
<1>2. CASE SaveAllocations(s) /\ p = req[s].pay
  <2>1. allocated'[p] + Total(Lacks(paid'[target[p]])) <= Total(Final) /\ p \in Payments
    BY <1>2, <1>b, SaveCovers
  <2>2. payStatus[p] # "none"
    BY <1>2 DEF MoneyInv, TypeInv, Placed, SaveAllocations, ToSave, Allocated
  <2> QED BY <1>b, <2>1, <2>2 DEF TargetsStay
<1>3. CASE allocated'[p] # 0 /\ ~ (SaveAllocations(s) /\ p = req[s].pay)
  <2>1. allocated'[p] = allocated[p]
    <3>1. CASE ~ SaveAllocations(s)
      BY <3>1, NothingPaid
    <3>2. CASE SaveAllocations(s)
      <4>1. allocated' = [allocated EXCEPT ![req[s].pay] = @ + Total(req[s].plan)]
        BY <3>2, SaveCovers
      <4> QED BY <1>3, <1>a, <3>2, <4>1
    <3> QED BY <3>1, <3>2
  <2>2. payStatus[p] # "none" /\ target[p] \in Invoices
    <3>1. allocated[p] > 0
      BY <1>3, <1>a, <2>1
    <3> QED BY <3>1 DEF MoneyInv, AllocationsAimed
  <2>3. target'[p] = target[p]
    BY <1>b, <2>2 DEF TargetsStay
  <2>4. allocated[p] + Total(Lacks(paid[target[p]])) <= Total(Final)
    BY <1>b, <2>2 DEF MoneyInv, SpendingFits, Open
  <2>5. PICK f, g : f = paid[target[p]] /\ g = paid'[target[p]]
    OBVIOUS
  <2>6. f \in [Items -> Nat] /\ g \in [Items -> Nat] /\ \A i \in Items : f[i] <= g[i]
    BY <1>a, <1>b, <2>2, <2>5
  <2>7. Total(Lacks(g)) <= Total(Lacks(f)) /\ Total(Lacks(g)) \in Nat /\ Total(Lacks(f)) \in Nat
    BY <2>6, LacksShrink, LacksFit
  <2> QED BY <1>a, <2>1, <2>3, <2>4, <2>5, <2>7, ShortFits
<1> QED BY <1>1, <1>2, <1>3

\* No item gets too much, after a step of a session.
LEMMA PaidFits ==
  ASSUME MoneyInv, NEW s \in Sessions, NextOf(s), TypeInv'
  PROVE  NoOverAllocation'
<1>a. paid \in [Invoices -> [Items -> Nat]] /\ shared \subseteq shared'
  BY StepGrows DEF MoneyInv, TypeInv, TypeOK, MoneyGrows
<1>1. CASE ~ SaveAllocations(s)
  BY <1>1, <1>a, NothingPaid DEF MoneyInv, NoOverAllocation
<1>2. CASE SaveAllocations(s)
  <2> DEFINE v == target[req[s].pay]
  <2>1. /\ v \in Invoices
        /\ paid' = [paid EXCEPT ![v] = [i \in Items |-> paid[v][i] + req[s].plan[i]]]
        /\ v \notin shared => \A i \in Items : paid'[v][i] <= Final[i]
    BY <1>2, SaveCovers
  <2> HIDE DEF v
  <2>2. ASSUME NEW u \in Invoices \ shared', NEW i \in Items PROVE paid'[u][i] <= Final[i]
    <3>1. paid[u][i] <= Final[i]
      BY <1>a, <2>2 DEF MoneyInv, NoOverAllocation
    <3>2. CASE u # v
      BY <1>a, <2>1, <3>1, <3>2
    <3>3. CASE u = v
      BY <1>a, <2>1, <2>2, <3>3
    <3> QED BY <3>2, <3>3
  <2> QED BY <2>2 DEF NoOverAllocation
<1> QED BY <1>1, <1>2

LEMMA CapturedFits ==
  ASSUME MoneyInv, NEW s \in Sessions, NextOf(s), TypeInv', NEW p \in Payments,
         payStatus'[p] = "captured", target'[p] \in Invoices
  PROVE  Covered(paid'[target'[p]])
<1>a. payStatus \in [Payments -> PaymentStatuses \cup {"none"}] /\ TargetsStay /\ Invoices \cap Orders = {}
  BY TablesStep, PaymentAssumption DEF MoneyInv, TypeInv, TypeOK
<1>b. Placed(req[s])
  BY DEF MoneyInv, TypeInv
<1>1. CASE payStatus[p] = "captured"
  <2>1. target'[p] = target[p]
    BY <1>1, <1>a DEF TargetsStay
  <2>2. Covered(paid[target[p]])
    BY <1>1, <2>1 DEF MoneyInv, CapturedPaysInvoice, Covered, Open
  <2> QED BY <2>1, <2>2, StayCovered
<1>2. CASE payStatus[p] # "captured"
  <2>1. ASSUME PassBegun(s) \/ AllocateItem(s) \/ ReadTotal(s) PROVE FALSE
    BY <1>2, <2>1 DEF PassBegun, AllocateItem, ReadTotal, db
  <2>2. ASSUME Aside(s) PROVE FALSE
    <3>1. payStatus[p] # "none" /\ target[p] \in Orders
      BY <1>2, <2>2 DEF Aside
    <3> QED BY <1>a, <3>1 DEF TargetsStay
  <2>3. CASE SaveAllocations(s)
    <3>1. p = req[s].pay
      BY <1>2, <1>a, <2>3 DEF SaveAllocations, Write
    <3>2. Covered(paid'[target[p]])
      BY <2>3, <3>1, SaveCovers
    <3>3. payStatus[p] # "none"
      BY <2>3, <1>b, <3>1 DEF Placed, SaveAllocations, ToSave, Allocated
    <3> QED BY <1>a, <3>2, <3>3 DEF TargetsStay
  <2>4. CASE FinishInvoice(s)
    <3>1. p = req[s].pay
      BY <1>2, <1>a, <2>4 DEF FinishInvoice, Write
    <3>2. Covered(paid[target[p]])
      BY <2>4, <3>1 DEF MoneyInv, PassesCover, FinishInvoice
    <3>3. payStatus[p] # "none"
      BY <2>4, <1>b, <3>1 DEF Placed, FinishInvoice
    <3>4. target'[p] = target[p]
      BY <1>a, <3>3 DEF TargetsStay
    <3> QED BY <3>2, <3>4, StayCovered
  <2> QED BY <2>1, <2>2, <2>3, <2>4, StepKinds DEF MoneyInv
<1> QED BY <1>1, <1>2

LEMMA MoneyStep == MoneyInv /\ [Next]_vars => MoneyInv'
<1> SUFFICES ASSUME MoneyInv, [Next]_vars PROVE MoneyInv'
  OBVIOUS
<1>a. TypeInv'
  BY TypeStep DEF MoneyInv
<1>1. ASSUME UNCHANGED <<payStatus, target, paid, allocated, req, shared>> PROVE MoneyInv'
  BY <1>1, <1>a DEF MoneyInv, PassesFit, PassesApart, PassesCover, AllocationsAimed,
                    SpendingFits, NoOverAllocation, CapturedPaysInvoice, Open
<1>2. ASSUME NEW s \in Sessions, NextOf(s) PROVE MoneyInv'
  <2>1. PassesFit'
    <3>1. ASSUME NEW q \in Sessions, req'[q].pc = "allocate"
          PROVE  LET v == target'[req'[q].pay] IN
                 PassFits(req'[q], paid'[v]) /\ PassOwn(req'[q], paid'[v], allocated'[req'[q].pay], v, shared')
      <4>1. CASE q = s
        BY <1>2, <1>a, <3>1, <4>1, OwnFits
      <4>2. CASE q # s
        <5>1. req'[q] = req[q]
          BY <1>2, <4>2, RecordsStay DEF MoneyInv
        <5> QED BY <1>2, <1>a, <3>1, <4>2, <5>1, OthersFit
      <4> QED BY <4>1, <4>2
    <3> QED BY <3>1 DEF PassesFit, PassFits, PassOwn
  <2>2. PassesApart'
    <3>1. ASSUME NEW a \in Sessions, NEW b \in Sessions, a # b, req'[a].pc = "allocate", req'[b].pc = "allocate"
          PROVE  ApartThen(a, b)
      BY <1>2, <3>1, StayApart
    <3> QED BY <3>1 DEF PassesApart, ApartThen
  <2>3. PassesCover'
    <3>1. \A q \in Sessions : req'[q].pc \in {"settle", "finish"} => Covered(paid'[target'[req'[q].pay]])
      BY <1>2, <1>a, EndedCovers
    <3> QED BY <3>1 DEF PassesCover, Covered
  <2>4. NoOverAllocation' /\ AllocationsAimed'
    BY <1>2, <1>a, PaidFits, AimedAllocations DEF AllocationsAimed
  <2>6. SpendingFits'
    BY <1>2, <1>a, SpendingStays DEF SpendingFits, Open
  <2>5. CapturedPaysInvoice'
    <3>1. \A p \in Payments : payStatus'[p] = "captured" /\ target'[p] \in Invoices => Covered(paid'[target'[p]])
      BY <1>2, <1>a, CapturedFits
    <3> QED BY <3>1 DEF CapturedPaysInvoice, Covered, Open
  <2> QED BY <1>a, <2>1, <2>2, <2>3, <2>4, <2>5, <2>6 DEF MoneyInv
<1>3. ASSUME \/ \E p \in Payments : GatewayCaptures(p)
             \/ \E o \in Orders, to \in Statuses : MoveOrder(o, to)
             \/ UNCHANGED vars
      PROVE  MoneyInv'
  <2>1. UNCHANGED <<payStatus, target, paid, allocated, req, shared>>
    BY <1>3 DEF GatewayCaptures, MoveOrder, db, history, vars
  <2> QED BY <1>1, <2>1
<1> QED BY <1>2, <1>3 DEF Next

LEMMA MoneyInitial == Init => MoneyInv
<1> SUFFICES ASSUME Init PROVE MoneyInv
  OBVIOUS
<1>1. \A s \in Sessions : req[s].pc = "idle"
  BY DEF Init, Blank
<1>2. AllocationsAimed /\ SpendingFits
  BY PaymentAssumption DEF Init, AllocationsAimed, SpendingFits
<1>3. NoOverAllocation
  <2>1. \A i \in Items : NoItems[i] <= Final[i]
    BY ItemsFinite DEF NoItems
  <2> QED BY <2>1 DEF Init, NoOverAllocation
<1>4. CapturedPaysInvoice
  BY DEF Init, CapturedPaysInvoice
<1> QED BY <1>1, <1>2, <1>3, <1>4, TypeInitial DEF MoneyInv, PassesFit, PassesApart, PassesCover

LEMMA MoneyAlways == Spec => []MoneyInv
BY MoneyInitial, MoneyStep, PTL DEF Spec

\* TypeOK: the tables and the sessions hold what they can hold; an amount that
\* is left over or read is never below nothing.
THEOREM TypesCorrect == Spec => []TypeOK
<1>1. MoneyInv => TypeOK
  BY DEF MoneyInv, TypeInv
<1> QED BY <1>1, MoneyAlways, PTL

\* SpentOnce: no payment is allocated twice (allocate_payment_to_invoice_items)
\* unless two sessions allocate it at once; a pass that is repeated after a
\* failure gives at most what was open.
THEOREM SpentCorrect == Spec => []SpentOnce
<1>1. ASSUME MoneyInv PROVE SpentOnce
  <2> SUFFICES ASSUME NEW p \in Payments \ shared PROVE allocated[p] <= Total(Final)
    BY DEF SpentOnce
  <2>1. allocated[p] \in Nat /\ paid \in [Invoices -> [Items -> Nat]]
    BY <1>1 DEF MoneyInv, TypeInv, TypeOK
  <2>2. CASE allocated[p] = 0
    BY <2>2, ShortFits
  <2>3. CASE allocated[p] > 0
    <3>1. target[p] \in Invoices
      BY <1>1, <2>3 DEF MoneyInv, AllocationsAimed
    <3>2. allocated[p] + Total(Lacks(paid[target[p]])) <= Total(Final)
      BY <1>1, <3>1 DEF MoneyInv, SpendingFits, Open
    <3>3. Total(Lacks(paid[target[p]])) \in Nat
      BY <2>1, <3>1, LacksFit
    <3> QED BY <2>1, <3>2, <3>3, ShortFits
  <2> QED BY <2>1, <2>2, <2>3
<1>2. MoneyInv => SpentOnce
  BY <1>1
<1> QED BY <1>2, MoneyAlways, PTL

\* NoOverAllocation: no item of an invoice gets more than its final amount
\* unless two sessions allocate to the invoice at once.
THEOREM AllocationsFit == Spec => []NoOverAllocation
<1>1. MoneyInv => NoOverAllocation
  BY DEF MoneyInv
<1> QED BY <1>1, MoneyAlways, PTL

\* CapturedPaysInvoice: a payment that counts as captured leaves no more open on
\* its invoice than the rounding of amount_due takes, for any prices and any
\* amount, whichever flow captured it, shared or not.
THEOREM CapturedPays == Spec => []CapturedPaysInvoice
<1>1. MoneyInv => CapturedPaysInvoice
  BY DEF MoneyInv
<1> QED BY <1>1, MoneyAlways, PTL
=============================================================================
