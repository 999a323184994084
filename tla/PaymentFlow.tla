----------------------------- MODULE PaymentFlow ------------------------------
(***************************************************************************)
(* Payments of SchoolOS through the Razorpay gateway.  A payment is begun   *)
(* for an invoice or an order, the money is captured at the gateway, and    *)
(* four flows may learn of it, each in a database session of its own:       *)
(*   verify   the browser comes back with a signature (verify_payment),     *)
(*   webhook  the gateway calls, once or many times (handle_webhook_event), *)
(*   sweep    staff reconcile pending payments (reconcile_pending_payments), *)
(*   retry    staff repeat an allocation that failed (retry_allocation).     *)
(* All of them end in allocate_payment_to_invoice_items or in the order.     *)
(*                                                                         *)
(* verify and webhook lock the payment row before they read it; sweep and    *)
(* retry do not.  The allocation commits halfway, which frees that lock.     *)
(* A write made by commit waits for the row lock of another session.         *)
(*                                                                         *)
(* Every payment is for amount_due of its invoice, as initiate_payment sets   *)
(* it, and not for what the items of the invoice add up to: amount_due is    *)
(* rounded once, each item by itself (module Fees, InvoiceAddsUp).           *)
(* Ages, receipts and methods are left out; who may call what is decided     *)
(* before any of this.                                                       *)
(***************************************************************************)
EXTENDS Integers, Sequences, Functions, OrderStatuses

CONSTANTS Sessions,          \* database sessions, one per request or sweep in flight
          Payments,          \* payment rows; each has one order at the gateway
          Invoices, Orders,  \* what a payment is for
          Final,             \* final_amount of the items of an invoice, in id order
          Amount,            \* amount_paid of a payment: amount_due of its invoice
          None

ASSUME PaymentAssumption ==
  /\ Final \in Seq(Nat) /\ Amount \in Nat
  /\ None \notin Nat \cup Sessions \cup Payments \cup Invoices \cup Orders
  /\ Invoices \cap Orders = {} /\ Payments \cap (Invoices \cup Orders) = {}

Items == DOMAIN Final
Total(f) == FoldFunction(+, 0, f)

VARIABLES payStatus,   \* payments.status, "none" when there is no such payment
          target,      \* the invoice or order of a payment
          payLock,     \* the session that holds FOR UPDATE on the payment row
          paid,        \* paid[v][i]: sum of payment_allocations of item i of invoice v
          allocated,   \* allocated[p]: sum of payment_allocations of payment p
          amountPaid,  \* invoices.amount_paid
          orderStatus, \* orders.status
          event,       \* status of the webhook event row of a payment, "none" without a row
          gateway,     \* payments whose money the gateway has captured
          req,         \* what each session has read and where it is
          stale,       \* history: payments whose status was written over an unseen change
          shared       \* history: payments and invoices that two sessions allocated at once

db == <<payStatus, target, payLock, paid, allocated, amountPaid, orderStatus, event>>
history == <<stale, shared>>
vars == <<db, gateway, req, history>>

-----------------------------------------------------------------------------
(* Sessions. *)

PaymentStatuses == {"pending", "captured", "failed", "captured_allocation_failed"}
Captured == {"captured", "captured_allocation_failed"}
Flows == {"verify", "webhook", "sweep", "retry"}
NoItems == [i \in Items |-> 0]
NotLoaded == [v \in Invoices |-> None]

Blank == [pc |-> "idle", flow |-> "none", pay |-> None, was |-> "none", item |-> 0, left |-> 0,
          plan |-> NoItems, loaded |-> NotLoaded, total |-> 0, saved |-> FALSE, seen |-> "none", batch |-> {}]

Working == {"allocate", "settle", "finish", "order", "order commit"}

Requests ==
  [pc : Working \cup {"idle", "webhook", "record", "mark", "sweep", "reject"},
   flow : Flows \cup {"none"}, pay : Payments \cup {None},
   was : PaymentStatuses \cup {"none"},  \* status of the payment as this session knows it
   item : Nat, left : Nat,               \* next item, and money still to allocate
   plan : [Items -> Nat],                \* allocations of this pass
   loaded : [Invoices -> Nat \cup {None}], \* amount_paid of the invoices it has loaded
   total : Nat,                          \* amount_paid that this pass has computed
   saved : BOOLEAN,                      \* the pass has committed halfway
   seen : Statuses \cup {"none"},        \* order status as it was loaded
   batch : SUBSET Payments]              \* pending payments the sweep still has to look at

Writable(s, p) == payLock[p] \in {None, s}
Release(s) == payLock' = [p \in Payments |-> IF payLock[p] = s THEN None ELSE payLock[p]]

\* The transaction is over and the session is returned.
End(s) == req' = [req EXCEPT ![s] = Blank] /\ Release(s)

\* The payment is dealt with.  A sweep goes on to its next one and keeps the
\* invoices it has loaded, for the ORM does not load them again.
Return(s, loaded) ==
  /\ req' = [req EXCEPT ![s] =
               IF req[s].batch = {} THEN Blank
               ELSE [Blank EXCEPT !.pc = "sweep", !.flow = "sweep", !.batch = req[s].batch,
                                  !.loaded = loaded]]
  /\ Release(s)

\* The loop over the items has ended: is there an allocation to commit?
Allocated(s) == req[s].pc = "allocate" /\ req[s].item \notin Items
ToSave(s) == Allocated(s) /\ req[s].plan # NoItems

\* A commit that writes the status of p, whatever the row holds by now.
Write(s, p, new) ==
  /\ payStatus' = [payStatus EXCEPT ![p] = new]
  /\ stale' = IF payStatus[p] = req[s].was THEN stale ELSE stale \cup {p}

\* Session s turns to what payment p is for.
Begin(s, flow, p, was) ==
  LET t == target[p]
      loaded == req[s].loaded
      others == {r \in Sessions \ {s} : req[r].pc = "allocate"}
  IN
  /\ req' = [req EXCEPT ![s] =
               [Blank EXCEPT !.pc = IF t \in Invoices THEN "allocate"
                                   ELSE IF flow = "sweep" THEN "order commit" ELSE "order",
                             !.flow = flow, !.pay = p, !.was = was, !.item = 1, !.left = Amount,
                             !.loaded = [v \in Invoices |-> IF v = t /\ loaded[v] = None
                                                            THEN amountPaid[v] ELSE loaded[v]],
                             !.batch = req[s].batch \ {p}]]
  /\ shared' = shared \cup {x \in {p, t} : \E r \in others : x \in {req[r].pay, target[req[r].pay]}}

Init == /\ payStatus = [p \in Payments |-> "none"]
        /\ target = [p \in Payments |-> None]
        /\ payLock = [p \in Payments |-> None]
        /\ paid = [v \in Invoices |-> NoItems]
        /\ allocated = [p \in Payments |-> 0]
        /\ amountPaid = [v \in Invoices |-> 0]
        /\ orderStatus = [o \in Orders |-> "pending_payment"]
        /\ event = [p \in Payments |-> "none"]
        /\ gateway = {}
        /\ req = [s \in Sessions |-> Blank]
        /\ stale = {}
        /\ shared = {}
-----------------------------------------------------------------------------
(* The customer, the gateway and the staff.                                *)

\* initiate_payment asks nothing about the target: not whether it is paid,
\* nor whether another payment for it is under way.
InitiatePayment(s, p, t) ==
  /\ req[s].pc = "idle"
  /\ payStatus[p] = "none"
  /\ payStatus' = [payStatus EXCEPT ![p] = "pending"]
  /\ target' = [target EXCEPT ![p] = t]
  /\ UNCHANGED <<payLock, paid, allocated, amountPaid, orderStatus, event, gateway, req, history>>

GatewayCaptures(p) ==
  /\ payStatus[p] # "none" /\ p \notin gateway
  /\ gateway' = gateway \cup {p}
  /\ UNCHANGED <<db, req, history>>

\* update_order and cancel_order (module OrderStore has them in full).
MoveOrder(o, to) ==
  /\ to \in validTransitions[orderStatus[o]]
  /\ orderStatus' = [orderStatus EXCEPT ![o] = to]
  /\ UNCHANGED <<payStatus, target, payLock, paid, allocated, amountPaid, event, gateway, req, history>>

-----------------------------------------------------------------------------
(* verify_payment.  The row is locked by its first read.                   *)

VerifyLock(s, p) ==
  /\ req[s].pc = "idle"
  /\ payLock[p] = None /\ payStatus[p] = "pending"
  /\ p \in gateway     \* only then is there a valid signature
  /\ payLock' = [payLock EXCEPT ![p] = s]
  /\ Begin(s, "verify", p, "pending")
  /\ UNCHANGED <<payStatus, target, paid, allocated, amountPaid, orderStatus, event, gateway, stale>>

\* Mutant: the signature is checked before the status of the payment is.
VerifyBadSignatureFirst(s, p) ==
  /\ req[s].pc = "idle"
  /\ payLock[p] = None /\ payStatus[p] # "none"
  /\ payStatus' = [payStatus EXCEPT ![p] = "failed"]
  /\ UNCHANGED <<target, payLock, paid, allocated, amountPaid, orderStatus, event, gateway, req, history>>

VerifyBadSignature(s, p) ==
  /\ req[s].pc = "idle"
  /\ payLock[p] = None /\ payStatus[p] = "pending"
  /\ payStatus' = [payStatus EXCEPT ![p] = "failed"]
  /\ UNCHANGED <<target, payLock, paid, allocated, amountPaid, orderStatus, event, gateway, req, history>>

-----------------------------------------------------------------------------
(* handle_webhook_event.  A call for an event that has a row returns at     *)
(* once; the row of a new event is only written by a later commit.  Anybody  *)
(* may call: whether the gateway has signed the call is only found out when  *)
(* the payment is locked.  An unsigned call may name the event that a signed *)
(* one has; a call that names no payment leaves a row no payment shares.     *)

WebhookNew(s, p) ==
  /\ req[s].pc = "idle"
  /\ payStatus[p] # "none" /\ event[p] = "none"
  /\ req' = [req EXCEPT ![s] = [Blank EXCEPT !.pc = "webhook", !.flow = "webhook", !.pay = p]]
  /\ UNCHANGED <<db, gateway, history>>

\* Mutant: the webhook reads the payment without with_for_update.
WebhookLockNone(s) ==
  LET p == req[s].pay IN
  /\ req[s].pc = "webhook"
  /\ p \in gateway
  /\ \/ /\ payStatus[p] = "captured"
        /\ req' = [req EXCEPT ![s].pc = "record"]
        /\ UNCHANGED shared
     \/ /\ payStatus[p] # "captured"
        /\ Begin(s, "webhook", p, payStatus[p])
  /\ UNCHANGED <<payStatus, target, payLock, paid, allocated, amountPaid, orderStatus, event, gateway, stale>>

\* Mutant: the signature of the call is not verified.
WebhookLockUnsigned(s) ==
  LET p == req[s].pay IN
  /\ req[s].pc = "webhook"
  /\ payLock[p] = None
  /\ payLock' = [payLock EXCEPT ![p] = s]
  /\ \/ /\ payStatus[p] = "captured"
        /\ req' = [req EXCEPT ![s].pc = "record"]
        /\ UNCHANGED shared
     \/ /\ payStatus[p] # "captured"
        /\ Begin(s, "webhook", p, payStatus[p])
  /\ UNCHANGED <<payStatus, target, paid, allocated, amountPaid, orderStatus, event, gateway, stale>>

\* The lock also shows the row as it is now.  Whatever is not captured is
\* captured and allocated, a failed payment included.
WebhookLock(s) ==
  LET p == req[s].pay IN
  /\ req[s].pc = "webhook"
  /\ payLock[p] = None
  /\ p \in gateway     \* only then has the gateway signed the call
  /\ payLock' = [payLock EXCEPT ![p] = s]
  /\ \/ /\ payStatus[p] = "captured"
        /\ req' = [req EXCEPT ![s].pc = "record"]
        /\ UNCHANGED shared
     \/ /\ payStatus[p] # "captured"
        /\ Begin(s, "webhook", p, payStatus[p])
  /\ UNCHANGED <<payStatus, target, paid, allocated, amountPaid, orderStatus, event, gateway, stale>>

\* A signature that does not match the school's secret: the event row is
\* committed, then marked failed by the handler that catches the HTTP 400.  If
\* another call has written that row, the commit fails and the mark will, too.
WebhookBadSignature(s) ==
  LET p == req[s].pay IN
  /\ req[s].pc = "webhook"
  /\ payLock[p] = None
  /\ event' = [event EXCEPT ![p] = IF @ = "none" THEN "received" ELSE @]
  /\ req' = [req EXCEPT ![s] = [@ EXCEPT !.pc = "mark", !.saved = event[p] = "none"]]
  /\ UNCHANGED <<payStatus, target, payLock, paid, allocated, amountPaid, orderStatus, gateway, history>>

\* Nothing was left to do: get_db commits the event row, or fails because a
\* second delivery has inserted it.
WebhookRecord(s) ==
  LET p == req[s].pay IN
  /\ req[s].pc = "record"
  /\ event' = [event EXCEPT ![p] = IF @ = "none" THEN "processed" ELSE @]
  /\ End(s)
  /\ UNCHANGED <<payStatus, target, paid, allocated, amountPaid, orderStatus, gateway, history>>

\* event_id is unique: a session that has not yet written the row finds it
\* written by another delivery, and its transaction fails.
WebhookDuplicate(s) ==
  /\ req[s].flow = "webhook" /\ ~ req[s].saved /\ event[req[s].pay] # "none"
  /\ \/ /\ ToSave(s)
        /\ req' = [req EXCEPT ![s].pc = "mark"]
        /\ Release(s)
     \/ /\ req[s].pc \in {"finish", "order commit"}
        /\ End(s)
  /\ UNCHANGED <<payStatus, target, paid, allocated, amountPaid, orderStatus, event, gateway, history>>

\* The row of a new event is written by the next commit of s, or was before.
EventFree(s) == req[s].flow = "webhook" /\ ~ req[s].saved => event[req[s].pay] = "none"

-----------------------------------------------------------------------------
(* allocate_payment_to_invoice_items.                                      *)

\* Mutant: what earlier payments have paid on the item is not subtracted.
AllocateItemWhole(s) ==
  LET r == req[s]
      give == IF Final[r.item] < r.left THEN Final[r.item] ELSE r.left
  IN
  /\ r.pc = "allocate" /\ r.item \in Items
  /\ req' = [req EXCEPT ![s] = [@ EXCEPT !.item = r.item + 1, !.plan[r.item] = give, !.left = r.left - give]]
  /\ UNCHANGED <<db, gateway, history>>

\* Mutant: an item that still needs something takes all that is left.
AllocateItemAll(s) ==
  LET r == req[s]
      give == IF Final[r.item] <= paid[target[r.pay]][r.item] THEN 0 ELSE r.left
  IN
  /\ r.pc = "allocate" /\ r.item \in Items
  /\ req' = [req EXCEPT ![s] = [@ EXCEPT !.item = r.item + 1, !.plan[r.item] = give, !.left = r.left - give]]
  /\ UNCHANGED <<db, gateway, history>>

\* Mutant: an item that is paid more than in full is not skipped.
AllocateItemSigned(s) ==
  LET r == req[s]
      need == Final[r.item] - paid[target[r.pay]][r.item]
      give == IF need < r.left THEN need ELSE r.left
  IN
  /\ r.pc = "allocate" /\ r.item \in Items
  /\ req' = [req EXCEPT ![s] = [@ EXCEPT !.item = r.item + 1, !.plan[r.item] = give, !.left = r.left - give]]
  /\ UNCHANGED <<db, gateway, history>>

\* What is already paid on the next item is read, without a lock, and the
\* rest of the item is taken from what is left of the payment.
AllocateItem(s) ==
  LET r == req[s]
      need == Final[r.item] - paid[target[r.pay]][r.item]
      give == IF need <= 0 THEN 0 ELSE IF need < r.left THEN need ELSE r.left
  IN
  /\ r.pc = "allocate" /\ r.item \in Items
  /\ req' = [req EXCEPT ![s] = [@ EXCEPT !.item = r.item + 1, !.plan[r.item] = give, !.left = r.left - give]]
  /\ UNCHANGED <<db, gateway, history>>

\* The commit in the middle: the allocations, the status the caller has set
\* and a webhook's event row are saved, and the payment row is unlocked.
SaveAllocations(s) ==
  LET p == req[s].pay
      v == target[p]
      plan == req[s].plan
      retry == req[s].flow = "retry"
  IN
  /\ ToSave(s)
  /\ Writable(s, p) /\ EventFree(s)
  /\ paid' = [paid EXCEPT ![v] = [i \in Items |-> @[i] + plan[i]]]
  /\ allocated' = [allocated EXCEPT ![p] = @ + Total(plan)]
  /\ event' = IF req[s].flow = "webhook" THEN [event EXCEPT ![p] = "received"] ELSE event
  /\ IF retry THEN UNCHANGED <<payStatus, stale>> ELSE Write(s, p, "captured")
  /\ Release(s)
  /\ req' = [req EXCEPT ![s] = [@ EXCEPT !.pc = "settle", !.saved = TRUE,
                                         !.was = IF retry THEN req[s].was ELSE "captured"]]
  /\ UNCHANGED <<target, amountPaid, orderStatus, gateway, shared>>

\* The new total of the invoice: the sum of its allocations, in which those
\* just saved are included, plus what this pass has allocated.
ReadTotal(s) ==
  LET r == req[s] IN
  /\ r.pc = "settle" \/ (Allocated(s) /\ ~ ToSave(s))
  /\ req' = [req EXCEPT ![s] = [@ EXCEPT !.pc = "finish",
                                         !.total = Total(paid[target[r.pay]]) + Amount - r.left]]
  /\ UNCHANGED <<db, gateway, history>>

\* The caller's commit.  The ORM writes only what differs from what it loaded.
FinishInvoice(s) ==
  LET r == req[s]
      p == r.pay
      v == target[p]
  IN
  /\ r.pc = "finish"
  /\ Writable(s, p) /\ EventFree(s)
  /\ amountPaid' = IF r.total = r.loaded[v] THEN amountPaid
                   ELSE [amountPaid EXCEPT ![v] = r.total]
  /\ event' = IF r.flow = "webhook" THEN [event EXCEPT ![p] = "processed"] ELSE event
  /\ IF r.saved /\ r.flow # "retry" THEN UNCHANGED <<payStatus, stale>> ELSE Write(s, p, "captured")
  /\ Return(s, [r.loaded EXCEPT ![v] = r.total])
  /\ UNCHANGED <<target, paid, allocated, orderStatus, gateway, shared>>

-----------------------------------------------------------------------------
(* A payment for an order.  verify and webhook read the order unlocked;    *)
(* the sweep sends UPDATE ... WHERE status = 'pending_payment'.             *)

ReadOrder(s) ==
  /\ req[s].pc = "order"
  /\ req' = [req EXCEPT ![s] = [@ EXCEPT !.pc = "order commit", !.seen = orderStatus[target[req[s].pay]]]]
  /\ UNCHANGED <<db, gateway, history>>

\* May session s move the order of its payment to processing?
MovesOrder(s) ==
  CASE req[s].flow = "verify"  -> req[s].seen = "pending_payment"
    [] req[s].flow = "webhook" -> req[s].seen # "processing"
    [] req[s].flow = "sweep"   -> orderStatus[target[req[s].pay]] = "pending_payment"
    [] OTHER                   -> FALSE

FinishOrder(s) ==
  LET p == req[s].pay IN
  /\ req[s].pc = "order commit"
  /\ Writable(s, p) /\ EventFree(s)
  /\ orderStatus' = IF MovesOrder(s) THEN [orderStatus EXCEPT ![target[p]] = "processing"] ELSE orderStatus
  /\ event' = IF req[s].flow = "webhook" THEN [event EXCEPT ![p] = "processed"] ELSE event
  /\ Write(s, p, "captured")
  /\ Return(s, req[s].loaded)
  /\ UNCHANGED <<target, paid, allocated, amountPaid, gateway, shared>>

-----------------------------------------------------------------------------
(* reconcile_pending_payments.  The batch is read once, unlocked; then the *)
(* gateway is asked about one payment after the other.                     *)

SweepRead(s) ==
  LET batch == {p \in Payments : payStatus[p] = "pending"} IN
  /\ req[s].pc = "idle"
  /\ batch # {}
  /\ req' = [req EXCEPT ![s] = [Blank EXCEPT !.pc = "sweep", !.flow = "sweep", !.batch = batch]]
  /\ UNCHANGED <<db, gateway, history>>

SweepCapture(s, p) ==
  /\ req[s].pc = "sweep" /\ p \in req[s].batch
  /\ p \in gateway
  /\ Begin(s, "sweep", p, "pending")
  /\ UNCHANGED <<db, gateway, stale>>

\* Every attempt has failed, or there was none for a day; or the gateway calls
\* the order paid and shows no captured payment, or answers a status that the
\* code does not know: then the gateway may well hold the money.
SweepReject(s, p) ==
  /\ req[s].pc = "sweep" /\ p \in req[s].batch
  /\ req' = [req EXCEPT ![s] = [@ EXCEPT !.pc = "reject", !.pay = p, !.was = "pending",
                                         !.batch = req[s].batch \ {p}]]
  /\ UNCHANGED <<db, gateway, history>>

SweepFail(s) ==
  LET p == req[s].pay IN
  /\ req[s].pc = "reject"
  /\ Writable(s, p)
  /\ Write(s, p, "failed")
  /\ Return(s, req[s].loaded)
  /\ UNCHANGED <<target, paid, allocated, amountPaid, orderStatus, event, gateway, shared>>

\* The order cannot be fetched, an attempt is under way, or the payment is too
\* young to be given up: the sweep leaves it pending.
SweepSkip(s, p) ==
  /\ req[s].pc = "sweep" /\ p \in req[s].batch
  /\ req' = [req EXCEPT ![s] = IF @.batch = {p} THEN Blank ELSE [@ EXCEPT !.batch = req[s].batch \ {p}]]
  /\ UNCHANGED <<db, gateway, history>>

-----------------------------------------------------------------------------
(* retry_allocation, and failures.                                         *)

RetryAllocation(s, p) ==
  /\ req[s].pc = "idle"
  /\ payStatus[p] = "captured_allocation_failed"
  /\ \/ /\ target[p] \in Invoices
        /\ Begin(s, "retry", p, "captured_allocation_failed")
     \/ /\ target[p] \in Orders
        /\ req' = [req EXCEPT ![s] = [Blank EXCEPT !.pc = "order commit", !.flow = "retry", !.pay = p,
                                                   !.was = "captured_allocation_failed"]]
        /\ UNCHANGED shared
  /\ UNCHANGED <<db, gateway, stale>>

\* A statement fails after the payment was found: rollback.  A retry gives up.
Fail(s) ==
  /\ req[s].pc \in Working \cup {"webhook"}
  /\ req' = [req EXCEPT ![s] =
               IF @.flow = "retry" THEN Blank
               ELSE [Blank EXCEPT !.pc = "mark", !.flow = req[s].flow, !.pay = req[s].pay,
                                  !.was = req[s].was, !.saved = req[s].saved]]
  /\ Release(s)
  /\ UNCHANGED <<payStatus, target, paid, allocated, amountPaid, orderStatus, event, gateway, history>>

\* Mutant: after the rollback the payment is saved as captured all the same.
MarkPaymentCaptured(s) ==
  LET p == req[s].pay IN
  /\ req[s].pc = "mark" /\ req[s].flow \in {"verify", "sweep"}
  /\ Writable(s, p)
  /\ Write(s, p, "captured")
  /\ End(s)
  /\ UNCHANGED <<target, paid, allocated, amountPaid, orderStatus, event, gateway, shared>>

\* Mutant: the sweep takes the payment up again at once when it has failed.
MarkPaymentAgain(s) ==
  LET p == req[s].pay IN
  /\ req[s].pc = "mark" /\ req[s].flow \in {"verify", "sweep"}
  /\ Writable(s, p)
  /\ Write(s, p, "captured_allocation_failed")
  /\ IF req[s].flow = "verify" THEN End(s)
     ELSE /\ req' = [req EXCEPT ![s] = [Blank EXCEPT !.pc = "sweep", !.flow = "sweep", !.batch = {p}]]
          /\ Release(s)
  /\ UNCHANGED <<target, paid, allocated, amountPaid, orderStatus, event, gateway, shared>>

\* A second transaction notes the failure.  The rollback has expired every
\* row the session holds, and the sweep dies on the next one it touches.
MarkPayment(s) ==
  LET p == req[s].pay IN
  /\ req[s].pc = "mark" /\ req[s].flow \in {"verify", "sweep"}
  /\ Writable(s, p)
  /\ Write(s, p, "captured_allocation_failed")
  /\ End(s)
  /\ UNCHANGED <<target, paid, allocated, amountPaid, orderStatus, event, gateway, shared>>

MarkEvent(s) ==
  LET p == req[s].pay IN
  /\ req[s].pc = "mark" /\ req[s].flow = "webhook"
  /\ event' = IF req[s].saved \/ event[p] = "none" THEN [event EXCEPT ![p] = "failed"] ELSE event
  /\ End(s)
  /\ UNCHANGED <<payStatus, target, paid, allocated, amountPaid, orderStatus, gateway, history>>

\* The process dies, or the connection is lost.
Crash(s) ==
  /\ req[s].pc # "idle"
  /\ End(s)
  /\ UNCHANGED <<payStatus, target, paid, allocated, amountPaid, orderStatus, event, gateway, history>>

NextOf(s) ==
  \/ \E p \in Payments, t \in Invoices \cup Orders : InitiatePayment(s, p, t)
  \/ \E p \in Payments : VerifyLock(s, p)
  \/ \E p \in Payments : VerifyBadSignature(s, p)
  \/ \E p \in Payments : WebhookNew(s, p)
  \/ WebhookLock(s)
  \/ WebhookBadSignature(s)
  \/ WebhookRecord(s)
  \/ WebhookDuplicate(s)
  \/ AllocateItem(s)
  \/ SaveAllocations(s)
  \/ ReadTotal(s)
  \/ FinishInvoice(s)
  \/ ReadOrder(s)
  \/ FinishOrder(s)
  \/ SweepRead(s)
  \/ \E p \in Payments : SweepCapture(s, p)
  \/ \E p \in Payments : SweepReject(s, p)
  \/ SweepFail(s)
  \/ \E p \in Payments : SweepSkip(s, p)
  \/ \E p \in Payments : RetryAllocation(s, p)
  \/ Fail(s)
  \/ MarkPayment(s)
  \/ MarkEvent(s)
  \/ Crash(s)

Next == \/ \E s \in Sessions : NextOf(s)
        \/ \E p \in Payments : GatewayCaptures(p)
        \/ \E o \in Orders, to \in Statuses : MoveOrder(o, to)

Spec == Init /\ [][Next]_vars

\* The next step of a request, whatever it is, unless the request fails.
Proceed(s) ==
  \/ WebhookLock(s) \/ WebhookBadSignature(s) \/ WebhookRecord(s) \/ WebhookDuplicate(s)
  \/ AllocateItem(s) \/ SaveAllocations(s) \/ ReadTotal(s) \/ FinishInvoice(s)
  \/ ReadOrder(s) \/ FinishOrder(s)
  \/ \E p \in Payments : SweepCapture(s, p) \/ SweepReject(s, p) \/ SweepSkip(s, p)
  \/ SweepFail(s) \/ MarkPayment(s) \/ MarkEvent(s)

\* A request goes on.  It may wait for a row that is locked and unlocked over
\* and over, hence the strong fairness: PostgreSQL hands the lock to those who
\* wait in the order in which they came.  Nobody has to pay, to come back from
\* the gateway, to sweep or to retry, the gateway need not call, its answers may
\* be any, and failures and crashes may strike for ever.
Fairness == \A s \in Sessions : SF_vars(Proceed(s))

FairSpec == Spec /\ Fairness

-----------------------------------------------------------------------------
(* What the flows promise together. *)

\* The variables hold what the tables and the sessions can hold.
TypeOK ==
  /\ payStatus \in [Payments -> PaymentStatuses \cup {"none"}]
  /\ target \in [Payments -> Invoices \cup Orders \cup {None}]
  /\ payLock \in [Payments -> Sessions \cup {None}]
  /\ paid \in [Invoices -> [Items -> Nat]]
  /\ allocated \in [Payments -> Nat]
  /\ amountPaid \in [Invoices -> Nat]
  /\ orderStatus \in [Orders -> Statuses]
  /\ event \in [Payments -> {"none", "received", "processed", "failed"}]
  /\ gateway \in SUBSET Payments
  /\ req \in [Sessions -> Requests]
  /\ stale \in SUBSET Payments
  /\ shared \in SUBSET (Payments \cup Invoices)

\* The row lock keeps verify and webhook apart: the two never work on the same
\* payment at once, from the first read to the commit that records its money.
LockedFlowsExclude ==
  \A s, r \in Sessions :
    /\ s # r /\ req[s].pay = req[r].pay
    /\ {req[s].flow, req[r].flow} \subseteq {"verify", "webhook"}
    => ~ (/\ req[s].pc \in {"allocate", "order", "order commit"}
          /\ req[r].pc \in {"allocate", "order", "order commit", "record"})

\* No flow invents money: a payment counts as captured, carries allocations or
\* has its event processed only when the gateway holds its money, whoever calls
\* the webhook with whatever signature.
CapturesArePaid ==
  \A p \in Payments :
    payStatus[p] \in Captured \/ allocated[p] > 0 \/ event[p] = "processed" => p \in gateway

\* A payment is spent once, however many flows learn of it and whatever fails
\* halfway, unless a sweep or a retry, which take no lock, allocated it while
\* another session did: it never covers more than the items of its invoice cost.
SpentOnce == \A p \in Payments \ shared : allocated[p] <= Total(Final)

\* No item of an invoice gets more than its final amount, through any number
\* of payments, unless two sessions allocated to the invoice at once.
NoOverAllocation == \A v \in Invoices \ shared, i \in Items : paid[v][i] <= Final[i]

\* What is captured is not lost: once money is allocated or its event is
\* processed, the payment stays captured, or marked for a retry, unless a
\* session wrote its status over a change it had not seen.
CapturedStays ==
  \A p \in Payments \ stale :
    allocated[p] > 0 \/ event[p] = "processed" => payStatus[p] \in Captured

\* What allocations of f leave open on each item, and on the items of invoice v.
Lacks(f) == [i \in Items |-> IF f[i] < Final[i] THEN Final[i] - f[i] ELSE 0]
Open(v) == Total(Lacks(paid[v]))

\* What a payment of amount_due cannot pay of the items: their rounding.
Short == IF Amount < Total(Final) THEN Total(Final) - Amount ELSE 0

\* A captured payment has paid its invoice: no more is open on the items than
\* their rounding, whichever flow captured it, after every failure, retry and
\* crash, shared or not.
CapturedPaysInvoice ==
  \A p \in Payments :
    payStatus[p] = "captured" /\ target[p] \in Invoices => Open(target[p]) <= Short

\* No request is stuck: whatever flows meet on the locks of a payment and on
\* its event row, and whatever fails, every request, delivery and sweep ends.
FlowsEnd == \A s \in Sessions : req[s].pc # "idle" ~> req[s].pc = "idle"

-----------------------------------------------------------------------------
(* What comments, documents and tests promise and the code does not keep.  *)

\* "After allocations are saved, calculate the new total paid on the invoice":
\* amount_paid is never more than the allocations of the invoice.
AmountPaidIsTotal == \A v \in Invoices : amountPaid[v] <= Total(paid[v])

\* "Guarantees single allocation per payment": no payment is spent twice.
SingleAllocation == \A p \in Payments : allocated[p] <= Amount

\* "Order status should remain 'cancelled' and not be changed": a flow that
\* finds the order of its payment cancelled leaves it so.
CancelledOrderRemains ==
  [][\A s \in Sessions :
       FinishOrder(s) /\ req[s].seen = "cancelled" => orderStatus'[target[req[s].pay]] = "cancelled"]_vars
=============================================================================
