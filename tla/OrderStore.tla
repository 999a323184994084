------------------------------ MODULE OrderStore ------------------------------
(***************************************************************************)
(* The e-commerce store of SchoolOS: products with a stock count, one cart *)
(* per parent, and orders.  Every HTTP request runs in a database session  *)
(* of its own under READ COMMITTED, so a request is a short program whose  *)
(* steps are its SELECTs and its final commit, interleaved with the steps  *)
(* of the other sessions.                                                  *)
(*                                                                         *)
(* The ORM decides what a request knows.  A session keeps the first copy   *)
(* it loads of a row (the identity map), and SELECT ... FOR UPDATE locks   *)
(* the row without refreshing that copy.  checkout and cancel load their   *)
(* products before they lock them, so req[s].seen below is what they        *)
(* compute with, whatever the row holds when the lock is granted.  Nothing *)
(* is written before commit (autoflush is off): a commit writes the rows    *)
(* the request changed, as absolute values, and frees its locks.           *)
(*                                                                         *)
(* Prices, names, delivery notes and the student/parent checks choose which *)
(* requests are refused before they touch any state, and are left out.     *)
(***************************************************************************)
EXTENDS Integers, FiniteSets, OrderStatuses

CONSTANTS Sessions,   \* database sessions, one per request in flight
          Users,      \* parents, each with one cart
          Products, OrderIds,
          MaxQty,     \* largest quantity one cart request names
          MaxCount,   \* bound: largest stock count staff enter
          MaxRows,    \* bound: cart rows inserted per user and product
          MaxAdjust,  \* bound: stock corrections
          None

ASSUME StoreAssumption ==
  /\ MaxQty \in Nat /\ MaxCount \in Nat /\ MaxRows \in Nat /\ MaxAdjust \in Nat
  /\ None \notin Sessions \cup Users \cup OrderIds

VARIABLES stock,     \* products.stock_quantity
          active,    \* products with is_active set
          cart,      \* cart[u][p]: quantity of the cart row, 0 when there is none
          rowId,     \* rowId[u][p]: id of the last row inserted for u and p
          status,    \* orders.status, "none" when there is no such order
          items,     \* items[o][p]: quantity of the order item
          rowLock,   \* the session that holds FOR UPDATE on the product row
          req,       \* what each session has read and where it is
          supply,    \* history: units staff say they put on the shelf
          adjusts,   \* history: stock corrections made
          stale,     \* history: products written from a row that had changed
          gone       \* history: cart rows a parent removed or an order took

db == <<stock, active, cart, rowId, status, items, rowLock>>
history == <<supply, adjusts, stale, gone>>
vars == <<db, req, history>>

-----------------------------------------------------------------------------
(* Requests.  A session with no request in flight is Idle. *)

NoLines == [p \in Products |-> 0]

Idle == [pc |-> "idle", user |-> None, order |-> None, was |-> "none", goal |-> "none",
         lines |-> NoLines, rows |-> NoLines, seen |-> NoLines, onSale |-> {}, todo |-> {}]

Steps == {"idle", "checkout read", "checkout lock", "cancel read", "cancel lock",
          "update", "adjust", "cart"}

Requests ==
  [pc : Steps, user : Users \cup {None}, order : OrderIds \cup {None},
   was : Statuses \cup {"none"}, goal : Statuses \cup {"none"},
   lines : [Products -> Nat],          \* cart or order lines it loaded, or the row to write
   rows : [Products -> 0 .. MaxRows],  \* ids of the cart rows it loaded
   seen : [Products -> Nat],           \* stock of the products it loaded
   onSale : SUBSET Products,           \* those of them that were active
   todo : SUBSET Products]             \* product rows still to be locked or written

\* The products of the request's cart or order lines.
Lines(s) == {p \in Products : req[s].lines[p] > 0}

\* The transaction ends: its locks are freed and the session is returned.
End(s) == /\ req' = [req EXCEPT ![s] = Idle]
          /\ rowLock' = [p \in Products |-> IF rowLock[p] = s THEN None ELSE rowLock[p]]

\* A row is written only when no other transaction has locked it.
Writable(s, p) == rowLock[p] \in {None, s}

Init == /\ stock \in [Products -> 0 .. MaxCount]
        /\ active \in SUBSET Products
        /\ cart = [u \in Users |-> NoLines]
        /\ rowId = [u \in Users |-> NoLines]
        /\ status = [o \in OrderIds |-> "none"]
        /\ items = [o \in OrderIds |-> NoLines]
        /\ rowLock = [p \in Products |-> None]
        /\ req = [s \in Sessions |-> Idle]
        /\ supply = stock
        /\ adjusts = 0
        /\ stale = {}
        /\ gone = {}

-----------------------------------------------------------------------------
(* Carts.  add_item_to_cart and update_item_quantity check the stock they  *)
(* read, unlocked, and write the row when they commit.                     *)

CartRead(s, u, p, n) ==
  /\ n <= stock[p]
  /\ cart[u][p] = 0 => rowId[u][p] < MaxRows
  /\ req' = [req EXCEPT ![s] =
               [Idle EXCEPT !.pc = "cart", !.user = u, !.lines[p] = n,
                            !.rows[p] = IF cart[u][p] > 0 THEN rowId[u][p] ELSE 0]]
  /\ UNCHANGED <<db, history>>

AddItemToCart(s, u, p, q) ==
  /\ req[s].pc = "idle"
  /\ p \in active
  /\ CartRead(s, u, p, cart[u][p] + q)

UpdateItemQuantity(s, u, p, q) ==
  /\ req[s].pc = "idle"
  /\ cart[u][p] > 0
  /\ CartRead(s, u, p, q)

\* Does the cart row that session s loaded still exist?
RowAlive(s, u, p) == cart[u][p] > 0 /\ rowId[u][p] = req[s].rows[p]

\* INSERT of a new row, or UPDATE of the loaded one.  The INSERT waits for a
\* product that is locked (its foreign key takes FOR KEY SHARE).  The request
\* fails (500) on the unique constraint, or when the row it loaded is gone.
CartCommit(s) ==
  LET u == req[s].user IN
  /\ req[s].pc = "cart"
  /\ \E p \in Lines(s) :
       \/ /\ req[s].rows[p] = 0 /\ cart[u][p] = 0
          /\ rowId[u][p] < MaxRows /\ Writable(s, p)
          /\ cart' = [cart EXCEPT ![u][p] = req[s].lines[p]]
          /\ rowId' = [rowId EXCEPT ![u][p] = @ + 1]
       \/ /\ req[s].rows[p] > 0 /\ RowAlive(s, u, p)
          /\ cart' = [cart EXCEPT ![u][p] = req[s].lines[p]]
          /\ UNCHANGED rowId
       \/ /\ ~ RowAlive(s, u, p)
          /\ req[s].rows[p] > 0 \/ cart[u][p] > 0 \/ rowId[u][p] = MaxRows
          /\ UNCHANGED <<cart, rowId>>
  /\ End(s)
  /\ UNCHANGED <<stock, active, status, items, history>>

\* Deleting a row that is already gone is not an error, so the load and the
\* DELETE of remove_item_from_cart and clear_cart are one step.
RemoveItems(s, u, ps) ==
  /\ req[s].pc = "idle"
  /\ \E p \in ps : cart[u][p] > 0
  /\ cart' = [cart EXCEPT ![u] = [p \in Products |-> IF p \in ps THEN 0 ELSE @[p]]]
  /\ gone' = gone \cup {<<u, p, rowId[u][p]>> : p \in {x \in ps : cart[u][x] > 0}}
  /\ UNCHANGED <<stock, active, rowId, status, items, rowLock, req, supply, adjusts, stale>>

RemoveItemFromCart(s, u, p) == RemoveItems(s, u, {p})
ClearCart(s, u) == RemoveItems(s, u, Products)

-----------------------------------------------------------------------------
(* Row locks, and the reads that both checkout and cancel make.            *)

\* Mutant: cancel and checkout load the products without with_for_update.
ReadProductsUnlocked(s, from, to) ==
  /\ req[s].pc = from
  /\ req' = [req EXCEPT ![s] =
               [@ EXCEPT !.pc = to,
                         !.seen = [p \in Products |-> IF p \in Lines(s) THEN stock[p] ELSE 0],
                         !.onSale = Lines(s) \cap active]]
  /\ UNCHANGED <<db, history>>

\* The products come from a SELECT of their own, after the cart or order.
ReadProducts(s, from, to) ==
  /\ req[s].pc = from
  /\ req' = [req EXCEPT ![s] =
               [@ EXCEPT !.pc = to,
                         !.seen = [p \in Products |-> IF p \in Lines(s) THEN stock[p] ELSE 0],
                         !.onSale = Lines(s) \cap active,
                         !.todo = Lines(s)]]
  /\ UNCHANGED <<db, history>>

CheckoutReadProducts(s) == ReadProducts(s, "checkout read", "checkout lock")
CancelReadProducts(s) == ReadProducts(s, "cancel read", "cancel lock")

\* FOR UPDATE takes one row at a time, in an order no ORDER BY fixes.  The
\* copy the session loaded before stays as it was.
LockProduct(s, p) ==
  /\ req[s].pc \in {"checkout lock", "cancel lock"}
  /\ p \in req[s].todo
  /\ rowLock[p] = None
  /\ rowLock' = [rowLock EXCEPT ![p] = s]
  /\ req' = [req EXCEPT ![s].todo = @ \ {p}]
  /\ UNCHANGED <<stock, active, cart, rowId, status, items, history>>

\* The products of s whose row is no longer what s read.
Changed(s) == {p \in Lines(s) : stock[p] # req[s].seen[p]}

-----------------------------------------------------------------------------
(* create_order_from_cart. *)

CheckoutReadCart(s, u, o) ==
  /\ req[s].pc = "idle"
  /\ status[o] = "none" /\ \A t \in Sessions : req[t].order # o
  /\ \E p \in Products : cart[u][p] > 0
  /\ req' = [req EXCEPT ![s] =
               [Idle EXCEPT !.pc = "checkout read", !.user = u, !.order = o, !.lines = cart[u],
                            !.rows = [p \in Products |-> IF cart[u][p] > 0 THEN rowId[u][p] ELSE 0]]]
  /\ UNCHANGED <<db, history>>

\* Mutant: the re-validation looks at is_active and forgets the stock.
CheckoutValidActiveOnly(s) == Lines(s) \subseteq req[s].onSale

\* Step 4 re-validates every line, on the copies loaded with the cart.
CheckoutValid(s) == \A p \in Lines(s) : p \in req[s].onSale /\ req[s].lines[p] <= req[s].seen[p]

\* Mutant: a product that is no longer active neither raises nor goes on.
CheckoutRejectShort(s) ==
  /\ req[s].pc = "checkout lock" /\ req[s].todo = {}
  /\ \E p \in Lines(s) : req[s].lines[p] > req[s].seen[p]
  /\ End(s)
  /\ UNCHANGED <<stock, active, cart, rowId, status, items, history>>

CheckoutReject(s) ==
  /\ req[s].pc = "checkout lock" /\ req[s].todo = {}
  /\ ~ CheckoutValid(s)
  /\ End(s)
  /\ UNCHANGED <<stock, active, cart, rowId, status, items, history>>

\* The cart rows the checkout loaded, which its order takes.
Taken(s) == {<<req[s].user, p, req[s].rows[p]>> : p \in Lines(s)}

\* Mutant: the cart is not cleared.
CheckoutCommitKeepsCart(s) ==
  LET o == req[s].order IN
  /\ req[s].pc = "checkout lock" /\ req[s].todo = {}
  /\ CheckoutValid(s)
  /\ status' = [status EXCEPT ![o] = "pending_payment"]
  /\ items' = [items EXCEPT ![o] = req[s].lines]
  /\ stock' = [p \in Products |-> IF p \in Lines(s) THEN req[s].seen[p] - req[s].lines[p] ELSE stock[p]]
  /\ stale' = stale \cup Changed(s)
  /\ End(s)
  /\ gone' = gone \cup Taken(s)
  /\ UNCHANGED <<cart, active, rowId, supply, adjusts>>

\* Mutant: the cart is emptied by its owner and not row by row.
CheckoutCommitEmptiesCart(s) ==
  LET o == req[s].order IN
  /\ req[s].pc = "checkout lock" /\ req[s].todo = {}
  /\ CheckoutValid(s)
  /\ status' = [status EXCEPT ![o] = "pending_payment"]
  /\ items' = [items EXCEPT ![o] = req[s].lines]
  /\ stock' = [p \in Products |-> IF p \in Lines(s) THEN req[s].seen[p] - req[s].lines[p] ELSE stock[p]]
  /\ cart' = [cart EXCEPT ![req[s].user] = NoLines]
  /\ stale' = stale \cup Changed(s)
  /\ gone' = gone \cup Taken(s)
  /\ End(s)
  /\ UNCHANGED <<active, rowId, supply, adjusts>>

CheckoutCommit(s) ==
  LET u == req[s].user
      o == req[s].order
  IN
  /\ req[s].pc = "checkout lock" /\ req[s].todo = {}
  /\ CheckoutValid(s)
  /\ status' = [status EXCEPT ![o] = "pending_payment"]
  /\ items' = [items EXCEPT ![o] = req[s].lines]
  /\ stock' = [p \in Products |-> IF p \in Lines(s) THEN req[s].seen[p] - req[s].lines[p] ELSE stock[p]]
  /\ cart' = [cart EXCEPT ![u] =
                [p \in Products |-> IF p \in Lines(s) /\ RowAlive(s, u, p) THEN 0 ELSE @[p]]]
  /\ stale' = stale \cup Changed(s)
  /\ gone' = gone \cup Taken(s)
  /\ End(s)
  /\ UNCHANGED <<active, rowId, supply, adjusts>>

-----------------------------------------------------------------------------
(* cancel_order and update_order.  Both read the order row unlocked. *)

\* Mutant: an order is cancelled whatever its status.
CancelReadAnyOrder(s, o) ==
  /\ req[s].pc = "idle"
  /\ status[o] # "none"
  /\ req' = [req EXCEPT ![s] =
               [Idle EXCEPT !.pc = "cancel read", !.order = o, !.was = status[o], !.lines = items[o]]]
  /\ UNCHANGED <<db, history>>

CancelReadOrder(s, o) ==
  /\ req[s].pc = "idle"
  /\ status[o] \in Cancellable
  /\ req' = [req EXCEPT ![s] =
               [Idle EXCEPT !.pc = "cancel read", !.order = o, !.was = status[o], !.lines = items[o]]]
  /\ UNCHANGED <<db, history>>

CancelCommit(s) ==
  LET o == req[s].order IN
  /\ req[s].pc = "cancel lock" /\ req[s].todo = {}
  /\ stock' = [p \in Products |-> IF p \in Lines(s) THEN req[s].seen[p] + req[s].lines[p] ELSE stock[p]]
  /\ status' = [status EXCEPT ![o] = "cancelled"]
  /\ stale' = stale \cup Changed(s) \cup (IF status[o] # req[s].was THEN Lines(s) ELSE {})
  /\ End(s)
  /\ UNCHANGED <<active, cart, rowId, items, supply, adjusts, gone>>

UpdateOrderRead(s, o, goal) ==
  /\ req[s].pc = "idle"
  /\ status[o] # "none" /\ goal \in validTransitions[status[o]]
  /\ req' = [req EXCEPT ![s] =
               [Idle EXCEPT !.pc = "update", !.order = o, !.was = status[o], !.goal = goal]]
  /\ UNCHANGED <<db, history>>

\* Any transition, CANCELLED included, changes the status and nothing else.
UpdateOrderCommit(s) ==
  LET o == req[s].order IN
  /\ req[s].pc = "update"
  /\ status' = [status EXCEPT ![o] = req[s].goal]
  /\ stale' = stale \cup (IF status[o] # req[s].was THEN {p \in Products : items[o][p] > 0} ELSE {})
  /\ End(s)
  /\ UNCHANGED <<stock, active, cart, rowId, items, supply, adjusts, gone>>

-----------------------------------------------------------------------------
(* Staff: adjust_stock and update_product both write a count computed from *)
(* an unlocked read; update_product and delete_product set is_active.      *)

AdjustStockRead(s, p, n) ==
  /\ req[s].pc = "idle"
  /\ adjusts < MaxAdjust
  /\ n # stock[p]
  /\ req' = [req EXCEPT ![s] =
               [Idle EXCEPT !.pc = "adjust", !.todo = {p}, !.lines[p] = n, !.seen[p] = stock[p]]]
  /\ adjusts' = adjusts + 1
  /\ UNCHANGED <<db, supply, stale, gone>>

\* Mutant: a correction writes the row past the lock of another request.
AdjustStockCommitUnlocked(s) ==
  /\ req[s].pc = "adjust"
  /\ stock' = [p \in Products |-> IF p \in req[s].todo THEN req[s].lines[p] ELSE stock[p]]
  /\ supply' = [p \in Products |->
                  IF p \in req[s].todo THEN supply[p] + req[s].lines[p] - req[s].seen[p] ELSE supply[p]]
  /\ stale' = stale \cup {p \in req[s].todo : stock[p] # req[s].seen[p]}
  /\ End(s)
  /\ UNCHANGED <<active, cart, rowId, status, items, adjusts, gone>>

AdjustStockCommit(s) ==
  /\ req[s].pc = "adjust"
  /\ \A p \in req[s].todo : Writable(s, p)
  /\ stock' = [p \in Products |-> IF p \in req[s].todo THEN req[s].lines[p] ELSE stock[p]]
  /\ supply' = [p \in Products |->
                  IF p \in req[s].todo THEN supply[p] + req[s].lines[p] - req[s].seen[p] ELSE supply[p]]
  /\ stale' = stale \cup {p \in req[s].todo : stock[p] # req[s].seen[p]}
  /\ End(s)
  /\ UNCHANGED <<active, cart, rowId, status, items, adjusts, gone>>

SetActive(s, p) ==
  /\ req[s].pc = "idle"
  /\ Writable(s, p)
  /\ active' = IF p \in active THEN active \ {p} ELSE active \cup {p}
  /\ UNCHANGED <<stock, cart, rowId, status, items, rowLock, req, history>>

-----------------------------------------------------------------------------
(* A request can fail at any of its steps (a lost connection, a cancelled  *)
(* task): get_db rolls back.  PostgreSQL ends a cycle of lock waits by     *)
(* failing one of its sessions.                                            *)

Abort(s) ==
  /\ req[s].pc # "idle"
  /\ End(s)
  /\ UNCHANGED <<stock, active, cart, rowId, status, items, history>>

\* s is one of a set of sessions that all wait for rows the others hold.
Deadlocked(s) ==
  \E D \in SUBSET Sessions :
    /\ s \in D
    /\ \A d \in D : /\ req[d].pc \in {"checkout lock", "cancel lock"} /\ req[d].todo # {}
                    /\ \A p \in req[d].todo : rowLock[p] \in D \ {d}

DeadlockVictim(s) == Deadlocked(s) /\ Abort(s)

NextOf(s) ==
  \/ \E u \in Users, p \in Products, q \in 1 .. MaxQty : AddItemToCart(s, u, p, q)
  \/ \E u \in Users, p \in Products, q \in 1 .. MaxQty : UpdateItemQuantity(s, u, p, q)
  \/ CartCommit(s)
  \/ \E u \in Users, p \in Products : RemoveItemFromCart(s, u, p)
  \/ \E u \in Users : ClearCart(s, u)
  \/ \E u \in Users, o \in OrderIds : CheckoutReadCart(s, u, o)
  \/ CheckoutReadProducts(s)
  \/ \E p \in Products : LockProduct(s, p)
  \/ CheckoutReject(s)
  \/ CheckoutCommit(s)
  \/ \E o \in OrderIds : CancelReadOrder(s, o)
  \/ CancelReadProducts(s)
  \/ CancelCommit(s)
  \/ \E o \in OrderIds, goal \in Statuses : UpdateOrderRead(s, o, goal)
  \/ UpdateOrderCommit(s)
  \/ \E p \in Products, n \in 0 .. MaxCount : AdjustStockRead(s, p, n)
  \/ AdjustStockCommit(s)
  \/ \E p \in Products : SetActive(s, p)
  \/ Abort(s)
  \/ DeadlockVictim(s)

Next == \E s \in Sessions : NextOf(s)

Spec == Init /\ [][Next]_vars

\* A request that has started runs on: its next statement is always sent.  A
\* lock wait is served in turn (PostgreSQL queues the waiters of a row), and
\* the deadlock detector runs after deadlock_timeout.  Nobody has to start a
\* request, and no request has to fail.
Fairness ==
  \A s \in Sessions :
    /\ SF_vars(CartCommit(s))
    /\ WF_vars(CheckoutReadProducts(s) \/ CancelReadProducts(s))
    /\ WF_vars(CheckoutReject(s) \/ CheckoutCommit(s) \/ CancelCommit(s) \/ UpdateOrderCommit(s))
    /\ SF_vars(\E p \in Products : LockProduct(s, p))
    /\ SF_vars(AdjustStockCommit(s))
    /\ WF_vars(DeadlockVictim(s))

FairSpec == Spec /\ Fairness

-----------------------------------------------------------------------------
(* What the store promises. *)

Live == {o \in OrderIds : status[o] \notin {"none", "cancelled"}}

\* The units of product p that live orders hold, one pair per unit.
Held(p) == UNION {{o} \X (1 .. items[o][p]) : o \in Live}

\* Product rows session s has locked and will write.
Holding(s) == IF req[s].pc \in {"checkout lock", "cancel lock"} THEN Lines(s) \ req[s].todo ELSE {}

\* The variables hold what the tables and the sessions can hold.  That stock
\* stays in Nat is a claim: chk_product_stock_non_negative never fires.
TypeOK ==
  /\ stock \in [Products -> Nat]
  /\ active \in SUBSET Products
  /\ cart \in [Users -> [Products -> Nat]]
  /\ rowId \in [Users -> [Products -> 0 .. MaxRows]]
  /\ status \in [OrderIds -> Statuses \cup {"none"}]
  /\ items \in [OrderIds -> [Products -> Nat]]
  /\ rowLock \in [Products -> Sessions \cup {None}]
  /\ req \in [Sessions -> Requests]
  /\ supply \in [Products -> Int]
  /\ adjusts \in 0 .. MaxAdjust
  /\ stale \in SUBSET Products
  /\ gone \in SUBSET ((Users \cup {None}) \X Products \X (0 .. MaxRows))

\* A product row is locked by exactly the request that has locked it and not
\* yet ended: two requests never both hold a product, and none that has
\* committed, failed or been refused keeps one.
LocksMatchRequests ==
  \A p \in Products, s \in Sessions : rowLock[p] = s <=> p \in Holding(s)

\* The stock ledger.  Staff put supply[p] units on the shelf; what is still in
\* stock and what live orders hold never exceed it, as long as no commit has
\* overwritten a product or an order that changed after the request read it.
\* So a stale copy is the only way checkout and cancel can oversell.
LedgerBalanced ==
  \A p \in Products \ stale : stock[p] + Cardinality(Held(p)) <= supply[p]

\* While a request holds a product, its stock changes in that request's own
\* commit and in no other step, staff corrections included.
OnlyHolderChangesStock ==
  [][\A p \in Products :
       rowLock[p] # None /\ stock'[p] # stock[p] => rowLock'[p] = None /\ req'[rowLock[p]] = Idle]_vars

\* Nothing in a cart is lost, and nothing is left behind: a row a parent put in
\* the cart stays until the parent removes it or a checkout that loaded it
\* commits, and is not there afterwards.  A row added for the same product while
\* a checkout runs is a new row, and survives that checkout.
CartRowsKept ==
  \A u \in Users, p \in Products : \A k \in 1 .. rowId[u][p] :
    <<u, p, k>> \notin gone <=> k = rowId[u][p] /\ cart[u][p] > 0

\* Every request ends, by committing, being refused or failing: requests that
\* lock the same products in different orders do not wait for each other for
\* ever, and a staff correction is not locked out by a stream of checkouts.
RequestsEnd == \A s \in Sessions : req[s].pc # "idle" ~> req[s].pc = "idle"

\* Requests that do not overlap see an atomic store: with a single session the
\* multi-step requests implement the operations of StoreLedger.
Ledger == INSTANCE StoreLedger WITH stock <- stock, active <- active, cart <- cart,
                                   status <- status, items <- items
ImplementsLedger == Ledger!Spec

-----------------------------------------------------------------------------
(* What the documentation promises and stale copies break.                 *)

\* "Pessimistic row-level locking on products (prevents overselling)": stock
\* and live orders together never exceed what staff put on the shelf.
NoOversell == \A p \in Products : stock[p] + Cardinality(Held(p)) <= supply[p]

\* "DELIVERED and CANCELLED are terminal states": no order leaves them.
TerminalStatusesFinal ==
  [][\A o \in OrderIds : status[o] \in Terminal => status'[o] = status[o]]_vars
=============================================================================
