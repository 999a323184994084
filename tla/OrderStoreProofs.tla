--------------------------- MODULE OrderStoreProofs ---------------------------
(***************************************************************************)
(* Proofs about OrderStore, for every set of sessions, parents, products   *)
(* and orders, and that it implements StoreLedger when requests do not       *)
(* overlap.                                                                *)
(***************************************************************************)
EXTENDS OrderStore, FiniteSetTheorems, TLAPS

-----------------------------------------------------------------------------
(* Types.                                                                  *)

\* The blank request is a request.
LEMMA IdleType == Idle \in Requests
BY StoreAssumption DEF Idle, Requests, NoLines, Steps

\* Ending a request keeps the types of the sessions and of the locks.
LEMMA EndType ==
  ASSUME TypeOK, NEW s \in Sessions, End(s)
  PROVE  req' \in [Sessions -> Requests] /\ rowLock' \in [Products -> Sessions \cup {None}]
BY IdleType DEF TypeOK, End

\* Every step keeps the types: in particular no commit makes a stock negative.
LEMMA TypeStep ==
  ASSUME TypeOK, [Next]_vars
  PROVE  TypeOK'
<1> USE StoreAssumption
<1>1. CASE UNCHANGED vars
  BY <1>1 DEF TypeOK, vars, db, history
<1>2. ASSUME NEW s \in Sessions, NEW u \in Users, NEW p \in Products, NEW q \in 1 .. MaxQty,
             AddItemToCart(s, u, p, q) \/ UpdateItemQuantity(s, u, p, q)
      PROVE  TypeOK'
  <2>1. PICK n \in Nat : CartRead(s, u, p, n)
    BY <1>2 DEF AddItemToCart, UpdateItemQuantity, TypeOK
  <2>2. [Idle EXCEPT !.pc = "cart", !.user = u, !.lines[p] = n,
                     !.rows[p] = IF cart[u][p] > 0 THEN rowId[u][p] ELSE 0] \in Requests
    <3>1. (IF cart[u][p] > 0 THEN rowId[u][p] ELSE 0) \in 0 .. MaxRows
      BY DEF TypeOK
    <3> QED BY <3>1, IdleType DEF Requests, Steps
  <2> QED BY <2>1, <2>2 DEF CartRead, TypeOK, db, history
<1>3. ASSUME NEW s \in Sessions, CartCommit(s)
      PROVE  TypeOK'
  <2>1. cart' \in [Users -> [Products -> Nat]] /\ rowId' \in [Users -> [Products -> 0 .. MaxRows]]
    <3>1. req[s] \in Requests /\ req[s].lines \in [Products -> Nat]
      BY DEF TypeOK, Requests
    <3>2. PICK p \in Lines(s) :
            \/ /\ rowId[req[s].user][p] < MaxRows
               /\ cart' = [cart EXCEPT ![req[s].user][p] = req[s].lines[p]]
               /\ rowId' = [rowId EXCEPT ![req[s].user][p] = @ + 1]
            \/ cart' = [cart EXCEPT ![req[s].user][p] = req[s].lines[p]] /\ UNCHANGED rowId
            \/ UNCHANGED <<cart, rowId>>
      BY <1>3 DEF CartCommit
    <3>3. p \in Products /\ req[s].lines[p] \in Nat
      BY <3>1 DEF Lines
    <3>4. cart \in [Users -> [Products -> Nat]] /\ rowId \in [Users -> [Products -> 0 .. MaxRows]]
      BY DEF TypeOK
    <3>5. [cart EXCEPT ![req[s].user][p] = req[s].lines[p]] \in [Users -> [Products -> Nat]]
      BY <3>3, <3>4
    <3>6. rowId[req[s].user][p] < MaxRows =>
            [rowId EXCEPT ![req[s].user][p] = @ + 1] \in [Users -> [Products -> 0 .. MaxRows]]
      <4>1. CASE req[s].user \in Users
        BY <4>1, <3>3, <3>4
      <4>2. CASE req[s].user \notin Users
        BY <4>2, <3>4
      <4> QED BY <4>1, <4>2
    <3> QED BY <3>2, <3>4, <3>5, <3>6
  <2> QED BY <1>3, <2>1, EndType DEF CartCommit, TypeOK, history
<1>4. ASSUME NEW s \in Sessions, NEW u \in Users, NEW ps \in SUBSET Products, RemoveItems(s, u, ps)
      PROVE  TypeOK'
  <2>1. gone' \in SUBSET ((Users \cup {None}) \X Products \X (0 .. MaxRows))
    <3>1. \A p \in ps : rowId[u][p] \in 0 .. MaxRows
      BY DEF TypeOK
    <3>2. gone' = gone \cup {<<u, p, rowId[u][p]>> : p \in {x \in ps : cart[u][x] > 0}}
      BY <1>4 DEF RemoveItems
    <3> QED BY <3>1, <3>2 DEF TypeOK
  <2>2. cart' \in [Users -> [Products -> Nat]]
    BY <1>4 DEF RemoveItems, TypeOK
  <2> QED BY <1>4, <2>1, <2>2 DEF RemoveItems, TypeOK
<1>5. ASSUME NEW s \in Sessions, NEW u \in Users, NEW o \in OrderIds, CheckoutReadCart(s, u, o)
      PROVE  TypeOK'
  <2>1. [Idle EXCEPT !.pc = "checkout read", !.user = u, !.order = o, !.lines = cart[u],
                     !.rows = [p \in Products |-> IF cart[u][p] > 0 THEN rowId[u][p] ELSE 0]] \in Requests
    <3>1. /\ cart[u] \in [Products -> Nat]
          /\ [p \in Products |-> IF cart[u][p] > 0 THEN rowId[u][p] ELSE 0] \in [Products -> 0 .. MaxRows]
      BY DEF TypeOK
    <3> QED BY <3>1, IdleType DEF Requests, Steps
  <2> QED BY <1>5, <2>1 DEF CheckoutReadCart, TypeOK, db, history
<1>6. ASSUME NEW s \in Sessions, NEW from \in Steps, NEW to \in Steps, ReadProducts(s, from, to)
      PROVE  TypeOK'
  <2>1. [req[s] EXCEPT !.pc = to,
                       !.seen = [p \in Products |-> IF p \in Lines(s) THEN stock[p] ELSE 0],
                       !.onSale = Lines(s) \cap active,
                       !.todo = Lines(s)] \in Requests
    <3>1. /\ req[s] \in Requests
          /\ [p \in Products |-> IF p \in Lines(s) THEN stock[p] ELSE 0] \in [Products -> Nat]
          /\ Lines(s) \in SUBSET Products
      BY DEF TypeOK, Lines
    <3> QED BY <3>1 DEF Requests
  <2> QED BY <1>6, <2>1 DEF ReadProducts, TypeOK, db, history
<1>7. ASSUME NEW s \in Sessions, NEW p \in Products, LockProduct(s, p)
      PROVE  TypeOK'
  <2>1. [req[s] EXCEPT !.todo = @ \ {p}] \in Requests
    <3>1. req[s] \in Requests
      BY DEF TypeOK
    <3> QED BY <3>1 DEF Requests
  <2> QED BY <1>7, <2>1 DEF LockProduct, TypeOK, history
<1>8. ASSUME NEW s \in Sessions, CheckoutReject(s) \/ Abort(s)
      PROVE  TypeOK'
  BY <1>8, EndType DEF CheckoutReject, Abort, TypeOK, history
<1>9. ASSUME NEW s \in Sessions, CheckoutCommit(s)
      PROVE  TypeOK'
  <2>1. req[s] \in Requests
    BY DEF TypeOK
  <2>2. stock' \in [Products -> Nat]
    <3>1. req[s].seen \in [Products -> Nat] /\ req[s].lines \in [Products -> Nat]
      BY <2>1 DEF Requests
    <3>2. stock' = [p \in Products |-> IF p \in Lines(s) THEN req[s].seen[p] - req[s].lines[p] ELSE stock[p]]
      BY <1>9 DEF CheckoutCommit
    <3>3. \A p \in Lines(s) : req[s].seen[p] - req[s].lines[p] \in Nat
      <4>1. \A p \in Lines(s) : p \in Products /\ req[s].lines[p] <= req[s].seen[p]
        BY <1>9 DEF CheckoutCommit, CheckoutValid, Lines
      <4> QED BY <4>1, <3>1
    <3>4. stock \in [Products -> Nat]
      BY DEF TypeOK
    <3> QED BY <3>2, <3>3, <3>4
  <2>3. cart' \in [Users -> [Products -> Nat]]
    BY <1>9, <2>1 DEF CheckoutCommit, TypeOK
  <2>4. status' \in [OrderIds -> Statuses \cup {"none"}] /\ items' \in [OrderIds -> [Products -> Nat]]
    BY <1>9, <2>1 DEF CheckoutCommit, TypeOK, Requests, Statuses
  <2>5. stale' \in SUBSET Products
    BY <1>9 DEF CheckoutCommit, Changed, Lines, TypeOK
  <2>6. gone' \in SUBSET ((Users \cup {None}) \X Products \X (0 .. MaxRows))
    <3>1. req[s].user \in Users \cup {None} /\ \A p \in Lines(s) : p \in Products /\ req[s].rows[p] \in 0 .. MaxRows
      BY <2>1 DEF Requests, Lines
    <3>2. Taken(s) \subseteq (Users \cup {None}) \X Products \X (0 .. MaxRows)
      BY <3>1 DEF Taken
    <3> QED BY <1>9, <3>2 DEF CheckoutCommit, TypeOK
  <2> QED BY <1>9, <2>2, <2>3, <2>4, <2>5, <2>6, EndType DEF CheckoutCommit, TypeOK
<1>10. ASSUME NEW s \in Sessions, NEW o \in OrderIds, CancelReadOrder(s, o)
      PROVE  TypeOK'
  <2>1. [Idle EXCEPT !.pc = "cancel read", !.order = o, !.was = status[o], !.lines = items[o]] \in Requests
    <3>1. status[o] \in Statuses \cup {"none"} /\ items[o] \in [Products -> Nat]
      BY DEF TypeOK
    <3> QED BY <3>1, IdleType DEF Requests, Steps
  <2> QED BY <1>10, <2>1 DEF CancelReadOrder, TypeOK, db, history
<1>11. ASSUME NEW s \in Sessions, CancelCommit(s)
      PROVE  TypeOK'
  <2>1. req[s] \in Requests
    BY DEF TypeOK
  <2>2. stock' \in [Products -> Nat]
    <3>1. req[s].seen \in [Products -> Nat] /\ req[s].lines \in [Products -> Nat]
      BY <2>1 DEF Requests
    <3>2. stock' = [p \in Products |-> IF p \in Lines(s) THEN req[s].seen[p] + req[s].lines[p] ELSE stock[p]]
      BY <1>11 DEF CancelCommit
    <3>3. \A p \in Lines(s) : req[s].seen[p] + req[s].lines[p] \in Nat
      BY <3>1 DEF Lines
    <3>4. stock \in [Products -> Nat]
      BY DEF TypeOK
    <3> QED BY <3>2, <3>3, <3>4
  <2>3. status' \in [OrderIds -> Statuses \cup {"none"}]
    BY <1>11 DEF CancelCommit, TypeOK, Statuses
  <2>4. stale' \in SUBSET Products
    BY <1>11 DEF CancelCommit, Changed, Lines, TypeOK
  <2> QED BY <1>11, <2>2, <2>3, <2>4, EndType DEF CancelCommit, TypeOK
<1>12. ASSUME NEW s \in Sessions, NEW o \in OrderIds, NEW goal \in Statuses, UpdateOrderRead(s, o, goal)
      PROVE  TypeOK'
  <2>1. [Idle EXCEPT !.pc = "update", !.order = o, !.was = status[o], !.goal = goal] \in Requests
    <3>1. status[o] \in Statuses \cup {"none"}
      BY DEF TypeOK
    <3> QED BY <3>1, IdleType DEF Requests, Steps
  <2> QED BY <1>12, <2>1 DEF UpdateOrderRead, TypeOK, db, history
<1>13. ASSUME NEW s \in Sessions, UpdateOrderCommit(s)
      PROVE  TypeOK'
  <2>1. req[s] \in Requests
    BY DEF TypeOK
  <2>2. status' \in [OrderIds -> Statuses \cup {"none"}]
    BY <1>13, <2>1 DEF UpdateOrderCommit, TypeOK, Requests
  <2>3. stale' \in SUBSET Products
    BY <1>13 DEF UpdateOrderCommit, TypeOK
  <2> QED BY <1>13, <2>2, <2>3, EndType DEF UpdateOrderCommit, TypeOK
<1>14. ASSUME NEW s \in Sessions, NEW p \in Products, NEW n \in 0 .. MaxCount, AdjustStockRead(s, p, n)
      PROVE  TypeOK'
  <2>1. [Idle EXCEPT !.pc = "adjust", !.todo = {p}, !.lines[p] = n, !.seen[p] = stock[p]] \in Requests
    <3>1. stock[p] \in Nat /\ n \in Nat
      BY DEF TypeOK
    <3> QED BY <3>1, IdleType DEF Requests, Steps
  <2> QED BY <1>14, <2>1 DEF AdjustStockRead, TypeOK, db
<1>15. ASSUME NEW s \in Sessions, AdjustStockCommit(s)
      PROVE  TypeOK'
  <2>1. req[s] \in Requests
    BY DEF TypeOK
  <2>2. stock' \in [Products -> Nat] /\ supply' \in [Products -> Int]
    BY <1>15, <2>1 DEF AdjustStockCommit, TypeOK, Requests
  <2>3. stale' \in SUBSET Products
    BY <1>15, <2>1 DEF AdjustStockCommit, TypeOK, Requests
  <2> QED BY <1>15, <2>2, <2>3, EndType DEF AdjustStockCommit, TypeOK
<1>16. ASSUME NEW s \in Sessions, NEW p \in Products, SetActive(s, p)
      PROVE  TypeOK'
  BY <1>16 DEF SetActive, TypeOK, history
<1> QED
  BY <1>1, <1>2, <1>3, <1>4, <1>5, <1>6, <1>7, <1>8, <1>9, <1>10, <1>11, <1>12, <1>13, <1>14, <1>15, <1>16
     DEF Next, NextOf, RemoveItemFromCart, ClearCart, CheckoutReadProducts, CancelReadProducts,
         DeadlockVictim, Steps

\* The initial tables have the right types.
LEMMA TypeInit == Init => TypeOK
BY StoreAssumption, IdleType DEF Init, TypeOK, NoLines

\* The tables and the sessions always hold what they can hold; no request of
\* checkout, cancellation or stock correction ever writes a negative stock.
THEOREM TypeCorrect == Spec => []TypeOK
BY TypeInit, TypeStep, PTL DEF Spec

-----------------------------------------------------------------------------
(* Row locks.                                                              *)

LockSteps == {"checkout lock", "cancel lock"}

\* A request still has to lock only products of its own lines.
TodoInLines == \A s \in Sessions : req[s].pc \in LockSteps => req[s].todo \subseteq Lines(s)

LockInv == TypeOK /\ LocksMatchRequests /\ TodoInLines

\* A request that holds no lock and starts none leaves the locks matched.
LEMMA QuietLocks ==
  ASSUME LockInv, NEW s \in Sessions, NEW r,
         req[s].pc \notin LockSteps, r.pc \notin LockSteps,
         req' = [req EXCEPT ![s] = r], UNCHANGED rowLock
  PROVE  LocksMatchRequests' /\ TodoInLines'
<1>1. /\ req'[s] = r
      /\ \A t \in Sessions \ {s} : req'[t] = req[t]
  BY DEF LockInv, TypeOK
<1>2. \A t \in Sessions : Holding(t)' = Holding(t)
  BY <1>1 DEF Holding, Lines, LockSteps
<1>3. LocksMatchRequests'
  BY <1>2 DEF LockInv, LocksMatchRequests
<1>4. TodoInLines'
  BY <1>1 DEF LockInv, TodoInLines, Lines
<1> QED BY <1>3, <1>4

\* A request that ends keeps none of its locks and disturbs no other's.
LEMMA EndLocks ==
  ASSUME LockInv, NEW s \in Sessions, End(s)
  PROVE  LocksMatchRequests' /\ TodoInLines'
<1>1. /\ req'[s] = Idle
      /\ \A t \in Sessions \ {s} : req'[t] = req[t]
      /\ Idle.pc \notin LockSteps
  BY DEF LockInv, TypeOK, End, Idle, LockSteps
<1>2. Holding(s)' = {} /\ \A t \in Sessions \ {s} : Holding(t)' = Holding(t)
  BY <1>1 DEF Holding, Lines, LockSteps
<1>3. LocksMatchRequests'
  <2> SUFFICES ASSUME NEW p \in Products, NEW t \in Sessions
               PROVE  rowLock'[p] = t <=> p \in Holding(t)'
    BY DEF LocksMatchRequests
  <2>1. rowLock'[p] = IF rowLock[p] = s THEN None ELSE rowLock[p]
    BY DEF End
  <2>2. rowLock[p] = t <=> p \in Holding(t)
    BY DEF LockInv, LocksMatchRequests
  <2>3. CASE t = s
    BY <1>2, <2>1, <2>3, StoreAssumption
  <2>4. CASE t # s
    BY <1>2, <2>1, <2>2, <2>4, StoreAssumption
  <2> QED BY <2>3, <2>4
<1>4. TodoInLines'
  BY <1>1 DEF LockInv, TodoInLines, Lines
<1> QED BY <1>3, <1>4

\* Every step keeps the locks matched with the requests.
LEMMA LockStep ==
  ASSUME LockInv, [Next]_vars
  PROVE  LockInv'
<1> USE DEF LockSteps
<1>0. TypeOK'
  BY TypeStep DEF LockInv
<1>1. CASE UNCHANGED vars
  BY <1>0, <1>1 DEF LockInv, LocksMatchRequests, TodoInLines, Holding, Lines, vars, db
<1>2. ASSUME NEW s \in Sessions, NEW u \in Users, NEW p \in Products, NEW n,
             req[s].pc = "idle", CartRead(s, u, p, n)
      PROVE  LockInv'
  BY <1>0, <1>2, QuietLocks DEF CartRead, LockInv, Idle, db
<1>3. ASSUME NEW s \in Sessions, End(s)
      PROVE  LockInv'
  BY <1>0, <1>3, EndLocks DEF LockInv
<1>4. ASSUME UNCHANGED <<rowLock, req>>
      PROVE  LockInv'
  BY <1>0, <1>4 DEF LockInv, LocksMatchRequests, TodoInLines, Holding, Lines
<1>5. ASSUME NEW s \in Sessions, NEW u \in Users, NEW o \in OrderIds, CheckoutReadCart(s, u, o)
      PROVE  LockInv'
  BY <1>0, <1>5, QuietLocks DEF CheckoutReadCart, LockInv, Idle, db
<1>6. ASSUME NEW s \in Sessions, NEW from, NEW to, ReadProducts(s, from, to), from \notin LockSteps
      PROVE  LockInv'
  <2>1. /\ Lines(s)' = Lines(s) /\ req'[s].todo = Lines(s)
        /\ \A t \in Sessions \ {s} : req'[t] = req[t]
        /\ UNCHANGED rowLock
    BY <1>6 DEF ReadProducts, LockInv, TypeOK, Requests, Lines, db
  <2>2. \A t \in Sessions : Holding(t)' = Holding(t)
    BY <1>6, <2>1 DEF ReadProducts, Holding, Lines
  <2>3. LocksMatchRequests'
    BY <2>1, <2>2 DEF LockInv, LocksMatchRequests
  <2>4. TodoInLines'
    BY <2>1 DEF LockInv, TodoInLines, Lines
  <2> QED BY <1>0, <2>3, <2>4 DEF LockInv
<1>7. ASSUME NEW s \in Sessions, NEW p \in Products, LockProduct(s, p)
      PROVE  LockInv'
  <2>1. /\ req'[s].pc = req[s].pc /\ Lines(s)' = Lines(s) /\ req'[s].todo = req[s].todo \ {p}
        /\ \A t \in Sessions \ {s} : req'[t] = req[t]
        /\ p \in Lines(s) /\ p \in req[s].todo
    BY <1>7 DEF LockProduct, LockInv, TypeOK, Requests, TodoInLines, Lines
  <2>2. /\ Holding(s)' = Holding(s) \cup {p}
        /\ \A t \in Sessions \ {s} : Holding(t)' = Holding(t)
    BY <1>7, <2>1 DEF LockProduct, Holding, Lines
  <2>3. LocksMatchRequests'
    <3> SUFFICES ASSUME NEW x \in Products, NEW t \in Sessions
                 PROVE  rowLock'[x] = t <=> x \in Holding(t)'
      BY DEF LocksMatchRequests
    <3>1. rowLock'[x] = IF x = p THEN s ELSE rowLock[x]
      BY <1>7 DEF LockProduct, LockInv, TypeOK
    <3>2. rowLock[x] = t <=> x \in Holding(t)
      BY DEF LockInv, LocksMatchRequests
    <3>3. rowLock[p] \notin Sessions
      BY <1>7, StoreAssumption DEF LockProduct
    <3>4. CASE t = s
      BY <2>2, <3>1, <3>2, <3>4
    <3>5. CASE t # s
      BY <2>2, <3>1, <3>2, <3>3, <3>5
    <3> QED BY <3>4, <3>5
  <2>4. TodoInLines'
    BY <2>1 DEF LockInv, TodoInLines, Lines
  <2> QED BY <1>0, <2>3, <2>4 DEF LockInv
<1>8. ASSUME NEW s \in Sessions, NEW o \in OrderIds, CancelReadOrder(s, o)
      PROVE  LockInv'
  BY <1>0, <1>8, QuietLocks DEF CancelReadOrder, LockInv, Idle, db
<1>9. ASSUME NEW s \in Sessions, NEW o \in OrderIds, NEW goal, UpdateOrderRead(s, o, goal)
      PROVE  LockInv'
  BY <1>0, <1>9, QuietLocks DEF UpdateOrderRead, LockInv, Idle, db
<1>10. ASSUME NEW s \in Sessions, NEW p \in Products, NEW n, AdjustStockRead(s, p, n)
      PROVE  LockInv'
  BY <1>0, <1>10, QuietLocks DEF AdjustStockRead, LockInv, Idle, db
<1>11. CASE Next
  <2>1. PICK s \in Sessions : NextOf(s)
    BY <1>11 DEF Next, NextOf
  <2> QED
    BY <2>1, <1>2, <1>3, <1>4, <1>5, <1>6, <1>7, <1>8, <1>9, <1>10
       DEF NextOf, AddItemToCart, UpdateItemQuantity, CartCommit, RemoveItemFromCart, ClearCart, RemoveItems,
           CheckoutReadProducts, CheckoutReject, CheckoutCommit, CancelReadProducts, CancelCommit,
           UpdateOrderCommit, AdjustStockCommit, SetActive, Abort, DeadlockVictim
<1> QED BY <1>1, <1>11

\* Initially nothing is locked and no request is in flight.
LEMMA LockInit == Init => LockInv
<1> SUFFICES ASSUME Init PROVE LockInv
  OBVIOUS
<1>1. \A s \in Sessions : req[s].pc \notin LockSteps
  BY DEF Init, Idle, LockSteps
<1>2. LocksMatchRequests
  BY <1>1, StoreAssumption DEF Init, LocksMatchRequests, Holding, LockSteps
<1> QED BY <1>1, <1>2, TypeInit DEF LockInv, TodoInLines

\* The row locks always match the requests: the FOR UPDATE discipline of
\* checkout and cancel excludes each from the other on every product.
THEOREM LocksCorrect == Spec => []LocksMatchRequests
BY LockInit, LockStep, PTL DEF Spec, LockInv

-----------------------------------------------------------------------------
(* What a request knows of its order.                                      *)

\* A checkout's order id is still unused and nobody else's; a cancellation
\* has loaded the lines of an existing order; an update goes where the
\* status it read allows.
CheckoutKnows(s) ==
  req[s].pc \in {"checkout read", "checkout lock"} =>
    /\ req[s].order \in OrderIds /\ status[req[s].order] = "none"
    /\ \A t \in Sessions \ {s} : req[t].order # req[s].order

CancelKnows(s) ==
  req[s].pc \in {"cancel read", "cancel lock"} =>
    /\ req[s].order \in OrderIds /\ status[req[s].order] # "none"
    /\ req[s].was \in Cancellable /\ req[s].lines = items[req[s].order]

UpdateKnows(s) ==
  req[s].pc = "update" =>
    /\ req[s].order \in OrderIds /\ status[req[s].order] # "none"
    /\ req[s].was \in Statuses /\ req[s].goal \in validTransitions[req[s].was]

OrdersTracked == \A s \in Sessions : CheckoutKnows(s) /\ CancelKnows(s) /\ UpdateKnows(s)

\* The transition table leads to real statuses, and nowhere from a terminal one.
LEMMA Transitions ==
  ASSUME NEW from \in Statuses, NEW to \in validTransitions[from]
  PROVE  to \in Statuses /\ from \in {"pending_payment", "processing", "shipped"}
BY DEF Statuses, validTransitions

\* The blank request names no order.
LEMMA IdleFields == Idle.pc = "idle" /\ Idle.order = None
BY DEF Idle

\* A step of one session that changes no order keeps the knowledge of the
\* others, provided it takes no order id one of them has reserved.
LEMMA OthersTracked ==
  ASSUME OrdersTracked, NEW s \in Sessions, UNCHANGED <<status, items>>,
         \A x \in Sessions \ {s} : req'[x] = req[x],
         \/ req'[s].order \in {None, req[s].order}
         \/ \A x \in Sessions \ {s} : req[x].order # req'[s].order
         \/ status[req'[s].order] # "none",
         CheckoutKnows(s)' /\ CancelKnows(s)' /\ UpdateKnows(s)'
  PROVE  OrdersTracked'
<1>1. ASSUME NEW t \in Sessions \ {s}
      PROVE  CheckoutKnows(t)' /\ CancelKnows(t)' /\ UpdateKnows(t)'
  <2>1. req'[t] = req[t]
    OBVIOUS
  <2>2. CheckoutKnows(t)'
    <3> SUFFICES ASSUME req[t].pc \in {"checkout read", "checkout lock"}
                 PROVE  CheckoutKnows(t)'
      BY <2>1 DEF CheckoutKnows
    <3>1. /\ req[t].order \in OrderIds /\ status[req[t].order] = "none"
          /\ \A x \in Sessions \ {t} : req[x].order # req[t].order
      BY DEF OrdersTracked, CheckoutKnows
    <3>2. req'[s].order # req[t].order
      BY <3>1, StoreAssumption
    <3> QED BY <2>1, <3>1, <3>2 DEF CheckoutKnows
  <2>3. CancelKnows(t)' /\ UpdateKnows(t)'
    BY <2>1 DEF OrdersTracked, CancelKnows, UpdateKnows
  <2> QED BY <2>2, <2>3
<1> QED BY <1>1 DEF OrdersTracked

\* A commit that changes one existing order, or creates the one its session
\* has reserved, keeps the knowledge of all sessions.
LEMMA CommitTracked ==
  ASSUME TypeOK, OrdersTracked, NEW s \in Sessions, End(s),
         NEW o \in OrderIds, NEW new \in Statuses, status' = [status EXCEPT ![o] = new],
         \/ status[o] # "none" /\ UNCHANGED items
         \/ /\ req[s].pc = "checkout lock" /\ req[s].order = o
            /\ \E lines : items' = [items EXCEPT ![o] = lines]
  PROVE  OrdersTracked'
<1>1. /\ req'[s] = Idle
      /\ \A t \in Sessions \ {s} : req'[t] = req[t]
      /\ \A x \in OrderIds \ {o} : status'[x] = status[x] /\ items'[x] = items[x]
      /\ status'[o] # "none"
  BY DEF End, TypeOK, Statuses
<1>2. CheckoutKnows(s)' /\ CancelKnows(s)' /\ UpdateKnows(s)'
  BY <1>1, IdleFields DEF CheckoutKnows, CancelKnows, UpdateKnows
<1>3. ASSUME NEW t \in Sessions \ {s}
      PROVE  CheckoutKnows(t)' /\ CancelKnows(t)' /\ UpdateKnows(t)'
  <2>1. CheckoutKnows(t)'
    <3> SUFFICES ASSUME req[t].pc \in {"checkout read", "checkout lock"}
                 PROVE  CheckoutKnows(t)'
      BY <1>1 DEF CheckoutKnows
    <3>1. /\ req[t].order \in OrderIds /\ status[req[t].order] = "none"
          /\ \A x \in Sessions \ {t} : req[x].order # req[t].order
      BY DEF OrdersTracked, CheckoutKnows
    <3>2. req[t].order # o
      BY <3>1
    <3>3. Idle.order = None /\ req[t].order # None
      BY <3>1, StoreAssumption, IdleFields
    <3> QED BY <1>1, <3>1, <3>2, <3>3 DEF CheckoutKnows
  <2>2. CASE status[o] # "none" /\ UNCHANGED items
    BY <1>1, <2>1, <2>2 DEF OrdersTracked, CancelKnows, UpdateKnows
  <2>3. CASE req[s].pc = "checkout lock" /\ req[s].order = o
    <3>1. status[o] = "none"
      BY <2>3 DEF OrdersTracked, CheckoutKnows
    <3>2. req[t].pc \in {"cancel read", "cancel lock", "update"} => req[t].order \in OrderIds \ {o}
      BY <3>1 DEF OrdersTracked, CancelKnows, UpdateKnows
    <3>3. req'[t] = req[t]
      BY <1>1
    <3>4. CancelKnows(t)'
      <4> SUFFICES ASSUME req[t].pc \in {"cancel read", "cancel lock"}
                   PROVE  CancelKnows(t)'
        BY <3>3 DEF CancelKnows
      <4>1. /\ req[t].order \in OrderIds \ {o} /\ status[req[t].order] # "none"
            /\ req[t].was \in Cancellable /\ req[t].lines = items[req[t].order]
        BY <3>2 DEF OrdersTracked, CancelKnows
      <4> QED BY <1>1, <3>3, <4>1 DEF CancelKnows
    <3>5. UpdateKnows(t)'
      BY <1>1, <3>2, <3>3 DEF OrdersTracked, UpdateKnows
    <3> QED BY <2>1, <3>4, <3>5
  <2> QED BY <2>2, <2>3
<1> QED BY <1>2, <1>3 DEF OrdersTracked

\* A session at rest, in a cart request or in a stock correction knows no order.
LEMMA QuietTracked ==
  ASSUME OrdersTracked, NEW s \in Sessions, UNCHANGED <<status, items>>,
         \A x \in Sessions \ {s} : req'[x] = req[x],
         req'[s].pc \in {"idle", "cart", "adjust"}, req'[s].order = None
  PROVE  OrdersTracked'
<1>1. CheckoutKnows(s)' /\ CancelKnows(s)' /\ UpdateKnows(s)'
  BY DEF CheckoutKnows, CancelKnows, UpdateKnows
<1> QED BY <1>1, OthersTracked

\* Every step keeps track of the orders.
LEMMA TrackedStep ==
  ASSUME TypeOK, OrdersTracked, [Next]_vars
  PROVE  OrdersTracked'
<1> USE IdleType, IdleFields
<1>1. ASSUME UNCHANGED <<req, status, items>>
      PROVE  OrdersTracked'
  BY <1>1 DEF OrdersTracked, CheckoutKnows, CancelKnows, UpdateKnows
<1>2. ASSUME NEW s \in Sessions, NEW u \in Users, NEW p \in Products, NEW n, CartRead(s, u, p, n)
      PROVE  OrdersTracked'
  <2>1. /\ req'[s].pc = "cart" /\ req'[s].order = None
        /\ \A t \in Sessions \ {s} : req'[t] = req[t]
    BY <1>2 DEF CartRead, TypeOK, Requests
  <2> QED BY <1>2, <2>1, QuietTracked DEF CartRead, db
<1>3. ASSUME NEW s \in Sessions, End(s), UNCHANGED <<status, items>>
      PROVE  OrdersTracked'
  <2>1. req'[s] = Idle /\ \A t \in Sessions \ {s} : req'[t] = req[t]
    BY <1>3 DEF End, TypeOK
  <2> QED BY <1>3, <2>1, QuietTracked
<1>4. ASSUME NEW s \in Sessions, NEW u \in Users, NEW o \in OrderIds, CheckoutReadCart(s, u, o)
      PROVE  OrdersTracked'
  <2>1. /\ req'[s].pc = "checkout read" /\ req'[s].order = o
        /\ \A t \in Sessions \ {s} : req'[t] = req[t]
    BY <1>4 DEF CheckoutReadCart, TypeOK, Requests
  <2>2. /\ \A t \in Sessions : req[t].order # o
        /\ UNCHANGED <<status, items>> /\ status[o] = "none"
    BY <1>4 DEF CheckoutReadCart, db
  <2>3. CheckoutKnows(s)' /\ CancelKnows(s)' /\ UpdateKnows(s)'
    BY <2>1, <2>2 DEF CheckoutKnows, CancelKnows, UpdateKnows
  <2> QED BY <2>1, <2>2, <2>3, OthersTracked
<1>5. ASSUME NEW s \in Sessions, UNCHANGED <<status, items>>,
             \A t \in Sessions \ {s} : req'[t] = req[t],
             req'[s].order = req[s].order, req'[s].was = req[s].was, req'[s].lines = req[s].lines,
             \/ {req[s].pc, req'[s].pc} \subseteq {"checkout read", "checkout lock"}
             \/ {req[s].pc, req'[s].pc} \subseteq {"cancel read", "cancel lock"}
      PROVE  OrdersTracked'
  <2>1. CASE {req[s].pc, req'[s].pc} \subseteq {"checkout read", "checkout lock"}
    <3>1. CheckoutKnows(s)' /\ CancelKnows(s)' /\ UpdateKnows(s)'
      BY <1>5, <2>1 DEF OrdersTracked, CheckoutKnows, CancelKnows, UpdateKnows
    <3> QED BY <1>5, <3>1, OthersTracked
  <2>2. CASE {req[s].pc, req'[s].pc} \subseteq {"cancel read", "cancel lock"}
    <3>1. CheckoutKnows(s)' /\ CancelKnows(s)' /\ UpdateKnows(s)'
      BY <1>5, <2>2 DEF OrdersTracked, CheckoutKnows, CancelKnows, UpdateKnows
    <3> QED BY <1>5, <3>1, OthersTracked
  <2> QED BY <1>5, <2>1, <2>2
<1>6. ASSUME NEW s \in Sessions, CheckoutReadProducts(s) \/ CancelReadProducts(s)
      PROVE  OrdersTracked'
  <2>1. ASSUME NEW from, NEW to, ReadProducts(s, from, to)
        PROVE  /\ req[s].pc = from /\ req'[s].pc = to
               /\ req'[s].order = req[s].order /\ req'[s].was = req[s].was /\ req'[s].lines = req[s].lines
               /\ \A t \in Sessions \ {s} : req'[t] = req[t]
               /\ UNCHANGED <<status, items>>
    BY <2>1 DEF ReadProducts, TypeOK, Requests, db
  <2> QED BY <1>5, <1>6, <2>1 DEF CheckoutReadProducts, CancelReadProducts
<1>7. ASSUME NEW s \in Sessions, NEW p \in Products, LockProduct(s, p)
      PROVE  OrdersTracked'
  <2>1. /\ req'[s].pc = req[s].pc
        /\ req'[s].order = req[s].order /\ req'[s].was = req[s].was /\ req'[s].lines = req[s].lines
        /\ \A t \in Sessions \ {s} : req'[t] = req[t]
    BY <1>7 DEF LockProduct, TypeOK, Requests
  <2> QED BY <1>5, <1>7, <2>1 DEF LockProduct
<1>8. ASSUME NEW s \in Sessions, NEW o \in OrderIds, CancelReadOrder(s, o)
      PROVE  OrdersTracked'
  <2>1. /\ req'[s].pc = "cancel read" /\ req'[s].order = o
        /\ req'[s].was = status[o] /\ req'[s].lines = items[o]
        /\ \A t \in Sessions \ {s} : req'[t] = req[t]
    BY <1>8 DEF CancelReadOrder, TypeOK, Requests
  <2>2. UNCHANGED <<status, items>> /\ status[o] \in Cancellable /\ status[o] # "none"
    BY <1>8 DEF CancelReadOrder, Cancellable, db
  <2>3. CheckoutKnows(s)' /\ CancelKnows(s)' /\ UpdateKnows(s)'
    BY <2>1, <2>2 DEF CheckoutKnows, CancelKnows, UpdateKnows
  <2> QED BY <2>1, <2>2, <2>3, OthersTracked
<1>9. ASSUME NEW s \in Sessions, NEW o \in OrderIds, NEW goal \in Statuses, UpdateOrderRead(s, o, goal)
      PROVE  OrdersTracked'
  <2>1. /\ req'[s].pc = "update" /\ req'[s].order = o
        /\ req'[s].was = status[o] /\ req'[s].goal = goal
        /\ \A t \in Sessions \ {s} : req'[t] = req[t]
    BY <1>9 DEF UpdateOrderRead, TypeOK, Requests
  <2>2. /\ UNCHANGED <<status, items>> /\ status[o] # "none"
        /\ goal \in validTransitions[status[o]] /\ status[o] \in Statuses
    BY <1>9 DEF UpdateOrderRead, TypeOK, db
  <2>3. CheckoutKnows(s)' /\ CancelKnows(s)' /\ UpdateKnows(s)'
    BY <2>1, <2>2 DEF CheckoutKnows, CancelKnows, UpdateKnows
  <2> QED BY <2>1, <2>2, <2>3, OthersTracked
<1>10. ASSUME NEW s \in Sessions, NEW p \in Products, NEW n \in 0 .. MaxCount, AdjustStockRead(s, p, n)
      PROVE  OrdersTracked'
  <2>1. /\ req'[s].pc = "adjust" /\ req'[s].order = None
        /\ \A t \in Sessions \ {s} : req'[t] = req[t]
    BY <1>10 DEF AdjustStockRead, TypeOK, Requests
  <2> QED BY <1>10, <2>1, QuietTracked DEF AdjustStockRead, db
<1>11. ASSUME NEW s \in Sessions, CheckoutCommit(s)
      PROVE  OrdersTracked'
  <2>1. req[s].order \in OrderIds
    BY <1>11 DEF CheckoutCommit, OrdersTracked, CheckoutKnows
  <2> QED BY <1>11, <2>1, CommitTracked DEF CheckoutCommit, Statuses
<1>12. ASSUME NEW s \in Sessions, CancelCommit(s)
      PROVE  OrdersTracked'
  <2>1. req[s].order \in OrderIds /\ status[req[s].order] # "none"
    BY <1>12 DEF CancelCommit, OrdersTracked, CancelKnows
  <2> QED BY <1>12, <2>1, CommitTracked DEF CancelCommit, Statuses
<1>13. ASSUME NEW s \in Sessions, UpdateOrderCommit(s)
      PROVE  OrdersTracked'
  <2>1. req[s].order \in OrderIds /\ status[req[s].order] # "none" /\ req[s].goal \in Statuses
    BY <1>13, Transitions DEF UpdateOrderCommit, OrdersTracked, UpdateKnows
  <2> QED BY <1>13, <2>1, CommitTracked DEF UpdateOrderCommit
<1>14. CASE UNCHANGED vars
  BY <1>1, <1>14 DEF vars, db
<1>15. CASE Next
  <2>1. PICK s \in Sessions : NextOf(s)
    BY <1>15 DEF Next
  <2>2. CASE CartCommit(s) \/ CheckoutReject(s) \/ AdjustStockCommit(s) \/ Abort(s) \/ DeadlockVictim(s)
    BY <1>3, <2>2 DEF CartCommit, CheckoutReject, AdjustStockCommit, Abort, DeadlockVictim
  <2>3. CASE \/ \E u \in Users, left \in SUBSET Products : RemoveItems(s, u, left)
             \/ \E p \in Products : SetActive(s, p)
    BY <1>1, <2>3 DEF RemoveItems, SetActive
  <2>4. CASE \E u \in Users, p \in Products, n \in 1 .. MaxQty : AddItemToCart(s, u, p, n) \/ UpdateItemQuantity(s, u, p, n)
    BY <1>2, <2>4 DEF AddItemToCart, UpdateItemQuantity
  <2> QED
    BY <1>4, <1>6, <1>7, <1>8, <1>9, <1>10, <1>11, <1>12, <1>13, <2>1, <2>2, <2>3, <2>4
       DEF NextOf, RemoveItemFromCart, ClearCart
<1> QED BY <1>14, <1>15

-----------------------------------------------------------------------------
(* Units held by live orders.                                              *)

Units(o, n) == {o} \X (1 .. n)

\* An order line of quantity n holds n units.
LEMMA UnitsCount ==
  ASSUME NEW o, NEW n \in Nat
  PROVE  IsFiniteSet(Units(o, n)) /\ Cardinality(Units(o, n)) = n
<1>1. /\ IsFiniteSet({o}) /\ Cardinality({o}) = 1
      /\ IsFiniteSet(1 .. n) /\ Cardinality(1 .. n) = n
  <2>1. IsFiniteSet({o}) /\ Cardinality({o}) = 1
    BY FS_Singleton
  <2>2. IsFiniteSet(1 .. n) /\ Cardinality(1 .. n) = IF 1 > n THEN 0 ELSE n - 1 + 1
    BY FS_Interval
  <2> QED BY <2>1, <2>2
<1>2. /\ IsFiniteSet({o} \X (1 .. n))
      /\ Cardinality({o} \X (1 .. n)) = Cardinality({o}) * Cardinality(1 .. n)
  BY <1>1, FS_Product
<1> QED BY <1>1, <1>2 DEF Units

\* Orders that keep their place among the live ones keep their units; so do
\* orders without a line for p.
LEMMA HeldSame ==
  ASSUME TypeOK, NEW p \in Products,
         \A x \in OrderIds : \/ items[x][p] = 0 /\ items'[x][p] = 0
                             \/ items'[x][p] = items[x][p] /\ (x \in Live' <=> x \in Live)
  PROVE  Held(p)' = Held(p)
<1>1. Live \subseteq OrderIds /\ Live' \subseteq OrderIds
  BY DEF Live
<1>2. ASSUME NEW e PROVE e \in Held(p)' => e \in Held(p)
  <2> SUFFICES ASSUME NEW x \in Live', e \in Units(x, items'[x][p])
               PROVE  e \in Held(p)
    BY DEF Held, Units
  <2>1. items'[x][p] # 0
    BY DEF Units
  <2> QED BY <1>1, <2>1 DEF Held, Units
<1>3. ASSUME NEW e PROVE e \in Held(p) => e \in Held(p)'
  <2> SUFFICES ASSUME NEW x \in Live, e \in Units(x, items[x][p])
               PROVE  e \in Held(p)'
    BY DEF Held, Units
  <2>1. items[x][p] # 0
    BY DEF Units
  <2> QED BY <1>1, <2>1 DEF Held, Units
<1> QED BY <1>2, <1>3

\* A new live order adds the units of its line.
LEMMA HeldAdd ==
  ASSUME NEW p \in Products, NEW o \in OrderIds, NEW n \in Nat,
         o \notin Live, Live' = Live \cup {o}, items'[o][p] = n,
         \A x \in Live : items'[x][p] = items[x][p],
         IsFiniteSet(Held(p))
  PROVE  IsFiniteSet(Held(p)') /\ Cardinality(Held(p)') = Cardinality(Held(p)) + n
<1>1. Held(p)' = Held(p) \cup Units(o, n)
  <2>1. ASSUME NEW e PROVE e \in Held(p)' <=> e \in Held(p) \cup Units(o, n)
    BY DEF Held, Units
  <2> QED BY <2>1
<1>2. Held(p) \cap Units(o, n) = {}
  BY DEF Held, Units
<1>3. IsFiniteSet(Units(o, n)) /\ Cardinality(Units(o, n)) = n
  BY UnitsCount
<1>4. /\ IsFiniteSet(Held(p) \cup Units(o, n))
      /\ Cardinality(Held(p) \cup Units(o, n)) =
           Cardinality(Held(p)) + Cardinality(Units(o, n)) - Cardinality(Held(p) \cap Units(o, n))
  BY <1>3, FS_Union
<1>5. Cardinality(Held(p) \cap Units(o, n)) = 0 /\ Cardinality(Held(p)) \in Nat
  BY <1>2, FS_EmptySet, FS_CardinalityType
<1> QED BY <1>1, <1>3, <1>4, <1>5

\* An order that leaves the live ones gives back the units of its line.
LEMMA HeldRemove ==
  ASSUME NEW p \in Products, NEW o \in Live, items[o][p] \in Nat,
         Live' = Live \ {o}, UNCHANGED items,
         IsFiniteSet(Held(p))
  PROVE  IsFiniteSet(Held(p)') /\ Cardinality(Held(p)') = Cardinality(Held(p)) - items[o][p]
<1>1. Held(p)' = Held(p) \ Units(o, items[o][p])
  <2>1. ASSUME NEW e PROVE e \in Held(p)' <=> e \in Held(p) \ Units(o, items[o][p])
    BY DEF Held, Units
  <2> QED BY <2>1
<1>2. Held(p) \cap Units(o, items[o][p]) = Units(o, items[o][p])
  BY DEF Held, Units
<1>3. Cardinality(Units(o, items[o][p])) = items[o][p]
  BY UnitsCount
<1>4. /\ IsFiniteSet(Held(p) \ Units(o, items[o][p]))
      /\ Cardinality(Held(p) \ Units(o, items[o][p])) =
           Cardinality(Held(p)) - Cardinality(Held(p) \cap Units(o, items[o][p]))
  BY FS_Difference
<1> QED BY <1>1, <1>2, <1>3, <1>4

-----------------------------------------------------------------------------
(* The stock ledger.                                                       *)

Balanced(p) ==
  /\ IsFiniteSet(Held(p))
  /\ p \notin stale => stock[p] + Cardinality(Held(p)) <= supply[p]

LedgerInv == TypeOK /\ OrdersTracked /\ \A p \in Products : Balanced(p)

\* A step that leaves orders, stock and supply alone leaves the ledger balanced.
LEMMA LedgerQuiet ==
  ASSUME LedgerInv, NEW p \in Products, UNCHANGED <<status, items, stock, supply, stale>>
  PROVE  Balanced(p)'
<1>1. Held(p)' = Held(p)
  BY DEF Held, Live
<1> QED BY <1>1 DEF LedgerInv, Balanced

\* A checkout moves the units of its lines from the stock to the new order.
LEMMA LedgerCheckout ==
  ASSUME LedgerInv, NEW p \in Products, NEW s \in Sessions, CheckoutCommit(s)
  PROVE  Balanced(p)'
<1> DEFINE o == req[s].order
           n == req[s].lines[p]
<1>1. /\ o \in OrderIds /\ status[o] = "none" /\ n \in Nat
      /\ stock[p] \in Nat /\ req[s].seen[p] \in Nat /\ supply[p] \in Int
<2>1. req[s].pc = "checkout lock"
  BY DEF CheckoutCommit
<2>2. CheckoutKnows(s)
  BY DEF LedgerInv, OrdersTracked
<2>3. o \in OrderIds /\ status[o] = "none"
  BY <2>1, <2>2 DEF CheckoutKnows
<2>4. req[s] \in Requests /\ stock \in [Products -> Nat] /\ supply \in [Products -> Int]
  BY DEF LedgerInv, TypeOK
<2>5. req[s].lines \in [Products -> Nat] /\ req[s].seen \in [Products -> Nat]
  BY <2>4 DEF Requests
<2> QED BY <2>3, <2>4, <2>5
<1>2. /\ status' = [status EXCEPT ![o] = "pending_payment"]
      /\ items' = [items EXCEPT ![o] = req[s].lines]
      /\ stock'[p] = IF p \in Lines(s) THEN req[s].seen[p] - n ELSE stock[p]
      /\ stale' = stale \cup Changed(s) /\ UNCHANGED supply
  BY DEF CheckoutCommit
<1>3. /\ o \notin Live /\ Live' = Live \cup {o} /\ items'[o][p] = n
      /\ \A x \in Live : items'[x][p] = items[x][p]
  BY <1>1, <1>2 DEF LedgerInv, TypeOK, Live
<1>4. IsFiniteSet(Held(p)) /\ Cardinality(Held(p)) \in Nat
  BY FS_CardinalityType DEF LedgerInv, Balanced
<1>5. IsFiniteSet(Held(p)') /\ Cardinality(Held(p)') = Cardinality(Held(p)) + n
  BY <1>1, <1>3, <1>4, HeldAdd
<1>6. p \notin stale' => p \notin stale /\ stock'[p] = stock[p] - n
  BY <1>1, <1>2 DEF Changed, Lines
<1>7. p \notin stale => stock[p] + Cardinality(Held(p)) <= supply[p]
  BY DEF LedgerInv, Balanced
<1>8. stock[p] - n + (Cardinality(Held(p)) + n) = stock[p] + Cardinality(Held(p))
  BY <1>1, <1>4
<1> QED BY <1>2, <1>5, <1>6, <1>7, <1>8 DEF Balanced

\* A cancellation that is not stale moves them back.
LEMMA LedgerCancel ==
  ASSUME LedgerInv, NEW p \in Products, NEW s \in Sessions, CancelCommit(s)
  PROVE  Balanced(p)'
<1> DEFINE o == req[s].order
           n == req[s].lines[p]
<1>1. /\ o \in OrderIds /\ status[o] # "none" /\ req[s].was \in Cancellable
      /\ req[s].lines = items[o] /\ n \in Nat /\ items[o][p] = n
      /\ stock[p] \in Nat /\ req[s].seen[p] \in Nat /\ supply[p] \in Int
  BY DEF LedgerInv, OrdersTracked, CancelKnows, CancelCommit, TypeOK, Requests
<1>2. /\ status' = [status EXCEPT ![o] = "cancelled"]
      /\ stock'[p] = IF p \in Lines(s) THEN req[s].seen[p] + n ELSE stock[p]
      /\ stale' = stale \cup Changed(s) \cup (IF status[o] # req[s].was THEN Lines(s) ELSE {})
      /\ UNCHANGED <<items, supply>>
  BY DEF CancelCommit
<1>3. IsFiniteSet(Held(p)) /\ Cardinality(Held(p)) \in Nat
  BY FS_CardinalityType DEF LedgerInv, Balanced
<1>4. p \notin stale => stock[p] + Cardinality(Held(p)) <= supply[p]
  BY DEF LedgerInv, Balanced
<1>5. p \notin stale' => p \notin stale /\ stock'[p] = stock[p] + n
  BY <1>1, <1>2 DEF Changed, Lines
<1>6. CASE status[o] = "cancelled"
  <2>1. Live' = Live
    BY <1>1, <1>2, <1>6 DEF LedgerInv, TypeOK, Live
  <2>2. Held(p)' = Held(p)
    BY <1>2, <2>1, HeldSame DEF LedgerInv
  <2>3. status[o] # req[s].was
    BY <1>1, <1>6 DEF Cancellable
  <2>4. p \notin stale' => n = 0
    BY <1>1, <1>2, <2>3 DEF Lines
  <2> QED BY <1>1, <1>2, <1>3, <1>4, <1>5, <2>2, <2>4 DEF Balanced
<1>7. CASE status[o] # "cancelled"
  <2>1. o \in Live /\ Live' = Live \ {o}
    BY <1>1, <1>2, <1>7 DEF LedgerInv, TypeOK, Live
  <2>2. IsFiniteSet(Held(p)') /\ Cardinality(Held(p)') = Cardinality(Held(p)) - n
    BY <1>1, <1>2, <1>3, <2>1, HeldRemove
  <2>3. stock[p] + n + (Cardinality(Held(p)) - n) = stock[p] + Cardinality(Held(p))
    BY <1>1, <1>3
  <2> QED BY <1>2, <1>4, <1>5, <2>2, <2>3 DEF Balanced
<1> QED BY <1>6, <1>7

\* A status update that is not stale never revives a cancelled order.
LEMMA LedgerUpdate ==
  ASSUME LedgerInv, NEW p \in Products, NEW s \in Sessions, UpdateOrderCommit(s)
  PROVE  Balanced(p)'
<1> DEFINE o == req[s].order
           n == items[o][p]
<1>1. /\ o \in OrderIds /\ status[o] # "none" /\ req[s].was \in Statuses
      /\ req[s].goal \in validTransitions[req[s].was]
      /\ n \in Nat /\ stock[p] \in Nat /\ supply[p] \in Int
  BY DEF LedgerInv, OrdersTracked, UpdateKnows, UpdateOrderCommit, TypeOK
<1>2. /\ status' = [status EXCEPT ![o] = req[s].goal]
      /\ stale' = stale \cup (IF status[o] # req[s].was THEN {x \in Products : items[o][x] > 0} ELSE {})
      /\ UNCHANGED <<items, stock, supply>>
  BY DEF UpdateOrderCommit
<1>3. IsFiniteSet(Held(p)) /\ Cardinality(Held(p)) \in Nat
  BY FS_CardinalityType DEF LedgerInv, Balanced
<1>4. p \notin stale => stock[p] + Cardinality(Held(p)) <= supply[p]
  BY DEF LedgerInv, Balanced
<1>5. req[s].goal # "none" /\ req[s].was # "cancelled"
  BY <1>1, Transitions DEF Statuses
<1>6. status'[o] = req[s].goal /\ \A x \in OrderIds \ {o} : status'[x] = status[x]
  BY <1>1, <1>2 DEF LedgerInv, TypeOK
<1>7. CASE o \in Live <=> req[s].goal # "cancelled"
  <2>1. Live' = Live
    BY <1>1, <1>5, <1>6, <1>7 DEF Live
  <2>2. Held(p)' = Held(p)
    BY <1>2, <2>1, HeldSame DEF LedgerInv
  <2> QED BY <1>2, <1>4, <2>2, <1>3 DEF Balanced
<1>8. CASE o \in Live /\ req[s].goal = "cancelled"
  <2>1. Live' = Live \ {o}
    BY <1>1, <1>6, <1>8 DEF Live
  <2>2. IsFiniteSet(Held(p)') /\ Cardinality(Held(p)') = Cardinality(Held(p)) - n
    BY <1>1, <1>2, <1>3, <1>8, <2>1, HeldRemove
  <2>3. stock[p] + (Cardinality(Held(p)) - n) <= stock[p] + Cardinality(Held(p))
    BY <1>1, <1>3
  <2> QED BY <1>1, <1>2, <1>3, <1>4, <2>2, <2>3 DEF Balanced
<1>9. CASE o \notin Live /\ req[s].goal # "cancelled"
  <2>1. status[o] = "cancelled" /\ Live' = Live \cup {o}
    BY <1>1, <1>5, <1>6, <1>9 DEF Live
  <2>2. IsFiniteSet(Held(p)') /\ Cardinality(Held(p)') = Cardinality(Held(p)) + n
    BY <1>1, <1>2, <1>3, <1>9, <2>1, HeldAdd
  <2>3. p \notin stale' => p \notin stale /\ n = 0
    BY <1>1, <1>2, <1>5, <2>1
  <2> QED BY <1>1, <1>2, <1>3, <1>4, <2>2, <2>3 DEF Balanced
<1> QED BY <1>7, <1>8, <1>9

\* A stock correction that is not stale changes stock and supply alike.
LEMMA LedgerAdjust ==
  ASSUME LedgerInv, NEW p \in Products, NEW s \in Sessions, AdjustStockCommit(s)
  PROVE  Balanced(p)'
<1>1. /\ stock[p] \in Nat /\ supply[p] \in Int
      /\ req[s].seen[p] \in Nat /\ req[s].lines[p] \in Nat
  BY DEF LedgerInv, TypeOK, Requests
<1>2. Held(p)' = Held(p)
  BY DEF AdjustStockCommit, Held, Live
<1>3. IsFiniteSet(Held(p)) /\ Cardinality(Held(p)) \in Nat
  BY FS_CardinalityType DEF LedgerInv, Balanced
<1>4. p \notin stale => stock[p] + Cardinality(Held(p)) <= supply[p]
  BY DEF LedgerInv, Balanced
<1>5. /\ stock'[p] = IF p \in req[s].todo THEN req[s].lines[p] ELSE stock[p]
      /\ supply'[p] = IF p \in req[s].todo THEN supply[p] + req[s].lines[p] - req[s].seen[p] ELSE supply[p]
      /\ stale' = stale \cup {x \in req[s].todo : stock[x] # req[s].seen[x]}
  BY DEF AdjustStockCommit
<1>6. CASE p \in req[s].todo
  BY <1>1, <1>2, <1>3, <1>4, <1>5, <1>6 DEF Balanced
<1>7. CASE p \notin req[s].todo
  BY <1>1, <1>2, <1>3, <1>4, <1>5, <1>7 DEF Balanced
<1> QED BY <1>6, <1>7

\* Every step keeps the ledger balanced.
LEMMA LedgerStep ==
  ASSUME LedgerInv, [Next]_vars
  PROVE  LedgerInv'
<1>1. TypeOK' /\ OrdersTracked'
  BY TypeStep, TrackedStep DEF LedgerInv
<1>2. ASSUME NEW p \in Products
      PROVE  Balanced(p)'
  <2>1. CASE UNCHANGED vars
    BY <2>1, LedgerQuiet DEF vars, db, history
  <2>2. CASE Next
    <3>1. PICK s \in Sessions : NextOf(s)
      BY <2>2 DEF Next
    <3>2. CASE CheckoutCommit(s) \/ CancelCommit(s) \/ UpdateOrderCommit(s) \/ AdjustStockCommit(s)
      BY <3>2, LedgerCheckout, LedgerCancel, LedgerUpdate, LedgerAdjust
    <3>3. CASE UNCHANGED <<status, items, stock, supply, stale>>
      BY <3>3, LedgerQuiet
    <3> QED
      BY <3>1, <3>2, <3>3
         DEF NextOf, AddItemToCart, UpdateItemQuantity, CartRead, CartCommit, RemoveItemFromCart, ClearCart,
             RemoveItems, CheckoutReadCart, CheckoutReadProducts, ReadProducts, LockProduct, CheckoutReject,
             CancelReadOrder, CancelReadProducts, UpdateOrderRead, AdjustStockRead, SetActive, Abort,
             DeadlockVictim, db, history
  <2> QED BY <2>1, <2>2
<1> QED BY <1>1, <1>2 DEF LedgerInv

\* Initially the stock is the supply and no order holds anything.
LEMMA LedgerInit == Init => LedgerInv
<1> SUFFICES ASSUME Init PROVE LedgerInv
  OBVIOUS
<1>1. TypeOK
  BY TypeInit
<1>2. OrdersTracked
  BY IdleFields DEF Init, OrdersTracked, CheckoutKnows, CancelKnows, UpdateKnows
<1>3. ASSUME NEW p \in Products PROVE Balanced(p)
  <2>1. Held(p) = {}
    BY DEF Init, Held, Live
  <2> QED BY <1>1, <2>1, FS_EmptySet DEF Init, Balanced, TypeOK
<1> QED BY <1>1, <1>2, <1>3 DEF LedgerInv

\* In every interleaving of requests, a product that no commit has written
\* from a stale copy is never oversold: the FOR UPDATE locks and the absolute
\* writes are enough, once what a request computes with is current.
THEOREM LedgerCorrect == Spec => []LedgerBalanced
<1>1. LedgerInv => LedgerBalanced
  BY DEF LedgerInv, Balanced, LedgerBalanced
<1> QED BY <1>1, LedgerInit, LedgerStep, PTL DEF Spec

-----------------------------------------------------------------------------
(* What a step may do to a locked product.                                 *)

\* Only the commit of the request that holds a product changes its stock.
LEMMA HolderStep ==
  ASSUME LockInv, [Next]_vars, NEW p \in Products, rowLock[p] # None, stock'[p] # stock[p]
  PROVE  rowLock'[p] = None /\ req'[rowLock[p]] = Idle
<1>1. rowLock[p] \in Sessions /\ p \in Holding(rowLock[p])
  BY DEF LockInv, LocksMatchRequests, TypeOK
<1>2. PICK s \in Sessions : CheckoutCommit(s) \/ CancelCommit(s) \/ AdjustStockCommit(s)
  <2>1. stock' # stock
    OBVIOUS
  <2>2. PICK s \in Sessions : NextOf(s)
    BY <2>1 DEF vars, db, Next
  <2>3. CheckoutCommit(s) \/ CancelCommit(s) \/ AdjustStockCommit(s)
    BY <2>1, <2>2
       DEF NextOf, AddItemToCart, UpdateItemQuantity, CartRead, CartCommit, RemoveItemFromCart, ClearCart,
           RemoveItems, CheckoutReadCart, CheckoutReadProducts, ReadProducts, LockProduct, CheckoutReject,
           CancelReadOrder, CancelReadProducts, UpdateOrderRead, UpdateOrderCommit, AdjustStockRead,
           SetActive, Abort, DeadlockVictim, db
  <2> QED BY <2>3
<1>3. rowLock[p] = s
  <2>1. stock \in [Products -> Nat]
    BY DEF LockInv, TypeOK
  <2>2. CASE CheckoutCommit(s) \/ CancelCommit(s)
    <3>1. p \in Lines(s)
      BY <2>1, <2>2 DEF CheckoutCommit, CancelCommit
    <3>2. p \in Holding(s)
      BY <2>2, <3>1 DEF CheckoutCommit, CancelCommit, Holding
    <3> QED BY <3>2 DEF LockInv, LocksMatchRequests
  <2>3. CASE AdjustStockCommit(s)
    <3>1. p \in req[s].todo /\ Writable(s, p)
      BY <2>1, <2>3 DEF AdjustStockCommit
    <3> QED BY <3>1 DEF Writable
  <2> QED BY <1>2, <2>2, <2>3
<1>4. End(s)
  BY <1>2 DEF CheckoutCommit, CancelCommit, AdjustStockCommit
<1> QED BY <1>3, <1>4 DEF End, LockInv, TypeOK

\* From the moment a request holds a product until it ends, no other request,
\* staff corrections included, changes the stock of that product.
THEOREM HolderCorrect == Spec => OnlyHolderChangesStock
<1>1. Init => LockInv
  BY LockInit
<1>2. LockInv /\ [Next]_vars =>
        [\A p \in Products :
           rowLock[p] # None /\ stock'[p] # stock[p] => rowLock'[p] = None /\ req'[rowLock[p]] = Idle]_vars
  BY HolderStep
<1> QED BY <1>1, <1>2, LockStep, PTL DEF Spec, OnlyHolderChangesStock

-----------------------------------------------------------------------------
(* Carts.                                                                  *)

\* A checkout knows the ids of the cart rows it loaded.
RowsKnown(s) ==
  /\ req[s].pc = "cart" => req[s].user \in Users
  /\ req[s].pc \in {"checkout read", "checkout lock"} =>
       req[s].user \in Users /\ \A p \in Lines(s) : req[s].rows[p] \in 1 .. rowId[req[s].user][p]

RowsNumbered ==
  /\ \A g \in gone : g[3] <= rowId[g[1]][g[2]] /\ g[1] \in Users
  /\ \A u \in Users, p \in Products : cart[u][p] > 0 => rowId[u][p] >= 1

CartInv == TypeOK /\ CartRowsKept /\ RowsNumbered /\ \A s \in Sessions : RowsKnown(s)

\* A step that leaves the carts alone keeps what is known of their rows.
LEMMA RowsQuiet ==
  ASSUME CartInv, NEW s \in Sessions, UNCHANGED <<cart, rowId, gone>>,
         \A t \in Sessions \ {s} : req'[t] = req[t], RowsKnown(s)', TypeOK'
  PROVE  CartInv'
<1>1. ASSUME NEW t \in Sessions PROVE RowsKnown(t)'
  <2>1. CASE t = s
    BY <2>1
  <2>2. CASE t # s
    BY <2>2 DEF CartInv, RowsKnown, Lines
  <2> QED BY <2>1, <2>2
<1>2. CartRowsKept' /\ RowsNumbered'
  BY DEF CartInv, CartRowsKept, RowsNumbered
<1> QED BY <1>1, <1>2 DEF CartInv

\* A request that has ended knows of no rows.
LEMMA RowsEnded ==
  ASSUME CartInv, NEW s \in Sessions, End(s)
  PROVE  /\ RowsKnown(s)'
         /\ \A t \in Sessions \ {s} : req'[t] = req[t]
<1>1. req'[s] = Idle /\ \A t \in Sessions \ {s} : req'[t] = req[t]
  BY DEF End, CartInv, TypeOK
<1> QED BY <1>1, IdleFields DEF RowsKnown

\* An insert gives a row the next number, an update keeps its number.
LEMMA RowsCart ==
  ASSUME CartInv, NEW s \in Sessions, CartCommit(s), TypeOK'
  PROVE  CartInv'
<1> DEFINE u == req[s].user
<1>1. u \in Users /\ req[s].lines \in [Products -> Nat]
  BY DEF CartInv, RowsKnown, CartCommit, TypeOK, Requests
<1>2. PICK p \in Lines(s) :
        \/ /\ cart[u][p] = 0
           /\ cart' = [cart EXCEPT ![u][p] = req[s].lines[p]]
           /\ rowId' = [rowId EXCEPT ![u][p] = @ + 1]
        \/ /\ cart[u][p] > 0
           /\ cart' = [cart EXCEPT ![u][p] = req[s].lines[p]]
           /\ UNCHANGED rowId
        \/ UNCHANGED <<cart, rowId>>
  BY DEF CartCommit, RowAlive
<1>3. p \in Products /\ req[s].lines[p] > 0 /\ req[s].lines[p] \in Nat
  BY <1>1 DEF Lines
<1>4. /\ cart \in [Users -> [Products -> Nat]] /\ rowId \in [Users -> [Products -> 0 .. MaxRows]]
      /\ gone' = gone /\ MaxRows \in Nat
  BY StoreAssumption DEF CartInv, TypeOK, CartCommit, history
<1>5. RowsKnown(s)' /\ \A t \in Sessions \ {s} : req'[t] = req[t]
  BY RowsEnded DEF CartCommit
<1>6. CASE UNCHANGED <<cart, rowId>>
  BY <1>4, <1>5, <1>6, RowsQuiet
<1>7. CASE /\ cart[u][p] > 0
           /\ cart' = [cart EXCEPT ![u][p] = req[s].lines[p]]
           /\ UNCHANGED rowId
  <2>1. \A v \in Users, q \in Products : cart'[v][q] > 0 <=> cart[v][q] > 0
    BY <1>1, <1>3, <1>4, <1>7
  <2>2. CartRowsKept' /\ RowsNumbered'
    BY <1>4, <1>7, <2>1 DEF CartInv, CartRowsKept, RowsNumbered
  <2>3. ASSUME NEW t \in Sessions PROVE RowsKnown(t)'
    BY <1>5, <1>7 DEF CartInv, RowsKnown, Lines
  <2> QED BY <2>2, <2>3 DEF CartInv
<1>8. CASE /\ cart[u][p] = 0
           /\ cart' = [cart EXCEPT ![u][p] = req[s].lines[p]]
           /\ rowId' = [rowId EXCEPT ![u][p] = @ + 1]
  <2> DEFINE n == rowId[u][p]
  <2>1. n \in Nat /\ rowId'[u][p] = n + 1 /\ cart'[u][p] > 0
    BY <1>1, <1>3, <1>4, <1>8
  <2>2. \A v \in Users, q \in Products :
          v # u \/ q # p => rowId'[v][q] = rowId[v][q] /\ cart'[v][q] = cart[v][q]
    BY <1>1, <1>3, <1>4, <1>8
  <2>3. <<u, p, n + 1>> \notin gone
    BY <2>1 DEF CartInv, RowsNumbered
  <2>4. CartRowsKept'
    <3> SUFFICES ASSUME NEW v \in Users, NEW q \in Products, NEW k \in 1 .. rowId'[v][q]
                 PROVE  <<v, q, k>> \notin gone <=> k = rowId'[v][q] /\ cart'[v][q] > 0
      BY <1>4 DEF CartRowsKept
    <3>1. CASE v # u \/ q # p
      BY <2>2, <3>1 DEF CartInv, CartRowsKept
    <3>2. CASE v = u /\ q = p /\ k = n + 1
      BY <2>1, <2>3, <3>2
    <3>3. CASE v = u /\ q = p /\ k # n + 1
      <4>1. k \in 1 .. rowId[u][p] /\ k # rowId'[u][p]
        BY <2>1, <3>3
      <4>2. <<u, p, k>> \in gone
        BY <1>1, <1>3, <1>8, <4>1 DEF CartInv, CartRowsKept
      <4> QED BY <3>3, <4>1, <4>2
    <3> QED BY <3>1, <3>2, <3>3
  <2>5. RowsNumbered'
    <3>1. ASSUME NEW g \in gone PROVE g[3] <= rowId'[g[1]][g[2]] /\ g[1] \in Users
      <4>1. g[1] \in Users /\ g[2] \in Products /\ g[3] \in Nat /\ g[3] <= rowId[g[1]][g[2]]
        BY <1>4 DEF CartInv, RowsNumbered, TypeOK
      <4>2. CASE g[1] = u /\ g[2] = p
        BY <2>1, <4>1, <4>2
      <4>3. CASE g[1] # u \/ g[2] # p
        BY <2>2, <4>1, <4>3
      <4> QED BY <4>1, <4>2, <4>3
    <3>2. \A v \in Users, q \in Products : cart'[v][q] > 0 => rowId'[v][q] >= 1
      BY <2>1, <2>2 DEF CartInv, RowsNumbered
    <3> QED BY <1>4, <3>1, <3>2 DEF RowsNumbered
  <2>6. ASSUME NEW t \in Sessions PROVE RowsKnown(t)'
    <3>1. CASE t = s
      BY <1>5, <3>1
    <3>2. CASE t # s
      <4>1. req'[t] = req[t] /\ RowsKnown(t) /\ req[t].rows \in [Products -> 0 .. MaxRows]
        BY <1>5, <3>2 DEF CartInv, TypeOK, Requests
      <4>2. \A v \in Users, q \in Products : rowId[v][q] \in Nat /\ rowId'[v][q] >= rowId[v][q] /\ rowId'[v][q] \in Nat
        BY <1>4, <2>1, <2>2
      <4>3. ASSUME req[t].pc \in {"checkout read", "checkout lock"}, NEW q \in Lines(t)
            PROVE  req[t].user \in Users /\ req[t].rows[q] \in 1 .. rowId'[req[t].user][q]
        <5>1. req[t].user \in Users /\ q \in Products /\ req[t].rows[q] \in 1 .. rowId[req[t].user][q]
          BY <4>1, <4>3 DEF RowsKnown, Lines
        <5> QED BY <4>2, <5>1
      <4>4. Lines(t)' = Lines(t)
        BY <4>1 DEF Lines
      <4>5. req[t].pc \in {"checkout read", "checkout lock"} => req[t].user \in Users
        BY <4>1 DEF RowsKnown
      <4> QED BY <4>1, <4>3, <4>4, <4>5 DEF RowsKnown
    <3> QED BY <3>1, <3>2
  <2> QED BY <2>4, <2>5, <2>6 DEF CartInv
<1> QED BY <1>2, <1>6, <1>7, <1>8

\* Rows that leave a cart are numbered, and are the last ones of their product.
LEMMA RowsLeave ==
  ASSUME CartInv, NEW u \in Users, NEW left,
         \A p \in Products : p \in left => cart[u][p] > 0,
         NEW more, \A g \in more : g \in {<<u, p, rowId[u][p]>> : p \in left \cap Products} \/ g \in gone,
         \A p \in left \cap Products : <<u, p, rowId[u][p]>> \in more,
         gone' = gone \cup more, UNCHANGED rowId,
         cart' = [cart EXCEPT ![u] = [p \in Products |-> IF p \in left THEN 0 ELSE @[p]]]
  PROVE  CartRowsKept' /\ RowsNumbered'
<1>1. cart \in [Users -> [Products -> Nat]] /\ rowId \in [Users -> [Products -> Nat]]
  BY StoreAssumption DEF CartInv, TypeOK
<1>2. \A v \in Users, p \in Products : cart'[v][p] = IF v = u /\ p \in left THEN 0 ELSE cart[v][p]
  BY <1>1
<1>3. \A v \in Users, p \in Products, k \in Nat :
        <<v, p, k>> \in gone' <=> <<v, p, k>> \in gone \/ (v = u /\ p \in left /\ k = rowId[u][p])
  OBVIOUS
<1>4. CartRowsKept'
  <2> SUFFICES ASSUME NEW v \in Users, NEW p \in Products, NEW k \in 1 .. rowId[v][p]
               PROVE  <<v, p, k>> \notin gone' <=> k = rowId[v][p] /\ cart'[v][p] > 0
    BY DEF CartRowsKept
  <2>1. k \in Nat /\ (<<v, p, k>> \notin gone <=> k = rowId[v][p] /\ cart[v][p] > 0)
    BY <1>1 DEF CartInv, CartRowsKept
  <2>2. <<v, p, k>> \in gone' <=> <<v, p, k>> \in gone \/ (v = u /\ p \in left /\ k = rowId[u][p])
    BY <1>3, <2>1
  <2>3. CASE v = u /\ p \in left
    BY <1>2, <2>1, <2>2, <2>3
  <2>4. CASE ~ (v = u /\ p \in left)
    BY <1>2, <2>1, <2>2, <2>4
  <2> QED BY <2>3, <2>4
<1>5. RowsNumbered'
  <2>1. ASSUME NEW g \in gone' PROVE g[3] <= rowId[g[1]][g[2]] /\ g[1] \in Users
    <3>1. CASE g \in gone
      BY <3>1 DEF CartInv, RowsNumbered
    <3>2. CASE g \notin gone
      <4>1. PICK p \in left \cap Products : g = <<u, p, rowId[u][p]>>
        BY <2>1, <3>2
      <4>2. g[1] = u /\ g[2] = p /\ g[3] = rowId[u][p] /\ rowId[u][p] \in Nat
        BY <1>1, <4>1
      <4> QED BY <4>2
    <3> QED BY <3>1, <3>2
  <2>2. \A v \in Users, p \in Products : cart'[v][p] > 0 => rowId'[v][p] >= 1
    BY <1>1, <1>2 DEF CartInv, RowsNumbered
  <2> QED BY <2>1, <2>2 DEF RowsNumbered
<1> QED BY <1>4, <1>5

\* A parent removes rows that are there.
LEMMA RowsRemoved ==
  ASSUME CartInv, NEW s \in Sessions, NEW u \in Users, NEW ps \in SUBSET Products, RemoveItems(s, u, ps), TypeOK'
  PROVE  CartInv'
<1> DEFINE left == {x \in ps : cart[u][x] > 0}
           more == {<<u, p, rowId[u][p]>> : p \in left}
<1>1. cart' = [cart EXCEPT ![u] = [p \in Products |-> IF p \in left THEN 0 ELSE @[p]]]
  <2>1. cart \in [Users -> [Products -> Nat]]
    BY DEF CartInv, TypeOK
  <2>2. [p \in Products |-> IF p \in ps THEN 0 ELSE cart[u][p]] = [p \in Products |-> IF p \in left THEN 0 ELSE cart[u][p]]
    BY <2>1
  <2> QED BY <2>2 DEF RemoveItems
<1>2. gone' = gone \cup more /\ UNCHANGED <<rowId, req>>
  BY DEF RemoveItems
<1>3. CartRowsKept' /\ RowsNumbered'
  <2>1. \A p \in Products : p \in left => cart[u][p] > 0
    OBVIOUS
  <2>2. /\ \A g \in more : g \in {<<u, p, rowId[u][p]>> : p \in left \cap Products} \/ g \in gone
        /\ \A p \in left \cap Products : <<u, p, rowId[u][p]>> \in more
    OBVIOUS
  <2> HIDE DEF left, more
  <2> QED BY <1>1, <1>2, <2>1, <2>2, RowsLeave
<1>4. \A t \in Sessions : RowsKnown(t)'
  BY <1>2 DEF CartInv, RowsKnown, Lines
<1> QED BY <1>3, <1>4 DEF CartInv

\* A checkout takes the rows it loaded: those that are still there leave the
\* cart, and the others had been removed or ordered before.
LEMMA RowsTaken ==
  ASSUME CartInv, NEW s \in Sessions, CheckoutCommit(s), TypeOK'
  PROVE  CartInv'
<1> DEFINE u == req[s].user
           left == {p \in Lines(s) : RowAlive(s, u, p)}
<1>1. u \in Users /\ Lines(s) \subseteq Products /\ \A p \in Lines(s) : req[s].rows[p] \in 1 .. rowId[u][p]
  BY DEF CartInv, RowsKnown, CheckoutCommit, Lines
<1>2. cart' = [cart EXCEPT ![u] = [p \in Products |-> IF p \in left THEN 0 ELSE @[p]]]
  BY DEF CheckoutCommit
<1>3. gone' = gone \cup Taken(s) /\ UNCHANGED rowId
  BY DEF CheckoutCommit
<1>4. \A p \in Products : p \in left => cart[u][p] > 0
  BY DEF RowAlive
<1>5. ASSUME NEW g \in Taken(s)
      PROVE  g \in {<<u, p, rowId[u][p]>> : p \in left \cap Products} \/ g \in gone
  <2>1. PICK p \in Lines(s) : g = <<u, p, req[s].rows[p]>>
    BY <1>5 DEF Taken
  <2>2. CASE p \in left
    BY <1>1, <2>1, <2>2 DEF RowAlive
  <2>3. CASE p \notin left
    <3>1. ~ (req[s].rows[p] = rowId[u][p] /\ cart[u][p] > 0)
      BY <2>3 DEF RowAlive
    <3>2. <<u, p, req[s].rows[p]>> \in gone
      BY <1>1, <3>1 DEF CartInv, CartRowsKept
    <3> QED BY <2>1, <3>2
  <2> QED BY <2>2, <2>3
<1>6. \A p \in left \cap Products : <<u, p, rowId[u][p]>> \in Taken(s)
  BY DEF RowAlive, Taken
<1>7. CartRowsKept' /\ RowsNumbered'
  <2> HIDE DEF u, left
  <2> QED BY <1>1, <1>2, <1>3, <1>4, <1>5, <1>6, RowsLeave
<1>8. RowsKnown(s)' /\ \A t \in Sessions \ {s} : req'[t] = req[t]
  BY RowsEnded DEF CheckoutCommit
<1>9. \A t \in Sessions : RowsKnown(t)'
  BY <1>3, <1>8 DEF CartInv, RowsKnown, Lines
<1> QED BY <1>7, <1>9 DEF CartInv

\* Every step keeps the cart rows.
LEMMA RowsStep ==
  ASSUME CartInv, [Next]_vars
  PROVE  CartInv'
<1>0. TypeOK'
  BY TypeStep DEF CartInv
<1>1. CASE UNCHANGED vars
  BY <1>0, <1>1 DEF CartInv, CartRowsKept, RowsNumbered, RowsKnown, Lines, vars, db, history
<1>2. ASSUME NEW s \in Sessions, CartCommit(s) \/ CheckoutCommit(s)
      PROVE  CartInv'
  BY <1>0, <1>2, RowsCart, RowsTaken
<1>3. ASSUME NEW s \in Sessions, NEW u \in Users, NEW ps \in SUBSET Products, RemoveItems(s, u, ps)
      PROVE  CartInv'
  BY <1>0, <1>3, RowsRemoved
<1>4. ASSUME NEW s \in Sessions, End(s), UNCHANGED <<cart, rowId, gone>>
      PROVE  CartInv'
  BY <1>0, <1>4, RowsEnded, RowsQuiet
<1>5. ASSUME NEW s \in Sessions, UNCHANGED <<cart, rowId, gone, req>>
      PROVE  CartInv'
  <2>1. RowsKnown(s)'
    BY <1>5 DEF CartInv, RowsKnown, Lines
  <2> QED BY <1>0, <1>5, <2>1, RowsQuiet
<1>6. ASSUME NEW s \in Sessions, NEW r, req' = [req EXCEPT ![s] = r], UNCHANGED <<cart, rowId, gone>>,
             r.pc \notin {"checkout read", "checkout lock"},
             r.pc = "cart" => r.user \in Users
      PROVE  CartInv'
  <2>1. req'[s] = r /\ \A t \in Sessions \ {s} : req'[t] = req[t]
    BY <1>6 DEF CartInv, TypeOK
  <2>2. RowsKnown(s)'
    BY <1>6, <2>1 DEF RowsKnown
  <2> QED BY <1>0, <1>6, <2>1, <2>2, RowsQuiet
<1>7. ASSUME NEW s \in Sessions, NEW u \in Users, NEW p \in Products, NEW n, CartRead(s, u, p, n)
      PROVE  CartInv'
  <2>1. PICK r : r = [Idle EXCEPT !.pc = "cart", !.user = u, !.lines[p] = n,
                                  !.rows[p] = IF cart[u][p] > 0 THEN rowId[u][p] ELSE 0]
    OBVIOUS
  <2>2. r.pc = "cart" /\ r.user = u
    BY <2>1 DEF Idle
  <2> QED BY <1>6, <1>7, <2>1, <2>2 DEF CartRead, db, history
<1>8. ASSUME NEW s \in Sessions, NEW u \in Users, NEW o \in OrderIds, CheckoutReadCart(s, u, o)
      PROVE  CartInv'
  <2>1. /\ req'[s].user = u /\ req'[s].lines = cart[u]
        /\ req'[s].rows = [p \in Products |-> IF cart[u][p] > 0 THEN rowId[u][p] ELSE 0]
        /\ req'[s].pc = "checkout read"
        /\ \A t \in Sessions \ {s} : req'[t] = req[t]
    BY <1>8 DEF CheckoutReadCart, CartInv, TypeOK, Idle
  <2>2. UNCHANGED <<cart, rowId, gone>>
    BY <1>8 DEF CheckoutReadCart, db, history
  <2>3. \A p \in Products : cart[u][p] > 0 => rowId[u][p] \in 1 .. rowId[u][p]
    BY StoreAssumption DEF CartInv, RowsNumbered, TypeOK
  <2>4. RowsKnown(s)'
    BY <2>1, <2>2, <2>3 DEF RowsKnown, Lines
  <2> QED BY <1>0, <2>1, <2>2, <2>4, RowsQuiet
<1>9. ASSUME NEW s \in Sessions, NEW r, req' = [req EXCEPT ![s] = r], UNCHANGED <<cart, rowId, gone>>,
             r.user = req[s].user, r.lines = req[s].lines, r.rows = req[s].rows,
             r.pc \in {"checkout read", "checkout lock"} => req[s].pc \in {"checkout read", "checkout lock"},
             r.pc # "cart"
      PROVE  CartInv'
  <2>1. req'[s] = r /\ \A t \in Sessions \ {s} : req'[t] = req[t]
    BY <1>9 DEF CartInv, TypeOK
  <2>2. RowsKnown(s)
    BY DEF CartInv
  <2>3. RowsKnown(s)'
    BY <1>9, <2>1, <2>2 DEF RowsKnown, Lines
  <2> QED BY <1>0, <1>9, <2>1, <2>3, RowsQuiet
<1>10. ASSUME NEW s \in Sessions, NEW p \in Products, LockProduct(s, p)
      PROVE  CartInv'
  <2>1. req[s] \in Requests
    BY DEF CartInv, TypeOK
  <2>2. PICK r : r = [req[s] EXCEPT !.todo = @ \ {p}]
    OBVIOUS
  <2>3. r.user = req[s].user /\ r.lines = req[s].lines /\ r.rows = req[s].rows /\ r.pc = req[s].pc
    BY <2>1, <2>2 DEF Requests
  <2>4. req' = [req EXCEPT ![s] = r]
    BY <1>10, <2>2 DEF LockProduct
  <2> QED BY <1>9, <1>10, <2>3, <2>4 DEF LockProduct, history
<1>11. ASSUME NEW s \in Sessions, CheckoutReadProducts(s) \/ CancelReadProducts(s)
      PROVE  CartInv'
  <2>1. req[s] \in Requests
    BY DEF CartInv, TypeOK
  <2>2. PICK from, to : ReadProducts(s, from, to) /\ to # "cart"
                        /\ (to \in {"checkout read", "checkout lock"} => from \in {"checkout read", "checkout lock"})
    <3>1. CASE CheckoutReadProducts(s)
      <4>1. ReadProducts(s, "checkout read", "checkout lock")
        BY <3>1 DEF CheckoutReadProducts
      <4>2. "checkout lock" # "cart" /\ ("checkout lock" \in {"checkout read", "checkout lock"} => "checkout read" \in {"checkout read", "checkout lock"})
        OBVIOUS
      <4> QED BY <4>1, <4>2, Zenon
    <3>2. CASE CancelReadProducts(s)
      <4>1. ReadProducts(s, "cancel read", "cancel lock")
        BY <3>2 DEF CancelReadProducts
      <4>2. "cancel lock" # "cart" /\ ("cancel lock" \in {"checkout read", "checkout lock"} => "cancel read" \in {"checkout read", "checkout lock"})
        OBVIOUS
      <4> QED BY <4>1, <4>2, Zenon
    <3> QED BY <1>11, <3>1, <3>2
  <2>3. PICK r : r = [req[s] EXCEPT !.pc = to,
                         !.seen = [p \in Products |-> IF p \in Lines(s) THEN stock[p] ELSE 0],
                         !.onSale = Lines(s) \cap active,
                         !.todo = Lines(s)]
    OBVIOUS
  <2>4. r.user = req[s].user /\ r.lines = req[s].lines /\ r.rows = req[s].rows /\ r.pc = to
    BY <2>1, <2>3 DEF Requests
  <2>5. req' = [req EXCEPT ![s] = r] /\ UNCHANGED <<cart, rowId, gone>> /\ req[s].pc = from
    BY <2>2, <2>3 DEF ReadProducts, db, history
  <2> QED BY <1>9, <2>2, <2>4, <2>5
<1>12. ASSUME NEW s \in Sessions, NEW o \in OrderIds, CancelReadOrder(s, o)
      PROVE  CartInv'
  <2>1. PICK r : r = [Idle EXCEPT !.pc = "cancel read", !.order = o, !.was = status[o], !.lines = items[o]]
    OBVIOUS
  <2>2. r.pc = "cancel read"
    BY <2>1 DEF Idle
  <2> QED BY <1>6, <1>12, <2>1, <2>2 DEF CancelReadOrder, db, history
<1>13. ASSUME NEW s \in Sessions, NEW o \in OrderIds, NEW goal, UpdateOrderRead(s, o, goal)
      PROVE  CartInv'
  <2>1. PICK r : r = [Idle EXCEPT !.pc = "update", !.order = o, !.was = status[o], !.goal = goal]
    OBVIOUS
  <2>2. r.pc = "update"
    BY <2>1 DEF Idle
  <2> QED BY <1>6, <1>13, <2>1, <2>2 DEF UpdateOrderRead, db, history
<1>14. ASSUME NEW s \in Sessions, NEW p \in Products, NEW n, AdjustStockRead(s, p, n)
      PROVE  CartInv'
  <2>1. PICK r : r = [Idle EXCEPT !.pc = "adjust", !.todo = {p}, !.lines[p] = n, !.seen[p] = stock[p]]
    OBVIOUS
  <2>2. r.pc = "adjust"
    BY <2>1 DEF Idle
  <2> QED BY <1>6, <1>14, <2>1, <2>2 DEF AdjustStockRead, db
<1>15. CASE Next
  <2>1. PICK s \in Sessions : NextOf(s)
    BY <1>15 DEF Next
  <2>2. CASE CheckoutReject(s) \/ CancelCommit(s) \/ UpdateOrderCommit(s) \/ AdjustStockCommit(s)
             \/ Abort(s) \/ DeadlockVictim(s)
    BY <1>4, <2>2 DEF CheckoutReject, CancelCommit, UpdateOrderCommit, AdjustStockCommit, Abort, DeadlockVictim, history
  <2>3. ASSUME NEW p \in Products, SetActive(s, p)
        PROVE  CartInv'
    BY <1>5, <2>3 DEF SetActive, history
  <2>4. ASSUME NEW u \in Users, RemoveItems(s, u, Products) \/ \E p \in Products : RemoveItems(s, u, {p})
        PROVE  CartInv'
    BY <1>3, <2>4
  <2>5. ASSUME NEW u \in Users, NEW p \in Products, NEW q, AddItemToCart(s, u, p, q) \/ UpdateItemQuantity(s, u, p, q)
        PROVE  CartInv'
    BY <1>7, <2>5 DEF AddItemToCart, UpdateItemQuantity
  <2> QED
    BY <1>2, <1>8, <1>10, <1>11, <1>12, <1>13, <1>14, <2>1, <2>2, <2>3, <2>4, <2>5, Zenon
       DEF NextOf, RemoveItemFromCart, ClearCart
<1> QED BY <1>1, <1>15

\* Whatever runs at the same time, the cart of a parent loses a row only to the
\* parent and to checkouts that loaded that row, and keeps none of theirs.
THEOREM CartRowsCorrect == Spec => []CartRowsKept
<1>1. Init => CartInv
  <2> SUFFICES ASSUME Init PROVE CartInv
    OBVIOUS
  <2>1. TypeOK
    BY TypeInit
  <2>2. \A u \in Users, p \in Products : rowId[u][p] = 0 /\ cart[u][p] = 0
    BY DEF Init, NoLines
  <2>3. CartRowsKept /\ RowsNumbered
    BY <2>2 DEF Init, CartRowsKept, RowsNumbered
  <2>4. \A s \in Sessions : RowsKnown(s)
    BY IdleFields DEF Init, RowsKnown
  <2> QED BY <2>1, <2>3, <2>4 DEF CartInv
<1>2. CartInv => CartRowsKept
  BY DEF CartInv
<1> QED BY <1>1, <1>2, RowsStep, PTL DEF Spec

-----------------------------------------------------------------------------
(* Requests that do not overlap.  Nobody else writes between the reads of a    *)
(* request and its commit, so what it knows is what the tables hold.           *)

\* A session takes a step only while no other one has a request in flight.
OthersIdle(s) == \A t \in Sessions \ {s} : req[t].pc = "idle"
SerialNext == \E s \in Sessions : NextOf(s) /\ OthersIdle(s)
SerialSpec == Init /\ [][SerialNext]_vars

OneSession == \A s, t \in Sessions : s = t

LockReads(r) == r.seen = [p \in Products |-> IF r.lines[p] > 0 THEN stock[p] ELSE 0]

KnowsCart(r) ==
  /\ r.user \in Users
  /\ \A p \in Products : r.lines[p] > 0 => r.lines[p] <= stock[p] /\ (p \in active \/ cart[r.user][p] > 0)
KnowsCheckout(r) ==
  /\ r.user \in Users /\ r.order \in OrderIds /\ status[r.order] = "none"
  /\ r.lines = cart[r.user] /\ \E p \in Products : r.lines[p] > 0
  /\ \A p \in Products : r.lines[p] > 0 => r.rows[p] = rowId[r.user][p]
  /\ r.pc = "checkout lock" => LockReads(r) /\ r.onSale \subseteq active
KnowsCancel(r) ==
  /\ r.order \in OrderIds /\ status[r.order] \in Cancellable
  /\ r.lines = items[r.order]
  /\ r.pc = "cancel lock" => LockReads(r)
KnowsUpdate(r) ==
  r.order \in OrderIds /\ status[r.order] \in Statuses /\ r.goal \in validTransitions[status[r.order]]

Knows(r) ==
  /\ r.pc = "cart" => KnowsCart(r)
  /\ r.pc \in {"checkout read", "checkout lock"} => KnowsCheckout(r)
  /\ r.pc \in {"cancel read", "cancel lock"} => KnowsCancel(r)
  /\ r.pc = "update" => KnowsUpdate(r)
  /\ r.pc = "adjust" => \E p \in Products : r.todo = {p}

SerialInv == TypeOK /\ \A s \in Sessions : Knows(req[s])

\* Session s has gone on to r, and the tables let it know what it must.
LEMMA SerialGoesOn ==
  ASSUME SerialInv, TypeOK', NEW s \in Sessions, OthersIdle(s), NEW r, req' = [req EXCEPT ![s] = r],
         r.pc = "idle" \/ Knows(r)'
  PROVE  SerialInv'
<1>1. req'[s] = r /\ \A t \in Sessions \ {s} : req'[t].pc = "idle"
  BY DEF OthersIdle, SerialInv, TypeOK
<1>2. \A t \in Sessions : req'[t].pc = "idle" \/ (req'[t] = r /\ Knows(r)')
  BY <1>1
<1> QED BY <1>2 DEF SerialInv, Knows

LEMMA SerialStep ==
  ASSUME SerialInv, [SerialNext]_vars
  PROVE  SerialInv'
<1>0. TypeOK /\ TypeOK'
  BY TypeStep DEF SerialInv, SerialNext, Next
<1>1. CASE UNCHANGED vars
  <2>1. UNCHANGED <<stock, active, cart, rowId, status, items, req>>
    BY <1>1 DEF vars, db
  <2>2. ASSUME NEW r, Knows(r) PROVE Knows(r)'
    BY <2>1, <2>2 DEF Knows, KnowsCart, KnowsCheckout, KnowsCancel, KnowsUpdate, LockReads
  <2> QED BY <1>0, <2>1, <2>2 DEF SerialInv
<1>2. ASSUME NEW s \in Sessions, OthersIdle(s), End(s)
      PROVE  SerialInv'
  <2>1. req' = [req EXCEPT ![s] = Idle] /\ Idle.pc = "idle"
    BY <1>2 DEF End, Idle
  <2> QED BY <1>0, <1>2, <2>1, SerialGoesOn
<1>3. ASSUME NEW s \in Sessions, OthersIdle(s), req[s].pc = "idle", UNCHANGED req
      PROVE  SerialInv'
  <2>1. req' = [req EXCEPT ![s] = req[s]]
    BY <1>0, <1>3 DEF TypeOK
  <2> QED BY <1>0, <1>3, <2>1, SerialGoesOn
<1>4. ASSUME NEW s \in Sessions, OthersIdle(s), NEW u \in Users, NEW p \in Products, NEW n, p \in active \/ cart[u][p] > 0,
             CartRead(s, u, p, n)
      PROVE  SerialInv'
  <2>1. PICK r : r = [Idle EXCEPT !.pc = "cart", !.user = u, !.lines[p] = n,
                                  !.rows[p] = IF cart[u][p] > 0 THEN rowId[u][p] ELSE 0]
    OBVIOUS
  <2>2. r.pc = "cart" /\ r.user = u /\ r.lines = [NoLines EXCEPT ![p] = n]
    BY <2>1 DEF Idle
  <2>3. r.lines[p] = n /\ \A x \in Products \ {p} : r.lines[x] = 0
    BY <2>2 DEF NoLines
  <2>4. req' = [req EXCEPT ![s] = r] /\ n <= stock[p] /\ UNCHANGED <<stock, active, cart>>
    BY <1>4, <2>1 DEF CartRead, db
  <2>5. Knows(r)'
    BY <1>4, <2>2, <2>3, <2>4 DEF Knows, KnowsCart
  <2> QED BY <1>0, <1>4, <2>4, <2>5, SerialGoesOn
<1>5. ASSUME NEW s \in Sessions, OthersIdle(s), NEW u \in Users, NEW o \in OrderIds, CheckoutReadCart(s, u, o)
      PROVE  SerialInv'
  <2>1. PICK r : r = [Idle EXCEPT !.pc = "checkout read", !.user = u, !.order = o, !.lines = cart[u],
                                  !.rows = [p \in Products |-> IF cart[u][p] > 0 THEN rowId[u][p] ELSE 0]]
    OBVIOUS
  <2>2. /\ r.pc = "checkout read" /\ r.user = u /\ r.order = o /\ r.lines = cart[u]
        /\ r.rows = [p \in Products |-> IF cart[u][p] > 0 THEN rowId[u][p] ELSE 0]
    BY <2>1 DEF Idle
  <2>3. /\ req' = [req EXCEPT ![s] = r] /\ status[o] = "none" /\ \E p \in Products : cart[u][p] > 0
        /\ UNCHANGED <<stock, active, cart, rowId, status>>
    BY <1>5, <2>1 DEF CheckoutReadCart, db
  <2>4. Knows(r)'
    BY <2>2, <2>3 DEF Knows, KnowsCheckout
  <2> QED BY <1>0, <1>5, <2>3, <2>4, SerialGoesOn
<1>6. ASSUME NEW s \in Sessions, OthersIdle(s), NEW from, NEW to, ReadProducts(s, from, to),
             (from = "checkout read" /\ to = "checkout lock") \/ (from = "cancel read" /\ to = "cancel lock")
      PROVE  SerialInv'
  <2>2. PICK q : q = req[s]
    OBVIOUS
  <2>3. q \in Requests /\ Knows(q) /\ q.pc = from
    BY <1>6, <2>2 DEF SerialInv, TypeOK, ReadProducts
  <2>4. PICK r : r = [q EXCEPT !.pc = to,
                               !.seen = [p \in Products |-> IF p \in Lines(s) THEN stock[p] ELSE 0],
                               !.onSale = Lines(s) \cap active, !.todo = Lines(s)]
    OBVIOUS
  <2>5. /\ r.pc = to /\ r.user = q.user /\ r.order = q.order /\ r.lines = q.lines /\ r.rows = q.rows
        /\ r.seen = [p \in Products |-> IF p \in Lines(s) THEN stock[p] ELSE 0] /\ r.onSale = Lines(s) \cap active
    BY <2>3, <2>4 DEF Requests
  <2>6. r.seen = [p \in Products |-> IF r.lines[p] > 0 THEN stock[p] ELSE 0] /\ r.onSale \subseteq active
    BY <2>2, <2>5 DEF Lines
  <2>7. req' = [req EXCEPT ![s] = r] /\ UNCHANGED <<stock, active, cart, rowId, status, items>>
    BY <1>6, <2>2, <2>4 DEF ReadProducts, db
  <2>8. LockReads(r)'
    BY <2>6, <2>7 DEF LockReads
  <2>9. ASSUME from = "checkout read" /\ to = "checkout lock"
        PROVE  Knows(r)'
    <3>1. KnowsCheckout(q)
      BY <2>3, <2>9 DEF Knows
    <3>2. KnowsCheckout(r)'
      BY <2>5, <2>6, <2>7, <2>8, <3>1 DEF KnowsCheckout
    <3> QED BY <2>5, <2>9, <3>2 DEF Knows
  <2>10. ASSUME from = "cancel read" /\ to = "cancel lock"
        PROVE  Knows(r)'
    <3>1. KnowsCancel(q)
      BY <2>3, <2>10 DEF Knows
    <3>2. KnowsCancel(r)'
      BY <2>5, <2>7, <2>8, <3>1 DEF KnowsCancel
    <3> QED BY <2>5, <2>10, <3>2 DEF Knows
  <2>11. Knows(r)'
    BY <1>6, <2>9, <2>10
  <2> QED BY <1>0, <1>6, <2>7, <2>11, SerialGoesOn
<1>7. ASSUME NEW s \in Sessions, OthersIdle(s), NEW p \in Products, LockProduct(s, p)
      PROVE  SerialInv'
  <2>1. PICK q : q = req[s]
    OBVIOUS
  <2>2. q \in Requests /\ Knows(q) /\ q.pc \in {"checkout lock", "cancel lock"}
    BY <1>7, <2>1 DEF SerialInv, TypeOK, LockProduct
  <2>3. PICK r : r = [q EXCEPT !.todo = q.todo \ {p}]
    OBVIOUS
  <2>4. /\ r.pc = q.pc /\ r.user = q.user /\ r.order = q.order /\ r.lines = q.lines /\ r.rows = q.rows
        /\ r.seen = q.seen /\ r.onSale = q.onSale
    BY <2>2, <2>3 DEF Requests
  <2>5. req' = [req EXCEPT ![s] = r] /\ UNCHANGED <<stock, active, cart, rowId, status, items>>
    BY <1>0, <1>7, <2>1, <2>3 DEF LockProduct, TypeOK
  <2>6. Knows(r)'
    BY <2>2, <2>4, <2>5 DEF Knows, KnowsCheckout, KnowsCancel, LockReads
  <2> QED BY <1>0, <1>7, <2>5, <2>6, SerialGoesOn
<1>8. ASSUME NEW s \in Sessions, OthersIdle(s), NEW o \in OrderIds, CancelReadOrder(s, o)
      PROVE  SerialInv'
  <2>1. PICK r : r = [Idle EXCEPT !.pc = "cancel read", !.order = o, !.was = status[o], !.lines = items[o]]
    OBVIOUS
  <2>2. r.pc = "cancel read" /\ r.order = o /\ r.lines = items[o]
    BY <2>1 DEF Idle
  <2>3. req' = [req EXCEPT ![s] = r] /\ status[o] \in Cancellable /\ UNCHANGED <<status, items>>
    BY <1>8, <2>1 DEF CancelReadOrder, db
  <2>4. Knows(r)'
    BY <2>2, <2>3 DEF Knows, KnowsCancel
  <2> QED BY <1>0, <1>8, <2>3, <2>4, SerialGoesOn
<1>9. ASSUME NEW s \in Sessions, OthersIdle(s), NEW o \in OrderIds, NEW goal \in Statuses, UpdateOrderRead(s, o, goal)
      PROVE  SerialInv'
  <2>1. PICK r : r = [Idle EXCEPT !.pc = "update", !.order = o, !.was = status[o], !.goal = goal]
    OBVIOUS
  <2>2. r.pc = "update" /\ r.order = o /\ r.goal = goal
    BY <2>1 DEF Idle
  <2>3. /\ req' = [req EXCEPT ![s] = r] /\ status[o] \in Statuses /\ goal \in validTransitions[status[o]]
        /\ UNCHANGED status
    BY <1>0, <1>9, <2>1 DEF UpdateOrderRead, TypeOK, db
  <2>4. Knows(r)'
    BY <2>2, <2>3 DEF Knows, KnowsUpdate
  <2> QED BY <1>0, <1>9, <2>3, <2>4, SerialGoesOn
<1>10. ASSUME NEW s \in Sessions, OthersIdle(s), NEW p \in Products, NEW n \in 0 .. MaxCount, AdjustStockRead(s, p, n)
      PROVE  SerialInv'
  <2>1. PICK r : r = [Idle EXCEPT !.pc = "adjust", !.todo = {p}, !.lines[p] = n, !.seen[p] = stock[p]]
    OBVIOUS
  <2>2. r.pc = "adjust" /\ r.todo = {p}
    BY <2>1 DEF Idle
  <2>3. req' = [req EXCEPT ![s] = r]
    BY <1>10, <2>1 DEF AdjustStockRead
  <2>4. Knows(r)'
    BY <2>2 DEF Knows
  <2> QED BY <1>0, <1>10, <2>3, <2>4, SerialGoesOn
<1>11. ASSUME NEW s \in Sessions, OthersIdle(s), NEW u \in Users, NEW p \in Products, NEW q \in 1 .. MaxQty,
              AddItemToCart(s, u, p, q) \/ UpdateItemQuantity(s, u, p, q)
       PROVE  SerialInv'
  <2>1. PICK n : CartRead(s, u, p, n)
    BY <1>11 DEF AddItemToCart, UpdateItemQuantity
  <2>2. p \in active \/ cart[u][p] > 0
    BY <1>11 DEF AddItemToCart, UpdateItemQuantity
  <2> QED BY <1>4, <1>11, <2>1, <2>2
<1>12. CASE SerialNext
  <2>1. PICK s \in Sessions : NextOf(s) /\ OthersIdle(s)
    BY <1>12 DEF SerialNext
  <2> QED
    BY <2>1, <1>2, <1>3, <1>5, <1>6, <1>7, <1>8, <1>9, <1>10, <1>11
       DEF NextOf, CheckoutReadProducts, CancelReadProducts, CartCommit, RemoveItemFromCart, ClearCart, RemoveItems, CheckoutReject, CheckoutCommit, CancelCommit,
           UpdateOrderCommit, AdjustStockCommit, SetActive, Abort, DeadlockVictim
<1> QED BY <1>1, <1>12

\* A commit on what the tables hold is one operation of the ledger.
LEMMA CartIsFill ==
  ASSUME SerialInv, NEW s \in Sessions, CartCommit(s)
  PROVE  [Ledger!Next]_(Ledger!ledger)
<1>1. PICK q : q = req[s]
  OBVIOUS
<1>2. q \in Requests /\ KnowsCart(q) /\ stock \in [Products -> Nat] /\ UNCHANGED <<stock, active, status, items>>
  BY <1>1 DEF SerialInv, TypeOK, Knows, CartCommit
<1>3. PICK p \in Products : /\ q.lines[p] > 0
                            /\ \/ cart' = [cart EXCEPT ![q.user][p] = q.lines[p]]
                               \/ cart' = cart
  BY <1>1 DEF CartCommit, Lines
<1>4. CASE cart' = cart
  BY <1>2, <1>4 DEF Ledger!ledger
<1>5. CASE cart' = [cart EXCEPT ![q.user][p] = q.lines[p]]
  <2>1. q.lines[p] \in 1 .. stock[p] /\ q.user \in Users /\ (p \in active \/ cart[q.user][p] > 0)
    BY <1>2, <1>3 DEF Requests, KnowsCart
  <2>2. Ledger!Fill(q.user, p)
    BY <1>2, <1>5, <2>1 DEF Ledger!Fill
  <2> QED BY <2>1, <2>2 DEF Ledger!Next
<1> QED BY <1>3, <1>4, <1>5

LEMMA CheckoutIsCheckout ==
  ASSUME SerialInv, NEW s \in Sessions, CheckoutCommit(s)
  PROVE  Ledger!Next
<1>1. PICK q, u, o : q = req[s] /\ u = q.user /\ o = q.order
  OBVIOUS
<1>2. /\ q \in Requests /\ KnowsCheckout(q) /\ q.pc = "checkout lock"
      /\ stock \in [Products -> Nat] /\ cart \in [Users -> [Products -> Nat]]
  BY <1>1 DEF SerialInv, TypeOK, Knows, CheckoutCommit
<1>3. /\ u \in Users /\ o \in OrderIds /\ status[o] = "none" /\ cart[u] \in [Products -> Nat]
      /\ q.lines = cart[u] /\ \E p \in Products : cart[u][p] > 0
  BY <1>1, <1>2 DEF KnowsCheckout
<1>4. Lines(s) = {p \in Products : cart[u][p] > 0}
  BY <1>1, <1>3 DEF Lines
<1>5. \A p \in Products : cart[u][p] > 0 => q.seen[p] = stock[p] /\ RowAlive(s, u, p)
  BY <1>1, <1>2, <1>3 DEF KnowsCheckout, LockReads, RowAlive
<1>6. \A p \in Products : cart[u][p] > 0 => p \in active /\ cart[u][p] <= stock[p]
  BY <1>1, <1>2, <1>3, <1>4, <1>5 DEF KnowsCheckout, CheckoutCommit, CheckoutValid
<1>7. stock' = [p \in Products |-> stock[p] - cart[u][p]]
  <2>1. stock' = [p \in Products |-> IF p \in Lines(s) THEN q.seen[p] - q.lines[p] ELSE stock[p]]
    BY <1>1 DEF CheckoutCommit
  <2>2. \A p \in Products : (IF p \in Lines(s) THEN q.seen[p] - q.lines[p] ELSE stock[p]) = stock[p] - cart[u][p]
    <3> SUFFICES ASSUME NEW p \in Products
                 PROVE  (IF p \in Lines(s) THEN q.seen[p] - q.lines[p] ELSE stock[p]) = stock[p] - cart[u][p]
      OBVIOUS
    <3>1. stock[p] \in Nat /\ cart[u][p] \in Nat
      BY <1>2, <1>3
    <3>2. CASE p \in Lines(s)
      BY <1>3, <1>4, <1>5, <3>2
    <3>3. CASE p \notin Lines(s)
      <4>1. cart[u][p] = 0
        BY <1>4, <3>1, <3>3
      <4> QED BY <3>1, <3>3, <4>1
    <3> QED BY <3>2, <3>3
  <2> QED BY <2>1, <2>2
<1>8. cart' = [cart EXCEPT ![u] = Ledger!NoLines]
  <2>1. cart' = [cart EXCEPT ![u] = [p \in Products |-> IF p \in Lines(s) /\ RowAlive(s, u, p) THEN 0 ELSE cart[u][p]]]
    BY <1>1, <1>2, <1>3 DEF CheckoutCommit
  <2>2. \A p \in Products : (IF p \in Lines(s) /\ RowAlive(s, u, p) THEN 0 ELSE cart[u][p]) = 0
    BY <1>3, <1>4, <1>5
  <2>3. [p \in Products |-> IF p \in Lines(s) /\ RowAlive(s, u, p) THEN 0 ELSE cart[u][p]] = Ledger!NoLines
    BY <2>2 DEF Ledger!NoLines
  <2> QED BY <2>1, <2>3
<1>9. cart[u] # Ledger!NoLines
  BY <1>3 DEF Ledger!NoLines
<1>10. /\ status' = [status EXCEPT ![o] = "pending_payment"] /\ items' = [items EXCEPT ![o] = cart[u]]
       /\ UNCHANGED active
  BY <1>1, <1>3 DEF CheckoutCommit
<1>11. Ledger!Checkout(u, o)
  BY <1>3, <1>6, <1>7, <1>8, <1>9, <1>10 DEF Ledger!Checkout
<1> QED BY <1>3, <1>11 DEF Ledger!Next

LEMMA CancelIsCancel ==
  ASSUME SerialInv, NEW s \in Sessions, CancelCommit(s)
  PROVE  Ledger!Next
<1>1. PICK q, o : q = req[s] /\ o = q.order
  OBVIOUS
<1>2. q \in Requests /\ KnowsCancel(q) /\ q.pc = "cancel lock" /\ stock \in [Products -> Nat]
  BY <1>1 DEF SerialInv, TypeOK, Knows, CancelCommit
<1>3. o \in OrderIds /\ status[o] \in Cancellable /\ q.lines = items[o] /\ items[o] \in [Products -> Nat]
  BY <1>1, <1>2 DEF KnowsCancel, SerialInv, TypeOK
<1>4. stock' = [p \in Products |-> stock[p] + items[o][p]]
  <2>1. stock' = [p \in Products |-> IF p \in Lines(s) THEN q.seen[p] + q.lines[p] ELSE stock[p]]
    BY <1>1 DEF CancelCommit
  <2>2. \A p \in Products : (IF p \in Lines(s) THEN q.seen[p] + q.lines[p] ELSE stock[p]) = stock[p] + items[o][p]
    <3> SUFFICES ASSUME NEW p \in Products
                 PROVE  (IF p \in Lines(s) THEN q.seen[p] + q.lines[p] ELSE stock[p]) = stock[p] + items[o][p]
      OBVIOUS
    <3>1. stock[p] \in Nat /\ items[o][p] \in Nat /\ q.lines[p] = items[o][p]
      BY <1>2, <1>3
    <3>2. p \in Lines(s) <=> q.lines[p] > 0
      BY <1>1 DEF Lines
    <3>3. CASE p \in Lines(s)
      <4>1. q.seen[p] = stock[p]
        BY <1>2, <3>2, <3>3 DEF KnowsCancel, LockReads
      <4> QED BY <3>1, <3>3, <4>1
    <3>4. CASE p \notin Lines(s)
      <4>1. items[o][p] = 0
        BY <3>1, <3>2, <3>4
      <4> QED BY <3>1, <3>4, <4>1
    <3> QED BY <3>3, <3>4
  <2> QED BY <2>1, <2>2
<1>5. Ledger!Cancel(o)
  BY <1>1, <1>3, <1>4 DEF Ledger!Cancel, Cancellable, CancelCommit
<1> QED BY <1>3, <1>5 DEF Ledger!Next

LEMMA UpdateIsAdvance ==
  ASSUME SerialInv, NEW s \in Sessions, UpdateOrderCommit(s)
  PROVE  Ledger!Next
<1>1. PICK o, from, to : o = req[s].order /\ from = status[o] /\ to = req[s].goal
  OBVIOUS
<1>2. o \in OrderIds /\ from \in Statuses /\ to \in validTransitions[from]
  BY <1>1 DEF SerialInv, Knows, KnowsUpdate, UpdateOrderCommit
<1>3. Ledger!Move(o, from, to)
  BY <1>1 DEF Ledger!Move, UpdateOrderCommit
<1>4. Ledger!Advance(o)
  BY <1>2, <1>3 DEF Ledger!Advance, Statuses, validTransitions
<1> QED BY <1>2, <1>4 DEF Ledger!Next

LEMMA AdjustIsCount ==
  ASSUME SerialInv, TypeOK', NEW s \in Sessions, AdjustStockCommit(s)
  PROVE  Ledger!Next
<1>1. PICK p \in Products : req[s].todo = {p}
  BY DEF SerialInv, Knows, AdjustStockCommit
<1>2. stock \in [Products -> Nat] /\ stock' \in [Products -> Nat]
  BY DEF SerialInv, TypeOK
<1>3. \A x \in Products \ {p} : stock'[x] = stock[x]
  BY <1>1 DEF AdjustStockCommit
<1>4. Ledger!Count(p)
  BY <1>2, <1>3 DEF Ledger!Count, AdjustStockCommit
<1> QED BY <1>4 DEF Ledger!Next

\* Every other step leaves the ledger alone or is an operation by itself.
LEMMA SerialMaps ==
  ASSUME SerialInv, TypeOK', [Next]_vars
  PROVE  [Ledger!Next]_(Ledger!ledger)
<1>1. ASSUME UNCHANGED <<stock, active, cart, status, items>>
      PROVE  [Ledger!Next]_(Ledger!ledger)
  BY <1>1 DEF Ledger!ledger
<1>2. ASSUME NEW s \in Sessions, NEW u \in Users, NEW ps \in SUBSET Products, RemoveItems(s, u, ps)
      PROVE  Ledger!Next
  <2>1. Ledger!Empty(u, ps)
    BY <1>2 DEF RemoveItems, Ledger!Empty
  <2> QED BY <2>1 DEF Ledger!Next
<1>3. ASSUME NEW s \in Sessions, NEW p \in Products, SetActive(s, p)
      PROVE  Ledger!Next
  <2>1. Ledger!Offer(p)
    BY <1>3 DEF SetActive, Ledger!Offer
  <2> QED BY <2>1 DEF Ledger!Next
<1>4. CASE UNCHANGED vars
  BY <1>1, <1>4 DEF vars, db
<1>5. CASE Next
  <2>1. PICK s \in Sessions : NextOf(s)
    BY <1>5 DEF Next
  <2> QED
    BY <2>1, <1>1, <1>2, <1>3, CartIsFill, CheckoutIsCheckout, CancelIsCancel, UpdateIsAdvance, AdjustIsCount
       DEF NextOf, AddItemToCart, UpdateItemQuantity, CartRead, RemoveItemFromCart, ClearCart, CheckoutReadCart,
           CheckoutReadProducts, CancelReadProducts, ReadProducts, LockProduct, CheckoutReject, CancelReadOrder,
           UpdateOrderRead, AdjustStockRead, Abort, DeadlockVictim, db
<1> QED BY <1>4, <1>5

LEMMA SerialInit == Init => SerialInv /\ Ledger!Init
<1> SUFFICES ASSUME Init PROVE SerialInv /\ Ledger!Init
  OBVIOUS
<1>1. TypeOK
  BY TypeInit
<1>2. \A s \in Sessions : Knows(req[s])
  BY DEF Init, Idle, Knows
<1>3. Ledger!Init
  BY <1>1 DEF Init, TypeOK, Ledger!Init, Ledger!NoLines, NoLines
<1> QED BY <1>1, <1>2, <1>3 DEF SerialInv

\* Requests that do not overlap see an atomic store: each of their checkouts,
\* cancellations, updates, corrections and cart edits is one step of the ledger or
\* none, for any number of sessions, parents, products and orders.
THEOREM SerialImplements == SerialSpec => ImplementsLedger
<1>1. Init => SerialInv /\ Ledger!Init
  BY SerialInit
<1>2. SerialInv /\ [SerialNext]_vars => SerialInv'
  BY SerialStep
<1>3. SerialInv /\ SerialInv' /\ [SerialNext]_vars => [Ledger!Next]_(Ledger!ledger)
  BY SerialMaps DEF SerialInv, SerialNext, Next
<1> QED BY <1>1, <1>2, <1>3, PTL DEF SerialSpec, ImplementsLedger, Ledger!Spec

\* With one session no requests overlap, so that the store implements the ledger.
THEOREM LedgerImplemented == OneSession => (Spec => ImplementsLedger)
<1> SUFFICES ASSUME OneSession PROVE Spec => ImplementsLedger
  OBVIOUS
<1>1. [Next]_vars => [SerialNext]_vars
  BY DEF OneSession, Next, SerialNext, OthersIdle
<1>2. Spec => SerialSpec
  BY <1>1, PTL DEF Spec, SerialSpec
<1> QED BY <1>2, SerialImplements
=============================================================================
