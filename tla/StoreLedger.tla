----------------------------- MODULE StoreLedger ------------------------------
(***************************************************************************)
(* What the store promises, as a caller sees it: every operation is one    *)
(* atomic step on the stock, the carts and the orders.  A checkout turns a *)
(* whole cart into an order or does nothing, and sells only what is active  *)
(* and in stock at that moment; a cancellation returns exactly the units    *)
(* of the order; a status moves along the documented transitions.          *)
(***************************************************************************)
EXTENDS Integers

CONSTANTS Users, Products, OrderIds

VARIABLES stock, active, cart, status, items

ledger == <<stock, active, cart, status, items>>

NoLines == [p \in Products |-> 0]

Init == /\ stock \in [Products -> Nat]
        /\ active \in SUBSET Products
        /\ cart = [u \in Users |-> NoLines]
        /\ status = [o \in OrderIds |-> "none"]
        /\ items = [o \in OrderIds |-> NoLines]

\* What is put in a cart can be bought at that moment; what is in it can be
\* taken out or set to any amount in stock.
Fill(u, p) ==
  /\ \E q \in 1 .. stock[p] : /\ p \in active \/ cart[u][p] > 0
                              /\ cart' = [cart EXCEPT ![u][p] = q]
  /\ UNCHANGED <<stock, active, status, items>>

Empty(u, gone) ==
  /\ cart' = [cart EXCEPT ![u] = [p \in Products |-> IF p \in gone THEN 0 ELSE @[p]]]
  /\ UNCHANGED <<stock, active, status, items>>

Checkout(u, o) ==
  /\ status[o] = "none"
  /\ cart[u] # NoLines
  /\ \A p \in Products : cart[u][p] > 0 => p \in active /\ cart[u][p] <= stock[p]
  /\ status' = [status EXCEPT ![o] = "pending_payment"]
  /\ items' = [items EXCEPT ![o] = cart[u]]
  /\ stock' = [p \in Products |-> stock[p] - cart[u][p]]
  /\ cart' = [cart EXCEPT ![u] = NoLines]
  /\ UNCHANGED active

Cancel(o) ==
  /\ status[o] \in {"pending_payment", "processing"}
  /\ status' = [status EXCEPT ![o] = "cancelled"]
  /\ stock' = [p \in Products |-> stock[p] + items[o][p]]
  /\ UNCHANGED <<active, cart, items>>

Move(o, from, to) ==
  /\ status[o] = from
  /\ status' = [status EXCEPT ![o] = to]
  /\ UNCHANGED <<stock, active, cart, items>>

\* An update to "cancelled" is documented as a status change like any other.
Advance(o) == \/ Move(o, "pending_payment", "processing")
              \/ Move(o, "processing", "shipped")
              \/ Move(o, "shipped", "delivered")
              \/ Move(o, "pending_payment", "cancelled")
              \/ Move(o, "processing", "cancelled")

Count(p) == /\ stock'[p] \in Nat
            /\ stock' = [stock EXCEPT ![p] = stock'[p]]
            /\ UNCHANGED <<active, cart, status, items>>

Offer(p) == /\ active' = IF p \in active THEN active \ {p} ELSE active \cup {p}
            /\ UNCHANGED <<stock, cart, status, items>>

Next == \/ \E u \in Users, p \in Products : Fill(u, p)
        \/ \E u \in Users, gone \in SUBSET Products : Empty(u, gone)
        \/ \E u \in Users, o \in OrderIds : Checkout(u, o)
        \/ \E o \in OrderIds : Cancel(o) \/ Advance(o)
        \/ \E p \in Products : Count(p) \/ Offer(p)

Spec == Init /\ [][Next]_ledger
=============================================================================
