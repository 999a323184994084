---------------------------- MODULE OrderStatuses -----------------------------
(* The life of an order: its statuses, and the moves that update_order and   *)
(* cancel_order allow.  The payment flow moves orders by rules of its own.   *)

Statuses == {"pending_payment", "processing", "shipped", "delivered", "cancelled"}

\* What cancel_order accepts, and what the enum's comment calls final.
Cancellable == {"pending_payment", "processing"}
Terminal == {"delivered", "cancelled"}

validTransitions ==
  [ pending_payment |-> {"processing", "cancelled"},
    processing      |-> {"shipped", "cancelled"},
    shipped         |-> {"delivered"},
    delivered       |-> {},
    cancelled       |-> {} ]
=============================================================================
