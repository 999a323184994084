---------------------------- MODULE MCPaymentFlow -----------------------------
(* PaymentFlow on small sets of sessions, payments, invoices and orders. *)
EXTENDS PaymentFlow, TLC

\* Invoices of one and of two items.
OneItem == <<1>>
TwoItems == <<2, 2>>

\* Sessions are interchangeable, and so are payments.
Interchangeable == Permutations(Sessions) \cup Permutations(Payments)
=============================================================================
