--------------------------- MODULE MCReconciliation ---------------------------
(* Small instances of the payment service beside the reconciliation for TLC. *)
EXTENDS Reconciliation

CONSTANTS k1, k2, k3

\* One key for each operation, capture and cancellation sharing theirs, and
\* nothing is refunded.
NoRefundKeys == [create |-> {k1}, authorize |-> {k2}, capture |-> {k3},
                 refund |-> {}, cancel |-> {k3}]
=============================================================================
