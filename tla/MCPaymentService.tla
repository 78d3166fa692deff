-------------------------- MODULE MCPaymentService --------------------------
(* Small instances of the payment service for TLC. *)
EXTENDS PaymentProperties, TLC

CONSTANTS k1, k2, k3, k4, k5

\* Each operation has a key of its own, and each key is also sent with the
\* operation before, so that clients race with different keys and reuse them.
RaceKeys == [create |-> {k1}, authorize |-> {k1, k2}, capture |-> {k2, k3},
             refund |-> {k3, k4}, cancel |-> {k3, k4}]

\* One key for each operation, capture and cancellation sharing theirs.
PlainKeys == [create |-> {k1}, authorize |-> {k2}, capture |-> {k3},
              refund |-> {k4}, cancel |-> {k3}]

\* Two payments, authorized with a key each, and one key with which both are
\* then captured or cancelled.
CrossKeys == [create |-> {k1, k2}, authorize |-> {k3, k4}, capture |-> {k5},
              refund |-> {}, cancel |-> {k5}]

\* Two payments, one key to capture both.
SharedKeys == [CrossKeys EXCEPT !["cancel"] = {}]

\* Two keys to capture with, of which one is also sent to refund.
AgainKeys == [create |-> {k1}, authorize |-> {k2}, capture |-> {k3, k4},
              refund |-> {k4}, cancel |-> {}]

Symmetry == Permutations(Payments) \cup Permutations(EventIds)
            \cup Permutations(ProviderIds) \cup Permutations(Handlers)
=============================================================================
