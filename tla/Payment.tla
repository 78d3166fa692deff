------------------------------ MODULE Payment ------------------------------
(***************************************************************************)
(* The vocabulary of one payment: its statuses, the provider's answers and *)
(* the provider events that move it (internal/payment/status.go, the types *)
(* of service.go, inbound.go, internal/psp/mock.go).                       *)
(*                                                                         *)
(* An event type such as "payment.captured" is written as the status it    *)
(* announces, and payment.created as "requires_payment": the two sets are  *)
(* in one-to-one correspondence and nothing depends on the wording.        *)
(***************************************************************************)
EXTENDS Naturals, Sequences

Statuses == {"requires_payment", "processing", "authorized", "captured",
             "refunded", "failed", "cancelled"}

Operations == {"create", "authorize", "capture", "refund", "cancel"}

\* The event types ApplyInbound accepts; every other type is refused before
\* the database is touched.
InboundTypes == {"authorized", "failed", "captured", "refunded", "cancelled"}

\* The status a payment must be in for a provider event to move it.
InboundFrom(type) ==
  CASE type \in {"authorized", "failed"}   -> "processing"
    [] type \in {"captured", "cancelled"} -> "authorized"
    [] type = "refunded"                  -> "captured"

\* The mock provider decides by the amount alone.
DeclineAmount == 1
CaptureDeclineAmount == 2
RefundDeclineAmount == 3

Accepts(op, amount) ==
  \/ op = "authorize" /\ amount # DeclineAmount
  \/ op = "capture" /\ amount # CaptureDeclineAmount
  \/ op = "refund" /\ amount # RefundDeclineAmount

\* Mutant of Announced: the start of an authorization is announced too.
Announced_All(type) == type \in Statuses

\* newOutboxEvent: every event is announced to the merchant but the one that
\* marks the start of an authorization.
Announced(type) == type # "processing"
=============================================================================
