---------------------------- MODULE PaymentStore ----------------------------
(***************************************************************************)
(* The PostgreSQL tables the payment service writes, and the statements of *)
(* internal/payment/postgres.go. A statement or a transaction is one step: *)
(* at READ COMMITTED each of them locks the row it updates or the unique   *)
(* index entry it inserts until it ends, so its effect is atomic, and it   *)
(* fails as a whole.                                                       *)
(*                                                                         *)
(* Timestamps, currencies, event ids, metadata and webhook payloads are    *)
(* left out, and there is one merchant (the API only knows DemoMerchantID).*)
(***************************************************************************)
EXTENDS Payment

CONSTANTS Payments,     \* ids of payments, one per successful creation
          Keys,         \* values of the Idempotency-Key header
          EventIds,     \* ids the provider gives its events
          ProviderIds,  \* ids the provider gives the payments it authorizes
          Amounts,      \* amounts the clients ask for
          None          \* no row, no value

ASSUME AmountsAssumption == Amounts \subseteq Nat \ {0}

VARIABLES payments,        \* payments[p]: the row of p, None before it exists
          events,          \* events[p]: payment_events of p, oldest first
          outbox,          \* outbox[p]: webhook_events of p, oldest first
          keys,            \* keys[k]: the idempotency_keys row of k
          providerEvents,  \* providerEvents[e]: the provider_events row of e
          ledger           \* ledger[p]: the provider_ledger row of p

tables == <<payments, events, outbox, keys, providerEvents, ledger>>

Row == [status : Statuses, version : Nat, amount : Amounts,
        pid : ProviderIds \cup {None}]

\* A recorded request: its fingerprint (op, arg) and the payment it made or
\* changed. A creation's fingerprint is its amount, any other's its payment.
Record == [op : Operations \cup InboundTypes, arg : Payments \cup Amounts,
           pay : Payments]

LedgerRow == [status : Statuses, pid : ProviderIds \cup {None}]

ASSUME NoneAssumption == /\ None \notin Payments \cup ProviderIds \cup Statuses
                         /\ None \notin Row
                         /\ None \notin Record
                         /\ None \notin LedgerRow

StoreTypeOK ==
  /\ payments \in [Payments -> Row \cup {None}]
  /\ events \in [Payments -> Seq(Statuses)]
  /\ outbox \in [Payments -> Seq(Statuses)]
  /\ keys \in [Keys -> Record \cup {None}]
  /\ providerEvents \in [EventIds -> Record \cup {None}]
  /\ ledger \in [Payments -> LedgerRow \cup {None}]

StoreInit ==
  /\ payments = [p \in Payments |-> None]
  /\ events = [p \in Payments |-> <<>>]
  /\ outbox = [p \in Payments |-> <<>>]
  /\ keys = [k \in Keys |-> None]
  /\ providerEvents = [e \in EventIds |-> None]
  /\ ledger = [p \in Payments |-> None]

-----------------------------------------------------------------------------
\* The outbox after an event of this type.
InsertOutbox(p, type) ==
  IF Announced(type) THEN [outbox EXCEPT ![p] = Append(@, type)] ELSE outbox

\* InsertCreated without the key: the row, its first event and its webhook.
InsertCreated(p, amount) ==
  /\ payments' = [payments EXCEPT ![p] =
       [status |-> "requires_payment", version |-> 1, amount |-> amount,
        pid |-> None]]
  /\ events' = [events EXCEPT ![p] = Append(@, "requires_payment")]
  /\ outbox' = InsertOutbox(p, "requires_payment")
  /\ UNCHANGED ledger

\* Mutant of Unchanged: WHERE id = ? alone.
Unchanged_IdOnly(p, from, row) == payments[p] # None

\* The WHERE clause of SaveTransition: the row is still the one that was read.
Unchanged(p, from, row) ==
  /\ payments[p] # None
  /\ payments[p].status = from
  /\ payments[p].version = row.version - 1

\* SaveTransition without the record of the request: the row, the event and
\* the webhook. A provider id is written only when the handler has one.
UpdatePayment(p, row) ==
  /\ payments' = [payments EXCEPT ![p] =
       [status |-> row.status, version |-> row.version,
        amount |-> payments[p].amount,
        pid |-> IF row.pid = None THEN payments[p].pid ELSE row.pid]]
  /\ events' = [events EXCEPT ![p] = Append(@, row.status)]
  /\ outbox' = InsertOutbox(p, row.status)
  /\ UNCHANGED ledger

InsertKey(k, rec) == /\ keys' = [keys EXCEPT ![k] = rec]
                     /\ UNCHANGED providerEvents

InsertProviderEvent(e, rec) ==
  /\ providerEvents' = [providerEvents EXCEPT ![e] = rec]
  /\ UNCHANGED keys

NoRecord == UNCHANGED <<keys, providerEvents>>

UpsertProviderLedger(p, status, pid) ==
  /\ ledger' = [ledger EXCEPT ![p] = [status |-> status, pid |-> pid]]
  /\ UNCHANGED <<payments, events, outbox, keys, providerEvents>>
=============================================================================
