------------------------- MODULE PaymentProperties -------------------------
(***************************************************************************)
(* What the tables, and the answers of the handlers, satisfy under every   *)
(* interleaving, failure and repetition of requests.                       *)
(***************************************************************************)
EXTENDS PaymentService

\* Every variable has the type its declaration gives.
TypeOK == StoreTypeOK /\ ServiceTypeOK

Exists(p) == payments[p] # None

Reached(p, s) == \E i \in DOMAIN events[p] : events[p][i] = s

\* How many transitions lead to a status: all paths to it have one length.
Rank(s) ==
  CASE s = "requires_payment"               -> 1
    [] s = "processing"                     -> 2
    [] s \in {"authorized", "failed"}       -> 3
    [] s \in {"captured", "cancelled"}      -> 4
    [] s = "refunded"                       -> 5

\* The authorization of p has been decided, whatever came after.
Decided(p) ==
  Exists(p) /\ payments[p].status \notin {"requires_payment", "processing"}

\* What the provider answers for this amount leads to s; the first two
\* statuses, and cancelled, do not depend on it.
Agrees(s, amount) ==
  /\ s = "authorized" => Accepts("authorize", amount)
  /\ s = "failed"     => ~Accepts("authorize", amount)
  /\ s = "captured"   => Accepts("capture", amount)
  /\ s = "refunded"   => Accepts("refund", amount)

\* The status that precedes s on every path to it.
Before(s) == IF s = "processing" THEN "requires_payment" ELSE InboundFrom(s)

-----------------------------------------------------------------------------
(* What a handler remembers *)

\* The statuses an operation's last transition leads to.
Targets(op) ==
  CASE op = "authorize"    -> {"authorized", "failed"}
    [] op = "capture"      -> {"captured"}
    [] op = "refund"       -> {"refunded"}
    [] op = "cancel"       -> {"cancelled"}
    [] op \in InboundTypes -> {op}

\* Between two accesses a handler holds what its next access needs: the
\* payment it computed fits the operation and the status SaveTransition will
\* compare with, and a record or a payment it is about to read again exists.
JobFits(h) ==
  LET j == job[h] IN
  /\ pc[h] = "idle" <=> j = None
  /\ j # None =>
       /\ j.id \in IF j.op \in InboundTypes THEN EventIds ELSE Keys
       /\ j.op # "create" => j.arg \in Payments
       /\ pc[h] # "relookup" => j.pay \in Payments
  /\ pc[h] = "get" => j.op # "create" /\ j.pay = j.arg
  /\ pc[h] = "begin" =>
       /\ j.op = "authorize"
       /\ Exists(j.pay)
       /\ j.row # None
       /\ j.row.status = "processing"
       /\ j.from = "requires_payment"
  /\ pc[h] = "provider" =>
       /\ j.op \notin {"create", "cancel"}
       /\ Exists(j.pay)
       /\ j.row # None
       /\ j.row.status = j.from
       /\ \A s \in Targets(j.op) : j.from = Before(s)
  /\ pc[h] = "save" =>
       /\ j.op # "create"
       /\ Exists(j.pay)
       /\ j.row # None
       /\ j.row.status \in Targets(j.op)
       /\ j.from = Before(j.row.status)
  /\ pc[h] = "note" => j.op \in InboundTypes /\ Exists(j.pay) /\ j.row # None
  /\ pc[h] = "relookup" => Earlier(j) # None
  /\ pc[h] \in {"resume", "reload"} => Exists(j.pay)
  /\ pc[h] = "resume" => j.op = "authorize"

JobsFit == \A h \in Handlers : JobFits(h)

\* What a handler read or computed from the tables may be old, but not wrong:
\* the status it goes on from was reached, amount and version are those of the
\* payment at that status and, past the authorization, so is the provider's id;
\* what it will save is what the provider answered, and stands in the ledger.
Remembers(h) ==
  LET j == job[h] IN
  /\ j # None /\ j.op # "create" => j.pay = j.arg
  /\ pc[h] \in {"begin", "provider", "save"} =>
       /\ Reached(j.pay, j.from)
       /\ j.row.amount = payments[j.pay].amount
       /\ j.row.version = Rank(j.row.status)
       /\ j.from \in {"authorized", "captured"} =>
            j.row.pid = payments[j.pay].pid
  /\ pc[h] = "save" =>
       /\ ledger[j.pay] # None
       /\ j.op \notin InboundTypes => Agrees(j.row.status, j.row.amount)
  /\ pc[h] = "note" => Reached(j.pay, j.op)
  /\ pc[h] = "reload" =>
       /\ j.op = "create" => keys[j.id] = Recorded(j)
       /\ j.op = "authorize" => Decided(j.pay)

\* No handler goes on, saves or answers from something wrong, however long ago it
\* read its payment.
HandlersRemember == \A h \in Handlers : Remembers(h)

-----------------------------------------------------------------------------
(* Row and history *)

\* The events of p are one path of the state diagram, which ends in its row.
HistoryOf(p) ==
  IF Exists(p)
  THEN /\ Len(events[p]) = payments[p].version
       /\ payments[p].version = Rank(payments[p].status)
       /\ events[p][payments[p].version] = payments[p].status
       /\ \A i \in DOMAIN events[p] :
            /\ Rank(events[p][i]) = i
            /\ i > 1 => events[p][i - 1] = Before(events[p][i])
  ELSE events[p] = <<>>

\* The status and the version of a row (guarded by SaveTransition's WHERE
\* clause) and its append-only events always tell the same story: the version
\* counts the events, the last event is the status, and the events are one
\* path of the state diagram. Two handlers that read the same row cannot both
\* move it, whatever they do in between.
HistoryMatchesRow == \A p \in Payments : HistoryOf(p)

\* The abstract payment: every step of the service is one move of it or none.
Lifecycle == INSTANCE PaymentLifecycle WITH
  status  <- [p \in Payments |-> IF Exists(p) THEN payments[p].status ELSE None],
  log     <- events,
  notices <- outbox

\* The service implements the abstract payment: status, history and webhook
\* change together, along the diagram, and failed, cancelled and refunded are
\* never left.
ImplementsLifecycle == Lifecycle!LifecycleSpec

-----------------------------------------------------------------------------
(* Requests and their records *)

\* The transition that a recorded request stands for.
Effect(op) ==
  CASE op = "create"       -> "requires_payment"
    [] op = "authorize"    -> "processing"
    [] op = "capture"      -> "captured"
    [] op = "refund"       -> "refunded"
    [] op = "cancel"       -> "cancelled"
    [] op \in InboundTypes -> op

HasEffect(rec) ==
  /\ Exists(rec.pay)
  /\ Reached(rec.pay, Effect(rec.op))
  /\ rec.arg = IF rec.op = "create" THEN payments[rec.pay].amount ELSE rec.pay

\* A recorded key or provider event is never ahead of its effect: the
\* transition it stands for is in the payment's history (SaveTransition writes
\* both or neither, also when the handler dies around its commit).
RecordsHaveEffect ==
  /\ \A k \in Keys : keys[k] # None =>
       keys[k].op \in Operations /\ HasEffect(keys[k])
  /\ \A e \in EventIds : providerEvents[e] # None =>
       providerEvents[e].op \in InboundTypes /\ HasEffect(providerEvents[e])

\* No transition is paid for by two keys: of two clients that race with
\* different keys for the same capture (or refund, cancellation, start of the
\* authorization, or creation) at most one has its key recorded.
OneKeyPerTransition ==
  \A k1, k2 \in Keys :
    keys[k1] # None /\ keys[k2] # None /\ keys[k1].pay = keys[k2].pay
      /\ keys[k1].op = keys[k2].op => k1 = k2

\* A provider event on record announced that p is at s.
OnRecord(p, s) ==
  \E e \in EventIds : /\ providerEvents[e] # None
                      /\ providerEvents[e].pay = p
                      /\ providerEvents[e].op = s

\* The mock provider's refusals hold however requests and provider events
\* overlap: a payment is authorized, failed, captured or refunded against the
\* provider's answer to its amount only on a provider event on record.
ProviderDecides ==
  \A p \in Payments, s \in Statuses :
    Exists(p) /\ Reached(p, s) => \/ Agrees(s, payments[p].amount)
                                 \/ OnRecord(p, s)

-----------------------------------------------------------------------------
(* The provider's ledger, written before the transition and outside its      *)
(* transaction                                                               *)

\* A payment past processing has a ledger row, so the reconciliation never
\* reports one as missing: the ledger is written before the transition, and a
\* handler that dies in between leaves the ledger ahead, not behind.
LedgerPresent ==
  \A p \in Payments : Decided(p) => ledger[p] # None

\* A handler that lost the race still overwrites the ledger, so it may show
\* what did not happen; but never more than one transition away from what did:
\* the status before the ledger's is in the payment's history.
LedgerJustified ==
  \A p \in Payments :
    ledger[p] # None => Reached(p, Before(ledger[p].status))

\* Past authorized, the ledger's provider id is the payment's: a capture,
\* refund or cancellation reports the id of the authorization that won, never
\* that of a concurrent one that lost.
LedgerProviderId ==
  \A p \in Payments :
    ledger[p] # None /\ ledger[p].status \in {"captured", "refunded", "cancelled"}
      => ledger[p].pid = payments[p].pid

\* Only the authorization sets a provider id; once a payment has left
\* processing, no late answer of the provider replaces or adds one.
ProviderIdStable ==
  [][\A p \in Payments :
       Decided(p) => payments'[p].pid = payments[p].pid]_vars

-----------------------------------------------------------------------------
(* Answers *)

\* A 200 names the payment the request is about: for a replayed creation the
\* one its key made, with the amount asked for.
AnswerNamesPayment ==
  reply # None /\ reply.code = "OK" =>
    IF reply.op = "create" THEN /\ keys[reply.id] # None
                                /\ keys[reply.id].pay = reply.pay
                                /\ payments[reply.pay].amount = reply.arg
    ELSE reply.pay = reply.arg

\* A 200 to authorize is a decision: whoever made it, the payment shown is no
\* longer waiting for the provider.
AuthorizeAnswersDecision ==
  reply # None /\ reply.code = "OK" /\ reply.op = "authorize" =>
    reply.status \notin {"requires_payment", "processing"}

-----------------------------------------------------------------------------
(* Recovery *)

Waiting(p) == Exists(p) /\ payments[p].status = "processing"

On(h, p) == job[h] # None /\ job[h].pay = p

\* The ledger shows that the provider captured or refunded p, and p is still
\* where it was: a handler on its way to the transition, or one that failed.
Ahead(p, to) == /\ Exists(p)
                /\ payments[p].status = Before(to)
                /\ ledger[p] # None
                /\ ledger[p].status = to

\* Clients repeat their requests, and a retry that is taken up again and again
\* is not interrupted at the same statement every time. Of the requests on a
\* payment whose status does not change only one kind gets past its read.
FairRetry(p) ==
  /\ \A op \in {"authorize", "capture", "refund"}, k \in Keys :
       k \in ClientKeys[op] =>
         SF_vars(\E h \in Handlers : Arrive(h, Request(op, p, k)))
  /\ SF_vars(\E h \in Handlers : On(h, p) /\ (AuthorizeRead(h) \/ Resume(h)))
  /\ SF_vars(\E h \in Handlers : On(h, p) /\ CaptureRead(h))
  /\ SF_vars(\E h \in Handlers : On(h, p) /\ RefundRead(h))
  /\ SF_vars(\E h \in Handlers : On(h, p) /\ pc[h] = "provider" /\ Proceed(h))
  /\ SF_vars(\E h \in Handlers : On(h, p) /\ pc[h] = "save" /\ Proceed(h))

\* A goroutine that can go on does, and a client repeats its request with its
\* key, which some handler takes up.
Fairness ==
  /\ \A h \in Handlers : WF_vars(Proceed(h))
  /\ \A p \in Payments : FairRetry(p)

FairSpec == Spec /\ Fairness

\* Nothing sweeps payments left in processing by a handler that died after its
\* first transition; repeating the authorization with its own key decides them,
\* however often it fails on the way.
RetryDecides == \A p \in Payments : Waiting(p) ~> ~Waiting(p)

\* A capture or refund that the provider accepted and whose handler failed
\* before the transition is completed by the client's repeat, which asks the
\* provider again, unless the payment is cancelled first: the ledger is not
\* left ahead of the payment for ever.
RepeatCompletes ==
  \A p \in Payments, to \in {"captured", "refunded"} :
    Ahead(p, to) ~> Exists(p) /\ payments[p].status # Before(to)

-----------------------------------------------------------------------------
(* What the README and the tests say of requests that overlap or are repeated. *)
(* The code does otherwise; PROJECT.json lists each as a finding.              *)

AnsweredOK(k) == /\ reply # None
                 /\ reply.op \in Operations
                 /\ reply.id = k
                 /\ reply.code = "OK"

\* README.md:21, "Same key + different body is 409": a capture is not answered
\* with a 200 when its key is on record for another request.
CaptureKeyReuseRefused ==
  \A k \in Keys :
    AnsweredOK(k) /\ reply.op = "capture" /\ keys[k] # None
      => SameRequest(keys[k], reply)

\* README.md:21, "Same Idempotency-Key + same body returns the original row":
\* a request whose key is on record for it is not refused.
ReplayIsNotRefused ==
  reply # None /\ reply.op \in Operations /\ keys[reply.id] # None
    /\ SameRequest(keys[reply.id], reply) => reply.code \in {"OK", "INTERNAL"}

\* README.md:21, over time: once a key was answered with a 200, a request with
\* another body is not.
OneBodyPerKey ==
  \A k \in Keys, op \in Operations, arg \in Payments \cup Amounts :
    LET Answered == AnsweredOK(k) /\ reply.op = op /\ reply.arg = arg
    IN [](Answered => [](AnsweredOK(k) => Answered))

\* service_test.go:538, TestCancelRejectsCaptured: cancelling is refused or
\* the payment is cancelled.
CancelAnswersCancelled ==
  reply # None /\ reply.op = "cancel" /\ reply.code = "OK"
    => reply.status = "cancelled"
=============================================================================
