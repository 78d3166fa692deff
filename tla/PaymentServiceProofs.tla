------------------------ MODULE PaymentServiceProofs ------------------------
(***************************************************************************)
(* Proofs, for any number of payments, handlers, keys and provider events, *)
(* of what PaymentProperties states about the tables.                      *)
(***************************************************************************)
EXTENDS PaymentProperties, TLAPS

\* A handler that goes on keeps the type of what handlers hold.
LEMMA GotoType ==
  ASSUME ServiceTypeOK, NEW h \in Handlers, NEW point \in Points, NEW j \in Job,
         Goto(h, point, j)
  PROVE  ServiceTypeOK'
BY DEF ServiceTypeOK, Goto

\* A handler that answers keeps the type of what handlers hold.
LEMMA AnswerType ==
  ASSUME ServiceTypeOK, NEW h \in Handlers, NEW j \in Job, NEW code \in Codes,
         NEW pay \in Payments \cup {None}, NEW status \in Statuses \cup {None},
         Answer(h, j, code, pay, status)
  PROVE  ServiceTypeOK'
BY DEF ServiceTypeOK, Answer, Job, Points, Reply

\* A handler that refuses keeps the type of what handlers hold.
LEMMA RefuseType ==
  ASSUME ServiceTypeOK, NEW h \in Handlers, NEW j \in Job, NEW code \in Codes,
         Refuse(h, j, code)
  PROVE  ServiceTypeOK'
BY AnswerType DEF Refuse

\* So does one whose statement committed, whether its client learns it or not.
LEMMA AcknowledgeType ==
  ASSUME ServiceTypeOK, NEW h \in Handlers, NEW j \in Job, j.pay \in Payments,
         NEW status \in Statuses, Acknowledge(h, j, status)
  PROVE  ServiceTypeOK'
BY AnswerType, RefuseType DEF Acknowledge, Codes, Job

\* The row a handler computed and the status it starts from have their types.
LEMMA HoldingType ==
  ASSUME TypeOK, NEW h \in Handlers, job[h] # None,
         NEW row \in Row \cup {None}, NEW from \in Statuses \cup {None}
  PROVE  /\ Holding(h, row, from) \in Job
         /\ Holding(h, row, from).op = job[h].op
         /\ Holding(h, row, from).arg = job[h].arg
         /\ Holding(h, row, from).id = job[h].id
         /\ Holding(h, row, from).pay = job[h].pay
         /\ Holding(h, row, from).row = row
         /\ Holding(h, row, from).from = from
BY DEF TypeOK, ServiceTypeOK, Holding, Job

\* A row with another status and version is a row.
LEMMA RowUpdate ==
  ASSUME NEW row \in Row, NEW s \in Statuses, NEW n \in Nat
  PROVE  [row EXCEPT !.status = s, !.version = n] \in Row
BY DEF Row

\* Moving a payment in memory changes its status and its version only.
LEMMA AdvanceType ==
  ASSUME NEW row \in Row, NEW s \in Statuses
  PROVE  /\ Advance(row, s) \in Row
         /\ Advance(row, s).status = s
         /\ Advance(row, s).version = row.version + 1
         /\ Advance(row, s).amount = row.amount
         /\ Advance(row, s).pid = row.pid
<1>1. row.version + 1 \in Nat
  BY DEF Row
<1>2. Advance(row, s) \in Row
  BY <1>1, RowUpdate DEF Advance
<1>3. /\ Advance(row, s).status = s
      /\ Advance(row, s).version = row.version + 1
  BY DEF Advance, Row
<1>4. /\ Advance(row, s).amount = row.amount
      /\ Advance(row, s).pid = row.pid
  BY DEF Advance, Row
<1> QED
  BY <1>2, <1>3, <1>4

\* A request that arrives is one a handler can hold, on any payment.
LEMMA RequestType ==
  ASSUME NEW op \in Operations \cup InboundTypes,
         NEW arg \in Payments \cup Amounts, NEW id \in Keys \cup EventIds
  PROVE  /\ Request(op, arg, id) \in Job
         /\ \A p \in Payments : [Request(op, arg, id) EXCEPT !.pay = p] \in Job
BY DEF Request, Job

\* What SaveTransition records of a request has the type of a record.
LEMMA RecordedType ==
  ASSUME NEW j \in Job, j.pay \in Payments
  PROVE  Recorded(j) \in Record
BY DEF Recorded, Record, Job

-----------------------------------------------------------------------------
(* What a step does to the tables *)

\* A transaction that moved a payment: the decision of an authorization, or
\* another transition with the record of the request it is the effect of.
Transition(h) ==
  /\ pc[h] \in {"begin", "save"}
  /\ Saved(h)
  /\ \/ /\ pc[h] = "save"
        /\ job[h].op = "authorize"
        /\ NoRecord
     \/ /\ job[h].op \in Operations
        /\ job[h].row.status = Effect(job[h].op)
        /\ keys[job[h].id] = None
        /\ InsertKey(job[h].id, Recorded(job[h]))
     \/ /\ job[h].op \in InboundTypes
        /\ providerEvents[job[h].id] = None
        /\ InsertProviderEvent(job[h].id, Recorded(job[h]))

\* A payment inserted with the key of the request that made it.
Creation(p, a, k) ==
  /\ payments[p] = None
  /\ keys[k] = None
  /\ InsertCreated(p, a)
  /\ InsertKey(k, [op |-> "create", arg |-> a, pay |-> p])

\* A ledger row with what the provider answers; past the authorization it
\* carries the provider id that the handler read.
LedgerStep(h) ==
  /\ pc[h] = "provider"
  /\ \E s \in Targets(job[h].op), pid \in ProviderIds \cup {None} :
       /\ UpsertProviderLedger(job[h].pay, s, pid)
       /\ job[h].from # "processing" => pid = job[h].row.pid

\* A provider event that found its effect there already.
NoteStep(h) ==
  /\ pc[h] = "note"
  /\ providerEvents[job[h].id] = None
  /\ InsertProviderEvent(job[h].id, Recorded(job[h]))
  /\ UNCHANGED <<payments, events, outbox, ledger>>

\* The five things a step may do to the tables.
TableStep ==
  \/ UNCHANGED tables
  \/ \E p \in Payments, a \in Amounts, k \in Keys : Creation(p, a, k)
  \/ \E h \in Handlers : Transition(h) \/ LedgerStep(h) \/ NoteStep(h)

\* Rows are never removed.
Grows ==
  /\ \A p \in Payments : Exists(p) => payments'[p] # None
  /\ \A k \in Keys : keys[k] # None => keys'[k] # None
  /\ \A e \in EventIds : providerEvents[e] # None => providerEvents'[e] # None
  /\ \A p \in Payments : ledger[p] # None => ledger'[p] # None

\* The operations of the API are none of the provider's events.
LEMMA Names ==
  /\ Operations \cap InboundTypes = {}
  /\ InboundTypes \subseteq Statuses
  /\ \A op \in (Operations \cup InboundTypes) \ {"create"} :
       Targets(op) \subseteq Statuses
BY DEF Operations, InboundTypes, Statuses, Targets

\* The statuses each operation and each provider event leads to.
LEMMA TargetsAre ==
  /\ Targets("authorize") = {"authorized", "failed"}
  /\ Targets("capture") = {"captured"}
  /\ Targets("refund") = {"refunded"}
  /\ Targets("cancel") = {"cancelled"}
  /\ \A type \in InboundTypes : Targets(type) = {type}
BY DEF Targets, InboundTypes

\* What the keys of the API's operations stand for.
LEMMA EffectsAre ==
  /\ Effect("create") = "requires_payment"
  /\ Effect("authorize") = "processing"
  /\ \A op \in {"capture", "refund", "cancel"} : Targets(op) = {Effect(op)}
  /\ \A type \in InboundTypes : Effect(type) = type
BY DEF Effect, Targets, InboundTypes

\* The state diagram, backwards.
LEMMA BeforeIs ==
  /\ Before("processing") = "requires_payment"
  /\ Before("authorized") = "processing"
  /\ Before("failed") = "processing"
  /\ Before("captured") = "authorized"
  /\ Before("cancelled") = "authorized"
  /\ Before("refunded") = "captured"
  /\ \A type \in InboundTypes : Before(type) = InboundFrom(type)
BY DEF Before, InboundFrom, InboundTypes

\* A transaction that moves a payment keeps the types of the tables, and rows.
LEMMA TransitionType ==
  ASSUME TypeOK, NEW h \in Handlers, JobFits(h), Transition(h)
  PROVE  StoreTypeOK' /\ Grows
<1> DEFINE j == job[h]
<1>1. /\ j \in Job
      /\ j.pay \in Payments
      /\ j.row \in Row
  BY DEF Transition, JobFits, TypeOK, ServiceTypeOK, Job
<1>2. payments[j.pay] \in Row
  BY <1>1 DEF Transition, Saved, CanSave, Unchanged, TypeOK, StoreTypeOK
<1>3. /\ payments' = [payments EXCEPT ![j.pay] =
            [status |-> j.row.status, version |-> j.row.version,
             amount |-> payments[j.pay].amount,
             pid |-> IF j.row.pid = None THEN payments[j.pay].pid
                                         ELSE j.row.pid]]
      /\ events' = [events EXCEPT ![j.pay] = Append(@, j.row.status)]
      /\ outbox' = InsertOutbox(j.pay, j.row.status)
      /\ ledger' = ledger
  BY DEF Transition, Saved, UpdatePayment
<1>4. [status |-> j.row.status, version |-> j.row.version,
       amount |-> payments[j.pay].amount,
       pid |-> IF j.row.pid = None THEN payments[j.pay].pid ELSE j.row.pid]
      \in Row
  BY <1>1, <1>2 DEF Row
<1>5. /\ payments' \in [Payments -> Row \cup {None}]
      /\ \A p \in Payments : Exists(p) => payments'[p] # None
  BY <1>1, <1>3, <1>4, NoneAssumption DEF TypeOK, StoreTypeOK, Exists
<1>6. events' \in [Payments -> Seq(Statuses)]
  BY <1>1, <1>3 DEF TypeOK, StoreTypeOK, Row
<1>7. outbox' \in [Payments -> Seq(Statuses)]
  BY <1>1, <1>3 DEF TypeOK, StoreTypeOK, Row, InsertOutbox
<1>8. Recorded(j) \in Record
  BY <1>1, RecordedType
<1>9. /\ keys' \in [Keys -> Record \cup {None}]
      /\ \A k \in Keys : keys[k] # None => keys'[k] # None
  BY <1>8, NoneAssumption
  DEF Transition, NoRecord, InsertKey, InsertProviderEvent, TypeOK, StoreTypeOK
<1>10. /\ providerEvents' \in [EventIds -> Record \cup {None}]
       /\ \A e \in EventIds : providerEvents[e] # None => providerEvents'[e] # None
  BY <1>8, NoneAssumption
  DEF Transition, NoRecord, InsertKey, InsertProviderEvent, TypeOK, StoreTypeOK
<1> QED
  BY <1>3, <1>5, <1>6, <1>7, <1>9, <1>10 DEF TypeOK, StoreTypeOK, Grows

\* The tables keep their types and their rows.
LEMMA TableType ==
  ASSUME TypeOK, JobsFit, TableStep
  PROVE  StoreTypeOK' /\ Grows
<1>1. CASE UNCHANGED tables
  BY <1>1 DEF tables, TypeOK, StoreTypeOK, Grows, Exists
<1>2. ASSUME NEW p \in Payments, NEW a \in Amounts, NEW k \in Keys,
             Creation(p, a, k)
      PROVE  StoreTypeOK' /\ Grows
  <2>1. /\ [status |-> "requires_payment", version |-> 1, amount |-> a,
            pid |-> None] \in Row
        /\ [op |-> "create", arg |-> a, pay |-> p] \in Record
        /\ "requires_payment" \in Statuses
    BY DEF Row, Record, Statuses, Operations
  <2>2. /\ payments' \in [Payments -> Row \cup {None}]
        /\ \A q \in Payments : Exists(q) => payments'[q] # None
    BY <1>2, <2>1, NoneAssumption
    DEF Creation, InsertCreated, TypeOK, StoreTypeOK, Exists
  <2>3. /\ events' \in [Payments -> Seq(Statuses)]
        /\ outbox' \in [Payments -> Seq(Statuses)]
    BY <1>2, <2>1 DEF Creation, InsertCreated, InsertOutbox, TypeOK, StoreTypeOK
  <2>4. /\ keys' \in [Keys -> Record \cup {None}]
        /\ \A q \in Keys : keys[q] # None => keys'[q] # None
        /\ providerEvents' = providerEvents
        /\ ledger' = ledger
    BY <1>2, <2>1, NoneAssumption
    DEF Creation, InsertCreated, InsertKey, TypeOK, StoreTypeOK
  <2> QED
    BY <2>2, <2>3, <2>4 DEF TypeOK, StoreTypeOK, Grows
<1>3. ASSUME NEW h \in Handlers, Transition(h)
      PROVE  StoreTypeOK' /\ Grows
  BY <1>3, TransitionType DEF JobsFit
<1>4. ASSUME NEW h \in Handlers, LedgerStep(h)
      PROVE  StoreTypeOK' /\ Grows
  <2>1. /\ job[h] \in Job
        /\ job[h].op # "create"
        /\ job[h].pay \in Payments
    BY <1>4 DEF LedgerStep, JobsFit, JobFits, TypeOK, ServiceTypeOK
  <2>2. Targets(job[h].op) \subseteq Statuses
    BY <2>1, Names DEF Job
  <2>3. PICK s \in Statuses, pid \in ProviderIds \cup {None} :
          UpsertProviderLedger(job[h].pay, s, pid)
    BY <1>4, <2>2 DEF LedgerStep
  <2>4. [status |-> s, pid |-> pid] \in LedgerRow
    BY DEF LedgerRow
  <2> QED
    BY <2>1, <2>3, <2>4, NoneAssumption
    DEF UpsertProviderLedger, TypeOK, StoreTypeOK, Grows, Exists
<1>5. ASSUME NEW h \in Handlers, NoteStep(h)
      PROVE  StoreTypeOK' /\ Grows
  <2>1. Recorded(job[h]) \in Record
    BY <1>5, RecordedType
    DEF NoteStep, JobsFit, JobFits, TypeOK, ServiceTypeOK
  <2> QED
    BY <1>5, <2>1, NoneAssumption
    DEF NoteStep, InsertProviderEvent, TypeOK, StoreTypeOK, Grows, Exists
<1> QED
  BY <1>1, <1>2, <1>3, <1>4, <1>5 DEF TableStep
-----------------------------------------------------------------------------
(* Each step does one of the five things, and keeps JobsFit *)

\* A handler that does not move keeps what it needs, for rows stay.
LEMMA Bystander ==
  ASSUME TypeOK, Grows, NEW g \in Handlers, JobFits(g),
         pc'[g] = pc[g], job'[g] = job[g]
  PROVE  JobFits(g)'
<1> DEFINE j == job[g]
<1>1. Exists(j.pay)' \/ ~Exists(j.pay) \/ j = None \/ pc[g] = "relookup"
  BY DEF Grows, Exists, JobFits
<1>2. pc[g] = "relookup" => Earlier(j)' # None
  BY DEF Grows, Earlier, JobFits
<1> QED
  BY <1>1, <1>2 DEF JobFits

\* One handler moves: the others keep what they need.
LEMMA OneMoves ==
  ASSUME TypeOK, JobsFit, Grows, NEW h \in Handlers, JobFits(h)',
         \A g \in Handlers \ {h} : pc'[g] = pc[g] /\ job'[g] = job[g]
  PROVE  JobsFit'
BY Bystander DEF JobsFit

\* Going on moves one handler.
LEMMA GotoMoves ==
  ASSUME ServiceTypeOK, NEW h \in Handlers, NEW point \in Points, NEW j,
         Goto(h, point, j)
  PROVE  /\ pc'[h] = point
         /\ job'[h] = j
         /\ \A g \in Handlers \ {h} : pc'[g] = pc[g] /\ job'[g] = job[g]
BY DEF ServiceTypeOK, Goto

\* Answering moves one handler, which then holds nothing.
LEMMA AnswerMoves ==
  ASSUME ServiceTypeOK, NEW h \in Handlers, NEW j, NEW code, NEW pay, NEW status,
         Answer(h, j, code, pay, status)
  PROVE  /\ pc'[h] = "idle"
         /\ job'[h] = None
         /\ JobFits(h)'
         /\ \A g \in Handlers \ {h} : pc'[g] = pc[g] /\ job'[g] = job[g]
BY DEF ServiceTypeOK, Answer, JobFits

\* What is proved of every action of handler h.
StepFits(h) ==
  /\ TableStep
  /\ ServiceTypeOK'
  /\ Grows => JobFits(h)'
  /\ \A g \in Handlers \ {h} : pc'[g] = pc[g] /\ job'[g] = job[g]

\* What a busy handler holds fits; the payment it names has a row.
LEMMA Held ==
  ASSUME TypeOK, JobsFit, NEW h \in Handlers, pc[h] # "idle"
  PROVE  /\ job[h] # None
         /\ job[h] \in Job
         /\ JobFits(h)
         /\ pc[h] # "relookup" => job[h].pay \in Payments
         /\ Exists(job[h].pay) /\ pc[h] # "relookup" => payments[job[h].pay] \in Row
BY DEF JobsFit, JobFits, TypeOK, ServiceTypeOK, StoreTypeOK, Exists

\* StepFits of an action that answers,
LEMMA AnswerFits ==
  ASSUME TypeOK, NEW h \in Handlers, NEW j \in Job, NEW code \in Codes,
         NEW pay \in Payments \cup {None}, NEW status \in Statuses \cup {None},
         Answer(h, j, code, pay, status), TableStep
  PROVE  StepFits(h)
<1>1. ServiceTypeOK
  BY DEF TypeOK
<1> QED
  BY <1>1, AnswerType, AnswerMoves DEF StepFits

\* of one that refuses,
LEMMA RefuseFits ==
  ASSUME TypeOK, NEW h \in Handlers, NEW j \in Job, NEW code \in Codes,
         Refuse(h, j, code), TableStep
  PROVE  StepFits(h)
BY AnswerFits DEF Refuse

\* of one that answers a committed statement,
LEMMA AcknowledgeFits ==
  ASSUME TypeOK, NEW h \in Handlers, NEW j \in Job, j.pay \in Payments,
         NEW status \in Statuses, Acknowledge(h, j, status), TableStep
  PROVE  StepFits(h)
BY AnswerFits, RefuseFits DEF Acknowledge, Codes

\* and of one that goes on.
LEMMA GotoFits ==
  ASSUME TypeOK, NEW h \in Handlers, NEW point \in Points, NEW j \in Job,
         Goto(h, point, j), TableStep,
         pc'[h] = point /\ job'[h] = j /\ Grows => JobFits(h)'
  PROVE  StepFits(h)
<1>1. ServiceTypeOK
  BY DEF TypeOK
<1> QED
  BY <1>1, GotoType, GotoMoves DEF StepFits

\* The ends of a read that go no further.
LEMMA ReadEnds ==
  ASSUME TypeOK, JobsFit, NEW h \in Handlers,
         pc[h] \in {"get", "resume", "reload"}, UNCHANGED tables,
         \/ NotFound(h)
         \/ Exists(job[h].pay) /\ AnswerRow(h)
         \/ \E ss \in SUBSET Statuses : WrongState(h, ss)
  PROVE  StepFits(h)
<1>1. TableStep
  BY DEF TableStep
<1>2. /\ job[h] \in Job
      /\ job[h].pay \in Payments
      /\ Exists(job[h].pay) => payments[job[h].pay].status \in Statuses
  BY Held DEF Row
<1> QED
  BY <1>1, <1>2, AnswerFits, RefuseFits DEF NotFound, AnswerRow, WrongState, Codes

\* The payment of a record exists: a replay finds it.
RecordsExist ==
  /\ \A k \in Keys : keys[k] # None => Exists(keys[k].pay)
  /\ \A e \in EventIds : providerEvents[e] # None => Exists(providerEvents[e].pay)

IdFits(j) == j.id \in IF j.op \in InboundTypes THEN EventIds ELSE Keys

\* A replay goes on with the payment of the record it found.
LEMMA ReplayFits ==
  ASSUME TypeOK, RecordsExist, NEW h \in Handlers, NEW j \in Job, IdFits(j),
         j.op # "create" => j.arg \in Payments,
         Earlier(j) # None, Replay(h, j, Earlier(j)), UNCHANGED tables
  PROVE  StepFits(h)
<1> DEFINE rec == Earlier(j)
           on  == [j EXCEPT !.pay = rec.pay]
<1>1. TableStep
  BY DEF TableStep
<1>2. rec.pay \in Payments /\ Exists(rec.pay)
  BY DEF Earlier, IdFits, TypeOK, StoreTypeOK, RecordsExist, Record
<1>3. CASE Refuse(h, j, "REUSE")
  BY <1>1, <1>3, RefuseFits DEF Codes
<1>4. CASE Goto(h, IF j.op = "authorize" THEN "resume" ELSE "reload", on)
  <2>1. /\ on \in Job
        /\ on.op = j.op /\ on.arg = j.arg /\ on.id = j.id /\ on.pay = rec.pay
    BY <1>2 DEF Job
  <2>2. ASSUME Grows, job'[h] = on,
               pc'[h] = IF j.op = "authorize" THEN "resume" ELSE "reload"
        PROVE  JobFits(h)'
    <3>1. on # None
      BY <2>1, NoJobAssumption
    <3>2. payments'[rec.pay] # None
      BY <1>2, <2>2 DEF Grows
    <3>3. payments'[job'[h].pay] # None
      BY <2>1, <2>2, <3>2
    <3> QED
      BY <2>1, <2>2, <3>1, <1>2, <3>3 DEF JobFits, IdFits, Exists
  <2> HIDE DEF on
  <2> QED
    BY <1>1, <1>4, <2>1, <2>2, GotoFits DEF Points
<1> QED
  BY <1>3, <1>4 DEF Replay

\* The lookup of Authorize, Capture, Refund, Cancel and ApplyInbound.
LEMMA ArriveFits ==
  ASSUME TypeOK, RecordsExist, NEW h \in Handlers, NEW op, NEW id,
         op \in (Operations \cup InboundTypes) \ {"create"},
         id \in IF op \in InboundTypes THEN EventIds ELSE Keys,
         NEW p \in Payments, Arrive(h, Request(op, p, id))
  PROVE  StepFits(h)
<1> DEFINE j == Request(op, p, id)
           on == [j EXCEPT !.pay = j.arg]
<1>1. TableStep
  BY DEF Arrive, TableStep
<1>2. /\ j \in Job
      /\ IdFits(j)
      /\ j.op = op /\ j.arg = p /\ j.id = id
  BY RequestType DEF Request, IdFits
<1>3. CASE Earlier(j) # None
  BY <1>2, <1>3, ReplayFits DEF Arrive
<1>4. CASE Goto(h, "get", on)
  <2>1. /\ on \in Job
        /\ on.op = op /\ on.arg = p /\ on.id = id /\ on.pay = p
    BY <1>2 DEF Job
  <2>2. ASSUME Grows, job'[h] = on, pc'[h] = "get"
        PROVE  JobFits(h)'
    <3>1. on # None
      BY <2>1, NoJobAssumption
    <3> QED
      BY <2>1, <2>2, <3>1 DEF JobFits
  <2> HIDE DEF on
  <2> QED
    BY <1>1, <1>4, <2>1, <2>2, GotoFits DEF Points
<1> QED
  BY <1>3, <1>4 DEF Arrive

\* Create inserts a payment and its key, or looks its key up again.
LEMMA CreateFits ==
  ASSUME TypeOK, RecordsExist, NEW h \in Handlers, NEW a \in Amounts,
         NEW k \in Keys, Create(h, a, k)
  PROVE  StepFits(h)
<1> DEFINE j == Request("create", a, k)
<1>1. /\ j \in Job
      /\ j.op = "create" /\ j.arg = a /\ j.id = k
      /\ "create" \notin InboundTypes
      /\ Earlier(j) = keys[k]
  BY RequestType DEF Request, Earlier, Operations, InboundTypes
<1>2. CASE keys[k] = None
  <2> DEFINE made(p) == [j EXCEPT !.pay = p]
  <2>1. PICK p \in Payments :
          /\ payments[p] = None
          /\ InsertCreated(p, a)
          /\ InsertKey(k, Recorded(made(p)))
          /\ Acknowledge(h, made(p), "requires_payment")
    BY <1>2 DEF Create
  <2>2. made(p) \in Job /\ made(p).pay = p
    BY RequestType DEF Request, Operations
  <2>3. Recorded(made(p)) = [op |-> "create", arg |-> a, pay |-> p]
    BY DEF Recorded, Request
  <2>4. TableStep
    BY <1>2, <2>1, <2>3 DEF TableStep, Creation
  <2>5. "requires_payment" \in Statuses
    BY DEF Statuses
  <2> HIDE DEF made
  <2> QED
    BY <2>1, <2>2, <2>4, <2>5, AcknowledgeFits
<1>3. CASE keys[k] # None
  <2>1. Goto(h, "relookup", j) /\ UNCHANGED tables
    BY <1>3 DEF Create
  <2>2. TableStep
    BY <2>1 DEF TableStep
  <2>3. ASSUME Grows, job'[h] = j, pc'[h] = "relookup"
        PROVE  JobFits(h)'
    <3>1. j # None
      BY <1>1, NoJobAssumption
    <3>2. Earlier(job[h])' # None
      BY <1>1, <1>3, <2>3 DEF Earlier, Grows
    <3> QED
      BY <1>1, <2>3, <3>1, <3>2 DEF JobFits
  <2> HIDE DEF j
  <2> QED
    BY <1>1, <2>1, <2>2, <2>3, GotoFits DEF Points
<1> QED
  BY <1>2, <1>3

\* A handler that computed the payment its next access needs.
LEMMA HoldFits ==
  ASSUME TypeOK, JobsFit, NEW h \in Handlers, pc[h] \notin {"idle", "relookup"},
         Exists(job[h].pay),
         NEW point \in {"begin", "provider", "save", "note"},
         NEW row \in Row, NEW from \in Statuses \cup {None},
         Goto(h, point, Holding(h, row, from)), TableStep,
         point = "begin" => /\ job[h].op = "authorize"
                            /\ row.status = "processing"
                            /\ from = "requires_payment",
         point = "provider" => /\ job[h].op \notin {"create", "cancel"}
                               /\ row.status = from
                               /\ \A s \in Targets(job[h].op) : from = Before(s),
         point = "save" => /\ job[h].op # "create"
                           /\ row.status \in Targets(job[h].op)
                           /\ from = Before(row.status),
         point = "note" => job[h].op \in InboundTypes
  PROVE  StepFits(h)
<1> DEFINE j == Holding(h, row, from)
<1>1. /\ j \in Job
      /\ j.op = job[h].op /\ j.arg = job[h].arg /\ j.id = job[h].id
      /\ j.pay = job[h].pay /\ j.row = row /\ j.from = from
      /\ JobFits(h) /\ job[h] # None
      /\ job[h].pay \in Payments
  BY Held, HoldingType
<1>2. ASSUME Grows, job'[h] = j, pc'[h] = point
      PROVE  JobFits(h)'
  <2>1. j # None /\ row # None
    BY <1>1, NoJobAssumption, NoneAssumption
  <2>2. payments'[job'[h].pay] # None
    BY <1>1, <1>2 DEF Grows
  <2>3. /\ job'[h].op = job[h].op /\ job'[h].arg = job[h].arg
        /\ job'[h].id = job[h].id /\ job'[h].pay = job[h].pay
        /\ job'[h].row = row /\ job'[h].from = from
        /\ job'[h] # None
    BY <1>1, <1>2, <2>1
  <2>4. /\ job[h].id \in IF job[h].op \in InboundTypes THEN EventIds ELSE Keys
        /\ job[h].op # "create" => job[h].arg \in Payments
    BY <1>1 DEF JobFits
  <2> QED
    BY <1>1, <1>2, <2>1, <2>2, <2>3, <2>4 DEF JobFits, Exists
<1>3. Goto(h, point, j)
  OBVIOUS
<1> HIDE DEF j
<1> QED
  BY <1>1, <1>2, <1>3, GotoFits DEF Points

\* A handler that forgets the payment it computed, to read again.
LEMMA ForgetFits ==
  ASSUME TypeOK, JobsFit, NEW h \in Handlers, pc[h] \notin {"idle", "relookup"},
         NEW point \in {"relookup", "reload"},
         Goto(h, point, Holding(h, None, None)), UNCHANGED tables,
         point = "reload" => Exists(job[h].pay),
         point = "relookup" => Earlier(job[h]) # None
  PROVE  StepFits(h)
<1> DEFINE j == Holding(h, None, None)
<1>1. /\ j \in Job
      /\ j.op = job[h].op /\ j.arg = job[h].arg /\ j.id = job[h].id
      /\ j.pay = job[h].pay
      /\ JobFits(h) /\ job[h] # None
      /\ job[h].pay \in Payments
  BY Held, HoldingType
<1>2. ASSUME job'[h] = j, pc'[h] = point
      PROVE  JobFits(h)'
  <2>1. j # None
    BY <1>1, NoJobAssumption
  <2>2. point = "reload" => payments'[job'[h].pay] # None
    BY <1>1, <1>2 DEF tables, Exists
  <2>3. point = "relookup" => Earlier(job[h])' # None
    BY <1>1, <1>2 DEF tables, Earlier
  <2>4. /\ job'[h].op = job[h].op /\ job'[h].arg = job[h].arg
        /\ job'[h].id = job[h].id /\ job'[h].pay = job[h].pay
        /\ job'[h] # None
    BY <1>1, <1>2, <2>1
  <2>5. /\ job[h].id \in IF job[h].op \in InboundTypes THEN EventIds ELSE Keys
        /\ job[h].op # "create" => job[h].arg \in Payments
    BY <1>1 DEF JobFits
  <2> QED
    BY <1>1, <1>2, <2>2, <2>3, <2>4, <2>5 DEF JobFits, Exists
<1>3. Goto(h, point, j) /\ TableStep
  BY DEF TableStep
<1> HIDE DEF j
<1> QED
  BY <1>1, <1>2, <1>3, GotoFits DEF Points

-----------------------------------------------------------------------------
(* One lemma for each action *)

\* The read of Authorize.
LEMMA AuthorizeReadFits ==
  ASSUME TypeOK, JobsFit, NEW h \in Handlers, AuthorizeRead(h)
  PROVE  StepFits(h)
<1> DEFINE row == payments[job[h].pay]
<1>1. /\ pc[h] = "get" /\ job[h].op = "authorize" /\ UNCHANGED tables
      /\ TableStep
  BY DEF AuthorizeRead, Read, TableStep
<1>2. Exists(job[h].pay) => row \in Row
  BY <1>1, Held
<1>3. CASE NotFound(h) \/ WrongState(h, {"processing", "requires_payment"})
  BY <1>1, <1>3, ReadEnds DEF Statuses
<1>4. CASE /\ At(h, "processing")
           /\ Goto(h, "provider", Holding(h, row, "processing"))
  <2>1. /\ Exists(job[h].pay)
        /\ row.status = "processing"
        /\ \A s \in Targets(job[h].op) : Before(s) = "processing"
        /\ "processing" \in Statuses
    BY <1>1, <1>4, TargetsAre, BeforeIs DEF At, Exists, Statuses
  <2> QED
    BY <1>1, <1>2, <1>4, <2>1, HoldFits
<1>5. CASE /\ At(h, "requires_payment")
           /\ Goto(h, "begin", Holding(h, Advance(row, "processing"),
                                       "requires_payment"))
  <2>1. /\ Exists(job[h].pay)
        /\ "processing" \in Statuses /\ "requires_payment" \in Statuses
    BY <1>5 DEF At, Exists, Statuses
  <2>2. /\ Advance(row, "processing") \in Row
        /\ Advance(row, "processing").status = "processing"
    BY <1>2, <2>1, AdvanceType
  <2> QED
    BY <1>1, <1>5, <2>1, <2>2, HoldFits
<1> QED
  BY <1>3, <1>4, <1>5 DEF AuthorizeRead

\* A save that commits with the request's key is a transition.
LEMMA SavedWithKeyStep ==
  ASSUME TypeOK, JobsFit, NEW h \in Handlers, pc[h] \in {"begin", "save"},
         job[h].op \in Operations, job[h].row.status = Effect(job[h].op),
         SavedWithKey(h)
  PROVE  TableStep
BY DEF SavedWithKey, TableStep, Transition

\* The first save of Authorize.
LEMMA BeginFits ==
  ASSUME TypeOK, JobsFit, NEW h \in Handlers, Begin(h)
  PROVE  StepFits(h)
<1>1. /\ pc[h] = "begin"
      /\ job[h].op = "authorize"
      /\ Exists(job[h].pay)
      /\ job[h].row \in Row
      /\ job[h].row.status = "processing"
      /\ job[h] \in Job
  BY Held DEF Begin, JobFits, Job
<1>2. CASE /\ SavedWithKey(h)
           /\ Goto(h, "provider", Holding(h, job[h].row, "processing"))
  <2>1. /\ TableStep
        /\ "processing" \in Statuses
        /\ \A s \in Targets(job[h].op) : Before(s) = "processing"
    BY <1>1, <1>2, SavedWithKeyStep, TargetsAre, BeforeIs, EffectsAre
    DEF Operations, Statuses
  <2> QED
    BY <1>1, <1>2, <2>1, HoldFits
<1>3. CASE Duplicate(h) /\ Goto(h, "relookup", Holding(h, None, None))
  BY <1>1, <1>3, ForgetFits DEF Duplicate
<1>4. CASE Stale(h) /\ Refuse(h, job[h], "INTERNAL")
  BY <1>1, <1>4, RefuseFits DEF Stale, TableStep, Codes
<1> QED
  BY <1>2, <1>3, <1>4 DEF Begin

\* The read of a replayed Authorize.
LEMMA ResumeFits ==
  ASSUME TypeOK, JobsFit, NEW h \in Handlers, Resume(h)
  PROVE  StepFits(h)
<1> DEFINE row == payments[job[h].pay]
<1>1. /\ pc[h] = "resume" /\ job[h].op = "authorize" /\ UNCHANGED tables
      /\ Exists(job[h].pay)
      /\ row \in Row
      /\ TableStep
  BY Held DEF Resume, TableStep, JobFits
<1>2. CASE AnswerRow(h) \/ WrongState(h, {"authorized", "failed", "processing"})
  BY <1>1, <1>2, ReadEnds DEF Statuses
<1>3. CASE /\ At(h, "processing")
           /\ Goto(h, "provider", Holding(h, row, "processing"))
  <2>1. /\ row.status = "processing"
        /\ \A s \in Targets(job[h].op) : Before(s) = "processing"
        /\ "processing" \in Statuses
    BY <1>1, <1>3, TargetsAre, BeforeIs DEF At, Statuses
  <2> QED
    BY <1>1, <1>3, <2>1, HoldFits
<1> QED
  BY <1>2, <1>3 DEF Resume

\* Writing the ledger, for any operation that does.
LEMMA WriteLedgerFits ==
  ASSUME TypeOK, JobsFit, NEW h \in Handlers, pc[h] = "provider",
         NEW row \in Row, row.status \in Targets(job[h].op),
         job[h].from # "processing" => row.pid = job[h].row.pid,
         WriteLedger(h, row)
  PROVE  StepFits(h)
<1>1. /\ job[h] \in Job
      /\ job[h].op \notin {"create", "cancel"}
      /\ Exists(job[h].pay)
      /\ \A s \in Targets(job[h].op) : job[h].from = Before(s)
  BY Held DEF JobFits
<1>2. TableStep
  BY DEF WriteLedger, TableStep, LedgerStep, Row
<1> QED
  BY <1>1, <1>2, HoldFits DEF WriteLedger, Job

\* The provider's answer to an authorization.
LEMMA AuthorizeProviderFits ==
  ASSUME TypeOK, JobsFit, NEW h \in Handlers, AuthorizeProvider(h)
  PROVE  StepFits(h)
<1> DEFINE row == job[h].row
<1>1. /\ pc[h] = "provider" /\ job[h].op = "authorize"
      /\ row \in Row
      /\ Targets(job[h].op) = {"authorized", "failed"}
      /\ "authorized" \in Statuses /\ "failed" \in Statuses
      /\ job[h].from = "processing"
  BY Held, TargetsAre, BeforeIs DEF AuthorizeProvider, JobFits, Job, Statuses
<1>2. ASSUME NEW pid \in ProviderIds,
             WriteLedger(h, [Advance(row, "authorized") EXCEPT !.pid = pid])
      PROVE  StepFits(h)
  <2> DEFINE next == [Advance(row, "authorized") EXCEPT !.pid = pid]
  <2>1. Advance(row, "authorized") \in Row
        /\ Advance(row, "authorized").status = "authorized"
    BY <1>1, AdvanceType
  <2>2. next \in Row /\ next.status = "authorized"
    BY <2>1 DEF Row
  <2> QED
    BY <1>1, <1>2, <2>2, WriteLedgerFits
<1>3. CASE WriteLedger(h, Advance(row, "failed"))
  BY <1>1, <1>3, AdvanceType, WriteLedgerFits
<1> QED
  BY <1>2, <1>3 DEF AuthorizeProvider

\* The second save of Authorize.
LEMMA AuthorizeSaveFits ==
  ASSUME TypeOK, JobsFit, NEW h \in Handlers, AuthorizeSave(h)
  PROVE  StepFits(h)
<1>1. /\ pc[h] = "save" /\ job[h].op = "authorize"
      /\ job[h].row \in Row
      /\ job[h] \in Job
      /\ job[h].pay \in Payments
      /\ Exists(job[h].pay)
  BY Held DEF AuthorizeSave, JobFits, Job
<1>2. CASE Saved(h) /\ NoRecord /\ Acknowledge(h, job[h], job[h].row.status)
  <2>1. TableStep
    BY <1>1, <1>2 DEF TableStep, Transition
  <2> QED
    BY <1>1, <1>2, <2>1, AcknowledgeFits DEF Row
<1>3. CASE Stale(h) /\ Goto(h, "reload", Holding(h, None, None))
  BY <1>1, <1>3, ForgetFits DEF Stale
<1> QED
  BY <1>2, <1>3 DEF AuthorizeSave

\* The read of Capture and Refund.
LEMMA ReadForProviderFits ==
  ASSUME TypeOK, JobsFit, NEW h \in Handlers, NEW op, op # "create", op # "cancel",
         NEW from \in Statuses, NEW to \in Statuses,
         Targets(op) = {to}, Before(to) = from,
         ReadForProvider(h, op, from, to)
  PROVE  StepFits(h)
<1> DEFINE row == payments[job[h].pay]
<1>1. /\ pc[h] = "get" /\ job[h].op = op /\ UNCHANGED tables
      /\ TableStep
  BY DEF ReadForProvider, Read, TableStep
<1>2. Exists(job[h].pay) => row \in Row
  BY <1>1, Held
<1>3. CASE NotFound(h) \/ WrongState(h, {from, to})
  BY <1>1, <1>3, ReadEnds
<1>4. CASE At(h, to) /\ AnswerRow(h)
  BY <1>1, <1>4, ReadEnds DEF At, Exists
<1>5. CASE At(h, from) /\ Goto(h, "provider", Holding(h, row, from))
  <2>1. Exists(job[h].pay) /\ row.status = from
    BY <1>5 DEF At, Exists
  <2> QED
    BY <1>1, <1>2, <1>5, <2>1, HoldFits
<1> QED
  BY <1>3, <1>4, <1>5 DEF ReadForProvider

\* The provider's answer to a capture or a refund.
LEMMA AskProviderFits ==
  ASSUME TypeOK, JobsFit, NEW h \in Handlers, NEW op, NEW to \in Statuses,
         Targets(op) = {to}, AskProvider(h, op, to)
  PROVE  StepFits(h)
<1>1. /\ pc[h] = "provider" /\ job[h].op = op
      /\ job[h].row \in Row
      /\ job[h] \in Job
  BY Held DEF AskProvider, JobFits, Job
<1>2. CASE WriteLedger(h, Advance(job[h].row, to))
  BY <1>1, <1>2, AdvanceType, WriteLedgerFits
<1>3. CASE Refuse(h, job[h], "DECLINED") /\ UNCHANGED tables
  BY <1>1, <1>3, RefuseFits DEF TableStep, Codes
<1> QED
  BY <1>2, <1>3 DEF AskProvider

\* The save of Capture, Refund and Cancel.
LEMMA SaveOnceFits ==
  ASSUME TypeOK, JobsFit, NEW h \in Handlers,
         NEW op \in {"capture", "refund", "cancel"}, SaveOnce(h, op)
  PROVE  StepFits(h)
<1>1. /\ pc[h] = "save" /\ job[h].op = op
      /\ job[h].row \in Row
      /\ job[h] \in Job
      /\ job[h].pay \in Payments
      /\ Exists(job[h].pay)
      /\ job[h].row.status \in Targets(op)
      /\ op \in Operations
  BY Held DEF SaveOnce, JobFits, Job, Operations
<1>2. CASE SavedWithKey(h) /\ Acknowledge(h, job[h], job[h].row.status)
  BY <1>1, <1>2, EffectsAre, SavedWithKeyStep, AcknowledgeFits DEF Row
<1>3. CASE (Duplicate(h) \/ Stale(h)) /\ Goto(h, "reload", Holding(h, None, None))
  BY <1>1, <1>3, ForgetFits DEF Duplicate, Stale
<1> QED
  BY <1>2, <1>3 DEF SaveOnce

\* The steps of Capture.
LEMMA CaptureFits ==
  ASSUME TypeOK, JobsFit, NEW h \in Handlers,
         CaptureRead(h) \/ CaptureProvider(h) \/ CaptureSave(h)
  PROVE  StepFits(h)
<1>1. "authorized" \in Statuses /\ "captured" \in Statuses
  BY DEF Statuses
<1> QED
  BY <1>1, TargetsAre, BeforeIs, ReadForProviderFits, AskProviderFits, SaveOnceFits
  DEF CaptureRead, CaptureProvider, CaptureSave

\* The steps of Refund.
LEMMA RefundFits ==
  ASSUME TypeOK, JobsFit, NEW h \in Handlers,
         RefundRead(h) \/ RefundProvider(h) \/ RefundSave(h)
  PROVE  StepFits(h)
<1>1. "captured" \in Statuses /\ "refunded" \in Statuses
  BY DEF Statuses
<1> QED
  BY <1>1, TargetsAre, BeforeIs, ReadForProviderFits, AskProviderFits, SaveOnceFits
  DEF RefundRead, RefundProvider, RefundSave

\* The steps of Cancel.
LEMMA CancelFits ==
  ASSUME TypeOK, JobsFit, NEW h \in Handlers, CancelRead(h) \/ CancelSave(h)
  PROVE  StepFits(h)
<1>1. CASE CancelSave(h)
  BY <1>1, SaveOnceFits DEF CancelSave
<1>2. CASE CancelRead(h)
  <2> DEFINE row == payments[job[h].pay]
  <2>1. /\ pc[h] = "get" /\ job[h].op = "cancel" /\ UNCHANGED tables
        /\ TableStep
        /\ "authorized" \in Statuses /\ "cancelled" \in Statuses
    BY <1>2 DEF CancelRead, Read, TableStep, Statuses
  <2>2. Exists(job[h].pay) => row \in Row
    BY <2>1, Held
  <2>3. CASE NotFound(h) \/ WrongState(h, {"authorized", "cancelled"})
    BY <2>1, <2>3, ReadEnds
  <2>4. CASE At(h, "cancelled") /\ AnswerRow(h)
    BY <2>1, <2>4, ReadEnds DEF At, Exists
  <2>5. CASE /\ At(h, "authorized")
             /\ Goto(h, "save", Holding(h, Advance(row, "cancelled"), "authorized"))
    <3>1. /\ Exists(job[h].pay)
          /\ Advance(row, "cancelled") \in Row
          /\ Advance(row, "cancelled").status = "cancelled"
      BY <2>1, <2>2, <2>5, AdvanceType DEF At, Exists
    <3> QED
      BY <2>1, <2>5, <3>1, HoldFits, TargetsAre, BeforeIs
  <2> QED
    BY <1>2, <2>3, <2>4, <2>5 DEF CancelRead
<1> QED
  BY <1>1, <1>2

\* The read of ApplyInbound.
LEMMA InboundReadFits ==
  ASSUME TypeOK, JobsFit, NEW h \in Handlers, InboundRead(h)
  PROVE  StepFits(h)
<1> DEFINE type == job[h].op
           row  == payments[job[h].pay]
<1>1. /\ pc[h] = "get" /\ UNCHANGED tables
      /\ TableStep
      /\ type \in InboundTypes
      /\ type \in Statuses /\ InboundFrom(type) \in Statuses
      /\ type \notin {"create", "cancel"}
  BY Names DEF InboundRead, Read, TableStep, InboundTypes, InboundFrom, Statuses
<1>2. Exists(job[h].pay) => row \in Row
  BY <1>1, Held
<1>3. CASE NotFound(h) \/ WrongState(h, {type, InboundFrom(type)})
  BY <1>1, <1>3, ReadEnds
<1>4. CASE At(h, type) /\ Goto(h, "note", Holding(h, row, None))
  BY <1>1, <1>2, <1>4, HoldFits DEF At, Exists
<1>5. CASE /\ At(h, InboundFrom(type))
           /\ Goto(h, "provider", Holding(h, row, InboundFrom(type)))
  <2>1. Exists(job[h].pay) /\ row.status = InboundFrom(type)
    BY <1>5 DEF At, Exists
  <2>2. \A s \in Targets(type) : InboundFrom(type) = Before(s)
    BY <1>1, TargetsAre, BeforeIs
  <2> QED
    BY <1>1, <1>2, <1>5, <2>1, <2>2, HoldFits
<1> QED
  BY <1>3, <1>4, <1>5 DEF InboundRead

\* Recording a provider event whose effect is there already.
LEMMA InboundNoteFits ==
  ASSUME TypeOK, JobsFit, NEW h \in Handlers, InboundNote(h)
  PROVE  StepFits(h)
<1>1. /\ pc[h] = "note" /\ job[h].op \in InboundTypes
      /\ job[h].row \in Row
      /\ job[h] \in Job
      /\ job[h].pay \in Payments
      /\ Exists(job[h].pay)
  BY Held DEF InboundNote, JobFits, Job
<1>2. CASE /\ providerEvents[job[h].id] = None
           /\ InsertProviderEvent(job[h].id, Recorded(job[h]))
           /\ UNCHANGED <<payments, events, outbox, ledger>>
           /\ Acknowledge(h, job[h], job[h].row.status)
  <2>1. TableStep
    BY <1>1, <1>2 DEF TableStep, NoteStep
  <2> QED
    BY <1>1, <1>2, <2>1, AcknowledgeFits DEF Row
<1>3. CASE /\ providerEvents[job[h].id] # None
           /\ Goto(h, "relookup", Holding(h, None, None))
           /\ UNCHANGED tables
  BY <1>1, <1>3, ForgetFits DEF Earlier
<1> QED
  BY <1>2, <1>3 DEF InboundNote

\* The ledger row of a provider event.
LEMMA InboundLedgerFits ==
  ASSUME TypeOK, JobsFit, NEW h \in Handlers, InboundLedger(h)
  PROVE  StepFits(h)
<1>1. /\ pc[h] = "provider"
      /\ job[h].op \in InboundTypes /\ job[h].op \in Statuses
      /\ job[h].row \in Row
  BY Held, Names DEF InboundLedger, JobFits, Job
<1> QED
  BY <1>1, AdvanceType, TargetsAre, WriteLedgerFits DEF InboundLedger

\* The save of ApplyInbound.
LEMMA InboundSaveFits ==
  ASSUME TypeOK, JobsFit, NEW h \in Handlers, InboundSave(h)
  PROVE  StepFits(h)
<1>1. /\ pc[h] = "save" /\ job[h].op \in InboundTypes
      /\ job[h].row \in Row
      /\ job[h] \in Job
      /\ job[h].pay \in Payments
  BY Held DEF InboundSave, JobFits, Job
<1>2. CASE /\ providerEvents[job[h].id] = None
           /\ Saved(h)
           /\ InsertProviderEvent(job[h].id, Recorded(job[h]))
           /\ Acknowledge(h, job[h], job[h].row.status)
  <2>1. TableStep
    BY <1>1, <1>2 DEF TableStep, Transition
  <2> QED
    BY <1>1, <1>2, <2>1, AcknowledgeFits DEF Row
<1>3. CASE Duplicate(h) /\ Goto(h, "relookup", Holding(h, None, None))
  BY <1>1, <1>3, ForgetFits DEF Duplicate
<1>4. CASE Stale(h) /\ Refuse(h, job[h], "INTERNAL")
  BY <1>1, <1>4, RefuseFits DEF Stale, TableStep, Codes
<1> QED
  BY <1>2, <1>3, <1>4 DEF InboundSave

\* The second lookup, the last read, and a failure anywhere.
LEMMA SharedEndsFit ==
  ASSUME TypeOK, JobsFit, RecordsExist, NEW h \in Handlers,
         Relookup(h) \/ Reload(h) \/ Fail(h)
  PROVE  StepFits(h)
<1>1. CASE Relookup(h)
  <2>1. /\ job[h] \in Job
        /\ IdFits(job[h])
        /\ Earlier(job[h]) # None
        /\ job[h].op # "create" => job[h].arg \in Payments
    BY <1>1, Held DEF Relookup, JobFits, IdFits
  <2> QED
    BY <1>1, <2>1, ReplayFits DEF Relookup
<1>2. CASE Reload(h)
  <2>1. Exists(job[h].pay)
    BY <1>2, Held DEF Reload, JobFits
  <2> QED
    BY <1>2, <2>1, ReadEnds DEF Reload
<1>3. CASE Fail(h)
  BY <1>3, Held, RefuseFits DEF Fail, TableStep, Codes
<1> QED
  BY <1>1, <1>2, <1>3

\* The arrival of any request.
LEMMA ReceiveFits ==
  ASSUME TypeOK, RecordsExist, NEW h \in Handlers, Receive(h)
  PROVE  StepFits(h)
<1>1. \A op \in Operations : ClientKeys[op] \subseteq Keys
  BY ClientKeysAssumption
<1>2. {"create", "authorize", "capture", "refund", "cancel"} = Operations
  BY DEF Operations
<1>3. ASSUME NEW k \in ClientKeys["create"], NEW a \in Amounts, Create(h, a, k)
      PROVE  StepFits(h)
  BY <1>1, <1>2, <1>3, CreateFits
<1>4. ASSUME NEW p \in Payments, NEW op \in Operations \ {"create"},
             NEW k \in ClientKeys[op], Arrive(h, Request(op, p, k))
      PROVE  StepFits(h)
  BY <1>1, <1>4, Names, ArriveFits
<1>5. ASSUME NEW p \in Payments, NEW e \in EventIds, NEW type \in InboundTypes,
             ApplyInbound(h, type, p, e)
      PROVE  StepFits(h)
  <2>1. type \in (Operations \cup InboundTypes) \ {"create"}
    BY DEF InboundTypes
  <2> QED
    BY <1>5, <2>1, ArriveFits DEF ApplyInbound
<1> QED
  BY <1>2, <1>3, <1>4, <1>5 DEF Receive, Authorize, Capture, Refund, Cancel

\* Each action of each handler is a step of that handler.
LEMMA ActionFits ==
  ASSUME TypeOK, JobsFit, RecordsExist, NEW h \in Handlers,
         Receive(h) \/ Proceed(h) \/ Fail(h)
  PROVE  StepFits(h)
<1>1. CASE Receive(h)
  BY <1>1, ReceiveFits
<1>2. CASE Fail(h)
  BY <1>2, SharedEndsFit
<1>3. CASE Proceed(h)
  BY <1>3, AuthorizeReadFits, BeginFits, ResumeFits, AuthorizeProviderFits,
     AuthorizeSaveFits, CaptureFits, RefundFits, CancelFits, InboundReadFits,
     InboundNoteFits, InboundLedgerFits, InboundSaveFits, SharedEndsFit
  DEF Proceed
<1> QED
  BY <1>1, <1>2, <1>3

-----------------------------------------------------------------------------
(* The invariant of types *)

\* The payment of a record exists after each of the five things.
LEMMA RecordsStayExisting ==
  ASSUME TypeOK, JobsFit, RecordsExist, TableStep, Grows
  PROVE  RecordsExist'
<1>1. CASE UNCHANGED tables
  BY <1>1 DEF tables, RecordsExist, Exists
<1>2. ASSUME NEW p \in Payments, NEW a \in Amounts, NEW k \in Keys,
             Creation(p, a, k)
      PROVE  RecordsExist'
  <2>1. payments'[p] # None
    BY <1>2, NoneAssumption
    DEF Creation, InsertCreated, TypeOK, StoreTypeOK, Row, Statuses
  <2> QED
    BY <1>2, <2>1
    DEF Creation, InsertKey, TypeOK, StoreTypeOK, RecordsExist, Exists, Grows, Record
<1>3. ASSUME NEW h \in Handlers, Transition(h) \/ LedgerStep(h) \/ NoteStep(h)
      PROVE  RecordsExist'
  <2>1. pc[h] \in {"begin", "save", "provider", "note"}
    BY <1>3 DEF Transition, LedgerStep, NoteStep
  <2>2. /\ job[h].pay \in Payments
        /\ payments'[job[h].pay] # None
        /\ Recorded(job[h]).pay = job[h].pay
    BY <2>1, Held DEF JobFits, Grows, Recorded
  <2>3. \A k \in Keys : keys'[k] \in {keys[k], Recorded(job[h])}
    BY <1>3 DEF Transition, LedgerStep, NoteStep, NoRecord, InsertKey,
                InsertProviderEvent, UpsertProviderLedger, TypeOK, StoreTypeOK
  <2>4. \A e \in EventIds : providerEvents'[e] \in {providerEvents[e], Recorded(job[h])}
    BY <1>3 DEF Transition, LedgerStep, NoteStep, NoRecord, InsertKey,
                InsertProviderEvent, UpsertProviderLedger, TypeOK, StoreTypeOK
  <2> QED
    BY <2>2, <2>3, <2>4 DEF RecordsExist, Exists, Grows, TypeOK, StoreTypeOK, Record
<1> QED
  BY <1>1, <1>2, <1>3 DEF TableStep

\* TypeOK is not inductive: a step needs the payment its handler holds to
\* exist and to fit, and a replay the payment of the record it found.
TypeInv == TypeOK /\ JobsFit /\ RecordsExist

\* Nothing exists and no handler holds anything at first.
LEMMA InitTypeInv == Init => TypeInv
<1> SUFFICES ASSUME Init PROVE TypeInv
  OBVIOUS
<1>1. TypeOK
  BY DEF Init, StoreInit, TypeOK, StoreTypeOK, ServiceTypeOK, Points
<1>2. JobsFit
  BY DEF Init, JobsFit, JobFits
<1>3. RecordsExist
  BY DEF Init, StoreInit, RecordsExist
<1> QED
  BY <1>1, <1>2, <1>3 DEF TypeInv

\* A step of the service keeps the invariant and does one of the five things.
LEMMA StepTypeInv ==
  ASSUME TypeInv, [Next]_vars
  PROVE  TypeInv' /\ TableStep
<1>1. CASE Next
  <2>1. PICK h \in Handlers : StepFits(h)
    BY <1>1, ActionFits DEF TypeInv, Next
  <2>2. StoreTypeOK' /\ Grows
    BY <2>1, TableType DEF TypeInv, StepFits
  <2>3. JobsFit'
    BY <2>1, <2>2, OneMoves DEF TypeInv, StepFits
  <2>4. RecordsExist'
    BY <2>1, <2>2, RecordsStayExisting DEF TypeInv, StepFits
  <2> QED
    BY <2>1, <2>2, <2>3, <2>4 DEF TypeInv, TypeOK, StepFits
<1>2. CASE UNCHANGED vars
  BY <1>2 DEF vars, tables, serviceVars, TableStep, TypeInv, TypeOK, StoreTypeOK,
              ServiceTypeOK, JobsFit, JobFits, RecordsExist, Exists, Earlier
<1> QED
  BY <1>1, <1>2

\* Every variable keeps its type.
THEOREM TypeCorrect == Spec => []TypeOK
<1>1. TypeInv /\ [Next]_vars => TypeInv'
  BY StepTypeInv
<1>2. TypeInv => TypeOK
  BY DEF TypeInv
<1> QED
  BY InitTypeInv, <1>1, <1>2, PTL DEF Spec

\* Between two accesses, whatever the other handlers do meanwhile, a handler
\* holds what its next access needs.
THEOREM JobsAlwaysFit == Spec => []JobsFit
<1>1. TypeInv /\ [Next]_vars => TypeInv'
  BY StepTypeInv
<1>2. TypeInv => JobsFit
  BY DEF TypeInv
<1> QED
  BY InitTypeInv, <1>1, <1>2, PTL DEF Spec

-----------------------------------------------------------------------------
(* Row and history *)

\* Every status but the first has one before it, one transition earlier.
LEMMA RankBefore ==
  ASSUME NEW s \in Statuses, s # "requires_payment"
  PROVE  /\ Before(s) \in Statuses
         /\ Rank(Before(s)) \in Nat
         /\ Rank(s) = Rank(Before(s)) + 1
BY DEF Statuses, Before, InboundFrom, Rank

\* What a transaction that moves a payment does to it, and that it starts from
\* the one status before the new one.
LEMMA TransitionIs ==
  ASSUME TypeOK, NEW h \in Handlers, JobFits(h), Transition(h),
         NEW p, p = job[h].pay, NEW to, to = job[h].row.status
  PROVE  /\ p \in Payments
         /\ payments[p] \in Row
         /\ to \in Statuses \ {"requires_payment"}
         /\ payments[p].status = Before(to)
         /\ job[h].from = Before(to)
         /\ payments'[p] # None
         /\ payments'[p].status = to
         /\ payments'[p].version = payments[p].version + 1
         /\ payments'[p].amount = payments[p].amount
         /\ payments'[p].pid \in {payments[p].pid, job[h].row.pid}
         /\ events[p] \in Seq(Statuses)
         /\ events'[p] = Append(events[p], to)
         /\ \A q \in Payments \ {p} : /\ payments'[q] = payments[q]
                                      /\ events'[q] = events[q]
<1>1. /\ job[h] \in Job
      /\ p \in Payments
      /\ job[h].row \in Row
      /\ job[h].op \in (Operations \cup InboundTypes) \ {"create"}
      /\ to \in Statuses
  BY DEF Transition, JobFits, TypeOK, ServiceTypeOK, Job, Row
<1>2. /\ payments[p] \in Row
      /\ payments[p].status = job[h].from
      /\ payments[p].version = job[h].row.version - 1
  BY <1>1 DEF Transition, Saved, CanSave, Unchanged, TypeOK, StoreTypeOK
<1>3. job[h].from = Before(to)
  <2>1. CASE pc[h] = "begin"
    BY <2>1, BeforeIs DEF JobFits
  <2>2. CASE pc[h] = "save"
    BY <2>2 DEF JobFits
  <2> QED
    BY <2>1, <2>2 DEF Transition
<1>4. to # "requires_payment"
  <2>1. CASE pc[h] = "begin"
    BY <2>1 DEF JobFits
  <2>2. CASE pc[h] = "save"
    <3>1. to \in Targets(job[h].op)
      BY <2>2 DEF JobFits
    <3>2. job[h].op \in {"authorize", "capture", "refund", "cancel"} \cup InboundTypes
      BY <1>1 DEF Operations
    <3> QED
      BY <3>1, <3>2, TargetsAre DEF InboundTypes
  <2> QED
    BY <2>1, <2>2 DEF Transition
<1>5. /\ payments' = [payments EXCEPT ![p] =
            [status |-> to, version |-> job[h].row.version,
             amount |-> payments[p].amount,
             pid |-> IF job[h].row.pid = None THEN payments[p].pid
                                              ELSE job[h].row.pid]]
      /\ events' = [events EXCEPT ![p] = Append(@, to)]
  BY DEF Transition, Saved, UpdatePayment
<1>6. [status |-> to, version |-> job[h].row.version,
       amount |-> payments[p].amount,
       pid |-> IF job[h].row.pid = None THEN payments[p].pid
                                        ELSE job[h].row.pid] \in Row
  BY <1>1, <1>2 DEF Row
<1>7. job[h].row.version = payments[p].version + 1
  BY <1>1, <1>2 DEF Row
<1> QED
  BY <1>1, <1>2, <1>3, <1>4, <1>5, <1>6, <1>7, NoneAssumption
  DEF TypeOK, StoreTypeOK

\* The history of the payment that moves gets its next status.
LEMMA MovedHistory ==
  ASSUME TypeOK, NEW h \in Handlers, JobFits(h), Transition(h),
         NEW p, p = job[h].pay, HistoryOf(p)
  PROVE  HistoryOf(p)'
<1> DEFINE to == job[h].row.status
           n  == payments[p].version
<1>1. /\ p \in Payments
      /\ payments[p] \in Row
      /\ to \in Statuses /\ to # "requires_payment"
      /\ payments[p].status = Before(to)
      /\ payments'[p] # None
      /\ payments'[p].status = to
      /\ payments'[p].version = n + 1
      /\ events'[p] = Append(events[p], to)
  BY TransitionIs
<1>2. n \in Nat /\ events[p] \in Seq(Statuses)
  BY <1>1 DEF Row, TypeOK, StoreTypeOK
<1>3. Exists(p)
  BY <1>1, NoneAssumption DEF Exists
<1>4. /\ Len(events[p]) = n
      /\ n = Rank(Before(to))
      /\ events[p][n] = Before(to)
      /\ \A i \in DOMAIN events[p] :
           /\ Rank(events[p][i]) = i
           /\ i > 1 => events[p][i - 1] = Before(events[p][i])
  BY <1>1, <1>3 DEF HistoryOf
<1>5. Rank(to) = n + 1
  BY <1>1, <1>4, RankBefore
<1>6. /\ DOMAIN events[p] = 1..n
      /\ Len(events'[p]) = n + 1
      /\ DOMAIN events'[p] = 1..(n + 1)
      /\ events'[p][n + 1] = to
      /\ \A i \in 1..n : events'[p][i] = events[p][i]
  <2> HIDE DEF to, n
  <2> QED
    BY <1>1, <1>2, <1>4
<1>7. \A i \in 1..(n + 1) :
        /\ Rank(events'[p][i]) = i
        /\ i > 1 => events'[p][i - 1] = Before(events'[p][i])
  <2> HIDE DEF to, n
  <2> TAKE i \in 1..(n + 1)
  <2>1. CASE i = n + 1
    BY <2>1, <1>2, <1>4, <1>5, <1>6
  <2>2. CASE i \in 1..n
    <3>1. /\ events'[p][i] = events[p][i]
          /\ i > 1 => events'[p][i - 1] = events[p][i - 1]
      BY <2>2, <1>2, <1>6
    <3>2. /\ Rank(events[p][i]) = i
          /\ i > 1 => events[p][i - 1] = Before(events[p][i])
      BY <2>2, <1>4, <1>6
    <3> QED
      BY <3>1, <3>2
  <2> QED
    BY <2>1, <2>2, <1>2
<1> QED
  BY <1>1, <1>5, <1>6, <1>7 DEF HistoryOf, Exists

\* A payment that is not touched keeps its history.
LEMMA UntouchedHistory ==
  ASSUME NEW p, HistoryOf(p), payments'[p] = payments[p], events'[p] = events[p]
  PROVE  HistoryOf(p)'
BY DEF HistoryOf, Exists

\* Each of the five things keeps every history.
LEMMA StepHistory ==
  ASSUME TypeInv, TableStep, HistoryMatchesRow
  PROVE  HistoryMatchesRow'
<1>1. CASE payments' = payments /\ events' = events
  BY <1>1, UntouchedHistory DEF HistoryMatchesRow
<1>2. ASSUME NEW p \in Payments, NEW a \in Amounts, NEW k \in Keys,
             Creation(p, a, k)
      PROVE  HistoryMatchesRow'
  <2>1. /\ payments[p] = None
        /\ payments'[p] = [status |-> "requires_payment", version |-> 1,
                           amount |-> a, pid |-> None]
        /\ events'[p] = Append(events[p], "requires_payment")
        /\ \A q \in Payments \ {p} : /\ payments'[q] = payments[q]
                                     /\ events'[q] = events[q]
    BY <1>2 DEF Creation, InsertCreated, TypeInv, TypeOK, StoreTypeOK
  <2>2. /\ Len(events'[p]) = 1
        /\ DOMAIN events'[p] = {1}
        /\ events'[p][1] = "requires_payment"
    <3>1. events[p] = <<>>
      BY <2>1 DEF HistoryMatchesRow, HistoryOf, Exists
    <3>2. /\ Append(<<>>, "requires_payment") = <<"requires_payment">>
          /\ DOMAIN <<"requires_payment">> = {1}
      OBVIOUS
    <3> QED
      BY <2>1, <3>1, <3>2
  <2>3. payments'[p] # None
    BY <2>1, NoneAssumption DEF Row, Statuses
  <2>4. HistoryOf(p)'
    BY <2>1, <2>2, <2>3 DEF HistoryOf, Exists, Rank
  <2> QED
    BY <2>1, <2>4, UntouchedHistory DEF HistoryMatchesRow
<1>3. ASSUME NEW h \in Handlers, Transition(h)
      PROVE  HistoryMatchesRow'
  <2>1. PICK p \in Payments : p = job[h].pay
    BY <1>3, TransitionIs DEF TypeInv, JobsFit
  <2>2. HistoryOf(p)'
    BY <1>3, <2>1, MovedHistory DEF TypeInv, JobsFit, HistoryMatchesRow
  <2>3. \A q \in Payments \ {p} : /\ payments'[q] = payments[q]
                                  /\ events'[q] = events[q]
    BY <1>3, <2>1, TransitionIs DEF TypeInv, JobsFit
  <2> QED
    BY <2>2, <2>3, UntouchedHistory DEF HistoryMatchesRow
<1>4. ASSUME NEW h \in Handlers, LedgerStep(h) \/ NoteStep(h)
      PROVE  payments' = payments /\ events' = events
  BY <1>4 DEF LedgerStep, NoteStep, UpsertProviderLedger
<1> QED
  BY <1>1, <1>2, <1>3, <1>4 DEF TableStep, tables

\* The row and the append-only events of a payment always tell the same story.
THEOREM HistoryCorrect == Spec => []HistoryMatchesRow
<1>1. Init => TypeInv /\ HistoryMatchesRow
  BY InitTypeInv DEF Init, StoreInit, HistoryMatchesRow, HistoryOf, Exists
<1>2. TypeInv /\ HistoryMatchesRow /\ [Next]_vars => (TypeInv /\ HistoryMatchesRow)'
  BY StepTypeInv, StepHistory
<1> QED
  BY <1>1, <1>2, PTL DEF Spec

-----------------------------------------------------------------------------
(* The abstract payment *)

\* Every transition the service commits is an edge of the diagram.
LEMMA BeforeIsEdge ==
  ASSUME NEW to \in Statuses \ {"requires_payment"}
  PROVE  /\ <<Before(to), to>> \in Lifecycle!Edges
         /\ to \in {e[2] : e \in Lifecycle!Edges}
<1>1. <<Before(to), to>> \in Lifecycle!Edges
  BY BeforeIs DEF Statuses, Lifecycle!Edges
<1> QED
  BY <1>1

\* Each of the five things is a move of the abstract payment or none.
LEMMA StepLifecycle ==
  ASSUME TypeInv, TableStep
  PROVE  [Lifecycle!LifecycleNext]_(Lifecycle!lifecycleVars)
<1> DEFINE st == [p \in Payments |-> IF Exists(p) THEN payments[p].status ELSE None]
           st2 == [p \in Payments |->
                     IF payments'[p] # None THEN payments'[p].status ELSE None]
<1>1. CASE UNCHANGED <<payments, events, outbox>>
  BY <1>1 DEF Lifecycle!lifecycleVars, Exists
<1>2. ASSUME NEW p \in Payments, NEW a \in Amounts, NEW k \in Keys,
             Creation(p, a, k)
      PROVE  Lifecycle!LifecycleNext
  <2>1. /\ payments[p] = None
        /\ payments'[p] = [status |-> "requires_payment", version |-> 1,
                           amount |-> a, pid |-> None]
        /\ \A q \in Payments \ {p} : payments'[q] = payments[q]
        /\ events' = [events EXCEPT ![p] = Append(@, "requires_payment")]
        /\ outbox' = [outbox EXCEPT ![p] = Append(@, "requires_payment")]
    BY <1>2 DEF Creation, InsertCreated, InsertOutbox, Announced,
                TypeInv, TypeOK, StoreTypeOK
  <2>2. payments'[p] # None /\ payments'[p].status = "requires_payment"
    BY <2>1, NoneAssumption DEF Row, Statuses
  <2>3. st2 = [st EXCEPT ![p] = "requires_payment"] /\ st[p] = None
    BY <2>1, <2>2 DEF Exists
  <2>4. Lifecycle!Open(p)
    BY <2>1, <2>3 DEF Lifecycle!Open, Lifecycle!Enter, Exists
  <2> QED
    BY <2>4 DEF Lifecycle!LifecycleNext
<1>3. ASSUME NEW h \in Handlers, Transition(h)
      PROVE  Lifecycle!LifecycleNext
  <2>1. PICK p \in Payments, to \in Statuses \ {"requires_payment"} :
          p = job[h].pay /\ to = job[h].row.status
    BY <1>3, TransitionIs DEF TypeInv, JobsFit
  <2>2. /\ payments[p] \in Row
        /\ payments[p].status = Before(to)
        /\ payments'[p] # None
        /\ payments'[p].status = to
        /\ \A q \in Payments \ {p} : payments'[q] = payments[q]
    BY <1>3, <2>1, TransitionIs DEF TypeInv, JobsFit
  <2>3. /\ events' = [events EXCEPT ![p] = Append(@, to)]
        /\ outbox' = IF to = "processing" THEN outbox
                     ELSE [outbox EXCEPT ![p] = Append(@, to)]
    BY <1>3, <2>1
    DEF Transition, Saved, UpdatePayment, InsertOutbox, Announced
  <2>4. st2 = [st EXCEPT ![p] = to] /\ st[p] = Before(to)
    BY <2>2, NoneAssumption DEF Exists
  <2>5. /\ <<Before(to), to>> \in Lifecycle!Edges
        /\ to \in {e[2] : e \in Lifecycle!Edges}
    BY BeforeIsEdge
  <2>6. Lifecycle!Move(p, to)
    BY <2>3, <2>4, <2>5 DEF Lifecycle!Move, Lifecycle!Enter, Exists
  <2> QED
    BY <2>5, <2>6 DEF Lifecycle!LifecycleNext
<1>4. ASSUME NEW h \in Handlers, LedgerStep(h) \/ NoteStep(h)
      PROVE  UNCHANGED <<payments, events, outbox>>
  BY <1>4 DEF LedgerStep, NoteStep, UpsertProviderLedger
<1> QED
  BY <1>1, <1>2, <1>3, <1>4 DEF TableStep, tables

\* The service implements the abstract payment.
THEOREM Implements == Spec => ImplementsLifecycle
<1>1. Init => Lifecycle!LifecycleInit
  BY DEF Init, StoreInit, Lifecycle!LifecycleInit, Exists
<1>2. TypeInv /\ [Next]_vars => TypeInv'
  BY StepTypeInv
<1>3. TypeInv /\ [Next]_vars => [Lifecycle!LifecycleNext]_(Lifecycle!lifecycleVars)
  BY StepTypeInv, StepLifecycle
<1> QED
  BY InitTypeInv, <1>1, <1>2, <1>3, PTL
  DEF Spec, ImplementsLifecycle, Lifecycle!LifecycleSpec
=============================================================================
