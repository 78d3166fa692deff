--------------------------- MODULE PaymentService ---------------------------
(***************************************************************************)
(* The mutations of the payment API: Create, Authorize, Capture, Refund,   *)
(* Cancel and the provider's webhook (ApplyInbound), run by concurrent     *)
(* goroutines over the shared tables. Each access to the database is a     *)
(* step of its own; between two of them the other handlers, of the same or *)
(* of another API process, may do anything.                                *)
(*                                                                         *)
(* The mock provider keeps no state, so calling it is part of the step     *)
(* that writes its answer to provider_ledger. Requests that are refused    *)
(* before the first statement (a bad key, amount, currency or event type)  *)
(* change nothing and are left out.                                        *)
(***************************************************************************)
EXTENDS PaymentStore

CONSTANTS Handlers,    \* goroutines; a handler takes one request after another
          ClientKeys   \* ClientKeys[op]: the keys clients send with op

ASSUME ClientKeysAssumption == ClientKeys \in [Operations -> SUBSET Keys]

VARIABLES pc,     \* pc[h]: the database access h is about to make
          job,    \* job[h]: the request h serves and what it remembers of it
          reply   \* the answer given in the last step, None if none was

serviceVars == <<pc, job, reply>>
vars == <<tables, serviceVars>>

Points == {"idle", "get", "begin", "provider", "save", "note", "relookup",
           "resume", "reload"}

\* A request (op, arg, id), id being its idempotency key or provider event;
\* pay and row: the payment as the handler last computed it in memory; from:
\* the status SaveTransition requires.
Job == [op : Operations \cup InboundTypes, arg : Payments \cup Amounts,
        id : Keys \cup EventIds, pay : Payments \cup {None},
        row : Row \cup {None}, from : Statuses \cup {None}]

ASSUME NoJobAssumption == None \notin Job

Codes == {"OK", "REUSE", "INVALID_STATE", "DECLINED", "NOT_FOUND", "INTERNAL"}

Reply == [op : Operations \cup InboundTypes, arg : Payments \cup Amounts,
          id : Keys \cup EventIds, code : Codes, pay : Payments \cup {None},
          status : Statuses \cup {None}]

ServiceTypeOK ==
  /\ pc \in [Handlers -> Points]
  /\ job \in [Handlers -> Job \cup {None}]
  /\ reply \in Reply \cup {None}

Init ==
  /\ StoreInit
  /\ pc = [h \in Handlers |-> "idle"]
  /\ job = [h \in Handlers |-> None]
  /\ reply = None

-----------------------------------------------------------------------------
(* Moving a handler *)

Goto(h, point, j) ==
  /\ pc' = [pc EXCEPT ![h] = point]
  /\ job' = [job EXCEPT ![h] = j]
  /\ reply' = None

Answer(h, j, code, pay, status) ==
  /\ pc' = [pc EXCEPT ![h] = "idle"]
  /\ job' = [job EXCEPT ![h] = None]
  /\ reply' = [op |-> j.op, arg |-> j.arg, id |-> j.id, code |-> code,
               pay |-> pay, status |-> status]

Refuse(h, j, code) == Answer(h, j, code, None, None)

\* The answer to a statement that committed: the payment or, when the
\* acknowledgement of the commit is lost, an error.
Acknowledge(h, j, status) ==
  \/ Answer(h, j, "OK", j.pay, status)
  \/ Refuse(h, j, "INTERNAL")

Request(op, arg, id) == [op |-> op, arg |-> arg, id |-> id, pay |-> None,
                         row |-> None, from |-> None]

\* Mutant of Recorded: the payment is taken from the request.
Recorded_Argument(j) == [op |-> j.op, arg |-> j.arg, pay |-> j.arg]

Recorded(j) == [op |-> j.op, arg |-> j.arg, pay |-> j.pay]

\* The row recorded under the request's idempotency key or provider event id.
Earlier(j) == IF j.op \in InboundTypes THEN providerEvents[j.id] ELSE keys[j.id]

\* Mutant of SameRequest: the operation alone is compared.
SameRequest_Operation(rec, j) == rec.op = j.op

SameRequest(rec, j) == rec.op = j.op /\ rec.arg = j.arg

\* What follows a lookup that found a record.
Replay(h, j, rec) ==
  \/ /\ ~SameRequest(rec, j)
     /\ Refuse(h, j, "REUSE")
  \/ /\ SameRequest(rec, j)
     /\ Goto(h, IF j.op = "authorize" THEN "resume" ELSE "reload",
             [j EXCEPT !.pay = rec.pay])

\* The first access of every operation but Create.
Arrive(h, j) ==
  /\ pc[h] = "idle"
  /\ \/ Earlier(j) = None /\ Goto(h, "get", [j EXCEPT !.pay = j.arg])
     \/ Earlier(j) # None /\ Replay(h, j, Earlier(j))
  /\ UNCHANGED tables

\* Get of the payment a new request names.
Read(h, op) ==
  /\ pc[h] = "get"
  /\ job[h].op = op
  /\ UNCHANGED tables

Holding(h, row, from) == [job[h] EXCEPT !.row = row, !.from = from]

\* The payment in memory, moved on one transition.
Advance(row, status) == [row EXCEPT !.status = status, !.version = @ + 1]

NotFound(h) == /\ payments[job[h].pay] = None
               /\ Refuse(h, job[h], "NOT_FOUND")

At(h, status) == /\ payments[job[h].pay] # None
                 /\ payments[job[h].pay].status = status

\* Neither of the statuses the handler goes on from.
WrongState(h, statuses) ==
  /\ payments[job[h].pay] # None
  /\ payments[job[h].pay].status \notin statuses
  /\ Refuse(h, job[h], "INVALID_STATE")

AnswerRow(h) ==
  Answer(h, job[h], "OK", job[h].pay, payments[job[h].pay].status)

\* SaveTransition: its three ends.
CanSave(j) == Unchanged(j.pay, j.from, j.row)
Saved(h) == CanSave(job[h]) /\ UpdatePayment(job[h].pay, job[h].row)
\* Mutant of Stale: the key is inserted although the payment moved.
Stale_KeepsKey(h) ==
  /\ ~CanSave(job[h])
  /\ IF job[h].id \in Keys THEN InsertKey(job[h].id, Recorded(job[h]))
                            ELSE NoRecord
  /\ UNCHANGED <<payments, events, outbox, ledger>>

Stale(h) == ~CanSave(job[h]) /\ UNCHANGED tables
Duplicate(h) == /\ CanSave(job[h])
                /\ Earlier(job[h]) # None
                /\ UNCHANGED tables

SavedWithKey(h) == /\ keys[job[h].id] = None
                   /\ Saved(h)
                   /\ InsertKey(job[h].id, Recorded(job[h]))

-----------------------------------------------------------------------------
(* Create *)

\* A new uuid, and the insertion of the payment with the request's key. When
\* the key exists the transaction leaves nothing behind.
Create(h, amount, k) ==
  LET j == Request("create", amount, k) IN
  /\ pc[h] = "idle"
  /\ \/ \E p \in Payments :
          LET made == [j EXCEPT !.pay = p] IN
          /\ keys[k] = None
          /\ payments[p] = None
          /\ InsertCreated(p, amount)
          /\ InsertKey(k, Recorded(made))
          /\ Acknowledge(h, made, "requires_payment")
     \/ /\ keys[k] # None
        /\ Goto(h, "relookup", j)
        /\ UNCHANGED tables

-----------------------------------------------------------------------------
(* Authorize *)

Authorize(h, p, k) == Arrive(h, Request("authorize", p, k))

AuthorizeRead(h) ==
  LET row == payments[job[h].pay] IN
  /\ Read(h, "authorize")
  /\ \/ NotFound(h)
     \/ /\ At(h, "processing")
        /\ Goto(h, "provider", Holding(h, row, "processing"))
     \/ /\ At(h, "requires_payment")
        /\ Goto(h, "begin", Holding(h, Advance(row, "processing"),
                                    "requires_payment"))
     \/ WrongState(h, {"processing", "requires_payment"})

\* The first transition, recorded under the key; a duplicate key is looked up
\* again, a payment that moved is an error.
Begin(h) ==
  /\ pc[h] = "begin"
  /\ \/ /\ SavedWithKey(h)
        /\ Goto(h, "provider", Holding(h, job[h].row, "processing"))
     \/ Duplicate(h) /\ Goto(h, "relookup", Holding(h, None, None))
     \/ Stale(h) /\ Refuse(h, job[h], "INTERNAL")

\* Mutant of Resume: a replay shows the payment, whatever its status.
Resume_AsIs(h) == pc[h] = "resume" /\ AnswerRow(h) /\ UNCHANGED tables

\* Mutant of Resume: a payment still in processing is refused.
Resume_Refuses(h) ==
  /\ pc[h] = "resume"
  /\ UNCHANGED tables
  /\ \/ At(h, "authorized") /\ AnswerRow(h)
     \/ At(h, "failed") /\ AnswerRow(h)
     \/ WrongState(h, {"authorized", "failed"})

\* resumeAuthorize: the payment a replayed key names.
Resume(h) ==
  /\ pc[h] = "resume"
  /\ UNCHANGED tables
  /\ \/ /\ At(h, "authorized") \/ At(h, "failed")
        /\ AnswerRow(h)
     \/ /\ At(h, "processing")
        /\ Goto(h, "provider",
                Holding(h, payments[job[h].pay], "processing"))
     \/ WrongState(h, {"authorized", "failed", "processing"})

\* Provider ids are random: none that is stored or held is given again.
FreshProviderId(pid) ==
  /\ \A p \in Payments : /\ payments[p] # None => payments[p].pid # pid
                         /\ ledger[p] # None => ledger[p].pid # pid
  /\ \A h \in Handlers :
       job[h] # None /\ job[h].row # None => job[h].row.pid # pid

WriteLedger(h, row) ==
  /\ UpsertProviderLedger(job[h].pay, row.status, row.pid)
  /\ Goto(h, "save", Holding(h, row, job[h].from))

\* completeAuthorize up to its SaveTransition.
AuthorizeProvider(h) ==
  LET row == job[h].row IN
  /\ pc[h] = "provider"
  /\ job[h].op = "authorize"
  /\ \/ /\ Accepts("authorize", row.amount)
        /\ \E pid \in ProviderIds :
             /\ FreshProviderId(pid)
             /\ WriteLedger(h, [Advance(row, "authorized") EXCEPT !.pid = pid])
     \/ /\ ~Accepts("authorize", row.amount)
        /\ WriteLedger(h, Advance(row, "failed"))

\* Mutant of AuthorizeSave: a handler that lost the race still stores its id.
AuthorizeSave_LateId(h) ==
  /\ pc[h] = "save"
  /\ job[h].op = "authorize"
  /\ \/ Saved(h) /\ NoRecord /\ Acknowledge(h, job[h], job[h].row.status)
     \/ /\ ~CanSave(job[h])
        /\ payments' = [payments EXCEPT ![job[h].pay].pid = job[h].row.pid]
        /\ UNCHANGED <<events, outbox, keys, providerEvents, ledger>>
        /\ Goto(h, "reload", Holding(h, None, None))

\* The rest of completeAuthorize: no key is recorded; a payment that another
\* handler moved first is read again and answered as it is.
AuthorizeSave(h) ==
  /\ pc[h] = "save"
  /\ job[h].op = "authorize"
  /\ \/ Saved(h) /\ NoRecord /\ Acknowledge(h, job[h], job[h].row.status)
     \/ Stale(h) /\ Goto(h, "reload", Holding(h, None, None))

-----------------------------------------------------------------------------
(* Capture and Refund ask the provider first, Cancel does not. *)

\* Mutant of ReadForProvider: any status but the target goes on.
ReadForProvider_AnyStatus(h, op, from, to) ==
  /\ Read(h, op)
  /\ \/ NotFound(h)
     \/ At(h, to) /\ AnswerRow(h)
     \/ /\ payments[job[h].pay] # None
        /\ ~At(h, to)
        /\ Goto(h, "provider", Holding(h, payments[job[h].pay], from))

\* Mutant of ReadForProvider: what the ledger shows as done is answered as done.
ReadForProvider_TrustsLedger(h, op, from, to) ==
  /\ Read(h, op)
  /\ \/ NotFound(h)
     \/ At(h, to) /\ AnswerRow(h)
     \/ /\ At(h, from)
        /\ IF ledger[job[h].pay] # None /\ ledger[job[h].pay].status = to
             THEN AnswerRow(h)
             ELSE Goto(h, "provider", Holding(h, payments[job[h].pay], from))
     \/ WrongState(h, {from, to})

\* The read of Capture and Refund: done already, possible, or refused.
ReadForProvider(h, op, from, to) ==
  /\ Read(h, op)
  /\ \/ NotFound(h)
     \/ At(h, to) /\ AnswerRow(h)
     \/ /\ At(h, from)
        /\ Goto(h, "provider", Holding(h, payments[job[h].pay], from))
     \/ WrongState(h, {from, to})

\* Mutant of AskProvider: the provider's refusal is not looked at.
AskProvider_Always(h, op, to) ==
  /\ pc[h] = "provider"
  /\ job[h].op = op
  /\ WriteLedger(h, Advance(job[h].row, to))

\* The provider's answer and, when it accepts, its ledger row.
AskProvider(h, op, to) ==
  LET row == job[h].row IN
  /\ pc[h] = "provider"
  /\ job[h].op = op
  /\ \/ Accepts(op, row.amount) /\ WriteLedger(h, Advance(row, to))
     \/ /\ ~Accepts(op, row.amount)
        /\ Refuse(h, job[h], "DECLINED")
        /\ UNCHANGED tables

\* The save with the key. A duplicate key and a payment that moved are both
\* answered with the payment as it is now.
SaveOnce(h, op) ==
  /\ pc[h] = "save"
  /\ job[h].op = op
  /\ \/ SavedWithKey(h) /\ Acknowledge(h, job[h], job[h].row.status)
     \/ (Duplicate(h) \/ Stale(h)) /\ Goto(h, "reload", Holding(h, None, None))

Capture(h, p, k) == Arrive(h, Request("capture", p, k))
CaptureRead(h) == ReadForProvider(h, "capture", "authorized", "captured")
CaptureProvider(h) == AskProvider(h, "capture", "captured")
CaptureSave(h) == SaveOnce(h, "capture")

Refund(h, p, k) == Arrive(h, Request("refund", p, k))
RefundRead(h) == ReadForProvider(h, "refund", "captured", "refunded")
RefundProvider(h) == AskProvider(h, "refund", "refunded")
RefundSave(h) == SaveOnce(h, "refund")

Cancel(h, p, k) == Arrive(h, Request("cancel", p, k))

CancelRead(h) ==
  /\ Read(h, "cancel")
  /\ \/ NotFound(h)
     \/ At(h, "cancelled") /\ AnswerRow(h)
     \/ /\ At(h, "authorized")
        /\ Goto(h, "save", Holding(h, Advance(payments[job[h].pay],
                                              "cancelled"), "authorized"))
     \/ WrongState(h, {"authorized", "cancelled"})

CancelSave(h) == SaveOnce(h, "cancel")

-----------------------------------------------------------------------------
(* ApplyInbound *)

ApplyInbound(h, type, p, e) == Arrive(h, Request(type, p, e))

\* A payment that is already there only records the event.
InboundRead(h) ==
  LET type == job[h].op
      row  == payments[job[h].pay]
  IN /\ Read(h, type)
     /\ type \in InboundTypes
     /\ \/ NotFound(h)
        \/ At(h, type) /\ Goto(h, "note", Holding(h, row, None))
        \/ /\ At(h, InboundFrom(type))
           /\ Goto(h, "provider", Holding(h, row, InboundFrom(type)))
        \/ WrongState(h, {type, InboundFrom(type)})

InboundNote(h) ==
  /\ pc[h] = "note"
  /\ \/ /\ providerEvents[job[h].id] = None
        /\ InsertProviderEvent(job[h].id, Recorded(job[h]))
        /\ UNCHANGED <<payments, events, outbox, ledger>>
        /\ Acknowledge(h, job[h], job[h].row.status)
     \/ /\ providerEvents[job[h].id] # None
        /\ Goto(h, "relookup", Holding(h, None, None))
        /\ UNCHANGED tables

\* Mutant of InboundLedger: the event moves the payment, not the ledger.
InboundLedger_Skipped(h) ==
  /\ pc[h] = "provider"
  /\ job[h].op \in InboundTypes
  /\ Goto(h, "save", Holding(h, Advance(job[h].row, job[h].op), job[h].from))
  /\ UNCHANGED tables

InboundLedger(h) ==
  /\ pc[h] = "provider"
  /\ job[h].op \in InboundTypes
  /\ WriteLedger(h, Advance(job[h].row, job[h].op))

\* Unlike the API's operations, a payment that moved is an error.
InboundSave(h) ==
  /\ pc[h] = "save"
  /\ job[h].op \in InboundTypes
  /\ \/ /\ providerEvents[job[h].id] = None
        /\ Saved(h)
        /\ InsertProviderEvent(job[h].id, Recorded(job[h]))
        /\ Acknowledge(h, job[h], job[h].row.status)
     \/ Duplicate(h) /\ Goto(h, "relookup", Holding(h, None, None))
     \/ Stale(h) /\ Refuse(h, job[h], "INTERNAL")

-----------------------------------------------------------------------------
(* Shared ends of the operations *)

\* The lookup after a unique violation, of the key or of the provider event.
Relookup(h) ==
  /\ pc[h] = "relookup"
  /\ Replay(h, job[h], Earlier(job[h]))
  /\ UNCHANGED tables

\* The last Get of a replay or of a lost race.
Reload(h) ==
  /\ pc[h] = "reload"
  /\ AnswerRow(h)
  /\ UNCHANGED tables

\* A database error, a cancelled context or a crash of the process ends the
\* request between two statements. A crash of a process is this step of each
\* of its handlers.
Fail(h) ==
  /\ pc[h] # "idle"
  /\ Refuse(h, job[h], "INTERNAL")
  /\ UNCHANGED tables

Receive(h) ==
  \/ \E k \in ClientKeys["create"], a \in Amounts : Create(h, a, k)
  \/ \E p \in Payments :
       \/ \E k \in ClientKeys["authorize"] : Authorize(h, p, k)
       \/ \E k \in ClientKeys["capture"] : Capture(h, p, k)
       \/ \E k \in ClientKeys["refund"] : Refund(h, p, k)
       \/ \E k \in ClientKeys["cancel"] : Cancel(h, p, k)
  \/ \E e \in EventIds, p \in Payments, type \in InboundTypes :
       ApplyInbound(h, type, p, e)

Proceed(h) ==
  \/ AuthorizeRead(h) \/ Begin(h) \/ Resume(h)
  \/ AuthorizeProvider(h) \/ AuthorizeSave(h)
  \/ CaptureRead(h) \/ CaptureProvider(h) \/ CaptureSave(h)
  \/ RefundRead(h) \/ RefundProvider(h) \/ RefundSave(h)
  \/ CancelRead(h) \/ CancelSave(h)
  \/ InboundRead(h) \/ InboundNote(h) \/ InboundLedger(h) \/ InboundSave(h)
  \/ Relookup(h) \/ Reload(h)

Next == \E h \in Handlers : Receive(h) \/ Proceed(h) \/ Fail(h)

Spec == Init /\ [][Next]_vars
=============================================================================
