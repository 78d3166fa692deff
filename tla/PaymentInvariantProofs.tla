----------------------- MODULE PaymentInvariantProofs -----------------------
(***************************************************************************)
(* Proofs, for any number of payments, handlers, keys and provider events, *)
(* of what PaymentProperties states about requests and their records, the  *)
(* provider's ledger and the answers.                                      *)
(***************************************************************************)
EXTENDS PaymentServiceProofs

-----------------------------------------------------------------------------
(* Histories *)

\* A payment's version bounds how far it got.
LEMMA ReachedRank ==
  ASSUME NEW p, HistoryOf(p), NEW s, Reached(p, s)
  PROVE  /\ Exists(p)
         /\ Rank(s) \in DOMAIN events[p]
         /\ events[p][Rank(s)] = s
<1>1. PICK i \in DOMAIN events[p] : events[p][i] = s
  BY DEF Reached
<1>2. Exists(p)
  <2>1. DOMAIN <<>> = {}
    OBVIOUS
  <2> QED
    BY <1>1, <2>1 DEF HistoryOf
<1>3. Rank(s) = i
  BY <1>1, <1>2 DEF HistoryOf
<1> QED
  BY <1>1, <1>2, <1>3

\* The events of a payment are numbered from 1 to its version.
LEMMA VersionIsLength ==
  ASSUME TypeOK, NEW p \in Payments, HistoryOf(p), Exists(p)
  PROVE  /\ payments[p] \in Row
         /\ payments[p].status \in Statuses
         /\ payments[p].version \in Nat
         /\ payments[p].version = Rank(payments[p].status)
         /\ DOMAIN events[p] = 1..payments[p].version
<1>1. payments[p] \in Row /\ events[p] \in Seq(Statuses)
  BY DEF TypeOK, StoreTypeOK, Exists
<1>2. Len(events[p]) = payments[p].version
  BY DEF HistoryOf
<1>3. DOMAIN events[p] = 1..Len(events[p])
  BY <1>1
<1> QED
  BY <1>1, <1>2, <1>3 DEF Row, HistoryOf

\* Where a payment is, it got to.
LEMMA CurrentReached ==
  ASSUME TypeOK, NEW p \in Payments, HistoryOf(p), Exists(p)
  PROVE  Reached(p, payments[p].status)
<1>1. payments[p].version \in 1..payments[p].version
  BY VersionIsLength DEF Rank, Statuses
<1> QED
  BY <1>1, VersionIsLength DEF HistoryOf, Reached

\* The payment is past the decision exactly from its third status on.
LEMMA DecidedRank ==
  ASSUME TypeOK, NEW p \in Payments, HistoryOf(p), Exists(p)
  PROVE  Decided(p) <=> payments[p].version >= 3
BY VersionIsLength DEF Decided, Rank, Statuses

\* What was reached is not ahead of the row.
LEMMA ReachedVersion ==
  ASSUME TypeOK, NEW p \in Payments, HistoryOf(p), NEW s, Reached(p, s)
  PROVE  Exists(p) /\ Rank(s) <= payments[p].version
<1>1. Exists(p) /\ Rank(s) \in 1..payments[p].version
  BY ReachedRank, VersionIsLength
<1> QED
  BY <1>1, VersionIsLength

\* A payment that was authorized, or failed, is past the decision.
LEMMA ReachedDecided ==
  ASSUME TypeOK, NEW p \in Payments, HistoryOf(p),
         NEW s \in Statuses \ {"requires_payment", "processing"}, Reached(p, s)
  PROVE  Decided(p)
<1>1. Rank(s) \in Nat /\ Rank(s) >= 3
  BY DEF Rank, Statuses
<1>2. Exists(p) /\ Rank(s) <= payments[p].version
  BY ReachedVersion
<1> QED
  BY <1>1, <1>2, VersionIsLength, DecidedRank

\* An event more is a status more reached, and none less.
LEMMA AppendReached ==
  ASSUME NEW p, NEW to \in Statuses, events[p] \in Seq(Statuses),
         events'[p] = Append(events[p], to), NEW s
  PROVE  Reached(p, s)' <=> Reached(p, s) \/ s = to
<1> DEFINE n == Len(events[p])
<1>1. /\ n \in Nat
      /\ DOMAIN events[p] = 1..n
      /\ DOMAIN events'[p] = 1..(n + 1)
      /\ events'[p][n + 1] = to
      /\ \A i \in 1..n : events'[p][i] = events[p][i]
  OBVIOUS
<1> HIDE DEF n
<1>2. 1..(n + 1) = (1..n) \cup {n + 1}
  BY <1>1
<1> QED
  BY <1>1, <1>2 DEF Reached

-----------------------------------------------------------------------------
(* What no step takes back *)

\* Records never change, ledger rows stay, payments keep their amount and what
\* they reached, and past the decision their provider id.
Forward ==
  /\ \A p \in Payments :
       Exists(p) => /\ payments'[p] # None
                    /\ payments'[p].amount = payments[p].amount
  /\ \A p \in Payments : \A s : Reached(p, s) => Reached(p, s)'
  /\ \A p \in Payments :
       Decided(p) => Decided(p)' /\ payments'[p].pid = payments[p].pid
  /\ \A k \in Keys : keys[k] # None => keys'[k] = keys[k]
  /\ \A e \in EventIds :
       providerEvents[e] # None => providerEvents'[e] = providerEvents[e]
  /\ \A p \in Payments : ledger[p] # None => ledger'[p] # None

\* A transition from a decided payment carries the provider id it read.
LEMMA TransitionKeepsPid ==
  ASSUME TypeOK, NEW h \in Handlers, JobFits(h), Remembers(h), Transition(h),
         NEW p, p = job[h].pay, Decided(p)
  PROVE  Decided(p)' /\ payments'[p].pid = payments[p].pid
<1> DEFINE to == job[h].row.status
<1>1. /\ to \in Statuses \ {"requires_payment"}
      /\ payments[p].status = Before(to)
      /\ job[h].from = Before(to)
      /\ payments'[p] # None
      /\ payments'[p].status = to
      /\ payments'[p].pid \in {payments[p].pid, job[h].row.pid}
  BY TransitionIs
<1>2. to # "processing" /\ job[h].from \in {"authorized", "captured"}
  <2> HIDE DEF to
  <2> QED
    BY <1>1, BeforeIs DEF Decided, Statuses
<1>3. job[h].row.pid = payments[p].pid
  BY <1>2 DEF Remembers, Transition
<1> QED
  BY <1>1, <1>2, <1>3 DEF Decided, Exists

\* A transition takes nothing back.
LEMMA TransitionForward ==
  ASSUME TypeOK, NEW h \in Handlers, JobFits(h), Remembers(h), Transition(h)
  PROVE  Forward
<1>1. PICK p \in Payments : p = job[h].pay
  BY TransitionIs
<1> DEFINE to == job[h].row.status
<1>2. /\ payments'[p] # None
      /\ payments'[p].amount = payments[p].amount
      /\ to \in Statuses
      /\ events[p] \in Seq(Statuses)
      /\ events'[p] = Append(events[p], to)
      /\ \A q \in Payments \ {p} : /\ payments'[q] = payments[q]
                                   /\ events'[q] = events[q]
  BY <1>1, TransitionIs
<1>3. \A s : Reached(p, s) => Reached(p, s)'
  BY <1>2, AppendReached
<1>4. Decided(p) => Decided(p)' /\ payments'[p].pid = payments[p].pid
  BY <1>1, TransitionKeepsPid
<1>5. \A q \in Payments \ {p} : /\ Exists(q) => payments'[q] # None
                                /\ \A s : Reached(q, s) => Reached(q, s)'
                                /\ Decided(q) => Decided(q)'
  BY <1>2 DEF Exists, Reached, Decided
<1>6. /\ \A k \in Keys : keys[k] # None => keys'[k] = keys[k]
      /\ \A e \in EventIds :
           providerEvents[e] # None => providerEvents'[e] = providerEvents[e]
      /\ ledger' = ledger
  BY DEF Transition, Saved, UpdatePayment, NoRecord, InsertKey,
         InsertProviderEvent, TypeOK, StoreTypeOK
<1> QED
  BY <1>2, <1>3, <1>4, <1>5, <1>6 DEF Forward

\* Nor does a creation,
LEMMA CreationForward ==
  ASSUME TypeOK, NEW p \in Payments, NEW a \in Amounts, NEW k \in Keys,
         Creation(p, a, k)
  PROVE  Forward
<1>1. /\ ~Exists(p)
      /\ events[p] \in Seq(Statuses)
      /\ "requires_payment" \in Statuses
      /\ events'[p] = Append(events[p], "requires_payment")
      /\ \A q \in Payments \ {p} : /\ payments'[q] = payments[q]
                                   /\ events'[q] = events[q]
  BY DEF Creation, InsertCreated, TypeOK, StoreTypeOK, Exists, Statuses
<1>2. \A s : Reached(p, s) => Reached(p, s)'
  BY <1>1, AppendReached
<1>3. \A q \in Payments \ {p} : /\ \A s : Reached(q, s) => Reached(q, s)'
                                /\ Decided(q) => Decided(q)'
  BY <1>1 DEF Exists, Reached, Decided
<1>4. /\ \A q \in Keys : keys[q] # None => keys'[q] = keys[q]
      /\ providerEvents' = providerEvents
      /\ ledger' = ledger
  BY DEF Creation, InsertCreated, InsertKey, TypeOK, StoreTypeOK
<1> QED
  BY <1>1, <1>2, <1>3, <1>4 DEF Forward, Decided, Exists

\* nor any of the five things a step may do.
LEMMA StepForward ==
  ASSUME TypeInv, HandlersRemember, TableStep
  PROVE  Forward
<1>1. CASE UNCHANGED tables
  BY <1>1 DEF tables, Forward, Exists, Reached, Decided
<1>2. ASSUME NEW p \in Payments, NEW a \in Amounts, NEW k \in Keys,
             Creation(p, a, k)
      PROVE  Forward
  BY <1>2, CreationForward DEF TypeInv
<1>3. ASSUME NEW h \in Handlers, Transition(h)
      PROVE  Forward
  BY <1>3, TransitionForward DEF TypeInv, JobsFit, HandlersRemember
<1>4. ASSUME NEW h \in Handlers, LedgerStep(h)
      PROVE  Forward
  <2>1. PICK s \in Targets(job[h].op), pid \in ProviderIds \cup {None} :
          UpsertProviderLedger(job[h].pay, s, pid)
    BY <1>4 DEF LedgerStep
  <2>2. [status |-> s, pid |-> pid] # None
    <3>1. s \in Statuses
      BY <1>4, <2>1, Held, Names DEF LedgerStep, TypeInv, JobFits, Job
    <3> QED
      BY <3>1, NoneAssumption DEF LedgerRow
  <2> QED
    BY <2>1, <2>2 DEF UpsertProviderLedger, Forward, Exists, Reached, Decided,
                      TypeInv, TypeOK, StoreTypeOK
<1>5. ASSUME NEW h \in Handlers, NoteStep(h)
      PROVE  Forward
  BY <1>5 DEF NoteStep, InsertProviderEvent, Forward, Exists, Reached, Decided,
              TypeInv, TypeOK, StoreTypeOK
<1> QED
  BY <1>1, <1>2, <1>3, <1>4, <1>5 DEF TableStep

-----------------------------------------------------------------------------
(* Requests and their records *)

\* The payment a transaction moves, named: what it was, what it becomes.
LEMMA TransitionOf ==
  ASSUME TypeInv, HandlersRemember, NEW h \in Handlers, Transition(h)
  PROVE  \E p \in Payments, to \in Statuses \ {"requires_payment"} :
           /\ p = job[h].pay
           /\ to = job[h].row.status
           /\ to = "processing" \/ to \in Targets(job[h].op)
           /\ job[h].op \in (Operations \cup InboundTypes) \ {"create"}
           /\ job[h].arg = p
           /\ job[h].from = Before(to)
           /\ Exists(p)
           /\ payments[p] \in Row
           /\ payments[p].status = Before(to)
           /\ payments'[p] # None
           /\ payments'[p].status = to
           /\ payments'[p].version = payments[p].version + 1
           /\ payments'[p].amount = payments[p].amount
           /\ payments'[p].pid \in {payments[p].pid, job[h].row.pid}
           /\ events[p] \in Seq(Statuses)
           /\ events'[p] = Append(events[p], to)
           /\ \A q \in Payments \ {p} : /\ payments'[q] = payments[q]
                                        /\ events'[q] = events[q]
<1> DEFINE p  == job[h].pay
           to == job[h].row.status
<1>1. /\ TypeOK /\ JobFits(h) /\ Remembers(h)
      /\ job[h] \in Job /\ job[h] # None
      /\ pc[h] \in {"begin", "save"}
  BY Held DEF Transition, TypeInv, JobsFit, HandlersRemember
<1>2. /\ to = "processing" \/ to \in Targets(job[h].op)
      /\ job[h].op \in (Operations \cup InboundTypes) \ {"create"}
  BY <1>1 DEF JobFits, Job
<1>3. job[h].arg = p
  BY <1>1, <1>2 DEF Remembers
<1>4. Exists(p)
  BY <1>1 DEF JobFits
<1> QED
  BY <1>1, <1>2, <1>3, <1>4, TransitionIs

\* The effect of a record is not undone.
LEMMA EffectStays ==
  ASSUME Forward, NEW rec \in Record, HasEffect(rec)
  PROVE  HasEffect(rec)'
<1>1. rec.pay \in Payments
  BY DEF Record
<1>2. /\ payments'[rec.pay] # None
      /\ payments'[rec.pay].amount = payments[rec.pay].amount
      /\ Reached(rec.pay, Effect(rec.op))'
  BY <1>1 DEF Forward, HasEffect
<1> QED
  BY <1>2 DEF HasEffect, Exists

\* Records that stay as they are keep their effect.
LEMMA RecordsUntouched ==
  ASSUME TypeOK, RecordsHaveEffect, Forward,
         UNCHANGED <<keys, providerEvents>>
  PROVE  RecordsHaveEffect'
<1>1. ASSUME NEW rec \in Record, HasEffect(rec)
      PROVE  HasEffect(rec)'
  BY <1>1, EffectStays
<1>2. \A k \in Keys : keys[k] # None => keys[k] \in Record
  BY DEF TypeOK, StoreTypeOK
<1>3. \A e \in EventIds : providerEvents[e] # None => providerEvents[e] \in Record
  BY DEF TypeOK, StoreTypeOK
<1> QED
  BY <1>1, <1>2, <1>3 DEF RecordsHaveEffect, HasEffect

\* A record that a step adds has its effect; the others keep theirs.
LEMMA OneRecord ==
  ASSUME TypeOK, RecordsHaveEffect, Forward, NEW rec,
         HasEffect(rec)',
         \/ /\ rec.op \in Operations
            /\ \A k \in Keys : keys'[k] \in {keys[k], rec}
            /\ providerEvents' = providerEvents
         \/ /\ rec.op \in InboundTypes
            /\ \A e \in EventIds : providerEvents'[e] \in {providerEvents[e], rec}
            /\ keys' = keys
  PROVE  RecordsHaveEffect'
<1>1. ASSUME NEW k \in Keys, keys'[k] # None
      PROVE  (keys[k].op \in Operations /\ HasEffect(keys[k]))'
  <2>1. CASE keys'[k] = keys[k]
    <3>1. /\ keys[k] \in Record
          /\ HasEffect(keys[k])
          /\ keys[k].op \in Operations
      BY <1>1, <2>1 DEF TypeOK, StoreTypeOK, RecordsHaveEffect
    <3>2. PICK r \in Record : r = keys[k]
      BY <3>1
    <3>3. HasEffect(r)'
      BY <3>1, <3>2, EffectStays
    <3> QED
      BY <2>1, <3>1, <3>2, <3>3 DEF HasEffect
  <2>2. CASE rec.op \in Operations /\ keys'[k] = rec
    BY <2>2 DEF HasEffect
  <2> QED
    BY <2>1, <2>2
<1>2. ASSUME NEW e \in EventIds, providerEvents'[e] # None
      PROVE  (providerEvents[e].op \in InboundTypes /\ HasEffect(providerEvents[e]))'
  <2>1. CASE providerEvents'[e] = providerEvents[e]
    <3>1. /\ providerEvents[e] \in Record
          /\ HasEffect(providerEvents[e])
          /\ providerEvents[e].op \in InboundTypes
      BY <1>2, <2>1 DEF TypeOK, StoreTypeOK, RecordsHaveEffect
    <3>2. PICK r \in Record : r = providerEvents[e]
      BY <3>1
    <3>3. HasEffect(r)'
      BY <3>1, <3>2, EffectStays
    <3> QED
      BY <2>1, <3>1, <3>2, <3>3 DEF HasEffect
  <2>2. CASE rec.op \in InboundTypes /\ providerEvents'[e] = rec
    BY <2>2 DEF HasEffect
  <2> QED
    BY <2>1, <2>2
<1> QED
  BY <1>1, <1>2 DEF RecordsHaveEffect

\* A transition records what it did.
LEMMA TransitionRecords ==
  ASSUME TypeInv, HandlersRemember, RecordsHaveEffect, Forward,
         NEW h \in Handlers, Transition(h)
  PROVE  RecordsHaveEffect'
<1>1. PICK p \in Payments, to \in Statuses \ {"requires_payment"} :
        /\ p = job[h].pay
        /\ to = job[h].row.status
        /\ to = "processing" \/ to \in Targets(job[h].op)
        /\ job[h].op \in (Operations \cup InboundTypes) \ {"create"}
        /\ job[h].arg = p
        /\ payments'[p] # None
        /\ events[p] \in Seq(Statuses)
        /\ events'[p] = Append(events[p], to)
  BY TransitionOf
<1>2. Reached(p, to)'
  BY <1>1, AppendReached
<1>3. PICK rec : rec = Recorded(job[h])
  OBVIOUS
<1>4. rec.op = job[h].op /\ rec.arg = p /\ rec.pay = p
  BY <1>1, <1>3 DEF Recorded
<1>5. CASE NoRecord
  BY <1>5, RecordsUntouched DEF TypeInv, NoRecord
<1>6. CASE /\ job[h].op \in Operations
           /\ to = Effect(job[h].op)
           /\ InsertKey(job[h].id, Recorded(job[h]))
  <2>1. HasEffect(rec)'
    BY <1>1, <1>2, <1>4, <1>6 DEF HasEffect, Exists
  <2>2. /\ \A k \in Keys : keys'[k] \in {keys[k], rec}
        /\ providerEvents' = providerEvents
    BY <1>3, <1>6 DEF InsertKey, TypeInv, TypeOK, StoreTypeOK
  <2> QED
    BY <1>4, <1>6, <2>1, <2>2, OneRecord DEF TypeInv
<1>7. CASE /\ job[h].op \in InboundTypes
           /\ InsertProviderEvent(job[h].id, Recorded(job[h]))
  <2>1. to = Effect(job[h].op)
    <3>1. pc[h] = "save"
      BY <1>7, Held, Names DEF Transition, TypeInv, JobFits, Operations
    <3>2. to \in Targets(job[h].op)
      BY <1>1, <3>1, Held DEF TypeInv, JobFits
    <3> QED
      BY <1>7, <3>2, TargetsAre, EffectsAre
  <2>2. HasEffect(rec)'
    BY <1>1, <1>2, <1>4, <2>1 DEF HasEffect, Exists
  <2>3. /\ \A e \in EventIds : providerEvents'[e] \in {providerEvents[e], rec}
        /\ keys' = keys
    BY <1>3, <1>7 DEF InsertProviderEvent, TypeInv, TypeOK, StoreTypeOK
  <2> QED
    BY <1>4, <1>7, <2>2, <2>3, OneRecord DEF TypeInv
<1> QED
  BY <1>1, <1>5, <1>6, <1>7 DEF Transition

\* Each of the five things keeps records and effects together.
LEMMA StepRecords ==
  ASSUME TypeInv, HistoryMatchesRow, HandlersRemember, RecordsHaveEffect,
         TableStep, Forward
  PROVE  RecordsHaveEffect'
<1>1. CASE UNCHANGED <<keys, providerEvents>>
  BY <1>1, RecordsUntouched DEF TypeInv
<1>2. ASSUME NEW p \in Payments, NEW a \in Amounts, NEW k \in Keys,
             Creation(p, a, k)
      PROVE  RecordsHaveEffect'
  <2>1. PICK rec : rec = [op |-> "create", arg |-> a, pay |-> p]
    OBVIOUS
  <2>2. /\ payments'[p] = [status |-> "requires_payment", version |-> 1,
                           amount |-> a, pid |-> None]
        /\ payments'[p] # None
        /\ events'[p] = Append(events[p], "requires_payment")
        /\ events[p] \in Seq(Statuses)
        /\ "requires_payment" \in Statuses
    BY <1>2, NoneAssumption
    DEF Creation, InsertCreated, TypeInv, TypeOK, StoreTypeOK, Row, Statuses
  <2>3. Reached(p, "requires_payment")'
    BY <2>2, AppendReached
  <2>4. HasEffect(rec)'
    <3>1. rec.op = "create" /\ rec.arg = a /\ rec.pay = p
      BY <2>1
    <3>2. payments'[p].amount = a
      BY <2>2
    <3> QED
      BY <2>2, <2>3, <3>1, <3>2, EffectsAre DEF HasEffect, Exists
  <2>5. /\ \A q \in Keys : keys'[q] \in {keys[q], rec}
        /\ providerEvents' = providerEvents
    BY <1>2, <2>1 DEF Creation, InsertKey, TypeInv, TypeOK, StoreTypeOK
  <2> QED
    BY <2>1, <2>4, <2>5, OneRecord DEF TypeInv, Operations
<1>3. ASSUME NEW h \in Handlers, Transition(h)
      PROVE  RecordsHaveEffect'
  BY <1>3, TransitionRecords
<1>4. ASSUME NEW h \in Handlers, NoteStep(h)
      PROVE  RecordsHaveEffect'
  <2>1. /\ job[h].op \in InboundTypes
        /\ job[h].pay \in Payments
        /\ job[h].arg = job[h].pay
        /\ Exists(job[h].pay)
        /\ Reached(job[h].pay, Effect(job[h].op))
    BY <1>4, Held, EffectsAre, Names
    DEF NoteStep, TypeInv, JobFits, HandlersRemember, Remembers, Operations
  <2>2. PICK rec : rec = Recorded(job[h])
    OBVIOUS
  <2>3. /\ rec.op = job[h].op /\ rec.arg = job[h].pay /\ rec.pay = job[h].pay
        /\ rec.op # "create"
    BY <2>1, <2>2 DEF Recorded, InboundTypes
  <2>4. HasEffect(rec)'
    BY <2>1, <2>3 DEF HasEffect, Forward, Exists
  <2>5. /\ \A e \in EventIds : providerEvents'[e] \in {providerEvents[e], rec}
        /\ keys' = keys
    BY <1>4, <2>2 DEF NoteStep, InsertProviderEvent, TypeInv, TypeOK, StoreTypeOK
  <2> QED
    BY <2>1, <2>3, <2>4, <2>5, OneRecord DEF TypeInv
<1>5. ASSUME NEW h \in Handlers, LedgerStep(h)
      PROVE  UNCHANGED <<keys, providerEvents>>
  BY <1>5 DEF LedgerStep, UpsertProviderLedger
<1> QED
  BY <1>1, <1>2, <1>3, <1>4, <1>5 DEF TableStep, tables

\* A key that a step adds stands for a transition no other key stands for.
LEMMA OneNewKey ==
  ASSUME TypeOK, OneKeyPerTransition, NEW k \in Keys, NEW rec,
         keys' = [keys EXCEPT ![k] = rec],
         \A q \in Keys : keys[q] # None => keys[q].pay # rec.pay \/ keys[q].op # rec.op
  PROVE  OneKeyPerTransition'
BY DEF TypeOK, StoreTypeOK, OneKeyPerTransition

\* A step never pays for a transition twice: when it adds a key, the
\* transition it stands for was still to come.
LEMMA StepOneKey ==
  ASSUME TypeInv, HistoryMatchesRow, HandlersRemember, RecordsHaveEffect,
         OneKeyPerTransition, TableStep
  PROVE  OneKeyPerTransition'
<1>1. CASE keys' = keys
  BY <1>1 DEF OneKeyPerTransition
<1>2. ASSUME NEW p \in Payments, NEW a \in Amounts, NEW k \in Keys,
             Creation(p, a, k)
      PROVE  OneKeyPerTransition'
  <2>1. PICK rec : rec = [op |-> "create", arg |-> a, pay |-> p]
    OBVIOUS
  <2>2. \A q \in Keys : keys[q] # None => keys[q].pay # rec.pay
    BY <1>2, <2>1 DEF Creation, TypeInv, RecordsExist, Exists
  <2>3. keys' = [keys EXCEPT ![k] = rec]
    BY <1>2, <2>1 DEF Creation, InsertKey
  <2> QED
    BY <2>2, <2>3, OneNewKey DEF TypeInv
<1>3. ASSUME NEW h \in Handlers, Transition(h)
      PROVE  OneKeyPerTransition'
  <2>1. PICK p \in Payments, to \in Statuses \ {"requires_payment"} :
          /\ p = job[h].pay
          /\ to = job[h].row.status
          /\ Exists(p)
          /\ payments[p] \in Row
          /\ payments[p].status = Before(to)
    BY <1>3, TransitionOf
  <2>2. CASE /\ job[h].op \in Operations
             /\ to = Effect(job[h].op)
             /\ InsertKey(job[h].id, Recorded(job[h]))
    <3>1. ~Reached(p, to)
      <4>1. payments[p].version = Rank(Before(to))
        BY <2>1, VersionIsLength DEF TypeInv, HistoryMatchesRow
      <4>2. Rank(to) = Rank(Before(to)) + 1 /\ Rank(Before(to)) \in Nat
        BY RankBefore
      <4> QED
        BY <2>1, <4>1, <4>2, ReachedVersion DEF TypeInv, HistoryMatchesRow
    <3>2. PICK rec : rec = Recorded(job[h])
      OBVIOUS
    <3>3. rec.pay = p /\ rec.op = job[h].op
      BY <2>1, <3>2 DEF Recorded
    <3>4. \A q \in Keys :
            keys[q] # None => keys[q].pay # rec.pay \/ keys[q].op # rec.op
      BY <2>2, <3>1, <3>3 DEF RecordsHaveEffect, HasEffect
    <3>5. job[h].id \in Keys
      BY <1>3, <2>2, Held, Names DEF Transition, TypeInv, JobFits
    <3> QED
      BY <2>2, <3>2, <3>4, <3>5, OneNewKey DEF InsertKey, TypeInv
  <2>3. CASE keys' = keys
    BY <1>1, <2>3
  <2> QED
    BY <1>3, <2>1, <2>2, <2>3 DEF Transition, NoRecord, InsertProviderEvent
<1>4. ASSUME NEW h \in Handlers, LedgerStep(h) \/ NoteStep(h)
      PROVE  keys' = keys
  BY <1>4 DEF LedgerStep, UpsertProviderLedger, NoteStep, InsertProviderEvent
<1> QED
  BY <1>1, <1>2, <1>3, <1>4 DEF TableStep, tables


\* A transition is one the provider agrees to, or one that is recorded with a
\* provider event.
LEMMA TransitionDecides ==
  ASSUME TypeInv, HandlersRemember, NEW h \in Handlers, Transition(h),
         NEW p, p = job[h].pay, NEW to, to = job[h].row.status
  PROVE  Agrees(to, payments[p].amount) \/ OnRecord(p, to)'
<1>1. /\ job[h] \in Job
      /\ JobFits(h) /\ Remembers(h)
      /\ pc[h] \in {"begin", "save"}
  BY Held DEF Transition, TypeInv, JobFits, HandlersRemember
<1>2. CASE pc[h] = "begin"
  BY <1>1, <1>2 DEF JobFits, Agrees
<1>3. CASE pc[h] = "save" /\ job[h].op \notin InboundTypes
  BY <1>1, <1>3 DEF Remembers
<1>4. CASE pc[h] = "save" /\ job[h].op \in InboundTypes
  <2>1. /\ job[h].id \in EventIds
        /\ InsertProviderEvent(job[h].id, Recorded(job[h]))
        /\ to = job[h].op
    BY <1>1, <1>4, Names, TargetsAre DEF Transition, JobFits, Operations
  <2>2. /\ providerEvents'[job[h].id] = Recorded(job[h])
        /\ Recorded(job[h]) \in Record
        /\ Recorded(job[h]).pay = p
        /\ Recorded(job[h]).op = to
    BY <1>1, <2>1, RecordedType
    DEF InsertProviderEvent, TypeInv, TypeOK, StoreTypeOK, Recorded, JobFits
  <2> QED
    BY <2>1, <2>2, NoneAssumption DEF OnRecord
<1> QED
  BY <1>1, <1>2, <1>3, <1>4

\* What the provider decided stays decided.
LEMMA DecisionStays ==
  ASSUME ProviderDecides, Forward, NEW p \in Payments, NEW s \in Statuses,
         Exists(p), Reached(p, s)
  PROVE  (Agrees(s, payments[p].amount) \/ OnRecord(p, s))'
<1>1. payments'[p].amount = payments[p].amount
  BY DEF Forward
<1>2. CASE Agrees(s, payments[p].amount)
  BY <1>1, <1>2 DEF Agrees
<1>3. CASE OnRecord(p, s)
  BY <1>3 DEF OnRecord, Forward
<1> QED
  BY <1>2, <1>3 DEF ProviderDecides

\* The provider's refusals hold after each of the five things.
LEMMA StepProviderDecides ==
  ASSUME TypeInv, HistoryMatchesRow, HandlersRemember, ProviderDecides,
         TableStep, Forward
  PROVE  ProviderDecides'
<1>1. ASSUME NEW p \in Payments, NEW s \in Statuses, Reached(p, s)
      PROVE  (Agrees(s, payments[p].amount) \/ OnRecord(p, s))'
  BY <1>1, ReachedRank, DecisionStays DEF HistoryMatchesRow
<1>2. CASE events' = events
  BY <1>1, <1>2 DEF ProviderDecides, Reached
<1>3. ASSUME NEW p \in Payments, NEW a \in Amounts, NEW k \in Keys,
             Creation(p, a, k)
      PROVE  ProviderDecides'
  <2>1. /\ events'[p] = Append(events[p], "requires_payment")
        /\ events[p] \in Seq(Statuses)
        /\ "requires_payment" \in Statuses
        /\ \A q \in Payments \ {p} : events'[q] = events[q]
    BY <1>3 DEF Creation, InsertCreated, TypeInv, TypeOK, StoreTypeOK, Statuses
  <2>2. \A s \in Statuses : Reached(p, s)' => Reached(p, s) \/ s = "requires_payment"
    BY <2>1, AppendReached
  <2>3. \A q \in Payments \ {p}, s \in Statuses : Reached(q, s)' => Reached(q, s)
    BY <2>1 DEF Reached
  <2>4. Agrees("requires_payment", payments[p].amount)'
    BY DEF Agrees
  <2> QED
    BY <1>1, <2>2, <2>3, <2>4 DEF ProviderDecides
<1>4. ASSUME NEW h \in Handlers, Transition(h)
      PROVE  ProviderDecides'
  <2>1. PICK p \in Payments, to \in Statuses \ {"requires_payment"} :
          /\ p = job[h].pay
          /\ to = job[h].row.status
          /\ payments'[p].amount = payments[p].amount
          /\ events[p] \in Seq(Statuses)
          /\ events'[p] = Append(events[p], to)
          /\ \A q \in Payments \ {p} : events'[q] = events[q]
    BY <1>4, TransitionOf
  <2>2. \A s \in Statuses : Reached(p, s)' => Reached(p, s) \/ s = to
    BY <2>1, AppendReached
  <2>3. \A q \in Payments \ {p}, s \in Statuses : Reached(q, s)' => Reached(q, s)
    BY <2>1 DEF Reached
  <2>4. (Agrees(to, payments[p].amount) \/ OnRecord(p, to))'
    BY <1>4, <2>1, TransitionDecides DEF Agrees
  <2> QED
    BY <1>1, <2>2, <2>3, <2>4 DEF ProviderDecides
<1>5. ASSUME NEW h \in Handlers, LedgerStep(h) \/ NoteStep(h)
      PROVE  events' = events
  BY <1>5 DEF LedgerStep, UpsertProviderLedger, NoteStep
<1> QED
  BY <1>2, <1>3, <1>4, <1>5 DEF TableStep, tables

-----------------------------------------------------------------------------
(* The provider's ledger *)

\* The ledger row a handler writes: what it says is one transition after a
\* status that the payment reached, and past the authorization it has the
\* provider id of the payment.
LEMMA LedgerStepIs ==
  ASSUME TypeInv, HandlersRemember, NEW h \in Handlers, LedgerStep(h)
  PROVE  \E p \in Payments, s \in Statuses, pid \in ProviderIds \cup {None} :
           /\ UpsertProviderLedger(p, s, pid)
           /\ ledger'[p] # None
           /\ ledger'[p].status = s
           /\ ledger'[p].pid = pid
           /\ \A q \in Payments \ {p} : ledger'[q] = ledger[q]
           /\ Reached(p, Before(s))
           /\ s \in {"captured", "refunded", "cancelled"} => pid = payments[p].pid
<1>1. /\ job[h] \in Job
      /\ job[h].pay \in Payments
      /\ JobFits(h) /\ Remembers(h)
      /\ pc[h] = "provider"
  BY Held DEF LedgerStep, TypeInv, HandlersRemember
<1>2. Targets(job[h].op) \subseteq Statuses
  BY <1>1, Names DEF JobFits, Job
<1>3. PICK s \in Statuses, pid \in ProviderIds \cup {None} :
        /\ s \in Targets(job[h].op)
        /\ UpsertProviderLedger(job[h].pay, s, pid)
        /\ job[h].from # "processing" => pid = job[h].row.pid
  BY <1>2 DEF LedgerStep
<1>4. job[h].from = Before(s) /\ Reached(job[h].pay, Before(s))
  BY <1>1, <1>3 DEF JobFits, Remembers
<1>5. s \in {"captured", "refunded", "cancelled"} => pid = payments[job[h].pay].pid
  BY <1>1, <1>3, <1>4, BeforeIs DEF Remembers
<1>6. [status |-> s, pid |-> pid] # None
  BY NoneAssumption DEF LedgerRow
<1>7. /\ ledger'[job[h].pay] # None
      /\ ledger'[job[h].pay].status = s
      /\ ledger'[job[h].pay].pid = pid
      /\ \A q \in Payments \ {job[h].pay} : ledger'[q] = ledger[q]
  BY <1>1, <1>3, <1>6 DEF UpsertProviderLedger, TypeInv, TypeOK, StoreTypeOK
<1> QED
  BY <1>1, <1>3, <1>4, <1>5, <1>7

\* Only a step that writes the ledger changes it.
LEMMA LedgerOnly ==
  ASSUME TableStep
  PROVE  \/ ledger' = ledger
         \/ \E h \in Handlers : LedgerStep(h)
BY DEF TableStep, tables, Creation, InsertCreated, Transition, Saved,
       UpdatePayment, NoteStep

\* A payment past the decision is one that was there already, or that a
\* transition moves from a save, before which the ledger was written.
LEMMA StepLedgerPresent ==
  ASSUME TypeInv, HandlersRemember, LedgerPresent, TableStep, Forward
  PROVE  LedgerPresent'
<1>1. CASE \A p \in Payments : Decided(p)' => Decided(p)
  BY <1>1 DEF LedgerPresent, Forward
<1>2. CASE payments' = payments
  BY <1>1, <1>2 DEF Decided, Exists
<1>3. ASSUME NEW p \in Payments, NEW a \in Amounts, NEW k \in Keys,
             Creation(p, a, k)
      PROVE  \A q \in Payments : Decided(q)' => Decided(q)
  <2>1. /\ payments'[p].status = "requires_payment"
        /\ \A q \in Payments \ {p} : payments'[q] = payments[q]
    BY <1>3 DEF Creation, InsertCreated, TypeInv, TypeOK, StoreTypeOK
  <2> QED
    BY <2>1 DEF Decided, Exists
<1>4. ASSUME NEW h \in Handlers, Transition(h)
      PROVE  LedgerPresent'
  <2>1. PICK p \in Payments :
          /\ p = job[h].pay
          /\ payments'[p].status = job[h].row.status
          /\ \A q \in Payments \ {p} : payments'[q] = payments[q]
    BY <1>4, TransitionOf
  <2>2. \A q \in Payments \ {p} : Decided(q)' => Decided(q)
    BY <2>1 DEF Decided, Exists
  <2>3. CASE pc[h] = "begin"
    <3>1. ~Decided(p)'
      BY <2>1, <2>3, Held DEF TypeInv, JobFits, Decided
    <3> QED
      BY <2>2, <3>1 DEF LedgerPresent, Forward
  <2>4. CASE pc[h] = "save"
    BY <2>1, <2>2, <2>4 DEF HandlersRemember, Remembers, LedgerPresent, Forward
  <2> QED
    BY <1>4, <2>3, <2>4 DEF Transition
<1>5. ASSUME NEW h \in Handlers, LedgerStep(h) \/ NoteStep(h)
      PROVE  payments' = payments
  BY <1>5 DEF LedgerStep, UpsertProviderLedger, NoteStep
<1> QED
  BY <1>1, <1>2, <1>3, <1>4, <1>5 DEF TableStep, tables

\* A ledger row is at most one transition ahead after each of the five things.
LEMMA StepLedgerJustified ==
  ASSUME TypeInv, HandlersRemember, LedgerJustified, TableStep, Forward
  PROVE  LedgerJustified'
<1>1. CASE ledger' = ledger
  BY <1>1 DEF LedgerJustified, Forward
<1>2. ASSUME NEW h \in Handlers, LedgerStep(h)
      PROVE  LedgerJustified'
  <2>1. PICK p \in Payments, s \in Statuses :
          /\ ledger'[p].status = s
          /\ \A q \in Payments \ {p} : ledger'[q] = ledger[q]
          /\ Reached(p, Before(s))
    BY <1>2, LedgerStepIs
  <2>2. Reached(p, Before(s))'
    BY <2>1 DEF Forward
  <2> QED
    BY <2>1, <2>2 DEF LedgerJustified, Forward
<1> QED
  BY <1>1, <1>2, LedgerOnly

\* What the ledger shows past the authorization is past the decision.
LEMMA LedgerDecided ==
  ASSUME TypeInv, HistoryMatchesRow, LedgerJustified, NEW p \in Payments,
         ledger[p] # None, ledger[p].status \in {"captured", "refunded", "cancelled"}
  PROVE  Decided(p)
<1>1. Before(ledger[p].status) \in {"authorized", "captured"}
  BY BeforeIs
<1>2. PICK s \in {"authorized", "captured"} : s = Before(ledger[p].status)
  BY <1>1
<1>3. Reached(p, s) /\ s \in Statuses \ {"requires_payment", "processing"}
  BY <1>2 DEF LedgerJustified, Statuses
<1> QED
  BY <1>3, ReachedDecided DEF TypeInv, HistoryMatchesRow

\* The ledger's provider id stays the payment's.
LEMMA StepLedgerProviderId ==
  ASSUME TypeInv, HistoryMatchesRow, HandlersRemember, LedgerJustified,
         LedgerProviderId, TableStep, Forward
  PROVE  LedgerProviderId'
<1>1. CASE ledger' = ledger
  BY <1>1, LedgerDecided DEF LedgerProviderId, Forward
<1>2. ASSUME NEW h \in Handlers, LedgerStep(h)
      PROVE  LedgerProviderId'
  <2>1. PICK p \in Payments, s \in Statuses, pid \in ProviderIds \cup {None} :
          /\ UpsertProviderLedger(p, s, pid)
          /\ ledger'[p].status = s
          /\ ledger'[p].pid = pid
          /\ \A q \in Payments \ {p} : ledger'[q] = ledger[q]
          /\ s \in {"captured", "refunded", "cancelled"} => pid = payments[p].pid
    BY <1>2, LedgerStepIs
  <2>2. payments' = payments
    BY <2>1 DEF UpsertProviderLedger
  <2> QED
    BY <2>1, <2>2 DEF LedgerProviderId
<1> QED
  BY <1>1, <1>2, LedgerOnly

-----------------------------------------------------------------------------
(* What handlers remember, and answer *)

\* The invariant the steps of a handler are proved from.
HandlerInv == /\ TypeInv
              /\ HistoryMatchesRow
              /\ HandlersRemember
              /\ RecordsHaveEffect
              /\ LedgerPresent

\* What is proved of every action of handler h, besides StepFits.
StepKeeps(h) == Remembers(h)' /\ AnswerNamesPayment' /\ AuthorizeAnswersDecision'

\* A handler that does not move remembers what it did: nothing it relies on is
\* taken back.
LEMMA BystanderRemembers ==
  ASSUME HandlerInv, Forward, NEW g \in Handlers,
         pc'[g] = pc[g], job'[g] = job[g]
  PROVE  Remembers(g)'
<1> DEFINE j == job[g]
<1>1. /\ TypeOK /\ JobFits(g) /\ Remembers(g)
      /\ pc[g] = "idle" <=> j = None
  BY DEF HandlerInv, TypeInv, JobsFit, JobFits, HandlersRemember
<1>2. CASE pc[g] \in {"idle", "relookup"}
  BY <1>1, <1>2 DEF Remembers
<1>3. CASE pc[g] \notin {"idle", "relookup"}
  <2>1. PICK p \in Payments : p = j.pay
    BY <1>1, <1>3 DEF JobFits
  <2>2. /\ \A s : Reached(p, s) => Reached(p, s)'
        /\ Exists(p) => payments'[p].amount = payments[p].amount
        /\ Decided(p) => Decided(p)' /\ payments'[p].pid = payments[p].pid
        /\ ledger[p] # None => ledger'[p] # None
    BY DEF Forward
  <2>3. \A s \in {"authorized", "captured"} : Reached(p, s) => Decided(p)
    BY <1>1, ReachedDecided DEF HandlerInv, HistoryMatchesRow, Statuses
  <2>4. CASE pc[g] \in {"begin", "provider", "save"}
    <3>1. Exists(p)
      BY <1>1, <2>1, <2>4 DEF JobFits
    <3> QED
      BY <1>1, <2>1, <2>2, <2>3, <2>4, <3>1 DEF Remembers
  <2>5. CASE pc[g] = "note"
    BY <1>1, <2>1, <2>2, <2>5 DEF Remembers
  <2>6. CASE pc[g] = "reload"
    <3>1. j.op = "create" => keys'[j.id] = Recorded(j)
      <4> SUFFICES ASSUME j.op = "create" PROVE keys'[j.id] = Recorded(j)
        OBVIOUS
      <4>1. j.id \in Keys /\ keys[j.id] = Recorded(j)
        BY <1>1, <2>6 DEF JobFits, Remembers, InboundTypes
      <4>2. keys[j.id] # None
        BY <1>3, <2>1, <4>1, Held, RecordedType, NoneAssumption
        DEF HandlerInv, TypeInv
      <4> QED
        BY <4>1, <4>2 DEF Forward
    <3> QED
      BY <1>1, <2>1, <2>2, <2>6, <3>1 DEF Remembers, Recorded
  <2>7. CASE pc[g] \in {"get", "resume"}
    BY <1>1, <2>7 DEF Remembers
  <2> QED
    BY <1>1, <1>3, <2>4, <2>5, <2>6, <2>7 DEF TypeOK, ServiceTypeOK, Points
<1> QED
  BY <1>2, <1>3

\* A refusal keeps what the answers say: it says nothing.
LEMMA RefuseKeeps ==
  ASSUME TypeOK, NEW h \in Handlers, NEW j, NEW code, code # "OK",
         Refuse(h, j, code)
  PROVE  StepKeeps(h)
BY DEF TypeOK, ServiceTypeOK, Refuse, Answer, StepKeeps, Remembers,
       AnswerNamesPayment, AuthorizeAnswersDecision

\* An answer keeps it when it names the payment and, to authorize, a decision.
LEMMA AnswerKeeps ==
  ASSUME TypeOK, NEW h \in Handlers, NEW j, NEW code, NEW pay, NEW status,
         Answer(h, j, code, pay, status),
         j.op = "create" => /\ keys'[j.id] # None
                            /\ keys'[j.id].pay = pay
                            /\ payments'[pay].amount = j.arg,
         j.op # "create" => pay = j.arg,
         j.op = "authorize" => status \notin {"requires_payment", "processing"}
  PROVE  StepKeeps(h)
<1>1. Remembers(h)'
  BY DEF TypeOK, ServiceTypeOK, Answer, Remembers
<1>2. /\ reply'.op = j.op /\ reply'.arg = j.arg /\ reply'.id = j.id
      /\ reply'.pay = pay /\ reply'.status = status
  BY DEF Answer
<1> QED
  BY <1>1, <1>2 DEF StepKeeps, AnswerNamesPayment, AuthorizeAnswersDecision

\* A handler that goes on answers nothing.
LEMMA GotoKeeps ==
  ASSUME NEW h \in Handlers, NEW point, NEW j, Goto(h, point, j), Remembers(h)'
  PROVE  StepKeeps(h)
BY DEF Goto, StepKeeps, AnswerNamesPayment, AuthorizeAnswersDecision

\* A handler that answers with the row as it is now.
LEMMA AnswerRowKeeps ==
  ASSUME HandlerInv, NEW h \in Handlers, AnswerRow(h), UNCHANGED tables,
         pc[h] \in {"get", "resume", "reload"},
         job[h].op = "authorize" => Decided(job[h].pay)
  PROVE  StepKeeps(h)
<1> DEFINE j == job[h]
<1>1. /\ TypeOK /\ JobFits(h) /\ Remembers(h)
      /\ j # None
      /\ j \in Job
      /\ j.pay \in Payments
  BY Held DEF HandlerInv, TypeInv, HandlersRemember
<1>2. j.op # "create" => j.pay = j.arg
  BY <1>1 DEF Remembers
<1>3. j.op = "create" => /\ keys[j.id] # None
                         /\ keys[j.id].pay = j.pay
                         /\ payments[j.pay].amount = j.arg
  <2> SUFFICES ASSUME j.op = "create"
               PROVE  /\ keys[j.id] # None
                      /\ keys[j.id].pay = j.pay
                      /\ payments[j.pay].amount = j.arg
    OBVIOUS
  <2>1. j.id \in Keys /\ keys[j.id] = Recorded(j)
    BY <1>1 DEF JobFits, Remembers, InboundTypes
  <2>2. keys[j.id] # None
    BY <1>1, <2>1, RecordedType, NoneAssumption
  <2>3. HasEffect(keys[j.id])
    BY <2>1, <2>2 DEF HandlerInv, RecordsHaveEffect
  <2> QED
    BY <2>1, <2>2, <2>3 DEF HasEffect, Recorded
<1>4. /\ keys' = keys /\ payments' = payments
      /\ Answer(h, j, "OK", j.pay, payments[j.pay].status)
  BY DEF tables, AnswerRow
<1> HIDE DEF j
<1>5. j.op = "authorize" =>
        payments[j.pay].status \notin {"requires_payment", "processing"}
  BY DEF j, Decided
<1> QED
  BY <1>1, <1>2, <1>3, <1>4, <1>5, AnswerKeeps

\* A committed save is answered for the payment it was asked for.
LEMMA AcknowledgeKeeps ==
  ASSUME HandlerInv, NEW h \in Handlers, NEW status,
         pc[h] \notin {"idle", "relookup"}, job[h].op # "create",
         Acknowledge(h, job[h], status),
         job[h].op = "authorize" => status \notin {"requires_payment", "processing"}
  PROVE  StepKeeps(h)
<1>1. TypeOK /\ job[h].pay = job[h].arg
  BY Held DEF HandlerInv, TypeInv, HandlersRemember, Remembers
<1>2. CASE Answer(h, job[h], "OK", job[h].pay, status)
  BY <1>1, <1>2, AnswerKeeps
<1>3. CASE Refuse(h, job[h], "INTERNAL")
  BY <1>1, <1>3, RefuseKeeps
<1> QED
  BY <1>2, <1>3 DEF Acknowledge

\* The ends of a read that go no further.
LEMMA ReadEndsKeep ==
  ASSUME HandlerInv, NEW h \in Handlers,
         pc[h] \in {"get", "resume", "reload"}, UNCHANGED tables,
         \/ NotFound(h)
         \/ AnswerRow(h) /\ (job[h].op = "authorize" => Decided(job[h].pay))
         \/ \E ss \in SUBSET Statuses : WrongState(h, ss)
  PROVE  StepKeeps(h)
<1>1. TypeOK
  BY DEF HandlerInv, TypeInv
<1> QED
  BY <1>1, AnswerRowKeeps, RefuseKeeps DEF NotFound, WrongState

\* A handler that goes on with a payment it read or computed.
LEMMA HoldKeeps ==
  ASSUME HandlerInv, NEW h \in Handlers, pc[h] \notin {"idle", "relookup"},
         NEW p, p = job[h].pay, NEW op, op = job[h].op, op # "create",
         NEW point \in {"begin", "provider", "save", "note"},
         NEW row \in Row, NEW from \in Statuses \cup {None},
         Goto(h, point, Holding(h, row, from)),
         point # "note" => /\ Reached(p, from)'
                           /\ row.amount = payments'[p].amount
                           /\ row.version = Rank(row.status)
                           /\ from \in {"authorized", "captured"} =>
                                row.pid = payments'[p].pid,
         point = "save" => /\ ledger'[p] # None
                           /\ op \notin InboundTypes =>
                                Agrees(row.status, row.amount),
         point = "note" => Reached(p, op)'
  PROVE  StepKeeps(h)
<1>1. /\ TypeOK /\ ServiceTypeOK /\ job[h] # None
      /\ job[h].pay = job[h].arg
  BY Held DEF HandlerInv, TypeInv, TypeOK, HandlersRemember, Remembers
<1>2. /\ pc'[h] = point
      /\ job'[h] = Holding(h, row, from)
  BY <1>1, GotoMoves DEF Points
<1>3. /\ job'[h].op = op /\ job'[h].pay = p /\ job'[h].arg = p
      /\ job'[h].row = row /\ job'[h].from = from
  BY <1>1, <1>2, HoldingType
<1>4. Remembers(h)'
  BY <1>2, <1>3 DEF Remembers
<1> QED
  BY <1>4, GotoKeeps

\* A handler that forgets what it computed, to read again.
LEMMA ForgetKeeps ==
  ASSUME HandlerInv, NEW h \in Handlers, pc[h] \notin {"idle", "relookup"},
         NEW p, p = job[h].pay, NEW op, op = job[h].op, op # "create",
         NEW point \in {"relookup", "reload"},
         Goto(h, point, Holding(h, None, None)),
         point = "reload" /\ op = "authorize" => Decided(p)'
  PROVE  StepKeeps(h)
<1>1. /\ TypeOK /\ ServiceTypeOK /\ job[h] # None
      /\ job[h].pay = job[h].arg
  BY Held DEF HandlerInv, TypeInv, TypeOK, HandlersRemember, Remembers
<1>2. /\ pc'[h] = point
      /\ job'[h] = Holding(h, None, None)
  BY <1>1, GotoMoves DEF Points
<1>3. job'[h].op = op /\ job'[h].pay = p /\ job'[h].arg = p
  BY <1>1, <1>2, HoldingType
<1>4. Remembers(h)'
  BY <1>2, <1>3 DEF Remembers
<1> QED
  BY <1>4, GotoKeeps

\* A payment read at a status: that status was reached, by its number of
\* transitions.
LEMMA ReadAt ==
  ASSUME HandlerInv, NEW p \in Payments, Exists(p)
  PROVE  /\ payments[p] \in Row
         /\ payments[p].status \in Statuses
         /\ Reached(p, payments[p].status)
         /\ payments[p].version = Rank(payments[p].status)
BY VersionIsLength, CurrentReached
DEF HandlerInv, TypeInv, HistoryMatchesRow

\* A handler that goes on to the provider with the payment it read.
LEMMA ReadOn ==
  ASSUME HandlerInv, NEW h \in Handlers, pc[h] \in {"get", "resume"},
         UNCHANGED tables, NEW from \in Statuses, At(h, from),
         Goto(h, "provider", Holding(h, payments[job[h].pay], from))
  PROVE  StepKeeps(h)
<1>1. PICK p \in Payments : p = job[h].pay
  BY Held DEF HandlerInv, TypeInv
<1>2. job[h].op # "create"
  BY Held DEF HandlerInv, TypeInv, JobFits
<1>3. /\ payments[p] \in Row
      /\ payments[p].status = from
      /\ Reached(p, from)
      /\ payments[p].version = Rank(from)
  BY <1>1, ReadAt DEF At, Exists
<1>4. /\ payments' = payments
      /\ Reached(p, from)'
  BY <1>3 DEF tables, Reached
<1> QED
  BY <1>1, <1>2, <1>3, <1>4, HoldKeeps

\* A replay goes on with the payment of the record, which is the one the
\* request names.
LEMMA ReplayKeeps ==
  ASSUME HandlerInv, NEW h \in Handlers, NEW j \in Job, IdFits(j),
         Earlier(j) # None, Replay(h, j, Earlier(j)), UNCHANGED tables
  PROVE  StepKeeps(h)
<1> DEFINE rec == Earlier(j)
           on  == [j EXCEPT !.pay = rec.pay]
<1>1. /\ TypeOK /\ ServiceTypeOK
      /\ rec \in Record
      /\ HasEffect(rec)
  BY DEF Earlier, IdFits, HandlerInv, TypeInv, TypeOK, StoreTypeOK,
         RecordsHaveEffect
<1>2. CASE Refuse(h, j, "REUSE")
  BY <1>1, <1>2, RefuseKeeps
<1>3. CASE /\ SameRequest(rec, j)
           /\ Goto(h, IF j.op = "authorize" THEN "resume" ELSE "reload", on)
  <2>1. /\ on.op = j.op /\ on.arg = j.arg /\ on.id = j.id /\ on.pay = rec.pay
        /\ rec.op = j.op /\ rec.arg = j.arg
    BY <1>3 DEF Job, SameRequest
  <2>2. j.op # "create" => rec.pay = j.arg
    BY <1>1, <2>1 DEF HasEffect
  <2>3. j.op = "create" => keys'[j.id] = Recorded(on)
    <3>1. j.op = "create" => keys'[j.id] = rec
      BY DEF Earlier, tables, InboundTypes
    <3>2. rec = [op |-> rec.op, arg |-> rec.arg, pay |-> rec.pay]
      BY <1>1 DEF Record
    <3> HIDE DEF rec, on
    <3> QED
      BY <2>1, <3>1, <3>2 DEF Recorded
  <2> HIDE DEF on, rec
  <2>4. /\ pc'[h] = IF j.op = "authorize" THEN "resume" ELSE "reload"
        /\ job'[h] = on
    BY <1>1, <1>3, GotoMoves DEF Points
  <2>5. Remembers(h)'
    BY <2>1, <2>2, <2>3, <2>4 DEF Remembers, Recorded
  <2> QED
    BY <1>3, <2>5, GotoKeeps
<1> QED
  BY <1>2, <1>3 DEF Replay

\* The lookup of every operation but Create.
LEMMA ArriveKeeps ==
  ASSUME HandlerInv, NEW h \in Handlers, NEW op, NEW id,
         op \in (Operations \cup InboundTypes) \ {"create"},
         id \in IF op \in InboundTypes THEN EventIds ELSE Keys,
         NEW p \in Payments, Arrive(h, Request(op, p, id))
  PROVE  StepKeeps(h)
<1> DEFINE j == Request(op, p, id)
           on == [j EXCEPT !.pay = j.arg]
<1>1. /\ j \in Job
      /\ IdFits(j)
      /\ on.op = op /\ on.arg = p /\ on.pay = p
  BY RequestType DEF Request, IdFits
<1>2. CASE Earlier(j) # None
  BY <1>1, <1>2, ReplayKeeps DEF Arrive
<1>3. CASE Goto(h, "get", on)
  <2>1. ServiceTypeOK
    BY DEF HandlerInv, TypeInv, TypeOK
  <2> HIDE DEF on
  <2>2. pc'[h] = "get" /\ job'[h] = on
    BY <1>3, <2>1, GotoMoves DEF Points
  <2>3. Remembers(h)'
    BY <1>1, <2>2 DEF Remembers
  <2> QED
    BY <1>3, <2>3, GotoKeeps
<1> QED
  BY <1>2, <1>3 DEF Arrive

\* Create answers the payment it made with its key, or goes on to look it up.
LEMMA CreateKeeps ==
  ASSUME HandlerInv, NEW h \in Handlers, NEW a \in Amounts, NEW k \in Keys,
         Create(h, a, k)
  PROVE  StepKeeps(h)
<1> DEFINE j == Request("create", a, k)
           made(p) == [j EXCEPT !.pay = p]
<1>1. TypeOK /\ ServiceTypeOK
  BY DEF HandlerInv, TypeInv, TypeOK
<1>2. CASE Goto(h, "relookup", j)
  <2>1. j.op = "create"
    BY DEF Request
  <2> HIDE DEF j
  <2>2. pc'[h] = "relookup" /\ job'[h] = j
    BY <1>1, <1>2, GotoMoves DEF Points
  <2>3. Remembers(h)'
    BY <2>1, <2>2 DEF Remembers
  <2> QED
    BY <1>2, <2>3, GotoKeeps
<1>3. ASSUME NEW p \in Payments, InsertCreated(p, a),
             InsertKey(k, Recorded(made(p))),
             Acknowledge(h, made(p), "requires_payment")
      PROVE  StepKeeps(h)
  <2>1. /\ made(p).op = "create" /\ made(p).arg = a /\ made(p).id = k
        /\ made(p).pay = p
        /\ made(p) \in Job
    BY RequestType DEF Request, Operations
  <2> HIDE DEF made
  <2>2. keys'[k] = Recorded(made(p))
    BY <1>1, <1>3 DEF InsertKey, TypeOK, StoreTypeOK
  <2>3. Recorded(made(p)) # None
    BY <2>1, RecordedType, NoneAssumption
  <2>4. Recorded(made(p)).pay = p
    BY <2>1 DEF Recorded
  <2>5. payments'[p].amount = a
    BY <1>1, <1>3 DEF InsertCreated, TypeOK, StoreTypeOK
  <2>6. CASE Answer(h, made(p), "OK", made(p).pay, "requires_payment")
    BY <1>1, <2>1, <2>2, <2>3, <2>4, <2>5, <2>6, AnswerKeeps
  <2>7. CASE Refuse(h, made(p), "INTERNAL")
    BY <1>1, <2>7, RefuseKeeps
  <2> QED
    BY <1>3, <2>6, <2>7 DEF Acknowledge
<1> QED
  BY <1>2, <1>3 DEF Create

-----------------------------------------------------------------------------
(* One lemma for each action *)

\* The read of Authorize.
LEMMA AuthorizeReadKeeps ==
  ASSUME HandlerInv, NEW h \in Handlers, AuthorizeRead(h)
  PROVE  StepKeeps(h)
<1>1. /\ pc[h] = "get" /\ job[h].op = "authorize" /\ UNCHANGED tables
  BY DEF AuthorizeRead, Read
<1>2. CASE NotFound(h) \/ WrongState(h, {"processing", "requires_payment"})
  BY <1>1, <1>2, ReadEndsKeep DEF Statuses
<1>3. CASE /\ At(h, "processing")
           /\ Goto(h, "provider", Holding(h, payments[job[h].pay], "processing"))
  BY <1>1, <1>3, ReadOn DEF Statuses
<1>4. CASE /\ At(h, "requires_payment")
           /\ Goto(h, "begin", Holding(h, Advance(payments[job[h].pay], "processing"),
                                       "requires_payment"))
  <2>1. PICK p \in Payments : p = job[h].pay
    BY <1>1, Held DEF HandlerInv, TypeInv
  <2>2. /\ payments[p] \in Row
        /\ Reached(p, "requires_payment")
        /\ payments[p].version = 1
    BY <1>4, <2>1, ReadAt DEF At, Exists, Rank
  <2>3. PICK row \in Row : row = Advance(payments[p], "processing")
    BY <2>2, AdvanceType DEF Statuses
  <2>4. /\ row.status = "processing"
        /\ row.version = 2
        /\ row.amount = payments[p].amount
    BY <2>2, <2>3, AdvanceType DEF Statuses
  <2>5. payments' = payments /\ Reached(p, "requires_payment")'
    BY <1>1, <2>2 DEF tables, Reached
  <2>6. Rank("processing") = 2 /\ "requires_payment" \in Statuses
    BY DEF Rank, Statuses
  <2> QED
    BY <1>1, <1>4, <2>1, <2>3, <2>4, <2>5, <2>6, HoldKeeps
<1> QED
  BY <1>2, <1>3, <1>4 DEF AuthorizeRead

\* The first save of Authorize: processing is reached.
LEMMA BeginKeeps ==
  ASSUME HandlerInv, NEW h \in Handlers, Begin(h)
  PROVE  StepKeeps(h)
<1>1. /\ TypeOK /\ JobFits(h) /\ Remembers(h)
      /\ pc[h] = "begin" /\ job[h].op = "authorize"
      /\ job[h].pay \in Payments
      /\ job[h].row \in Row
      /\ job[h].row.status = "processing"
  BY Held DEF Begin, HandlerInv, TypeInv, HandlersRemember, JobFits, Job
<1>2. PICK p \in Payments : p = job[h].pay
  BY <1>1
<1>3. CASE /\ SavedWithKey(h)
           /\ Goto(h, "provider", Holding(h, job[h].row, "processing"))
  <2>1. /\ payments'[p].amount = payments[p].amount
        /\ events[p] \in Seq(Statuses)
        /\ events'[p] = Append(events[p], "processing")
    BY <1>1, <1>2, <1>3, NoneAssumption
    DEF SavedWithKey, Saved, CanSave, UpdatePayment, Unchanged, TypeOK, StoreTypeOK
  <2>2. "processing" \in Statuses
    BY DEF Statuses
  <2>3. Reached(p, "processing")'
    BY <2>1, <2>2, AppendReached
  <2>4. PICK row \in Row : row = job[h].row
    BY <1>1
  <2>5. row.amount = payments[p].amount /\ row.version = Rank(row.status)
    BY <1>1, <1>2, <2>4 DEF Remembers
  <2> QED
    BY <1>1, <1>2, <1>3, <2>1, <2>2, <2>3, <2>4, <2>5, HoldKeeps
<1>4. CASE Goto(h, "relookup", Holding(h, None, None))
  BY <1>1, <1>4, ForgetKeeps
<1>5. CASE Refuse(h, job[h], "INTERNAL")
  BY <1>1, <1>5, RefuseKeeps
<1> QED
  BY <1>3, <1>4, <1>5 DEF Begin

\* The read of a replayed Authorize.
LEMMA ResumeKeeps ==
  ASSUME HandlerInv, NEW h \in Handlers, Resume(h)
  PROVE  StepKeeps(h)
<1>1. pc[h] = "resume" /\ UNCHANGED tables
  BY DEF Resume
<1>2. CASE /\ At(h, "authorized") \/ At(h, "failed")
           /\ AnswerRow(h)
  BY <1>1, <1>2, ReadEndsKeep DEF At, Decided, Exists
<1>3. CASE WrongState(h, {"authorized", "failed", "processing"})
  BY <1>1, <1>3, ReadEndsKeep DEF Statuses
<1>4. CASE /\ At(h, "processing")
           /\ Goto(h, "provider", Holding(h, payments[job[h].pay], "processing"))
  BY <1>1, <1>4, ReadOn DEF Statuses
<1> QED
  BY <1>2, <1>3, <1>4 DEF Resume

\* The ledger is written, and the handler goes on to its save.
LEMMA WriteLedgerKeeps ==
  ASSUME HandlerInv, NEW h \in Handlers, pc[h] = "provider",
         NEW row \in Row, row.status \in Targets(job[h].op),
         row.version = job[h].row.version + 1,
         row.amount = job[h].row.amount,
         job[h].from # "processing" => row.pid = job[h].row.pid,
         job[h].op \notin InboundTypes => Agrees(row.status, row.amount),
         WriteLedger(h, row)
  PROVE  StepKeeps(h)
<1>1. /\ TypeOK /\ JobFits(h) /\ Remembers(h)
      /\ job[h] \in Job
      /\ job[h].pay \in Payments
      /\ job[h].op # "create"
      /\ job[h].row.status = job[h].from
      /\ job[h].from = Before(row.status)
      /\ UpsertProviderLedger(job[h].pay, row.status, row.pid)
      /\ Goto(h, "save", Holding(h, row, job[h].from))
  BY Held DEF WriteLedger, HandlerInv, TypeInv, HandlersRemember, JobFits
<1>2. PICK p \in Payments, from \in Statuses \cup {None} :
        p = job[h].pay /\ from = job[h].from
  BY <1>1 DEF Job
<1>3. row.version = Rank(row.status)
  <2>1. row.status \in Statuses /\ row.status # "requires_payment"
    <3>1. job[h].op \in {"authorize", "capture", "refund"} \cup InboundTypes
      BY <1>1 DEF JobFits, Job, Operations
    <3> QED
      BY <3>1, TargetsAre DEF Row, InboundTypes
  <2>2. job[h].row.version = Rank(Before(row.status))
    BY <1>1 DEF Remembers
  <2> QED
    BY <2>1, <2>2, RankBefore
<1>4. /\ Reached(p, from)
      /\ row.amount = payments[p].amount
      /\ from \in {"authorized", "captured"} => row.pid = payments[p].pid
  BY <1>1, <1>2 DEF Remembers
<1>5. payments' = payments /\ Reached(p, from)'
  BY <1>1, <1>4 DEF UpsertProviderLedger, Reached
<1>6. ledger'[p] # None
  <2>1. [status |-> row.status, pid |-> row.pid] # None
    BY NoneAssumption DEF LedgerRow, Row
  <2> QED
    BY <1>1, <1>2, <2>1 DEF UpsertProviderLedger, TypeOK, StoreTypeOK
<1> QED
  BY <1>1, <1>2, <1>3, <1>4, <1>5, <1>6, HoldKeeps

\* The provider's answer to an authorization.
LEMMA AuthorizeProviderKeeps ==
  ASSUME HandlerInv, NEW h \in Handlers, AuthorizeProvider(h)
  PROVE  StepKeeps(h)
<1> DEFINE row == job[h].row
<1>1. /\ pc[h] = "provider" /\ job[h].op = "authorize"
      /\ row \in Row
      /\ Targets(job[h].op) = {"authorized", "failed"}
      /\ "authorized" \in Statuses /\ "failed" \in Statuses
      /\ job[h].from = "processing"
  BY Held, TargetsAre, BeforeIs
  DEF AuthorizeProvider, HandlerInv, TypeInv, JobFits, Job, Statuses
<1>2. ASSUME NEW pid \in ProviderIds, Accepts("authorize", row.amount),
             WriteLedger(h, [Advance(row, "authorized") EXCEPT !.pid = pid])
      PROVE  StepKeeps(h)
  <2> DEFINE next == [Advance(row, "authorized") EXCEPT !.pid = pid]
  <2>1. /\ Advance(row, "authorized") \in Row
        /\ Advance(row, "authorized").status = "authorized"
        /\ Advance(row, "authorized").version = row.version + 1
        /\ Advance(row, "authorized").amount = row.amount
    BY <1>1, AdvanceType
  <2>2. /\ next \in Row /\ next.status = "authorized"
        /\ next.version = row.version + 1
        /\ next.amount = row.amount
    BY <2>1 DEF Row
  <2>3. Agrees(next.status, next.amount)
    BY <1>2, <2>2 DEF Agrees
  <2> HIDE DEF next
  <2> QED
    BY <1>1, <1>2, <2>2, <2>3, WriteLedgerKeeps DEF next
<1>3. CASE /\ ~Accepts("authorize", row.amount)
           /\ WriteLedger(h, Advance(row, "failed"))
  <2>1. /\ Advance(row, "failed") \in Row
        /\ Advance(row, "failed").status = "failed"
        /\ Advance(row, "failed").version = row.version + 1
        /\ Advance(row, "failed").amount = row.amount
    BY <1>1, AdvanceType
  <2>2. Agrees("failed", row.amount)
    BY <1>3 DEF Agrees
  <2> QED
    BY <1>1, <1>3, <2>1, <2>2, WriteLedgerKeeps
<1> QED
  BY <1>2, <1>3 DEF AuthorizeProvider

\* The second save of Authorize: the payment is decided, by this handler or by
\* the one that moved it first.
LEMMA AuthorizeSaveKeeps ==
  ASSUME HandlerInv, NEW h \in Handlers, AuthorizeSave(h)
  PROVE  StepKeeps(h)
<1>1. /\ TypeOK /\ JobFits(h) /\ Remembers(h)
      /\ pc[h] = "save" /\ job[h].op = "authorize"
      /\ job[h].row \in Row
      /\ job[h].row.status \in {"authorized", "failed"}
      /\ job[h].from = "processing"
      /\ Exists(job[h].pay)
  BY Held, TargetsAre, BeforeIs
  DEF AuthorizeSave, HandlerInv, TypeInv, HandlersRemember, JobFits, Job
<1>2. PICK p \in Payments : p = job[h].pay
  BY <1>1, Held DEF HandlerInv, TypeInv
<1>3. CASE Acknowledge(h, job[h], job[h].row.status)
  BY <1>1, <1>3, AcknowledgeKeeps
<1>4. CASE Stale(h) /\ Goto(h, "reload", Holding(h, None, None))
  <2>1. /\ Reached(p, "processing")
        /\ job[h].row.version = 3
    BY <1>1, <1>2 DEF Remembers, Rank
  <2>2. ~(payments[p].status = "processing" /\ payments[p].version = 2)
    BY <1>1, <1>2, <1>4, <2>1 DEF Stale, CanSave, Unchanged, Exists
  <2>3. /\ payments[p].version \in Nat
        /\ payments[p].version = Rank(payments[p].status)
        /\ payments[p].version >= 2
        /\ Exists(p)
    BY <1>1, <1>2, <2>1, ReachedVersion, VersionIsLength
    DEF HandlerInv, HistoryMatchesRow, Rank
  <2>4. Decided(p)
    BY <2>2, <2>3 DEF Decided, Rank
  <2>5. Decided(p)'
    BY <1>4, <2>4 DEF Stale, tables, Decided, Exists
  <2> QED
    BY <1>1, <1>2, <1>4, <2>5, ForgetKeeps
<1> QED
  BY <1>3, <1>4 DEF AuthorizeSave

\* The read of Capture and Refund.
LEMMA ReadForProviderKeeps ==
  ASSUME HandlerInv, NEW h \in Handlers, NEW op, op # "authorize",
         NEW from \in Statuses, NEW to \in Statuses,
         ReadForProvider(h, op, from, to)
  PROVE  StepKeeps(h)
<1>1. pc[h] = "get" /\ job[h].op = op /\ UNCHANGED tables
  BY DEF ReadForProvider, Read
<1>2. CASE NotFound(h) \/ AnswerRow(h) \/ WrongState(h, {from, to})
  BY <1>1, <1>2, ReadEndsKeep
<1>3. CASE /\ At(h, from)
           /\ Goto(h, "provider", Holding(h, payments[job[h].pay], from))
  BY <1>1, <1>3, ReadOn
<1> QED
  BY <1>2, <1>3 DEF ReadForProvider

\* The provider's answer to a capture or a refund.
LEMMA AskProviderKeeps ==
  ASSUME HandlerInv, NEW h \in Handlers, NEW op \in {"capture", "refund"},
         NEW to \in Statuses, Targets(op) = {to}, AskProvider(h, op, to)
  PROVE  StepKeeps(h)
<1>1. /\ pc[h] = "provider" /\ job[h].op = op
      /\ job[h].row \in Row
      /\ TypeOK
  BY Held DEF AskProvider, HandlerInv, TypeInv, JobFits, Job
<1>2. CASE /\ Accepts(op, job[h].row.amount)
           /\ WriteLedger(h, Advance(job[h].row, to))
  <2>1. Agrees(to, job[h].row.amount)
    BY <1>2, TargetsAre DEF Agrees
  <2>2. /\ Advance(job[h].row, to) \in Row
        /\ Advance(job[h].row, to).status = to
        /\ Advance(job[h].row, to).version = job[h].row.version + 1
        /\ Advance(job[h].row, to).amount = job[h].row.amount
        /\ Advance(job[h].row, to).pid = job[h].row.pid
    BY <1>1, AdvanceType
  <2> QED
    BY <1>1, <1>2, <2>1, <2>2, WriteLedgerKeeps
<1>3. CASE Refuse(h, job[h], "DECLINED")
  BY <1>1, <1>3, RefuseKeeps
<1> QED
  BY <1>2, <1>3 DEF AskProvider

\* The save of Capture, Refund and Cancel.
LEMMA SaveOnceKeeps ==
  ASSUME HandlerInv, NEW h \in Handlers,
         NEW op \in {"capture", "refund", "cancel"}, SaveOnce(h, op)
  PROVE  StepKeeps(h)
<1>1. pc[h] = "save" /\ job[h].op = op
  BY DEF SaveOnce
<1>2. CASE Acknowledge(h, job[h], job[h].row.status)
  BY <1>1, <1>2, AcknowledgeKeeps
<1>3. CASE Goto(h, "reload", Holding(h, None, None))
  BY <1>1, <1>3, ForgetKeeps
<1> QED
  BY <1>2, <1>3 DEF SaveOnce

\* The steps of Capture.
LEMMA CaptureKeeps ==
  ASSUME HandlerInv, NEW h \in Handlers,
         CaptureRead(h) \/ CaptureProvider(h) \/ CaptureSave(h)
  PROVE  StepKeeps(h)
<1>1. "authorized" \in Statuses /\ "captured" \in Statuses
  BY DEF Statuses
<1> QED
  BY <1>1, TargetsAre, ReadForProviderKeeps, AskProviderKeeps, SaveOnceKeeps
  DEF CaptureRead, CaptureProvider, CaptureSave

\* The steps of Refund.
LEMMA RefundKeeps ==
  ASSUME HandlerInv, NEW h \in Handlers,
         RefundRead(h) \/ RefundProvider(h) \/ RefundSave(h)
  PROVE  StepKeeps(h)
<1>1. "captured" \in Statuses /\ "refunded" \in Statuses
  BY DEF Statuses
<1> QED
  BY <1>1, TargetsAre, ReadForProviderKeeps, AskProviderKeeps, SaveOnceKeeps
  DEF RefundRead, RefundProvider, RefundSave

\* The read of Cancel: an authorized payment has a ledger row.
LEMMA CancelReadKeeps ==
  ASSUME HandlerInv, NEW h \in Handlers, CancelRead(h)
  PROVE  StepKeeps(h)
<1>1. pc[h] = "get" /\ job[h].op = "cancel" /\ UNCHANGED tables
  BY DEF CancelRead, Read
<1>2. CASE \/ NotFound(h) \/ AnswerRow(h)
           \/ WrongState(h, {"authorized", "cancelled"})
  BY <1>1, <1>2, ReadEndsKeep DEF Statuses
<1>3. CASE /\ At(h, "authorized")
           /\ Goto(h, "save", Holding(h, Advance(payments[job[h].pay],
                                                 "cancelled"), "authorized"))
  <2>1. PICK p \in Payments : p = job[h].pay
    BY <1>1, Held DEF HandlerInv, TypeInv
  <2>2. /\ payments[p] \in Row
        /\ Reached(p, "authorized")
        /\ payments[p].version = 3
        /\ ledger[p] # None
    BY <1>3, <2>1, ReadAt
    DEF At, Exists, Rank, HandlerInv, LedgerPresent, Decided
  <2>3. PICK row \in Row : row = Advance(payments[p], "cancelled")
    BY <2>2, AdvanceType DEF Statuses
  <2>4. /\ row.status = "cancelled"
        /\ row.version = 4
        /\ row.amount = payments[p].amount
        /\ row.pid = payments[p].pid
    BY <2>2, <2>3, AdvanceType DEF Statuses
  <2>5. /\ payments' = payments /\ ledger' = ledger
        /\ Reached(p, "authorized")'
    BY <1>1, <2>2 DEF tables, Reached
  <2>6. /\ Rank("cancelled") = 4 /\ "authorized" \in Statuses
        /\ Agrees("cancelled", row.amount)
    BY DEF Rank, Statuses, Agrees
  <2> QED
    BY <1>1, <1>3, <2>1, <2>2, <2>3, <2>4, <2>5, <2>6, HoldKeeps
<1> QED
  BY <1>2, <1>3 DEF CancelRead

\* The read of ApplyInbound.
LEMMA InboundReadKeeps ==
  ASSUME HandlerInv, NEW h \in Handlers, InboundRead(h)
  PROVE  StepKeeps(h)
<1> DEFINE type == job[h].op
<1>1. /\ pc[h] = "get" /\ UNCHANGED tables
      /\ type \in InboundTypes
      /\ type \in Statuses /\ InboundFrom(type) \in Statuses
      /\ type # "create"
  BY Names DEF InboundRead, Read, InboundTypes, InboundFrom, Statuses
<1>2. CASE NotFound(h) \/ WrongState(h, {type, InboundFrom(type)})
  BY <1>1, <1>2, ReadEndsKeep
<1>3. CASE /\ At(h, InboundFrom(type))
           /\ Goto(h, "provider", Holding(h, payments[job[h].pay], InboundFrom(type)))
  BY <1>1, <1>3, ReadOn
<1>4. CASE At(h, type) /\ Goto(h, "note", Holding(h, payments[job[h].pay], None))
  <2>1. PICK p \in Payments : p = job[h].pay
    BY <1>1, Held DEF HandlerInv, TypeInv
  <2>2. payments[p] \in Row /\ Reached(p, type)
    BY <1>4, <2>1, ReadAt DEF At, Exists
  <2>3. PICK op : op = type
    OBVIOUS
  <2>4. Reached(p, op)'
    BY <1>1, <2>2, <2>3 DEF tables, Reached
  <2> QED
    BY <1>1, <1>4, <2>1, <2>2, <2>3, <2>4, HoldKeeps
<1> QED
  BY <1>2, <1>3, <1>4 DEF InboundRead

\* The other steps of ApplyInbound.
LEMMA InboundKeeps ==
  ASSUME HandlerInv, NEW h \in Handlers,
         InboundNote(h) \/ InboundLedger(h) \/ InboundSave(h)
  PROVE  StepKeeps(h)
<1>1. /\ TypeOK
      /\ pc[h] \in {"note", "provider", "save"}
      /\ job[h].op \in InboundTypes /\ job[h].op \in Statuses
      /\ job[h].op # "create" /\ job[h].op # "authorize"
      /\ job[h].row \in Row
  <2>1. pc[h] \in {"note", "provider", "save"} /\ job[h].op \in InboundTypes
    BY Held DEF InboundNote, InboundLedger, InboundSave, HandlerInv, TypeInv, JobFits
  <2> QED
    BY <2>1, Held, Names DEF HandlerInv, TypeInv, JobFits, Job, InboundTypes
<1>2. CASE Acknowledge(h, job[h], job[h].row.status)
  BY <1>1, <1>2, AcknowledgeKeeps
<1>3. CASE Goto(h, "relookup", Holding(h, None, None))
  BY <1>1, <1>3, ForgetKeeps
<1>4. CASE Refuse(h, job[h], "INTERNAL")
  BY <1>1, <1>4, RefuseKeeps
<1>5. CASE pc[h] = "provider" /\ WriteLedger(h, Advance(job[h].row, job[h].op))
  <2>1. /\ Advance(job[h].row, job[h].op) \in Row
        /\ Advance(job[h].row, job[h].op).status = job[h].op
        /\ Advance(job[h].row, job[h].op).version = job[h].row.version + 1
        /\ Advance(job[h].row, job[h].op).amount = job[h].row.amount
        /\ Advance(job[h].row, job[h].op).pid = job[h].row.pid
    BY <1>1, AdvanceType
  <2>2. job[h].op \in Targets(job[h].op)
    BY <1>1, TargetsAre
  <2> QED
    BY <1>1, <1>5, <2>1, <2>2, WriteLedgerKeeps
<1> QED
  BY <1>2, <1>3, <1>4, <1>5 DEF InboundNote, InboundLedger, InboundSave

\* The second lookup, the last read, and a failure anywhere.
LEMMA SharedEndsKeep ==
  ASSUME HandlerInv, NEW h \in Handlers, Relookup(h) \/ Reload(h) \/ Fail(h)
  PROVE  StepKeeps(h)
<1>1. CASE Relookup(h)
  BY <1>1, Held, ReplayKeeps DEF Relookup, HandlerInv, TypeInv, JobFits, IdFits
<1>2. CASE Reload(h)
  <2>1. job[h].op = "authorize" => Decided(job[h].pay)
    BY <1>2 DEF Reload, HandlerInv, HandlersRemember, Remembers
  <2> QED
    BY <1>2, <2>1, ReadEndsKeep DEF Reload
<1>3. CASE Fail(h)
  BY <1>3, RefuseKeeps DEF Fail, HandlerInv, TypeInv
<1> QED
  BY <1>1, <1>2, <1>3

\* The arrival of any request.
LEMMA ReceiveKeeps ==
  ASSUME HandlerInv, NEW h \in Handlers, Receive(h)
  PROVE  StepKeeps(h)
<1>1. \A op \in Operations : ClientKeys[op] \subseteq Keys
  BY ClientKeysAssumption
<1>2. {"create", "authorize", "capture", "refund", "cancel"} = Operations
  BY DEF Operations
<1>3. ASSUME NEW k \in ClientKeys["create"], NEW a \in Amounts, Create(h, a, k)
      PROVE  StepKeeps(h)
  BY <1>1, <1>2, <1>3, CreateKeeps
<1>4. ASSUME NEW p \in Payments, NEW op \in Operations \ {"create"},
             NEW k \in ClientKeys[op], Arrive(h, Request(op, p, k))
      PROVE  StepKeeps(h)
  BY <1>1, <1>4, Names, ArriveKeeps
<1>5. ASSUME NEW p \in Payments, NEW e \in EventIds, NEW type \in InboundTypes,
             ApplyInbound(h, type, p, e)
      PROVE  StepKeeps(h)
  <2>1. type \in (Operations \cup InboundTypes) \ {"create"}
    BY DEF InboundTypes
  <2> QED
    BY <1>5, <2>1, ArriveKeeps DEF ApplyInbound
<1> QED
  BY <1>2, <1>3, <1>4, <1>5 DEF Receive, Authorize, Capture, Refund, Cancel

\* Every action of a handler.
LEMMA ActionKeeps ==
  ASSUME HandlerInv, NEW h \in Handlers, Receive(h) \/ Proceed(h) \/ Fail(h)
  PROVE  StepKeeps(h)
<1>1. CASE Receive(h) \/ Fail(h)
  BY <1>1, ReceiveKeeps, SharedEndsKeep
<1>2. CASE Proceed(h)
  BY <1>2, AuthorizeReadKeeps, BeginKeeps, ResumeKeeps, AuthorizeProviderKeeps,
     AuthorizeSaveKeeps, CaptureKeeps, RefundKeeps, CancelReadKeeps,
     SaveOnceKeeps, InboundReadKeeps, InboundKeeps, SharedEndsKeep
  DEF Proceed, CancelSave
<1> QED
  BY <1>1, <1>2

-----------------------------------------------------------------------------
(* The inductive invariant and what follows *)

\* None of the properties is inductive alone. What a handler remembers makes
\* its save right, the tables make its next read right, and the provider id of
\* the ledger needs that the ledger is never two transitions ahead.
PaymentInv == /\ HandlerInv
              /\ OneKeyPerTransition
              /\ ProviderDecides
              /\ LedgerJustified
              /\ LedgerProviderId
              /\ AnswerNamesPayment
              /\ AuthorizeAnswersDecision

\* Nothing is recorded, reached or answered at first.
LEMMA InitPaymentInv == Init => PaymentInv
<1> SUFFICES ASSUME Init PROVE PaymentInv
  OBVIOUS
<1>1. TypeInv
  BY InitTypeInv
<1>2. HistoryMatchesRow /\ LedgerPresent
  BY DEF Init, StoreInit, HistoryMatchesRow, HistoryOf, Exists, LedgerPresent,
         Decided
<1>3. HandlersRemember
  BY DEF Init, HandlersRemember, Remembers
<1>4. RecordsHaveEffect /\ OneKeyPerTransition
  BY DEF Init, StoreInit, RecordsHaveEffect, OneKeyPerTransition
<1>5. ProviderDecides /\ LedgerJustified /\ LedgerProviderId
  BY DEF Init, StoreInit, ProviderDecides, Exists, LedgerJustified,
         LedgerProviderId
<1>6. AnswerNamesPayment /\ AuthorizeAnswersDecision
  BY DEF Init, AnswerNamesPayment, AuthorizeAnswersDecision
<1> QED
  BY <1>1, <1>2, <1>3, <1>4, <1>5, <1>6 DEF PaymentInv, HandlerInv

\* What the tables say is kept by each of the five things.
LEMMA StepTables ==
  ASSUME PaymentInv, TableStep
  PROVE  /\ Forward
         /\ HistoryMatchesRow' /\ RecordsHaveEffect' /\ OneKeyPerTransition'
         /\ ProviderDecides' /\ LedgerPresent' /\ LedgerJustified'
         /\ LedgerProviderId'
<1>1. Forward
  BY StepForward DEF PaymentInv, HandlerInv
<1> QED
  BY <1>1, StepHistory, StepRecords, StepOneKey, StepProviderDecides,
     StepLedgerPresent, StepLedgerJustified, StepLedgerProviderId
  DEF PaymentInv, HandlerInv

\* What handlers remember and answer is kept by each action.
LEMMA StepHandlers ==
  ASSUME PaymentInv, Forward, Next
  PROVE  HandlersRemember' /\ AnswerNamesPayment' /\ AuthorizeAnswersDecision'
<1>1. PICK h \in Handlers : Receive(h) \/ Proceed(h) \/ Fail(h)
  BY DEF Next
<1>2. StepKeeps(h)
  BY <1>1, ActionKeeps DEF PaymentInv
<1>3. \A g \in Handlers \ {h} : pc'[g] = pc[g] /\ job'[g] = job[g]
  BY <1>1, ActionFits DEF PaymentInv, HandlerInv, TypeInv, StepFits
<1>4. \A g \in Handlers \ {h} : Remembers(g)'
  BY <1>3, BystanderRemembers DEF PaymentInv
<1> QED
  BY <1>2, <1>4 DEF StepKeeps, HandlersRemember

\* A step of the service keeps the invariant and takes nothing back.
LEMMA StepPaymentInv ==
  ASSUME PaymentInv, [Next]_vars
  PROVE  PaymentInv' /\ Forward
<1>1. TypeInv' /\ TableStep
  BY StepTypeInv DEF PaymentInv, HandlerInv
<1>2. HandlersRemember' /\ AnswerNamesPayment' /\ AuthorizeAnswersDecision'
  <2>1. CASE Next
    BY <1>1, <2>1, StepTables, StepHandlers
  <2>2. CASE UNCHANGED vars
    BY <2>2 DEF vars, tables, serviceVars, PaymentInv, HandlerInv, Exists, Reached,
                HandlersRemember, Remembers, Decided, Recorded,
                AnswerNamesPayment, AuthorizeAnswersDecision
  <2> QED
    BY <2>1, <2>2
<1> QED
  BY <1>1, <1>2, StepTables DEF PaymentInv, HandlerInv

\* The inductive invariant holds in every state of the service.
THEOREM PaymentInvariant == Spec => []PaymentInv
<1>1. PaymentInv /\ [Next]_vars => PaymentInv'
  BY StepPaymentInv
<1> QED
  BY InitPaymentInv, <1>1, PTL DEF Spec

\* What a handler read before its last access may be old, but not wrong.
THEOREM MemoryCorrect == Spec => []HandlersRemember
<1>1. PaymentInv => HandlersRemember
  BY DEF PaymentInv, HandlerInv
<1> QED
  BY PaymentInvariant, <1>1, PTL

\* A recorded key or provider event is never ahead of its effect.
THEOREM RecordsCorrect == Spec => []RecordsHaveEffect
<1>1. PaymentInv => RecordsHaveEffect
  BY DEF PaymentInv, HandlerInv
<1> QED
  BY PaymentInvariant, <1>1, PTL

\* No transition is paid for by two keys.
THEOREM KeysCorrect == Spec => []OneKeyPerTransition
<1>1. PaymentInv => OneKeyPerTransition
  BY DEF PaymentInv
<1> QED
  BY PaymentInvariant, <1>1, PTL

\* The provider's refusals hold, unless a provider event on record says
\* otherwise.
THEOREM ProviderCorrect == Spec => []ProviderDecides
<1>1. PaymentInv => ProviderDecides
  BY DEF PaymentInv
<1> QED
  BY PaymentInvariant, <1>1, PTL

\* A payment past processing has a ledger row.
THEOREM LedgerNeverBehind == Spec => []LedgerPresent
<1>1. PaymentInv => LedgerPresent
  BY DEF PaymentInv, HandlerInv
<1> QED
  BY PaymentInvariant, <1>1, PTL

\* The ledger is never more than one transition away from the payment.
THEOREM LedgerOneAhead == Spec => []LedgerJustified
<1>1. PaymentInv => LedgerJustified
  BY DEF PaymentInv
<1> QED
  BY PaymentInvariant, <1>1, PTL

\* Past authorized, the ledger's provider id is the payment's.
THEOREM LedgerIdCorrect == Spec => []LedgerProviderId
<1>1. PaymentInv => LedgerProviderId
  BY DEF PaymentInv
<1> QED
  BY PaymentInvariant, <1>1, PTL

\* A 200 names the payment the request is about.
THEOREM AnswersCorrect == Spec => []AnswerNamesPayment
<1>1. PaymentInv => AnswerNamesPayment
  BY DEF PaymentInv
<1> QED
  BY PaymentInvariant, <1>1, PTL

\* A 200 to authorize is a decision.
THEOREM DecisionsAnswered == Spec => []AuthorizeAnswersDecision
<1>1. PaymentInv => AuthorizeAnswersDecision
  BY DEF PaymentInv
<1> QED
  BY PaymentInvariant, <1>1, PTL

\* Once a payment has left processing its provider id does not change.
THEOREM ProviderIdCorrect == Spec => ProviderIdStable
<1>1. PaymentInv /\ [Next]_vars =>
        [\A p \in Payments :
           Decided(p) => payments'[p].pid = payments[p].pid]_vars
  BY StepPaymentInv DEF Forward
<1> QED
  BY PaymentInvariant, <1>1, PTL DEF Spec, ProviderIdStable
=============================================================================
