------------------------ MODULE ReconciliationProofs ------------------------
(***************************************************************************)
(* Proofs, for any number of payments, handlers and rounds, of what the    *)
(* reconciliation records beside a service that goes on moving payments.   *)
(***************************************************************************)
EXTENDS Reconciliation, PaymentInvariantProofs

\* A pair that may be reported, at whatever times its two halves were read.
Justified(m) ==
  /\ m[3] # "missing"
  /\ Reached(m[1], m[2])
  /\ Reached(m[1], Before(m[3]))

\* What the worker holds between two statements is old, but not wrong: neither
\* reading nor reporting is safe without what the service never takes back.
ReconMemory ==
  /\ \A p \in Payments : seen[p] # None => Reached(p, seen[p])
  /\ \A m \in mismatches \cup discrepancies : Justified(m)

ReconInv == PaymentInv /\ ReconTypeOK /\ ReconMemory

ReconNext == \/ Next /\ UNCHANGED reconVars
             \/ ReconStep /\ UNCHANGED vars

-----------------------------------------------------------------------------
\* What the worker holds and recorded stays justified while payments move:
\* they keep what they reached.
LEMMA ServiceStepKeeps ==
  ASSUME ReconTypeOK, ReconMemory, Forward, UNCHANGED reconVars
  PROVE  ReconTypeOK' /\ ReconMemory'
<1>1. ReconTypeOK'
  BY DEF reconVars, ReconTypeOK
<1>2. (\A p \in Payments : seen[p] # None => Reached(p, seen[p]))'
  BY DEF reconVars, ReconMemory, Forward
<1>3. \A m \in Mismatch : Justified(m) => Justified(m)'
  BY DEF Mismatch, Justified, Forward
<1>4. \A m \in mismatches' \cup discrepancies' : Justified(m)'
  BY <1>3 DEF reconVars, ReconMemory, ReconTypeOK
<1> QED
  BY <1>1, <1>2, <1>4 DEF ReconMemory

\* What the ledger shows when it is read justifies every pair that FindMismatches
\* makes with statuses that were read before: a status past processing had its
\* ledger row then, and the row is still there.
LEMMA FoundIsJustified ==
  ASSUME PaymentInv, NEW statuses \in [Payments -> Statuses \cup {None}],
         \A p \in Payments : statuses[p] # None => Reached(p, statuses[p]),
         NEW m \in FindMismatches(statuses)
  PROVE  m \in Mismatch /\ Justified(m)
<1>1. PICK p \in Payments :
        /\ ~Skipped(p, statuses[p])
        /\ m = <<p, statuses[p], ProviderStatus(p)>>
  BY DEF FindMismatches
<1> DEFINE internal == statuses[p]
<1>2. /\ internal \in Statuses \ {"requires_payment"}
      /\ internal # ProviderStatus(p)
      /\ internal = "processing" => ledger[p] # None
      /\ Reached(p, internal)
  BY <1>1 DEF Skipped
<1>3. ledger[p] # None
  <2>1. CASE internal = "processing"
    BY <1>2, <2>1
  <2>2. CASE internal # "processing"
    <3>1. Decided(p)
      BY <1>2, <2>2, ReachedDecided
      DEF PaymentInv, HandlerInv, TypeInv, HistoryMatchesRow
    <3> QED
      BY <3>1 DEF PaymentInv, HandlerInv, LedgerPresent
  <2> QED
    BY <2>1, <2>2
<1>4. ledger[p].status \in Statuses
  BY <1>3 DEF PaymentInv, HandlerInv, TypeInv, TypeOK, StoreTypeOK, LedgerRow
<1>5. ProviderStatus(p) = ledger[p].status
  BY <1>3 DEF ProviderStatus
<1>6. Reached(p, Before(ledger[p].status))
  BY <1>3 DEF PaymentInv, LedgerJustified
<1>7. ledger[p].status # "missing"
  BY <1>4 DEF Statuses
<1> QED
  BY <1>1, <1>2, <1>4, <1>5, <1>6, <1>7 DEF Mismatch, Justified

\* Each statement of the worker keeps what it holds and records justified.
LEMMA ReconStepKeeps ==
  ASSUME ReconInv, ReconStep, UNCHANGED vars
  PROVE  ReconTypeOK' /\ ReconMemory'
<1> USE DEF ReconInv
<1>1. \A p \in Payments : \A s : Reached(p, s)' <=> Reached(p, s)
  BY DEF vars, tables, Reached
<1>2. \A m \in Mismatch : Justified(m)' <=> Justified(m)
  BY <1>1 DEF Mismatch, Justified
<1>3. CASE ReadPayments
  <2>1. seen' \in [Payments -> Statuses \cup {None}]
    BY <1>3 DEF ReadPayments, PaymentInv, HandlerInv, TypeInv, TypeOK,
                StoreTypeOK, Row, Exists
  <2>2. ASSUME NEW p \in Payments, seen'[p] # None
        PROVE  Reached(p, seen'[p])
    <3>1. Exists(p) /\ seen'[p] = payments[p].status
      BY <1>3, <2>2 DEF ReadPayments
    <3> QED
      BY <3>1, CurrentReached
      DEF PaymentInv, HandlerInv, TypeInv, HistoryMatchesRow
  <2> QED
    BY <1>1, <1>2, <1>3, <2>1, <2>2 DEF ReadPayments, ReconTypeOK, ReconMemory
<1>4. CASE ReadLedger
  <2>1. \A m \in mismatches' : m \in Mismatch /\ Justified(m)
    BY <1>4, FoundIsJustified DEF ReadLedger, ReconTypeOK, ReconMemory
  <2> QED
    BY <1>2, <1>4, <2>1 DEF ReadLedger, ReconTypeOK, ReconMemory
<1>5. ASSUME NEW m \in mismatches, RecordMismatch(m)
      PROVE  ReconTypeOK' /\ ReconMemory'
  BY <1>1, <1>2, <1>5 DEF RecordMismatch, ReconTypeOK, ReconMemory
<1>6. CASE EndRound
  BY <1>1, <1>2, <1>6 DEF EndRound, ReconTypeOK, ReconMemory
<1>7. CASE AbortRound
  BY <1>1, <1>2, <1>7 DEF AbortRound, ReconTypeOK, ReconMemory
<1> QED
  BY <1>3, <1>4, <1>5, <1>6, <1>7 DEF ReconStep

-----------------------------------------------------------------------------
\* The invariant of the service and of the worker beside it holds in every
\* state they reach together.
THEOREM ReconInvariant == ReconSpec => []ReconInv
<1>1. Init /\ ReconInit => ReconInv
  BY InitPaymentInv DEF ReconInit, ReconInv, ReconTypeOK, ReconMemory
<1>2. ReconInv /\ [ReconNext]_allVars => ReconInv'
  <2> SUFFICES ASSUME ReconInv, [ReconNext]_allVars
               PROVE  ReconInv'
    OBVIOUS
  <2>1. CASE Next /\ UNCHANGED reconVars
    BY <2>1, StepPaymentInv, ServiceStepKeeps DEF ReconInv
  <2>2. CASE ReconStep /\ UNCHANGED vars
    BY <2>2, StepPaymentInv, ReconStepKeeps DEF ReconInv
  <2>3. CASE UNCHANGED allVars
    BY <2>3, StepPaymentInv, ServiceStepKeeps DEF allVars, ReconInv
  <2> QED
    BY <2>1, <2>2, <2>3 DEF ReconNext
<1> QED
  BY <1>1, <1>2, PTL DEF ReconSpec, ReconNext

\* Every variable of the worker keeps its type: it records only pairs that
\* differ, of payments somebody began to authorize.
THEOREM ReconTypeCorrect == ReconSpec => []ReconTypeOK
BY ReconInvariant, PTL DEF ReconInv

\* No payment is ever reported as missing at the provider.
THEOREM NeverMissing == ReconSpec => []MissingNeverReported
<1>1. ReconInv => MissingNeverReported
  BY DEF ReconInv, ReconMemory, Justified, MissingNeverReported
<1> QED
  BY <1>1, ReconInvariant, PTL

\* A discrepancy never accuses a payment of what could not have been, although
\* its two halves were read at different times.
THEOREM DiscrepanciesCorrect == ReconSpec => []DiscrepanciesJustified
<1>1. ReconInv => DiscrepanciesJustified
  BY DEF ReconInv, ReconTypeOK, ReconMemory, Justified, Mismatch,
         DiscrepanciesJustified
<1> QED
  BY <1>1, ReconInvariant, PTL

\* The service beside the worker is the service alone.
THEOREM ReconServes == ReconSpec => Spec
<1>1. [ReconNext]_allVars => [Next]_vars
  BY DEF ReconNext, allVars
<1> QED
  BY <1>1, PTL DEF ReconSpec, ReconNext, Spec
=============================================================================
