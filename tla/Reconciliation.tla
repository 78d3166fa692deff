--------------------------- MODULE Reconciliation ---------------------------
(***************************************************************************)
(* The reconciliation worker (internal/recon) beside the payment service:  *)
(* round after round it reads the payments, then the provider's ledger,    *)
(* and records every pair of statuses that differ. The two reads are       *)
(* statements of their own: payments may move between them.                *)
(***************************************************************************)
EXTENDS PaymentProperties

VARIABLES reconPc,       \* the worker's next statement
          seen,          \* seen[p]: the status it read, None if p had no row
          mismatches,    \* what it found in this round and has not recorded
          discrepancies  \* the table, unique on (payment, internal, provider)

reconVars == <<reconPc, seen, mismatches, discrepancies>>
allVars == <<vars, reconVars>>

\* A payment, its status and the provider's.
Mismatch == {m \in Payments \X Statuses \X (Statuses \cup {"missing"}) :
               m[2] # m[3] /\ m[2] # "requires_payment"}

ReconInit ==
  /\ reconPc = "payments"
  /\ seen = [p \in Payments |-> None]
  /\ mismatches = {}
  /\ discrepancies = {}

\* The status the ledger has for a payment.
ProviderStatus(p) == IF ledger[p] = None THEN "missing" ELSE ledger[p].status

\* Mutant of Skipped: a payment nobody authorized yet is not skipped.
Skipped_NeverFirst(p, internal) ==
  \/ internal \in {None, ProviderStatus(p)}
  \/ internal = "processing" /\ ledger[p] = None

\* Mutant of Skipped: a payment in processing is not skipped.
Skipped_NeverProcessing(p, internal) ==
  internal \in {None, "requires_payment", ProviderStatus(p)}

\* Mutant of Skipped: a payment in processing is always skipped.
Skipped_Processing(p, internal) ==
  internal \in {None, "requires_payment", "processing", ProviderStatus(p)}

\* The payments FindMismatches passes over.
Skipped(p, internal) ==
  \/ internal \in {None, "requires_payment", ProviderStatus(p)}
  \/ internal = "processing" /\ ledger[p] = None

FindMismatches(statuses) ==
  {<<p, statuses[p], ProviderStatus(p)>> :
     p \in {q \in Payments : ~Skipped(q, statuses[q])}}

ReadPayments ==
  /\ reconPc = "payments"
  /\ seen' = [p \in Payments |-> IF Exists(p) THEN payments[p].status ELSE None]
  /\ reconPc' = "ledger"
  /\ UNCHANGED <<mismatches, discrepancies>>

ReadLedger ==
  /\ reconPc = "ledger"
  /\ mismatches' = FindMismatches(seen)
  /\ seen' = [p \in Payments |-> None]
  /\ reconPc' = "record"
  /\ UNCHANGED discrepancies

\* One INSERT; a pair that is there already is passed over.
RecordMismatch(m) ==
  /\ reconPc = "record"
  /\ discrepancies' = discrepancies \cup {m}
  /\ mismatches' = mismatches \ {m}
  /\ UNCHANGED <<reconPc, seen>>

EndRound ==
  /\ reconPc = "record"
  /\ mismatches = {}
  /\ reconPc' = "payments"
  /\ UNCHANGED <<seen, mismatches, discrepancies>>

\* A database error or the death of the worker ends the round.
AbortRound ==
  /\ reconPc # "payments"
  /\ reconPc' = "payments"
  /\ seen' = [p \in Payments |-> None]
  /\ mismatches' = {}
  /\ UNCHANGED discrepancies

ReconStep ==
  \/ ReadPayments \/ ReadLedger \/ EndRound \/ AbortRound
  \/ \E m \in mismatches : RecordMismatch(m)

ReconSpec ==
  /\ Init /\ ReconInit
  /\ [][\/ Next /\ UNCHANGED reconVars
        \/ ReconStep /\ UNCHANGED vars]_allVars

\* The worker runs, and does not fail at the same statement every round.
ReconFairness ==
  /\ WF_allVars(ReadPayments /\ UNCHANGED vars)
  /\ SF_allVars(ReadLedger /\ UNCHANGED vars)
  /\ WF_allVars(EndRound /\ UNCHANGED vars)
  /\ \A p \in Payments :
       SF_allVars((\E m \in mismatches : m[1] = p /\ RecordMismatch(m))
                  /\ UNCHANGED vars)

FairReconSpec == ReconSpec /\ ReconFairness

-----------------------------------------------------------------------------
\* Every variable has its type: only different statuses are ever reported, and
\* of payments somebody began to authorize.
ReconTypeOK ==
  /\ reconPc \in {"payments", "ledger", "record"}
  /\ seen \in [Payments -> Statuses \cup {None}]
  /\ mismatches \subseteq Mismatch
  /\ discrepancies \subseteq Mismatch

\* No payment is ever reported as missing at the provider: between the two
\* reads the ledger only gains rows, and a payment past processing had one
\* when it was read.
MissingNeverReported ==
  \A m \in discrepancies : m[3] # "missing"

\* A discrepancy never accuses a payment of what could not have been: the
\* internal status is one the payment had, and the provider's is one whose
\* predecessor the payment had, although the two were read at different times.
DiscrepanciesJustified ==
  \A m \in discrepancies :
    /\ Reached(m[1], m[2])
    /\ m[3] # "missing" => Reached(m[1], Before(m[3])) /\ m[3] # m[2]

\* The statuses on which the payment and the ledger disagree at this moment.
Disagreement(p) ==
  IF /\ Exists(p)
     /\ ledger[p] # None
     /\ ledger[p].status # payments[p].status
  THEN {<<p, payments[p].status, ledger[p].status>>}
  ELSE {}

\* A disagreement that lasts, such as the one a handler leaves that died after
\* it wrote the ledger, is recorded however often rounds fail.
LastingMismatchRecorded ==
  \A p \in Payments : []<>(Disagreement(p) \subseteq discrepancies)
=============================================================================
