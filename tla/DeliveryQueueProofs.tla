-------------------------- MODULE DeliveryQueueProofs --------------------------
(***************************************************************************)
(* What follows from the abstract queue alone, and so holds for everything *)
(* that implements it: leases exclude each other's attempts, and outcomes  *)
(* are final as long as no late attempt is in flight.                      *)
(***************************************************************************)
EXTENDS DeliveryQueue, TLAPS

QueueTypeOK ==
  /\ state \in [Events -> {"none", "pending", "delivered", "failed"}]
  /\ tries \in [Events -> Nat]
  /\ taken \in [Events -> BOOLEAN]
  /\ flying \in [Events -> SUBSET Nat]
  /\ leased \in [Events -> BOOLEAN]

QueueInv == QueueTypeOK /\ LeaseIsSole

LEMMA TypeKept ==
  ASSUME QueueTypeOK, [QueueNext]_queueVars
  PROVE  QueueTypeOK'
<1> USE DEF QueueTypeOK
<1>1. ASSUME NEW e \in Events, Offer(e)
      PROVE  QueueTypeOK'
  BY <1>1 DEF Offer
<1>2. ASSUME NEW e \in Events, Lapse(e)
      PROVE  QueueTypeOK'
  BY <1>2 DEF Lapse
<1>3. ASSUME NEW e \in Events, Arrive(e)
      PROVE  QueueTypeOK'
  BY <1>3 DEF Arrive
<1>4. ASSUME NEW e \in Events, Land(e)
      PROVE  QueueTypeOK'
  BY <1>4 DEF Land, Outcomes
<1>5. ASSUME NEW e \in Events, NEW n \in flying[e], LandLate(e, n)
      PROVE  QueueTypeOK'
  BY <1>5 DEF LandLate, Outcomes
<1>6. ASSUME NEW batch \in SUBSET Events, TakeUp(batch)
      PROVE  QueueTypeOK'
  <2>1. leased' \in [Events -> BOOLEAN]
    <3>1. \A e \in Events :
            (IF e \in batch THEN flying[e] = {} ELSE leased[e]) \in BOOLEAN
      OBVIOUS
    <3> QED
      BY <1>6, <3>1, Zenon DEF TakeUp
  <2>2. /\ tries' \in [Events -> Nat]
        /\ flying' \in [Events -> SUBSET Nat]
    BY <1>6 DEF TakeUp
  <2> QED
    BY <1>6, <2>1, <2>2 DEF TakeUp
<1>7. ASSUME NEW batch \in SUBSET Events, Lose(batch)
      PROVE  QueueTypeOK'
  BY <1>7 DEF Lose
<1>8. CASE UNCHANGED queueVars
  BY <1>8 DEF queueVars
<1> QED
  BY <1>1, <1>2, <1>3, <1>4, <1>5, <1>6, <1>7, <1>8 DEF QueueNext

LEMMA SoleKept ==
  ASSUME QueueInv, [QueueNext]_queueVars
  PROVE  LeaseIsSole'
<1> USE DEF QueueInv, QueueTypeOK, LeaseIsSole, Alone
<1>1. ASSUME NEW e \in Events, Offer(e)
      PROVE  LeaseIsSole'
  BY <1>1 DEF Offer
<1>2. ASSUME NEW e \in Events, Lapse(e)
      PROVE  LeaseIsSole'
  BY <1>2 DEF Lapse
<1>3. ASSUME NEW e \in Events, Arrive(e)
      PROVE  LeaseIsSole'
  BY <1>3 DEF Arrive
<1>4. ASSUME NEW e \in Events, Land(e)
      PROVE  LeaseIsSole'
  BY <1>4 DEF Land
<1>5. ASSUME NEW e \in Events, NEW n \in flying[e], LandLate(e, n)
      PROVE  LeaseIsSole'
  BY <1>5 DEF LandLate
<1>6. ASSUME NEW batch \in SUBSET Events, TakeUp(batch)
      PROVE  LeaseIsSole'
  BY <1>6 DEF TakeUp
<1>7. ASSUME NEW batch \in SUBSET Events, Lose(batch)
      PROVE  LeaseIsSole'
  BY <1>7 DEF Lose
<1>8. CASE UNCHANGED queueVars
  BY <1>8 DEF queueVars
<1> QED
  BY <1>1, <1>2, <1>3, <1>4, <1>5, <1>6, <1>7, <1>8 DEF QueueNext

\* While the lease of an attempt runs no other is in flight, the event is not
\* settled, and the attempt has the number on record: the lease in claim
\* (worker.go) excludes other workers until it lapses.
THEOREM QueueInvariant == QueueSpec => []QueueInv
<1>1. QueueInit => QueueInv
  BY DEF QueueInit, QueueInv, QueueTypeOK, LeaseIsSole
<1>2. QueueInv /\ [QueueNext]_queueVars => QueueInv'
  BY TypeKept, SoleKept DEF QueueInv
<1> QED
  BY <1>1, <1>2, PTL DEF QueueSpec

\* The finish of a worker whose lease holds never undoes what another recorded,
\* nor lowers the number of attempts: only an attempt without a lease can.
THEOREM OutcomesStand == QueueSpec => OnlyLateUndoes
<1>1. ASSUME QueueInv, [QueueNext]_queueVars, NEW e \in Events,
             \/ state[e] \in {"delivered", "failed"} /\ state'[e] # state[e]
             \/ tries'[e] < tries[e]
      PROVE  flying[e] # {} /\ ~leased[e]
  <2> USE <1>1 DEF QueueInv, QueueTypeOK
  <2>1. ASSUME NEW f \in Events, Offer(f)
        PROVE  FALSE
    BY <2>1 DEF Offer
  <2>2. ASSUME NEW f \in Events, Lapse(f) \/ Arrive(f)
        PROVE  FALSE
    BY <2>2 DEF Lapse, Arrive
  <2>3. ASSUME NEW f \in Events, Land(f)
        PROVE  FALSE
    BY <2>3 DEF Land, LeaseIsSole, Alone
  <2>4. ASSUME NEW f \in Events, NEW n \in flying[f], LandLate(f, n)
        PROVE  flying[e] # {} /\ ~leased[e]
    BY <2>4 DEF LandLate
  <2>5. ASSUME NEW batch \in SUBSET Events, TakeUp(batch)
        PROVE  FALSE
    BY <2>5 DEF TakeUp
  <2>6. ASSUME NEW batch \in SUBSET Events, Lose(batch)
        PROVE  FALSE
    BY <2>6 DEF Lose
  <2>7. CASE UNCHANGED queueVars
    BY <2>7 DEF queueVars
  <2> QED
    BY <2>1, <2>2, <2>3, <2>4, <2>5, <2>6, <2>7 DEF QueueNext
<1>2. QueueInv /\ [QueueNext]_queueVars =>
        [\A e \in Events :
           \/ state[e] \in {"delivered", "failed"} /\ state'[e] # state[e]
           \/ tries'[e] < tries[e]
           => flying[e] # {} /\ ~leased[e]]_queueVars
  BY <1>1
<1> QED
  BY <1>2, QueueInvariant, PTL DEF QueueSpec, OnlyLateUndoes
=============================================================================
