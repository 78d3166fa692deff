---------------------------- MODULE DeliveryQueue ----------------------------
(***************************************************************************)
(* What the delivery of the outbox promises, without workers or clocks. An *)
(* event is taken up again and again until the merchant took it or it was  *)
(* tried often enough. An attempt is in flight from the moment the event   *)
(* is taken up until its outcome is recorded or lost. While the lease of   *)
(* the attempt runs it is the only one; once the lease has lapsed the      *)
(* event may be taken up beside it, and what the late attempt records may  *)
(* undo what the others did. The merchant may get an event more than once. *)
(***************************************************************************)
EXTENDS Naturals

CONSTANTS Events, MaxAttempts

VARIABLES state,     \* state[e]: none, pending, delivered or failed
          tries,     \* tries[e]: the number of the last attempt on record
          taken,     \* taken[e]: the merchant got e
          flying,    \* flying[e]: the numbers of the attempts in flight
          leased     \* leased[e]: the one attempt in flight has its lease

queueVars == <<state, tries, taken, flying, leased>>

QueueInit ==
  /\ state = [e \in Events |-> "none"]
  /\ tries = [e \in Events |-> 0]
  /\ taken = [e \in Events |-> FALSE]
  /\ flying = [e \in Events |-> {}]
  /\ leased = [e \in Events |-> FALSE]

Offer(e) ==
  /\ state[e] = "none"
  /\ state' = [state EXCEPT ![e] = "pending"]
  /\ UNCHANGED <<tries, taken, flying, leased>>

\* Several events may be taken up at once, none of which is leased. Beside an
\* attempt that is late the new one is not the only one.
TakeUp(batch) ==
  /\ \A e \in batch : state[e] = "pending" /\ ~leased[e]
  /\ tries' = [e \in Events |-> IF e \in batch THEN tries[e] + 1 ELSE tries[e]]
  /\ flying' = [e \in Events |->
       IF e \in batch THEN flying[e] \cup {tries[e] + 1} ELSE flying[e]]
  /\ leased' = [e \in Events |->
       IF e \in batch THEN flying[e] = {} ELSE leased[e]]
  /\ UNCHANGED <<state, taken>>

Lapse(e) ==
  /\ leased[e]
  /\ leased' = [leased EXCEPT ![e] = FALSE]
  /\ UNCHANGED <<state, tries, taken, flying>>

Arrive(e) ==
  /\ flying[e] # {}
  /\ taken' = [taken EXCEPT ![e] = TRUE]
  /\ UNCHANGED <<state, tries, flying, leased>>

\* What attempt n at e may make of e.
Outcomes(e, n) ==
  {s \in {"pending", "delivered", "failed"} :
     /\ s = "delivered" => taken[e]
     /\ s = "failed" => n >= MaxAttempts
     /\ s = "pending" => n < MaxAttempts}

\* The outcome of the one attempt that has its lease.
Land(e) ==
  /\ leased[e]
  /\ \E s \in Outcomes(e, tries[e]) : state' = [state EXCEPT ![e] = s]
  /\ flying' = [flying EXCEPT ![e] = {}]
  /\ leased' = [leased EXCEPT ![e] = FALSE]
  /\ UNCHANGED <<tries, taken>>

\* The one attempt in flight is the last one on record, of an unsettled event.
Alone(e) == state[e] = "pending" /\ flying[e] = {tries[e]}

\* The outcome of a late attempt takes effect whatever became of e, and sets
\* the number on record back to its own. Another late attempt may have the
\* same number; the last one in flight may still have its lease.
LandLate(e, n) ==
  /\ ~leased[e]
  /\ n \in flying[e]
  /\ \E s \in Outcomes(e, n) : state' = [state EXCEPT ![e] = s]
  /\ tries' = [tries EXCEPT ![e] = n]
  /\ \E left \in {flying[e], flying[e] \ {n}} :
       flying' = [flying EXCEPT ![e] = left]
  /\ \E again \in BOOLEAN : leased' = [leased EXCEPT ![e] = again]
  /\ leased'[e] => Alone(e)'
  /\ UNCHANGED taken

\* One attempt at each event of the batch ends without an outcome.
Lose(batch) ==
  /\ flying' \in [Events -> SUBSET Nat]
  /\ leased' \in [Events -> BOOLEAN]
  /\ \A e \in Events \ batch : flying'[e] = flying[e] /\ leased'[e] = leased[e]
  /\ \A e \in batch :
       /\ \E n \in flying[e] : flying'[e] \in {flying[e], flying[e] \ {n}}
       /\ leased[e] => flying'[e] = {}
       /\ leased'[e] => ~leased[e] /\ Alone(e)'
  /\ UNCHANGED <<state, tries, taken>>

QueueNext ==
  \/ \E e \in Events :
       \/ Offer(e) \/ Lapse(e) \/ Arrive(e) \/ Land(e)
       \/ \E n \in flying[e] : LandLate(e, n)
  \/ \E batch \in SUBSET Events : TakeUp(batch) \/ Lose(batch)

QueueSpec == QueueInit /\ [][QueueNext]_queueVars

-----------------------------------------------------------------------------
\* While a lease runs its attempt is the only one in flight.
LeaseIsSole == \A e \in Events : leased[e] => Alone(e)

\* An outcome is undone, or the number on record falls, only while an attempt
\* without a lease is in flight.
OnlyLateUndoes ==
  [][\A e \in Events :
       \/ state[e] \in {"delivered", "failed"} /\ state'[e] # state[e]
       \/ tries'[e] < tries[e]
       => flying[e] # {} /\ ~leased[e]]_queueVars
=============================================================================
