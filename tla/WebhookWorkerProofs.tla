------------------------- MODULE WebhookWorkerProofs -------------------------
(***************************************************************************)
(* Proofs, for any number of events, workers, attempts and drops, of the   *)
(* safety properties of WebhookWorker, that the workers implement the      *)
(* queue, and of what the queue promises of leases and outcomes.           *)
(***************************************************************************)
EXTENDS WebhookWorker, FiniteSetTheorems, TLAPS

\* The claims of e that were tried, died with their worker, or are held.
Spent(e) == tried[e] + dropped[e] + Cardinality(Holders(e))

\* What the row of e, and each worker that holds it, count is no more than the
\* claims there were; beyond MaxAttempts outcomes nothing need be counted.
Counted(e) ==
  /\ IsFiniteSet(Holders(e))
  /\ status[e] = "none" => attempts[e] = 0 /\ Holders(e) = {}
  /\ tried[e] < MaxAttempts => /\ attempts[e] <= Spent(e)
                               /\ \A w \in Workers : held[w][e] <= Spent(e)

GivenUp(e) == status[e] = "failed" => Spent(e) >= MaxAttempts

Overrun(e) ==
  status[e] = "pending" /\ attempts[e] >= MaxAttempts =>
    dropped[e] + Cardinality(Holders(e)) > attempts[e] - MaxAttempts

EventInv(e) == Counted(e) /\ GivenUp(e) /\ Overrun(e)

\* An answer that a worker holds with a 2xx is of a merchant that took the
\* event.
AnswerInv ==
  \A w \in Workers : answer[w] # None /\ answer[w].ok => taken[answer[w].event]

WorkerInv ==
  /\ WorkerTypeOK
  /\ AnswerInv
  /\ DeliveredWasTaken
  /\ \A e \in Events : EventInv(e)

-----------------------------------------------------------------------------
(* Counting the workers that hold an event *)

\* One worker takes up an event or lets go of it: the number of its holders
\* changes by one.
LEMMA OneHolder ==
  ASSUME WorkerTypeOK, NEW e \in Events, IsFiniteSet(Holders(e)),
         NEW w \in Workers, held'[w][e] \in Nat,
         \A v \in Workers \ {w} : held'[v][e] = held[v][e]
  PROVE  /\ IsFiniteSet(Holders(e)')
         /\ Cardinality(Holders(e)) \in Nat
         /\ Cardinality(Holders(e)') \in Nat
         /\ Holds(w, e) => Cardinality(Holders(e)) > 0
         /\ Holds(w, e) <=> held'[w][e] > 0
              => Cardinality(Holders(e)') = Cardinality(Holders(e))
         /\ ~Holds(w, e) /\ held'[w][e] > 0
              => Cardinality(Holders(e)') = Cardinality(Holders(e)) + 1
         /\ Holds(w, e) /\ held'[w][e] = 0
              => Cardinality(Holders(e)') = Cardinality(Holders(e)) - 1
<1> DEFINE now  == Holders(e)
           then == {v \in Workers : held'[v][e] > 0}
           rest == now \ {w}
<1>1. /\ held \in [Workers -> [Events -> Nat]]
      /\ then = Holders(e)'
  BY DEF WorkerTypeOK, Holders, Holds
<1>2. /\ w \notin rest
      /\ Holds(w, e) => now = rest \cup {w}
      /\ ~Holds(w, e) => now = rest
      /\ held'[w][e] > 0 => then = rest \cup {w}
      /\ held'[w][e] = 0 => then = rest
  BY DEF Holders, Holds
<1>3. IsFiniteSet(now)
  OBVIOUS
<1> HIDE DEF now, then
<1>4. IsFiniteSet(rest)
  BY <1>3, FS_RemoveElement
<1> HIDE DEF rest
<1>5. /\ IsFiniteSet(rest \cup {w})
      /\ Cardinality(rest \cup {w}) = Cardinality(rest) + 1
  BY <1>2, <1>4, FS_AddElement
<1>6. Cardinality(rest) \in Nat
  BY <1>4, FS_CardinalityType
<1>7. \/ /\ Holds(w, e)
         /\ Cardinality(now) = Cardinality(rest) + 1
      \/ /\ ~Holds(w, e)
         /\ Cardinality(now) = Cardinality(rest)
  BY <1>2, <1>5
<1>8. \/ /\ held'[w][e] > 0
         /\ IsFiniteSet(then)
         /\ Cardinality(then) = Cardinality(rest) + 1
      \/ /\ held'[w][e] = 0
         /\ IsFiniteSet(then)
         /\ Cardinality(then) = Cardinality(rest)
  BY <1>2, <1>4, <1>5
<1>9. /\ Holders(e) = now
      /\ Holders(e)' = then
  BY <1>1 DEF now
<1> QED
  BY <1>6, <1>7, <1>8, <1>9

\* An event whose row and holders a step leaves alone keeps its invariant.
LEMMA Untouched ==
  ASSUME NEW e \in Events, EventInv(e),
         status'[e] = status[e], attempts'[e] = attempts[e],
         tried'[e] = tried[e], dropped'[e] = dropped[e],
         \A v \in Workers : held'[v][e] = held[v][e]
  PROVE  EventInv(e)'
<1>1. Holders(e)' = Holders(e)
  BY DEF Holders, Holds
<1>2. Cardinality(Holders(e))' = Cardinality(Holders(e))
  BY <1>1
<1>3. Spent(e)' = Spent(e)
  BY <1>2 DEF Spent
<1> QED
  BY <1>1, <1>2, <1>3 DEF EventInv, Counted, GivenUp, Overrun

-----------------------------------------------------------------------------
(* Types *)

\* A claim is made by a worker that holds nothing, so that its answer, if it
\* had one, would be for no event.
LEMMA ClaimType ==
  ASSUME WorkerAssumption, WorkerTypeOK, NEW w \in Workers,
         NEW batch \in SUBSET Events, Claim(w, batch)
  PROVE  WorkerTypeOK'
<1>1. /\ attempts' \in [Events -> Nat]
      /\ due' \in [Events -> BOOLEAN]
      /\ held' \in [Workers -> [Events -> Nat]]
  BY DEF Claim, WorkerTypeOK
<1>2. answer[w] = None
  BY DEF Claim, WorkerTypeOK
<1>3. \A v \in Workers : answer'[v] # None => Holds(v, answer[v].event)'
  <2> SUFFICES ASSUME NEW v \in Workers, answer'[v] # None
               PROVE  Holds(v, answer[v].event)'
    OBVIOUS
  <2>1. v # w /\ answer'[v] = answer[v]
    BY <1>2 DEF Claim
  <2>2. held'[v] = held[v]
    BY <2>1 DEF Claim, WorkerTypeOK
  <2> QED
    BY <2>1, <2>2 DEF WorkerTypeOK, Holds
<1> QED
  BY <1>1, <1>3 DEF Claim, WorkerTypeOK, history

\* A delivery leaves its worker with an answer for an event it holds.
LEMMA DeliverType ==
  ASSUME WorkerTypeOK, NEW w \in Workers, NEW e \in Events, Deliver(w, e)
  PROVE  WorkerTypeOK'
<1> USE DEF WorkerTypeOK
<1>1. PICK took \in BOOLEAN, ok \in BOOLEAN :
        /\ taken' = [taken EXCEPT ![e] = @ \/ took]
        /\ answer' = [answer EXCEPT ![w] = [event |-> e, ok |-> ok]]
  BY DEF Deliver
<1>2. taken' \in [Events -> BOOLEAN]
  BY <1>1
<1>3. answer' \in [Workers -> [event : Events, ok : BOOLEAN] \cup {None}]
  BY <1>1
<1>4. \A v \in Workers : answer'[v] # None => Holds(v, answer[v].event)'
  <2> SUFFICES ASSUME NEW v \in Workers, answer'[v] # None
               PROVE  Holds(v, answer[v].event)'
    OBVIOUS
  <2>1. held' = held
    BY DEF Deliver
  <2>2. CASE v = w
    BY <1>1, <2>1, <2>2 DEF Deliver, Holds
  <2>3. CASE v # w
    BY <1>1, <2>1, <2>3 DEF Holds
  <2> QED
    BY <2>2, <2>3
<1> QED
  BY <1>2, <1>3, <1>4 DEF Deliver, rowVars

\* What a worker writes is a row of the right type, and it has no answer then.
LEMMA FinishType ==
  ASSUME WorkerAssumption, WorkerTypeOK, NEW w \in Workers, Finish(w)
  PROVE  WorkerTypeOK'
<1> USE DEF WorkerTypeOK
<1> DEFINE e == answer[w].event
           n == held[w][e]
           s == IF answer[w].ok THEN "delivered" ELSE AfterFailure(n)
<1>1. /\ answer[w] # None
      /\ status' = [status EXCEPT ![e] = s]
      /\ attempts' = [attempts EXCEPT ![e] = n]
      /\ due' = [due EXCEPT ![e] = s # "pending"]
      /\ held' = [held EXCEPT ![w][e] = 0]
      /\ tried' = [tried EXCEPT ![e] = IF @ < MaxAttempts THEN @ + 1 ELSE @]
      /\ answer' = [answer EXCEPT ![w] = None]
      /\ UNCHANGED <<taken, dropped>>
  BY DEF Finish
<1>2. e \in Events /\ n \in Nat
  BY <1>1
<1>3. s \in EventStatuses
  BY DEF AfterFailure, EventStatuses
<1> HIDE DEF s, n, e
<1>4. /\ status' \in [Events -> EventStatuses]
      /\ attempts' \in [Events -> Nat]
      /\ due' \in [Events -> BOOLEAN]
      /\ held' \in [Workers -> [Events -> Nat]]
      /\ answer' \in [Workers -> [event : Events, ok : BOOLEAN] \cup {None}]
  BY <1>1, <1>2, <1>3
<1>5. tried' \in [Events -> 0..MaxAttempts]
  <2>1. (IF tried[e] < MaxAttempts THEN tried[e] + 1 ELSE tried[e]) \in 0..MaxAttempts
    BY <1>2 DEF WorkerAssumption
  <2> QED
    BY <1>1, <2>1
<1>6. \A v \in Workers : answer'[v] # None => Holds(v, answer[v].event)'
  BY <1>1 DEF Holds
<1> QED
  BY <1>1, <1>4, <1>5, <1>6

\* A worker that lets its batch go has no answer either.
LEMMA DropType ==
  ASSUME WorkerAssumption, WorkerTypeOK, NEW w \in Workers, Drop(w)
  PROVE  WorkerTypeOK'
<1> USE DEF WorkerTypeOK
<1>1. dropped' \in [Events -> 0..MaxDrops]
  BY DEF Drop, WorkerAssumption
<1>2. /\ held' \in [Workers -> [Events -> Nat]]
      /\ answer' \in [Workers -> [event : Events, ok : BOOLEAN] \cup {None}]
  BY DEF Drop
<1>3. \A v \in Workers : answer'[v] # None => Holds(v, answer[v].event)'
  BY DEF Drop, Holds
<1> QED
  BY <1>1, <1>2, <1>3 DEF Drop, rowVars

\* Every step keeps the types.
LEMMA TypeKept ==
  ASSUME WorkerAssumption, WorkerTypeOK, [WorkerNext]_workerVars
  PROVE  WorkerTypeOK'
<1>1. ASSUME NEW e \in Events, Enqueue(e)
      PROVE  WorkerTypeOK'
  BY <1>1 DEF WorkerTypeOK, Enqueue, EventStatuses, history, Holds
<1>2. ASSUME NEW e \in Events, Elapse(e)
      PROVE  WorkerTypeOK'
  BY <1>2 DEF WorkerTypeOK, Elapse, history, Holds
<1>3. CASE UNCHANGED workerVars
  BY <1>3 DEF WorkerTypeOK, workerVars, rowVars, history, Holds
<1> QED
  BY <1>1, <1>2, <1>3, ClaimType, DeliverType, FinishType, DropType DEF WorkerNext

-----------------------------------------------------------------------------
(* What is counted of an event *)

\* The claim of e by w adds one to its attempts and to its holders.
LEMMA ClaimCounts ==
  ASSUME WorkerAssumption, WorkerTypeOK, NEW w \in Workers,
         NEW batch \in SUBSET Events, Claim(w, batch),
         NEW e \in Events, EventInv(e)
  PROVE  EventInv(e)'
<1> DEFINE k == Cardinality(Holders(e))
<1>1. /\ \A v \in Workers \ {w} : held'[v][e] = held[v][e]
      /\ UNCHANGED <<status, tried, dropped>>
      /\ held[w][e] = 0
      /\ IsFiniteSet(Holders(e))
  BY DEF Claim, WorkerTypeOK, Holds, history, EventInv, Counted
<1>2. CASE e \notin batch
  <2>1. held'[w][e] = 0 /\ attempts'[e] = attempts[e]
    BY <1>2 DEF Claim, WorkerTypeOK
  <2> QED
    BY <1>1, <2>1, Untouched
<1>3. CASE e \in batch
  <2>1. /\ status[e] = "pending"
        /\ attempts[e] \in Nat
        /\ attempts'[e] = attempts[e] + 1
        /\ held'[w][e] = attempts[e] + 1
        /\ tried[e] \in Nat /\ dropped[e] \in Nat
        /\ \A v \in Workers : held[v][e] \in Nat
    BY <1>3 DEF Claim, WorkerTypeOK, WorkerAssumption
  <2>2. /\ IsFiniteSet(Holders(e)')
        /\ k \in Nat
        /\ Cardinality(Holders(e)') = k + 1
    BY <1>1, <2>1, OneHolder DEF Holds
  <2>3. Spent(e) \in Nat /\ Spent(e)' = Spent(e) + 1
    BY <1>1, <2>1, <2>2 DEF Spent
  <2>4. Counted(e)'
    <3>1. ASSUME tried[e] < MaxAttempts, NEW v \in Workers
          PROVE  held'[v][e] <= Spent(e)'
      BY <1>1, <2>1, <2>3, <3>1 DEF EventInv, Counted
    <3>2. ASSUME tried[e] < MaxAttempts
          PROVE  attempts'[e] <= Spent(e)'
      BY <2>1, <2>3, <3>2 DEF EventInv, Counted
    <3> QED
      BY <1>1, <2>1, <2>2, <3>1, <3>2 DEF Counted
  <2>5. GivenUp(e)'
    BY <1>1, <2>1 DEF GivenUp
  <2>6. Overrun(e)'
    BY <1>1, <2>1, <2>2 DEF WorkerAssumption, EventInv, Overrun
  <2> QED
    BY <2>4, <2>5, <2>6 DEF EventInv
<1> QED
  BY <1>2, <1>3

\* The outcome that w writes counts as tried and no longer as held. The row
\* takes the count of w, which may be lower than its own.
LEMMA FinishCounts ==
  ASSUME WorkerAssumption, WorkerTypeOK, NEW w \in Workers, Finish(w),
         NEW e \in Events, EventInv(e)
  PROVE  EventInv(e)'
<1> DEFINE k == Cardinality(Holders(e))
           n == held[w][e]
<1>1. /\ \A v \in Workers \ {w} : held'[v][e] = held[v][e]
      /\ dropped' = dropped
      /\ IsFiniteSet(Holders(e))
  BY DEF Finish, WorkerTypeOK, EventInv, Counted
<1>2. CASE e # answer[w].event
  <2>1. /\ status'[e] = status[e] /\ attempts'[e] = attempts[e]
        /\ tried'[e] = tried[e] /\ held'[w][e] = held[w][e]
    BY <1>2 DEF Finish, WorkerTypeOK
  <2> QED
    BY <1>1, <2>1, Untouched
<1>3. CASE e = answer[w].event
  <2>1. /\ n \in Nat /\ n > 0
        /\ held'[w][e] = 0
        /\ attempts'[e] = n
        /\ status'[e] = IF answer[w].ok THEN "delivered" ELSE AfterFailure(n)
        /\ tried'[e] = IF tried[e] < MaxAttempts THEN tried[e] + 1 ELSE tried[e]
        /\ tried[e] \in 0..MaxAttempts /\ dropped[e] \in Nat
        /\ \A v \in Workers : held[v][e] \in Nat
    BY <1>3 DEF Finish, WorkerTypeOK, WorkerAssumption, Holds
  <2>2. /\ IsFiniteSet(Holders(e)')
        /\ k \in Nat /\ k > 0
        /\ Cardinality(Holders(e)') = k - 1
    BY <1>1, <2>1, OneHolder DEF Holds
  <2>3. CASE tried[e] < MaxAttempts
    <3>1. Spent(e) \in Nat /\ Spent(e)' = Spent(e)
      BY <1>1, <2>1, <2>2, <2>3 DEF Spent
    <3>2. n <= Spent(e) /\ \A v \in Workers : held'[v][e] <= Spent(e)
      BY <1>1, <2>1, <2>3, <3>1 DEF EventInv, Counted
    <3>3. Counted(e)'
      BY <2>1, <2>2, <3>1, <3>2 DEF Counted, AfterFailure
    <3>4. GivenUp(e)'
      BY <2>1, <3>1, <3>2 DEF WorkerAssumption, GivenUp, AfterFailure
    <3> QED
      BY <2>1, <3>3, <3>4 DEF WorkerAssumption, EventInv, Overrun, AfterFailure
  <2>4. CASE tried[e] = MaxAttempts
    <3>1. Spent(e)' \in Nat /\ Spent(e)' >= MaxAttempts
      BY <1>1, <2>1, <2>2, <2>4 DEF WorkerAssumption, Spent
    <3>2. Counted(e)'
      BY <2>1, <2>2, <2>4 DEF WorkerAssumption, Counted, AfterFailure
    <3> QED
      BY <2>1, <3>1, <3>2
      DEF WorkerAssumption, EventInv, GivenUp, Overrun, AfterFailure
  <2> QED
    BY <2>1, <2>3, <2>4 DEF WorkerAssumption
<1> QED
  BY <1>2, <1>3

\* A claim that w gives back counts as dropped and no longer as held.
LEMMA DropCounts ==
  ASSUME WorkerAssumption, WorkerTypeOK, NEW w \in Workers, Drop(w),
         NEW e \in Events, EventInv(e)
  PROVE  EventInv(e)'
<1> DEFINE k == Cardinality(Holders(e))
<1>1. /\ \A v \in Workers \ {w} : held'[v][e] = held[v][e]
      /\ UNCHANGED <<status, attempts, tried>>
      /\ held'[w][e] = 0
      /\ IsFiniteSet(Holders(e))
  BY DEF Drop, WorkerTypeOK, rowVars, EventInv, Counted
<1>2. CASE ~Holds(w, e)
  <2>1. held[w][e] = 0 /\ dropped'[e] = dropped[e]
    BY <1>2 DEF Drop, WorkerTypeOK, Holds
  <2> QED
    BY <1>1, <2>1, Untouched
<1>3. CASE Holds(w, e)
  <2>1. /\ dropped'[e] = dropped[e] + 1
        /\ tried[e] \in Nat /\ dropped[e] \in Nat /\ attempts[e] \in Nat
        /\ \A v \in Workers : held[v][e] \in Nat
    BY <1>3 DEF Drop, WorkerTypeOK, WorkerAssumption
  <2>2. /\ IsFiniteSet(Holders(e)')
        /\ k \in Nat /\ k > 0
        /\ Cardinality(Holders(e)') = k - 1
    BY <1>1, <1>3, OneHolder
  <2>3. Spent(e) \in Nat /\ Spent(e)' = Spent(e)
    BY <1>1, <2>1, <2>2 DEF Spent
  <2>4. status[e] # "none"
    BY <1>3 DEF EventInv, Counted, Holders
  <2>5. Counted(e)'
    <3>1. ASSUME tried[e] < MaxAttempts, NEW v \in Workers
          PROVE  held'[v][e] <= Spent(e)
      BY <1>1, <2>1, <2>3, <3>1 DEF EventInv, Counted
    <3> QED
      BY <1>1, <2>2, <2>3, <2>4, <3>1 DEF EventInv, Counted
  <2>6. GivenUp(e)'
    BY <1>1, <2>3 DEF EventInv, GivenUp
  <2>7. Overrun(e)'
    BY <1>1, <2>1, <2>2 DEF EventInv, Overrun
  <2> QED
    BY <2>5, <2>6, <2>7 DEF EventInv
<1> QED
  BY <1>2, <1>3

\* Every step keeps what is counted of every event.
LEMMA CountsKept ==
  ASSUME WorkerAssumption, WorkerTypeOK, [WorkerNext]_workerVars,
         NEW e \in Events, EventInv(e)
  PROVE  EventInv(e)'
<1>1. ASSUME NEW f \in Events, Enqueue(f)
      PROVE  EventInv(e)'
  <2>1. /\ UNCHANGED <<attempts, held, tried, dropped>>
        /\ e # f => status'[e] = status[e]
        /\ e = f => status[e] = "none" /\ status'[e] = "pending"
    BY <1>1 DEF Enqueue, WorkerTypeOK, history
  <2>2. CASE e # f
    BY <2>1, <2>2, Untouched
  <2>3. CASE e = f
    <3>1. Holders(e)' = Holders(e) /\ attempts[e] = 0
      BY <2>1, <2>3 DEF Holders, Holds, EventInv, Counted
    <3>2. Spent(e)' = Spent(e)
      BY <2>1, <3>1 DEF Spent
    <3> QED
      BY <2>1, <2>3, <3>1, <3>2
      DEF EventInv, Counted, GivenUp, Overrun, WorkerAssumption
  <2> QED
    BY <2>2, <2>3
<1>2. ASSUME NEW f \in Events, Elapse(f)
      PROVE  EventInv(e)'
  BY <1>2, Untouched DEF Elapse, history
<1>3. ASSUME NEW w \in Workers, NEW f \in Events, Deliver(w, f)
      PROVE  EventInv(e)'
  BY <1>3, Untouched DEF Deliver, rowVars
<1>4. CASE UNCHANGED workerVars
  BY <1>4, Untouched DEF workerVars, rowVars, history
<1> QED
  BY <1>1, <1>2, <1>3, <1>4, ClaimCounts, FinishCounts, DropCounts DEF WorkerNext

-----------------------------------------------------------------------------
(* What an answer says *)

\* A merchant that took an event has taken it, whatever is lost after that; a
\* row and an answer say delivered only of such an event.
LEMMA AnswersKept ==
  ASSUME WorkerTypeOK, AnswerInv, DeliveredWasTaken, [WorkerNext]_workerVars
  PROVE  AnswerInv' /\ DeliveredWasTaken'
<1> USE DEF WorkerTypeOK, AnswerInv, DeliveredWasTaken
<1>1. ASSUME NEW e \in Events, Enqueue(e)
      PROVE  AnswerInv' /\ DeliveredWasTaken'
  BY <1>1 DEF Enqueue, history
<1>2. ASSUME NEW e \in Events, Elapse(e)
      PROVE  AnswerInv' /\ DeliveredWasTaken'
  BY <1>2 DEF Elapse, history
<1>3. ASSUME NEW w \in Workers, NEW batch \in SUBSET Events, Claim(w, batch)
      PROVE  AnswerInv' /\ DeliveredWasTaken'
  BY <1>3 DEF Claim, history
<1>4. ASSUME NEW w \in Workers, NEW e \in Events, Deliver(w, e)
      PROVE  AnswerInv' /\ DeliveredWasTaken'
  <2>1. PICK took \in BOOLEAN, ok \in BOOLEAN :
          /\ ok => took
          /\ taken' = [taken EXCEPT ![e] = @ \/ took]
          /\ answer' = [answer EXCEPT ![w] = [event |-> e, ok |-> ok]]
    BY <1>4 DEF Deliver
  <2>2. \A f \in Events : taken[f] => taken'[f]
    BY <2>1
  <2>3. DeliveredWasTaken'
    BY <1>4, <2>2 DEF Deliver, rowVars
  <2>4. ASSUME NEW v \in Workers, answer'[v] # None, answer'[v].ok
        PROVE  taken'[answer'[v].event]
    <3>1. CASE v = w
      <4>1. answer'[v] = [event |-> e, ok |-> ok]
        BY <2>1, <3>1
      <4>2. ok
        BY <2>4, <4>1
      <4>3. taken'[e]
        BY <2>1, <4>2
      <4> QED
        BY <4>1, <4>3
    <3>2. CASE v # w
      <4>1. answer'[v] = answer[v]
        BY <2>1, <3>2
      <4>2. answer[v].event \in Events
        BY <2>4, <4>1
      <4> QED
        BY <2>2, <2>4, <4>1, <4>2
    <3> QED
      BY <3>1, <3>2
  <2> QED
    BY <2>3, <2>4
<1>5. ASSUME NEW w \in Workers, Finish(w)
      PROVE  AnswerInv' /\ DeliveredWasTaken'
  <2>1. /\ answer[w] # None
        /\ taken' = taken
        /\ answer' = [answer EXCEPT ![w] = None]
        /\ \A e \in Events \ {answer[w].event} : status'[e] = status[e]
        /\ status'[answer[w].event] = "delivered" => answer[w].ok
    BY <1>5 DEF Finish, AfterFailure
  <2>2. AnswerInv'
    BY <2>1
  <2>3. DeliveredWasTaken'
    BY <2>1
  <2> QED
    BY <2>2, <2>3
<1>6. ASSUME NEW w \in Workers, Drop(w)
      PROVE  AnswerInv' /\ DeliveredWasTaken'
  BY <1>6 DEF Drop, rowVars
<1>7. CASE UNCHANGED workerVars
  BY <1>7 DEF workerVars, rowVars, history
<1> QED
  BY <1>1, <1>2, <1>3, <1>4, <1>5, <1>6, <1>7 DEF WorkerNext

-----------------------------------------------------------------------------
\* The invariant of the workers holds in every state they reach, whether or
\* not leases outlive their batches.
THEOREM WorkerInvariant == WorkerSpec => []WorkerInv
<1>1. WorkerInit => WorkerInv
  <2> SUFFICES ASSUME WorkerInit
               PROVE  WorkerInv
    OBVIOUS
  <2>1. \A e \in Events : Holders(e) = {}
    BY DEF WorkerInit, Holders, Holds
  <2>2. WorkerTypeOK
    BY WorkerAssumption DEF WorkerInit, WorkerTypeOK, WorkerAssumption, EventStatuses
  <2>3. AnswerInv /\ DeliveredWasTaken
    BY DEF WorkerInit, AnswerInv, DeliveredWasTaken
  <2>4. ASSUME NEW e \in Events
        PROVE  EventInv(e)
    <3>1. IsFiniteSet(Holders(e)) /\ Cardinality(Holders(e)) = 0
      BY <2>1, FS_EmptySet
    <3>2. /\ status[e] = "none" /\ attempts[e] = 0 /\ tried[e] = 0
          /\ dropped[e] = 0 /\ \A w \in Workers : held[w][e] = 0
      BY DEF WorkerInit
    <3> QED
      BY <2>1, <3>1, <3>2 DEF EventInv, Counted, GivenUp, Overrun, Spent
  <2> QED
    BY <2>2, <2>3, <2>4 DEF WorkerInv
<1>2. WorkerInv /\ [WorkerNext]_workerVars => WorkerInv'
  BY WorkerAssumption, TypeKept, AnswersKept, CountsKept DEF WorkerInv
<1> QED
  BY <1>1, <1>2, PTL DEF WorkerSpec

\* Every variable of the worker keeps its type, and an answer that was not
\* written yet is for an event its worker holds.
THEOREM WorkerTypeCorrect == WorkerSpec => []WorkerTypeOK
BY WorkerInvariant, PTL DEF WorkerInv

\* A row of webhook_events says delivered only if the merchant took the event.
THEOREM Delivered == WorkerSpec => []DeliveredWasTaken
BY WorkerInvariant, PTL DEF WorkerInv

\* An event is given up only after MaxAttempts claims of it, although finish
\* writes whatever count its worker remembers.
THEOREM GivenUpCorrect == WorkerSpec => []GivenUpAfterAttempts
<1>1. WorkerInv => GivenUpAfterAttempts
  BY DEF WorkerInv, EventInv, GivenUp, Spent, GivenUpAfterAttempts
<1> QED
  BY <1>1, WorkerInvariant, PTL

\* An event outlives its last attempt only as often as workers died with it or
\* are late with it.
THEOREM OverrunCorrect == WorkerSpec => []OverrunOnlyByDrops
<1>1. WorkerInv => OverrunOnlyByDrops
  BY DEF WorkerInv, EventInv, Overrun, OverrunOnlyByDrops
<1> QED
  BY <1>1, WorkerInvariant, PTL

-----------------------------------------------------------------------------
(* The refinement: the workers implement the queue *)

\* An event whose holders did not change has the same attempts in flight.
LEMMA SameFlight ==
  ASSUME NEW e \in Events, \A w \in Workers : held'[w][e] = held[w][e]
  PROVE  Holders(e)' = Holders(e) /\ Flight(e)' = Flight(e)
<1>1. Holders(e)' = Holders(e)
  BY DEF Holders, Holds
<1>2. \A w \in Holders(e) : held'[w][e] = held[w][e]
  BY DEF Holders
<1> QED
  BY <1>1, <1>2 DEF Flight

\* When one worker lets go of an event at most its own attempt leaves the
\* flight: another worker may have the same number.
LEMMA OneLess ==
  ASSUME NEW e \in Events, NEW w \in Workers, Holds(w, e), held'[w][e] = 0,
         \A v \in Workers \ {w} : held'[v][e] = held[v][e]
  PROVE  /\ Holders(e)' = Holders(e) \ {w}
         /\ held[w][e] \in Flight(e)
         /\ Flight(e)' \in {Flight(e), Flight(e) \ {held[w][e]}}
         /\ Holders(e) = {w} => Flight(e)' = {}
<1>1. Holders(e)' = Holders(e) \ {w}
  BY DEF Holders, Holds
<1>2. w \in Holders(e)
  BY DEF Holders
<1>3. Flight(e)' = {held[v][e] : v \in Holders(e) \ {w}}
  <2>1. \A v \in Holders(e) \ {w} : held'[v][e] = held[v][e]
    BY DEF Holders
  <2> QED
    BY <1>1, <2>1 DEF Flight
<1>4. Flight(e) = {held[v][e] : v \in Holders(e) \ {w}} \cup {held[w][e]}
  BY <1>2 DEF Flight
<1> QED
  BY <1>1, <1>3, <1>4

\* A claim takes up the events of its batch, and only those that nobody holds
\* get an attempt of their own.
LEMMA ClaimTakesUp ==
  ASSUME WorkerTypeOK, NEW w \in Workers, NEW batch \in SUBSET Events,
         Claim(w, batch)
  PROVE  Queue!TakeUp(batch)
<1>1. /\ status' = status
      /\ taken' = taken
      /\ attempts' = [e \in Events |->
           IF e \in batch THEN attempts[e] + 1 ELSE attempts[e]]
      /\ due' = [e \in Events |-> due[e] /\ e \notin batch]
      /\ \A v \in Workers \ {w} : held'[v] = held[v]
      /\ held'[w] = [e \in Events |-> IF e \in batch THEN attempts[e] + 1 ELSE 0]
      /\ \A e \in Events : held[w][e] = 0
      /\ \A e \in batch : status[e] = "pending" /\ due[e]
  <2>1. \A e \in Events : held[w][e] \in Nat /\ ~Holds(w, e)
    BY DEF WorkerTypeOK, Claim
  <2> QED
    BY <2>1 DEF WorkerTypeOK, Claim, history, Holds
<1>2. ASSUME NEW e \in Events
      PROVE  /\ Flight(e)' = IF e \in batch THEN Flight(e) \cup {attempts[e] + 1}
                             ELSE Flight(e)
             /\ Leased(e)' = IF e \in batch THEN Flight(e) = {} ELSE Leased(e)
  <2>1. CASE e \in batch
    <3>1. Holders(e)' = Holders(e) \cup {w} /\ w \notin Holders(e)
      BY <1>1, <2>1 DEF Holders, Holds, WorkerTypeOK
    <3>2. /\ held'[w][e] = attempts[e] + 1
          /\ \A v \in Holders(e) : held'[v][e] = held[v][e]
      BY <1>1, <2>1, <3>1 DEF Holders
    <3>3. Flight(e)' = Flight(e) \cup {attempts[e] + 1}
      BY <3>1, <3>2 DEF Flight
    <3>4. status'[e] = "pending" /\ attempts'[e] = attempts[e] + 1
      BY <1>1, <2>1
    <3>5. ~due'[e]
      BY <1>1, <2>1, Zenon
    <3>6. Leased(e)' <=> Holders(e) = {}
      BY <3>1, <3>2, <3>4, <3>5 DEF Leased
    <3>7. Flight(e) = {} <=> Holders(e) = {}
      BY DEF Flight
    <3> QED
      BY <2>1, <3>3, <3>6, <3>7 DEF Leased
  <2>2. CASE e \notin batch
    <3>1. \A v \in Workers : held'[v][e] = held[v][e]
      BY <1>1, <2>2
    <3>2. Holders(e)' = Holders(e) /\ Flight(e)' = Flight(e)
      BY <3>1, SameFlight
    <3>3. attempts'[e] = attempts[e] /\ status' = status
      BY <1>1, <2>2
    <3>4. due'[e] = due[e]
      BY <1>1, <2>2, Zenon DEF WorkerTypeOK
    <3>5. Leased(e)' = Leased(e)
      BY <3>1, <3>2, <3>3, <3>4 DEF Leased
    <3> QED
      BY <2>2, <3>2, <3>5
  <2> QED
    BY <2>1, <2>2
<1>3. \A e \in batch : status[e] = "pending" /\ ~Leased(e)
  BY <1>1 DEF Leased
<1> QED
  BY <1>1, <1>2, <1>3 DEF Queue!TakeUp

\* A finish of the one attempt that has its lease lands it; any other finish is
\* that of a late attempt.
LEMMA FinishLands ==
  ASSUME WorkerInv, NEW w \in Workers, Finish(w)
  PROVE  \E e \in Events :
           Queue!Land(e) \/ \E n \in Flight(e) : Queue!LandLate(e, n)
<1> DEFINE s(n) == IF answer[w].ok THEN "delivered" ELSE AfterFailure(n)
<1>1. PICK e \in Events, n \in Nat :
        /\ answer[w] # None /\ answer[w].event = e
        /\ Holds(w, e) /\ n = held[w][e]
        /\ status' = [status EXCEPT ![e] = s(n)]
        /\ attempts' = [attempts EXCEPT ![e] = n]
        /\ due' = [due EXCEPT ![e] = s(n) # "pending"]
        /\ held' = [held EXCEPT ![w][e] = 0]
        /\ taken' = taken
  <2>1. answer[w] # None /\ answer[w].event \in Events /\ Holds(w, answer[w].event)
    BY DEF Finish, WorkerInv, WorkerTypeOK
  <2>2. held[w][answer[w].event] \in Nat
    BY <2>1 DEF WorkerInv, WorkerTypeOK
  <2> QED
    BY <2>1, <2>2 DEF Finish
<1>2. WorkerTypeOK /\ Holds(w, e)
  BY <1>1 DEF WorkerInv
<1>3. s(n) \in Queue!Outcomes(e, n)
  <2>1. answer[w].ok => taken[e]
    BY <1>1 DEF WorkerInv, AnswerInv
  <2> QED
    BY <1>1, <2>1, WorkerAssumption DEF Queue!Outcomes, AfterFailure
<1> HIDE DEF s
<1>4. /\ held'[w][e] = 0
      /\ \A v \in Workers \ {w} : held'[v][e] = held[v][e]
      /\ \A f \in Events \ {e}, v \in Workers : held'[v][f] = held[v][f]
  BY <1>1, <1>2 DEF WorkerTypeOK
<1>5. /\ Holders(e)' = Holders(e) \ {w}
      /\ n \in Flight(e)
      /\ Flight(e)' \in {Flight(e), Flight(e) \ {n}}
      /\ Holders(e) = {w} => Flight(e)' = {}
  BY <1>1, <1>2, <1>4, OneLess
<1>6. ASSUME NEW f \in Events \ {e}
      PROVE  Flight(f)' = Flight(f) /\ Leased(f)' = Leased(f)
  <2>1. Holders(f)' = Holders(f) /\ Flight(f)' = Flight(f)
    BY <1>4, SameFlight
  <2>2. status'[f] = status[f] /\ attempts'[f] = attempts[f] /\ due'[f] = due[f]
    BY <1>1, <1>2 DEF WorkerTypeOK
  <2> QED
    BY <1>4, <2>1, <2>2 DEF Leased
<1>7. /\ [f \in Events |-> Flight(f)'] =
           [[f \in Events |-> Flight(f)] EXCEPT ![e] = Flight(e)']
      /\ [f \in Events |-> Leased(f)'] =
           [[f \in Events |-> Leased(f)] EXCEPT ![e] = Leased(e)']
  BY <1>2, <1>6
<1>8. CASE Leased(e)
  <2>1. n = attempts[e] /\ Holders(e) = {w}
    <3>1. w \in Holders(e)
      BY <1>2 DEF Holders
    <3> QED
      BY <1>1, <1>8, <3>1 DEF Leased
  <2>2. attempts' = attempts
    BY <1>1, <1>2, <2>1 DEF WorkerTypeOK
  <2>3. Flight(e)' = {} /\ ~Leased(e)'
    BY <1>5, <2>1 DEF Leased
  <2>4. Leased(e)' = FALSE
    BY <2>3 DEF Leased
  <2>5. /\ [f \in Events |-> Flight(f)'] =
             [[f \in Events |-> Flight(f)] EXCEPT ![e] = {}]
        /\ [f \in Events |-> Leased(f)'] =
             [[f \in Events |-> Leased(f)] EXCEPT ![e] = FALSE]
    BY <1>7, <2>3, <2>4
  <2>6. Queue!Land(e)
    BY <1>1, <1>3, <1>8, <2>1, <2>2, <2>5 DEF Queue!Land
  <2> QED
    BY <2>6
<1>9. CASE ~Leased(e)
  <2>1. Leased(e)' => status'[e] = "pending" /\ Flight(e)' = {attempts'[e]}
    BY DEF Leased, Flight
  <2>2. Queue!LandLate(e, n)
    BY <1>1, <1>2, <1>3, <1>5, <1>7, <1>9, <2>1
    DEF Queue!LandLate, Queue!Alone, Leased
  <2> QED
    BY <1>2, <1>5, <2>2
<1> QED
  BY <1>8, <1>9

\* A worker that dies loses one attempt at each event it holds.
LEMMA DropLoses ==
  ASSUME WorkerTypeOK, NEW w \in Workers, Drop(w)
  PROVE  Queue!Lose({e \in Events : Holds(w, e)})
<1>1. /\ UNCHANGED <<status, attempts, due, taken>>
      /\ \A e \in Events : held'[w][e] = 0
      /\ \A e \in Events, v \in Workers \ {w} : held'[v][e] = held[v][e]
  BY DEF Drop, rowVars, WorkerTypeOK
<1>2. ASSUME NEW e \in Events, ~Holds(w, e)
      PROVE  Flight(e)' = Flight(e) /\ Leased(e)' = Leased(e)
  <2>1. \A v \in Workers : held'[v][e] = held[v][e]
    BY <1>1, <1>2 DEF Holds, WorkerTypeOK
  <2> QED
    BY <1>1, <2>1, SameFlight DEF Leased
<1>3. ASSUME NEW e \in Events, Holds(w, e)
      PROVE  /\ \E n \in Flight(e) : Flight(e)' \in {Flight(e), Flight(e) \ {n}}
             /\ Leased(e) => Flight(e)' = {} /\ ~Leased(e)'
             /\ Leased(e)' => status'[e] = "pending" /\ Flight(e)' = {attempts'[e]}
  <2>1. /\ Holders(e)' = Holders(e) \ {w}
        /\ held[w][e] \in Flight(e)
        /\ Flight(e)' \in {Flight(e), Flight(e) \ {held[w][e]}}
        /\ Holders(e) = {w} => Flight(e)' = {}
    BY <1>1, <1>3, OneLess
  <2>2. Leased(e) => Holders(e) = {w}
    <3>1. w \in Holders(e)
      BY <1>3 DEF Holders
    <3> QED
      BY <3>1 DEF Leased
  <2>3. Leased(e) => Flight(e)' = {} /\ ~Leased(e)'
    BY <2>1, <2>2 DEF Leased
  <2>4. Leased(e)' => status'[e] = "pending" /\ Flight(e)' = {attempts'[e]}
    BY DEF Leased, Flight
  <2> QED
    BY <2>1, <2>3, <2>4
<1>4. /\ [e \in Events |-> Flight(e)'] \in [Events -> SUBSET Nat]
      /\ [e \in Events |-> Leased(e)'] \in [Events -> BOOLEAN]
  <2>1. \A e \in Events : Flight(e)' \in SUBSET Nat
    <3>1. \A e \in Events, v \in Workers : held'[v][e] \in Nat
      BY <1>1 DEF WorkerTypeOK
    <3> QED
      BY <3>1 DEF Flight, Holders
  <2>2. \A e \in Events : Leased(e)' \in BOOLEAN
    BY DEF Leased
  <2> QED
    BY <2>1, <2>2
<1> QED
  BY <1>1, <1>2, <1>3, <1>4 DEF Queue!Lose, Queue!Alone

\* Every step of the workers is a step of the queue, or is hidden from it: the
\* queue does not see answers, nor how long a settled or idle event waits.
LEMMA WorkerStepIsQueueStep ==
  ASSUME WorkerInv, [WorkerNext]_workerVars
  PROVE  [Queue!QueueNext]_Queue!queueVars
<1> DEFINE Kept == \A e \in Events, w \in Workers : held'[w][e] = held[w][e]
<1>0. WorkerTypeOK
  BY DEF WorkerInv
<1>1. ASSUME Kept
      PROVE  \A e \in Events : /\ Holders(e)' = Holders(e)
                               /\ Flight(e)' = Flight(e)
                               /\ Leased(e)' <=>
                                    /\ status'[e] = "pending" /\ ~due'[e]
                                    /\ \E w \in Workers :
                                         /\ Holders(e) = {w}
                                         /\ held[w][e] = attempts'[e]
  BY <1>1, SameFlight DEF Leased
<1>2. ASSUME NEW e \in Events, Enqueue(e)
      PROVE  Queue!QueueNext
  <2>1. /\ Kept /\ status[e] = "none" /\ UNCHANGED <<attempts, taken>>
        /\ status' = [status EXCEPT ![e] = "pending"]
        /\ due' = [due EXCEPT ![e] = TRUE]
    BY <1>2 DEF Enqueue, history
  <2>2. \A f \in Events : Leased(f)' = Leased(f)
    BY <1>0, <1>1, <2>1 DEF Leased, WorkerTypeOK
  <2>3. Queue!Offer(e)
    BY <1>1, <2>1, <2>2 DEF Queue!Offer
  <2> QED
    BY <2>3 DEF Queue!QueueNext
<1>3. ASSUME NEW e \in Events, Elapse(e)
      PROVE  Queue!Lapse(e) \/ UNCHANGED Queue!queueVars
  <2>1. /\ Kept /\ UNCHANGED <<status, attempts, taken>>
        /\ due' = [due EXCEPT ![e] = TRUE]
    BY <1>3 DEF Elapse, history
  <2>2. \A f \in Events : Leased(f)' = (Leased(f) /\ f # e)
    BY <1>0, <1>1, <2>1 DEF Leased, WorkerTypeOK
  <2>3. CASE Leased(e)
    BY <1>1, <2>1, <2>2, <2>3 DEF Queue!Lapse, Leased
  <2>4. CASE ~Leased(e)
    BY <1>1, <2>1, <2>2, <2>4 DEF Queue!queueVars, Leased
  <2> QED
    BY <2>3, <2>4
<1>4. ASSUME NEW w \in Workers, NEW e \in Events, Deliver(w, e)
      PROVE  Queue!Arrive(e) \/ UNCHANGED Queue!queueVars
  <2>1. PICK took \in BOOLEAN : taken' = [taken EXCEPT ![e] = @ \/ took]
    BY <1>4 DEF Deliver
  <2>2. Kept /\ Holds(w, e) /\ UNCHANGED <<status, attempts, due>>
    BY <1>4 DEF Deliver, rowVars
  <2>3. \A f \in Events : Leased(f)' = Leased(f)
    BY <1>1, <2>2 DEF Leased
  <2>4. Flight(e) # {}
    BY <2>2 DEF Flight, Holders
  <2>5. CASE took
    <3>1. taken' = [taken EXCEPT ![e] = TRUE]
      BY <2>1, <2>5
    <3> QED
      BY <1>1, <2>2, <2>3, <2>4, <3>1 DEF Queue!Arrive
  <2>6. CASE ~took
    <3>1. taken' = taken
      BY <1>0, <2>1, <2>6 DEF WorkerTypeOK
    <3> QED
      BY <1>1, <2>2, <2>3, <3>1 DEF Queue!queueVars
  <2> QED
    BY <2>5, <2>6
<1>5. ASSUME NEW w \in Workers, NEW batch \in SUBSET Events, Claim(w, batch)
      PROVE  Queue!QueueNext
  BY <1>0, <1>5, ClaimTakesUp DEF Queue!QueueNext
<1>6. ASSUME NEW w \in Workers, Finish(w)
      PROVE  Queue!QueueNext
  BY <1>6, FinishLands DEF Queue!QueueNext
<1>7. ASSUME NEW w \in Workers, Drop(w)
      PROVE  Queue!QueueNext
  BY <1>0, <1>7, DropLoses DEF Queue!QueueNext
<1>8. CASE UNCHANGED workerVars
  <2>1. Kept /\ UNCHANGED <<status, attempts, due, taken>>
    BY <1>8 DEF workerVars, rowVars, history
  <2>2. \A f \in Events : Leased(f)' = Leased(f)
    BY <1>1, <2>1 DEF Leased
  <2> QED
    BY <1>1, <2>1, <2>2 DEF Queue!queueVars
<1> QED
  BY <1>2, <1>3, <1>4, <1>5, <1>6, <1>7, <1>8 DEF WorkerNext, Queue!QueueNext

\* Any number of workers delivers as the queue promises, whether leases outlast
\* their batches or not: nobody takes up an event while the lease of an attempt
\* runs, and a finish writes an outcome and a count that an attempt in flight
\* accounts for.
THEOREM WorkersImplementQueue == WorkerSpec => ImplementsQueue
<1>1. WorkerInit => Queue!QueueInit
  BY DEF WorkerInit, Queue!QueueInit, Flight, Leased, Holders, Holds
<1>2. WorkerInv /\ [WorkerNext]_workerVars => [Queue!QueueNext]_Queue!queueVars
  BY WorkerStepIsQueueStep
<1> QED
  BY <1>1, <1>2, WorkerInvariant, PTL
  DEF WorkerSpec, ImplementsQueue, Queue!QueueSpec
=============================================================================
