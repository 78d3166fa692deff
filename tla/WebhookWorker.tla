---------------------------- MODULE WebhookWorker ----------------------------
(***************************************************************************)
(* The delivery of webhook_events (internal/webhook/worker.go, deliver.go) *)
(* by any number of worker processes. A worker claims a batch, posts its   *)
(* events one after another and writes each outcome to the event's row, by *)
(* id alone. The claim is a transaction with FOR UPDATE SKIP LOCKED, so it *)
(* is one step and two claims never take a row from each other.            *)
(*                                                                         *)
(* The clock is left out: due says whether next_attempt_at has passed, and *)
(* time may pass at any moment (Elapse). A batch of ten posts of up to ten *)
(* seconds outlives the lease of thirty seconds, so a lease may run out    *)
(* while its batch is held, and another worker claim the same events.      *)
(***************************************************************************)
EXTENDS Naturals, FiniteSets

CONSTANTS Events,       \* webhook_events
          Workers,      \* worker processes
          MaxAttempts,  \* 5
          ClaimLimit,   \* 10
          MaxDrops,     \* bound: how often a worker that holds an event may die
          None

ASSUME WorkerAssumption ==
  /\ MaxAttempts \in Nat \ {0}
  /\ ClaimLimit \in Nat \ {0}
  /\ MaxDrops \in Nat
  /\ None \notin [event : Events, ok : BOOLEAN]

VARIABLES status,    \* status[e]; "none" before the row exists
          attempts,  \* attempts[e]
          due,       \* due[e]: next_attempt_at <= now
          held,      \* held[w][e]: attempts as w claimed e, 0 if w has not e
          answer,    \* answer[w]: the event w just posted, and whether it got a 2xx
          taken,     \* taken[e]: the merchant processed e (not known to the workers)
          tried,     \* tried[e]: outcomes written, counted up to MaxAttempts
          dropped    \* dropped[e]: claims of e that ended without an outcome

rowVars == <<status, attempts, due>>
history == <<taken, tried, dropped>>
workerVars == <<rowVars, held, answer, history>>

EventStatuses == {"none", "pending", "delivered", "failed"}

Holds(w, e) == held[w][e] > 0
Holders(e) == {w \in Workers : Holds(w, e)}

WorkerInit ==
  /\ status = [e \in Events |-> "none"]
  /\ attempts = [e \in Events |-> 0]
  /\ due = [e \in Events |-> FALSE]
  /\ held = [w \in Workers |-> [e \in Events |-> 0]]
  /\ answer = [w \in Workers |-> None]
  /\ taken = [e \in Events |-> FALSE]
  /\ tried = [e \in Events |-> 0]
  /\ dropped = [e \in Events |-> 0]

-----------------------------------------------------------------------------
\* The transaction that moves a payment inserts the event, due at once.
Enqueue(e) ==
  /\ status[e] = "none"
  /\ status' = [status EXCEPT ![e] = "pending"]
  /\ due' = [due EXCEPT ![e] = TRUE]
  /\ UNCHANGED <<attempts, held, answer, history>>

\* The lease or the delay before the next attempt runs out.
Elapse(e) ==
  /\ status[e] = "pending"
  /\ ~due[e]
  /\ due' = [due EXCEPT ![e] = TRUE]
  /\ UNCHANGED <<status, attempts, held, answer, history>>

\* Mutant of Claim: next_attempt_at is not moved to the end of the lease.
Claim_NoLease(w, batch) ==
  /\ \A e \in Events : ~Holds(w, e)
  /\ batch # {}
  /\ Cardinality(batch) <= ClaimLimit
  /\ \A e \in batch : status[e] = "pending" /\ due[e]
  /\ attempts' = [e \in Events |->
       IF e \in batch THEN attempts[e] + 1 ELSE attempts[e]]
  /\ held' = [held EXCEPT ![w] =
       [e \in Events |-> IF e \in batch THEN attempts[e] + 1 ELSE 0]]
  /\ UNCHANGED <<status, due, answer, history>>

\* Mutant of Claim: events that were tried often enough are left alone.
Claim_SkipsExhausted(w, batch) ==
  /\ \A e \in Events : ~Holds(w, e)
  /\ batch # {}
  /\ Cardinality(batch) <= ClaimLimit
  /\ \A e \in batch : status[e] = "pending" /\ due[e] /\ attempts[e] < MaxAttempts
  /\ attempts' = [e \in Events |->
       IF e \in batch THEN attempts[e] + 1 ELSE attempts[e]]
  /\ due' = [e \in Events |-> due[e] /\ e \notin batch]
  /\ held' = [held EXCEPT ![w] =
       [e \in Events |-> IF e \in batch THEN attempts[e] + 1 ELSE 0]]
  /\ UNCHANGED <<status, answer, history>>

\* claim: pending events that are due, fewer than there are when others are
\* locked; each is counted and leased. A claim that fails leaves no trace.
Claim(w, batch) ==
  /\ \A e \in Events : ~Holds(w, e)
  /\ batch # {}
  /\ Cardinality(batch) <= ClaimLimit
  /\ \A e \in batch : status[e] = "pending" /\ due[e]
  /\ attempts' = [e \in Events |->
       IF e \in batch THEN attempts[e] + 1 ELSE attempts[e]]
  /\ due' = [e \in Events |-> due[e] /\ e \notin batch]
  /\ held' = [held EXCEPT ![w] =
       [e \in Events |-> IF e \in batch THEN attempts[e] + 1 ELSE 0]]
  /\ UNCHANGED <<status, answer, history>>

\* Mutant of Deliver: the status code is not looked at.
Deliver_AnyCode(w, e) ==
  /\ Holds(w, e)
  /\ answer[w] = None
  /\ \E took \in BOOLEAN, ok \in BOOLEAN :
       /\ taken' = [taken EXCEPT ![e] = @ \/ took]
       /\ answer' = [answer EXCEPT ![w] = [event |-> e, ok |-> ok]]
  /\ UNCHANGED <<rowVars, held, tried, dropped>>

\* Deliver, of the next event of the batch: it arrives or not, and an answer
\* of a merchant that took it may still be lost or late.
Deliver(w, e) ==
  /\ Holds(w, e)
  /\ answer[w] = None
  /\ \E took \in BOOLEAN, ok \in BOOLEAN :
       /\ ok => took
       /\ taken' = [taken EXCEPT ![e] = @ \/ took]
       /\ answer' = [answer EXCEPT ![w] = [event |-> e, ok |-> ok]]
  /\ UNCHANGED <<rowVars, held, tried, dropped>>

\* Mutant of AfterFailure: one attempt more.
AfterFailure_OneMore(n) == IF n > MaxAttempts THEN "failed" ELSE "pending"

\* Mutant of AfterFailure: one attempt less.
AfterFailure_OneLess(n) == IF n + 1 >= MaxAttempts THEN "failed" ELSE "pending"

\* What an event becomes when its n-th attempt failed.
AfterFailure(n) == IF n >= MaxAttempts THEN "failed" ELSE "pending"

\* Mutant of Finish: the outcome stays with the worker.
Finish_KeepsAnswer(w) ==
  /\ answer[w] # None
  /\ LET e == answer[w].event
         n == held[w][e]
         s == IF answer[w].ok THEN "delivered" ELSE AfterFailure(n)
     IN /\ status' = [status EXCEPT ![e] = s]
        /\ attempts' = [attempts EXCEPT ![e] = n]
        /\ due' = [due EXCEPT ![e] = s # "pending"]
        /\ held' = [held EXCEPT ![w][e] = 0]
        /\ tried' = [tried EXCEPT ![e] = IF @ < MaxAttempts THEN @ + 1 ELSE @]
  /\ UNCHANGED <<answer, taken, dropped>>

\* finish: the row is written by id, whatever happened to it since the claim.
Finish(w) ==
  /\ answer[w] # None
  /\ LET e == answer[w].event
         n == held[w][e]
         s == IF answer[w].ok THEN "delivered" ELSE AfterFailure(n)
     IN /\ status' = [status EXCEPT ![e] = s]
        /\ attempts' = [attempts EXCEPT ![e] = n]
        /\ due' = [due EXCEPT ![e] = s # "pending"]
        /\ held' = [held EXCEPT ![w][e] = 0]
        /\ tried' = [tried EXCEPT ![e] = IF @ < MaxAttempts THEN @ + 1 ELSE @]
  /\ answer' = [answer EXCEPT ![w] = None]
  /\ UNCHANGED <<taken, dropped>>

\* The worker dies, is stopped, or cannot write an outcome: the rest of its
\* batch, and an answer it already has, are forgotten.
Drop(w) ==
  /\ \E e \in Events : Holds(w, e)
  /\ \A e \in Events : Holds(w, e) => dropped[e] < MaxDrops
  /\ dropped' = [e \in Events |-> IF Holds(w, e) THEN dropped[e] + 1 ELSE dropped[e]]
  /\ held' = [held EXCEPT ![w] = [e \in Events |-> 0]]
  /\ answer' = [answer EXCEPT ![w] = None]
  /\ UNCHANGED <<rowVars, taken, tried>>

WorkerNext ==
  \/ \E e \in Events : Enqueue(e) \/ Elapse(e)
  \/ \E w \in Workers :
       \/ \E batch \in SUBSET Events : Claim(w, batch)
       \/ \E e \in Events : Deliver(w, e)
       \/ Finish(w)
       \/ Drop(w)

WorkerSpec == WorkerInit /\ [][WorkerNext]_workerVars

-----------------------------------------------------------------------------
\* Time passes, workers go on, and the oldest event that is due is claimed
\* first, so that none is passed over for ever.
WorkerFairness ==
  /\ \A e \in Events :
       /\ WF_workerVars(Elapse(e))
       /\ SF_workerVars(\E w \in Workers, batch \in SUBSET Events :
                          e \in batch /\ Claim(w, batch))
  /\ \A w \in Workers :
       /\ WF_workerVars(\E e \in Events : Deliver(w, e))
       /\ WF_workerVars(Finish(w))

FairWorkerSpec == WorkerSpec /\ WorkerFairness

\* Every variable has its type, and an answer a worker has not written yet is
\* for an event it holds.
WorkerTypeOK ==
  /\ status \in [Events -> EventStatuses]
  /\ attempts \in [Events -> Nat]
  /\ due \in [Events -> BOOLEAN]
  /\ held \in [Workers -> [Events -> Nat]]
  /\ answer \in [Workers -> [event : Events, ok : BOOLEAN] \cup {None}]
  /\ taken \in [Events -> BOOLEAN]
  /\ tried \in [Events -> 0..MaxAttempts]
  /\ dropped \in [Events -> 0..MaxDrops]
  /\ \A w \in Workers : answer[w] # None => Holds(w, answer[w].event)

\* A row says delivered only if the merchant took the event, whichever worker
\* wrote the row and whatever answers were lost.
DeliveredWasTaken ==
  \A e \in Events : status[e] = "delivered" => taken[e]

\* An event is given up only after MaxAttempts claims, each of which was tried,
\* died with its worker or is still held by one: a late finish that lowers the
\* count never makes the workers give up early.
GivenUpAfterAttempts ==
  \A e \in Events : status[e] = "failed" =>
    tried[e] + dropped[e] + Cardinality(Holders(e)) >= MaxAttempts

\* An event that is still pending after MaxAttempts claims owes it to workers
\* that died or are late: every claim from that one on was dropped or is held.
OverrunOnlyByDrops ==
  \A e \in Events : status[e] = "pending" /\ attempts[e] >= MaxAttempts =>
    dropped[e] + Cardinality(Holders(e)) > attempts[e] - MaxAttempts

\* Every event is settled in the end and stays so, although finish may put a
\* delivered or failed event back to pending with fewer attempts: workers that
\* overwrite each other cannot keep an event alive for ever.
Settles ==
  \A e \in Events : status[e] = "pending" ~> [](status[e] # "pending")

\* The numbers of the attempts at e in flight: what each holder claimed it with.
Flight(e) == {held[w][e] : w \in Holders(e)}

\* The lease of e runs, and its holder is the only one and has the row's count.
Leased(e) ==
  /\ status[e] = "pending" /\ ~due[e]
  /\ \E w \in Workers : Holders(e) = {w} /\ held[w][e] = attempts[e]

Queue == INSTANCE DeliveryQueue WITH
  state  <- status,
  tries  <- attempts,
  flying <- [e \in Events |-> Flight(e)],
  leased <- [e \in Events |-> Leased(e)]

\* The workers implement the queue, whether leases run out or not. Until the
\* lease of an attempt lapses no other worker takes the event up, and then the
\* attempt settles it or leaves it pending with its count. After it lapsed the
\* attempts may overlap, and a finish may undo an outcome or lower the count,
\* but only to what a claim in flight remembers.
ImplementsQueue == Queue!QueueSpec
=============================================================================
