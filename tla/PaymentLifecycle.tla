-------------------------- MODULE PaymentLifecycle --------------------------
(***************************************************************************)
(* What the service promises of a payment, without handlers, versions,     *)
(* keys or a provider: it moves along one diagram, each move is appended   *)
(* to its log and, unless it only starts the authorization, announced to   *)
(* the merchant, all in one step; nothing is ever taken back.              *)
(***************************************************************************)
EXTENDS Sequences

CONSTANTS Payments, None

VARIABLES status,   \* status[p], None until p is created
          log,      \* log[p]: the statuses p went through
          notices   \* notices[p]: the statuses announced to the merchant

lifecycleVars == <<status, log, notices>>

Edges == {<<"requires_payment", "processing">>,
          <<"processing", "authorized">>, <<"processing", "failed">>,
          <<"authorized", "captured">>, <<"authorized", "cancelled">>,
          <<"captured", "refunded">>}

LifecycleInit ==
  /\ status = [p \in Payments |-> None]
  /\ log = [p \in Payments |-> <<>>]
  /\ notices = [p \in Payments |-> <<>>]

Enter(p, to) ==
  /\ status' = [status EXCEPT ![p] = to]
  /\ log' = [log EXCEPT ![p] = Append(@, to)]
  /\ notices' = IF to = "processing" THEN notices
                ELSE [notices EXCEPT ![p] = Append(@, to)]

Open(p) == status[p] = None /\ Enter(p, "requires_payment")

Move(p, to) == <<status[p], to>> \in Edges /\ Enter(p, to)

LifecycleNext ==
  \E p \in Payments : \/ Open(p)
                      \/ \E to \in {e[2] : e \in Edges} : Move(p, to)

LifecycleSpec == LifecycleInit /\ [][LifecycleNext]_lifecycleVars
=============================================================================
