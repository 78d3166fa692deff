-------------------------------- MODULE Desk --------------------------------
(***************************************************************************)
(* The desk (src/web): one browser tab that shows one payment, polls it    *)
(* while it is processing, remembers in sessionStorage the payments it has *)
(* seen, and sends the user's requests one at a time.                      *)
(*                                                                         *)
(* The server is the abstract payment: whatever this tab, other clients,   *)
(* the provider or a handler left behind do to a payment is a move of its  *)
(* lifecycle, at any time. An answer is taken from the payment at one      *)
(* moment and applied at a later one. What the desk only displays (the     *)
(* event list, the discrepancies, the API's health, the last exchange) is  *)
(* left out.                                                               *)
(***************************************************************************)
EXTENDS PaymentLifecycle, SequencesExt, BagsExt

CONSTANTS LostIds,       \* payments of an earlier database, which the session
                         \* the tab starts with still remembers, latest first
          Moves,         \* bound: the edges that payments take
          Calls,         \* slots for the requests of the user
          SessionLimit,  \* how many payments a session remembers
          MaxPolls       \* bound: polls in flight

ASSUME DeskAssumption == /\ LostIds \in Seq(Payments) /\ IsInjective(LostIds)
                         /\ Moves \subseteq Edges
                         /\ {SessionLimit, MaxPolls} \subseteq Nat \ {0}

VARIABLES session,     \* sessionStorage: the payment selected and the payments
                       \* remembered, latest first
          shown,       \* the payment on display, as last answered, or None
          calls,       \* calls[c]: a request in flight
          loads,       \* the reads that selections started and did not cancel
          polls,       \* a bag: the reads that the timer started
          remembered   \* history: every payment ever remembered, latest first

deskVars == <<session, shown, calls, loads, polls, remembered>>
vars == <<lifecycleVars, deskVars>>

DeskStatuses == {e[1] : e \in Edges} \cup {e[2] : e \in Edges}

Lost == ToSet(LostIds)

Shown == [id : Payments \ Lost, status : DeskStatuses]

ASSUME NoneAssumption == None \notin Payments \cup DeskStatuses \cup Shown

\* "waiting": the server has not looked yet.
Answers == DeskStatuses \cup {"waiting", "NOT_FOUND"}

Session == [current : Payments \cup {None}, ids : Seq(Payments)]

Read == [id : Payments, answer : Answers]

\* A request, with what its closure holds of the session it was clicked in.
Call == [op : {"create", "lookup", "act"}, id : Payments \cup {None},
         answer : Answers, ids : Seq(Payments)]

\* The declared types; a session holds no more than its limit, and each payment
\* once.
DeskTypeOK ==
  /\ session \in Session
  /\ Len(session.ids) <= SessionLimit
  /\ IsInjective(session.ids)
  /\ shown \in Shown \cup {None}
  /\ calls \in [Calls -> Call \cup {None}]
  /\ loads \subseteq Read
  /\ IsABag(polls)
  /\ BagToSet(polls) \subseteq Read
  /\ remembered \in Seq(Payments)

-----------------------------------------------------------------------------
(* Reads *)

Ask(id) == [id |-> id, answer |-> "waiting"]

Answer(read) ==
  [read EXCEPT !.answer =
     IF status[read.id] = None THEN "NOT_FOUND" ELSE status[read.id]]

Arrived(read) == read.answer # "waiting"

Show(read) == shown' = [id |-> read.id, status |-> read.answer]

\* Mutant of StartLoad: the effect has no cleanup.
StartLoad_NoCleanup(id) == loads' = loads \cup {Ask(id)}

\* The effect of a new selection. Its cleanup cancels the load before it, whose
\* answer will be ignored.
StartLoad(id) == loads' = {Ask(id)}

-----------------------------------------------------------------------------
(* The session *)

WriteSession(s) ==
  /\ session' = s
  /\ IF s.current = session.current THEN UNCHANGED loads
                                    ELSE StartLoad(s.current)

\* Mutant of Recent: an id that is remembered again stays where it was, too.
Recent_Again(ids, id) == <<id>> \o ids

\* A sequence of ids when one more is remembered: ids holds each once
\* (DeskTypeOK), so the filter takes out the only one there may be.
Recent(ids, id) == <<id>> \o RemoveFirst(ids, id)

Latest(ids) == SubSeq(ids, 1, Min({Len(ids), SessionLimit}))

\* rememberPayment: the ids are those of the render that the click saw.
Remember(ids, id) ==
  /\ WriteSession([current |-> id, ids |-> Latest(Recent(ids, id))])
  /\ remembered' = Recent(remembered, id)

\* The load that a tab starts with.
FirstLoad == IF session.current = None THEN {} ELSE {Ask(session.current)}

\* A tab opens with what its session holds.
DeskInit ==
  /\ LifecycleInit
  /\ remembered = LostIds
  /\ session = [ids |-> Latest(remembered),
                current |-> IF LostIds = <<>> THEN None ELSE Head(LostIds)]
  /\ shown = None
  /\ calls = [c \in Calls |-> None]
  /\ loads = FirstLoad
  /\ polls = EmptyBag

\* Everything but the session is forgotten; the server may still serve what it
\* was sent.
ReloadPage ==
  /\ shown' = None
  /\ calls' = [c \in Calls |-> None]
  /\ loads' = FirstLoad
  /\ polls' = EmptyBag
  /\ UNCHANGED <<lifecycleVars, session, remembered>>

\* A click on a remembered payment or on one of a discrepancy. Neither is
\* disabled while a request is in flight.
Select(id) ==
  /\ id \in ToSet(session.ids) \/ status[id] # None
  /\ WriteSession([session EXCEPT !.current = id])
  /\ UNCHANGED <<lifecycleVars, shown, calls, polls, remembered>>

-----------------------------------------------------------------------------
(* Loads and polls *)

LoadServed(read) ==
  /\ ~Arrived(read)
  /\ loads' = (loads \ {read}) \cup {Answer(read)}
  /\ UNCHANGED <<lifecycleVars, session, shown, calls, polls, remembered>>

LoadArrives(read) ==
  /\ Arrived(read)
  /\ IF read.answer = "NOT_FOUND" THEN shown' = None ELSE Show(read)
  /\ loads' = loads \ {read}
  /\ UNCHANGED <<lifecycleVars, session, calls, polls, remembered>>

\* Any other error is ignored, and the load is not repeated.
LoadFails(read) ==
  /\ loads' = loads \ {read}
  /\ UNCHANGED <<lifecycleVars, session, shown, calls, polls, remembered>>

ShowsProcessing == shown # None /\ shown.status = "processing"

StartPoll(id) ==
  /\ BagCardinality(polls) < MaxPolls
  /\ polls' = BagAdd(polls, Ask(id))
  /\ UNCHANGED <<lifecycleVars, session, shown, calls, loads, remembered>>

\* Mutant of PollTick: only the selected payment is polled.
PollTick_Selected ==
  ShowsProcessing /\ shown.id = session.current /\ StartPoll(shown.id)

\* Every two seconds while the payment on display is processing, whatever
\* became of the polls before.
PollTick == ShowsProcessing /\ StartPoll(shown.id)

PollServed(read) ==
  /\ ~Arrived(read)
  /\ polls' = BagAdd(BagRemove(polls, read), Answer(read))
  /\ UNCHANGED <<lifecycleVars, session, shown, calls, loads, remembered>>

\* loadPayment shows whatever is answered: nothing cancels a poll.
PollArrives(read) ==
  /\ Arrived(read)
  /\ Show(read)
  /\ polls' = BagRemove(polls, read)
  /\ UNCHANGED <<lifecycleVars, session, calls, loads, remembered>>

PollFails(read) ==
  /\ polls' = BagRemove(polls, read)
  /\ UNCHANGED <<lifecycleVars, session, shown, calls, loads, remembered>>

-----------------------------------------------------------------------------
(* Requests *)

Free(c) == calls[c] = None

\* Mutant of Ready: the controls are not disabled while a request is in flight.
Ready_Any(c) == Free(c)

\* busy: while a request is in flight every control that starts one is disabled.
Ready(c) == /\ \A d \in Calls : Free(d)
            /\ c = CHOOSE d \in Calls : TRUE

Send(c, op, id) ==
  /\ Ready(c)
  /\ calls' = [calls EXCEPT ![c] =
       [op |-> op, id |-> id, answer |-> "waiting", ids |-> session.ids]]
  /\ UNCHANGED <<lifecycleVars, session, shown, loads, polls, remembered>>

ClickCreate(c) == Send(c, "create", None)

\* GET by id. Sending the last creation again with its key ends in the same way,
\* with the payment that the key made (with another body, in CallFails).
ClickLookup(c, id) == Send(c, "lookup", id)

\* An action that the status on display offers, or a provider event, for the
\* payment on display.
ClickAct(c) == shown # None /\ Send(c, "act", shown.id)

CreateServed(c) ==
  /\ ~Free(c) /\ calls[c].op = "create" /\ ~Arrived(calls[c])
  /\ \E p \in Payments \ Lost :
       /\ Open(p)
       /\ calls' = [calls EXCEPT ![c].id = p, ![c].answer = "requires_payment"]
  /\ UNCHANGED <<session, shown, loads, polls, remembered>>

\* What an action or provider event does to its payment is a step of the server
\* before this one; it is only answered with success past the decision.
CallServed(c) ==
  /\ ~Free(c) /\ calls[c].op # "create" /\ ~Arrived(calls[c])
  /\ status[calls[c].id] # None
  /\ calls[c].op = "act" =>
       status[calls[c].id] \notin {"requires_payment", "processing"}
  /\ calls' = [calls EXCEPT ![c] = Answer(@)]
  /\ UNCHANGED <<lifecycleVars, session, shown, loads, polls, remembered>>

\* The answer is shown and, but for an action or provider event, its payment
\* selected and remembered.
CallArrives(c) ==
  /\ ~Free(c) /\ Arrived(calls[c])
  /\ Show(calls[c])
  /\ calls' = [calls EXCEPT ![c] = None]
  /\ \/ calls[c].op = "act" /\ UNCHANGED <<session, loads, remembered>>
     \/ calls[c].op # "act" /\ Remember(calls[c].ids, calls[c].id)
  /\ UNCHANGED <<lifecycleVars, polls>>

\* Refused, or the answer is lost: the server may have done what it asked.
CallFails(c) ==
  /\ ~Free(c)
  /\ calls' = [calls EXCEPT ![c] = None]
  /\ UNCHANGED <<lifecycleVars, session, shown, loads, polls, remembered>>

-----------------------------------------------------------------------------
(* The server *)

Decide(p) ==
  /\ status[p] = "processing"
  /\ \E e \in Moves : status[p] = e[1] /\ Move(p, e[2])
  /\ UNCHANGED deskVars

\* Somebody opens a payment or moves one.
Serve(p) ==
  /\ p \notin Lost
  /\ Open(p) \/ \E e \in Moves : status[p] = e[1] /\ Move(p, e[2])
  /\ UNCHANGED deskVars

DeskNext ==
  \/ ReloadPage
  \/ PollTick
  \/ \E p \in Payments : Select(p) \/ Serve(p)
  \/ \E r \in loads : LoadServed(r) \/ LoadArrives(r) \/ LoadFails(r)
  \/ \E r \in BagToSet(polls) : PollServed(r) \/ PollArrives(r) \/ PollFails(r)
  \/ \E c \in Calls : \/ ClickCreate(c) \/ ClickAct(c)
                      \/ \E id \in Payments : ClickLookup(c, id)
                      \/ CreateServed(c) \/ CallServed(c)
                      \/ CallArrives(c) \/ CallFails(c)

DeskSpec == DeskInit /\ [][DeskNext]_vars

-----------------------------------------------------------------------------
(* Properties *)

\* A payment other than the selected one comes on display only by a late poll
\* or the answer to a request, and the display is only cleared for the selected
\* payment: no load that a later selection cancelled changes what is shown.
StraysOnlyLate ==
  [][shown' # shown =>
       \/ shown' = None /\ session.current \in Lost
       \/ shown' # None /\ shown'.id = session'.current
       \/ polls' # polls
       \/ calls' # calls
       \/ ReloadPage]_vars

\* A request remembers its payment on top of the session it was clicked in,
\* which may be long ago; because requests go one at a time none is lost: the
\* session holds the payments remembered last.
IdsKept == session.ids = Latest(remembered)

\* A payment in processing is decided (by its handler, a repeat or the provider:
\* the service's RetryDecides), the timer ticks, and the network does not fail
\* for ever.
DeskFairness ==
  /\ \A p \in Payments : WF_vars(Decide(p))
  /\ SF_vars(PollTick)
  /\ SF_vars(\E r \in BagToSet(polls) : PollServed(r))
  /\ SF_vars(\E r \in BagToSet(polls) : PollArrives(r))

FairDeskSpec == DeskSpec /\ DeskFairness

\* The desk does not show "processing" for ever: polls overlap, overtake each
\* other, fail, and outlive the selection, but the payment on display is polled
\* until it is decided, selected or not.
PollCatchesUp == ShowsProcessing ~> ~ShowsProcessing
=============================================================================
