------------------------------- MODULE MCDesk -------------------------------
(* A small instance of the desk for TLC. *)
EXTENDS Desk

CONSTANT p3

\* One payment of an earlier database.
OneLost == <<p3>>

\* Authorized, and no further.
ShortLives == {<<"requires_payment", "processing">>,
               <<"processing", "authorized">>}
=============================================================================
