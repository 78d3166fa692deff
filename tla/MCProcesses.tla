---------------------------- MODULE MCProcesses ----------------------------
(* A small instance of the processes for TLC. *)
EXTENDS Processes

CONSTANTS api, worker

\* The api runs the loops itself, and a worker is started next to it.
Both == [p \in {api, worker} |->
          [api |-> p = api, database |-> TRUE, webhook |-> TRUE,
           runWorker |-> TRUE]]
=============================================================================
