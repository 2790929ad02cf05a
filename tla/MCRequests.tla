----------------------------- MODULE MCRequests -----------------------------
(***************************************************************************)
(* What is asked of the service, from three sides that share nothing:      *)
(* what the engine makes of a request (Lifecycle), how one comes to it and *)
(* its answer goes back (Exchange), and the one that works on files of     *)
(* others without a lock (Setup).  `part` chooses at the start which of    *)
(* them a behaviour exercises.                                             *)
(***************************************************************************)
EXTENDS Lifecycle, Exchange, Setup, TLC

CONSTANTS hooks, table

VARIABLE part

requestsVars == <<part, vars, exchangeVars, setupVars>>

\* A file of servers is one of hooks in which nothing bears CoreScout's name.
FormatOf == hooks :> "hooks" @@ table :> "table"

\* The initial states of a part matter to behaviours that exercise it only.
RequestsInit ==
    /\ part \in {"lifecycle", "exchange", "setup"}
    /\ Init /\ ExchangeInit /\ SetupInit
    /\ part # "exchange" => \A a \in Asker : ~bridge[a].client
    /\ part # "setup" => \A d \in File : file[d] = Empty

RequestsNext ==
    /\ UNCHANGED part
    /\ \/ part = "lifecycle" /\ Next /\ UNCHANGED <<exchangeVars, setupVars>>
       \/ part = "exchange" /\ ExchangeNext /\ UNCHANGED <<vars, setupVars>>
       \/ part = "setup" /\ SetupNext /\ UNCHANGED <<vars, exchangeVars>>

RequestsSpec == RequestsInit /\ [][RequestsNext]_requestsVars

Symmetric == Permutations(Caller) \cup Permutations(Asker)
=============================================================================
