------------------------------ MODULE MCPort ------------------------------
(***************************************************************************)
(* Port for TLC, with the fairness of processes that go on with a call they *)
(* have started.                                                           *)
(***************************************************************************)
EXTENDS Port

\* The server goes on with a call; whether it makes one is its own affair.
ServerGoesOn == ServerStep /\ spc \notin {"user", "exiting"}

LiveSpec == /\ Spec
            /\ WF_vars(ServerGoesOn)
            /\ \A c \in Client : WF_vars(ClientStep(c))
=============================================================================
