-------------------------- MODULE MCAgentSessions --------------------------
(* Instances of AgentSessions for TLC. *)
EXTENDS AgentSessions, TLC

\* Every session is a bridge of the same controller, or of none.
SamePad == [s \in 1..MaxSession |-> Pad \cup {NoPad}]

\* Every session is a bridge of the same controller.
AlwaysPad == [s \in 1..MaxSession |-> Pad]

\* Busids, and ports, only meet the others of their set.
Names == Permutations(BusId) \cup Permutations(Port)
=============================================================================
