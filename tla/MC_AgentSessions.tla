-------------------------- MODULE MC_AgentSessions --------------------------
(***************************************************************************)
(* Instances of AgentSessions for TLC.  Two processes, and three submits so *)
(* that one runs while others arrive at either process.                     *)
(***************************************************************************)
EXTENDS AgentSessions

CONSTANTS s1, s2, p1, p2, p3

TwoServers == {s1, s2}
ThreePrompts == {p1, p2, p3}
=============================================================================
