------------------------ MODULE MCAgentConnections ------------------------
(***************************************************************************)
(* One agent that connects up to twice and whose row may be deleted and    *)
(* created again.  Two agents that share hostname and ip are in MCServices.*)
(***************************************************************************)
EXTENDS AgentConnections

CONSTANTS a1, s1, s2, i1, i2, h1

OneAgent == {a1}
TwoSockets == {s1, s2}
TwoIds == {i1, i2}
OneHost == {h1}
SameHost == [a \in Agents |-> h1]
=============================================================================
