-------------------------- MODULE MCLinkbackEngine --------------------------
(* LinkbackEngine for TLC: two bonded phones, or three for two links.       *)
EXTENDS LinkbackEngine

CONSTANTS a1, a2, a3

Bonds == <<a1, a2>>

ThreeBonds == <<a1, a2, a3>>

A2dpPlan == [a \in Addr |-> {"A2DP"}]

CallPlan == [a \in Addr |-> {"HFP"}]

AudioCallPlan == [a \in Addr |-> {"A2DP", "HFP"}]

\* The phones differ in what they were last connected for.
MixedPlan ==
  [a \in Addr |-> IF a = a1 THEN {"A2DP", "AVRCP"} ELSE {"HFP"}]

=============================================================================
