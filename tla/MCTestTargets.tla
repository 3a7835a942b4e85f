---------------------------- MODULE MCTestTargets ----------------------------
(* Two addresses the operator can type, two ports and two local settings:   *)
(* enough for every field to change and for a mock to be moved to another   *)
(* port.  The values of each kind are interchangeable.                      *)
EXTENDS TestTargets, TLC
CONSTANTS a1, a2, loop, p1, p2, l1, l2
MCAddresses == {a1, a2}
MCPorts == {p1, p2}
MCLocals == {l1, l2}
MCSymmetry == Permutations(MCAddresses) \cup Permutations(MCPorts) \cup Permutations(MCLocals)
=============================================================================
