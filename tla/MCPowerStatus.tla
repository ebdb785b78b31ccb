---------------------------- MODULE MCPowerStatus ----------------------------
(***************************************************************************)
(* PowerStatus for TLC: 13 percent on battery and 16 percent on external    *)
(* power, the deadband apart.  The low byte of a register comes first.      *)
(***************************************************************************)
EXTENDS PowerStatus

TwoReadings == {[word |-> 13, external |-> FALSE], [word |-> 16, external |-> TRUE]}
=============================================================================
