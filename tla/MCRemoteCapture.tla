-------------------------- MODULE MCRemoteCapture --------------------------
(***************************************************************************)
(* RemoteCapture for TLC: presses (p) and processes (i) are interchangeable *)
(* in the safety run; the others have one press and take no symmetry.      *)
(***************************************************************************)
EXTENDS RemoteCapture, TLC

CONSTANTS p1, p2, i1, i2

Symmetric == {presses @@ servers : presses \in Permutations({p1, p2}),
                                   servers \in Permutations({i1, i2})}
=============================================================================
