-------------------------- MODULE MCCaptureClient --------------------------
(***************************************************************************)
(* CaptureClient for TLC: presses whose requests can overlap, and a server *)
(* that can change its identity.  UUIDs and instance ids are only ever     *)
(* compared.                                                               *)
(***************************************************************************)
EXTENDS CaptureClient, TLC

CONSTANTS p1, p2, i1, i2

Symmetric == {presses @@ servers : presses \in Permutations({p1, p2}),
                                   servers \in Permutations({i1, i2})}
=============================================================================
