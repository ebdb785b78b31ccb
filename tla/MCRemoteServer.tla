--------------------------- MODULE MCRemoteServer ---------------------------
(***************************************************************************)
(* RemoteServer for TLC: clients that share two connections, a registry of *)
(* one capture, and one local capture beside the remote ones.  Handler     *)
(* threads are alike, and so are the ids clients draw: nothing in the      *)
(* model orders or names them.                                             *)
(***************************************************************************)
EXTENDS RemoteServer, TLC

CONSTANTS h1, h2, r1, r2, r3

Symmetric == {threads @@ drawn : threads \in Permutations({h1, h2}),
                                 drawn \in Permutations({r1, r2, r3})}
=============================================================================
