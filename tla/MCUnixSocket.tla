----------------------------- MODULE MCUnixSocket ----------------------------
(* One process that crashes, one in its place, and two that meet it. *)
EXTENDS UnixSocket, TLC

Symmetric == Permutations(Process)
=============================================================================
