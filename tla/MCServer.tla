------------------------------ MODULE MCServer ------------------------------
(* Files of two addresses and two contents, and one that does not load. *)
EXTENDS Server

CONSTANTS a, b, x, v, w, Broken

First == [server |-> [addr |-> a, limits |-> x], content |-> v]
Edited == Config \cup Unloadable
=============================================================================
