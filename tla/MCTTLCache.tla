----------------------------- MODULE MCTTLCache -----------------------------
(***************************************************************************)
(* Three keys in a cache of two: every order of uses before an eviction.   *)
(* Durations from "already over" to longer than one tick; two values, so   *)
(* that an update shows.                                                   *)
(***************************************************************************)
EXTENDS TTLCache

TTLs == {-1, 0, 1}
=============================================================================
