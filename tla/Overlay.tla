------------------------------- MODULE Overlay ------------------------------
(***************************************************************************)
(* The combination of functions, as module TLC has it: the provers know no *)
(* definition of TLC's.                                                    *)
(***************************************************************************)

(* f, and g where f is not defined. *)
f @@ g == [x \in DOMAIN f \cup DOMAIN g |-> IF x \in DOMAIN f THEN f[x] ELSE g[x]]

key :> value == [x \in {key} |-> value]
=============================================================================
