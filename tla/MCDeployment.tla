---------------------------- MODULE MCDeployment ----------------------------
(***************************************************************************)
(* The file is absent, the first one, one with another address, the one    *)
(* init-config writes, or a beginning of it: refused, or taken for the     *)
(* default configuration.                                                  *)
(***************************************************************************)
EXTENDS Deployment

CONSTANTS a, b, x, v, w, empty, Torn, unforced, forced

Written(addr, content) ==
    [server |-> [addr |-> addr, limits |-> x], content |-> content]

First == Written(a, v)
InitFile == Written(a, w)
Beginnings == {Torn, Written(a, empty)}
Edited == {Absent, Written(b, w), InitFile}
=============================================================================
