---------------------------- MODULE MCExecution -----------------------------
(***************************************************************************)
(* Small configurations.                                                   *)
(*   Nested: the cache `left' wraps the cache `right', which wraps the     *)
(*           upstream `api'.                                               *)
(*   Mixed:  the same, and a template of `left' refers to the cache `memo' *)
(*           around the command `job': three keys of two origins.          *)
(*   Self:   the cache `left' wraps itself.                                *)
(*   Job:    the cache `left' wraps `job', and depends on it as well.      *)
(*   Keys:   the caches `left' and `right' wrap `api', whose id is "a",    *)
(*           and `job', whose id is "a:b".                                 *)
(***************************************************************************)
EXTENDS Execution

CONSTANTS left, right, memo, job, api

NestedKind  == left :> "cache" @@ right :> "cache" @@ api :> "http"
NestedWraps == left :> right @@ right :> api

MixedKind  == memo :> "cache" @@ job :> "exec" @@ NestedKind
MixedWraps == memo :> job @@ NestedWraps
MixedRefs  == [f \in Filter |->
    IF f = left THEN {[name |-> memo, form |-> "field"]} ELSE {}]

JobKind      == left :> "cache" @@ job :> "exec"
JobWraps     == left :> job
JobDependsOn == left :> {job} @@ job :> {}

NoDependsOn == [f \in Filter |-> {}]
NoRefs      == [f \in Filter |-> {}]

KeysKind  == left :> "cache" @@ right :> "cache" @@ api :> "http" @@ job :> "exec"
KeysWraps == left :> api @@ right :> job
KeysIds   == left :> <<"l">> @@ right :> <<"r">> @@ api :> <<"a">>
                 @@ job :> <<"a", ":", "b">>
TwoKeys   == {<<"x">>, <<"b", ":", "x">>}

(* A colon in an id does no harm as long as no key begins with what is left
   of it and of another id. *)
Ids == left :> <<"left">> @@ right :> <<"right">> @@ memo :> <<"memo">>
           @@ job :> <<"job">> @@ api :> <<"right", ":", "api">>
UsedIds == [f \in Filter |-> Ids[f]]
OneKey  == {<<"k">>}

SelfKind  == left :> "cache"
SelfWraps == left :> left
=============================================================================
