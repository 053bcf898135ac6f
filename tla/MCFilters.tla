----------------------------- MODULE MCFilters ------------------------------
(***************************************************************************)
(* Filters of every type, with the literals that tell their checks apart.  *)
(***************************************************************************)
EXTENDS Filters

Template == {"number", "text", "varying", "broken"}
Simple   == {"absent", "text"}

ParamsOf(type) ==
    CASE type = "static" -> [leaf : Template, nesting : {0, MaxDepth, MaxDepth + 1}]
      [] type = "env"    -> [name : {"absent", "number", "empty", "text"}]
      [] type = "http"   -> [unix_socket : Simple, method : {"absent", "broken"},
                             url : Template, body : Simple,
                             headers : {<<>>, <<"number">>, <<"broken">>}]
      [] type = "exec"   -> [command : UNION {[1..n -> Template] : n \in 0..2},
                             env : {<<>>, <<"varying">>},
                             timeout : {"number", "text", "broken"}]
      [] type = "file"   -> [path : Simple]
      [] type = "jq"     -> [input : Template, query : {"absent", "text", "broken"}]
      [] type = "base64" -> [input : Template, op : {"absent", "encode", "decode"}]
      [] type = "regex"  -> [input : Template, pattern : {"absent", "text", "broken"},
                             op : {"absent", "find", "find_all", "replace"},
                             replace : Simple, multiline : BOOLEAN]
      [] type = "cache"  -> [filter : {"absent", "text", "other"}, key : Template,
                             ttl : {"absent", "text", "broken"}]

Configs ==
    UNION {{[type |-> t, object |-> o, params |-> p] : o \in BOOLEAN, p \in ParamsOf(t)} :
               t \in FilterType}

Ids == {"text"}
=============================================================================
