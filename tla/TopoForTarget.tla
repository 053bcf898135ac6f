--------------------------- MODULE TopoForTarget ----------------------------
(***************************************************************************)
(* topoForTarget (engine.go): the depth-first search that turns the        *)
(* dependency graph into the order in which one request executes filters.  *)
(* Go iterates over a map in an unspecified order, so the next dependency  *)
(* is any one that is left.  `stack' and `todo' are the recursion of dfs:  *)
(* the active calls, innermost last, and what is left of each one's loop.  *)
(***************************************************************************)
EXTENDS DepGraph, Sequences

VARIABLES
    g,          \* the engine's graph
    root,       \* the target filter of the route
    visiting,   \* nodes whose dfs call is active
    seen,       \* nodes whose dfs call has returned
    out,        \* the order built so far
    stack,      \* active dfs calls
    todo,       \* todo[n]: dependencies of n the loop has not taken yet
    topo        \* "running", "done", or "cycle" (an error was returned)

topoVars == <<g, root, visiting, seen, out, stack, todo, topo>>

Current == stack[Len(stack)]
Caller  == SubSeq(stack, 1, Len(stack) - 1)

(* The call dfs(root) has just been made. *)
TopoInit ==
    /\ g \in Graph
    /\ root \in Node
    /\ visiting = {root}
    /\ seen = {}
    /\ out = <<>>
    /\ stack = <<root>>
    /\ todo = [n \in Node |-> IF n = root THEN g[root] ELSE {}]
    /\ topo = "running"

(* dfs(d) finds d active: the error travels up through every call. *)
FindCycle(d) ==
    /\ d \in visiting
    /\ topo' = "cycle"
    /\ UNCHANGED <<g, root, visiting, seen, out, stack, todo>>

(* dfs(d) returns at once: d was finished before. *)
SkipSeen(d) ==
    /\ d \notin visiting
    /\ d \in seen
    /\ todo' = [todo EXCEPT ![Current] = @ \ {d}]
    /\ UNCHANGED <<g, root, visiting, seen, out, stack, topo>>

(* A variant of Descend that forgets to mark the node it enters. *)
DescendUnmarked(d) ==
    /\ d \notin visiting
    /\ d \notin seen
    /\ Len(stack) <= Cardinality(Node)
    /\ stack' = Append(stack, d)
    /\ todo' = [todo EXCEPT ![Current] = @ \ {d}, ![d] = g[d]]
    /\ UNCHANGED <<g, root, visiting, seen, out, topo>>

(* dfs(d) starts on a new node. *)
Descend(d) ==
    /\ d \notin visiting
    /\ d \notin seen
    /\ visiting' = visiting \cup {d}
    /\ stack' = Append(stack, d)
    /\ todo' = [todo EXCEPT ![Current] = @ \ {d}, ![d] = g[d]]
    /\ UNCHANGED <<g, root, seen, out, topo>>

(* A variant of Leave that keeps the node marked as active. *)
LeaveStillVisiting ==
    /\ todo[Current] = {}
    /\ seen' = seen \cup {Current}
    /\ out' = Append(out, Current)
    /\ stack' = Caller
    /\ topo' = IF Len(stack) = 1 THEN "done" ELSE "running"
    /\ UNCHANGED <<g, root, visiting, todo>>

(* A variant of Leave that leaves before the dependencies are done. *)
LeaveEarly ==
    /\ visiting' = visiting \ {Current}
    /\ seen' = seen \cup {Current}
    /\ out' = Append(out, Current)
    /\ stack' = Caller
    /\ topo' = IF Len(stack) = 1 THEN "done" ELSE "running"
    /\ UNCHANGED <<g, root, todo>>

(* The loop of the innermost call is over: the call returns. *)
Leave ==
    /\ todo[Current] = {}
    /\ visiting' = visiting \ {Current}
    /\ seen' = seen \cup {Current}
    /\ out' = Append(out, Current)
    /\ stack' = Caller
    /\ topo' = IF Len(stack) = 1 THEN "done" ELSE "running"
    /\ UNCHANGED <<g, root, todo>>

TopoNext ==
    /\ topo = "running"
    /\ \/ \E d \in todo[Current] : FindCycle(d) \/ SkipSeen(d) \/ Descend(d)
       \/ Leave

TopoSpec == TopoInit /\ [][TopoNext]_topoVars /\ WF_topoVars(TopoNext)

-----------------------------------------------------------------------------
(* The variables have their types, and the marks are those of the active
   calls. *)
TopoTypeOK ==
    /\ g \in Graph
    /\ root \in Node
    /\ visiting \in SUBSET Node
    /\ seen \in SUBSET Node
    /\ out \in Seq(Node)
    /\ stack \in Seq(Node)
    /\ todo \in [Node -> SUBSET Node]
    /\ topo \in {"running", "done", "cycle"}
    /\ visiting = Range(stack)

(***************************************************************************)
(* Execute stores each result in resultMap as it goes, so a filter must    *)
(* come after everything it depends on and must not run twice.             *)
(***************************************************************************)
DependenciesFirst ==
    /\ \A i \in 1..Len(out) : \A d \in g[out[i]] :
            \E j \in 1..(i - 1) : out[j] = d
    /\ \A i, j \in 1..Len(out) : out[i] = out[j] => i = j

(***************************************************************************)
(* SPEC.md "execute only required filters": the finished order holds       *)
(* exactly the filters reachable from the target, and the target is last.  *)
(***************************************************************************)
ExactlyReachable ==
    topo = "done" =>
        /\ Range(out) = Reachable(g, root)
        /\ out # <<>> /\ out[Len(out)] = root

(***************************************************************************)
(* The per-request cycle check agrees with the check at load time: a graph *)
(* without circular dependencies is never refused, and an order is never   *)
(* handed out when the part of the graph under the target is circular.     *)
(***************************************************************************)
CycleVerdict ==
    /\ topo = "cycle" => ~ Acyclic(g)
    /\ topo = "done"  => AcyclicOn(g, Reachable(g, root))

(* The search ends, whatever the graph. *)
SearchEnds == <>(topo # "running")
=============================================================================
