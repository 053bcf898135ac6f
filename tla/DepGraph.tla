------------------------------ MODULE DepGraph ------------------------------
(***************************************************************************)
(* The filter dependency graph of gilterweb (deps.go): how it is built     *)
(* from a configuration, and the reference notions (reachable, acyclic)    *)
(* the two depth-first searches of the program are judged by.              *)
(*                                                                         *)
(* A filter configuration keeps of its params only what the graph and the  *)
(* execution tell apart: the filters it names in depends_on, and the names *)
(* its templates refer to together with the form each is written in.       *)
(***************************************************************************)
EXTENDS Naturals, FiniteSets, Functions, Sequences

CONSTANT Node           \* the filter ids of the configuration

Graph == [Node -> SUBSET Node]

(* {{.A}}, {{$.A}} and {{index . "A"}} all read A at run time. *)
RefForm == {"field", "variable", "lookup"}

(* The entry of the request context every template may read: not a filter. *)
RequestEntry == "req"

(* A variant of InferTemplateDeps that gives up on templates it cannot parse
   without the engine's functions. *)
InferParsedOnly(refs) == {}

(***************************************************************************)
(* inferTemplateDeps: only FieldNodes are collected (and, when the string  *)
(* does not parse without the engine's functions, only ".name" is matched  *)
(* by the regular expression); $.name and index lookups are not.           *)
(***************************************************************************)
InferTemplateDeps(refs) == {x.name : x \in {y \in refs : y.form = "field"}}

(* BuildDependencyGraph, before its call of detectCycle. *)
BuildDependencyGraph(filters) ==
    [f \in Node |->
        filters[f].dependsOn
            \cup ((InferTemplateDeps(filters[f].refs) \ {RequestEntry}) \cap Node)]

-----------------------------------------------------------------------------
(* Reference notions: not code, but what the code is compared with. *)

Closed(g, S) == \A n \in S : g[n] \subseteq S

(* The filters reachable from r: those in every closed set that holds r. *)
Reachable(g, r) ==
    {n \in Node : \A S \in SUBSET Node : r \in S /\ Closed(g, S) => n \in S}

(* No circular dependency inside T: every non-empty part of T has a member
   that depends on nothing in that part. *)
AcyclicOn(g, T) == \A S \in SUBSET T : S # {} => \E n \in S : g[n] \cap S = {}

Acyclic(g) == AcyclicOn(g, Node)

(* What topoForTarget returns for a target: the reachable filters, each once,
   dependencies first, the target last. *)
IsOrder(g, p, target) ==
    /\ p # <<>> /\ p[Len(p)] = target
    /\ Range(p) = Reachable(g, target)
    /\ \A i, j \in 1..Len(p) : p[i] = p[j] => i = j
    /\ \A i, j \in 1..Len(p) : p[j] \in g[p[i]] => j < i
=============================================================================
