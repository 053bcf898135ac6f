---------------------------- MODULE DetectCycle -----------------------------
(***************************************************************************)
(* detectCycle (deps.go): the three-colour search that decides, when a     *)
(* configuration is loaded, checked or reloaded, whether its dependency    *)
(* graph is accepted.  Both of its loops range over Go maps, so the next   *)
(* root and the next dependency are any ones that are left.                *)
(***************************************************************************)
EXTENDS DepGraph, Sequences

VARIABLES
    graph,      \* the graph under examination
    color,      \* white: not met, gray: its dfs call is active, black: returned
    calls,      \* active dfs calls, innermost last
    left,       \* left[n]: dependencies of n its loop has not taken yet
    verdict     \* "running", "accepted", or "refused" (an error was returned)

detectVars == <<graph, color, calls, left, verdict>>

Colored(c) == {n \in Node : color[n] = c}
Innermost  == calls[Len(calls)]

DetectInit ==
    /\ graph \in Graph
    /\ color = [n \in Node |-> "white"]
    /\ calls = <<>>
    /\ left = [n \in Node |-> {}]
    /\ verdict = "running"

(* The outer loop calls dfs on a node no search has met yet. *)
StartAt(n) ==
    /\ calls = <<>>
    /\ color[n] = "white"
    /\ color' = [color EXCEPT ![n] = "gray"]
    /\ calls' = <<n>>
    /\ left' = [left EXCEPT ![n] = graph[n]]
    /\ UNCHANGED <<graph, verdict>>

(* A variant of TakeGray without the test of the gray colour. *)
TakeGrayUnnoticed(d) ==
    /\ color[d] = "gray"
    /\ left' = [left EXCEPT ![Innermost] = @ \ {d}]
    /\ UNCHANGED <<graph, color, calls, verdict>>

(* An edge to an active call closes a cycle: every call returns the error. *)
TakeGray(d) ==
    /\ color[d] = "gray"
    /\ verdict' = "refused"
    /\ UNCHANGED <<graph, color, calls, left>>

(* A variant of TakeBlack for a search with two colours only. *)
TakeBlackRefused(d) ==
    /\ color[d] = "black"
    /\ verdict' = "refused"
    /\ UNCHANGED <<graph, color, calls, left>>

(* An edge to a finished node needs nothing more. *)
TakeBlack(d) ==
    /\ color[d] = "black"
    /\ left' = [left EXCEPT ![Innermost] = @ \ {d}]
    /\ UNCHANGED <<graph, color, calls, verdict>>

(* An edge to a new node: dfs calls itself. *)
TakeWhite(d) ==
    /\ color[d] = "white"
    /\ color' = [color EXCEPT ![d] = "gray"]
    /\ calls' = Append(calls, d)
    /\ left' = [left EXCEPT ![Innermost] = @ \ {d}, ![d] = graph[d]]
    /\ UNCHANGED <<graph, verdict>>

(* A variant of Return that clears the mark instead of setting it black. *)
ReturnWhite ==
    /\ calls # <<>>
    /\ left[Innermost] = {}
    /\ color' = [color EXCEPT ![Innermost] = "white"]
    /\ calls' = SubSeq(calls, 1, Len(calls) - 1)
    /\ UNCHANGED <<graph, left, verdict>>

(* A variant of Return that forgets to color the node. *)
ReturnGray ==
    /\ calls # <<>>
    /\ left[Innermost] = {}
    /\ calls' = SubSeq(calls, 1, Len(calls) - 1)
    /\ UNCHANGED <<graph, color, left, verdict>>

(* The innermost loop is over: its call returns without an error. *)
Return ==
    /\ calls # <<>>
    /\ left[Innermost] = {}
    /\ color' = [color EXCEPT ![Innermost] = "black"]
    /\ calls' = SubSeq(calls, 1, Len(calls) - 1)
    /\ UNCHANGED <<graph, left, verdict>>

(* The outer loop has no white node left. *)
Accept ==
    /\ calls = <<>>
    /\ Colored("white") = {}
    /\ verdict' = "accepted"
    /\ UNCHANGED <<graph, color, calls, left>>

DetectNext ==
    /\ verdict = "running"
    /\ \/ \E n \in Node : StartAt(n)
       \/ calls # <<>> /\ \E d \in left[Innermost] :
             TakeGray(d) \/ TakeBlack(d) \/ TakeWhite(d)
       \/ Return
       \/ Accept

DetectSpec ==
    DetectInit /\ [][DetectNext]_detectVars /\ WF_detectVars(DetectNext)

-----------------------------------------------------------------------------
(* The variables have their types, and gray is the colour of active calls. *)
DetectTypeOK ==
    /\ graph \in Graph
    /\ color \in [Node -> {"white", "gray", "black"}]
    /\ calls \in Seq(Node)
    /\ left \in [Node -> SUBSET Node]
    /\ verdict \in {"running", "accepted", "refused"}
    /\ Colored("gray") = Range(calls)

(***************************************************************************)
(* SPEC.md "circular dependency must fail config validation", in both      *)
(* directions: detectCycle accepts exactly the graphs without a cycle,     *)
(* wherever it starts and in whatever order the maps are walked.           *)
(***************************************************************************)
VerdictRight ==
    /\ verdict = "accepted" => Acyclic(graph)
    /\ verdict = "refused"  => ~ Acyclic(graph)

(***************************************************************************)
(* What lets the search skip a black node: all it leads to is black, and   *)
(* no cycle runs through black nodes.                                      *)
(***************************************************************************)
BlackIsSafe ==
    /\ Closed(graph, Colored("black"))
    /\ AcyclicOn(graph, Colored("black"))

(* What one step may do to the colour of a node. *)
Shades == {<<"white", "white">>, <<"white", "gray">>, <<"gray", "gray">>,
           <<"gray", "black">>, <<"black", "black">>}

(* One dfs call per node: the search is linear, as a node never goes back. *)
ColorsOnlyDarken ==
    [][\A n \in Node : <<color[n], color'[n]>> \in Shades]_detectVars

(* Loading a configuration gets an answer, whatever the graph. *)
DetectionEnds == <>(verdict # "running")
=============================================================================
