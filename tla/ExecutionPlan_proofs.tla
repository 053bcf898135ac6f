------------------------ MODULE ExecutionPlan_proofs ------------------------
(***************************************************************************)
(* The two searches on one graph, for any number of filters, every graph   *)
(* and every iteration order: each is right by itself, from an invariant   *)
(* of its own, and from the two invariants they agree.                     *)
(***************************************************************************)
EXTENDS ExecutionPlan, StackLemmas, FiniteSetTheorems

-----------------------------------------------------------------------------
(***************************************************************************)
(* detectCycle accepts a graph exactly when it has no circular dependency, *)
(* for every finite or infinite set of filters and every iteration order.  *)
(***************************************************************************)

Black == Colored("black")

(* The active calls form a path of distinct nodes. *)
CallsArePath == Injective(calls) /\ Path(graph, calls)

(* What a loop has taken is finished, but for the call it waits for. *)
TakenIsFinished ==
    /\ \A n \in Node : left[n] \subseteq graph[n]
    /\ \A i \in 1..Len(calls) : \A d \in graph[calls[i]] \ left[calls[i]] :
           d \in Black \/ (i < Len(calls) /\ d = calls[i + 1])

(* What the two answers were based on. *)
Evidence ==
    /\ verdict = "accepted" => calls = <<>> /\ Colored("white") = {}
    /\ verdict = "refused"  =>
           calls # <<>> /\ graph[Innermost] \cap Range(calls) # {}

DetectInv ==
    /\ DetectTypeOK
    /\ CallsArePath
    /\ TakenIsFinished
    /\ BlackIsSafe
    /\ Evidence

-----------------------------------------------------------------------------
(* The search starts in the invariant. *)
LEMMA DetectInitInv == DetectInit => DetectInv
<1> SUFFICES ASSUME DetectInit PROVE DetectInv
  OBVIOUS
<1>1. calls \in Seq(Node) /\ Len(calls) = 0 /\ Range(calls) = {}
  BY EmptyStack DEF DetectInit
<1>2. Black = {} /\ Colored("gray") = {}
  BY DEF DetectInit, Black, Colored
<1>3. DetectTypeOK
  BY <1>1, <1>2 DEF DetectInit, DetectTypeOK
<1>4. CallsArePath
  BY <1>1 DEF CallsArePath, Injective, Path
<1>5. TakenIsFinished
  BY <1>1 DEF DetectInit, TakenIsFinished
<1>6. BlackIsSafe
  BY <1>2 DEF BlackIsSafe, Black, Closed, AcyclicOn
<1>7. Evidence
  BY DEF DetectInit, Evidence
<1>8. QED
  BY <1>3, <1>4, <1>5, <1>6, <1>7 DEF DetectInv

(* The outer loop starts a search: one gray node on the stack. *)
LEMMA StartAtInv ==
    ASSUME DetectInv, verdict = "running", NEW n \in Node, StartAt(n)
    PROVE  DetectInv'
<1>1. /\ calls' = <<n>> /\ Len(calls') = 1 /\ calls'[1] = n
      /\ calls' \in Seq(Node) /\ Range(calls') = {n}
  BY SingleCall DEF StartAt
<1>2. Colored("gray") = {}
  BY EmptyStack DEF DetectInv, DetectTypeOK, StartAt
<1>3. Colored("gray")' = {n} /\ Black' = Black
  BY <1>2 DEF DetectInv, DetectTypeOK, StartAt, Colored, Black
<1>4. DetectTypeOK'
  BY <1>1, <1>3 DEF DetectInv, DetectTypeOK, StartAt, Graph
<1>5. CallsArePath'
  BY <1>1 DEF CallsArePath, Injective, Path
<1>6. TakenIsFinished'
  BY <1>1 DEF DetectInv, DetectTypeOK, TakenIsFinished, StartAt
<1>7. BlackIsSafe'
  BY <1>3 DEF DetectInv, BlackIsSafe, Black, StartAt, Closed, AcyclicOn
<1>8. Evidence'
  BY DEF Evidence, StartAt
<1>9. QED
  BY <1>4, <1>5, <1>6, <1>7, <1>8 DEF DetectInv

(* An edge to an active call: the error. *)
LEMMA TakeGrayInv ==
    ASSUME DetectInv, calls # <<>>, NEW d \in left[Innermost], TakeGray(d)
    PROVE  DetectInv'
<1>1. Innermost \in Node
  BY PopFacts DEF DetectInv, DetectTypeOK, Innermost
<1>2. d \in graph[Innermost] \cap Range(calls)
  BY <1>1 DEF DetectInv, DetectTypeOK, TakenIsFinished, TakeGray, Colored, Graph
<1>3. Evidence'
  BY <1>2 DEF TakeGray, Evidence, Innermost
<1>4. /\ DetectTypeOK' /\ CallsArePath' /\ TakenIsFinished' /\ BlackIsSafe'
  BY DEF DetectInv, TakeGray, DetectTypeOK, CallsArePath, TakenIsFinished,
         BlackIsSafe, Black, Colored
<1>5. QED
  BY <1>3, <1>4 DEF DetectInv

(* An edge to a finished node. *)
LEMMA TakeBlackInv ==
    ASSUME DetectInv, verdict = "running", calls # <<>>,
           NEW d \in left[Innermost], TakeBlack(d)
    PROVE  DetectInv'
<1>1. Innermost \in Node
  BY PopFacts DEF DetectInv, DetectTypeOK, Innermost
<1>2. d \in Black
  BY <1>1 DEF DetectInv, DetectTypeOK, TakenIsFinished, TakeBlack, Colored,
              Graph, Black
<1>3. left' = [left EXCEPT ![Innermost] = left[Innermost] \ {d}]
  BY DEF TakeBlack
<1>4. DetectTypeOK'
  BY <1>1, <1>3 DEF DetectInv, DetectTypeOK, TakeBlack, Colored
<1>5. CallsArePath' /\ BlackIsSafe' /\ Evidence'
  BY DEF DetectInv, TakeBlack, CallsArePath, BlackIsSafe, Evidence, Colored
<1>6. TakenIsFinished'
  <2>1. \A n \in Node : left'[n] \subseteq graph'[n]
    BY <1>1, <1>3 DEF DetectInv, DetectTypeOK, TakenIsFinished, TakeBlack
  <2>2. \A n \in Node : graph'[n] \ left'[n] \subseteq (graph[n] \ left[n]) \cup Black
    BY <1>1, <1>2, <1>3 DEF DetectInv, DetectTypeOK, TakeBlack
  <2>3. \A i \in 1..Len(calls) : calls[i] \in Node
    BY ElementOfSeq DEF DetectInv, DetectTypeOK
  <2>4. Black' = Black /\ calls' = calls
    BY DEF TakeBlack, Black, Colored
  <2>5. QED
    BY <2>1, <2>2, <2>3, <2>4 DEF DetectInv, TakenIsFinished
<1>7. QED
  BY <1>4, <1>5, <1>6 DEF DetectInv

(* An edge to a new node: one more active call. *)
LEMMA TakeWhiteInv ==
    ASSUME DetectInv, verdict = "running", calls # <<>>,
           NEW d \in left[Innermost], TakeWhite(d)
    PROVE  DetectInv'
<1>1. Innermost \in Node /\ Len(calls) \in Nat \ {0}
  BY PopFacts DEF DetectInv, DetectTypeOK, Innermost
<1>2. d \in graph[Innermost] /\ d \in Node
  BY <1>1 DEF DetectInv, DetectTypeOK, TakenIsFinished, Graph
<1>3. d \notin Range(calls) /\ d \notin Black
  BY <1>2 DEF DetectInv, DetectTypeOK, TakeWhite, Colored, Black
<1>4. /\ calls' \in Seq(Node) /\ calls' # <<>>
      /\ Len(calls') = Len(calls) + 1
      /\ \A i \in 1..Len(calls) : calls'[i] = calls[i]
      /\ calls'[Len(calls) + 1] = d
      /\ Range(calls') = Range(calls) \cup {d}
  BY <1>2, PushFacts DEF DetectInv, DetectTypeOK, TakeWhite
<1>5. \A i \in 1..Len(calls) : calls[i] \in Node /\ calls[i] # d
  BY <1>3, ElementOfSeq, RangeEquality DEF DetectInv, DetectTypeOK
<1>6. /\ left' \in [Node -> SUBSET Node]
      /\ left'[d] = graph[d]
      /\ left'[Innermost] = left[Innermost] \ {d}
      /\ \A n \in Node \ {d, Innermost} : left'[n] = left[n]
  <2>1. Innermost # d
    BY <1>1, <1>5 DEF Innermost
  <2>2. left' = [left EXCEPT ![Innermost] = left[Innermost] \ {d},
                             ![d] = graph[d]]
    BY DEF TakeWhite
  <2>3. QED
    BY <1>1, <1>2, <2>1, <2>2 DEF DetectInv, DetectTypeOK, Graph
<1>7. Colored("gray")' = Colored("gray") \cup {d} /\ Black' = Black
  BY <1>2 DEF DetectInv, DetectTypeOK, TakeWhite, Colored, Black
<1>8. DetectTypeOK'
  BY <1>2, <1>4, <1>6, <1>7 DEF DetectInv, DetectTypeOK, TakeWhite
<1>9. CallsArePath'
  BY <1>2, <1>3, PushPath
     DEF DetectInv, DetectTypeOK, CallsArePath, TakeWhite, Innermost
<1>10. TakenIsFinished'
  <2>1. \A n \in Node : left'[n] \subseteq graph'[n]
    BY <1>6 DEF DetectInv, TakenIsFinished, TakeWhite
  <2>2. ASSUME NEW i \in 1..Len(calls'),
               NEW e \in graph'[calls'[i]] \ left'[calls'[i]]
        PROVE  e \in Black' \/ (i < Len(calls') /\ e = calls'[i + 1])
    <3>1. CASE i = Len(calls) + 1
      BY <1>4, <1>6, <2>2, <3>1 DEF TakeWhite
    <3>2. CASE i = Len(calls)
      <4>1. calls'[i] = Innermost /\ calls'[i + 1] = d /\ i < Len(calls')
        BY <1>1, <1>4, <3>2 DEF Innermost
      <4>2. e = d \/ e \in graph[Innermost] \ left[Innermost]
        BY <1>6, <2>2, <4>1 DEF TakeWhite
      <4>3. graph[Innermost] \ left[Innermost] \subseteq Black
        BY <1>1 DEF DetectInv, TakenIsFinished, Innermost
      <4>4. QED
        BY <1>7, <4>1, <4>2, <4>3
    <3>3. CASE i # Len(calls) /\ i # Len(calls) + 1
      <4>1. i \in 1..Len(calls) /\ i + 1 \in 1..Len(calls) /\ i < Len(calls')
        BY <1>1, <1>4, <2>2, <3>3
      <4>2. calls[i] # Innermost
        BY <1>1, <3>3, <4>1 DEF DetectInv, CallsArePath, Injective, Innermost
      <4>3. e \in graph[calls[i]] \ left[calls[i]]
        BY <1>4, <1>5, <1>6, <2>2, <4>1, <4>2 DEF TakeWhite
      <4>4. e \in Black \/ e = calls[i + 1]
        BY <4>1, <4>3 DEF DetectInv, TakenIsFinished
      <4>5. QED
        BY <1>4, <1>7, <4>1, <4>4
    <3>4. QED
      BY <3>1, <3>2, <3>3
  <2>3. QED
    BY <2>1, <2>2 DEF TakenIsFinished
<1>11. BlackIsSafe'
  BY <1>7 DEF DetectInv, BlackIsSafe, Black, TakeWhite, Closed, AcyclicOn
<1>12. Evidence'
  BY DEF Evidence, TakeWhite
<1>13. QED
  BY <1>8, <1>9, <1>10, <1>11, <1>12 DEF DetectInv

(* A call returns: its node is finished, all it depends on being finished. *)
LEMMA ReturnInv ==
    ASSUME DetectInv, verdict = "running", Return
    PROVE  DetectInv'
<1> DEFINE n == Innermost
<1>1. /\ n \in Node /\ Len(calls) \in Nat \ {0}
      /\ calls' \in Seq(Node)
      /\ Len(calls') = Len(calls) - 1
      /\ \A i \in 1..(Len(calls) - 1) : calls'[i] = calls[i]
      /\ Range(calls') = Range(calls) \ {n}
  BY PopFacts DEF DetectInv, DetectTypeOK, CallsArePath, Innermost, Return, Pop
<1>2. n \in Range(calls) /\ n \notin Black
  <2>1. n \in Range(calls)
    BY <1>1, RangeEquality DEF DetectInv, DetectTypeOK, Innermost
  <2>2. QED
    BY <2>1 DEF DetectInv, DetectTypeOK, Colored, Black
<1>3. Colored("gray")' = Colored("gray") \ {n} /\ Black' = Black \cup {n}
  BY <1>1, <1>2 DEF DetectInv, DetectTypeOK, Return, Colored, Black
<1>4. DetectTypeOK'
  BY <1>1, <1>3 DEF DetectInv, DetectTypeOK, Return
<1>5. CallsArePath'
  BY PopPath DEF DetectInv, DetectTypeOK, CallsArePath, Return, Pop
<1>6. graph[n] \subseteq Black
  BY <1>1 DEF DetectInv, TakenIsFinished, Return, Innermost
<1>7. BlackIsSafe'
  <2>1. graph \in Graph /\ Black \in SUBSET Node
    BY DEF DetectInv, DetectTypeOK, Black, Colored
  <2>2. Closed(graph, Black) /\ AcyclicOn(graph, Black)
    BY DEF DetectInv, BlackIsSafe, Black
  <2>3. Closed(graph, Black \cup {n}) /\ AcyclicOn(graph, Black \cup {n})
    BY <1>1, <1>2, <1>6, <2>1, <2>2, FinishOne
  <2>4. Colored("black")' = Black \cup {n} /\ graph' = graph
    BY <1>3 DEF Black, Return
  <2>5. QED
    BY <2>3, <2>4 DEF BlackIsSafe, Closed, AcyclicOn
<1>8. TakenIsFinished'
  <2>1. ASSUME NEW i \in 1..Len(calls'), NEW e \in graph[calls[i]] \ left[calls[i]]
        PROVE  e \in Black' \/ (i < Len(calls') /\ e = calls'[i + 1])
    <3>1. i \in 1..(Len(calls) - 1) /\ i + 1 \in 1..Len(calls)
      BY <1>1, <2>1
    <3>2. e \in Black \/ e = calls[i + 1]
      BY <2>1, <3>1 DEF DetectInv, TakenIsFinished
    <3>3. CASE i + 1 = Len(calls)
      BY <1>3, <3>2, <3>3 DEF Innermost
    <3>4. CASE i + 1 # Len(calls)
      <4>1. i + 1 \in 1..(Len(calls) - 1) /\ i < Len(calls')
        BY <1>1, <3>1, <3>4
      <4>2. QED
        BY <1>1, <1>3, <3>2, <4>1
    <3>5. QED
      BY <3>3, <3>4
  <2>2. \A i \in 1..Len(calls') : calls'[i] = calls[i]
    BY <1>1
  <2>3. QED
    BY <2>1, <2>2 DEF DetectInv, TakenIsFinished, Return
<1>9. Evidence'
  BY DEF Evidence, Return
<1>10. QED
  BY <1>4, <1>5, <1>7, <1>8, <1>9 DEF DetectInv

(* The outer loop is over. *)
LEMMA AcceptInv ==
    ASSUME DetectInv, verdict = "running", Accept
    PROVE  DetectInv'
<1>1. Evidence'
  BY DEF Accept, Evidence, Colored
<1>2. DetectTypeOK' /\ CallsArePath' /\ TakenIsFinished' /\ BlackIsSafe'
  BY DEF DetectInv, Accept, DetectTypeOK, CallsArePath, TakenIsFinished,
         BlackIsSafe, Black, Colored
<1>3. QED
  BY <1>1, <1>2 DEF DetectInv

(* Every step of the search keeps the invariant. *)
LEMMA DetectStepInv == DetectInv /\ [DetectNext]_detectVars => DetectInv'
<1> SUFFICES ASSUME DetectInv, [DetectNext]_detectVars PROVE DetectInv'
  OBVIOUS
<1>1. CASE DetectNext
  <2>1. ASSUME NEW n \in Node, StartAt(n) PROVE DetectInv'
    BY <1>1, <2>1, StartAtInv DEF DetectNext
  <2>2. ASSUME calls # <<>>, NEW d \in left[Innermost],
               TakeGray(d) \/ TakeBlack(d) \/ TakeWhite(d)
        PROVE  DetectInv'
    BY <1>1, <2>2, TakeGrayInv, TakeBlackInv, TakeWhiteInv DEF DetectNext
  <2>3. CASE Return
    BY <1>1, <2>3, ReturnInv DEF DetectNext
  <2>4. CASE Accept
    BY <1>1, <2>4, AcceptInv DEF DetectNext
  <2>5. QED
    BY <1>1, <2>1, <2>2, <2>3, <2>4 DEF DetectNext
<1>2. CASE UNCHANGED detectVars
  BY <1>2 DEF detectVars, DetectInv, DetectTypeOK, CallsArePath,
              TakenIsFinished, BlackIsSafe, Evidence, Black, Colored, Innermost
<1>3. QED
  BY <1>1, <1>2

(* The invariant holds throughout every search. *)
LEMMA DetectInvariant == DetectSpec => []DetectInv
  BY DetectInitInv, DetectStepInv, PTL DEF DetectSpec

-----------------------------------------------------------------------------
(* Types, and gray is the colour of the active calls. *)
THEOREM DetectTypeCorrect == DetectSpec => []DetectTypeOK
<1>1. DetectInv => DetectTypeOK
  BY DEF DetectInv
<1>2. QED
  BY <1>1, DetectInvariant, PTL

(* No cycle runs through the nodes the search skips. *)
THEOREM BlackStaysSafe == DetectSpec => []BlackIsSafe
<1>1. DetectInv => BlackIsSafe
  BY DEF DetectInv
<1>2. QED
  BY <1>1, DetectInvariant, PTL

(* An answer that rests on its evidence is the right one. *)
LEMMA DetectInvVerdict == DetectInv => VerdictRight
<1> SUFFICES ASSUME DetectInv PROVE VerdictRight
  OBVIOUS
<1>1. CASE verdict = "accepted"
  <2>1. Range(calls) = {}
    BY <1>1, EmptyStack DEF DetectInv, Evidence
  <2>2. Colored("black") = Node
    BY <1>1, <2>1 DEF DetectInv, DetectTypeOK, Evidence, Colored
  <2>3. QED
    BY <1>1, <2>2 DEF DetectInv, BlackIsSafe, Acyclic, VerdictRight
<1>2. CASE verdict = "refused"
  <2>1. calls # <<>> /\ graph[Innermost] \cap Range(calls) # {}
    BY <1>2 DEF DetectInv, Evidence
  <2>2. PICK d \in graph[Innermost] \cap Range(calls) : TRUE
    BY <2>1
  <2>3. QED
    BY <1>2, <2>1, <2>2, PathBackIsCycle
       DEF DetectInv, DetectTypeOK, CallsArePath, Innermost, VerdictRight
<1>3. CASE verdict = "running"
  BY <1>3 DEF VerdictRight
<1>4. QED
  BY <1>1, <1>2, <1>3 DEF DetectInv, DetectTypeOK

(* SPEC.md "all filters must not have circular dependencies": the search
   refuses a graph only when it has a cycle, accepts it only when it has
   none. *)
THEOREM DetectCorrect == DetectSpec => []VerdictRight
  BY DetectInvVerdict, DetectInvariant, PTL

(* A node never gets lighter and is entered once. *)
THEOREM DetectLinear == DetectSpec => ColorsOnlyDarken
<1> DEFINE Step == \A n \in Node : <<color[n], color'[n]>> \in Shades
<1>1. DetectInv /\ [DetectNext]_detectVars => [Step]_detectVars
  <2> SUFFICES ASSUME DetectInv, DetectNext PROVE Step
    OBVIOUS
  <2>1. color \in [Node -> {"white", "gray", "black"}]
    BY DEF DetectInv, DetectTypeOK
  <2>2. ASSUME calls # <<>>
        PROVE  Innermost \in Node /\ color[Innermost] = "gray"
    <3>1. Innermost \in Colored("gray")
      BY <2>2, PopFacts, RangeEquality DEF DetectInv, DetectTypeOK, Innermost
    <3>2. QED
      BY <3>1 DEF Colored
  <2>3. ASSUME UNCHANGED color PROVE Step
    BY <2>1, <2>3 DEF Shades
  <2>4. ASSUME NEW n \in Node, color[n] = "white",
               color' = [color EXCEPT ![n] = "gray"]
        PROVE  Step
    BY <2>1, <2>4 DEF Shades
  <2>5. CASE Return
    BY <2>1, <2>2, <2>5 DEF Return, Shades
  <2>6. ASSUME calls # <<>>, NEW d \in left[Innermost], TakeWhite(d)
        PROVE  Step
    <3>1. d \in Node
      BY <2>2, <2>6 DEF DetectInv, DetectTypeOK
    <3>2. QED
      BY <2>4, <2>6, <3>1 DEF TakeWhite
  <2>7. QED
    BY <2>3, <2>4, <2>5, <2>6
       DEF DetectNext, StartAt, TakeGray, TakeBlack, Accept
<1>2. QED
  BY <1>1, DetectInvariant, PTL DEF DetectSpec, ColorsOnlyDarken

-----------------------------------------------------------------------------
(***************************************************************************)
(* topoForTarget returns the reachable filters, dependencies first, and    *)
(* refuses only circular graphs: for every set of filters, every graph and *)
(* every iteration order.                                                  *)
(***************************************************************************)

(* The active calls form a path of distinct nodes from the target. *)
CallPath ==
    /\ Injective(stack)
    /\ Path(g, stack)
    /\ stack # <<>> => stack[1] = root

(* Finished nodes are those in the order; nothing leads out of them and no
   cycle runs through them. *)
FinishedNodes ==
    /\ seen = Range(out)
    /\ seen \cap visiting = {}
    /\ Closed(g, seen)
    /\ AcyclicOn(g, seen)

(* What a loop has taken is finished, but for the call it waits for. *)
Taken ==
    /\ \A n \in Node : todo[n] \subseteq g[n]
    /\ \A i \in 1..Len(stack) : \A d \in g[stack[i]] \ todo[stack[i]] :
           d \in seen \/ (i < Len(stack) /\ d = stack[i + 1])

Reached == seen \cup visiting \subseteq Reachable(g, root)

(* What each way to end was based on. *)
Outcome ==
    /\ topo = "running" => stack # <<>>
    /\ topo = "done"    => out # <<>> /\ out[Len(out)] = root
    /\ topo = "cycle"   => stack # <<>> /\ g[Current] \cap Range(stack) # {}

TopoInv ==
    /\ TopoTypeOK
    /\ CallPath
    /\ FinishedNodes
    /\ DependenciesFirst
    /\ Taken
    /\ Reached
    /\ Outcome

-----------------------------------------------------------------------------
(* Reachable is what its name says: it has the root, it is closed. *)
LEMMA ReachableRoot ==
    ASSUME NEW h \in Graph, NEW r \in Node
    PROVE  r \in Reachable(h, r)
  BY DEF Reachable

(* What a reachable filter depends on is reachable. *)
LEMMA ReachableStep ==
    ASSUME NEW h \in Graph, NEW r \in Node, NEW n \in Reachable(h, r),
           NEW d \in h[n]
    PROVE  d \in Reachable(h, r)
<1>1. n \in Node /\ d \in Node
  BY DEF Reachable, Graph
<1>2. ASSUME NEW S \in SUBSET Node, r \in S, Closed(h, S) PROVE d \in S
  BY <1>2 DEF Reachable, Closed
<1>3. QED
  BY <1>1, <1>2 DEF Reachable

(* The call dfs(root) is made in the invariant. *)
LEMMA TopoInitInv == TopoInit => TopoInv
<1> SUFFICES ASSUME TopoInit PROVE TopoInv
  OBVIOUS
<1>1. /\ stack \in Seq(Node) /\ Len(stack) = 1 /\ stack[1] = root
      /\ stack # <<>> /\ Range(stack) = {root}
  BY SingleCall DEF TopoInit
<1>2. out \in Seq(Node) /\ Len(out) = 0 /\ Range(out) = {}
  BY EmptyStack DEF TopoInit
<1>3. TopoTypeOK
  BY <1>1, <1>2 DEF TopoInit, TopoTypeOK, Graph
<1>4. CallPath
  BY <1>1 DEF CallPath, Injective, Path
<1>5. FinishedNodes
  BY <1>2 DEF TopoInit, FinishedNodes, Closed, AcyclicOn
<1>6. DependenciesFirst
  BY <1>2 DEF DependenciesFirst
<1>7. Taken
  <2>1. g \in [Node -> SUBSET Node] /\ root \in Node
    BY DEF TopoInit, Graph
  <2>2. \A n \in Node : todo[n] = IF n = root THEN g[root] ELSE {}
    BY DEF TopoInit
  <2>3. QED
    BY <1>1, <2>1, <2>2 DEF Taken
<1>8. Reached
  BY ReachableRoot DEF TopoInit, Reached
<1>9. Outcome
  BY <1>1 DEF TopoInit, Outcome
<1>10. QED
  BY <1>3, <1>4, <1>5, <1>6, <1>7, <1>8, <1>9 DEF TopoInv

(* The dependency is an active call: the error. *)
LEMMA FindCycleInv ==
    ASSUME TopoInv, topo = "running", NEW d \in todo[Current], FindCycle(d)
    PROVE  TopoInv'
<1>1. Current \in Node /\ stack # <<>>
  BY PopFacts DEF TopoInv, TopoTypeOK, Current, Outcome
<1>2. d \in g[Current] \cap Range(stack)
  BY <1>1 DEF TopoInv, TopoTypeOK, Taken, FindCycle
<1>3. Outcome'
  BY <1>1, <1>2 DEF FindCycle, Outcome, Current
<1>4. TopoTypeOK' /\ CallPath' /\ Taken' /\ Reached'
  BY DEF TopoInv, FindCycle, TopoTypeOK, CallPath, Taken, Reached
<1>5. FinishedNodes' /\ DependenciesFirst'
  BY DEF TopoInv, FindCycle, FinishedNodes, DependenciesFirst
<1>6. QED
  BY <1>3, <1>4, <1>5 DEF TopoInv

(* The dependency is finished. *)
LEMMA SkipSeenInv ==
    ASSUME TopoInv, topo = "running", NEW d \in todo[Current], SkipSeen(d)
    PROVE  TopoInv'
<1>1. Current \in Node
  BY PopFacts DEF TopoInv, TopoTypeOK, Current, Outcome
<1>2. todo' = [todo EXCEPT ![Current] = todo[Current] \ {d}]
  BY DEF SkipSeen
<1>3. TopoTypeOK'
  BY <1>1, <1>2 DEF TopoInv, TopoTypeOK, SkipSeen
<1>4. /\ CallPath' /\ FinishedNodes' /\ DependenciesFirst' /\ Reached'
      /\ Outcome'
  BY DEF TopoInv, SkipSeen, CallPath, FinishedNodes, DependenciesFirst,
         Reached, Outcome, Current
<1>5. Taken'
  <2>1. \A n \in Node : todo'[n] \subseteq g'[n]
    BY <1>1, <1>2 DEF TopoInv, TopoTypeOK, Taken, SkipSeen
  <2>2. \A n \in Node : g'[n] \ todo'[n] \subseteq (g[n] \ todo[n]) \cup seen
    BY <1>1, <1>2 DEF TopoInv, TopoTypeOK, SkipSeen
  <2>3. \A i \in 1..Len(stack) : stack[i] \in Node
    BY ElementOfSeq DEF TopoInv, TopoTypeOK
  <2>4. seen' = seen /\ stack' = stack
    BY DEF SkipSeen
  <2>5. QED
    BY <2>1, <2>2, <2>3, <2>4 DEF TopoInv, Taken
<1>6. QED
  BY <1>3, <1>4, <1>5 DEF TopoInv

(* The dependency is new: dfs calls itself. *)
LEMMA DescendInv ==
    ASSUME TopoInv, topo = "running", NEW d \in todo[Current], Descend(d)
    PROVE  TopoInv'
<1>1. Current \in Node /\ Len(stack) \in Nat \ {0} /\ stack # <<>>
  BY PopFacts DEF TopoInv, TopoTypeOK, Current, Outcome
<1>2. d \in g[Current] /\ d \in Node /\ d \notin Range(stack)
  BY <1>1 DEF TopoInv, TopoTypeOK, Taken, Graph, Descend
<1>3. /\ stack' \in Seq(Node) /\ stack' # <<>>
      /\ Len(stack') = Len(stack) + 1
      /\ \A i \in 1..Len(stack) : stack'[i] = stack[i]
      /\ stack'[Len(stack) + 1] = d
      /\ Range(stack') = Range(stack) \cup {d}
  BY <1>2, PushFacts DEF TopoInv, TopoTypeOK, Descend
<1>4. \A i \in 1..Len(stack) : stack[i] \in Node /\ stack[i] # d
  BY <1>2, ElementOfSeq, RangeEquality DEF TopoInv, TopoTypeOK
<1>5. /\ todo' \in [Node -> SUBSET Node]
      /\ todo'[d] = g[d]
      /\ todo'[Current] = todo[Current] \ {d}
      /\ \A n \in Node \ {d, Current} : todo'[n] = todo[n]
  <2>1. Current # d
    BY <1>1, <1>4 DEF Current
  <2>2. todo' = [todo EXCEPT ![Current] = todo[Current] \ {d}, ![d] = g[d]]
    BY DEF Descend
  <2>3. QED
    BY <1>1, <1>2, <2>1, <2>2 DEF TopoInv, TopoTypeOK, Graph
<1>6. TopoTypeOK'
  BY <1>2, <1>3, <1>5 DEF TopoInv, TopoTypeOK, Descend
<1>7. CallPath'
  <2>1. Injective(stack') /\ Path(g, stack')
    BY <1>1, <1>2, PushPath DEF TopoInv, TopoTypeOK, CallPath, Descend, Current
  <2>2. stack'[1] = root
    BY <1>1, <1>3 DEF TopoInv, CallPath
  <2>3. QED
    BY <2>1, <2>2 DEF CallPath, Descend
<1>8. FinishedNodes'
  BY DEF TopoInv, FinishedNodes, Descend
<1>9. DependenciesFirst'
  BY DEF TopoInv, DependenciesFirst, Descend
<1>10. Taken'
  <2>1. \A n \in Node : todo'[n] \subseteq g'[n]
    BY <1>5 DEF TopoInv, Taken, Descend
  <2>2. ASSUME NEW i \in 1..Len(stack'),
               NEW e \in g'[stack'[i]] \ todo'[stack'[i]]
        PROVE  e \in seen' \/ (i < Len(stack') /\ e = stack'[i + 1])
    <3>1. CASE i = Len(stack) + 1
      BY <1>3, <1>5, <2>2, <3>1 DEF Descend
    <3>2. CASE i = Len(stack)
      <4>1. stack'[i] = Current /\ stack'[i + 1] = d /\ i < Len(stack')
        BY <1>1, <1>3, <3>2 DEF Current
      <4>2. e = d \/ e \in g[Current] \ todo[Current]
        BY <1>5, <2>2, <4>1 DEF Descend
      <4>3. g[Current] \ todo[Current] \subseteq seen
        BY <1>1 DEF TopoInv, Taken, Current
      <4>4. QED
        BY <4>1, <4>2, <4>3 DEF Descend
    <3>3. CASE i # Len(stack) /\ i # Len(stack) + 1
      <4>1. i \in 1..Len(stack) /\ i + 1 \in 1..Len(stack) /\ i < Len(stack')
        BY <1>1, <1>3, <2>2, <3>3
      <4>2. stack[i] # Current
        BY <1>1, <3>3, <4>1 DEF TopoInv, CallPath, Injective, Current
      <4>3. e \in g[stack[i]] \ todo[stack[i]]
        BY <1>3, <1>4, <1>5, <2>2, <4>1, <4>2 DEF Descend
      <4>4. e \in seen \/ e = stack[i + 1]
        BY <4>1, <4>3 DEF TopoInv, Taken
      <4>5. QED
        BY <1>3, <4>1, <4>4 DEF Descend
    <3>4. QED
      BY <3>1, <3>2, <3>3
  <2>3. QED
    BY <2>1, <2>2 DEF Taken
<1>11. Reached'
  <2>1. Current \in visiting
    BY <1>1, RangeEquality DEF TopoInv, TopoTypeOK, Current
  <2>2. d \in Reachable(g, root)
    BY <1>2, <2>1, ReachableStep DEF TopoInv, TopoTypeOK, Reached
  <2>3. QED
    BY <2>2 DEF TopoInv, Reached, Descend
<1>12. Outcome'
  BY <1>3 DEF Outcome, Descend
<1>13. QED
  BY <1>6, <1>7, <1>8, <1>9, <1>10, <1>11, <1>12 DEF TopoInv

(* The innermost call returns: its node joins the order. *)
LEMMA LeaveInv ==
    ASSUME TopoInv, topo = "running", Leave
    PROVE  TopoInv'
<1> DEFINE n == Current
<1>1. /\ n \in Node /\ Len(stack) \in Nat \ {0} /\ stack # <<>>
      /\ stack' \in Seq(Node)
      /\ Len(stack') = Len(stack) - 1
      /\ \A i \in 1..(Len(stack) - 1) : stack'[i] = stack[i]
      /\ Range(stack') = Range(stack) \ {n}
  <2>1. stack # <<>> /\ stack \in Seq(Node) /\ Injective(stack)
    BY DEF TopoInv, TopoTypeOK, CallPath, Outcome
  <2>2. QED
    BY <2>1, PopFacts DEF Current, Leave, Caller, Pop
<1>2. n \in visiting /\ n \notin seen
  <2>1. n \in visiting
    BY <1>1, RangeEquality DEF TopoInv, TopoTypeOK, Current
  <2>2. QED
    BY <2>1 DEF TopoInv, FinishedNodes
<1>3. /\ out' \in Seq(Node) /\ out' # <<>>
      /\ Len(out) \in Nat /\ Len(out') = Len(out) + 1
      /\ \A i \in 1..Len(out) : out'[i] = out[i]
      /\ out'[Len(out) + 1] = n
      /\ Range(out') = Range(out) \cup {n}
  <2>1. out' = Append(out, n) /\ out \in Seq(Node)
    BY DEF TopoInv, TopoTypeOK, Leave
  <2> HIDE DEF n
  <2>2. QED
    BY <1>1, <2>1, PushFacts
<1>4. g[n] \subseteq seen
  BY <1>1 DEF TopoInv, Taken, Leave, Current
<1>5. TopoTypeOK'
  BY <1>1, <1>3 DEF TopoInv, TopoTypeOK, Leave
<1>6. CallPath'
  <2>1. Injective(stack') /\ Path(g, stack')
    BY <1>1, PopPath DEF TopoInv, TopoTypeOK, CallPath, Leave, Caller, Pop
  <2>2. ASSUME stack' # <<>> PROVE stack'[1] = root
    <3>1. 1 \in 1..(Len(stack) - 1)
      BY <1>1, <2>2, EmptySeq
    <3>2. QED
      BY <1>1, <3>1 DEF TopoInv, CallPath
  <2>3. QED
    BY <2>1, <2>2 DEF CallPath, Leave
<1>7. FinishedNodes'
  <2>1. Closed(g, seen \cup {n}) /\ AcyclicOn(g, seen \cup {n})
    BY <1>1, <1>2, <1>4, FinishOne DEF TopoInv, TopoTypeOK, FinishedNodes
  <2>2. seen' = seen \cup {n} /\ visiting' = visiting \ {n} /\ g' = g
    BY DEF Leave
  <2>3. QED
    BY <1>3, <2>1, <2>2 DEF TopoInv, FinishedNodes
<1>8. DependenciesFirst'
  <2>1. ASSUME NEW i \in 1..Len(out'), NEW d \in g[out'[i]]
        PROVE  \E j \in 1..(i - 1) : out'[j] = d
    <3>1. CASE i = Len(out) + 1
      <4>1. d \in Range(out)
        BY <1>3, <1>4, <2>1, <3>1 DEF TopoInv, FinishedNodes
      <4>2. PICK j \in 1..Len(out) : out[j] = d
        BY <4>1, RangeEquality DEF TopoInv, TopoTypeOK
      <4>3. QED
        BY <1>3, <3>1, <4>2
    <3>2. CASE i # Len(out) + 1
      <4>1. i \in 1..Len(out) /\ out'[i] = out[i]
        BY <1>3, <2>1, <3>2
      <4>2. PICK j \in 1..(i - 1) : out[j] = d
        BY <2>1, <4>1 DEF TopoInv, DependenciesFirst
      <4>3. j \in 1..Len(out)
        BY <1>3, <4>1
      <4>4. QED
        BY <1>3, <4>2, <4>3
    <3>3. QED
      BY <3>1, <3>2
  <2>2. ASSUME NEW i \in 1..Len(out'), NEW j \in 1..Len(out'),
               out'[i] = out'[j]
        PROVE  i = j
    <3>1. \A k \in 1..Len(out) : out[k] # n
      BY <1>2, RangeEquality DEF TopoInv, TopoTypeOK, FinishedNodes
    <3>2. QED
      BY <1>3, <2>2, <3>1 DEF TopoInv, DependenciesFirst
  <2>3. QED
    BY <2>1, <2>2 DEF DependenciesFirst, Leave
<1>9. Taken'
  <2>1. ASSUME NEW i \in 1..Len(stack'), NEW e \in g[stack[i]] \ todo[stack[i]]
        PROVE  e \in seen' \/ (i < Len(stack') /\ e = stack'[i + 1])
    <3>1. i \in 1..(Len(stack) - 1) /\ i + 1 \in 1..Len(stack)
      BY <1>1, <2>1
    <3>2. e \in seen \/ e = stack[i + 1]
      BY <2>1, <3>1 DEF TopoInv, Taken
    <3>3. CASE i + 1 = Len(stack)
      BY <3>2, <3>3 DEF Current, Leave
    <3>4. CASE i + 1 # Len(stack)
      <4>1. i + 1 \in 1..(Len(stack) - 1) /\ i < Len(stack')
        BY <1>1, <3>1, <3>4
      <4>2. QED
        BY <1>1, <3>2, <4>1 DEF Leave
    <3>5. QED
      BY <3>3, <3>4
  <2>2. \A i \in 1..Len(stack') : stack'[i] = stack[i]
    BY <1>1
  <2>3. QED
    BY <2>1, <2>2 DEF TopoInv, Taken, Leave
<1>10. Reached'
  BY <1>2 DEF TopoInv, Reached, Leave
<1>11. Outcome'
  <2>1. CASE Len(stack) = 1
    <3>1. n = root
      BY <1>1, <2>1 DEF TopoInv, CallPath, Current
    <3>2. topo' = "done" /\ root' = root
      BY <2>1 DEF Leave
    <3>3. out'[Len(out')] = root
      BY <1>3, <3>1
    <3>4. QED
      BY <1>3, <3>2, <3>3 DEF Outcome
  <2>2. CASE Len(stack) # 1
    <3>1. stack' # <<>>
      BY <1>1, <2>2, EmptyStack
    <3>2. QED
      BY <2>2, <3>1 DEF Leave, Outcome
  <2>3. QED
    BY <2>1, <2>2
<1>12. QED
  BY <1>5, <1>6, <1>7, <1>8, <1>9, <1>10, <1>11 DEF TopoInv

(* Every step of the search keeps the invariant. *)
LEMMA TopoStepInv == TopoInv /\ [TopoNext]_topoVars => TopoInv'
<1> SUFFICES ASSUME TopoInv, [TopoNext]_topoVars PROVE TopoInv'
  OBVIOUS
<1>1. CASE TopoNext
  BY <1>1, FindCycleInv, SkipSeenInv, DescendInv, LeaveInv DEF TopoNext
<1>2. CASE UNCHANGED topoVars
  BY <1>2 DEF topoVars, TopoInv, TopoTypeOK, CallPath, FinishedNodes,
              DependenciesFirst, Taken, Reached, Outcome, Current
<1>3. QED
  BY <1>1, <1>2

(* The invariant holds throughout every search. *)
LEMMA TopoInvariant == TopoSpec => []TopoInv
  BY TopoInitInv, TopoStepInv, PTL DEF TopoSpec

-----------------------------------------------------------------------------
(* Types, and the marks are those of the active calls. *)
THEOREM TopoTypeCorrect == TopoSpec => []TopoTypeOK
<1>1. TopoInv => TopoTypeOK
  BY DEF TopoInv
<1>2. QED
  BY <1>1, TopoInvariant, PTL

(* Execute may walk the order from first to last: every filter comes after
   all it depends on, and no filter comes twice. *)
THEOREM TopoOrdered == TopoSpec => []DependenciesFirst
<1>1. TopoInv => DependenciesFirst
  BY DEF TopoInv
<1>2. QED
  BY <1>1, TopoInvariant, PTL

(* What a finished search hands out is closed under dependencies. *)
LEMMA DoneIsReachable ==
    ASSUME TopoInv, topo = "done"
    PROVE  /\ seen = Reachable(g, root)
           /\ out # <<>> /\ out[Len(out)] = root
<1>1. out # <<>> /\ out[Len(out)] = root
  BY DEF TopoInv, Outcome
<1>2. root \in seen
  BY <1>1, EmptySeq, RangeEquality DEF TopoInv, TopoTypeOK, FinishedNodes
<1>3. Reachable(g, root) \subseteq seen
  BY <1>2 DEF TopoInv, TopoTypeOK, FinishedNodes, Reachable
<1>4. QED
  BY <1>1, <1>3 DEF TopoInv, Reached

(* Exactly the filters the target needs are in the order, the target last. *)
THEOREM TopoExact == TopoSpec => []ExactlyReachable
<1>1. TopoInv => ExactlyReachable
  BY DoneIsReachable DEF TopoInv, FinishedNodes, ExactlyReachable
<1>2. QED
  BY <1>1, TopoInvariant, PTL

(* No order is longer than there are filters. *)
LEMMA OrderFits ==
    ASSUME IsFiniteSet(Node), TopoInv
    PROVE  Len(out) \in 0..Cardinality(Node)
<1>1. out \in [1..Len(out) -> Node] /\ Len(out) \in Nat
  BY DEF TopoInv, TopoTypeOK
<1>2. out \in Injection(1..Len(out), Node)
  BY <1>1 DEF TopoInv, DependenciesFirst, Injection, IsInjective
<1>3. Cardinality(1..Len(out)) <= Cardinality(Node)
  BY <1>2, FS_Injection
<1>4. Cardinality(1..Len(out)) = Len(out)
  <2>1. Cardinality(1..Len(out)) = IF 1 > Len(out) THEN 0 ELSE Len(out) - 1 + 1
    BY <1>1, FS_Interval, SMT
  <2>2. QED
    BY <1>1, <2>1
<1>5. Cardinality(Node) \in Nat
  BY FS_CardinalityType
<1>6. QED
  BY <1>1, <1>3, <1>4, <1>5

(* What a finished search hands out is an order in the sense in which a
   request of Execution follows one: of the filters the target needs, each
   once, after all it depends on, the target last. *)
THEOREM TopoHandsOutAnOrder ==
    ASSUME IsFiniteSet(Node)
    PROVE  TopoSpec => [](topo = "done" => /\ IsOrder(g, out, root)
                                           /\ Len(out) <= Cardinality(Node))
<1>1. ASSUME TopoInv, topo = "done"
      PROVE  IsOrder(g, out, root) /\ Len(out) <= Cardinality(Node)
  <2>1. Range(out) = Reachable(g, root) /\ out # <<>> /\ out[Len(out)] = root
    BY <1>1, DoneIsReachable DEF TopoInv, FinishedNodes
  <2>2. \A i, j \in 1..Len(out) : out[i] = out[j] => i = j
    BY <1>1 DEF TopoInv, DependenciesFirst
  <2>3. ASSUME NEW i \in 1..Len(out), NEW j \in 1..Len(out), out[j] \in g[out[i]]
        PROVE  j < i
    <3>1. Len(out) \in Nat
      BY <1>1 DEF TopoInv, TopoTypeOK
    <3>2. PICK k \in 1..(i - 1) : out[k] = out[j]
      BY <1>1, <2>3 DEF TopoInv, DependenciesFirst
    <3>3. k = j
      BY <2>2, <3>1, <3>2
    <3>4. QED
      BY <3>1, <3>2, <3>3
  <2>4. Len(out) <= Cardinality(Node)
    BY <1>1, OrderFits
  <2>5. QED
    BY <2>1, <2>2, <2>3, <2>4 DEF IsOrder
<1>2. TopoInv => (topo = "done" => /\ IsOrder(g, out, root)
                                  /\ Len(out) <= Cardinality(Node))
  BY <1>1
<1>3. QED
  BY <1>2, TopoInvariant, PTL

(* An error rests on a cycle, an order on a part without one. *)
LEMMA TopoInvVerdict == TopoInv => CycleVerdict
<1> SUFFICES ASSUME TopoInv PROVE CycleVerdict
  OBVIOUS
<1>1. ASSUME topo = "cycle" PROVE ~ Acyclic(g)
  <2>1. stack # <<>> /\ g[Current] \cap Range(stack) # {}
    BY <1>1 DEF TopoInv, Outcome
  <2>2. PICK d \in g[Current] \cap Range(stack) : TRUE
    BY <2>1
  <2>3. QED
    BY <2>1, <2>2, PathBackIsCycle DEF TopoInv, TopoTypeOK, CallPath, Current
<1>2. ASSUME topo = "done" PROVE AcyclicOn(g, Reachable(g, root))
  BY <1>2, DoneIsReachable DEF TopoInv, FinishedNodes
<1>3. QED
  BY <1>1, <1>2 DEF CycleVerdict

(* The error is returned for circular graphs only, and an order is never
   returned for a circular part. *)
THEOREM TopoVerdict == TopoSpec => []CycleVerdict
  BY TopoInvVerdict, TopoInvariant, PTL

-----------------------------------------------------------------------------
(* Both searches, one after the other. *)
PlanInv == DetectInv /\ TopoInv /\ g = graph

(* Every step is one of detectCycle or one of topoForTarget, on one graph. *)
LEMMA PlanStepInv == PlanInv /\ [PlanNext]_planVars => PlanInv'
<1> SUFFICES ASSUME PlanInv, [PlanNext]_planVars PROVE PlanInv'
  OBVIOUS
<1>1. [DetectNext]_detectVars /\ [TopoNext]_topoVars
  BY DEF PlanNext, planVars
<1>2. DetectInv' /\ TopoInv'
  BY <1>1, DetectStepInv, TopoStepInv DEF PlanInv
<1>3. graph' = graph
  BY <1>1 DEF DetectNext, detectVars, StartAt, TakeGray, TakeBlack, TakeWhite,
              Return, Accept
<1>4. g' = g
  BY <1>1 DEF TopoNext, topoVars, FindCycle, SkipSeen, Descend, Leave
<1>5. QED
  BY <1>2, <1>3, <1>4 DEF PlanInv

LEMMA PlanInvariant == PlanSpec => []PlanInv
<1>1. PlanInit => PlanInv
  BY DetectInitInv, TopoInitInv DEF PlanInit, PlanInv
<1>2. QED
  BY <1>1, PlanStepInv, PTL DEF PlanSpec

-----------------------------------------------------------------------------
(* The variables of both searches have their types, in every step of either. *)
THEOREM PlanTypeCorrect == PlanSpec => []PlanTypeOK
<1>1. PlanInv => PlanTypeOK
  BY DEF PlanInv, DetectInv, TopoInv, PlanTypeOK
<1>2. QED
  BY <1>1, PlanInvariant, PTL

(* SPEC.md's cycle detections agree: a configuration that was loaded is not
   refused by `validate', and none of its requests is answered 500 for a
   cycle. *)
THEOREM PlanAgrees == PlanSpec => []AcceptedIsOrdered
<1>1. PlanInv => AcceptedIsOrdered
  BY DetectInvVerdict, TopoInvVerdict
     DEF PlanInv, VerdictRight, CycleVerdict, AcceptedIsOrdered
<1>2. QED
  BY <1>1, PlanInvariant, PTL
=============================================================================
