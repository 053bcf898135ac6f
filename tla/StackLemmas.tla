---------------------------- MODULE StackLemmas -----------------------------
(***************************************************************************)
(* Facts shared by the proofs about the two depth-first searches: what a   *)
(* push and a pop do to the stack of active calls, and when a set of       *)
(* finished nodes stays free of cycles.                                    *)
(***************************************************************************)
EXTENDS DepGraph, Integers, SequenceTheorems, TLAPS

Pop(s) == SubSeq(s, 1, Len(s) - 1)

Injective(s) == \A i, j \in 1..Len(s) : s[i] = s[j] => i = j

(* Consecutive nodes of s are edges of g. *)
Path(g, s) == \A i \in 1..(Len(s) - 1) : s[i + 1] \in g[s[i]]

-----------------------------------------------------------------------------
(* No call is active. *)
LEMMA EmptyStack ==
    ASSUME NEW T
    PROVE  <<>> \in Seq(T) /\ Len(<<>>) = 0 /\ Range(<<>>) = {}
<1>1. <<>> \in Seq(T) /\ Len(<<>>) = 0
  BY EmptySeq
<1>2. Range(<<>>) = {<<>>[i] : i \in 1..Len(<<>>)}
  BY <1>1, RangeEquality
<1>3. 1..Len(<<>>) = {}
  BY <1>1
<1>4. QED
  BY <1>1, <1>2, <1>3, Zenon

(* The call of dfs on a new node d adds d, last, to the active calls. *)
LEMMA PushFacts ==
    ASSUME NEW T, NEW s \in Seq(T), NEW d \in T
    PROVE  /\ Append(s, d) \in Seq(T)
           /\ Append(s, d) # <<>>
           /\ Len(Append(s, d)) = Len(s) + 1
           /\ Len(s) \in Nat
           /\ \A i \in 1..Len(s) : Append(s, d)[i] = s[i]
           /\ Append(s, d)[Len(s) + 1] = d
           /\ Range(Append(s, d)) = Range(s) \cup {d}
<1>1. /\ Append(s, d) \in Seq(T)
      /\ Append(s, d) # <<>>
      /\ Len(Append(s, d)) = Len(s) + 1
      /\ Len(s) \in Nat
      /\ \A i \in 1..Len(s) : Append(s, d)[i] = s[i]
      /\ Append(s, d)[Len(s) + 1] = d
  BY AppendProperties, LenProperties
<1>2. /\ Range(Append(s, d)) = {Append(s, d)[i] : i \in 1..(Len(s) + 1)}
      /\ Range(s) = {s[i] : i \in 1..Len(s)}
  BY <1>1, RangeEquality
<1>3. Range(Append(s, d)) = Range(s) \cup {d}
  <2>1. ASSUME NEW x \in Range(Append(s, d)) PROVE x \in Range(s) \cup {d}
    <3>1. PICK i \in 1..(Len(s) + 1) : x = Append(s, d)[i]
      BY <1>2
    <3>2. CASE i = Len(s) + 1
      BY <1>1, <3>1, <3>2
    <3>3. CASE i # Len(s) + 1
      BY <1>1, <1>2, <3>1, <3>3
    <3>4. QED
      BY <3>2, <3>3
  <2>2. ASSUME NEW x \in Range(s) PROVE x \in Range(Append(s, d))
    <3>1. PICK i \in 1..Len(s) : x = s[i]
      BY <1>2
    <3>2. x = Append(s, d)[i] /\ i \in 1..(Len(s) + 1)
      BY <1>1, <3>1
    <3>3. QED
      BY <1>2, <3>2
  <2>3. d \in Range(Append(s, d))
    BY <1>1, <1>2
  <2>4. QED
    BY <2>1, <2>2, <2>3
<1>4. QED
  BY <1>1, <1>3

(* The return of a call takes the last node off the active calls. *)
LEMMA PopFacts ==
    ASSUME NEW T, NEW s \in Seq(T), s # <<>>
    PROVE  /\ Pop(s) \in Seq(T)
           /\ Len(s) \in Nat \ {0}
           /\ Len(Pop(s)) = Len(s) - 1
           /\ \A i \in 1..(Len(s) - 1) : Pop(s)[i] = s[i]
           /\ s[Len(s)] \in T
           /\ Injective(s) => Range(Pop(s)) = Range(s) \ {s[Len(s)]}
<1>1. Len(s) \in Nat \ {0} /\ \A i \in 1..Len(s) : s[i] \in T
  BY EmptySeq, ElementOfSeq
<1>2. /\ Pop(s) \in Seq(T)
      /\ Len(Pop(s)) = Len(s) - 1
      /\ \A i \in 1..(Len(s) - 1) : Pop(s)[i] = s[i]
  <2>1. \A i \in 1..(Len(s) - 1) : s[i] \in T
    BY <1>1
  <2>2. PICK n \in Nat : n = Len(s) - 1
    BY <1>1
  <2>3. \A i \in 1..n : s[i] \in T
    BY <2>1, <2>2
  <2>4. /\ SubSeq(s, 1, n) \in Seq(T)
        /\ Len(SubSeq(s, 1, n)) = IF 1 <= n THEN n - 1 + 1 ELSE 0
        /\ \A i \in 1..(n - 1 + 1) : SubSeq(s, 1, n)[i] = s[1 + i - 1]
    BY <2>3, SubSeqProperties
  <2>5. Len(SubSeq(s, 1, n)) = n
    BY <2>4
  <2>6. \A i \in 1..n : SubSeq(s, 1, n)[i] = s[i]
    BY <2>4
  <2>7. Pop(s) = SubSeq(s, 1, n)
    BY <2>2 DEF Pop
  <2>8. QED
    BY <2>2, <2>4, <2>5, <2>6, <2>7
<1>3. /\ Range(Pop(s)) = {Pop(s)[i] : i \in 1..(Len(s) - 1)}
      /\ Range(s) = {s[i] : i \in 1..Len(s)}
  BY <1>1, <1>2, RangeEquality
<1>4. ASSUME Injective(s) PROVE Range(Pop(s)) = Range(s) \ {s[Len(s)]}
  <2>1. \A i \in 1..(Len(s) - 1) : s[i] # s[Len(s)]
    BY <1>1, <1>4 DEF Injective
  <2>2. ASSUME NEW x \in Range(Pop(s)) PROVE x \in Range(s) \ {s[Len(s)]}
    BY <1>1, <1>2, <1>3, <2>1
  <2>3. ASSUME NEW x \in Range(s), x # s[Len(s)] PROVE x \in Range(Pop(s))
    <3>1. PICK i \in 1..Len(s) : x = s[i]
      BY <1>3
    <3>2. i \in 1..(Len(s) - 1)
      BY <1>1, <2>3, <3>1
    <3>3. QED
      BY <1>2, <1>3, <3>1, <3>2
  <2>4. QED
    BY <2>2, <2>3
<1>5. QED
  BY <1>1, <1>2, <1>4

(* The first call alone is active. *)
LEMMA SingleCall ==
    ASSUME NEW T, NEW d \in T
    PROVE  /\ <<d>> \in Seq(T)
           /\ Len(<<d>>) = 1
           /\ <<d>>[1] = d
           /\ <<d>> # <<>>
           /\ Range(<<d>>) = {d}
<1>1. <<d>> \in Seq(T) /\ Len(<<d>>) = 1 /\ <<d>>[1] = d
  OBVIOUS
<1>2. Range(<<d>>) = {<<d>>[i] : i \in 1..Len(<<d>>)}
  BY <1>1, RangeEquality
<1>3. QED
  BY <1>1, <1>2

(* A call made along an edge to a node that is not active extends the path. *)
LEMMA PushPath ==
    ASSUME NEW g \in Graph, NEW s \in Seq(Node), s # <<>>,
           Injective(s), Path(g, s),
           NEW d \in g[s[Len(s)]] \cap Node, d \notin Range(s)
    PROVE  Injective(Append(s, d)) /\ Path(g, Append(s, d))
<1> DEFINE t == Append(s, d)
<1>1. /\ Len(s) \in Nat \ {0}
      /\ Len(t) = Len(s) + 1
      /\ \A i \in 1..Len(s) : t[i] = s[i]
      /\ t[Len(s) + 1] = d
  BY EmptySeq, PushFacts
<1>2. \A i \in 1..Len(s) : s[i] # d
  BY RangeEquality
<1> HIDE DEF t
<1>3. Injective(t)
  BY <1>1, <1>2 DEF Injective
<1>4. ASSUME NEW i \in 1..(Len(t) - 1) PROVE t[i + 1] \in g[t[i]]
  <2>1. CASE i = Len(s)
    BY <1>1, <2>1
  <2>2. CASE i # Len(s)
    <3>1. i \in 1..(Len(s) - 1) /\ i + 1 \in 1..Len(s) /\ i \in 1..Len(s)
      BY <1>1, <1>4, <2>2
    <3>2. QED
      BY <1>1, <3>1 DEF Path
  <2>3. QED
    BY <2>1, <2>2
<1>5. QED
  BY <1>3, <1>4 DEF Path, t

(* A return leaves a path of distinct nodes. *)
LEMMA PopPath ==
    ASSUME NEW g \in Graph, NEW s \in Seq(Node), s # <<>>,
           Injective(s), Path(g, s)
    PROVE  Injective(Pop(s)) /\ Path(g, Pop(s))
<1>1. /\ Len(s) \in Nat \ {0}
      /\ Len(Pop(s)) = Len(s) - 1
      /\ \A i \in 1..(Len(s) - 1) : Pop(s)[i] = s[i]
  BY PopFacts
<1>2. Injective(Pop(s))
  BY <1>1 DEF Injective
<1>3. ASSUME NEW i \in 1..(Len(Pop(s)) - 1)
      PROVE  Pop(s)[i + 1] \in g[Pop(s)[i]]
  <2>1. /\ i \in 1..(Len(s) - 1) /\ i + 1 \in 1..(Len(s) - 1)
    BY <1>1, <1>3
  <2>2. QED
    BY <1>1, <2>1 DEF Path
<1>4. QED
  BY <1>2, <1>3 DEF Path

(* An edge from the last node of a path back into the path is a cycle. *)
LEMMA PathBackIsCycle ==
    ASSUME NEW g \in Graph, NEW s \in Seq(Node), s # <<>>, Path(g, s),
           NEW d \in g[s[Len(s)]] \cap Range(s)
    PROVE  ~ Acyclic(g)
<1>1. Len(s) \in Nat \ {0} /\ \A i \in 1..Len(s) : s[i] \in Node
  BY EmptySeq, ElementOfSeq
<1>2. PICK k \in 1..Len(s) : s[k] = d
  BY RangeEquality
<1> DEFINE S == {s[i] : i \in k..Len(s)}
<1>3. S \in SUBSET Node /\ S # {}
  BY <1>1, <1>2
<1>4. ASSUME NEW n \in S PROVE g[n] \cap S # {}
  <2>1. PICK i \in k..Len(s) : n = s[i]
    BY <1>4
  <2>2. CASE i = Len(s)
    BY <1>1, <1>2, <2>1, <2>2
  <2>3. CASE i < Len(s)
    <3>1. i \in 1..(Len(s) - 1) /\ i + 1 \in k..Len(s)
      BY <1>1, <1>2, <2>1, <2>3
    <3>2. s[i + 1] \in g[n] /\ s[i + 1] \in S
      BY <2>1, <3>1 DEF Path
    <3>3. QED
      BY <3>2
  <2>4. QED
    BY <1>1, <1>2, <2>1, <2>2, <2>3
<1>5. QED
  BY <1>3, <1>4 DEF Acyclic, AcyclicOn

(* A node all of whose dependencies are finished can be finished. *)
LEMMA FinishOne ==
    ASSUME NEW g \in Graph, NEW B \in SUBSET Node, NEW n \in Node \ B,
           Closed(g, B), AcyclicOn(g, B), g[n] \subseteq B
    PROVE  Closed(g, B \cup {n}) /\ AcyclicOn(g, B \cup {n})
<1>1. Closed(g, B \cup {n})
  BY DEF Closed
<1>2. ASSUME NEW S \in SUBSET (B \cup {n}), S # {}
      PROVE  \E m \in S : g[m] \cap S = {}
  <2>1. CASE S \ {n} = {}
    <3>1. n \in S /\ g[n] \cap S = {}
      BY <1>2, <2>1
    <3>2. QED
      BY <3>1
  <2>2. CASE S \ {n} # {}
    <3>1. PICK m \in S \ {n} : g[m] \cap (S \ {n}) = {}
      BY <2>2 DEF AcyclicOn
    <3>2. n \notin g[m]
      BY <3>1 DEF Closed
    <3>3. QED
      BY <3>1, <3>2
  <2>3. QED
    BY <2>1, <2>2
<1>3. QED
  BY <1>1, <1>2 DEF AcyclicOn
=============================================================================
