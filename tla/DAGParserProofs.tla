-------------------------- MODULE DAGParserProofs --------------------------
(***************************************************************************)
(* Proofs about DAGParser: instances that have read the same graph agree   *)
(* on the edges between them, for graphs of every size, with any number of *)
(* instances that start, fail and stop in any order.                       *)
(***************************************************************************)
EXTENDS DAGParser, SequenceTheorems, WellFoundedInduction, TLAPS

----------------------------------------------------------------------------
(* The lookups. *)

\* The least-number principle, by which the proofs below do their induction.
LEMMA LeastNumber ==
  ASSUME NEW T \in SUBSET Nat, T # {}
  PROVE  \E x \in T : \A y \in T : x <= y
<1>1. PICK x \in T : \A y \in T : ~(<<y, x>> \in OpToRel(<, Nat))
  BY WFMin, NatLessThanWellFounded
<1>2. \A y \in T : y < x => <<y, x>> \in OpToRel(<, Nat)
  BY DEF OpToRel
<1>3. \A y \in T : ~(y < x)
  BY <1>1, <1>2, Zenon
<1>4. QED
  BY <1>3

\* The index that a search for the first element returns.
LEMMA MinIn ==
  ASSUME NEW T \in SUBSET Nat, T # {} PROVE Min(T) \in T
BY LeastNumber, Zenon DEF Min

\* std::find_if by name: a node of that name, or the end when there is none.
LEMMA FindNode ==
  ASSUME NEW nodes, Len(nodes) \in Nat, NEW nodeName
  PROVE  LET i == findNodeByName(nodes, nodeName)
         IN  i # 0 => i \in 1..Len(nodes) /\ nodes[i].name = nodeName
<1> DEFINE I == {i \in 1..Len(nodes) : nodes[i].name = nodeName}
<1>1. findNodeByName(nodes, nodeName) = IF I # {} THEN Min(I) ELSE 0
  BY Zenon DEF findNodeByName, SelectInSeq
<1>2. I \in SUBSET Nat
  OBVIOUS
<1>3. I # {} => Min(I) \in I
  BY <1>2, MinIn
<1>4. QED
  BY <1>1, <1>3

\* std::find_if by target: an edge to the task, or the end when there is none.
LEMMA FirstEdge ==
  ASSUME NEW node, Len(node.downstream) \in Nat, NEW taskId
  PROVE  LET E == {j \in 1..Len(node.downstream) : node.downstream[j].target = taskId}
         IN  IF E = {} THEN firstEdgeTo(node, taskId) = 0
                       ELSE firstEdgeTo(node, taskId) \in E
<1> DEFINE E == {j \in 1..Len(node.downstream) : node.downstream[j].target = taskId}
<1>1. firstEdgeTo(node, taskId) = IF E # {} THEN Min(E) ELSE 0
  BY Zenon DEF firstEdgeTo, SelectInSeq
<1>2. E \in SUBSET Nat
  OBVIOUS
<1>3. E # {} => Min(E) \in E
  BY <1>2, MinIn
<1> HIDE DEF E
<1>4. IF E = {} THEN firstEdgeTo(node, taskId) = 0
                ELSE firstEdgeTo(node, taskId) \in E
  BY <1>1, <1>3, Zenon
<1>5. QED
  BY <1>4 DEF E

----------------------------------------------------------------------------
(* The loop of findUpstreamEdges. *)

\* What one round of the loop makes of the edges collected before it.
Round(nodes, taskId, before, i) ==
  IF firstEdgeTo(nodes[i], taskId) = 0 THEN before
  ELSE Append(before, nodes[i].downstream[firstEdgeTo(nodes[i], taskId)])

\* f[i] is what the loop has collected after i rounds, for n rounds.
Collects(f, nodes, taskId, n) ==
  f = [i \in 0..n |-> IF i = 0 THEN <<>> ELSE Round(nodes, taskId, f[i - 1], i)]

\* The values of such a function.
LEMMA CollectsRounds ==
  ASSUME NEW f, NEW nodes, NEW taskId, NEW n \in Nat, Collects(f, nodes, taskId, n)
  PROVE  /\ f[0] = <<>>
         /\ \A i \in 1..n : f[i] = Round(nodes, taskId, f[i - 1], i)
<1> DEFINE h == [i \in 0..n |-> IF i = 0 THEN <<>> ELSE Round(nodes, taskId, f[i - 1], i)]
<1>1. f = h
  BY Zenon DEF Collects
<1>2. 0 \in 0..n /\ \A i \in 1..n : i \in 0..n /\ i # 0
  OBVIOUS
<1>3. h[0] = <<>> /\ \A i \in 1..n : h[i] = Round(nodes, taskId, f[i - 1], i)
  BY <1>2, Zenon
<1>4. QED
  BY <1>1, <1>3, Zenon

\* There is such a function for any number of rounds.
LEMMA CollectsExists ==
  ASSUME NEW nodes, NEW taskId, NEW n \in Nat
  PROVE  \E f : Collects(f, nodes, taskId, n)
<1> DEFINE Has(m) == \E f : Collects(f, nodes, taskId, m)
           T == {m \in Nat : ~Has(m)}
<1>1. Has(0)
  <2> DEFINE h == [i \in 0..0 |-> <<>>]
  <2>1. h = [i \in 0..0 |-> IF i = 0 THEN <<>> ELSE Round(nodes, taskId, h[i - 1], i)]
    OBVIOUS
  <2>2. QED
    BY <2>1 DEF Collects
<1>2. ASSUME NEW m \in Nat, Has(m) PROVE Has(m + 1)
  <2>1. PICK f : Collects(f, nodes, taskId, m)
    BY <1>2
  <2>2. f[0] = <<>> /\ \A i \in 1..m : f[i] = Round(nodes, taskId, f[i - 1], i)
    BY <2>1, CollectsRounds
  <2> DEFINE g == [i \in 0..(m + 1) |->
                     IF i = m + 1 THEN Round(nodes, taskId, f[m], i) ELSE f[i]]
             h == [i \in 0..(m + 1) |->
                     IF i = 0 THEN <<>> ELSE Round(nodes, taskId, g[i - 1], i)]
  <2>3. ASSUME NEW i \in 0..(m + 1) PROVE g[i] = h[i]
    <3>1. CASE i = 0
      BY <2>2, <3>1
    <3>2. CASE i = m + 1
      <4>1. i - 1 = m /\ i # 0 /\ g[i - 1] = f[m]
        BY <3>2
      <4>2. QED
        BY <3>2, <4>1
    <3>3. CASE i \in 1..m
      <4>1. i # 0 /\ i # m + 1 /\ g[i - 1] = f[i - 1]
        BY <3>3
      <4>2. QED
        BY <2>2, <3>3, <4>1
    <3>4. QED
      BY <3>1, <3>2, <3>3
  <2>4. g = h
    BY <2>3
  <2>5. Collects(g, nodes, taskId, m + 1)
    BY <2>4, Zenon DEF Collects
  <2>6. QED
    BY <2>5
<1>3. ASSUME T # {} PROVE FALSE
  <2> HIDE DEF Has
  <2>1. PICK m \in T : \A k \in T : m <= k
    BY <1>3, LeastNumber
  <2>2. m # 0
    BY <1>1, <2>1
  <2>3. m - 1 \in Nat /\ Has(m - 1)
    BY <2>1, <2>2
  <2>4. Has((m - 1) + 1)
    BY <1>2, <2>3
  <2>5. QED
    BY <2>1, <2>4
<1>4. QED
  BY <1>3

\* findUpstreamEdges is what the loop has collected in the end.
LEMMA LoopResult ==
  ASSUME NEW nodes, NEW taskId, Len(nodes) \in Nat
  PROVE  \E f : /\ Collects(f, nodes, taskId, Len(nodes))
                /\ findUpstreamEdges(nodes, taskId) = f[Len(nodes)]
<1> DEFINE f == CHOOSE f : f = [i \in 0..Len(nodes) |->
                  IF i = 0 THEN <<>>
                  ELSE IF firstEdgeTo(nodes[i], taskId) = 0 THEN f[i - 1]
                  ELSE Append(f[i - 1],
                              nodes[i].downstream[firstEdgeTo(nodes[i], taskId)])]
<1>1. \E g : g = [i \in 0..Len(nodes) |->
                  IF i = 0 THEN <<>>
                  ELSE IF firstEdgeTo(nodes[i], taskId) = 0 THEN g[i - 1]
                  ELSE Append(g[i - 1],
                              nodes[i].downstream[firstEdgeTo(nodes[i], taskId)])]
  <2>1. PICK g : Collects(g, nodes, taskId, Len(nodes))
    BY CollectsExists
  <2>2. QED
    BY <2>1, Zenon DEF Collects, Round
<1>2. Collects(f, nodes, taskId, Len(nodes))
  BY <1>1, Zenon DEF Collects, Round
<1>3. findUpstreamEdges(nodes, taskId) = f[Len(nodes)]
  BY Zenon DEF findUpstreamEdges
<1>4. QED
  BY <1>2, <1>3, Zenon

\* The edges that the loop finds: edges of the graph, one for every node that
\* has an edge to the task, and nothing else.
HasEdge(nodes, taskId, m)   == firstEdgeTo(nodes[m], taskId) # 0
FoundEdge(nodes, taskId, m) == nodes[m].downstream[firstEdgeTo(nodes[m], taskId)]

FoundIn(nodes, taskId, n, edges) ==
  /\ \A k \in 1..Len(edges) : \E m \in 1..n :
       HasEdge(nodes, taskId, m) /\ edges[k] = FoundEdge(nodes, taskId, m)
  /\ \A m \in 1..n : HasEdge(nodes, taskId, m) =>
       \E k \in 1..Len(edges) : edges[k] = FoundEdge(nodes, taskId, m)

\* One more round.
LEMMA FoundRound ==
  ASSUME NEW S, NEW nodes, NEW taskId, NEW n \in Nat,
         HasEdge(nodes, taskId, n + 1) => FoundEdge(nodes, taskId, n + 1) \in S,
         NEW edges \in Seq(S), FoundIn(nodes, taskId, n, edges)
  PROVE  /\ Round(nodes, taskId, edges, n + 1) \in Seq(S)
         /\ FoundIn(nodes, taskId, n + 1, Round(nodes, taskId, edges, n + 1))
<1>1. CASE ~HasEdge(nodes, taskId, n + 1)
  <2>1. Round(nodes, taskId, edges, n + 1) = edges
    BY <1>1, Zenon DEF Round, HasEdge
  <2>2. \A m \in 1..n : m \in 1..(n + 1)
    OBVIOUS
  <2>3. \A m \in 1..(n + 1) : m \in 1..n \/ m = n + 1
    OBVIOUS
  <2>4. FoundIn(nodes, taskId, n + 1, edges)
    BY <1>1, <2>2, <2>3, Zenon DEF FoundIn
  <2>5. QED
    BY <2>1, <2>4
<1>2. CASE HasEdge(nodes, taskId, n + 1)
  <2>1. PICK e \in S : e = FoundEdge(nodes, taskId, n + 1)
    BY <1>2
  <2>2. PICK longer \in Seq(S) : longer = Append(edges, e)
    BY AppendProperties
  <2>3. Round(nodes, taskId, edges, n + 1) = longer
    BY <1>2, <2>1, <2>2, Zenon DEF Round, HasEdge, FoundEdge
  <2>4. /\ Len(edges) \in Nat /\ Len(longer) = Len(edges) + 1
        /\ \A k \in 1..Len(edges) : longer[k] = edges[k]
        /\ longer[Len(edges) + 1] = e
    BY <2>2, AppendProperties, LenProperties
  <2>5. ASSUME NEW k \in 1..Len(longer)
        PROVE  \E m \in 1..(n + 1) : /\ HasEdge(nodes, taskId, m)
                                     /\ longer[k] = FoundEdge(nodes, taskId, m)
    <3>1. CASE k \in 1..Len(edges)
      <4>1. PICK m \in 1..n : /\ HasEdge(nodes, taskId, m)
                              /\ edges[k] = FoundEdge(nodes, taskId, m)
        BY <3>1 DEF FoundIn
      <4>2. m \in 1..(n + 1) /\ longer[k] = edges[k]
        BY <2>4, <3>1
      <4>3. QED
        BY <4>1, <4>2, Zenon
    <3>2. CASE k = Len(edges) + 1
      <4>1. n + 1 \in 1..(n + 1) /\ longer[k] = FoundEdge(nodes, taskId, n + 1)
        BY <2>1, <2>4, <3>2
      <4>2. QED
        BY <1>2, <4>1, Zenon
    <3>3. QED
      BY <2>4, <3>1, <3>2
  <2>6. ASSUME NEW m \in 1..(n + 1), HasEdge(nodes, taskId, m)
        PROVE  \E k \in 1..Len(longer) : longer[k] = FoundEdge(nodes, taskId, m)
    <3>1. CASE m \in 1..n
      <4>1. PICK k \in 1..Len(edges) : edges[k] = FoundEdge(nodes, taskId, m)
        BY <2>6, <3>1 DEF FoundIn
      <4>2. k \in 1..Len(longer) /\ longer[k] = edges[k]
        BY <2>4, <4>1
      <4>3. QED
        BY <4>1, <4>2, Zenon
    <3>2. CASE m = n + 1
      <4>1. Len(edges) + 1 \in 1..Len(longer)
        BY <2>4
      <4>2. longer[Len(edges) + 1] = FoundEdge(nodes, taskId, m)
        BY <2>1, <2>4, <3>2
      <4>3. QED
        BY <4>1, <4>2, Zenon
    <3>3. QED
      BY <3>1, <3>2
  <2>7. FoundIn(nodes, taskId, n + 1, longer)
    BY <2>5, <2>6 DEF FoundIn
  <2>8. QED
    BY <2>3, <2>7
<1>3. QED
  BY <1>1, <1>2

\* What findUpstreamEdges returns, for a graph of any size.
LEMMA UpstreamEdges ==
  ASSUME NEW S, NEW nodes, NEW taskId, Len(nodes) \in Nat,
         \A m \in 1..Len(nodes) :
           HasEdge(nodes, taskId, m) => FoundEdge(nodes, taskId, m) \in S
  PROVE  /\ findUpstreamEdges(nodes, taskId) \in Seq(S)
         /\ FoundIn(nodes, taskId, Len(nodes), findUpstreamEdges(nodes, taskId))
<1>1. PICK n \in Nat : n = Len(nodes)
  OBVIOUS
<1>2. PICK f : /\ Collects(f, nodes, taskId, n)
               /\ findUpstreamEdges(nodes, taskId) = f[n]
  BY <1>1, LoopResult
<1>3. f[0] = <<>> /\ \A i \in 1..n : f[i] = Round(nodes, taskId, f[i - 1], i)
  BY <1>2, CollectsRounds
<1> DEFINE Good(i) == f[i] \in Seq(S) /\ FoundIn(nodes, taskId, i, f[i])
           T == {i \in 0..n : ~Good(i)}
<1>4. Good(0)
  <2>1. f[0] \in Seq(S) /\ Len(f[0]) = 0
    BY <1>3, EmptySeq
  <2>2. FoundIn(nodes, taskId, 0, f[0])
    BY <2>1 DEF FoundIn
  <2>3. QED
    BY <2>1, <2>2
<1>5. ASSUME NEW i \in 0..(n - 1), Good(i) PROVE Good(i + 1)
  <2>1. i \in Nat /\ i + 1 \in 1..n /\ (i + 1) - 1 = i
    OBVIOUS
  <2>2. f[i + 1] = Round(nodes, taskId, f[i], i + 1)
    BY <1>3, <2>1
  <2>3. HasEdge(nodes, taskId, i + 1) => FoundEdge(nodes, taskId, i + 1) \in S
    BY <1>1, <2>1
  <2>4. QED
    BY <1>5, <2>1, <2>2, <2>3, FoundRound
<1>6. ASSUME T # {} PROVE FALSE
  <2> HIDE DEF Good
  <2>1. PICK m \in T : \A k \in T : m <= k
    <3>1. T \in SUBSET Nat
      OBVIOUS
    <3>2. QED
      BY <1>6, <3>1, LeastNumber
  <2>2. m \in 1..n
    BY <1>4, <2>1
  <2>3. m - 1 \in 0..(n - 1) /\ Good(m - 1)
    BY <2>1, <2>2
  <2>4. Good((m - 1) + 1)
    BY <1>5, <2>3
  <2>5. QED
    BY <2>1, <2>4
<1>7. Good(n)
  BY <1>6
<1>8. QED
  BY <1>1, <1>2, <1>7

----------------------------------------------------------------------------
(* The inductive invariant. *)

\* The parsed graph.
GraphTyped ==
  /\ Len(m_nodes) \in Nat
  /\ \A i \in 1..Len(m_nodes) :
       m_nodes[i].task \in Tasks /\ m_nodes[i].downstream \in Seq(Edge)

InstanceType == [state : {"none", "failed", "running"}, task : SUBSET Tasks,
                 downstream : Seq(Edge), upstream : Seq(Edge),
                 producers : SUBSET EdgeIds, consumers : SUBSET EdgeIds]

\* An instance has either nothing or what its node in the graph asks for.
Empty(inst) ==
  /\ inst.task = {} /\ inst.downstream = <<>> /\ inst.upstream = <<>>
  /\ inst.producers = {} /\ inst.consumers = {}

Built(inst) ==
  \E i \in 1..Len(m_nodes) :
    /\ inst.task = {m_nodes[i].task}
    /\ inst.downstream = m_nodes[i].downstream
    /\ inst.upstream = findUpstreamEdges(m_nodes, m_nodes[i].task)
    /\ inst.producers = EdgeIdsOf(inst.downstream)
    /\ inst.consumers = EdgeIdsOf(inst.upstream)

GraphInv ==
  /\ GraphTyped
  /\ instance \in [Names -> InstanceType]
  /\ \A n \in Names : Empty(instance[n]) \/ Built(instance[n])

\* The edges that the graph's nodes have to a task.
LEMMA FoundEdges ==
  ASSUME GraphTyped, NEW task
  PROVE  \A m \in 1..Len(m_nodes) :
           /\ IF EdgesTo(m, task) = {} THEN ~HasEdge(m_nodes, task, m)
              ELSE firstEdgeTo(m_nodes[m], task) \in EdgesTo(m, task)
           /\ HasEdge(m_nodes, task, m) =>
                /\ firstEdgeTo(m_nodes[m], task) \in EdgesTo(m, task)
                /\ FoundEdge(m_nodes, task, m) \in Edge
<1> TAKE m \in 1..Len(m_nodes)
<1>1. m_nodes[m].downstream \in Seq(Edge) /\ Len(m_nodes[m].downstream) \in Nat
  BY LenProperties DEF GraphTyped
<1>2. IF EdgesTo(m, task) = {} THEN firstEdgeTo(m_nodes[m], task) = 0
      ELSE firstEdgeTo(m_nodes[m], task) \in EdgesTo(m, task)
  BY <1>1, FirstEdge, Zenon DEF EdgesTo
<1>3. HasEdge(m_nodes, task, m) => firstEdgeTo(m_nodes[m], task) \in EdgesTo(m, task)
  BY <1>2, Zenon DEF HasEdge
<1>4. \A j \in EdgesTo(m, task) : m_nodes[m].downstream[j] \in Edge
  BY <1>1, ElementOfSeq DEF EdgesTo
<1>5. HasEdge(m_nodes, task, m) => FoundEdge(m_nodes, task, m) \in Edge
  BY <1>3, <1>4, Zenon DEF FoundEdge
<1>6. EdgesTo(m, task) = {} => ~HasEdge(m_nodes, task, m)
  BY <1>2, Zenon DEF HasEdge
<1>7. QED
  BY <1>2, <1>3, <1>5, <1>6, Zenon

\* The edges that lead to a task, as findUpstreamEdges finds them.
LEMMA UpstreamOf ==
  ASSUME GraphTyped, NEW task
  PROVE  /\ findUpstreamEdges(m_nodes, task) \in Seq(Edge)
         /\ FoundIn(m_nodes, task, Len(m_nodes), findUpstreamEdges(m_nodes, task))
<1>1. \A m \in 1..Len(m_nodes) :
        HasEdge(m_nodes, task, m) => FoundEdge(m_nodes, task, m) \in Edge
  BY FoundEdges
<1>2. Len(m_nodes) \in Nat
  BY DEF GraphTyped
<1>3. QED
  BY <1>1, <1>2, UpstreamEdges

\* The names of edges.
LEMMA EdgeNames ==
  ASSUME NEW edges \in Seq(Edge) PROVE EdgeIdsOf(edges) \in SUBSET EdgeIds
<1>1. \A k \in 1..Len(edges) : edges[k] \in Edge
  BY ElementOfSeq
<1>2. \A k \in 1..Len(edges) : edges[k].id \in EdgeIds
  BY <1>1 DEF Edge
<1>3. QED
  BY <1>2 DEF EdgeIdsOf

\* A graph that has been parsed, and nothing started.
LEMMA GraphInvInit == Init => GraphInv
<1> SUFFICES ASSUME Init PROVE GraphInv
  OBVIOUS
<1> DEFINE U == UNION {Node(i) : i \in Places}
<1>1. m_nodes \in [Places -> U] /\ \A i \in Places : m_nodes[i] \in Node(i)
  BY DEF Init
<1>2. Len(GraphNames) \in Nat /\ MaxEdges \in [1..Len(GraphNames) -> Nat]
  BY DAGParserAssumption, LenProperties
<1>3. Len(m_nodes) = Len(GraphNames)
  <2> HIDE DEF U
  <2>1. m_nodes \in Seq(U)
    BY <1>1, <1>2, SeqDef DEF Places
  <2>2. QED
    BY <1>1, <1>2, <2>1, LenProperties DEF Places
<1>4. ASSUME NEW i \in Places
      PROVE  m_nodes[i].task \in Tasks /\ m_nodes[i].downstream \in Seq(Edge)
  <2>1. m_nodes[i].task \in Tasks /\ m_nodes[i].downstream \in BoundedSeq(Edge, MaxEdges[i])
    BY <1>1 DEF Node
  <2>2. MaxEdges[i] \in Nat
    BY <1>2 DEF Places
  <2>3. PICK k \in 0..MaxEdges[i] : m_nodes[i].downstream \in [1..k -> Edge]
    BY <2>1 DEF BoundedSeq, SeqOf
  <2>4. k \in Nat
    BY <2>2
  <2>5. QED
    BY <2>1, <2>3, <2>4, SeqDef
<1>5. GraphTyped
  BY <1>2, <1>3, <1>4 DEF GraphTyped, Places
<1>6. NotStarted \in InstanceType
  BY EmptySeq DEF NotStarted, InstanceType
<1>7. Empty(NotStarted)
  BY DEF Empty, NotStarted
<1>8. instance = [n \in Names |-> NotStarted]
  BY DEF Init
<1>9. QED
  BY <1>5, <1>6, <1>7, <1>8 DEF GraphInv

\* Starting, failing and stopping an instance.
LEMMA GraphInvNext == GraphInv /\ [Next]_vars => GraphInv'
<1> SUFFICES ASSUME GraphInv, [Next]_vars PROVE GraphInv'
  OBVIOUS
<1>1. GraphTyped /\ instance \in [Names -> InstanceType]
  BY DEF GraphInv
<1>2. m_nodes' = m_nodes
  BY DEF Next, vars, ConstructorThrows, IceFlowConstructor, Stop
<1>3. GraphTyped'
  BY <1>1, <1>2 DEF GraphTyped
<1>4. \A inst : Built(inst)' = Built(inst)
  BY <1>2 DEF Built
<1>5. ASSUME NEW n \in Names, NEW inst \in InstanceType, Empty(inst) \/ Built(inst),
             instance' = [instance EXCEPT ![n] = inst]
      PROVE  GraphInv'
  <2>1. instance' \in [Names -> InstanceType]
    BY <1>1, <1>5
  <2>2. \A m \in Names : Empty(instance'[m]) \/ Built(instance'[m])
    BY <1>1, <1>5 DEF GraphInv
  <2>3. QED
    BY <1>2, <1>3, <2>1, <2>2 DEF GraphInv, Built
<1>6. ASSUME NEW n \in Names, ConstructorThrows(n) PROVE GraphInv'
  <2> DEFINE inst == [instance[n] EXCEPT !.state = "failed"]
  <2>1. instance' = [instance EXCEPT ![n] = inst]
    BY <1>6 DEF ConstructorThrows
  <2>2. instance[n] \in InstanceType /\ (Empty(instance[n]) \/ Built(instance[n]))
    BY <1>1 DEF GraphInv
  <2>3. /\ inst \in InstanceType
        /\ inst.task = instance[n].task /\ inst.downstream = instance[n].downstream
        /\ inst.upstream = instance[n].upstream
        /\ inst.producers = instance[n].producers /\ inst.consumers = instance[n].consumers
    BY <2>2 DEF InstanceType
  <2> HIDE DEF inst
  <2>4. Empty(inst) \/ Built(inst)
    BY <2>2, <2>3 DEF Empty, Built
  <2>5. QED
    BY <1>5, <2>1, <2>3, <2>4
<1>7. ASSUME NEW n \in Names, IceFlowConstructor(n) PROVE GraphInv'
  <2>1. PICK i : i = findNodeByName(m_nodes, n)
    OBVIOUS
  <2>2. i \in 1..Len(m_nodes)
    BY <1>1, <1>7, <2>1, FindNode DEF IceFlowConstructor, GraphTyped
  <2>3. PICK up : up = findUpstreamEdges(m_nodes, m_nodes[i].task)
    OBVIOUS
  <2> DEFINE inst == [state |-> "running", task |-> {m_nodes[i].task},
                      downstream |-> m_nodes[i].downstream, upstream |-> up,
                      producers |-> EdgeIdsOf(m_nodes[i].downstream),
                      consumers |-> EdgeIdsOf(up)]
  <2>4. instance' = [instance EXCEPT ![n] = inst]
    BY <1>7, <2>1, <2>3 DEF IceFlowConstructor
  <2>5. up \in Seq(Edge) /\ EdgeIdsOf(up) \in SUBSET EdgeIds
    BY <1>1, <2>3, UpstreamOf, EdgeNames
  <2>6. /\ m_nodes[i].downstream \in Seq(Edge) /\ m_nodes[i].task \in Tasks
        /\ EdgeIdsOf(m_nodes[i].downstream) \in SUBSET EdgeIds
    BY <1>1, <2>2, EdgeNames DEF GraphTyped
  <2>7. inst \in InstanceType
    BY <2>5, <2>6 DEF InstanceType
  <2>8. Built(inst)
    BY <2>2, <2>3 DEF Built
  <2>9. QED
    BY <1>5, <2>4, <2>7, <2>8
<1>8. ASSUME NEW n \in Names, Stop(n) PROVE GraphInv'
  <2>1. NotStarted \in InstanceType /\ Empty(NotStarted)
    BY EmptySeq DEF NotStarted, InstanceType, Empty
  <2>2. QED
    BY <1>5, <1>8, <2>1 DEF Stop
<1>9. CASE UNCHANGED vars
  BY <1>1, <1>2, <1>3, <1>9 DEF vars, GraphInv, Built
<1>10. QED
  BY <1>6, <1>7, <1>8, <1>9 DEF Next

----------------------------------------------------------------------------
(* Theorems. *)

\* An instance consumes only edges that lead to its own task (iceflow.cpp, the
\* constructor; dag-parser.cpp, findUpstreamEdges), for every graph.
THEOREM OwnEdgesConsumed == Spec => []ConsumesOnlyOwnEdges
<1>1. GraphInv => ConsumesOnlyOwnEdges
  <2> SUFFICES ASSUME GraphInv, NEW c \in Names, NEW id \in instance[c].consumers
               PROVE  \E i \in 1..Len(m_nodes) : \E task \in instance[c].task :
                        \E j \in EdgesTo(i, task) : m_nodes[i].downstream[j].id = id
    BY DEF ConsumesOnlyOwnEdges
  <2>1. Built(instance[c])
    BY DEF GraphInv, Empty
  <2>2. PICK i \in 1..Len(m_nodes) :
          /\ instance[c].task = {m_nodes[i].task}
          /\ instance[c].upstream = findUpstreamEdges(m_nodes, m_nodes[i].task)
          /\ instance[c].consumers = EdgeIdsOf(instance[c].upstream)
    BY <2>1 DEF Built
  <2>3. PICK task, up : task = m_nodes[i].task /\ up = findUpstreamEdges(m_nodes, task)
    OBVIOUS
  <2>4. PICK k \in 1..Len(up) : up[k].id = id
    BY <2>2, <2>3 DEF EdgeIdsOf
  <2>5. FoundIn(m_nodes, task, Len(m_nodes), up)
    BY <2>3, UpstreamOf DEF GraphInv
  <2>6. PICK m \in 1..Len(m_nodes) : /\ HasEdge(m_nodes, task, m)
                                     /\ up[k] = FoundEdge(m_nodes, task, m)
    BY <2>5 DEF FoundIn
  <2>7. firstEdgeTo(m_nodes[m], task) \in EdgesTo(m, task)
    BY <2>6, FoundEdges DEF GraphInv
  <2>8. m_nodes[m].downstream[firstEdgeTo(m_nodes[m], task)].id = id
    BY <2>4, <2>6 DEF FoundEdge
  <2>9. QED
    BY <2>2, <2>3, <2>7, <2>8
<1>2. QED
  BY <1>1, GraphInvInit, GraphInvNext, PTL DEF Spec

\* With at most one edge from a node to a task, what an instance of the node
\* publishes an instance of the task has a consumer for (iceflow.cpp, the
\* constructor), for every graph and in whatever order nodes and edges are
\* listed and instances start, fail and stop.
THEOREM SingleEdgesConsumed == Spec => []SingleEdgesAreConsumed
<1>1. GraphInv => SingleEdgesAreConsumed
  <2> SUFFICES ASSUME GraphInv, NEW i \in 1..Len(m_nodes), NEW c \in Names,
                      \A task \in Tasks : \A j, k \in EdgesTo(i, task) : j = k,
                      NEW task \in instance[c].task, NEW j \in EdgesTo(i, task)
               PROVE  m_nodes[i].downstream[j].id \in instance[c].consumers
    BY DEF SingleEdgesAreConsumed, Wired
  <2>1. Built(instance[c]) /\ task \in Tasks
    BY DEF GraphInv, Empty, InstanceType
  <2>2. PICK up : /\ up = findUpstreamEdges(m_nodes, task)
                  /\ instance[c].consumers = EdgeIdsOf(up)
    BY <2>1 DEF Built
  <2>3. FoundIn(m_nodes, task, Len(m_nodes), up)
    BY <2>2, UpstreamOf DEF GraphInv
  <2>4. firstEdgeTo(m_nodes[i], task) \in EdgesTo(i, task)
    BY FoundEdges DEF GraphInv
  <2>5. firstEdgeTo(m_nodes[i], task) = j
    BY <2>1, <2>4
  <2>6. j # 0
    BY DEF EdgesTo
  <2>7. HasEdge(m_nodes, task, i)
    BY <2>5, <2>6 DEF HasEdge
  <2>8. PICK k \in 1..Len(up) : up[k] = FoundEdge(m_nodes, task, i)
    BY <2>3, <2>7 DEF FoundIn
  <2>9. up[k] = m_nodes[i].downstream[j]
    BY <2>5, <2>8 DEF FoundEdge
  <2>10. QED
    BY <2>2, <2>8, <2>9 DEF EdgeIdsOf
<1>2. QED
  BY <1>1, GraphInvInit, GraphInvNext, PTL DEF Spec

\* The comparison in uint32_t arithmetic lets every index of an edge pass.
LEMMA EdgeInside ==
  ASSUME NEW edges \in Seq(Edge), NEW index \in Nat, index < Len(edges)
  PROVE  EdgeAt(edges, index) = edges[index + 1].id /\ index + 1 \in 1..Len(edges)
<1>1. Modulus \in Nat \ {0} /\ Len(edges) \in Nat
  BY DAGParserAssumption, LenProperties
<1>2. ToUint32(index + 1) <= index + 1
  BY <1>1, SMTT(30) DEF ToUint32
<1>3. InRange(edges, index)
  <2>1. ToUint32(index + 1) \in Nat
    BY <1>1 DEF ToUint32
  <2>2. QED
    BY <1>1, <1>2, <2>1 DEF InRange
<1>4. QED
  BY <1>1, <1>3 DEF EdgeAt

\* An accessor gives the edges by index and then none: the comparison in
\* uint32_t arithmetic is exact for every index but the largest.
LEMMA EdgeAtIndex ==
  ASSUME NEW edges \in Seq(Edge), NEW index \in 0..(Modulus - 1)
  PROVE  EdgeAt(edges, index) = ByIndex(edges, index)
<1>1. Modulus \in Nat \ {0} /\ Len(edges) \in Nat
  BY DAGParserAssumption, LenProperties
<1>2. CASE index < Len(edges)
  BY <1>1, <1>2, EdgeInside DEF ByIndex
<1>3. CASE ~(index < Len(edges)) /\ index = Modulus - 1
  <2>1. ToUint32(index + 1) = 0
    <3>1. index + 1 = Modulus /\ Modulus % Modulus = 0
      BY <1>1, <1>3
    <3>2. QED
      BY <3>1 DEF ToUint32
  <2>2. InRange(edges, index)
    BY <1>1, <2>1 DEF InRange
  <2>3. QED
    BY <1>3, <2>2 DEF EdgeAt, ByIndex
<1>4. CASE ~(index < Len(edges)) /\ index # Modulus - 1
  <2>1. ToUint32(index + 1) = index + 1
    BY <1>1, <1>4 DEF ToUint32
  <2>2. ~InRange(edges, index)
    BY <1>1, <1>4, <2>1 DEF InRange
  <2>3. QED
    BY <1>4, <2>2 DEF EdgeAt, ByIndex
<1>5. QED
  BY <1>2, <1>3, <1>4

\* By their places, an accessor gives exactly the edges of the list.
LEMMA EdgesAtPlaces ==
  ASSUME NEW edges \in Seq(Edge)
  PROVE  {EdgeAt(edges, i) : i \in 0..(Len(edges) - 1)} = EdgeIdsOf(edges)
<1>1. Len(edges) \in Nat
  BY LenProperties
<1>2. \A i \in 0..(Len(edges) - 1) :
        EdgeAt(edges, i) = edges[i + 1].id /\ i + 1 \in 1..Len(edges)
  BY <1>1, EdgeInside
<1>3. \A k \in 1..Len(edges) :
        k - 1 \in 0..(Len(edges) - 1) /\ edges[k].id = EdgeAt(edges, k - 1)
  <2> TAKE k \in 1..Len(edges)
  <2>1. k - 1 \in 0..(Len(edges) - 1) /\ (k - 1) + 1 = k
    BY <1>1
  <2>2. QED
    BY <1>2, <2>1, Zenon
<1>4. QED
  BY <1>2, <1>3 DEF EdgeIdsOf

\* The accessors give each edge at its own place, for every value of the index,
\* and so exactly the edges that have a producer or consumer (iceflow.cpp,
\* getDownstreamEdge, getUpstreamEdge), for every graph, every instance and
\* every width of the index.
THEOREM EdgesFoundByIndex == Spec => []EdgesByIndex
<1>1. GraphInv => EdgesByIndex
  <2> SUFFICES ASSUME GraphInv, NEW n \in Names
               PROVE  /\ \A index \in 0..(Modulus - 1) :
                           /\ getDownstreamEdge(n, index)
                                = ByIndex(instance[n].downstream, index)
                           /\ getUpstreamEdge(n, index)
                                = ByIndex(instance[n].upstream, index)
                      /\ {getDownstreamEdge(n, i) :
                            i \in 0..(Len(instance[n].downstream) - 1)}
                           = instance[n].producers
                      /\ {getUpstreamEdge(n, i) :
                            i \in 0..(Len(instance[n].upstream) - 1)}
                           = instance[n].consumers
    BY DEF EdgesByIndex
  <2>1. instance[n] \in InstanceType
    BY DEF GraphInv
  <2>2. instance[n].downstream \in Seq(Edge) /\ instance[n].upstream \in Seq(Edge)
    BY <2>1 DEF InstanceType
  <2>3. /\ instance[n].producers = EdgeIdsOf(instance[n].downstream)
        /\ instance[n].consumers = EdgeIdsOf(instance[n].upstream)
    <3>1. CASE Empty(instance[n])
      BY <3>1, EmptySeq DEF Empty, EdgeIdsOf
    <3>2. CASE Built(instance[n])
      BY <3>2 DEF Built
    <3>3. QED
      BY <3>1, <3>2 DEF GraphInv
  <2>4. QED
    BY <2>2, <2>3, EdgeAtIndex, EdgesAtPlaces DEF getDownstreamEdge, getUpstreamEdge
<1>2. QED
  BY <1>1, GraphInvInit, GraphInvNext, PTL DEF Spec

============================================================================
