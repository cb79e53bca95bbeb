----------------------------- MODULE DAGParser -----------------------------
(***************************************************************************)
(* The application's graph (src/dag-parser.cpp) and what the constructor   *)
(* of IceFlow (src/iceflow.cpp) makes of it: instances of the graph's      *)
(* nodes start in any order, each with its own copy of the graph, and      *)
(* create a producer per downstream and a consumer per upstream edge.      *)
(***************************************************************************)
EXTENDS Naturals, Sequences, SequencesExt

CONSTANTS Tasks,     \* task identifiers
          EdgeIds,   \* edge identifiers
          Names,     \* names that instances are started with
          GraphNames,\* the names of the graph's nodes, in the order of the file
          MaxEdges,  \* bound: downstream edges of the node at each place
          Numbers,   \* values of maxPartitions in the file
          Modulus    \* number of values of a uint32_t

ASSUME DAGParserAssumption ==
  /\ GraphNames \in Seq(Names)
  /\ MaxEdges \in [1..Len(GraphNames) -> Nat]
  /\ Numbers \subseteq Nat
  /\ Modulus \in Nat \ {0}

VARIABLES m_nodes,   \* the parsed graph
          instance   \* [name]: the instance that was started with this name

vars == <<m_nodes, instance>>

\* A number of the file becomes a uint32_t (get<uint32_t>), whatever its size.
ToUint32(k) == k % Modulus

\* What the members of a node in the file become (fromJson); a node without
\* "downstream" has no edges.
Edge == [id : EdgeIds, target : Tasks,
         maxPartitions : {ToUint32(k) : k \in Numbers}]
Node(i) == [task : Tasks, name : {GraphNames[i]},
            downstream : BoundedSeq(Edge, MaxEdges[i])]

\* An instance: its task, m_downstreamEdges and m_upstreamEdges, and the keys
\* of m_iceflowProducers and m_iceflowConsumers.
NotStarted == [state |-> "none", task |-> {}, downstream |-> <<>>,
               upstream |-> <<>>, producers |-> {}, consumers |-> {}]

----------------------------------------------------------------------------
(* Lookups. *)

\* The index of the first node with the name; 0 stands for the exception.
findNodeByName(nodes, nodeName) ==
  SelectInSeq(nodes, LAMBDA node : node.name = nodeName)

\* Mutant: the first edge is taken whatever its target is.
firstEdgeTo_any(node, taskId) == IF node.downstream = <<>> THEN 0 ELSE 1

\* std::find_if over a node's downstream edges; 0 is end().
firstEdgeTo(node, taskId) ==
  SelectInSeq(node.downstream, LAMBDA edge : edge.target = taskId)

\* Mutant: the last node is left out.
findUpstreamEdges_short(nodes, taskId) ==
  LET edges[i \in 0..Len(nodes)] ==
        IF i = 0 THEN <<>>
        ELSE IF firstEdgeTo(nodes[i], taskId) = 0 \/ i = Len(nodes) THEN edges[i - 1]
        ELSE Append(edges[i - 1], nodes[i].downstream[firstEdgeTo(nodes[i], taskId)])
  IN  edges[Len(nodes)]

\* For each node that has an edge to the task, the first such edge: edges[i] is
\* what the loop over the nodes has collected after the i-th.
findUpstreamEdges(nodes, taskId) ==
  LET edges[i \in 0..Len(nodes)] ==
        IF i = 0 THEN <<>>
        ELSE IF firstEdgeTo(nodes[i], taskId) = 0 THEN edges[i - 1]
        ELSE Append(edges[i - 1], nodes[i].downstream[firstEdgeTo(nodes[i], taskId)])
  IN  edges[Len(nodes)]

----------------------------------------------------------------------------
(* Construction of instances. *)

Places == 1..Len(GraphNames)

\* Every instance reads the same file.  No edge leads back to its own task.
Init ==
  /\ m_nodes \in {nodes \in [Places -> UNION {Node(i) : i \in Places}] :
                    \A i \in Places :
                      /\ nodes[i] \in Node(i)
                      /\ \A j \in 1..Len(nodes[i].downstream) :
                           nodes[i].downstream[j].target # nodes[i].task}
  /\ instance = [n \in Names |-> NotStarted]

EdgeIdsOf(edges) == {edges[i].id : i \in 1..Len(edges)}

\* The constructor of some producer throws (setTopicPartitions).
HasEmptyEdge(node) ==
  \E j \in 1..Len(node.downstream) : node.downstream[j].maxPartitions = 0

\* The file cannot be opened or lacks a mandatory member, or the node is not
\* in it, or a producer cannot be built.
ConstructorThrows(n) ==
  /\ instance[n].state = "none"
  /\ instance' = [instance EXCEPT ![n].state = "failed"]
  /\ UNCHANGED m_nodes

\* Producers and consumers are kept by edge name: a second edge of the same
\* name adds nothing (emplace).
IceFlowConstructor(n) ==
  LET i == findNodeByName(m_nodes, n)
      upstream == findUpstreamEdges(m_nodes, m_nodes[i].task)
  IN
  /\ instance[n].state = "none"
  /\ i # 0
  /\ ~HasEmptyEdge(m_nodes[i])
  /\ instance' = [instance EXCEPT ![n] =
       [state      |-> "running",
        task       |-> {m_nodes[i].task},
        downstream |-> m_nodes[i].downstream,
        upstream   |-> upstream,
        producers  |-> EdgeIdsOf(m_nodes[i].downstream),
        consumers  |-> EdgeIdsOf(upstream)]]
  /\ UNCHANGED m_nodes

\* The process ends and may be started again.
Stop(n) ==
  /\ instance[n].state # "none"
  /\ instance' = [instance EXCEPT ![n] = NotStarted]
  /\ UNCHANGED m_nodes

----------------------------------------------------------------------------
(* The accessors by index: an edge, none (nullopt), or an exception (at).  *)

\* Mutant: the index is compared with the size itself.
InRange_inclusive(edges, index) == Len(edges) >= index

\* size() >= index + 1, in uint32_t.
InRange(edges, index) == Len(edges) >= ToUint32(index + 1)

EdgeAt(edges, index) ==
  IF ~InRange(edges, index) THEN "none"
  ELSE IF index < Len(edges) THEN edges[index + 1].id
  ELSE "out_of_range"

getDownstreamEdge(n, index) == EdgeAt(instance[n].downstream, index)
getUpstreamEdge(n, index)   == EdgeAt(instance[n].upstream, index)

Next == \E n \in Names : ConstructorThrows(n) \/ IceFlowConstructor(n) \/ Stop(n)

Spec == Init /\ [][Next]_vars

----------------------------------------------------------------------------
(* Properties. *)

\* The downstream edges of node i that lead to the task.
EdgesTo(i, task) ==
  {j \in 1..Len(m_nodes[i].downstream) : m_nodes[i].downstream[j].target = task}

\* A producing instance of node i and an instance of its target task agree on
\* the edge: whatever the first publishes, the second has a consumer for.
Wired(i, c) ==
  \A task \in instance[c].task : \A j \in EdgesTo(i, task) :
    m_nodes[i].downstream[j].id \in instance[c].consumers

\* The graph's syntax (dag-syntax.cddl, "downstream: [ + edge ]") lets a node
\* have several edges to one task: every one of them has a consumer.
EveryEdgeIsConsumed ==
  \A i \in 1..Len(m_nodes) : \A c \in Names :
    instance[m_nodes[i].name].producers # {} => Wired(i, c)

\* With at most one edge from a node to a task, two instances that have read
\* the same graph agree on every edge between them, in whatever order nodes
\* and edges are listed and instances start.
SingleEdgesAreConsumed ==
  \A i \in 1..Len(m_nodes) : \A c \in Names :
    /\ instance[m_nodes[i].name].producers # {}
    /\ \A task \in Tasks : \A j, k \in EdgesTo(i, task) : j = k
    => Wired(i, c)

\* An instance consumes only edges that lead to its own task.
ConsumesOnlyOwnEdges ==
  \A c \in Names : \A id \in instance[c].consumers :
    \E i \in 1..Len(m_nodes) : \E task \in instance[c].task :
      \E j \in EdgesTo(i, task) : m_nodes[i].downstream[j].id = id

\* What an application is given for an index: the edge at that place, then
\* none, and an exception at the largest index, where index + 1 is 0 again.
ByIndex(edges, index) ==
  IF index < Len(edges) THEN edges[index + 1].id
  ELSE IF index = Modulus - 1 THEN "out_of_range" ELSE "none"

\* The accessors (iceflow.cpp, getDownstreamEdge, getUpstreamEdge) give each
\* edge exactly at its own place, for every value of a uint32_t; and the edges
\* an application gets that way are exactly those it can push to or register a
\* callback for.
EdgesByIndex ==
  \A n \in Names :
    LET edges == instance[n]
    IN  /\ \A index \in 0..(Modulus - 1) :
             /\ getDownstreamEdge(n, index) = ByIndex(edges.downstream, index)
             /\ getUpstreamEdge(n, index) = ByIndex(edges.upstream, index)
        /\ {getDownstreamEdge(n, i) : i \in 0..(Len(edges.downstream) - 1)} = edges.producers
        /\ {getUpstreamEdge(n, i) : i \in 0..(Len(edges.upstream) - 1)} = edges.consumers

============================================================================
