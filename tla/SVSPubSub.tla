----------------------------- MODULE SVSPubSub -----------------------------
(***************************************************************************)
(* The State Vector Sync publish/subscribe group (ndn::svs::SVSPubSub) as  *)
(* IceFlow uses it.  The library is not part of the repository: this       *)
(* module states what the calls in producer.cpp and consumer.cpp rely on.  *)
(*                                                                         *)
(*  - publish: a node's publications, data and backchannel messages alike, *)
(*    are numbered consecutively under its node prefix and are kept in the *)
(*    node's own data store;                                               *)
(*  - subscribe and unsubscribe: a name prefix is bound to a callback      *)
(*    under a fresh handle; dropping a handle that is not there does       *)
(*    nothing;                                                             *)
(*  - the sync protocol tells every other node of every publication, in no *)
(*    particular order.  The subscriptions of that moment decide whether   *)
(*    it is fetched, and a fetch that is under way survives an unsubscribe;*)
(*  - a fetch is answered from the publisher's data store or times out.    *)
(***************************************************************************)
EXTENDS Integers, FiniteSets, Sequences

CONSTANTS Nodes,        \* running node instances, one node prefix each
          Edges,        \* edges of the application DAG
          Downstream,   \* Downstream[n]: the edges node n produces for
          Upstream,     \* Upstream[n]: the edges node n consumes from
          BackChannel,  \* the last component of an edge's backchannel name
          Limits        \* bounds: how often each of Choices happens, one of these

\* The choices of the environment that a model has to bound.
Choices == {"repartition", "setPartitions", "query", "throw", "timeout", "tick"}

ASSUME GraphAssumption ==
  /\ Downstream \in [Nodes -> SUBSET Edges]
  /\ Upstream   \in [Nodes -> SUBSET Edges]
  /\ BackChannel \notin Nat
  /\ Limits \subseteq [Choices -> Nat]

VARIABLES published,          \* every publication made so far (the name mappings)
          seqNo,              \* seqNo[n]: the last sequence number of node n
          dataStore,          \* dataStore[n]: the sequence numbers n can serve
          subscriptions,      \* subscriptions[n]: n's prefix subscriptions
          subscriptionCount,  \* subscriptionCount[n]: the last handle given out
          mapped,             \* mapped[n]: publications n has been told of
          fetching,           \* fetching[n]: fetches of n under way
          budget              \* how often each of Choices may still happen

svsVars == <<published, seqNo, dataStore, subscriptions, subscriptionCount,
             mapped, fetching, budget>>

Channels     == Nat \cup {BackChannel}
Item         == [edge : Edges, chan : Channels, ack : Nat]
Publication  == [from : Nodes, seq : Nat \ {0}, edge : Edges,
                 chan : Channels, ack : Nat]
Subscription == [id : Nat, edge : Edges, chan : Channels]
Fetch        == [pub : Publication, id : Nat]

SvsTypeOK ==
  /\ published \in SUBSET Publication
  /\ seqNo \in [Nodes -> Nat]
  /\ dataStore \in [Nodes -> SUBSET Nat]
  /\ subscriptions \in [Nodes -> SUBSET Subscription]
  /\ subscriptionCount \in [Nodes -> Nat]
  /\ mapped \in [Nodes -> SUBSET Publication]
  /\ fetching \in [Nodes -> SUBSET Fetch]
  /\ budget \in [Choices -> Nat]

\* Every producer subscribes to its edge's backchannel when it is built and
\* throws the handle away; handles given out start at 1, 0 stands for it.
BackchannelSubscriptions(n) ==
  {[id |-> 0, edge |-> e, chan |-> BackChannel] : e \in Downstream[n]}

SvsInit ==
  /\ published = {}
  /\ seqNo = [n \in Nodes |-> 0]
  /\ dataStore = [n \in Nodes |-> {}]
  /\ subscriptions = [n \in Nodes |-> BackchannelSubscriptions(n)]
  /\ subscriptionCount = [n \in Nodes |-> 0]
  /\ mapped = [n \in Nodes |-> {}]
  /\ fetching = [n \in Nodes |-> {}]
  /\ budget \in Limits

Spend(c) == budget[c] > 0 /\ budget' = [budget EXCEPT ![c] = @ - 1]

----------------------------------------------------------------------------
(* The calls IceFlow makes. *)

\* publish(name, data, nodePrefix): items is the sequence of the messages that
\* one handler publishes, in order.
NewPublication(n, items, i) ==
  [from |-> n, seq |-> seqNo[n] + i,
   edge |-> items[i].edge, chan |-> items[i].chan, ack |-> items[i].ack]

Publish(n, items) ==
  /\ published' = published \cup
                    {NewPublication(n, items, i) : i \in 1..Len(items)}
  /\ seqNo' = [seqNo EXCEPT ![n] = @ + Len(items)]
  /\ dataStore' = [dataStore EXCEPT
                     ![n] = @ \cup {seqNo[n] + i : i \in 1..Len(items)}]

NextHandle(n) == subscriptionCount[n] + 1

Subscribe(n, edge, chan) ==
  /\ subscriptionCount' = [subscriptionCount EXCEPT ![n] = NextHandle(n)]
  /\ subscriptions' = [subscriptions EXCEPT
       ![n] = @ \cup {[id |-> NextHandle(n), edge |-> edge, chan |-> chan]}]

Unsubscribe(n, handle) ==
  subscriptions' = [subscriptions EXCEPT
                      ![n] = {s \in @ : s.id # handle}]

Erase(n, seq) == dataStore' = [dataStore EXCEPT ![n] = @ \ {seq}]

----------------------------------------------------------------------------
(* What the library does on the Face's event loop. *)

Matching(n, pub) ==
  {s \in subscriptions[n] : s.edge = pub.edge /\ s.chan = pub.chan}

\* n may subscribe to the name of pub: as a consumer of the edge to its
\* partitions, as a producer to its backchannel.
Concerns(n, pub) ==
  IF pub.chan = BackChannel THEN pub.edge \in Downstream[n]
                            ELSE pub.edge \in Upstream[n]

\* The sync protocol tells n of a publication of another node.  Publications
\* that no subscription of n can ever match are left out: nothing depends on
\* when n hears of them.
SyncUpdate(n, pub) ==
  /\ pub \in published
  /\ pub.from # n
  /\ Concerns(n, pub)
  /\ pub \notin mapped[n]
  /\ mapped' = [mapped EXCEPT ![n] = @ \cup {pub}]
  /\ fetching' = [fetching EXCEPT
       ![n] = @ \cup {[pub |-> pub, id |-> s.id] : s \in Matching(n, pub)}]
  /\ UNCHANGED <<published, seqNo, dataStore, subscriptions,
                 subscriptionCount, budget>>

\* The publisher answers the fetch f of n: the callback of f.id runs.
Fetched(n, f) ==
  /\ f \in fetching[n]
  /\ f.pub.seq \in dataStore[f.pub.from]
  /\ fetching' = [fetching EXCEPT ![n] = @ \ {f}]

\* The fetch f is given up: the network fails, or the data is not in the
\* publisher's store any more.
FetchTimeout(n, f) ==
  /\ f \in fetching[n]
  /\ \/ f.pub.seq \notin dataStore[f.pub.from] /\ UNCHANGED budget
     \/ f.pub.seq \in dataStore[f.pub.from] /\ Spend("timeout")
  /\ fetching' = [fetching EXCEPT ![n] = @ \ {f}]
  /\ UNCHANGED <<published, seqNo, dataStore, subscriptions,
                 subscriptionCount, mapped>>

============================================================================
