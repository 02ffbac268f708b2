-------------------------- MODULE TopologyRouting --------------------------
(***************************************************************************)
(* What a node knows of the mesh, how it announces changes, and the routes *)
(* it caches: MeshGraph (src/topology/graph.rs), HopCounter                *)
(* (src/topology/hop_counter.rs), the TopologyEventBus                     *)
(* (src/topology/events.rs), the RoutingTable (src/router/table.rs) and    *)
(* the branch of run_gossip_loop (src/gossip/protocol.rs) that drops       *)
(* routes when it hears of a change.                                       *)
(*                                                                         *)
(* The bus is a bounded broadcast channel.  A publisher never waits: it    *)
(* overwrites the oldest event, and a subscriber that falls behind is told *)
(* once that it has lagged.  The graph, the counter and the table each     *)
(* have a lock of their own, so every operation is a step.                 *)
(*                                                                         *)
(* Any edge list may be stale when the graph is pruned; of an event the    *)
(* model keeps what the subscriber makes of it.  The routing table and the *)
(* path finder have only the bus in common, so in one behaviour the host   *)
(* uses either: with a routing table edge lists are empty and distances    *)
(* are not reported, with the path finder nothing is cached.               *)
(***************************************************************************)
EXTENDS PathFinder, Positions, Integers, Sequences, SequencesExt, FiniteSets

CONSTANTS Peers,            \* the nodes of the mesh
          Dests,            \* the destinations of routes, peers among them
          TableCapacity,    \* of the RoutingTable
          BusCapacity,      \* of the TopologyEventBus
          MaxHops,          \* bound on the next hops of a route
          MaxDistance       \* bound on the distances that peers report

ASSUME TopologyAssumption ==
  /\ IsFiniteSet(Peers) /\ Peers \subseteq Dests
  /\ TableCapacity \in Nat \ {0} /\ BusCapacity \in Nat \ {0} /\ MaxHops \in Nat \ {0}
  /\ MaxDistance \in 0..(UNREACHABLE - 1)

VARIABLES host,      \* what the host uses: "routes" or "paths"
          edges,     \* MeshGraph.edges: the neighbours of the nodes that have an edge list
          distances, \* HopCounter.peer_distances
          bus,       \* the events the loop has not read, oldest first
          lagged,    \* were events overwritten since the loop was last told?
          table,     \* RoutingTable.cache, least recently used first
          told,      \* history: was reachability of a relay announced last, or its loss?
          owed       \* history: the events since each route was cached that condemn it,
                     \* overwritten ones aside

vars == <<host, edges, distances, bus, lagged, table, told, owed>>

\* PeerDisconnected, RelayLost and PeerUnreachable name a peer whose routes
\* are to be dropped; ClusterMerge and PartitionDetected concern all routes;
\* the rest (PeerUpdated, PeerPruned, RelayReachabilityGained and -Lost,
\* MeshSizeChanged) concerns none.
Loss(p) == [kind |-> "loss", peers |-> {p}]
Restructured == [kind |-> "restructured", peers |-> Dests]
Notice == [kind |-> "notice", peers |-> {}]

Events == {Loss(p) : p \in Dests} \cup {Restructured, Notice}

NextHops == {h \in SUBSET Peers : h # {} /\ Cardinality(h) <= MaxHops}

Routes == [dest : Dests, hops : NextHops]

\* HashMap::insert
With(f, key, value) == [x \in DOMAIN f \cup {key} |-> IF x = key THEN value ELSE f[x]]

\* The peers with a distance below 255.
Reaching(d) == {p \in DOMAIN d : d[p] < UNREACHABLE}

\* Is this route to or through one of these peers?
Uses(route, peers) == route.dest \in peers \/ route.hops \cap peers # {}

\* Is the route cached for this destination one that the event is about?
Condemns(event, dest) == \E i \in DOMAIN table : table[i].dest = dest /\ Uses(table[i], event.peers)
-----------------------------------------------------------------------------
Init ==
  /\ host \in {"routes", "paths"}
  /\ edges = <<>>
  /\ distances = <<>>
  /\ bus = <<>> /\ lagged = FALSE
  /\ table = <<>>
  /\ told = FALSE
  /\ owed = [d \in Dests |-> {}]

\* TopologyEventBus::publish of some events in turn: the channel keeps the
\* last BusCapacity unread ones.
Publish(events) ==
  LET all == bus \o events
      excess == Len(all) - BusCapacity
  IN /\ bus' = IF excess > 0 THEN SubSeq(all, excess + 1, Len(all)) ELSE all
     /\ lagged' = (lagged \/ excess > 0)
     /\ owed' = [d \in Dests |->
                   {e \in owed[d] \cup ToSet(events) : Condemns(e, d)} \ (ToSet(all) \ ToSet(bus'))]

\* MeshSizeChanged accompanies a change of the node count by a fifth of what
\* it was.  Growth by exactly a fifth does not count: an update adds one node
\* at most, and in floating point 6 / 5 - 1 is less than 0.20.
SizeNotice(before, after) ==
  IF before > 0 /\ after # before
     /\ (5 * (after - before) > before \/ 5 * (before - after) >= before)
  THEN <<Notice>> ELSE <<>>

Nodes == Cardinality(DOMAIN edges)

\* MeshGraph::apply_update with a bus.  A node is no neighbour of itself.
ApplyUpdate(origin, directly_connected) ==
  /\ edges' = With(edges, origin, directly_connected \ {origin})
  /\ Publish(<<Notice>> \o SizeNotice(Nodes, Nodes'))
  /\ UNCHANGED <<host, distances, table, told>>

\* prune_stale_edges of the nodes not heard of for the timeout; the StatePruner
\* passes no bus, so its pruning is silent.
PruneStaleEdges(stale_keys, silent) ==
  /\ edges' = [n \in DOMAIN edges \ stale_keys |-> edges[n]]
  /\ IF silent
     THEN UNCHANGED <<bus, lagged, owed>>
     ELSE Publish([i \in 1..Cardinality(stale_keys) |-> Notice] \o SizeNotice(Nodes, Nodes'))
  /\ UNCHANGED <<host, distances, table, told>>

\* Faulty variant of UpdateDistance: the loss is judged before the new
\* distance is stored.
UpdateDistanceLate(p, hops) ==
  /\ distances' = With(distances, p, hops)
  /\ IF \/ p \notin Reaching(distances) /\ hops < UNREACHABLE
        \/ p \in Reaching(distances) /\ Reaching(distances) = {}
     THEN told' = (hops < UNREACHABLE) /\ Publish(<<Notice>>)
     ELSE UNCHANGED <<bus, lagged, told, owed>>
  /\ UNCHANGED <<host, edges, table>>

\* HopCounter::update_distance with a bus: RelayReachabilityGained for every
\* peer that comes to reach a relay, RelayReachabilityLost when the last peer
\* ceases to.
UpdateDistance(p, hops) ==
  /\ distances' = With(distances, p, hops)
  /\ IF \/ p \notin Reaching(distances) /\ hops < UNREACHABLE
        \/ p \in Reaching(distances) /\ Reaching(distances') = {}
     THEN told' = (hops < UNREACHABLE) /\ Publish(<<Notice>>)
     ELSE UNCHANGED <<bus, lagged, told, owed>>
  /\ UNCHANGED <<host, edges, table>>

\* The host finds that a peer is gone or that the mesh is another one, and
\* publishes the event (external).
HostPublishes(event) ==
  /\ event # Notice
  /\ Publish(<<event>>)
  /\ UNCHANGED <<host, edges, distances, table, told>>
-----------------------------------------------------------------------------
Without(t, dest) == Keep(t, {i \in DOMAIN t : t[i].dest # dest})

\* LruCache::put: the route replaces the one to the same destination, or the
\* one used longest ago when the table is full.
Put(t, route) ==
  LET rest == Without(t, route.dest)
  IN Append(IF Len(rest) = TableCapacity THEN Tail(rest) ELSE rest, route)

\* insert: the host caches a route.
Insert(route) ==
  /\ table' = Put(table, route)
  /\ owed' = [owed EXCEPT ![route.dest] = {}]
  /\ UNCHANGED <<host, edges, distances, bus, lagged, told>>

\* refresh: one put after the other, two of them here.
Refresh(first, second) ==
  /\ table' = Put(Put(table, first), second)
  /\ owed' = [owed EXCEPT ![first.dest] = {}, ![second.dest] = {}]
  /\ UNCHANGED <<host, edges, distances, bus, lagged, told>>

\* lookup: a hit makes the route the most recently used one.
Lookup(dest) ==
  /\ \/ \E i \in DOMAIN table : table[i].dest = dest /\ table' = Append(Without(table, dest), table[i])
     \/ (\A i \in DOMAIN table : table[i].dest # dest) /\ UNCHANGED table
  /\ UNCHANGED <<host, edges, distances, bus, lagged, told, owed>>

\* Faulty variant of Invalidate: only the route to the peer is dropped.
InvalidateDestination(peer) == Without(table, peer)

\* RoutingTable::invalidate: the route to the peer, and those through it.
Invalidate(peer) == Keep(table, {i \in DOMAIN table : ~Uses(table[i], {peer})})

\* run_gossip_loop reads an event.
HandleEvent ==
  /\ ~lagged /\ bus # <<>>
  /\ bus' = Tail(bus)
  /\ \/ /\ Head(bus).kind = "loss"
        /\ \E p \in Head(bus).peers : table' = Invalidate(p)
     \/ /\ Head(bus).kind = "restructured"
        /\ table' = <<>>
     \/ /\ Head(bus).kind = "notice"
        /\ UNCHANGED table
  /\ UNCHANGED <<host, edges, distances, lagged, told, owed>>

\* Faulty variant of HandleLagged: the error is met again at the next turn.
HandleLaggedForEver ==
  /\ lagged
  /\ UNCHANGED vars

\* ... or the error that it has lagged, which ok() turns into no event at all;
\* the next read finds the oldest event that is left.
HandleLagged ==
  /\ lagged
  /\ lagged' = FALSE
  /\ UNCHANGED <<host, edges, distances, bus, table, told, owed>>

\* What happens to the graph and the distances, whoever uses them.
GraphStep ==
  \/ \E stale_keys \in SUBSET DOMAIN edges, silent \in BOOLEAN : PruneStaleEdges(stale_keys, silent)
  \/ host = "routes" /\ \E p \in Peers : ApplyUpdate(p, {})
  \/ host = "paths" /\ \E p \in Dests, list \in SUBSET Dests : ApplyUpdate(p, list)
  \/ host = "paths" /\ \E p \in Dests, hops \in 0..MaxDistance \cup {UNREACHABLE} : UpdateDistance(p, hops)

RoutesStep ==
  /\ host = "routes"
  /\ \/ \E d \in Dests : Lookup(d)
     \/ \E e \in Events : HostPublishes(e)
     \/ \E r \in Routes : Insert(r) \/ \E s \in Routes : s.dest # r.dest /\ Refresh(r, s)

Next == GraphStep \/ RoutesStep \/ HandleEvent \/ HandleLagged

Spec == Init /\ [][Next]_vars

\* The loop's select! polls its branches in random order, so the branch of
\* the bus is taken again and again while it is ready.
FairSpec == Spec /\ WF_vars(HandleEvent \/ HandleLagged)
-----------------------------------------------------------------------------
TypeOK ==
  /\ host \in {"routes", "paths"}
  /\ DOMAIN edges \subseteq Dests /\ \A n \in DOMAIN edges : edges[n] \in SUBSET (Dests \ {n})
  /\ DOMAIN distances \subseteq Dests
  /\ \A p \in DOMAIN distances : distances[p] \in 0..MaxDistance \cup {UNREACHABLE}
  /\ bus \in Seq(Events) /\ Len(bus) <= BusCapacity
  /\ lagged \in BOOLEAN /\ told \in BOOLEAN
  /\ table \in Seq(Routes) /\ Len(table) <= TableCapacity
  /\ \A i, j \in DOMAIN table : table[i].dest = table[j].dest => i = j
  /\ owed \in [Dests -> SUBSET Events]

\* A cached route to or through a peer whose loss was published after the
\* route was cached (or one from before a restructuring) has the event still
\* ahead of it, unless the event was overwritten before the loop read it.
NoStaleRoutes ==
  \A i \in DOMAIN table : owed[table[i].dest] \subseteq ToSet(bus)

\* Whoever heard all events of update_distance knows whether some peer
\* reaches a relay, however distances come and go.
ReachabilityAnnounced == told <=> Reaching(distances) # {}

\* The connections of the node, in some order: the graph is an arbitrary one.
Active == SetToSeq(Dests)

Ranked == RankNextHops(edges, distances, Active, Dests)

\* From where a relay that is not lost is at most so many hops away.
Within ==
  LET from[h \in Nat] ==
        LET near == {p \in Reaching(distances) : distances[p] <= h}
            closer == IF h = 0 THEN {} ELSE from[h - 1]
        IN  near \cup {n \in DOMAIN edges : edges[n] \cap closer # {}}
  IN  from

\* No connection that the router leaves out is closer to a relay than one that
\* it selects, and the distance that the node tells others is one that its
\* first ranked connection can keep, whatever edge lists and distances came,
\* went or were lost.
NearestRelaysSelected ==
  LET ranked == Ranked
      hops == LocalHopCount(distances, Active)
  IN  /\ \A h \in 0..(MaxDistance + Cardinality(Dests) - 1) :
           LET near == Within[h]
           IN  \A target_fanout \in 1..Cardinality(Dests) :
                 LET chosen == ToSet(SelectNextHops(target_fanout, ranked))
                 IN  near \subseteq chosen \/ chosen \subseteq near
      /\ hops < UNREACHABLE => \E h \in 0..(hops - 1) : ranked[1] \in Within[h]

\* From some time on the loop reads and nobody publishes.
Quiet == <>[][Len(bus') < Len(bus) \/ (bus' = bus /\ ~lagged')]_<<bus, lagged>>

\* Having lagged does not stop the loop: once the mesh is quiet no route to or
\* through a lost peer stays in the table, unless its event was overwritten.
LossesHandled == Quiet => []<>(\A i \in DOMAIN table : owed[table[i].dest] = {})
=============================================================================
