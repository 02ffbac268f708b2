----------------------------- MODULE PathFinder -----------------------------
(***************************************************************************)
(* Routes to a relay: PathFinder (src/router/path_finder.rs) ranks the     *)
(* connections of a node by their distance to a relay, RelayRouter         *)
(* (src/router/relay_router.rs) takes the first of them, and local_hop_count *)
(* (src/topology/hop_counter.rs) is the distance that the node itself tells *)
(* others.                                                                 *)
(*                                                                         *)
(* edges maps the nodes that have an edge list to their neighbours, dist   *)
(* the peers in peer_distances to their hops; 255 stands for a relay that  *)
(* was lost.                                                               *)
(***************************************************************************)
EXTENDS Naturals, FiniteSets, FiniteSetsExt, Sequences

UNREACHABLE == 255   \* of a u8 hop count
USIZE_MAX == 1000    \* stands for usize::MAX: more than every distance

\* get_neighbors
GetNeighbors(edges, n) == IF n \in DOMAIN edges THEN edges[n] ELSE {}

\* The breadth-first search of rank_next_hops: the nodes it has visited when it
\* has dealt with all of a smaller depth than k, with the depths it met them at.
Depths(edges, start, nodes) ==
  LET visited[k \in Nat] ==
        IF k = 0 THEN [n \in {start} |-> 0]
        ELSE LET before == visited[k - 1]
                 met == UNION {GetNeighbors(edges, n) : n \in DOMAIN before}
             IN  [n \in DOMAIN before \cup met |-> IF n \in DOMAIN before THEN before[n] ELSE k]
  IN  visited[Cardinality(nodes)]

\* Faulty variant of MinDistance: the search ends where it first meets a node
\* whose distance it knows.
MinDistanceOfFirst(edges, dist, start, nodes) ==
  LET depth == Depths(edges, start, nodes)
      first == {n \in DOMAIN depth \cap DOMAIN dist :
                  \A m \in DOMAIN depth \cap DOMAIN dist : depth[n] <= depth[m]}
  IN  Min({depth[n] + dist[n] : n \in first} \cup {USIZE_MAX})

\* min_distance of one start node.
MinDistance(edges, dist, start, nodes) ==
  LET depth == Depths(edges, start, nodes)
  IN  Min({depth[n] + dist[n] : n \in DOMAIN depth \cap DOMAIN dist} \cup {USIZE_MAX})

\* rank_next_hops: the connections by min_distance, in their order among equals.
RankNextHops(edges, dist, active, nodes) ==
  LET key == [i \in DOMAIN active |-> MinDistance(edges, dist, active[i], nodes)]
      Before(j, i) == key[j] < key[i] \/ (key[j] = key[i] /\ j < i)
      At(k) == CHOOSE i \in DOMAIN active : Cardinality({j \in DOMAIN active : Before(j, i)}) = k - 1
  IN  [k \in DOMAIN active |-> active[At(k)]]

\* select_next_hops
SelectNextHops(target_fanout, ranked) ==
  IF target_fanout >= Len(ranked) THEN ranked ELSE SubSeq(ranked, 1, target_fanout)

\* local_hop_count
LocalHopCount(dist, active) ==
  LET nearest == Min({dist[p] : p \in {active[i] : i \in DOMAIN active} \cap DOMAIN dist} \cup {UNREACHABLE})
  IN  IF nearest = UNREACHABLE THEN UNREACHABLE ELSE nearest + 1
=============================================================================
