--------------------------- MODULE Dissemination ---------------------------
(***************************************************************************)
(* What the gossip protocol promises, without queues, filters, rounds or   *)
(* messages: an id enters the mesh at its origin, nodes learn ids from     *)
(* nodes they are connected to, and forget none.  What a node knows        *)
(* reaches each of its peers in the end, unless the node has given it up   *)
(* for that peer; the protocol does not repeat what it has given up.       *)
(***************************************************************************)
EXTENDS Naturals

CONSTANTS Nodes, Ids, Neighbours, Origin

VARIABLES submitted, knows,
          missed               \* what the first node of a pair gave up handing to the second

disseminationVars == <<submitted, knows, missed>>

\* A connection carries messages both ways, whichever of its ends lists the
\* other as an active peer: a sync response returns over the one of its request.
Connected(p, n) == n \in Neighbours[p] \/ p \in Neighbours[n]

Init ==
  /\ submitted = {}
  /\ knows = [n \in Nodes |-> {}]
  /\ missed = [c \in Nodes \X Nodes |-> {}]

Submit(id) ==
  /\ id \notin submitted
  /\ submitted' = submitted \cup {id}
  /\ knows' = [knows EXCEPT ![Origin[id]] = @ \cup {id}]

\* A sync response can teach a node several ids at once.
Learn(n) ==
  /\ \E p \in Nodes :
       /\ Connected(p, n)
       /\ \E new \in SUBSET knows[p] : knows' = [knows EXCEPT ![n] = @ \cup new]
  /\ UNCHANGED submitted

\* A node can give up, at any time, what it knows, and for ever.
Losses ==
  \A n, p \in Nodes :
    /\ missed[<<n, p>>] \subseteq missed'[<<n, p>>]
    /\ missed'[<<n, p>>] \subseteq missed[<<n, p>>] \cup knows'[n]

Next ==
  /\ \/ \E id \in Ids : Submit(id)
     \/ \E n \in Nodes : Learn(n)
     \/ UNCHANGED <<submitted, knows>>
  /\ Losses

\* Whatever a node knows, its peers know too, or it has given up.
Settled ==
  \A n \in Nodes : \A p \in Neighbours[n] : knows[n] \subseteq knows[p] \cup missed[<<n, p>>]

\* What a node knows reaches its peers: there are finitely many ids and none is
\* forgotten, so it is enough that the mesh settles again and again.
Spreads == []<>Settled

Spec == Init /\ [][Next]_disseminationVars /\ Spreads
=============================================================================
