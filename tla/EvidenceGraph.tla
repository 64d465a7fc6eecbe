----------------------------- MODULE EvidenceGraph -----------------------------
(***************************************************************************)
(* The evidence graph of a target (internal/graph/graph.go) and the form   *)
(* in which the API hands it to the dashboard (handleGetGraph of           *)
(* internal/api/server.go): state functions of the evidence store.         *)
(*                                                                         *)
(* BuildGraph looks each value up in a query of its own, and leaves it out *)
(* if that fails.  A node depends on its own lookup only, so that what     *)
(* holds of every node, with any saved scan of the target, in every state  *)
(* also holds of graphs built while scans are saved and lookups fail.      *)
(***************************************************************************)
EXTENDS EvidenceStore

\* Neither credentials nor what the correlation concluded are in the graph.
GraphValues(r) == result[r].observed \ Credentials

\* Mutant of PeersAt: only targets whose link is to their latest scan.
PeersAtLatest(o, v) ==
  {p \in FindCoOccurringTargets(v) \ {o} :
     links[<<p, v>>].scan = ScanID(result[Latest(p)].ended)}

PeersAt(o, v) == FindCoOccurringTargets(v) \ {o}

\* The nodes of scan r and their peers.
BuildGraph(o, r) == [v \in GraphValues(r) |-> PeersAt(o, v)]

TargetNode == <<"target">>
EvidenceNode(v) == <<"ev", v>>
PeerNode(p) == <<"peer", p>>

\* A peer that several values lead to is one node.
Nodes(graph) ==
  {TargetNode} \cup {EvidenceNode(v) : v \in DOMAIN graph}
  \cup {PeerNode(p) : p \in UNION {graph[v] : v \in DOMAIN graph}}

Edges(graph) ==
  {<<TargetNode, EvidenceNode(v)>> : v \in DOMAIN graph}
  \cup UNION {{<<EvidenceNode(v), PeerNode(p)>> : p \in graph[v]} : v \in DOMAIN graph}
=============================================================================
