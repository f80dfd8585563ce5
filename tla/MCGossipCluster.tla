-------------------------- MODULE MCGossipCluster --------------------------
(* Instances of GossipCluster for TLC.                                     *)
EXTENDS GossipCluster

\* Every other node is a static peer of a node that has static peers.
AllOthers == [n \in Node |-> Node \ {n}]

\* Node 2 may be started with any kind of discovery, node 1 not over HTTP.
SomeDiscovery == [n \in Node |-> {"rejoin", "mdns"} \cup (IF n = 2 THEN {"http"} ELSE {})]
=============================================================================
