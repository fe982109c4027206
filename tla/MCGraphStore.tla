---------------------------- MODULE MCGraphStore ----------------------------
(***************************************************************************)
(* Threads record a source, an op on it and ops on two nodes, each of      *)
(* which may be tried before its inputs are recorded, while another thread *)
(* marks outputs and reads the graph.                                      *)
(***************************************************************************)
EXTENDS GraphStore, NodeKeys

MCKeys ==
  {Source("x", ""), Op("f", "", <<0>>), Op("add", "", <<0, 1>>),
   Op("g", "", <<1, 2>>)}

MCMarkedIds == {0, 2}
MCOutputRequests == {<<1, 0>>, <<0, 2>>}
=============================================================================
