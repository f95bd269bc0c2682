---------------------------- MODULE MCPullPacing ----------------------------
(* A worker behind each of two addresses, and a chore heavier than the limit. *)
EXTENDS PullPacing

MCAddressOf(w) == IF w = "w2" THEN "b" ELSE "a"
MCWeight(t) == IF t \in Pulls THEN 1 ELSE 3
=============================================================================
