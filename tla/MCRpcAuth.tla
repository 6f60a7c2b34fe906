------------------------------ MODULE MCRpcAuth ------------------------------
(* Two clients and three nonces: one client can be unstaked while the    *)
(* other replays; clocks off by up to two units, so that requests just    *)
(* inside and just outside the clock check both occur.                    *)
EXTENDS RpcAuth, TLC

CONSTANTS p1, p2, m1, m2

MCPeers == {p1, p2}
MCNonces == {m1, m2}
MCSymmetry == Permutations(MCPeers) \cup Permutations(MCNonces)
=============================================================================
