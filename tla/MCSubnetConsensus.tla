------------------------- MODULE MCSubnetConsensus -------------------------
(* Three nodes, one of them Byzantine; epochs of 5 blocks, the smallest   *)
(* length with a block in every phase window (attest 0, commit 0-2,      *)
(* reveals 3, verify and scores commit 4).  No heartbeat is stored here,  *)
(* so the "node" quota is left at 1.                                       *)
EXTENDS SubnetConsensus, TLC

CONSTANTS n1, n2, n3
MCPeers == {n1, n2, n3}
MCByzantine == {n3}
MCLaggards == {n1}
MCHonest == {n1, n2}
(* The honest nodes are interchangeable. *)
MCSymmetry == Permutations({n1, n2})
(* Without Byzantine nodes or laggards all three are interchangeable. *)
MCAllSymmetry == Permutations(MCPeers)
(* With n1 the laggard, n2 and n3 are interchangeable. *)
MCFaultSymmetry == Permutations({n2, n3})
(* Entries of epochs before the current one that no step reads again: a  *)
(* verifier commit or reveal of e is read only by a verify in epoch e,    *)
(* the tracker only for the current epoch, and stores for e are refused   *)
(* once e is over (_get_key_type).  States differing only there behave    *)
(* alike.                                                                   *)
Live(st) == [e \in Epochs |-> IF e < Now THEN None ELSE st[e]]
MCView == <<block, validatorOf, proposal, Live(vCommit), Live(vReveal), sCommit, sReveal,
            Live(tracker), pc, ep, epochScores, latestTaskCommit, latestScoresCommit>>
=============================================================================
