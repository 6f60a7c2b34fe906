-------------------------- MODULE MCSignedRecords --------------------------
(* The record layer with a writer p1 and a peer p2 that replays and       *)
(* forges p1's records; epochs of 5 blocks, two epochs.                   *)
EXTENDS SignedRecords, TLC

CONSTANTS p1, p2
MCPeers == {p1, p2}
MCWriters == {p1}

(* The histories only the replay run reads; OwnerOnlyWrites reads the    *)
(* last POST of a step, never of a state.                                 *)
MCView == <<block, tracker, accepted, seen, authored>>
=============================================================================
