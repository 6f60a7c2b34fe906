------------------------- MODULE PredicateValidator -------------------------
(***************************************************************************)
(* The predicate record validator on its own: any peer POSTs any key at   *)
(* any block, and MockHypertensorCommitReveal.__call__ decides.  The state *)
(* is the chain clock and _peer_store_tracker; a history variable        *)
(* records what was accepted so that the properties can speak of it.     *)
(***************************************************************************)
EXTENDS CommitRevealSchema

VARIABLES
  block,     \* chain block height read by epoch_data()
  tracker,   \* _peer_store_tracker
  accepted   \* history: accepted[e][t][p] POSTs accepted (never cleaned)

vars == <<block, tracker, accepted>>

TypeOK ==
  /\ block \in Blocks
  /\ tracker \in [Epochs -> Counts]
  /\ accepted \in [Epochs -> [Families -> [Peers -> Nat]]]

Init ==
  /\ block = FirstBlock
  /\ tracker = EmptyTracker
  /\ accepted = [e \in Epochs |-> [t \in Families |-> [p \in Peers |-> 0]]]

(* The chain produces a block. *)
Tick ==
  /\ block < LastBlock
  /\ block' = block + 1
  /\ UNCHANGED <<tracker, accepted>>

(* A DHT store of key by the signer p reaches the validator (type POST). *)
Post(p, key, expOk) ==
  LET e == EpochOf(block)
      t == KeyType(key, e)
  IN  /\ tracker' = TrackerAfterPost(tracker, p, key, expOk, block)
      /\ IF Accepts(tracker, p, key, expOk, block)
           THEN accepted' = [accepted EXCEPT ![e][t][p] = @ + 1]
           ELSE UNCHANGED accepted
      /\ UNCHANGED block

(* Keys near the current epoch: the others are rejected like any stale key. *)
NearKeys == {k \in Keys : k.ep \in {EpochOf(block) - 1, EpochOf(block)}}

Next ==
  \/ Tick
  \/ \E p \in Peers \cup {None}, k \in NearKeys, x \in BOOLEAN : Post(p, k, x)

Spec == Init /\ [][Next]_vars

-----------------------------------------------------------------------------
(* No peer gets more POSTs of one key family accepted in one epoch than   *)
(* per_peer_epoch_limits allows, whatever the order of its attempts and   *)
(* of _cleanup_old_epochs; this is what stops a verifier from replacing   *)
(* its commit (latest=True reads) once it has seen other reveals.         *)
StoreQuota ==
  \A e \in Epochs, t \in Families, p \in Peers : accepted[e][t][p] <= Limit(t)

(* Commit-reveal phase order per epoch, over every peer: once any       *)
(* verifier or scores reveal of epoch e has been accepted, no verifier    *)
(* commit of e is accepted any more, and no reveal of e is accepted once  *)
(* a scores commit of e has been: a commit can never be made after a     *)
(* reveal of the same epoch is readable (the DEADLINES branch of         *)
(* __call__ together with _get_key_type).                                *)
AnyAccepted(acc, e, t) == \E p \in Peers : acc[e][t][p] > 0

NewlyAccepted(e, t) == ~AnyAccepted(accepted, e, t) /\ AnyAccepted(accepted', e, t)

PhaseOrder ==
  [][\A e \in Epochs :
       /\ NewlyAccepted(e, "verifier_commit") =>
            ~AnyAccepted(accepted, e, "verifier_reveal") /\ ~AnyAccepted(accepted, e, "scores_reveal")
       /\ NewlyAccepted(e, "verifier_reveal") \/ NewlyAccepted(e, "scores_reveal") =>
            ~AnyAccepted(accepted, e, "scores_commit")]_vars
=============================================================================
