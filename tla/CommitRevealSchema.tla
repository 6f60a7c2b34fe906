------------------------- MODULE CommitRevealSchema -------------------------
(***************************************************************************)
(* The commit-reveal schema enforced by the predicate record validator     *)
(* MockHypertensorCommitReveal (src/mesh/subnet/utils/mock_commit_reveal.py)*)
(* and the subnet epoch clock it reads (get_subnet_epoch_data).            *)
(*                                                                         *)
(* Pure operators only: the validator's state, _peer_store_tracker, is     *)
(* passed in and returned, so that PredicateValidator (the component on    *)
(* its own) and SubnetConsensus (the nodes storing through it) share one   *)
(* definition of what a POST does.                                         *)
(*                                                                         *)
(* Time is the block height.  percent_complete = blocks_elapsed /          *)
(* epoch_length is compared with the deadlines in integer arithmetic:      *)
(* p <= d/100  <=>  blocks_elapsed * 100 <= d * epoch_length.              *)
(***************************************************************************)
EXTENDS Naturals

CONSTANTS
  Peers,        \* peers that sign DHT records (the subkey's public key)
  EpochLength,  \* blocks per subnet epoch
  Slot,         \* the subnet's slot: subnet epochs start at Slot + k * EpochLength
  MaxEpoch,     \* last subnet epoch the model runs (bounds the clock)
  NodeLimit,    \* per_peer_epoch_limits["node"] (100 in the code)
  None          \* Python None

ASSUME EpochLength \in Nat \ {0} /\ Slot \in Nat /\ MaxEpoch \in Nat
ASSUME NodeLimit \in Nat \ {0}

Epochs == 0..MaxEpoch
FirstBlock == Slot
LastBlock == Slot + (MaxEpoch + 1) * EpochLength - 1
Blocks == FirstBlock..LastBlock

(* Deadlines, in percent of the epoch elapsed. *)
VERIFIER_COMMIT_DEADLINE == 50
VERIFIER_REVEAL_DEADLINE == 60
SCORES_REVEAL_DEADLINE == 60
MAX_EPOCH_HISTORY == 5

(* Subnet epoch clock: blocks_since_start = block - slot. *)
EpochOf(b) == (b - Slot) \div EpochLength
BlocksElapsed(b) == (b - Slot) % EpochLength

(* percent_complete(b) <= d / 100 *)
ProgressAtMost(b, d) == BlocksElapsed(b) * 100 <= d * EpochLength

(* The key families of valid_keys; "other" stands for any key outside the *)
(* whitelist (e.g. prover_commit_epoch_E), for which _get_key_type is None.*)
Families == {"node", "verifier_commit", "verifier_reveal", "scores_reveal", "scores_commit"}
Keys == [fam : Families \cup {"other"}, ep : Epochs]

Limit(t) == IF t = "node" THEN NodeLimit ELSE 1

(* _get_key_type: epoch-tagged keys are recognised only for the current   *)
(* epoch; the heartbeat key "node" carries no epoch.                      *)
KeyType(key, e) ==
  IF key.fam = "node" THEN "node"
  ELSE IF key.fam \in Families /\ key.ep = e THEN key.fam
  ELSE None

(* Mutant: the commit deadline check of verifier_commit is missing. *)
InWindowNoCommitDeadline(t, b) ==
  IF t = "verifier_commit" THEN TRUE
  ELSE CASE t = "node"            -> TRUE
         [] t = "verifier_reveal" -> /\ ~ProgressAtMost(b, VERIFIER_COMMIT_DEADLINE)
                                     /\ ProgressAtMost(b, VERIFIER_REVEAL_DEADLINE)
         [] t = "scores_reveal"   -> /\ ~ProgressAtMost(b, VERIFIER_COMMIT_DEADLINE)
                                     /\ ProgressAtMost(b, SCORES_REVEAL_DEADLINE)
         [] t = "scores_commit"   -> ~ProgressAtMost(b, SCORES_REVEAL_DEADLINE)

(* Mutant: scores reveals accepted from the start of the epoch, as the   *)
(* "0-15%" comment on scores_reveal in valid_keys suggests.               *)
InWindowScoresRevealEarly(t, b) ==
  IF t = "scores_reveal" THEN ProgressAtMost(b, SCORES_REVEAL_DEADLINE)
  ELSE CASE t = "node"            -> TRUE
         [] t = "verifier_commit" -> ProgressAtMost(b, VERIFIER_COMMIT_DEADLINE)
         [] t = "verifier_reveal" -> /\ ~ProgressAtMost(b, VERIFIER_COMMIT_DEADLINE)
                                     /\ ProgressAtMost(b, VERIFIER_REVEAL_DEADLINE)
         [] t = "scores_commit"   -> ~ProgressAtMost(b, SCORES_REVEAL_DEADLINE)

(* The DEADLINES branch of __call__ for key type t at block b. *)
InWindow(t, b) ==
  CASE t = "node"            -> TRUE
    [] t = "verifier_commit" -> ProgressAtMost(b, VERIFIER_COMMIT_DEADLINE)
    [] t = "verifier_reveal" -> /\ ~ProgressAtMost(b, VERIFIER_COMMIT_DEADLINE)
                                /\ ProgressAtMost(b, VERIFIER_REVEAL_DEADLINE)
    [] t = "scores_reveal"   -> /\ ~ProgressAtMost(b, VERIFIER_COMMIT_DEADLINE)
                                /\ ProgressAtMost(b, SCORES_REVEAL_DEADLINE)
    [] t = "scores_commit"   -> ~ProgressAtMost(b, SCORES_REVEAL_DEADLINE)

(* _peer_store_tracker[epoch][key_type][peer]; a deleted defaultdict entry *)
(* reads as 0, so deletion is modelled as resetting the epoch's counters.  *)
Counts == [Families -> [Peers -> 0..NodeLimit]]
ZeroCounts == [t \in Families |-> [p \in Peers |-> 0]]
EmptyTracker == [e \in Epochs |-> ZeroCounts]

CleanupOldEpochs(tr, e) ==
  [x \in Epochs |-> IF x < e - MAX_EPOCH_HISTORY THEN ZeroCounts ELSE tr[x]]

(* Mutant: count > limit instead of count >= limit. *)
HasExceededStoreLimitOffByOne(tr, p, t, e) == tr[e][t][p] > Limit(t)

HasExceededStoreLimit(tr, p, t, e) == tr[e][t][p] >= Limit(t)

RecordPeerStore(tr, p, t, e) == [tr EXCEPT ![e][t][p] = @ + 1]

(* __call__(record, POST) at block b by the signer p (None when the subkey *)
(* carries no public key), with expOk the expiration_time bound check.     *)
(* Accepts is its boolean result, TrackerAfterPost the tracker it leaves:  *)
(* the cleanup happens before the key-type check, so a rejected POST      *)
(* still cleans up.                                                         *)
Accepts(tr, p, key, expOk, b) ==
  LET e == EpochOf(b)
      t == KeyType(key, e)
  IN  /\ p # None
      /\ t # None
      /\ ~HasExceededStoreLimit(CleanupOldEpochs(tr, e), p, t, e)
      /\ InWindow(t, b)
      /\ expOk

TrackerAfterPost(tr, p, key, expOk, b) ==
  LET e == EpochOf(b)
      cleaned == CleanupOldEpochs(tr, e)
  IN  IF p = None THEN tr
      ELSE IF Accepts(tr, p, key, expOk, b)
           THEN RecordPeerStore(cleaned, p, KeyType(key, e), e)
           ELSE cleaned
=============================================================================
