-------------------------- MODULE SubnetConsensus --------------------------
(***************************************************************************)
(* The per-epoch pipeline of every subnet node (Consensus.run_forever in   *)
(* src/mesh/subnet/consensus/consensus.py, TaskCommitReveal in            *)
(* src/mesh/subnet/consensus/task.py) running against the chain and the   *)
(* DHT, every DHT store passing the predicate validator of                *)
(* CommitRevealSchema.                                                      *)
(*                                                                         *)
(* Data is abstracted to what the properties tell apart: a verifier's     *)
(* task evaluations are "honest" or "forged", sha256(salt + bytes) is      *)
(* injective (the digest is the payload), and the scores a node computes  *)
(* are the record ScoreVal below, from which the numeric scores are a     *)
(* deterministic function.  Byzantine nodes run the same code but choose  *)
(* what they commit, reveal and, when elected, propose.                  *)
(***************************************************************************)
EXTENDS CommitRevealSchema, FiniteSets

CONSTANTS
  Byzantine,    \* nodes whose payloads are chosen freely
  ProposeMayFail, \* a propose_attestation receipt may be unsuccessful
  RpcFailing,   \* nodes whose rpc_math calls may raise (peer unreachable, auth failure)
  Laggards      \* nodes whose process may stall for any number of blocks

ASSUME Byzantine \subseteq Peers /\ Laggards \subseteq Peers /\ RpcFailing \subseteq Peers

ATTEST_DEADLINE == 15            \* percent_complete > 0.15 ends the attestor loop
ATTEST_RATIO == 66               \* verify_score_reveals: attestation_ratio < 0.66

Payloads == {"honest", "forged"}
ForgedScores == [math |-> [p \in Peers |-> "forged_scores"], reveal |-> <<>>]  \* never computed by verify

VARIABLES
  block,        \* chain block height
  validatorOf,  \* chain: get_rewards_validator(subnet, e), None until elected
  proposal,     \* chain: consensus data of epoch e, None until proposed
  vCommit,      \* DHT verifier_commit_epoch_e, per signer
  vReveal,      \* DHT verifier_reveal_epoch_e
  sCommit,      \* DHT scores_commit_epoch_e
  sReveal,      \* DHT scores_reveal_epoch_e
  tracker,      \* predicate validator's _peer_store_tracker
  pc,           \* where each node is in run_forever
  ep,           \* current_epoch of the pipeline; in "Wait", the epoch the wait began in
  epochScores,  \* Consensus.epoch_scores
  latestTaskCommit,   \* TaskCommitReveal.latest_task_commit
  latestScoresCommit  \* TaskCommitReveal.latest_scores_commit

chainVars == <<validatorOf, proposal>>
dhtVars == <<vCommit, vReveal, sCommit, sReveal, tracker>>
nodeVars == <<pc, ep, epochScores, latestTaskCommit, latestScoresCommit>>
vars == <<block, chainVars, dhtVars, nodeVars>>

Now == EpochOf(block)
Phases == {"Wait", "Attest", "TaskRpc", "Reveal", "Verify", "Retry", "Resume"}

(* The scores verify_and_score_peers returns, up to the numeric formula:  *)
(* math maps each credited verifier to its revealed evaluations, reveal   *)
(* maps each credited scores revealer to whether its revealed list equals *)
(* the on-chain data (Jaccard 1.0).                                       *)
NoScores == [math |-> <<>>, reveal |-> <<>>]
IsEmpty(s) == DOMAIN s.math = {} /\ DOMAIN s.reveal = {}

EmptyStore == [e \in Epochs |-> [p \in Peers |-> None]]
Stored(st, e) == {p \in Peers : st[e][p] # None}
Before(e, k) == IF e >= k THEN e - k ELSE None   \* keys of negative epochs are absent

(* task.py verify_and_score_peers: digest check per revealing verifier. *)
Credited(e) == {v \in Stored(vReveal, e) : vCommit[e][v] = vReveal[e][v]}

(* utils.py get_attestation_ratio: attests per subnet node, below ratio%. *)
AttestationRatioBelow(cd, ratio) == Cardinality(cd.attests) * 100 < ratio * Cardinality(Peers)

(* utils.py did_node_attest: n is among the proposal's attests. *)
DidNodeAttest(n, cd) == n \in cd.attests

(* task.py verify_score_reveals(e): None, or revealer -> Jaccard == 1.0. *)
ScoreReveals(e) ==
  LET e2 == Before(e, 2)
      cd == IF e2 = None THEN None ELSE proposal[e2]
  IN  IF e2 = None \/ cd = None THEN <<>>
      ELSE IF AttestationRatioBelow(cd, ATTEST_RATIO) THEN <<>>
      ELSE LET ok == {r \in Stored(sReveal, e) : DidNodeAttest(r, cd) /\ sCommit[e2][r] = sReveal[e][r]}
           IN  [r \in ok |-> sReveal[e][r] = cd.data]

(* The reads of verify_and_score_peers that raise AttributeError outside *)
(* any try: reveal_records.value when the reveal key is empty and the   *)
(* commit key is not (task.py:338, and task.py:258 in verify_score_reveals). *)
VerifyRaises(e) ==
  LET e2 == Before(e, 2)
  IN  \/ Stored(vReveal, e) = {} /\ Stored(vCommit, e) # {}
      \/ /\ Stored(vReveal, e) # {}
         /\ Stored(sReveal, e) = {} /\ e2 # None /\ Stored(sCommit, e2) # {}
         /\ proposal[e2] # None
         /\ Cardinality(proposal[e2].attests) * 100 >= ATTEST_RATIO * Cardinality(Peers)

VerifyAndScorePeers(e) ==
  IF Stored(vReveal, e) = {} /\ Stored(vCommit, e) = {} THEN NoScores
  ELSE [math |-> [v \in Credited(e) |-> vReveal[e][v]], reveal |-> ScoreReveals(e)]

(* A POST of family fam for epoch e by n at the current block, against   *)
(* the tracker tr: the DHT keeps the value when the predicate validator    *)
(* accepts it (dht.store is a blocking call: no other step of this node   *)
(* runs meanwhile).                                                        *)
Key(fam, e) == [fam |-> fam, ep |-> e]
Kept(st, tr, fam, n, e, val) ==
  IF Accepts(tr, n, Key(fam, e), TRUE, block) THEN [st EXCEPT ![e][n] = val] ELSE st
Tracked(tr, fam, n, e) == TrackerAfterPost(tr, n, Key(fam, e), TRUE, block)

Goto(n, where) == pc' = [pc EXCEPT ![n] = where]
(* End of the pipeline: last_epoch = current_epoch, then wait for the    *)
(* epoch that follows the one the chain is in now.                        *)
EndPipeline(n) == pc' = [pc EXCEPT ![n] = "Wait"] /\ ep' = [ep EXCEPT ![n] = Now]

(* Sleeping a block while percent_complete <= lo is the action not being  *)
(* taken yet; the loop goes on once the epoch changed or the window opened. *)
Awake(n, lo) == Now # ep[n] \/ ~ProgressAtMost(block, lo)
InPhase(n, hi) == Now = ep[n] /\ ProgressAtMost(block, hi)

(* run_verify_and_score_peers: it sleeps while percent_complete <= 0.6. *)
VerifyGateEarly(n) == Awake(n, VERIFIER_COMMIT_DEADLINE)
VerifyGate(n) == Awake(n, VERIFIER_REVEAL_DEADLINE)

(* compare_consensus_data(my_data, validator_data) == 1.0: the two lists  *)
(* of (subnet_node_id, score) are equal as sets.                          *)
MatchesIdsOnly(mine, theirs) == DOMAIN mine.math = DOMAIN theirs.math /\ DOMAIN mine.reveal = DOMAIN theirs.reveal
Matches(mine, theirs) == mine = theirs

(* run_task_commit, called as soon as run_consensus returns: inside the   *)
(* commit window, call_and_commit_all_tasks reads the heartbeats and      *)
(* awaits rpc_math on every other peer; no other peer means no evals and  *)
(* nothing stored.                                                         *)
AfterConsensus(E) ==
  IF Now = E /\ ProgressAtMost(block, VERIFIER_COMMIT_DEADLINE) THEN "TaskRpc" ELSE "Reveal"

-----------------------------------------------------------------------------
Init ==
  /\ block = FirstBlock
  /\ \E v \in Peers : validatorOf = [e \in Epochs |-> IF e = EpochOf(FirstBlock) THEN v ELSE None]
  /\ proposal = [e \in Epochs |-> None]
  /\ vCommit = EmptyStore /\ vReveal = EmptyStore
  /\ sCommit = EmptyStore /\ sReveal = EmptyStore
  /\ tracker = EmptyTracker
  \* run_forever starts with started = False: wait for the epoch to end
  /\ pc = [n \in Peers |-> "Wait"]
  /\ ep = [n \in Peers |-> EpochOf(FirstBlock)]
  /\ epochScores = [n \in Peers |-> [e \in Epochs |-> None]]
  /\ latestTaskCommit = [n \in Peers |-> None]
  /\ latestScoresCommit = [n \in Peers |-> [e \in Epochs |-> None]]

(* A node has a step to take before the chain's next block: its timed   *)
(* wait for the epoch boundary is over, it is back from a block's sleep,  *)
(* or a loop that sleeps block by block has something to act on; the     *)
(* rpc_math round trips end within the block.  Every step of a laggard    *)
(* may take longer.                                                        *)
Urgent(n) ==
  \/ pc[n] = "Wait" /\ Now > ep[n]
  \/ pc[n] \in {"Resume", "TaskRpc"}
  \/ pc[n] = "Attest" /\ (Awake(n, ATTEST_DEADLINE) \/ proposal[ep[n]] # None)
  \/ pc[n] = "Reveal" /\ Awake(n, VERIFIER_COMMIT_DEADLINE)
  \/ pc[n] = "Verify" /\ VerifyGate(n)

(* The chain produces a block; the first block of an epoch comes with the *)
(* election of that epoch's validator.  A node sleeping a block after an  *)
(* exception wakes up.                                                      *)
Tick ==
  /\ block < LastBlock
  /\ \A n \in Peers \ Laggards : ~Urgent(n)
  /\ block' = block + 1
  /\ IF EpochOf(block + 1) # Now
       THEN \E v \in Peers : validatorOf' = [validatorOf EXCEPT ![EpochOf(block + 1)] = v]
       ELSE UNCHANGED validatorOf
  /\ pc' = [n \in Peers |-> IF pc[n] = "Retry" THEN "Resume" ELSE pc[n]]
  /\ UNCHANGED <<proposal, dhtVars, ep, epochScores, latestTaskCommit, latestScoresCommit>>

(* run_consensus(E) at the start of a pipeline: get_scores(E - 1) (which *)
(* drops epoch_scores[E - 2]), one read of the validator (the polling     *)
(* loop always breaks on its first pass), and, when elected, one          *)
(* propose_attestation if the chain has no proposal yet; its receipt is   *)
(* not looked at.  An attestor goes on to the attestor loop.              *)
(* Consensus.get_validator: hypertensor.get_rewards_validator(subnet, e). *)
GetValidator(e) == validatorOf[e]

RunConsensus(n) ==
  LET E == Now
      scores == IF E >= 1 THEN epochScores[n][E - 1] ELSE None
      v == GetValidator(E)
  IN  /\ ep' = [ep EXCEPT ![n] = E]
      /\ epochScores' = IF E >= 2 THEN [epochScores EXCEPT ![n][E - 2] = None] ELSE epochScores
      /\ \/ /\ scores = None \/ v = None \/ (v = n /\ proposal[E] # None)
            /\ Goto(n, AfterConsensus(E)) /\ UNCHANGED proposal
         \/ /\ scores # None /\ v # None /\ v # n
            /\ Goto(n, "Attest") /\ UNCHANGED proposal
         \/ /\ scores # None /\ v = n /\ proposal[E] = None
            /\ \E data \in IF n \in Byzantine THEN {scores, ForgedScores} ELSE {scores} :
                 proposal' = [proposal EXCEPT ![E] = [validator |-> n, data |-> data, attests |-> {n}]]
            /\ Goto(n, AfterConsensus(E))
         \/ /\ ProposeMayFail /\ scores # None /\ v = n /\ proposal[E] = None
            /\ Goto(n, AfterConsensus(E)) /\ UNCHANGED proposal
      /\ UNCHANGED <<block, validatorOf, dhtVars, latestTaskCommit, latestScoresCommit>>

(* run_forever: wait_for(seconds_remaining) timed out in a new epoch. *)
StartEpoch(n) == pc[n] = "Wait" /\ Now > ep[n] /\ RunConsensus(n)

(* run_forever's except branch: after a block's sleep the pipeline runs  *)
(* again for the epoch the chain is in (last_epoch was not updated).      *)
ResumeAfterError(n) == pc[n] = "Resume" /\ RunConsensus(n)

(* One pass of the attestor loop that does not sleep: the window is over, *)
(* or the proposal is there and is compared with the node's scores; on a *)
(* match it attests unless already attesting.  An unsuccessful attest     *)
(* receipt leaves the chain as it was and the loop sleeps a block, which  *)
(* is this action not being taken yet.                                     *)
Attest(n) ==
  LET E == ep[n]
      cd == proposal[E]
  IN  /\ pc[n] = "Attest"
      /\ Goto(n, AfterConsensus(E))
      /\ \/ /\ Now # E \/ ~ProgressAtMost(block, ATTEST_DEADLINE)
            /\ UNCHANGED proposal
         \/ /\ Now = E /\ ProgressAtMost(block, ATTEST_DEADLINE) /\ cd # None
            /\ proposal' = IF Matches(epochScores[n][E - 1], cd.data)
                             THEN [proposal EXCEPT ![E].attests = @ \cup {n}]
                             ELSE proposal
      /\ UNCHANGED <<block, validatorOf, dhtVars, ep, epochScores, latestTaskCommit, latestScoresCommit>>

(* The rpc_math answers are in (some blocks later): store the digest at   *)
(* verifier_commit_epoch_E and set latest_task_commit whatever store_ok   *)
(* (a Byzantine verifier may commit other evaluations, or nothing); or an *)
(* rpc raised and run_forever's except branch takes over.                 *)
TaskRpc(n) ==
  LET E == ep[n]
  IN  /\ pc[n] = "TaskRpc"
      /\ \/ \E c \in IF n \in Byzantine THEN Payloads \cup {None} ELSE {"honest"} :
              /\ IF c = None
                   THEN UNCHANGED <<vCommit, tracker, latestTaskCommit>>
                   ELSE /\ vCommit' = Kept(vCommit, tracker, "verifier_commit", n, E, c)
                        /\ tracker' = Tracked(tracker, "verifier_commit", n, E)
                        /\ latestTaskCommit' = [latestTaskCommit EXCEPT ![n] = [epoch |-> E, payload |-> c]]
              /\ Goto(n, "Reveal")
         \/ /\ n \in RpcFailing
            /\ Goto(n, "Retry") /\ UNCHANGED <<vCommit, tracker, latestTaskCommit>>
      /\ UNCHANGED <<block, chainVars, vReveal, sCommit, sReveal, ep, epochScores, latestScoresCommit>>

(* run_task_reveal then run_reveal_scores, one after the other with the  *)
(* same window (0.5, 0.6]: reveal the latest task commit if it is this    *)
(* epoch's (a Byzantine verifier may reveal other evaluations, or         *)
(* nothing), then the scores committed at E-2.                              *)
Reveal(n) ==
  LET E == ep[n]
      tc == latestTaskCommit[n]
      sc == IF E >= 2 THEN latestScoresCommit[n][E - 2] ELSE None
      doScores == InPhase(n, SCORES_REVEAL_DEADLINE) /\ sc # None
  IN  /\ pc[n] = "Reveal" /\ Awake(n, VERIFIER_COMMIT_DEADLINE)
      /\ Goto(n, "Verify")
      /\ \E r \in IF n \in Byzantine THEN Payloads \cup {None} ELSE {IF tc = None THEN None ELSE tc.payload} :
           LET doTask == InPhase(n, VERIFIER_REVEAL_DEADLINE) /\ tc # None /\ tc.epoch = E /\ r # None
               tr1 == IF doTask THEN Tracked(tracker, "verifier_reveal", n, E) ELSE tracker
           IN  /\ vReveal' = IF doTask THEN Kept(vReveal, tracker, "verifier_reveal", n, E, r) ELSE vReveal
               /\ sReveal' = IF doScores THEN Kept(sReveal, tr1, "scores_reveal", n, E, sc) ELSE sReveal
               /\ tracker' = IF doScores THEN Tracked(tr1, "scores_reveal", n, E) ELSE tr1
      /\ UNCHANGED <<block, chainVars, vCommit, sCommit, ep, epochScores,
                     latestTaskCommit, latestScoresCommit>>

(* run_verify_and_score_peers after the reveal deadline; non-empty scores *)
(* go to epoch_scores[E] and run_commit_scores stores their digest at    *)
(* scores_commit_epoch_E, keeping them in latest_scores_commit[E]         *)
(* whatever store_ok.  Then the pipeline ends.                             *)
Verify(n) ==
  LET E == ep[n]
      s == VerifyAndScorePeers(E)
  IN  /\ pc[n] = "Verify" /\ VerifyGate(n)
      /\ CASE Now # E        -> EndPipeline(n) /\ UNCHANGED <<epochScores, sCommit, tracker, latestScoresCommit>>
           [] VerifyRaises(E) -> Goto(n, "Retry") /\ UNCHANGED <<ep, epochScores, sCommit, tracker, latestScoresCommit>>
           [] IsEmpty(s)      -> EndPipeline(n) /\ UNCHANGED <<epochScores, sCommit, tracker, latestScoresCommit>>
           [] OTHER           -> /\ epochScores' = [epochScores EXCEPT ![n][E] = s]
                                 /\ sCommit' = Kept(sCommit, tracker, "scores_commit", n, E, s)
                                 /\ tracker' = Tracked(tracker, "scores_commit", n, E)
                                 /\ latestScoresCommit' = [latestScoresCommit EXCEPT ![n][E] = s]
                                 /\ EndPipeline(n)
      /\ UNCHANGED <<block, chainVars, vCommit, vReveal, sReveal, latestTaskCommit>>

(* A Byzantine peer POSTs a verifier commit or reveal of its choosing at  *)
(* any block, outside the pipeline; only the predicate validator stands   *)
(* between it and the DHT.                                                  *)
ByzantineStore(n, fam, val) ==
  /\ n \in Byzantine
  /\ LET st == IF fam = "verifier_commit" THEN vCommit ELSE vReveal
         kept == Kept(st, tracker, fam, n, Now, val)
     IN  /\ vCommit' = IF fam = "verifier_commit" THEN kept ELSE vCommit
         /\ vReveal' = IF fam = "verifier_reveal" THEN kept ELSE vReveal
  /\ tracker' = Tracked(tracker, fam, n, Now)
  /\ UNCHANGED <<block, chainVars, sCommit, sReveal, nodeVars>>

Next ==
  \/ Tick
  \/ \E n \in Peers :
       \/ StartEpoch(n) \/ ResumeAfterError(n) \/ Attest(n)
       \/ TaskRpc(n) \/ Reveal(n) \/ Verify(n)
  \/ \E n \in Byzantine, fam \in {"verifier_commit", "verifier_reveal"}, val \in Payloads :
       ByzantineStore(n, fam, val)

Spec == Init /\ [][Next]_vars

-----------------------------------------------------------------------------
TypeOK ==
  /\ block \in Blocks
  /\ validatorOf \in [Epochs -> Peers \cup {None}]
  /\ \A e \in Epochs : proposal[e] # None => proposal[e].attests \subseteq Peers
  /\ vCommit \in [Epochs -> [Peers -> Payloads \cup {None}]]
  /\ vReveal \in [Epochs -> [Peers -> Payloads \cup {None}]]
  /\ tracker \in [Epochs -> Counts]
  /\ pc \in [Peers -> Phases]
  /\ ep \in [Peers -> Epochs]
  /\ latestTaskCommit \in [Peers -> {None} \cup [epoch : Epochs, payload : Payloads]]

(* All nodes that computed scores for an epoch computed the same ones,    *)
(* although each runs verify_and_score_peers at its own block after the  *)
(* reveal deadline and Byzantine verifiers reveal what they like: what   *)
(* the nodes propose and attest to at E+1 rests on this.                  *)
ScoreAgreement ==
  \A e \in Epochs, n, m \in Peers :
    epochScores[n][e] # None /\ epochScores[m][e] # None => epochScores[n][e] = epochScores[m][e]

(* A proposal attested by anyone but its validator carries the scores     *)
(* that every node holding scores for the previous epoch holds: an       *)
(* attestor never vouches for forged data (run_consensus compare-and-    *)
(* attest against the chain's proposal).                                  *)
AttestedProposalsAgreed ==
  \A e \in Epochs \ {0} :
    proposal[e] # None /\ proposal[e].attests # {proposal[e].validator} =>
      \A m \in Peers : epochScores[m][e - 1] \in {None, proposal[e].data}

(* No verifier commit for an epoch is accepted once any verifier reveal   *)
(* of that epoch is in the DHT, although call_and_commit_all_tasks checks *)
(* the commit window before the rpc_math awaits and stores after them.    *)
NoCommitAfterReveal ==
  [][\A e \in Epochs, v \in Peers :
       vCommit[e][v] = None /\ vCommit'[e][v] # None => Stored(vReveal, e) = {}]_vars

(* Spec section 7 (OnChainFailure: "retried once per block until epoch    *)
(* rollover"): an elected validator holding scores for E-1 that has run  *)
(* run_consensus for E does not go on while the chain still has no       *)
(* proposal for E.  run_consensus calls propose_attestation once and     *)
(* ignores its receipt (consensus.py:406-408).                            *)
ProposalRetriedUntilRollover ==
  \A n \in Peers :
    /\ Now >= 1 /\ validatorOf[Now] = n /\ epochScores[n][Now - 1] # None
    /\ ep[n] = Now /\ pc[n] # "Resume"
    => proposal[Now] # None
=============================================================================
