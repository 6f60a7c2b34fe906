# TLA+ models of the mesh subnet consensus and commit-reveal

This directory holds TLA+ specifications of the subnet template under `src/mesh`. They are checked with TLC. `PROJECT.json` lists:

- every component,
- every run and its expected result,
- the mutants that show each property can fail,
- the source lines each definition models,
- the findings,
- the hazards of the code.

## The system

A subnet node (`src/mesh/subnet/consensus/consensus.py`, `SubnetConsensus.run_forever`) runs one pipeline per subnet epoch. The epoch comes from the chain clock, `get_subnet_epoch_data`.

1. **`run_consensus(E)`**, in the first 15% of the epoch:
   - `get_scores(E-1)` returns the scores the node computed for E-1. It also drops those of E-2.
   - The elected validator calls `propose_attestation` with those scores.
   - Every other node polls the chain's proposal, compares it with its own scores (`compare_consensus_data`) and attests on a match.
2. **`run_task_commit`**, up to 50%: `call_and_commit_all_tasks` sends `rpc_math` to every other peer. It then stores the digest of its evaluations at `verifier_commit_epoch_E`.
3. **`run_task_reveal` and `run_reveal_scores`**, in (50%, 60%]:
   - reveal the evaluations at `verifier_reveal_epoch_E`;
   - reveal the scores committed at E-2 at `scores_reveal_epoch_E`.
4. **`run_verify_and_score_peers`**, after 60%:
   - `verify_and_score_peers(E)` credits every verifier whose reveal matches its commit;
   - `verify_score_reveals(E)` compares the revealed scores with on-chain data;
   - the result becomes `epoch_scores[E]`, and its digest is stored at `scores_commit_epoch_E` (`run_commit_scores`).

   Any exception sends the loop to its `except` branch. It sleeps one block and reruns the pipeline for the epoch the chain is in.

Every DHT store passes first through `SignatureValidator` (`src/mesh/dht/crypto.py`). A record whose key or subkey carries an owner tag `[owner:<public key>]` must hold exactly one `[signature:...]` in its value, made by that key over the record with its signatures stripped. The consensus task and the heartbeat write under a subkey that carries their own public key. The store then passes through the predicate record validator `MockHypertensorCommitReveal.__call__` (`src/mesh/subnet/utils/mock_commit_reveal.py`). It:

- recognises only the current epoch's keys;
- enforces a per-peer, per-epoch quota on each key family;
- enforces each family's window within the epoch;
- cleans up its tracker for epochs older than 5.

A client (`src/mesh/subnet/client/session.py`) asks a hoster for inference with `Session.run_protocol_task`. This is an async generator over the `rpc_inference_stream` RPC, with a retry loop. Each failed attempt is reported to `RemoteManager.on_request_failure`, then a new server is picked, up to `max_retries` attempts. Its requests go through the same authorizers as the servicer side.

## Modules

| Module | Models |
|---|---|
| `CommitRevealSchema` | Pure operators. The epoch clock (`EpochOf`, `ProgressAtMost`: percent_complete compared in integers), the key families, `_get_key_type`, the deadline windows, the tracker, `_cleanup_old_epochs`, `_has_exceeded_store_limit`, `_record_peer_store` and `__call__` (`Accepts`, `TrackerAfterPost`). |
| `SignedRecords` | The record layer: `SignatureValidator.validate` and `sign_value` composed with the predicate validator (an `INSTANCE` of `PredicateValidator`). The actions are `Store` (the owner signs and stores a record under its subkey), `Replay` (any peer stores a record it has seen), `Forge` (a peer writes under another peer's subkey with its own signature, a copied one, or both) and `Tick`. A signature is its signer and the content it covers. |
| `PredicateValidator` | The validator on its own, which `SignedRecords` instances. State: the block and `_peer_store_tracker`, plus a history variable `accepted`. Actions: `Tick` (a block) and `Post` (any peer, or a record without a signer, POSTs any nearby key). |
| `SubnetConsensus` | The nodes, the DHT records of the four commit-reveal key families, the tracker, and the chain's elections and proposals. There is one action per uninterrupted stretch of the `run_forever` pipeline. |
| `SubnetStartup` | The consensus process from `_main_loop` to `run_forever`: `run_activate_subnet` (slot read, subnet-info read, `errors_count`), `run_is_node_validator`, `shutdown` and `run_forever`'s loop. `run_forever` waits on `_async_stop_event`, which nothing sets, so it sees `self.stop` only when an epoch ends. |
| `Heartbeat` | `ModuleHeartbeatThread.run` as its steps (`Ping`, `Declare`, `Check`, `Wake`, `Clear`), `announce`, `ModuleAnnouncerThread.__init__`/`run`, `Server.shutdown` as one step, another peer's `declare_node_sig` (`StoreForeign`), and time in update periods (`Tick`). `Ping` decodes every stored `node` record with `from_tuple`. |
| `ServerLifecycle` | The server as a whole. It instances `Heartbeat` and `SubnetStartup` (as `ConsensusThread` builds it, `skip_activate_subnet=False`), adds the `MockProtocol` process (`ProtocolServe`), and splits `Server.shutdown` at its two joins: `StopProtocol`, `StopConsensus`, `StopDht`. |
| `RpcAuth` | The servicer side of an authenticated RPC: `SignatureAuthorizer.do_validate_request` and its `_recent_nonces`, `ProofOfStakeAuthorizer.validate_request`/`validate_response`, `ProofOfStake`'s success and failure caches. The actions are `SignRequest` (any skewed client clock), `Validate` of any request ever signed (replays included), `ValidateResponse` with answers in any order, `SetStake` and `Tick`. |
| `RpcExchange` | Several servicers, each with its own `_recent_nonces`, behind `AuthRPCWrapperStreamer`. Client stubs are built with `service_public_key=None`, as `MockProtocol.get_stub` builds them. A relaying servicer may pass on a request it received. |
| `StakeGatedAdmission` | No code: the abstract promise of servicer admission. A signed request is admitted at most once, only while its `auth.time` is within `Window` of the servicer's clock, and only while the chain confirmed its client's stake less than `Freshness` ago. `RpcAuth` is checked to implement it (see Refinement). |
| `InferenceSession` | The client: `SessionManager.session` opening and closing a `Session`, and `Session.run_protocol_task` split into its steps. The steps are `Begin`, `PickServer` (with `_update_server`) and `SendRequest`; `Receive` (one yielded tensor) and `Return`; `Abandon` (the caller stops at a yield, and `GeneratorExit` is not caught); and `PickFails`/`CallFails`, the except branch with `on_request_failure` and the retry bound `GivesUp`. Tensors are abstracted to where they come from: the caller or a server. |
| `RateLimiter` | `RateLimitAuthorizer.validate_request` for one peer with up to `MaxInFlight` requests in flight. It is split at its awaits: `Arrive`, `CheckRateLimit` (under the lock, with `_detect_threat` and `_handle_threat`), `InnerValidate`, `RecordViolationStep`. Time moves by `Tick` and a day-long `Quiet`. |
| `MCSignedRecords`, `MCSubnetConsensus`, `MCRpcAuth`, `MCHeartbeat`, `MCServerLifecycle` | Model values, symmetry sets, a view, and the foreign `node` record values, which a `.cfg` cannot write as tuples. |

### Actions of `SubnetConsensus`

| Action | Models |
|---|---|
| `StartEpoch` / `ResumeAfterError` | The wait timing out, or the `except` branch waking up, followed by `run_consensus` up to the propose or the entry to the attestor loop. |
| `Attest` | One attestor loop pass that does not sleep. |
| `TaskRpc` | The `rpc_math` answers arrive and the commit is stored. The RPC may raise instead. |
| `Reveal` | Both reveals. There is no await between them. |
| `Verify` | Verification, `epoch_scores[E]`, the scores commit, and the end of the pipeline. It may raise the AttributeError of `task.py:338/258` instead. |
| `ByzantineStore` | A Byzantine peer POSTs a verifier commit or reveal at any time. |
| `Tick` | A block, with the election of the validator at an epoch's first block. |

### Abstractions

- Evaluations are the payloads `"honest"` / `"forged"`.
- A digest is the payload itself. A digest is injective, so comparing digests is comparing payloads.
- Scores are the record of credited verifiers and their payloads. Score revealers map to whether their reveal equals the on-chain data.
- The chain's proposals and attestations are modelled from the spec, because the chain pallet is not in this repository. The mock `LocalMockHypertensor.propose_attestation` pre-fills every node as attesting, which would make `did_node_attest` always true.

### Timing

A node's step that does not wait on the chain finishes before the next block. The RPC round trips of `call_and_commit_all_tasks` also end within a block. So `Tick` is enabled only when no node outside `Laggards` has an urgent step (`Urgent`). A laggard may take arbitrarily long.

For `SubnetConsensus` this is a safety-only discipline: it claims no liveness and assumes no fairness.

### Startup, heartbeat and shutdown

- `SubnetStartup` counts no epochs. It keeps only whether the chain is in an epoch the running loop has not handled yet (`fresh`), and whether the loop sleeps the epoch out (`asleep`). `asyncio.sleep(seconds_remaining)` does not watch the stop event, so a sleeping loop notices `stop` only after `NewEpoch`.
- `Heartbeat` keeps time relative: the time since the iteration's `start_time`, capped at one `update_period`, and the record's remaining lifetime. So time can pass forever in a finite state space. The loop body is assumed to take at most one period; this is the bound the loop warns about.
- `ModuleAnnouncerThread.shutdown` is the only caller of `announce(OFFLINE)`, and nothing calls it. The OFFLINE branches are kept as written.
- The `node` record values are tuples, as `ServerInfo.to_tuple` writes them (`ToTuple`). `FromTupleRaises` states when `from_tuple` raises. Other peers' records are the set `foreign`, filled by `StoreForeign`.
- `ServerLifecycle`: the protocol process waits on a pipe nobody writes to. So `protocol.shutdown()` always ends in `terminate()` after `join(3)`. The consensus process is terminated after its `join(3)` unless it has already left `_main_loop`. Both grace periods are shorter than an update period and than an epoch, so `Tick` and `NewEpoch` are disabled while the main thread is in a join (`NotJoining`).

### Fairness

Only `ServerLifecycle` checks liveness.

- Every thread and process step is weakly fair, because the threads and the event loops are scheduled.
- `Tick` is weakly fair outside the joins: time passes.
- `NewEpoch` is weakly fair: the chain makes blocks.
- `StopConsensus` and `StopDht` are weakly fair: a shutdown that has begun runs to its end.
- `StopProtocol` is not fair, because nothing forces a server to shut down.

The consensus, RPC and limiter models check safety only and assume no fairness.

## Runs

| Run | Config | Result | What it shows |
|---|---|---|---|
| record_layer | `MCSignedRecords.cfg` | pass | A writer stores its records at any block of an epoch, and another peer replays them and forges or copies signatures under the writer's subkey. Every record accepted under a subkey was signed by its owner (`OwnerOnlyWrites`, an action property). The quotas hold (`StoreQuota`). No commit is accepted after a reveal of its epoch, and no reveal after a scores commit (`PhaseOrder`). |
| record_replay | `MCSignedRecordsReplay.cfg` | violation | The same signed record stored twice in its phase is refused the second time, because the first store used the owner's quota (`ReplayIdempotent`). |
| consensus_main | `MCSubnetConsensus.cfg` | pass | Two honest nodes and one Byzantine node run for 3 epochs. Every node that computed scores computed the same ones (`ScoreAgreement`). A proposal attested by others carries the scores every node holds (`AttestedProposalsAgreed`). No verifier commit gets in after a reveal of its epoch, although the window is checked before the RPC awaits (`NoCommitAfterReveal`). |
| consensus_faults | `MCSubnetConsensusFaults.cfg` | pass | The same safety properties hold when RPCs fail, proposals fail, n1 lags, and the AttributeError retry loop runs. |
| propose_not_retried | `MCSubnetConsensusPropose.cfg` | violation | A failed `propose_attestation` (receipt ignored, `consensus.py:406`) is never retried. Spec section 7 says it is retried each block until rollover. |
| session_retry_tensor | `MCInferenceSessionRetry.cfg` | violation | A retry after a partly streamed response sends the last tensor the failed server streamed back instead of the caller's tensor (`RequestsCarryCallerTensor`). |
| server_lifecycle | `MCServerLifecycle.cfg` | pass | Another server stores a well-formed `node` record. While the server runs, its `node` record never expires (`HeartbeatFresh`), and the heartbeat thread lives while the DHT runs (`HeartbeatOutlivesForeignRecords`). ONLINE reaches the DHT unless the DHT goes first (`OnlineEventuallyPublished`). |
| heartbeat_poison | `MCHeartbeatPoison.cfg` | violation | Another peer stores a `node` record that is too short or is not a tuple. `ServerInfo.from_tuple` raises in `_ping_next_servers` and the heartbeat thread ends (`HeartbeatOutlivesForeignRecords`). |
| rpc_auth | `MCRpcAuth.cfg` | pass | Two clients with clocks up to 2 minutes off, replays at any time. `RpcAuth` implements `StakeGatedAdmission` (`ImplementsStakeGatedAdmission`): no request is accepted twice, none outside the clock window, none on a stake confirmation older than `pos_success_cooldown`. During the failure cooldown a peer is neither accepted nor queried (`FailureCooldownHonoured`, an action property). |
| rpc_exchange | `MCRpcExchange.cfg` | violation | A servicer passes a signed request on to a second servicer, which admits it as the client's own call (`RequestBoundToServicer`). |
| rate_limit | `MCRateLimiter.cfg` | pass | However two concurrent requests interleave, no window admits more than its limit (`AcceptWithinLimits`). |
| rate_limit_lockout | `MCRateLimiterLockout.cfg` | violation | Once `violation_counts` reaches 10 every request is CRITICAL and re-blocks the peer for 24 h, forever (`BlockIsTemporary`). |

Every property of a passing run has a mutant in `PROJECT.json`: a plausible bug in the mapped code under which TLC finds the property violated.

## Refinement

`StakeGatedAdmission` states what admission promises without nonces, nonce
expiry or caches. `RpcAuth` instances it with this mapping:

| Abstract | Concrete |
|---|---|
| `admitted[r]` | `acceptCount[r]` (how often `do_validate_request` accepted `r`) |
| `confirmed[p]` | `lastSuccess[p]` (the success cache of `ProofOfStake`, 0 when empty) |
| `Window` | `MAX_CLIENT_SERVICER_TIME_DIFF` |
| `Freshness` | `POS_SUCCESS_COOLDOWN` |

`now`, `staked` and `sent` map to themselves. A chain query that succeeds is a
`Confirm`; a query that fails clears the success cache and is a `Withdraw`; an
accepted request is an `Admit`, possibly with the confirmation it triggered in
the same step. Nonce bookkeeping, the failure cache and responses are
stuttering steps. Because `admitted` counts admissions, a second acceptance of
the same request is a step the abstract spec forbids, so the property also
covers replay. It also bounds the staleness of the success cache: a mutant that
lets the cache answer at exactly `pos_success_cooldown` violates it.

## Findings

Each violation run is a finding in `PROJECT.json`:

1. **Proposals are not retried.** `propose_attestation`'s receipt is ignored, so a failed proposal is never retried.
2. **Replays use up the owner's quota.** `__call__` counts every accepted POST, so a record stored again unchanged counts like a new one (mock_commit_reveal.py:274). An owner's retried commit is refused, and any peer that saw a signed heartbeat can replay it until the owner's `node` quota is used and the owner's own heartbeats are refused for the epoch. `SignatureValidator` lets the replay through, because the record is the owner's. Spec section 4.3 says the predicate is idempotent for the same record within a phase.
3. **A retry sends the wrong tensor.** `run_protocol_task` rebinds its `tensor` argument to each streamed output (session.py:69). A retry after a partial stream therefore asks the next server for inference on the last output, not on the caller's input.
4. **One malformed record stops every heartbeat.** `ModuleHeartbeatThread.run` calls `_ping_next_servers` with no `try` (server.py:350). `get_node_infos_sig` decodes every `node` record with `ServerInfo.from_tuple`. That raises for a non-tuple, for fewer than four items (it reads `source[3]` when `len(source) > 2`) and for an unknown state. No validator checks the value of a signed record, so any peer ends the heartbeat thread of every server that reads its record.
5. **Cross-servicer replay.** No service key is bound, and the nonce stores are per servicer.
6. **Permanent lockout by the rate limiter.**

## Bounds

- The epoch length is 5 blocks. That is the smallest length with a block in every window: attest ≤15%, commit ≤50%, reveal (50,60], scores commit >60%.
- The consensus runs span 3 epochs (0..2). That is the least that has scores for E-1 at E.
- Three consensus nodes are enough: two honest nodes can disagree, and a Byzantine node can forge.
- The `node` quota is reduced to 1 in the consensus model. In the record-layer runs the quota of 2 is enough to reach the limit.
- The record-layer runs span one epoch of 5 blocks, with a block in every phase window. There is one writer, which writes each key of the epoch once, with an expiration inside or outside the bound. A second peer replays and forges. The validator keeps one counter per signer and never compares signers, so a second writer only multiplies the states. A second epoch multiplies the histories past TLC's reach. Another epoch's keys and `_cleanup_old_epochs` are checked only inside the consensus runs.
- Past epochs' verifier records are hidden by a VIEW, because nothing reads them again.
- `RpcAuth` counts time in minutes up to 7. That is past one nonce lifetime (3) plus the clock window. The cooldowns (5) then both start and expire within a run.
- `RateLimiter` counts in short windows, scaled to one request per second, with windows of 1, 2 and 3. Two requests in flight are enough to interleave the check and the violation record.
- `InferenceSession` uses two servers, the default `max_retries` of 4 (and `config.max_retries` 4), two tokens per stream and two calls. One token, one failure and one retry are enough for the wrong tensor; two calls let a second call reuse the session's server.
- `SubnetStartup` counts `errors_count` up to `MAX_ERRORS + 1`, the value at which the process shuts down.

## Not modelled

- **Cryptography.** A signature is its signer and the content it covers. The regexes and byte encodings of `SignatureValidator` are abstracted: a signature containing `]` would be cut short by `(.+?)`, and whether one can depends on `mesh.utils.crypto`, which is not in the repository.
- **The consensus model's chain side.** `propose_attestation` and `attest` are modelled from the spec. `LocalMockHypertensor` keys records by chain epoch but reads them by subnet epoch, and it pre-fills every node as attesting.
- **`ban.py`.** It shells out to `ufw`: pure I/O.
- **The DHT helpers.** They appear only as the records they store.
- **The roles, the CLIs, the API and the metrics.** They share no state with the modelled parts.
- **The streaming branch of `AuthRPCWrapperStreamer`.** It validates only the first response; `rpc_math` is unary.
- **The E-2 consensus data read in `verify_score_reveals`.** It needs runs of at least 5 epochs, which are beyond TLC's reach with three nodes.
- **The leak of `epoch_scores` (consensus.py:74-77, 229).** `get_scores(target)` deletes only `target-1`, so a pipeline that skips two epochs leaves an entry behind. Showing it needs 4 or more epochs, which is again out of reach.
- **The validator wait at consensus.py:370.** The loop condition `validator is not None or validator != 'None'` is always true, so the code never waits for a late election. Spec line 97 says it should. The model's chain elects at the first block of an epoch, so the missing wait never matters there. Showing it would need a violation run, and all 12 run slots are in use.
- **No run checks the three consecutive misses.** `errors_count` in `run_activate_subnet` is never reset (consensus.py:127), so misses in different epochs add up. Spec section 5 says three *consecutive* misses. `SubnetStartup` models the counter as written. The run that showed the divergence gave its slot to the record-layer replay run.
- **`RemoteManager` and `ClientConfig`.** They are not in the repository. `make_sequence` is any server or an exception, `config.max_retries` is a constant, and the retry delay passes time that nothing reads.
- **No run checks that shutdown preempts the consensus loops.** Spec line 111 says every long sleep is a `wait_for(stop_event, ...)` that shutdown cuts short. In the code, `run_activate_subnet` and `run_is_node_validator` use `asyncio.sleep`. `run_forever` waits on `_async_stop_event`, which nothing sets, because `shutdown` sets only `self.stop` (consensus.py:199, 246, 458-468). So a stopping consensus process runs until the epoch ends, and `Server.shutdown` always ends it with `terminate()` after `join(3)`. `SubnetStartup` and `ServerLifecycle` model this as written. An invariant that the DHT goes down only after the child processes are gone was dropped, because it only restated `StopDht`. The divergence from the spec would need a violation run of its own.
- **No property about a response matching its call.** `do_validate_response` compares the echoed nonce (auth.py:172). Nonces are 8 fresh random bytes, so such a property would only restate that comparison.
- **No run checks the OFFLINE record on shutdown.** `Server.shutdown` never calls `module_container.shutdown()`, so OFFLINE is never announced (spec section 4.8 says it is). `Heartbeat` models the shutdown as written. Readers see the last record until it expires two update periods later.
- **No run checks that activation leaves a slot.** A swallowed `get_subnet_slot` exception followed by an Active read starts `run_is_node_validator` with no slot (consensus.py:109, 154). `SubnetStartup` keeps the exception branch, and `ServerLifecycle` reaches the crash it causes. The runs spend their violation checks on other findings.

Hazards without a covering property carry a note in `PROJECT.json` saying why.

## Plan

1. Add a longer consensus run for the `verify_score_reveals` epoch offset.
2. Compose `SubnetStartup` with `SubnetConsensus` (the startup gates feeding `run_forever`).
3. Relate ONLINE to the protocol process being ready, once a property for it is settled.
