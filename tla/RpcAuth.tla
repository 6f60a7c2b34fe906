------------------------------ MODULE RpcAuth ------------------------------
(***************************************************************************)
(* The servicer side of an authenticated RPC: SignatureAuthorizer's       *)
(* replay defense (do_validate_request and the _recent_nonces store) under *)
(* ProofOfStakeAuthorizer.validate_request, with ProofOfStake's success   *)
(* and failure caches in front of the chain's proof_of_stake query.       *)
(* (src/mesh/utils/authorizers/auth.py, pos_auth.py,                      *)
(* src/mesh/utils/proof_of_stake.py)                                      *)
(*                                                                         *)
(* Time is get_dht_time() in units of 60 seconds, so that                 *)
(* _MAX_CLIENT_SERVICER_TIME_DIFF is 1, the nonce lifetime 3 and the two  *)
(* proof-of-stake cooldowns 5.  Clients sign requests with their own      *)
(* clock, at most ClockSkew units off the servicer's; the network (or an  *)
(* attacker holding a copy) delivers any request ever signed, any number  *)
(* of times.  validate_request has no await that suspends between the    *)
(* nonce check and the nonce store (proof_of_stake is a blocking call),   *)
(* so one validation is one step.                                          *)
(***************************************************************************)
EXTENDS Integers, FiniteSets

CONSTANTS
  Peers,       \* clients, identified by their public key's peer id
  Nonces,      \* the nonces the clients draw (secrets.token_bytes(8))
  ClockSkew,   \* largest offset of a client's clock from the servicer's
  MaxTime,     \* last time unit of the model
  ChainFaults  \* TRUE: the chain query may raise or answer without "result"

ASSUME ClockSkew \in Nat /\ MaxTime \in Nat \ {0} /\ ChainFaults \in BOOLEAN

MAX_CLIENT_SERVICER_TIME_DIFF == 1   \* timedelta(minutes=1)
POS_SUCCESS_COOLDOWN == 5            \* pos_success_cooldown = 300
POS_FAIL_COOLDOWN == 5               \* pos_fail_cooldown = 300

Times == 1..MaxTime
Requests == [client : Peers, nonce : Nonces, time : (1 - ClockSkew)..(MaxTime + ClockSkew)]

(* What is_peer_staked makes of hypertensor.proof_of_stake: the answer of *)
(* the chain, an answer without "result", or an exception.               *)
Answers == IF ChainFaults THEN {"staked", "unstaked", "no_result", "raise"}
           ELSE {"staked", "unstaked"}

VARIABLES
  now,          \* the servicer's get_dht_time()
  staked,       \* staked[p]: the chain's proof_of_stake for p at this time
  recentNonces, \* _recent_nonces: nonce -> expiration time (0: absent)
  lastSuccess,  \* peer_id_to_last_successful_pos (0: absent)
  lastFail,     \* peer_id_to_last_failed_pos (0: absent)
  sent,         \* every request a client signed
  acceptCount,  \* history: how often each request was accepted
  lastAnswer,   \* history: the chain's last answer for each peer, and when
  queried,      \* history: the peers the chain was queried for in the last step
  answered      \* the calls whose response the client has checked: [call, reply, ok]

vars == <<now, staked, recentNonces, lastSuccess, lastFail, sent, acceptCount, lastAnswer, queried, answered>>

-----------------------------------------------------------------------------
(* TimedStorage: an entry is there until its expiration time has passed. *)
NonceKnown(n) == recentNonces[n] >= now

(* auth.time within _MAX_CLIENT_SERVICER_TIME_DIFF of get_dht_time(). *)
ClocksInSync(r) == r.time - now <= MAX_CLIENT_SERVICER_TIME_DIFF /\ now - r.time <= MAX_CLIENT_SERVICER_TIME_DIFF

(* do_validate_request: valid when in time and the nonce is not known. *)
DoValidateRequest(r) == ClocksInSync(r) /\ ~NonceKnown(r.nonce)

(* Mutant: the lifetime counted in seconds on a clock kept in minutes. *)
NonceExpiryUnits(t) == t + MAX_CLIENT_SERVICER_TIME_DIFF * 3 * 60

(* _recent_nonces.store(nonce, None, current_time + diff * 3) *)
NonceExpiry(t) == t + MAX_CLIENT_SERVICER_TIME_DIFF * 3

(* Mutant: the failure cache is not consulted. *)
RecentlyFailedNever(p) == FALSE

(* last_fail and now - last_fail < pos_fail_cooldown *)
RecentlyFailed(p) == lastFail[p] # 0 /\ now - lastFail[p] < POS_FAIL_COOLDOWN

(* Mutant: the success cache still answers at exactly pos_success_cooldown. *)
RecentlySucceededInclusive(p) == lastSuccess[p] # 0 /\ now - lastSuccess[p] <= POS_SUCCESS_COOLDOWN

(* last_success and now - last_success < pos_success_cooldown *)
RecentlySucceeded(p) == lastSuccess[p] # 0 /\ now - lastSuccess[p] < POS_SUCCESS_COOLDOWN

(* The chain's answer to a query for p at this time. *)
ChainAnswers(p) == (Answers \ {"staked", "unstaked"}) \cup {IF staked[p] THEN "staked" ELSE "unstaked"}

-----------------------------------------------------------------------------
Init ==
  /\ now = 1
  /\ staked \in [Peers -> BOOLEAN]
  /\ recentNonces = [n \in Nonces |-> 0]
  /\ lastSuccess = [p \in Peers |-> 0]
  /\ lastFail = [p \in Peers |-> 0]
  /\ sent = {}
  /\ acceptCount = [r \in Requests |-> 0]
  /\ lastAnswer = [p \in Peers |-> [t |-> 0, ans |-> "none"]]
  /\ queried = {}
  /\ answered = {}

(* Time passes. *)
Tick ==
  /\ now < MaxTime
  /\ now' = now + 1
  /\ queried' = {}
  /\ UNCHANGED <<staked, recentNonces, lastSuccess, lastFail, sent, acceptCount, lastAnswer, answered>>

(* The chain changes p's stake (registration, removal, slashing). *)
SetStake(p) ==
  /\ staked' = [staked EXCEPT ![p] = ~@]
  /\ queried' = {}
  /\ UNCHANGED <<now, recentNonces, lastSuccess, lastFail, sent, acceptCount, lastAnswer, answered>>

(* sign_request: a fresh nonce, auth.time from the client's clock. *)
SignRequest(p, n, skew) ==
  /\ \A r \in sent : r.nonce # n
  /\ sent' = sent \cup {[client |-> p, nonce |-> n, time |-> now + skew]}
  /\ queried' = {}
  /\ UNCHANGED <<now, staked, recentNonces, lastSuccess, lastFail, acceptCount, lastAnswer, answered>>

(* update_peer_id_success: the success time is now, the failure dropped. *)
UpdatePeerIdSuccess(p) ==
  /\ lastSuccess' = [lastSuccess EXCEPT ![p] = now]
  /\ lastFail' = [lastFail EXCEPT ![p] = 0]

(* update_peer_id_fail: the failure time is now, the success dropped. *)
UpdatePeerIdFail(p) ==
  /\ lastFail' = [lastFail EXCEPT ![p] = now]
  /\ lastSuccess' = [lastSuccess EXCEPT ![p] = 0]

(* What ProofOfStake.proof_of_stake(p) returns when the chain would answer *)
(* a: the failure cache, then the success cache, then the chain ("raise"  *)
(* propagates to the caller, which rejects).                                *)
PosResult(p, a) ==
  CASE RecentlyFailed(p)    -> FALSE
    [] RecentlySucceeded(p) -> TRUE
    [] OTHER                -> a = "staked"

(* The caches proof_of_stake(p) updates: none when a cache answers; else  *)
(* the chain is queried and its answer recorded, unless the query raised. *)
ProofOfStake(p, a) ==
  IF RecentlyFailed(p) \/ RecentlySucceeded(p)
    THEN /\ queried' = {}
         /\ UNCHANGED <<lastSuccess, lastFail, lastAnswer>>
    ELSE /\ queried' = {p}
         /\ lastAnswer' = IF a = "raise" THEN lastAnswer
                          ELSE [lastAnswer EXCEPT ![p] = [t |-> now, ans |-> a]]
         /\ CASE a = "staked"                  -> UpdatePeerIdSuccess(p)
              [] a \in {"unstaked", "no_result"} -> UpdatePeerIdFail(p)
              [] a = "raise"                   -> UNCHANGED <<lastSuccess, lastFail>>

(* ProofOfStakeAuthorizer.validate_request(r): do_validate_request, then  *)
(* proof_of_stake(client) (an exception from the chain query rejects),    *)
(* then, on success, the nonce is stored.                                   *)
Validate(r) ==
  LET p == r.client IN
  /\ r \in sent
  /\ IF ~DoValidateRequest(r)
       THEN /\ queried' = {}
            /\ UNCHANGED <<recentNonces, lastSuccess, lastFail, acceptCount, lastAnswer>>
       ELSE \E a \in ChainAnswers(p) :
              /\ ProofOfStake(p, a)
              /\ IF PosResult(p, a)
                   THEN /\ recentNonces' = [recentNonces EXCEPT ![r.nonce] = NonceExpiry(now)]
                        /\ acceptCount' = [acceptCount EXCEPT ![r] = @ + 1]
                   ELSE UNCHANGED <<recentNonces, acceptCount>>
  /\ UNCHANGED <<now, staked, sent, answered>>

(* do_validate_response: the response, signed by the servicer (signatures *)
(* are unforgeable), must carry back the request's nonce.                  *)
DoValidateResponse(call, reply) == reply.nonce = call.nonce

(* The client stub's wrapper gets a signed response for its call: the     *)
(* servicer's answer to reply, a request of the same client (concurrent   *)
(* calls of one client, answers delivered in any order).                  *)
(* ProofOfStakeAuthorizer.validate_response: do_validate_response, then   *)
(* proof_of_stake of the servicer, here the client's own cache or chain  *)
(* answer, either way; a call that fails the check returns None.         *)
ValidateResponse(call, reply) ==
  /\ call \in sent /\ reply \in sent
  /\ reply.client = call.client /\ acceptCount[reply] > 0
  /\ \A a \in answered : a.call # call
  /\ \E servicerStaked \in BOOLEAN :
       answered' = answered \cup {[call |-> call, reply |-> reply,
                                    ok |-> DoValidateResponse(call, reply) /\ servicerStaked]}
  /\ queried' = {}
  /\ UNCHANGED <<now, staked, recentNonces, lastSuccess, lastFail, sent, acceptCount, lastAnswer>>

Next ==
  \/ Tick
  \/ \E p \in Peers : SetStake(p)
  \/ \E p \in Peers, n \in Nonces, s \in -ClockSkew..ClockSkew : SignRequest(p, n, s)
  \/ \E r \in sent : Validate(r)
  \/ \E call, reply \in sent : ValidateResponse(call, reply)

Spec == Init /\ [][Next]_vars

-----------------------------------------------------------------------------
TypeOK ==
  /\ now \in Times
  /\ staked \in [Peers -> BOOLEAN]
  /\ recentNonces \in [Nonces -> 0..(MaxTime + 3 * MAX_CLIENT_SERVICER_TIME_DIFF)]
  /\ lastSuccess \in [Peers -> 0..MaxTime] /\ lastFail \in [Peers -> 0..MaxTime]
  /\ sent \subseteq Requests
  /\ acceptCount \in [Requests -> Nat]
  /\ answered \subseteq [call : Requests, reply : Requests, ok : BOOLEAN]

(* Spec S5 and the failure cache: for pos_fail_cooldown after the chain   *)
(* last answered that a peer is not staked (or answered without a        *)
(* result), no request of that peer is accepted and the chain is not     *)
(* queried for it again (proof_of_stake's cache checks).                  *)
Accepted(p) == \E r \in Requests : r.client = p /\ acceptCount'[r] > acceptCount[r]

FailureCooldownHonoured ==
  [][\A p \in Peers :
       /\ lastAnswer[p].ans \in {"unstaked", "no_result"}
       /\ now - lastAnswer[p].t < POS_FAIL_COOLDOWN
       => p \notin queried' /\ ~Accepted(p)]_vars

(* The servicer keeps the promise of StakeGatedAdmission: the nonce store *)
(* and the clock check admit each signed request once and only within a  *)
(* minute of its auth.time, and proof_of_stake admits a peer only within *)
(* pos_success_cooldown of the chain's last confirmation of its stake,   *)
(* however the caches, a stake removed on chain, and replays interleave.  *)
(* The success cache is the record of confirmations; the failure cache,  *)
(* the nonces and the response checks are the implementation's own.      *)
Admission == INSTANCE StakeGatedAdmission
               WITH admitted <- acceptCount, confirmed <- lastSuccess,
                    Window <- MAX_CLIENT_SERVICER_TIME_DIFF, Freshness <- POS_SUCCESS_COOLDOWN

ImplementsStakeGatedAdmission == Admission!Spec
=============================================================================
