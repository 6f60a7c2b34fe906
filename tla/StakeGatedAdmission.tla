------------------------- MODULE StakeGatedAdmission -------------------------
(***************************************************************************)
(* What the servicer side of an authenticated RPC promises, with no       *)
(* nonces and no caches: a signed request is admitted at most once, only  *)
(* while its auth.time is within Window of the servicer's clock, and only *)
(* while the chain has confirmed its client's stake less than Freshness   *)
(* ago (spec sections 3 and S5: "authenticates every peer interaction    *)
(* against on-chain stake", with a success cache of bounded age).         *)
(*                                                                         *)
(* The chain confirms a stake only when it is staked; any other answer    *)
(* withdraws the confirmation.  A confirmation may come with the          *)
(* admission it enables, in one step.                                      *)
(***************************************************************************)
EXTENDS Integers

CONSTANTS
  Peers, Nonces, ClockSkew, MaxTime,
  Window,     \* how far auth.time may be from the servicer's clock
  Freshness   \* how long a confirmation of stake admits its peer

Requests == [client : Peers, nonce : Nonces, time : (1 - ClockSkew)..(MaxTime + ClockSkew)]

VARIABLES
  now,        \* the servicer's clock
  staked,     \* the chain's stake of each peer
  sent,       \* the requests clients signed
  admitted,   \* admitted[r]: how often r was admitted
  confirmed   \* confirmed[p]: when the chain last confirmed p's stake (0: not on record)

vars == <<now, staked, sent, admitted, confirmed>>

InTime(r) == r.time - now <= Window /\ now - r.time <= Window

Fresh(t) == t # 0 /\ now - t < Freshness

Init ==
  /\ now = 1
  /\ staked \in [Peers -> BOOLEAN]
  /\ sent = {}
  /\ admitted = [r \in Requests |-> 0]
  /\ confirmed = [p \in Peers |-> 0]

Tick ==
  /\ now < MaxTime
  /\ now' = now + 1
  /\ UNCHANGED <<staked, sent, admitted, confirmed>>

SetStake(p) ==
  /\ staked' = [staked EXCEPT ![p] = ~@]
  /\ UNCHANGED <<now, sent, admitted, confirmed>>

Sign(p, n, skew) ==
  /\ \A r \in sent : r.nonce # n
  /\ sent' = sent \cup {[client |-> p, nonce |-> n, time |-> now + skew]}
  /\ UNCHANGED <<now, staked, admitted, confirmed>>

(* The chain is asked about p and confirms its stake. *)
Confirm(p) ==
  /\ staked[p]
  /\ confirmed' = [confirmed EXCEPT ![p] = now]
  /\ UNCHANGED <<now, staked, sent, admitted>>

(* The chain is asked about p and does not confirm. *)
Withdraw(p) ==
  /\ confirmed' = [confirmed EXCEPT ![p] = 0]
  /\ UNCHANGED <<now, staked, sent, admitted>>

(* r is admitted, on a confirmation on record or one obtained now. *)
Admit(r) ==
  LET p == r.client IN
  /\ r \in sent /\ admitted[r] = 0 /\ InTime(r)
  /\ \/ UNCHANGED confirmed
     \/ staked[p] /\ confirmed' = [confirmed EXCEPT ![p] = now]
  /\ Fresh(confirmed'[p])
  /\ admitted' = [admitted EXCEPT ![r] = 1]
  /\ UNCHANGED <<now, staked, sent>>

Next ==
  \/ Tick
  \/ \E p \in Peers : SetStake(p) \/ Confirm(p) \/ Withdraw(p)
  \/ \E p \in Peers, n \in Nonces, s \in -ClockSkew..ClockSkew : Sign(p, n, s)
  \/ \E r \in sent : Admit(r)

Spec == Init /\ [][Next]_vars
=============================================================================
