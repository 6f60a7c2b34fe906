----------------------------- MODULE RateLimiter -----------------------------
(***************************************************************************)
(* RateLimitAuthorizer.validate_request for the requests of one client     *)
(* peer: _check_rate_limit under the asyncio lock, the inner authorizer's *)
(* validate_request, and _record_violation under the lock again, with the *)
(* threat detection and the blocks and bans of _handle_threat.             *)
(* (src/mesh/utils/authorizers/limiter.py)                                 *)
(*                                                                         *)
(* The limiter keeps its state per peer and nothing in it relates two     *)
(* peers, so one peer is modelled, with up to MaxInFlight of its requests *)
(* in flight at once.  Time is counted in short_windows and kept relative: *)
(* the request deque is the number of its entries of each age, and a      *)
(* block its remaining time.  The 24-hour block of a critical threat is   *)
(* longer than every configured window and duration; it is the value Day, *)
(* which only a quiet period of a day or more (Quiet) ends.  The          *)
(* statistics counters (total_requests, blocked_requests,                 *)
(* threat_escalations) are written and never read, and are left out.      *)
(***************************************************************************)
EXTENDS Integers, FiniteSets

CONSTANTS
  MaxRequestsPerSecond,   \* RateLimitConfig.max_requests_per_second
  MaxRequestsPerMinute,   \* max_requests_per_minute
  MaxRequestsPerHour,     \* max_requests_per_hour
  MaxBurst,               \* max_burst
  MediumWindow,           \* medium_window, in short_windows
  LongWindow,             \* long_window, in short_windows
  TempBlockDuration,      \* temp_block_duration, in short_windows
  ExtendedBlockDuration,  \* extended_block_duration, in short_windows
  EnableIpBanning,        \* enable_ip_banning (with an ip_ban_callback)
  MaxInFlight             \* bound: requests of the peer in flight at once

ASSUME /\ {MaxRequestsPerSecond, MaxRequestsPerMinute, MaxRequestsPerHour, MaxBurst} \subseteq Nat \ {0}
       /\ 1 < MediumWindow /\ MediumWindow <= LongWindow
       /\ 0 < TempBlockDuration /\ TempBlockDuration <= ExtendedBlockDuration
       /\ EnableIpBanning \in BOOLEAN /\ MaxInFlight \in Nat \ {0}

(* The float thresholds of RateLimitConfig, in tenths. *)
SUSPICIOUS_THRESHOLD == 15
BLOCKING_THRESHOLD == 30
IP_BAN_THRESHOLD == 50
IP_BAN_VIOLATION_COUNT == 10

Day == ExtendedBlockDuration + 1      \* _block_peer(peer_id, 86400)
ViolationCap == IP_BAN_VIOLATION_COUNT + 2

Levels == 0..4                        \* ThreatLevel NORMAL .. CRITICAL
SUSPICIOUS == 1
MODERATE == 2
HIGH == 3
CRITICAL == 4

Stale == LongWindow + 1               \* older than long_window, not yet popped
Ages == 0..Stale
NoBlock == -1                         \* peer_id not in blocked_peers

Stages == {"check", "rl", "inner", "auth"}

VARIABLES
  reqs,    \* peer_requests[peer]: how many entries of each age the deque holds
  peer,    \* peer_threat_levels, violation_counts, blocked_peers, ip_banned_peers
  flight,  \* requests in flight by stage: waiting for _check_rate_limit,
           \* rejected and waiting for _record_violation, in the inner
           \* authorizer, or failed it and waiting for _record_violation
  hist     \* history: ages of the requests that passed the rate check

vars == <<reqs, peer, flight, hist>>

-----------------------------------------------------------------------------
RECURSIVE SumTo(_, _)
SumTo(f, n) == IF n < 0 THEN 0 ELSE f[n] + SumTo(f, n - 1)

(* sum(1 for t in requests if t > current_time - window) *)
InWindow(f, w) == SumTo(f, w - 1)

(* len(requests) after the entries older than long_window are popped. *)
LongCount(r) == SumTo(r, LongWindow)

(* Mutant: the per-minute limit compared with > instead of >=. *)
DetectThreatMediumStrict(v, short, medium, long) ==
  CASE short * 10 > MaxRequestsPerSecond * IP_BAN_THRESHOLD
         \/ v >= IP_BAN_VIOLATION_COUNT                   -> CRITICAL
    [] short * 10 > MaxRequestsPerSecond * BLOCKING_THRESHOLD -> HIGH
    [] medium > MaxRequestsPerMinute                       -> MODERATE
    [] long >= MaxRequestsPerHour                          -> MODERATE
    [] short >= MaxBurst                                   -> SUSPICIOUS
    [] short * 10 > MaxRequestsPerSecond * SUSPICIOUS_THRESHOLD -> SUSPICIOUS
    [] OTHER                                               -> 0

(* _detect_threat: the threat level, 0 (NORMAL) when there is none. *)
DetectThreat(v, short, medium, long) ==
  CASE short * 10 > MaxRequestsPerSecond * IP_BAN_THRESHOLD
         \/ v >= IP_BAN_VIOLATION_COUNT                   -> CRITICAL
    [] short * 10 > MaxRequestsPerSecond * BLOCKING_THRESHOLD -> HIGH
    [] medium >= MaxRequestsPerMinute                      -> MODERATE
    [] long >= MaxRequestsPerHour                          -> MODERATE
    [] short >= MaxBurst                                   -> SUSPICIOUS
    [] short * 10 > MaxRequestsPerSecond * SUSPICIOUS_THRESHOLD -> SUSPICIOUS
    [] OTHER                                               -> 0

(* Mutant: every threat raises the level one step, whatever its level. *)
HandleThreatStepUp(p, lvl) ==
  [level      |-> p.level + 1,
   violations |-> IF p.violations < ViolationCap THEN p.violations + 1 ELSE p.violations,
   block      |-> CASE lvl = MODERATE -> TempBlockDuration
                    [] lvl = HIGH -> ExtendedBlockDuration
                    [] lvl = CRITICAL /\ ~EnableIpBanning -> Day
                    [] OTHER -> p.block,
   banned     |-> p.banned \/ (lvl = CRITICAL /\ EnableIpBanning)]

(* _handle_threat: escalate the level, count a violation, then block for  *)
(* the level's duration, or ban (the ban callback's failure is caught).   *)
HandleThreat(p, lvl) ==
  [level      |-> IF lvl > p.level THEN lvl ELSE p.level,
   violations |-> IF p.violations < ViolationCap THEN p.violations + 1 ELSE p.violations,
   block      |-> CASE lvl = MODERATE -> TempBlockDuration
                    [] lvl = HIGH -> ExtendedBlockDuration
                    [] lvl = CRITICAL /\ ~EnableIpBanning -> Day
                    [] OTHER -> p.block,
   banned     |-> p.banned \/ (lvl = CRITICAL /\ EnableIpBanning)]

(* _record_violation: one more violation, and from 5 on a SUSPICIOUS     *)
(* threat handled on top.                                                  *)
RecordViolation(p) ==
  LET q == [p EXCEPT !.violations = IF @ < ViolationCap THEN @ + 1 ELSE @]
  IN  IF q.violations >= 5 THEN HandleThreat(q, SUSPICIOUS) ELSE q

Move(f, from, to) == [f EXCEPT ![from] = @ - 1, ![to] = @ + 1]
Done(f, from) == [f EXCEPT ![from] = @ - 1]

-----------------------------------------------------------------------------
Init ==
  /\ reqs = [a \in Ages |-> 0]
  /\ peer = [level |-> 0, violations |-> 0, block |-> NoBlock, banned |-> FALSE]
  /\ flight = [s \in Stages |-> 0]
  /\ hist = [a \in 0..LongWindow |-> 0]

(* A request of the peer reaches validate_request; the peer id is read    *)
(* from its access token.                                                  *)
Arrive ==
  /\ flight["check"] + flight["rl"] + flight["inner"] + flight["auth"] < MaxInFlight
  /\ flight' = [flight EXCEPT !["check"] = @ + 1]
  /\ UNCHANGED <<reqs, peer, hist>>

(* _check_rate_limit, under the lock: a banned or still blocked peer is   *)
(* rejected; an expired block is deleted; the stale entries are popped,   *)
(* the windows counted and a threat handled and rejected; otherwise the  *)
(* request is appended to the deque and goes on to the inner authorizer. *)
CheckRateLimit ==
  /\ flight["check"] > 0
  /\ IF peer.banned \/ peer.block > 0
       THEN /\ flight' = Move(flight, "check", "rl")
            /\ UNCHANGED <<reqs, peer, hist>>
       ELSE LET p   == [peer EXCEPT !.block = NoBlock]
                r   == [reqs EXCEPT ![Stale] = 0]
                lvl == DetectThreat(p.violations, InWindow(r, 1),
                                    InWindow(r, MediumWindow), LongCount(reqs))
            IN  IF lvl # 0
                  THEN /\ peer' = HandleThreat(p, lvl)
                       /\ reqs' = r
                       /\ flight' = Move(flight, "check", "rl")
                       /\ UNCHANGED hist
                  ELSE /\ peer' = p
                       /\ reqs' = [r EXCEPT ![0] = @ + 1]
                       /\ hist' = [hist EXCEPT ![0] = @ + 1]
                       /\ flight' = Move(flight, "check", "inner")

(* The inner authorizer's validate_request returns; a failure is recorded *)
(* as a violation.                                                          *)
InnerValidate ==
  /\ flight["inner"] > 0
  /\ \/ flight' = Done(flight, "inner")
     \/ flight' = Move(flight, "inner", "auth")
  /\ UNCHANGED <<reqs, peer, hist>>

(* _record_violation for a rejected request or a failed authentication. *)
RecordViolationStep ==
  /\ \E s \in {"rl", "auth"} :
       /\ flight[s] > 0
       /\ flight' = Done(flight, s)
  /\ peer' = RecordViolation(peer)
  /\ UNCHANGED <<reqs, hist>>

(* A short_window passes. *)
Tick ==
  /\ reqs' = [a \in Ages |-> CASE a = 0 -> 0
                               [] a = Stale -> reqs[Stale - 1] + reqs[Stale]
                               [] OTHER -> reqs[a - 1]]
  /\ hist' = [a \in 0..LongWindow |-> IF a = 0 THEN 0 ELSE hist[a - 1]]
  /\ peer' = [peer EXCEPT !.block = IF @ > 0 /\ @ # Day THEN @ - 1 ELSE @]
  /\ UNCHANGED flight

(* The peer sends nothing for a day or more. *)
Quiet ==
  /\ \A s \in Stages : flight[s] = 0
  /\ reqs' = [a \in Ages |-> IF a = Stale THEN LongCount(reqs) + reqs[Stale] ELSE 0]
  /\ hist' = [a \in 0..LongWindow |-> 0]
  /\ peer' = [peer EXCEPT !.block = IF @ = NoBlock THEN @ ELSE 0]
  /\ UNCHANGED flight

Next == Arrive \/ CheckRateLimit \/ InnerValidate \/ RecordViolationStep \/ Tick \/ Quiet

Spec == Init /\ [][Next]_vars

-----------------------------------------------------------------------------
TypeOK ==
  /\ reqs \in [Ages -> 0..MaxRequestsPerHour]
  /\ peer \in [level : Levels, violations : 0..ViolationCap,
               block : {NoBlock} \cup 0..Day, banned : BOOLEAN]
  /\ flight \in [Stages -> 0..MaxInFlight]
  /\ hist \in [0..LongWindow -> 0..MaxRequestsPerHour]

(* The limits RateLimitConfig promises: in no window of a short, medium   *)
(* or long window length do more requests pass the rate check than the   *)
(* suspicious threshold, max_requests_per_minute and max_requests_per_hour *)
(* allow, however the peer's requests interleave, whatever entries the    *)
(* deque still holds unpopped (_check_rate_limit's pops and counts).      *)
AcceptWithinLimits ==
  /\ InWindow(hist, 1) * 10 <= MaxRequestsPerSecond * SUSPICIOUS_THRESHOLD + 10
  /\ InWindow(hist, MediumWindow) <= MaxRequestsPerMinute
  /\ SumTo(hist, LongWindow) <= MaxRequestsPerHour

(* The blocks of _block_peer are temporary ("Block peer temporarily"):    *)
(* when a peer that is not IP-banned comes back after its block ran out  *)
(* and with no request of it left in any window, its next request passes *)
(* the rate check.                                                          *)
Quiescent == /\ \A a \in 0..LongWindow : reqs[a] = 0
             /\ peer.block <= 0 /\ ~peer.banned

BlockIsTemporary ==
  [][Quiescent /\ flight'["check"] = flight["check"] - 1
       => flight'["inner"] = flight["inner"] + 1]_vars
=============================================================================
