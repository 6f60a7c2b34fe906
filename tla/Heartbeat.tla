------------------------------ MODULE Heartbeat ------------------------------
(***************************************************************************)
(* The server's presence in the DHT: ModuleHeartbeatThread.run stores the *)
(* "node" record with server_info.state every update_period,               *)
(* ModuleAnnouncerThread announces JOINING, then ONLINE from its own       *)
(* thread, and Server.shutdown tears the DHT down.                         *)
(* (src/mesh/subnet/server/server.py)                                      *)
(*                                                                         *)
(* Time is counted in update_periods and kept relative: the record's       *)
(* remaining lifetime and the time since the loop's start_time, so that   *)
(* time can pass forever in a finite state space.  The body of the loop   *)
(* (pings and store) is assumed to take at most one update_period, the    *)
(* bound the loop warns about.  ModuleAnnouncerThread.shutdown, the only  *)
(* caller of announce(OFFLINE), is never called, so the state is never    *)
(* OFFLINE here; the branches that test for OFFLINE are kept as written.  *)
(***************************************************************************)
EXTENDS Integers, Sequences

CONSTANTS
  ForeignValues,  \* values other peers' "node" records may hold
  NotATuple       \* a stored value that is not a tuple (a list, a dict)

UPDATE_PERIOD == 1   \* update_period

(* Mutant: the record lives one period only. *)
ExpirationOnePeriod == UPDATE_PERIOD

(* Mutant: the expiration given in seconds on a clock kept in periods. *)
ExpirationSeconds == 2 * UPDATE_PERIOD * 60

(* expiration = max(2 * update_period, MAX_DHT_TIME_DISCREPANCY_SECONDS) *)
EXPIRATION == 2 * UPDATE_PERIOD

States == {"OFFLINE", "JOINING", "ONLINE"}

VARIABLES
  state,       \* server_info.state
  trigger,     \* ModuleHeartbeatThread.trigger (threading.Event)
  hbPc,        \* where the heartbeat thread is
  sinceStart,  \* time since start_time of the current iteration (capped)
  record,      \* the "node" record in the DHT: published state, remaining lifetime
  annPc,       \* ModuleAnnouncerThread.run: "start" or "done"
  mainPc,      \* the main thread: running or down (or in a join of Server.shutdown)
  dhtUp,       \* the DHT process is running
  foreign      \* the values of other peers' "node" records

vars == <<state, trigger, hbPc, sinceStart, record, annPc, mainPc, dhtUp, foreign>>

NoRecord == [st |-> "none", left |-> -1]

(* ServerState: OFFLINE = 0, JOINING = 1, ONLINE = 2 *)
ServerStateValue == [s \in States |-> CASE s = "OFFLINE" -> 0 [] s = "JOINING" -> 1 [] s = "ONLINE" -> 2]

(* Mutant: to_tuple leaves out extra_info. *)
ToTupleNoExtra(s) == <<ServerStateValue[s], "validator", 1>>

(* ServerInfo.to_tuple: (state.value, role.value, throughput, extra_info) *)
ToTuple(s) == <<ServerStateValue[s], "validator", 1, "extra_info">>

(* ServerInfo.from_tuple raises: a TypeError for a value that is not a    *)
(* tuple; a ValueError when source[:3] has fewer than three items; an     *)
(* IndexError for source[3] when len(source) is 3 (the guard is           *)
(* len(source) > 2); a ValueError from ServerState(state) for an unknown  *)
(* state value.                                                            *)
FromTupleRaises(v) ==
  \/ v = NotATuple
  \/ Len(v) < 3
  \/ Len(v) > 2 /\ Len(v) < 4
  \/ v[1] \notin {ServerStateValue[s] : s \in States}

(* declare_node_sig: node.store of server_info.to_tuple() under the       *)
(* "node" key, subkey peer id + public key, with the given expiration.    *)
DeclareNodeSig(s, expiration) == [st |-> s, left |-> expiration]

-----------------------------------------------------------------------------
(* ModuleHeartbeatThread.__init__: a new trigger Event, not set; start()  *)
(* puts the thread at the top of its loop.                                 *)
HeartbeatThreadStarted ==
  /\ trigger = FALSE
  /\ hbPc = "ping"
  /\ sinceStart = 0

(* Server.run has built ModuleAnnouncerThread: the state is JOINING, the  *)
(* heartbeat thread is started and so is the announcer's run thread.      *)
Init ==
  /\ state = "JOINING"
  /\ HeartbeatThreadStarted
  /\ record = NoRecord
  /\ annPc = "start"
  /\ mainPc = "running"
  /\ dhtUp = TRUE
  /\ foreign = {}

(* Mutant: the loop ends on any state but ONLINE. *)
LoopEndsNotOnline(s) == s # "ONLINE"

(* if self.server_info.state == ServerState.OFFLINE: break *)
LoopEnds(s) == s = "OFFLINE"

(* The values of the unexpired "node" records: this server's and another *)
(* peer's.                                                                  *)
StoredNodeValues ==
  (IF record.left >= 0 THEN {ToTuple(record.st)} ELSE {}) \cup foreign

(* get_node_infos_sig: dht.run_coroutine reads the "node" records and     *)
(* decodes each with ServerInfo.from_tuple.  It returns (TRUE) unless the *)
(* DHT is shut down or a record fails to decode; nothing catches either.  *)
GetNodeInfosSig ==
  /\ dhtUp
  /\ \A v \in StoredNodeValues : ~FromTupleRaises(v)

(* The loop's first step: when not OFFLINE, _ping_next_servers reads the  *)
(* "node" records and pings up to max_pinged of them, which only changes *)
(* next_pings; an exception ends the thread.                               *)
Ping ==
  /\ hbPc = "ping"
  /\ hbPc' = IF state # "OFFLINE" /\ ~GetNodeInfosSig THEN "exited" ELSE "declare"
  /\ UNCHANGED <<state, trigger, sinceStart, record, annPc, mainPc, dhtUp, foreign>>

(* declare_node_sig stores the state as it is now (announce may have      *)
(* changed it since the ping) with expiration_time = now + expiration.    *)
(* With the DHT shut down, run_coroutine raises and the thread dies.      *)
Declare ==
  /\ hbPc = "declare"
  /\ IF dhtUp
       THEN /\ record' = DeclareNodeSig(state, EXPIRATION)
            /\ hbPc' = "check"
       ELSE /\ hbPc' = "exited"
            /\ UNCHANGED record
  /\ UNCHANGED <<state, trigger, sinceStart, annPc, mainPc, dhtUp, foreign>>

(* The state is read again after the store. *)
Check ==
  /\ hbPc = "check"
  /\ hbPc' = IF LoopEnds(state) THEN "exited" ELSE "wait"
  /\ UNCHANGED <<state, trigger, sinceStart, record, annPc, mainPc, dhtUp, foreign>>

(* trigger.wait(max(delay, 0)) returns: the trigger is set, or the rest   *)
(* of the update_period since start_time has passed.                      *)
Wake ==
  /\ hbPc = "wait"
  /\ trigger \/ sinceStart >= UPDATE_PERIOD
  /\ hbPc' = "clear"
  /\ UNCHANGED <<state, trigger, sinceStart, record, annPc, mainPc, dhtUp, foreign>>

(* trigger.clear(), and the next iteration takes its start_time. *)
Clear ==
  /\ hbPc = "clear"
  /\ trigger' = FALSE
  /\ hbPc' = "ping"
  /\ sinceStart' = 0
  /\ UNCHANGED <<state, record, annPc, mainPc, dhtUp, foreign>>

(* announce(state): the state is set, then the trigger. *)
Announce(s) ==
  /\ state' = s
  /\ trigger' = TRUE

(* ModuleAnnouncerThread.run: announce(ONLINE). *)
AnnounceOnline ==
  /\ annPc = "start"
  /\ Announce("ONLINE")
  /\ annPc' = "done"
  /\ UNCHANGED <<hbPc, sinceStart, record, mainPc, dhtUp, foreign>>

(* Another peer's declare_node_sig stores its "node" record: a signed     *)
(* record under its own subkey, whose value no validator inspects.        *)
StoreForeign(v) ==
  /\ dhtUp
  /\ foreign' = foreign \cup {v}
  /\ UNCHANGED <<state, trigger, hbPc, sinceStart, record, annPc, mainPc, dhtUp>>

(* Server.shutdown: stop.set(), the protocols and consensus are shut down, *)
(* then dht.shutdown() and dht.join().  It does not call                  *)
(* module_container.shutdown().  (ServerLifecycle splits off the         *)
(* protocol and consensus parts, which pass mainPc through the joins.)    *)
ServerShutdown ==
  /\ mainPc # "down"
  /\ mainPc' = "down"
  /\ dhtUp' = FALSE
  /\ UNCHANGED <<state, trigger, hbPc, sinceStart, record, annPc, foreign>>

(* An update_period passes.  The heartbeat's body takes at most one       *)
(* period, the wait ends as soon as its timeout is reached, and the       *)
(* steps between the wait and the next start_time take no time.           *)
Tick ==
  /\ hbPc \in {"ping", "declare", "check"} => sinceStart < UPDATE_PERIOD
  /\ hbPc = "wait" => sinceStart < UPDATE_PERIOD /\ ~trigger
  /\ hbPc # "clear"
  /\ sinceStart' = IF sinceStart < UPDATE_PERIOD THEN sinceStart + 1 ELSE sinceStart
  /\ record' = IF record.left >= 0 THEN [record EXCEPT !.left = @ - 1] ELSE record
  /\ UNCHANGED <<state, trigger, hbPc, annPc, mainPc, dhtUp, foreign>>

Next ==
  \/ Ping \/ Declare \/ Check \/ Wake \/ Clear
  \/ AnnounceOnline \/ ServerShutdown
  \/ \E v \in ForeignValues : StoreForeign(v)
  \/ Tick

(* The threads are scheduled and time passes; the shutdown is not forced. *)
Fairness ==
  /\ WF_vars(Ping) /\ WF_vars(Declare) /\ WF_vars(Check) /\ WF_vars(Wake) /\ WF_vars(Clear)
  /\ WF_vars(AnnounceOnline) /\ WF_vars(Tick)

Spec == Init /\ [][Next]_vars /\ Fairness

-----------------------------------------------------------------------------
TypeOK ==
  /\ state \in States
  /\ trigger \in BOOLEAN
  /\ hbPc \in {"ping", "declare", "check", "wait", "clear", "exited"}
  /\ sinceStart \in 0..UPDATE_PERIOD
  /\ record \in [st : States \cup {"none"}, left : -1..2 * UPDATE_PERIOD]
  /\ annPc \in {"start", "done"}
  /\ mainPc \in {"running", "joinProtocol", "stopping", "down"}   \* the joins: see ServerLifecycle
  /\ dhtUp \in BOOLEAN
  /\ foreign \subseteq ForeignValues

(* Spec section 4.8 and the sliding expiration of section 2: while the    *)
(* server runs and its heartbeat thread lives, its "node" record, once   *)
(* stored, never expires: the next store always comes before the last    *)
(* one's expiration_time, whatever the wake-ups by announce.             *)
HeartbeatFresh ==
  dhtUp /\ hbPc # "exited" /\ record.st # "none" => record.left >= 0

(* The ONLINE announcement reaches the DHT: once the state is ONLINE, a  *)
(* record saying ONLINE is stored unless the DHT is shut down first      *)
(* (the trigger set by announce, or the period's timeout, wakes the loop). *)
OnlineEventuallyPublished ==
  state = "ONLINE" ~> (record.st = "ONLINE" \/ ~dhtUp)

(* Spec sections 4.8 and 7: every update_period the node stores its     *)
(* announcement, and validation failures stay local and never surface    *)
(* to peers.  While the DHT runs, the heartbeat thread goes on,  *)
(* whatever value another peer stores in its own "node" record: reading  *)
(* the records in _ping_next_servers never ends the loop.                 *)
HeartbeatOutlivesForeignRecords == dhtUp => hbPc # "exited"
=============================================================================
