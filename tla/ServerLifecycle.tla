--------------------------- MODULE ServerLifecycle ---------------------------
(***************************************************************************)
(* The server process as a whole: Server.run starts ModuleAnnouncerThread *)
(* (the heartbeat, module Heartbeat) and ConsensusThread, whose Consensus  *)
(* process runs the startup gates and run_forever (module SubnetStartup); *)
(* Server.shutdown stops both.  (src/mesh/subnet/server/server.py)        *)
(*                                                                         *)
(* The protocol process (MockProtocol, the template of the MathProtocol   *)
(* the server builds) is started without waiting for it to be ready.     *)
(* Its run waits on a pipe nobody writes to, so it never ends by itself.  *)
(*                                                                         *)
(* Server.shutdown is split where it waits: protocol.shutdown() joins the *)
(* protocol process for shutdown_timeout (3 s) and terminates it;          *)
(* ConsensusThread.shutdown sets the Consensus stop event and joins that  *)
(* process for 3 seconds, then, still alive, terminates it; then          *)
(* dht.shutdown() follows.  Each grace period is shorter than an          *)
(* update_period (60 s) and than an epoch, so neither passes while the    *)
(* main thread waits in a join.                                            *)
(***************************************************************************)
EXTENDS Naturals

CONSTANTS
  SlotMayFail,    \* get_subnet_slot may raise
  None,
  ForeignValues,  \* values other peers' "node" records may hold
  NotATuple

VARIABLES
  state, trigger, hbPc, sinceStart, record, annPc, mainPc, dhtUp, foreign,
  phase, slot, fresh, asleep, errorsCount, stop,
  protoPc   \* the protocol process: starting, serving, broken or terminated

hbVars == <<state, trigger, hbPc, sinceStart, record, annPc, mainPc, dhtUp, foreign>>
stVars == <<phase, slot, fresh, asleep, errorsCount, stop>>
vars == <<hbVars, stVars, protoPc>>

HB == INSTANCE Heartbeat

(* ConsensusThread(start=True) runs at once and builds                    *)
(* Consensus(..., skip_activate_subnet=False, start=True).                *)
ConsensusSkipActivate == FALSE

ST == INSTANCE SubnetStartup WITH SkipActivate <- ConsensusSkipActivate

(* MockProtocol(start=True): run_in_background ignores await_ready and    *)
(* only starts the process.                                                *)
ProtocolStarted == "starting"

(* Server.__init__ then Server.run: the protocol process, the announcer   *)
(* (and its heartbeat thread) and the consensus process are started.      *)
Init == HB!Init /\ ST!Init /\ protoPc = ProtocolStarted

-----------------------------------------------------------------------------
(* Consensus.shutdown after join(3): if self.is_alive(): terminate(). *)
Terminated(ph) == IF ph \in {"exited", "crashed"} THEN ph ELSE "terminated"

Heartbeat(A) == A /\ UNCHANGED <<stVars, protoPc>>
Consensus(A) == A /\ UNCHANGED <<hbVars, protoPc>>

(* MockProtocol.run: replicate_p2p and add_p2p_handlers behind the        *)
(* servicer wrapper, then ready; an exception is put into ready, which    *)
(* nobody reads.  Either way the process then waits on its stop event.    *)
ProtocolServe ==
  /\ protoPc = "starting"
  /\ protoPc' \in {"serving", "broken"}
  /\ UNCHANGED <<hbVars, stVars>>

(* Server.shutdown: stop.set(), then protocol.shutdown(): the process is  *)
(* alive, and the main thread waits in join(shutdown_timeout).            *)
StopProtocol ==
  /\ mainPc = "running"
  /\ mainPc' = "joinProtocol"
  /\ UNCHANGED <<state, trigger, hbPc, sinceStart, record, annPc, dhtUp, foreign, stVars, protoPc>>

(* ConsensusThread.shutdown: Consensus.shutdown; the validator is never  *)
(* set.                                                                    *)
ConsensusThreadShutdown == ST!Shutdown

(* join(shutdown_timeout) returns with the protocol process still alive  *)
(* and it is terminated; then ConsensusThread.shutdown sets the stop      *)
(* event and the main thread waits in join(3).                             *)
StopConsensus ==
  /\ mainPc = "joinProtocol"
  /\ mainPc' = "stopping"
  /\ protoPc' = "terminated"
  /\ ConsensusThreadShutdown
  /\ UNCHANGED <<state, trigger, hbPc, sinceStart, record, annPc, dhtUp, foreign>>

(* join(3) returns: a process still alive is terminated; then            *)
(* dht.shutdown() and dht.join().                                          *)
StopDht ==
  /\ mainPc = "stopping"
  /\ HB!ServerShutdown
  /\ phase' = Terminated(phase)
  /\ UNCHANGED <<slot, fresh, asleep, errorsCount, stop, protoPc>>

(* The heartbeat thread's time and the chain's epochs do not advance     *)
(* during the grace periods of the two joins.                              *)
NotJoining == mainPc \notin {"joinProtocol", "stopping"}

Next ==
  \/ Heartbeat(HB!Ping) \/ Heartbeat(HB!Declare) \/ Heartbeat(HB!Check) \/ Heartbeat(HB!Wake)
  \/ Heartbeat(HB!Clear) \/ Heartbeat(HB!AnnounceOnline)
  \/ \E v \in ForeignValues : Heartbeat(HB!StoreForeign(v))
  \/ Heartbeat(HB!Tick) /\ NotJoining
  \/ Consensus(ST!NewEpoch) /\ NotJoining
  \/ Consensus(ST!ActivateIteration) \/ Consensus(ST!ActivateStopped)
  \/ Consensus(ST!ValidatorIteration) \/ Consensus(ST!ForeverIteration)
  \/ ProtocolServe
  \/ StopProtocol \/ StopConsensus \/ StopDht

(* The threads and the process are scheduled, time and the chain go on    *)
(* outside join(3), and a started shutdown runs to its end; nothing       *)
(* forces the shutdown to start.                                           *)
Fairness ==
  /\ WF_vars(Heartbeat(HB!Ping)) /\ WF_vars(Heartbeat(HB!Declare)) /\ WF_vars(Heartbeat(HB!Check))
  /\ WF_vars(Heartbeat(HB!Wake)) /\ WF_vars(Heartbeat(HB!Clear))
  /\ WF_vars(Heartbeat(HB!AnnounceOnline)) /\ WF_vars(Heartbeat(HB!Tick) /\ NotJoining)
  /\ WF_vars(Consensus(ST!NewEpoch) /\ NotJoining)
  /\ WF_vars(Consensus(ST!ActivateIteration)) /\ WF_vars(Consensus(ST!ActivateStopped))
  /\ WF_vars(Consensus(ST!ValidatorIteration)) /\ WF_vars(Consensus(ST!ForeverIteration))
  /\ WF_vars(ProtocolServe) /\ WF_vars(StopConsensus) /\ WF_vars(StopDht)

Spec == Init /\ [][Next]_vars /\ Fairness

-----------------------------------------------------------------------------
TypeOK == HB!TypeOK /\ ST!TypeOK /\ protoPc \in {"starting", "serving", "broken", "terminated"}

HeartbeatFresh == HB!HeartbeatFresh

HeartbeatOutlivesForeignRecords == HB!HeartbeatOutlivesForeignRecords

OnlineEventuallyPublished == HB!OnlineEventuallyPublished
=============================================================================
