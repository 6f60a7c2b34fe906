---------------------------- MODULE SubnetStartup ----------------------------
(***************************************************************************)
(* The consensus process from start to run_forever: Consensus._main_loop   *)
(* runs run_activate_subnet, then run_is_node_validator, then run_forever, *)
(* and shutdown() sets self.stop from outside (the server) or from        *)
(* run_activate_subnet itself.  (src/mesh/subnet/consensus/consensus.py)   *)
(*                                                                         *)
(* Each loop iteration reads the chain; an iteration in an epoch it has    *)
(* already handled only sleeps until the epoch ends (asyncio.sleep, or     *)
(* a wait_for on an event nothing sets; self.stop cuts neither short).  The *)
(* epochs themselves are not counted: what the loops compare is whether    *)
(* the chain is in an epoch they have not handled yet (current_epoch !=   *)
(* last_epoch).                                                             *)
(***************************************************************************)
EXTENDS Naturals

CONSTANTS
  SkipActivate,  \* Consensus(skip_activate_subnet=...)
  SlotMayFail,   \* get_subnet_slot may raise (TransientNetwork)
  None

ASSUME SkipActivate \in BOOLEAN /\ SlotMayFail \in BOOLEAN

MAX_ERRORS == 3        \* max_errors in run_activate_subnet

(* "terminated": killed by Consensus.shutdown (see ServerLifecycle). *)
Phases == {"activate", "validator", "forever", "exited", "crashed", "terminated"}

(* What get_subnet_slot returns: a slot, None, or an exception. *)
SlotReads == IF SlotMayFail THEN {"slot", None, "raise"} ELSE {"slot", None}

(* What get_formatted_subnet_info returns: a subnet in some state, or None. *)
InfoReads == {"Active", "Inactive", None}

VARIABLES
  phase,        \* where _main_loop is
  slot,         \* self.slot: None until get_subnet_slot answered
  fresh,        \* the chain is in an epoch the running loop has not handled
  asleep,       \* the loop sleeps until the end of the epoch
  errorsCount,  \* errors_count of run_activate_subnet
  stop          \* self.stop (mp.Event)

vars == <<phase, slot, fresh, asleep, errorsCount, stop>>

-----------------------------------------------------------------------------
Init ==
  /\ phase = IF SkipActivate THEN "validator" ELSE "activate"
  /\ slot = None
  /\ fresh = TRUE                       \* last_epoch = None
  /\ asleep = FALSE
  /\ errorsCount = 0
  /\ stop = FALSE

(* The chain enters a new epoch; a loop sleeping out the epoch wakes up. *)
NewEpoch ==
  /\ fresh' = TRUE
  /\ asleep' = FALSE
  /\ UNCHANGED <<phase, slot, errorsCount, stop>>

(* shutdown() called by the server: if not self.stop.is_set(), set it. *)
Shutdown ==
  /\ stop' = TRUE
  /\ UNCHANGED <<phase, slot, fresh, asleep, errorsCount>>

(* while not self.stop.is_set() *)
StopRequested == stop

(* errors_count > max_errors *)
TooManyErrors == errorsCount > MAX_ERRORS

(* The subnet info read of a new epoch in run_activate_subnet: None is    *)
(* counted in errors_count, and once errors_count > max_errors the       *)
(* process calls shutdown() and returns False; Active returns True;      *)
(* otherwise last_epoch = current_epoch and the loop sleeps the epoch out. *)
InfoStep(info) ==
  /\ CASE info = None /\ TooManyErrors ->
            /\ phase' = "exited" /\ stop' = TRUE
            /\ UNCHANGED <<fresh, asleep, errorsCount>>
       [] info = None ->
            /\ errorsCount' = errorsCount + 1
            /\ fresh' = FALSE /\ asleep' = TRUE
            /\ UNCHANGED <<phase, stop>>
       [] info = "Active" ->
            /\ phase' = "validator" /\ fresh' = TRUE
            /\ UNCHANGED <<asleep, errorsCount, stop>>
       [] info = "Inactive" ->
            /\ fresh' = FALSE /\ asleep' = TRUE
            /\ UNCHANGED <<phase, errorsCount, stop>>

(* One iteration of run_activate_subnet's loop.  While self.slot is None *)
(* it asks for the slot first: None means sleep a block and iterate again, *)
(* an exception is logged and the iteration goes on with no slot.        *)
ActivateIteration ==
  /\ phase = "activate" /\ ~StopRequested /\ ~asleep
  /\ \E s \in IF slot = None THEN SlotReads ELSE {"slot"} :
       \/ /\ s = None
          /\ UNCHANGED vars
       \/ /\ s # None
          /\ slot' = IF s = "slot" THEN "slot" ELSE slot
          /\ IF fresh
               THEN \E info \in InfoReads : InfoStep(info)
               ELSE /\ asleep' = TRUE
                    /\ UNCHANGED <<phase, fresh, errorsCount, stop>>

(* The loop condition of run_activate_subnet fails: it returns False and *)
(* _main_loop returns.                                                     *)
ActivateStopped ==
  /\ phase = "activate" /\ StopRequested /\ ~asleep
  /\ phase' = "exited"
  /\ UNCHANGED <<slot, fresh, asleep, errorsCount, stop>>

(* One iteration of run_is_node_validator.  get_subnet_epoch_data(self.slot) *)
(* comes first, and with no slot it raises a TypeError nothing catches.  *)
(* In a new epoch the node looks itself up among the Idle-class nodes;    *)
(* found, it goes on to run_forever.  A set stop event ends the loop,     *)
(* which returns True all the same.                                        *)
ValidatorIteration ==
  /\ phase = "validator" /\ ~asleep
  /\ IF StopRequested
       THEN /\ phase' = "forever"
            /\ UNCHANGED <<slot, fresh, asleep, errorsCount, stop>>
     ELSE IF slot = None
       THEN /\ phase' = "crashed"
            /\ UNCHANGED <<slot, fresh, asleep, errorsCount, stop>>
     ELSE IF fresh
       THEN \E found \in BOOLEAN :
              IF found THEN /\ phase' = "forever"
                            /\ UNCHANGED <<slot, fresh, asleep, errorsCount, stop>>
              ELSE /\ fresh' = FALSE /\ asleep' = TRUE
                   /\ UNCHANGED <<phase, slot, errorsCount, stop>>
     ELSE /\ asleep' = TRUE
          /\ UNCHANGED <<phase, slot, fresh, errorsCount, stop>>

(* One iteration of run_forever: the loop condition tests self.stop and  *)
(* _async_stop_event, which nothing ever sets.  The first iteration waits *)
(* the epoch out; a later one in a new epoch runs the epoch's consensus   *)
(* steps (module SubnetConsensus) and waits the rest of it out.  Both     *)
(* waits are wait_for(_async_stop_event, timeout=seconds_remaining), so   *)
(* self.stop is seen only when the epoch ends.                            *)
ForeverIteration ==
  /\ phase = "forever" /\ ~asleep
  /\ IF StopRequested
       THEN /\ phase' = "exited"
            /\ UNCHANGED <<slot, fresh, asleep, errorsCount, stop>>
       ELSE /\ fresh' = FALSE /\ asleep' = TRUE
            /\ UNCHANGED <<phase, slot, errorsCount, stop>>

Next ==
  \/ NewEpoch \/ Shutdown
  \/ ActivateIteration \/ ActivateStopped
  \/ ValidatorIteration \/ ForeverIteration

(* The event loop runs every ready coroutine, and the chain keeps making  *)
(* blocks.                                                                  *)
Fairness ==
  /\ WF_vars(NewEpoch)
  /\ WF_vars(ActivateIteration) /\ WF_vars(ActivateStopped)
  /\ WF_vars(ValidatorIteration) /\ WF_vars(ForeverIteration)

Spec == Init /\ [][Next]_vars /\ Fairness

-----------------------------------------------------------------------------
TypeOK ==
  /\ phase \in Phases
  /\ slot \in {None, "slot"}
  /\ fresh \in BOOLEAN /\ asleep \in BOOLEAN /\ stop \in BOOLEAN
  /\ errorsCount \in 0..(MAX_ERRORS + 1)
=============================================================================
