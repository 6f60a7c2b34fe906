----------------------------- MODULE MCHeartbeat -----------------------------
(* Another peer's "node" record: as ServerInfo.to_tuple writes it, the     *)
(* three-item tuple of an older writer, or a value that is not a tuple.   *)
EXTENDS Heartbeat

MCForeignValues == {<<2, "validator", 1, "extra_info">>, <<2, "validator", 1>>, NotATuple}
=============================================================================
