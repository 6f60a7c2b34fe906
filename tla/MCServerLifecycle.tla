-------------------------- MODULE MCServerLifecycle --------------------------
(* Another server's "node" record as ServerInfo.to_tuple writes it, of an *)
(* ONLINE server.                                                        *)
EXTENDS ServerLifecycle

MCForeignValues == {<<2, "validator", 1, "extra_info">>}
=============================================================================
