------------------------------ MODULE RpcExchange ------------------------------
(***************************************************************************)
(* Authenticated unary RPCs between peers: the client side of             *)
(* AuthRPCWrapperStreamer signs each request (sign_request) for the stub  *)
(* MathProtocol.get_stub built with service_public_key=None, and the      *)
(* servicer side admits it with SignatureAuthorizer.validate_request (the *)
(* authorizer MathProtocol is given by Server.run).  Each servicer has    *)
(* its own _recent_nonces.  A servicer in Relays is a peer that passes a  *)
(* request it received on to another servicer, as any peer holding a      *)
(* signed request can.  (src/mesh/utils/authorizers/auth.py,              *)
(* src/mesh/subnet/protocols/mock_protocol.py)                            *)
(*                                                                         *)
(* Time is get_dht_time() in units of 60 seconds, as in RpcAuth; the      *)
(* clocks agree.  Signatures are unforgeable, so a request can only be    *)
(* delivered as its client signed it.                                      *)
(***************************************************************************)
EXTENDS Naturals

CONSTANTS
  Clients,    \* peers calling rpc_* through a client stub
  Servicers,  \* peers serving rpc_* behind the servicer wrapper
  Relays,     \* servicers that pass received requests on
  Nonces,     \* secrets.token_bytes(8) draws
  MaxTime,    \* last time unit of the model
  None

ASSUME Relays \subseteq Servicers /\ MaxTime \in Nat \ {0}

MAX_CLIENT_SERVICER_TIME_DIFF == 1   \* timedelta(minutes=1)

(* MathProtocol.get_stub: AuthRPCWrapperStreamer(..., service_public_key=None) *)
StubServiceKey(s) == None

VARIABLES
  now,           \* get_dht_time()
  net,           \* requests on their way: [req, to]
  recentNonces,  \* recentNonces[s][n]: expiration in s's _recent_nonces (0: absent)
  accepted,      \* history: [req, by] for every request a servicer admitted
  called         \* history: [req, to] for every call a client made

vars == <<now, net, recentNonces, accepted, called>>

-----------------------------------------------------------------------------
(* do_validate_request at servicer s: the service key, when given, must   *)
(* be s's; the clocks within a minute; the nonce not in _recent_nonces.   *)
DoValidateRequest(s, r) ==
  /\ r.key = None \/ r.key = s
  /\ r.time - now <= MAX_CLIENT_SERVICER_TIME_DIFF
  /\ now - r.time <= MAX_CLIENT_SERVICER_TIME_DIFF
  /\ recentNonces[s][r.nonce] < now

Init ==
  /\ now = 1
  /\ net = {}
  /\ recentNonces = [s \in Servicers |-> [n \in Nonces |-> 0]]
  /\ accepted = {}
  /\ called = {}

Tick ==
  /\ now < MaxTime
  /\ now' = now + 1
  /\ UNCHANGED <<net, recentNonces, accepted, called>>

(* A client stub call of rpc_* on servicer s: sign_request stamps the     *)
(* time, a fresh nonce and the stub's service key, then the request is    *)
(* sent to s.                                                              *)
Call(c, s, n) ==
  LET m == [req |-> [client |-> c, nonce |-> n, time |-> now, key |-> StubServiceKey(s)], to |-> s]
  IN  /\ \A k \in called : k.req.nonce # n
      /\ net' = net \cup {m}
      /\ called' = called \cup {m}
      /\ UNCHANGED <<now, recentNonces, accepted>>

(* The servicer wrapper: validate_request; a valid request's nonce is     *)
(* stored for three minutes and the handler runs (its answer is signed by *)
(* sign_response); an invalid one is answered with nothing.               *)
Serve(m) ==
  LET s == m.to
      r == m.req
  IN  /\ net' = net \ {m}
      /\ IF DoValidateRequest(s, r)
           THEN /\ recentNonces' = [recentNonces EXCEPT ![s][r.nonce] = now + MAX_CLIENT_SERVICER_TIME_DIFF * 3]
                /\ accepted' = accepted \cup {[req |-> r, by |-> s]}
           ELSE UNCHANGED <<recentNonces, accepted>>
      /\ UNCHANGED <<now, called>>

(* A relay that admitted a request sends the same signed request on to   *)
(* another servicer.                                                       *)
Relay(a, s) ==
  /\ a.by \in Relays /\ s # a.by
  /\ net' = net \cup {[req |-> a.req, to |-> s]}
  /\ UNCHANGED <<now, recentNonces, accepted, called>>

Next ==
  \/ Tick
  \/ \E c \in Clients, s \in Servicers, n \in Nonces : Call(c, s, n)
  \/ \E m \in net : Serve(m)
  \/ \E a \in accepted, s \in Servicers : Relay(a, s)

Spec == Init /\ [][Next]_vars

-----------------------------------------------------------------------------
(* Spec section 3 (RequestAuthInfo: a nonce is unique per peer and        *)
(* window) and invariant 3 (a validated request replayed within the       *)
(* window is refused): a signed request is admitted only by the servicer *)
(* its client called.  sign_request binds the service key only when the   *)
(* stub has one, and the stubs are built with service_public_key=None.    *)
RequestBoundToServicer == \A a \in accepted : [req |-> a.req, to |-> a.by] \in called
=============================================================================
