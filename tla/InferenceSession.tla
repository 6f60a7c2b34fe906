-------------------------- MODULE InferenceSession --------------------------
(***************************************************************************)
(* The client side of an inference stream: Session.run_protocol_task of   *)
(* session.py, over the sessions SessionManager.session opens and closes. *)
(*                                                                         *)
(* One Session makes calls one after another.  A call is an async         *)
(* generator with a retry loop: each attempt picks a server (RemoteManager *)
(* .make_sequence, kept in _server_session across calls), sends the       *)
(* request with the local `tensor`, and yields the tensors the server     *)
(* streams back.  Any Exception in the attempt is reported to             *)
(* on_request_failure and retried until the retry bound.  The caller may  *)
(* stop iterating at a yield (GeneratorExit is not an Exception).         *)
(*                                                                         *)
(* Tensors are abstracted to where they come from: the caller's input or  *)
(* a tensor a server produced.  RemoteManager is not in the repository:   *)
(* make_sequence is any server or an exception, get_retry_delay and the   *)
(* sleep only pass time, which nothing here reads.                         *)
(***************************************************************************)
EXTENDS Naturals, Sequences

CONSTANTS
  Servers,            \* the servers make_sequence may return
  None,               \* the peer reported when no server was chosen
  MaxRetries,         \* run_protocol_task's max_retries argument (default 4)
  ConfigMaxRetries,   \* remote_manager.config.max_retries
  MaxTokens,          \* tensors a server streams for one request (bound)
  MaxCalls            \* calls the caller makes over all its sessions (bound)

Caller == "caller_tensor"    \* the tensor passed to run_protocol_task
Output == "output_tensor"    \* a tensor deserialized from a response

VARIABLES
  pc,             \* "closed", "idle", "try", "call", "stream"
  attempt,        \* attempt_no
  tensor,         \* the generator's local `tensor`
  serverSession,  \* self._server_session (None before the first pick)
  server,         \* the local server_session of the attempt
  streamed,       \* tensors of the current response stream so far
  calls,          \* calls made so far
  sent,           \* every request sent: [to, tensor]
  received,       \* every tensor yielded to the caller, in order
  reported        \* every peer passed to on_request_failure, in order

vars == <<pc, attempt, tensor, serverSession, server, streamed, calls, sent, received, reported>>

TypeOK ==
  /\ pc \in {"closed", "idle", "try", "call", "stream"}
  /\ attempt \in 0..MaxRetries
  /\ tensor \in {Caller, Output}
  /\ serverSession \in Servers \cup {None}
  /\ server \in Servers \cup {None}
  /\ streamed \in 0..MaxTokens
  /\ calls \in 0..MaxCalls
  /\ sent \in Seq([to : Servers, tensor : {Caller, Output}])
  /\ received \in Seq({Output})
  /\ reported \in Seq(Servers \cup {None})

Init ==
  /\ pc = "closed"
  /\ attempt = 0 /\ tensor = Caller
  /\ serverSession = None /\ server = None /\ streamed = 0
  /\ calls = 0 /\ sent = <<>> /\ received = <<>> /\ reported = <<>>

(* SessionManager.session: a new Session, _server_session = None. *)
OpenSession ==
  /\ pc = "closed"
  /\ pc' = "idle" /\ serverSession' = None
  /\ UNCHANGED <<attempt, tensor, server, streamed, calls, sent, received, reported>>

(* SessionManager.session's finally: await session.close(). *)
CloseSession ==
  /\ pc = "idle"
  /\ pc' = "closed"
  /\ UNCHANGED <<attempt, tensor, serverSession, server, streamed, calls, sent, received, reported>>

(* run_protocol_task(prompt, tensor) starts: attempt_no = 0. *)
Begin ==
  /\ pc = "idle" /\ calls < MaxCalls
  /\ pc' = "try" /\ calls' = calls + 1
  /\ attempt' = 0 /\ tensor' = Caller
  /\ UNCHANGED <<serverSession, server, streamed, sent, received, reported>>

NeedsServer == serverSession = None \/ attempt >= 1

(* The top of the try: server_session = None, _update_server when there  *)
(* is no server or this is a retry, then server_session = the session's. *)
PickServer ==
  /\ pc = "try"
  /\ \E s \in IF NeedsServer THEN Servers ELSE {serverSession} :
       /\ serverSession' = s /\ server' = s
  /\ pc' = "call"
  /\ UNCHANGED <<attempt, tensor, streamed, calls, sent, received, reported>>

(* get_server_stub, the request built from the local tensor, and         *)
(* await stub.rpc_inference_stream(input_stream).                        *)
SendRequest ==
  /\ pc = "call"
  /\ sent' = Append(sent, [to |-> server, tensor |-> tensor])
  /\ pc' = "stream" /\ streamed' = 0
  /\ UNCHANGED <<attempt, tensor, serverSession, server, calls, received, reported>>

(* tensor = deserialize_torch_tensor(tensor_bytes); yield tensor *)
Receive ==
  /\ pc = "stream" /\ streamed < MaxTokens
  /\ tensor' = Output
  /\ received' = Append(received, Output)
  /\ streamed' = streamed + 1
  /\ UNCHANGED <<pc, attempt, serverSession, server, calls, sent, reported>>

(* The stream ends: return. *)
Return ==
  /\ pc = "stream"
  /\ pc' = "idle"
  /\ UNCHANGED <<attempt, tensor, serverSession, server, streamed, calls, sent, received, reported>>

(* The caller stops iterating at a yield: GeneratorExit is not caught. *)
Abandon ==
  /\ pc = "stream" /\ streamed > 0
  /\ pc' = "idle"
  /\ UNCHANGED <<attempt, tensor, serverSession, server, streamed, calls, sent, received, reported>>

(* attempt_no + 1 == config.max_retries or attempt_no + 1 >= max_retries *)
GivesUp == attempt + 1 = ConfigMaxRetries \/ attempt + 1 >= MaxRetries

(* The except branch: report the attempt's server (None if make_sequence *)
(* raised before server_session was set), then raise or retry.           *)
Failure(peer) ==
  /\ reported' = Append(reported, peer)
  /\ IF GivesUp
       THEN pc' = "idle" /\ attempt' = attempt
       ELSE pc' = "try" /\ attempt' = attempt + 1
  /\ UNCHANGED <<tensor, serverSession, calls, sent, received, streamed>>

(* make_sequence raises inside _update_server. *)
PickFails ==
  /\ pc = "try" /\ NeedsServer
  /\ server' = None
  /\ Failure(None)

(* get_server_stub, the rpc, or the stream raises. *)
CallFails ==
  /\ pc \in {"call", "stream"}
  /\ server' = server
  /\ Failure(server)

Next ==
  \/ OpenSession \/ CloseSession \/ Begin
  \/ PickServer \/ PickFails
  \/ SendRequest \/ Receive \/ Return \/ Abandon \/ CallFails

Spec == Init /\ [][Next]_vars

(* Spec section 6: rpc_inference_stream(prompt, tensor) runs inference on *)
(* the caller's tensor.  Every request run_protocol_task sends, the first *)
(* attempt's and every retry's, carries the tensor the caller passed in.  *)
RequestsCarryCallerTensor == \A i \in 1..Len(sent) : sent[i].tensor = Caller
=============================================================================
