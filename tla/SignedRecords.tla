--------------------------- MODULE SignedRecords ---------------------------
(***************************************************************************)
(* The DHT record layer a POST passes through: SignatureValidator         *)
(* (src/mesh/dht/crypto.py, priority 10) and then the predicate validator *)
(* MockHypertensorCommitReveal, as one validating node runs them.         *)
(*                                                                         *)
(* A signature is abstracted to its signer and the content it covers, the *)
(* canonical serialization of (key, subkey, stripped value, expiration).  *)
(* Only the owner of a key makes signatures with it; anyone can copy a    *)
(* signature or a whole record it has seen.  A record's content is its    *)
(* key, the public key its subkey carries (the owner tag, None for none)  *)
(* and whether its expiration_time is within the family's bound.  The     *)
(* whitelisted keys are DHTIDs of fixed strings and carry no owner tag,   *)
(* so only the subkey can.                                                *)
(***************************************************************************)
EXTENDS CommitRevealSchema, Sequences

CONSTANT Writers   \* the peers whose own records are modelled (see Store)
ASSUME Writers \subseteq Peers

VARIABLES
  block, tracker, accepted,  \* the predicate validator (PredicateValidator)
  seen,      \* every record POSTed so far that passed the signature check:
             \* what any peer can replay (one that failed it fails again)
  authored,  \* authored[p]: the contents p signed with sign_value
  admitted,  \* history: [rec, ep] for every record the layer accepted
  lastPost   \* history: the last POST, its block and its verdict

PV == INSTANCE PredicateValidator

vars == <<block, tracker, accepted, seen, authored, admitted, lastPost>>

Content == [key : Keys, owner : Peers \cup {None}, exp : BOOLEAN]
Sig == [by : Peers, over : Content]
Record == [c : Content, sigs : Seq(Sig)]

(* _serialize_record(stripped_record) is injective on the content, so a   *)
(* signature verifies exactly when its signer is the key and it covers    *)
(* this content (public_key.verify).                                      *)
Verify(pk, sig, c) == sig.by = pk /\ sig.over = c

(* Mutant: only record.key is scanned for an owner tag. *)
PublicKeysKeyOnly(r) == {}

(* _PUBLIC_KEY_RE.findall over the key and the subkey. *)
PublicKeys(r) == {r.c.owner} \ {None}

(* SignatureValidator.validate: unprotected records pass; otherwise the   *)
(* value must hold exactly one [signature:...] tag, verified over the     *)
(* record with every signature tag stripped from its value.               *)
Validate(r) ==
  \/ PublicKeys(r) = {}
  \/ /\ Len(r.sigs) = 1
     /\ \E pk \in PublicKeys(r) : Verify(pk, r.sigs[1], r.c)

(* SignatureValidator.sign_value by the owner of the local key p: a       *)
(* record without p's tag is left as it is.                               *)
SignValue(p, c) ==
  IF p \in PublicKeys([c |-> c, sigs |-> <<>>])
    THEN [c |-> c, sigs |-> <<[by |-> p, over |-> c]>>]
    ELSE [c |-> c, sigs |-> <<>>]

TypeOK ==
  /\ PV!TypeOK
  /\ seen \subseteq Record
  /\ authored \in [Peers -> SUBSET Content]
  /\ admitted \subseteq [rec : Record, ep : Epochs]
  /\ lastPost \in {None} \cup [rec : Record, blk : Blocks, ok : BOOLEAN]

Init ==
  /\ PV!Init
  /\ seen = {} /\ authored = [p \in Peers |-> {}]
  /\ admitted = {} /\ lastPost = None

(* The composite validator: the signature check first, and the predicate *)
(* only for a record it lets through; the caller peer id is the subkey's *)
(* public key (None when it has none).                                    *)
PostRecord(r) ==
  LET ok == Validate(r) /\ Accepts(tracker, r.c.owner, r.c.key, r.c.exp, block)
  IN  /\ IF Validate(r)
           THEN PV!Post(r.c.owner, r.c.key, r.c.exp)
           ELSE UNCHANGED <<block, tracker, accepted>>
      /\ seen' = IF Validate(r) THEN seen \cup {r} ELSE seen
      /\ admitted' = IF ok THEN admitted \cup {[rec |-> r, ep |-> EpochOf(block)]}
                           ELSE admitted
      /\ lastPost' = [rec |-> r, blk |-> block, ok |-> ok]

Tick == PV!Tick /\ UNCHANGED <<seen, authored, admitted, lastPost>>

(* A peer stores its own record under its subkey: declare_node_sig and   *)
(* the consensus task's commits and reveals, signed by sign_value.  The  *)
(* task writes the keys of the epoch it runs in, and declare_node_sig a  *)
(* new heartbeat value each epoch (the node key of that epoch here).    *)
(* Each of those keys is written once: a second write of a key by its   *)
(* owner is refused by the quota like a replay, and only replays are     *)
(* needed to reach that.  The validator keeps one counter per signer and *)
(* never compares two signers, so the peers outside Writers only replay  *)
(* and forge.                                                             *)
CurrentKeys == {k \in Keys : k.fam \in Families /\ k.ep = EpochOf(block)}

Store(p, key, exp) ==
  LET c == [key |-> key, owner |-> p, exp |-> exp]
  IN  /\ \A d \in authored[p] : d.key # key
      /\ authored' = [authored EXCEPT ![p] = @ \cup {c}]
      /\ PostRecord(SignValue(p, c))

(* Any peer POSTs again a record it has seen, unchanged. *)
Replay(r) == PostRecord(r) /\ UNCHANGED authored

(* A peer a writes under the subkey of owner o: signed with its own key, *)
(* with a signature copied from a record it has seen, or with the copied *)
(* signature and its own one after it.  Contents the predicate refuses   *)
(* whoever signs them (another epoch's key, a too late expiration) are   *)
(* left out.                                                              *)
Forge(a, o, key, exp) ==
  LET c == [key |-> key, owner |-> o, exp |-> exp]
      own == [by |-> a, over |-> c]
  IN  /\ \E sigs \in {<<own>>} \cup {<<s>> : s \in {r.sigs[1] : r \in {x \in seen : x.sigs # <<>>}}}
                     \cup {<<s, own>> : s \in {r.sigs[1] : r \in {x \in seen : x.sigs # <<>>}}} :
           PostRecord([c |-> c, sigs |-> sigs])
      /\ UNCHANGED authored

Next ==
  \/ Tick
  \/ \E p \in Writers, k \in CurrentKeys, x \in BOOLEAN : Store(p, k, x)
  \/ \E r \in seen : Replay(r)
  \/ \E a \in Peers, o \in Writers, k \in CurrentKeys : a # o /\ Forge(a, o, k, TRUE)

Spec == Init /\ [][Next]_vars

-----------------------------------------------------------------------------
StoreQuota == PV!StoreQuota
PhaseOrder == PV!PhaseOrder

(* Spec section 4.2: only the owner of a public key can change a record  *)
(* that names it.  Whenever the layer accepts a record under a subkey    *)
(* owned by o, o itself signed that content with sign_value, whatever    *)
(* others replay, copy or append (SignatureValidator.validate, run before *)
(* the predicate, which charges the quota to the subkey's owner).         *)
OwnerOnlyWrites ==
  [][LET x == lastPost'
     IN  x # None /\ x.ok /\ x.rec.c.owner # None => x.rec.c \in authored'[x.rec.c.owner]]_vars

(* Spec section 4.3: the predicate is idempotent for the same record     *)
(* within a phase.  A POST of a record the layer already accepted in     *)
(* this epoch, made while its family's window is still open, is accepted *)
(* again (__call__ counts every accepted POST in _peer_store_tracker).   *)
ReplayIdempotent ==
  LET r == lastPost.rec
      e == EpochOf(lastPost.blk)
  IN  lastPost # None
      /\ [rec |-> r, ep |-> e] \in admitted
      /\ InWindow(KeyType(r.c.key, e), lastPost.blk)
      => lastPost.ok
=============================================================================
