------------------------------ MODULE DonRoutes ------------------------------
(***************************************************************************)
(* The routes that answer for the validators: POST /api/don/consensus asks *)
(* the nodes over HTTP and signs with local keys when too few answer, POST *)
(* /api/record-don takes signatures from its caller when they check out    *)
(* and signs itself when they do not, and GET /api/don/nodes reports who   *)
(* is there (lib/donSigners.ts).                                           *)
(*                                                                         *)
(* A signature is the pair [by, over] of the key that made it and what was *)
(* hashed, a payload packed or typed; validators are numbers in the order  *)
(* of their addresses.  A node signs what it computed for itself           *)
(* (nodes/node_server.py), whatever it was asked to sign.                  *)
(***************************************************************************)
EXTENDS Integers, Sequences, FiniteSets, SequencesExt

CONSTANTS
    Nodes,       \* sequence of the endpoints: the key each node signs with
    Local,       \* sequence of the keys the web server derives for itself
    Others,      \* keys of nobody
    Messages,    \* report payloads of the requests
    Computed,    \* report payloads the nodes compute: of volatility 0 (oracle_node.py:61)
    Quorums,     \* values of "quorum" in a request
    MaxListed    \* bound: entries of the lists a caller sends

ASSUME DonRoutesAssumption ==
    /\ Nodes \in Seq(Nat) /\ Local \in Seq(Nat) /\ Others \subseteq Nat
    /\ IsInjective(Nodes) /\ IsInjective(Local)
    /\ Len(Nodes) = 3 /\ Len(Local) = 3
    /\ Quorums \subseteq Int

(* The request, [phase, over, format, quorum, replies], and its answer,
   [mode, signers, signatures, hash]. *)
VARIABLE don

(* The packed hash the contract recomputes, and the hash of the typed data. *)
Packed(m) == [format |-> "packed", payload |-> m]
Typed(m) == [format |-> "eip712", payload |-> m]

Signature(key, hashed) == [by |-> key, over |-> hashed]
Sign(keys, hashed) == [i \in DOMAIN keys |-> Signature(keys[i], hashed)]

(* What is no attestation: nothing yet, null, the answer of /health. *)
Unsigned(what) == [format |-> what, payload |-> CHOOSE m \in Messages : TRUE]
Waiting == Signature(0, Unsigned("waiting"))
NoReply == Signature(0, Unsigned("null"))

DonInit ==
    don = [phase |-> "arrived", over |-> CHOOSE m \in Messages : TRUE, format |-> "packed",
           quorum |-> 0, replies |-> <<Waiting, Waiting, Waiting>>,
           mode |-> "none", signers |-> <<>>, signatures |-> <<>>, hash |-> Unsigned("null")]

(* Sorted by address, whatever the case of its digits. *)
Ascending(keys) ==
    CHOOSE order \in [1..Cardinality(keys) -> keys] :
        \A i, j \in DOMAIN order : i < j => order[i] < order[j]

(* Math.min(3, Math.max(1, Math.round(quorum) || 2)) *)
ClampQuorum(q) == IF q = 0 THEN 2 ELSE IF q < 1 THEN 1 ELSE IF q > 3 THEN 3 ELSE q

-----------------------------------------------------------------------------
(* /api/don/consensus and /api/don/nodes                                     *)

(* 429, 400, 500. *)
DonRefuses ==
    /\ don.phase = "arrived"
    /\ don' = [don EXCEPT !.phase = "refused"]

AskNodes ==
    /\ don.phase = "arrived"
    /\ \E m \in Messages, q \in Quorums, f \in {"packed", "eip712"} :
          don' = [don EXCEPT !.phase = "asking", !.over = m, !.quorum = ClampQuorum(q), !.format = f]

AskHealth ==
    /\ don.phase = "arrived"
    /\ don' = [don EXCEPT !.phase = "health"]

Receive(i, reply) ==
    /\ don.replies[i] = Waiting
    /\ don' = [don EXCEPT !.replies[i] = reply]

(* The node fetches and scores for itself, and signs the result. *)
NodeAttests(i) ==
    /\ don.phase = "asking"
    /\ \E own \in Computed : Receive(i, Signature(Nodes[i], Packed(own)))

NodeReportsHealth(i) == don.phase = "health" /\ Receive(i, Signature(Nodes[i], Unsigned("health")))

(* An error status or the timeout. *)
NodeFails(i) == don.phase \in {"asking", "health"} /\ Receive(i, NoReply)

AllReplied == \A i \in 1..3 : don.replies[i] # Waiting

(* The nodes that answered, and the first of them in the order of the endpoints. *)
Responding == {i \in 1..3 : don.replies[i] # NoReply}
FirstResponding(quorum) ==
    {i \in Responding : Cardinality({j \in Responding : j < i}) < quorum}

DonAnswer(mode, signers, signatures, hash) ==
    don' = [don EXCEPT !.phase = "answered", !.mode = mode,
                       !.signers = signers, !.signatures = signatures, !.hash = hash]

EnoughNodes == Cardinality(Responding) >= don.quorum

(* The first quorum of the attestations, sorted by signer and passed on with
   the hash of the first; nothing in them is checked. *)
DistributedQuorum ==
    /\ don.phase = "asking" /\ AllReplied
    /\ EnoughNodes
    /\ LET attestations == {don.replies[i] : i \in FirstResponding(don.quorum)}
           signers == Ascending({a.by : a \in attestations})
           selected == [i \in DOMAIN signers |-> CHOOSE a \in attestations : a.by = signers[i]]
       IN DonAnswer("DISTRIBUTED", signers, selected, selected[1].over)

FirstLocal(quorum) == SubSeq(Local, 1, quorum)
LocalSigners(quorum) == Ascending(ToSet(FirstLocal(quorum)))

(* generateDONPackedQuorumSignatures: sorted for the contract. *)
LocalQuorum ==
    /\ don.phase = "asking" /\ AllReplied
    /\ ~EnoughNodes
    /\ don.format = "packed"
    /\ LET signers == LocalSigners(don.quorum)
           hash == Packed(don.over)
       IN DonAnswer("LOCAL", signers, Sign(signers, hash), hash)

(* generateDONQuorumSignatures: in the order of the keys, with no hash. *)
LocalTypedQuorum ==
    /\ don.phase = "asking" /\ AllReplied
    /\ ~EnoughNodes
    /\ don.format = "eip712"
    /\ LET signers == FirstLocal(don.quorum) IN
       DonAnswer("LOCAL_TYPED", signers, Sign(signers, Typed(don.over)), Unsigned("null"))

ClusterMode(live, rpcOnline) ==
    CASE live >= 2 -> "DISTRIBUTED_MULTI_NODE"
      [] live = 1 -> "PARTIAL_DISTRIBUTED"
      [] live = 0 /\ rpcOnline -> "LOCAL_DETERMINISTIC_FALLBACK"
      [] OTHER -> "NO_CONNECTIVITY"

(* The monitor: every node is listed under the local key of its place, for the
   field read of a live one's answer (signer_address) is not in it (address). *)
ClusterHealth ==
    /\ don.phase = "health" /\ AllReplied
    /\ \E rpcOnline \in BOOLEAN :
          DonAnswer(ClusterMode(Cardinality(Responding), rpcOnline), Local, <<>>, Unsigned("null"))

-----------------------------------------------------------------------------
(* /api/record-don                                                           *)

CallerKeys == ToSet(Local) \cup Others
Signatures == [by : CallerKeys, over : {Packed(m) : m \in Messages} \cup {Typed(m) : m \in Messages}]

(* A plausible slip: the entries are counted, not the signers. *)
VerifyCountingEntries(signers, signatures, hash, quorum) ==
    /\ Len(signers) = Len(signatures)
    /\ \A i \in DOMAIN signers :
          signatures[i] = Signature(signers[i], hash) /\ signers[i] \in ToSet(Local)
    /\ Len(signers) >= quorum

(* verifyDONQuorumSignatures: every entry checks out, and quorum different
   signers are among them. *)
Verify(signers, signatures, hash, quorum) ==
    /\ Len(signers) >= quorum /\ Len(signers) = Len(signatures)
    /\ \A i \in DOMAIN signers :
          signatures[i] = Signature(signers[i], hash) /\ signers[i] \in ToSet(Local)
    /\ Cardinality(ToSet(signers)) >= quorum

(* The lists a caller may send, what the other routes answered among them. *)
Lists == UNION {[1..n -> CallerKeys] \X [1..n -> Signatures] : n \in 0..MaxListed}

RecordDonAnswer(m, mode, signers, signatures) ==
    don' = [don EXCEPT !.phase = "answered", !.over = m, !.quorum = 2, !.mode = mode,
                       !.signers = signers, !.signatures = signatures]

TakeClientQuorum ==
    /\ don.phase = "arrived"
    /\ \E m \in Messages, lists \in Lists :
          /\ Verify(lists[1], lists[2], Packed(m), 2)
          /\ RecordDonAnswer(m, "client_verified", lists[1], lists[2])

(* What does not check out is replaced by signatures of the server's own. *)
GenerateQuorum ==
    /\ don.phase = "arrived"
    /\ \E m \in Messages, lists \in Lists :
          /\ ~Verify(lists[1], lists[2], Packed(m), 2)
          /\ RecordDonAnswer(m, "server_generated", LocalSigners(2), Sign(LocalSigners(2), Packed(m)))

DonNext ==
    \/ DonRefuses \/ AskNodes \/ AskHealth
    \/ \E i \in 1..3 : NodeAttests(i) \/ NodeReportsHealth(i) \/ NodeFails(i)
    \/ DistributedQuorum \/ LocalQuorum \/ LocalTypedQuorum \/ ClusterHealth
    \/ TakeClientQuorum \/ GenerateQuorum

DonSpec == DonInit /\ [][DonNext]_don

-----------------------------------------------------------------------------
Claims(modes) == don.phase = "answered" /\ don.mode \in modes

Modes == {"DISTRIBUTED", "LOCAL", "LOCAL_TYPED", "client_verified", "server_generated"}

(* Each entry of the answer is a signature of the signer beside it, a key of
   keys, over the hash. *)
SignedBy(keys, hash) ==
    \A i \in DOMAIN don.signers :
        don.signatures[i] = Signature(don.signers[i], hash) /\ don.signers[i] \in ToSet(keys)

(* An answer that claims a quorum names that many different validators, each
   with a signature of its own beside it, whichever nodes failed, in whatever
   order they answered and whatever the caller listed.  A distributed answer
   has attestations that nodes really gave, one each; every other one has local
   signatures over the payload asked for, in the format asked for.  The lists
   for the contract are strictly ascending, which the typed ones need not be. *)
QuorumIsGenuine ==
    Claims(Modes) =>
        /\ Len(don.signers) = Len(don.signatures)
        /\ Cardinality(ToSet(don.signers)) >= don.quorum
        /\ don.mode = "DISTRIBUTED" =>
              \A i \in DOMAIN don.signers : \E n \in 1..3 :
                 /\ don.signatures[i] = don.replies[n]
                 /\ don.signatures[i].by = don.signers[i] /\ don.signers[i] = Nodes[n]
        /\ don.mode = "LOCAL_TYPED" => SignedBy(Local, Typed(don.over))
        /\ don.mode \in {"LOCAL", "client_verified", "server_generated"} =>
              SignedBy(Local, Packed(don.over))
        /\ don.mode \notin {"client_verified", "LOCAL_TYPED"} =>
              \A i \in 1..(Len(don.signers) - 1) : don.signers[i] < don.signers[i + 1]

(* What the comments of the consensus route say of a distributed quorum: its
   signatures are those the contract verifies for the scores and the data hash
   that stand beside them in the answer.  They are not: each node signs what it
   computed itself. *)
DistributedQuorumIsOverTheScores ==
    Claims({"DISTRIBUTED"}) =>
        \A i \in DOMAIN don.signatures : don.signatures[i].over = Packed(don.over)
=============================================================================
