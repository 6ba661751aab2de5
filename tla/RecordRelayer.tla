--------------------------- MODULE RecordRelayer ---------------------------
(***************************************************************************)
(* The gasless relayer: POST /api/record and /api/record-don of             *)
(* backend/app.py, the consensus round of backend/nodes/don_coordinator.py  *)
(* and the nodes that answer it (node_server.py, oracle_node.py), composed  *)
(* with the contract the relayer's transactions reach.                      *)
(*                                                                         *)
(* Each request runs in a thread of its own and all of them sign with one   *)
(* account, so what interleaves is: the shared table _recent_records, the   *)
(* account's nonce, the transaction pool and the blocks.  What an oracle    *)
(* measures is abstracted to whether it finds the requested scores and data *)
(* hash (agrees), and, on its own because of how it is signed, the          *)
(* volatility score.  One clock serves the backend and the blocks.          *)
(***************************************************************************)
EXTENDS RiskReports, Functions

CONSTANTS
  Requests,      \* the requests clients make
  RequestOf,     \* what each asks for: an [endpoint, message, volatility, valid] record;
                 \* valid says that data_hash is a 0x-prefixed 32-byte hash
  MaxRequests,   \* bound: requests the API receives
  Endpoints,     \* node_endpoints, each as the address its node signs with
  Measurements,  \* what a node may compute: [agrees, volatility] records
  Removable,     \* bound: the nodes the owner may come to remove
  MinQuorum,     \* min_quorum of gather_consensus
  Relayer,       \* the account of PRIVATE_KEY
  Cooldown,      \* RECORD_COOLDOWN
  Expiry         \* RECORD_COOLDOWN * 10

ASSUME RequestsAssumption ==
  RequestOf \in [Requests -> [endpoint : {"Record", "RecordDON"}, message : Messages,
                              volatility : Nat, valid : BOOLEAN]]
ASSUME MaxRequestsAssumption == MaxRequests \in Nat
(* Each node has a key of its own; the contract authorizes no account twice, and
   authorized the deployer first. *)
ASSUME EndpointsAssumption ==
  /\ Endpoints \in Seq(Accounts \ {Deployer})
  /\ IsInjective(Endpoints)
  /\ MinQuorum \in 1..Len(Endpoints)
ASSUME RemovableAssumption == Removable \subseteq Range(Endpoints)
ASSUME MeasurementsAssumption == Measurements \subseteq [agrees : BOOLEAN, volatility : Nat]
ASSUME RelayerAssumption == Relayer \in Accounts
ASSUME CooldownAssumption == Cooldown \in Nat /\ Expiry \in Nat /\ Expiry >= Cooldown

VARIABLES
  pc,            \* where the request's thread is
  degraded,      \* requests whose DON attempt failed: they run the fallback
  gathered,      \* the attestations the consensus round selected
  readTime,      \* time.time() as process_record read it
  nonce,         \* the transaction count the request read
  response,      \* what the client was told
  totalRecords,  \* the counter the statistics publish
  recentRecords, \* _recent_records: when an asset was last recorded, or Never
  mempool,       \* the relayer's transactions that wait for a block (external)
  receipts,      \* the relayer's mined transactions in nonce order (external)
  lost           \* history variable: requests whose broadcast got no answer

threadVars == <<pc, degraded, gathered, readTime, nonce, response>>
relayVars == <<threadVars, totalRecords, recentRecords, mempool, receipts, lost>>
contractVars == <<registryVars, repositoryVars>>
systemVars == <<contractVars, relayVars>>

Never == -1
Stranger == 0    \* what a signature over another message recovers to

Attestation == [signer : Range(Endpoints), computed : Measurements]

Kind(r) == IF RequestOf[r].endpoint = "RecordDON" /\ r \notin degraded THEN "MultiSigned" ELSE "Direct"

Transaction ==
  [request : Requests, kind : {"MultiSigned", "Direct"}, attestations : Seq(Attestation), nonce : Nat]

RelayTypeOK ==
  /\ pc \in [Requests -> {"Idle", "Gather", "Clock", "Check", "Mark", "Nonce", "Send", "Done"}]
  /\ degraded \subseteq {r \in Requests : RequestOf[r].endpoint = "RecordDON"}
  /\ gathered \in [Requests -> Seq(Attestation)]
  /\ \A r \in Requests : Len(gathered[r]) \in {0, MinQuorum}
  /\ readTime \in [Requests -> 0..MaxTime]
  /\ nonce \in [Requests -> Nat]
  /\ response \in [Requests -> {"None", "Quorum", "Degraded", "Single", "TooMany", "Error"}]
  /\ totalRecords \in 0..(2 * MaxRequests)
  /\ recentRecords \in [Assets -> 0..MaxTime \cup {Never}]
  /\ mempool \subseteq Transaction
  /\ receipts \in Seq([request : Requests, kind : {"MultiSigned", "Direct"}, recorded : BOOLEAN])
  /\ lost \subseteq Requests

(* The contract once the owner has authorized every node. *)
RelayInit ==
  /\ owner = Deployer /\ oracleSigner = ZeroAddress /\ blockProver \in Provers /\ paused = FALSE
  /\ requiredOracleQuorum = 2
  /\ authorizedOracles = <<Deployer>> \o Endpoints
  /\ isAuthorizedOracle = Range(authorizedOracles)
  /\ RepositoryInit
  /\ pc = [r \in Requests |-> "Idle"] /\ degraded = {}
  /\ gathered = [r \in Requests |-> <<>>]
  /\ readTime = [r \in Requests |-> 0] /\ nonce = [r \in Requests |-> 0]
  /\ response = [r \in Requests |-> "None"]
  /\ totalRecords = 0 /\ recentRecords = [a \in Assets |-> Never]
  /\ mempool = {} /\ receipts = <<>> /\ lost = {}

-----------------------------------------------------------------------------
(* How a thread ends or goes on. *)
Goto(r, label) == pc' = [pc EXCEPT ![r] = label]

Answer(r, what) == Goto(r, "Done") /\ response' = [response EXCEPT ![r] = what]

(* A plausible slip: whatever the relayer call meets, it tries again. *)
FailRetrying(r) == Goto(r, "Nonce") /\ UNCHANGED <<degraded, response>>

(* An exception: the DON handler falls back to process_record, and process_record
   answers 500, which the DON handler passes on as its own 500. *)
Fail(r) ==
  IF Kind(r) = "MultiSigned"
    THEN degraded' = degraded \cup {r} /\ Goto(r, "Clock") /\ UNCHANGED response
    ELSE Answer(r, "Error") /\ UNCHANGED degraded

(* A plausible slip: the answer names the endpoint that was called, not what the
   fallback did. *)
AnswerByEndpoint(r) ==
  /\ Answer(r, IF RequestOf[r].endpoint = "RecordDON" THEN "Quorum" ELSE "Single")
  /\ UNCHANGED degraded

(* A plausible slip: the DON handler runs into its fallback after a success. *)
SucceedFallingThrough(r) ==
  IF Kind(r) = "MultiSigned"
    THEN degraded' = degraded \cup {r} /\ Goto(r, "Clock") /\ UNCHANGED response
    ELSE Answer(r, "Degraded") /\ UNCHANGED degraded

(* The answer as soon as the pool has taken the transaction. *)
Succeed(r) ==
  /\ Answer(r, CASE Kind(r) = "MultiSigned" -> "Quorum"
                 [] r \in degraded -> "Degraded"
                 [] OTHER -> "Single")
  /\ UNCHANGED degraded

(* The handlers' entry: only the DON handler checks the hash before anything else. *)
Receive(r) ==
  /\ pc[r] = "Idle"
  /\ Cardinality({q \in Requests : pc[q] # "Idle"}) < MaxRequests
  /\ CASE RequestOf[r].endpoint = "Record" -> Goto(r, "Clock") /\ UNCHANGED response
       [] RequestOf[r].endpoint = "RecordDON" /\ RequestOf[r].valid -> Goto(r, "Gather") /\ UNCHANGED response
       [] OTHER -> Answer(r, "Error")
  /\ totalRecords' = totalRecords + (IF RequestOf[r].endpoint = "RecordDON" THEN 1 ELSE 0)
  /\ UNCHANGED <<degraded, gathered, readTime, nonce, recentRecords, mempool, receipts, lost>>

-----------------------------------------------------------------------------
(* The nodes that count: the first min_quorum of those that answered, in endpoint
   order. *)
Selected(responding) ==
  {k \in responding : Cardinality({j \in responding : j < k}) < MinQuorum}

(* A plausible slip: the sort is left out. *)
InEndpointOrder(order) == \A i, j \in DOMAIN order : i < j => order[i] < order[j]

(* The order in which the attestations go to the contract. *)
SortedBySigner(order) ==
  \A i, j \in DOMAIN order : i < j => Endpoints[order[i]] < Endpoints[order[j]]

AnswerOf(k, computed) == [signer |-> Endpoints[k], computed |-> computed[k]]

(* gather_consensus: a node that times out, is down or refuses has no answer, and
   what the others compute is theirs to choose; fewer than min_quorum answers
   raise. *)
GatherConsensus(r) ==
  /\ pc[r] = "Gather"
  /\ \E responding \in SUBSET DOMAIN Endpoints :
       IF Cardinality(responding) < MinQuorum
         THEN Fail(r) /\ UNCHANGED gathered
         ELSE \E computed \in [Selected(responding) -> Measurements],
                 order \in [1..MinQuorum -> Selected(responding)] :
                /\ SortedBySigner(order)
                /\ gathered' = [gathered EXCEPT ![r] =
                                  [i \in 1..MinQuorum |-> AnswerOf(order[i], computed)]]
                /\ Goto(r, "Nonce")
                /\ UNCHANGED <<degraded, response>>
  /\ UNCHANGED <<readTime, nonce, totalRecords, recentRecords, mempool, receipts, lost>>

(* process_record counts the request, also when it is the fallback of one that
   was counted before, reads the clock, drops entries that expired ... *)
ReadClock(r) ==
  /\ pc[r] = "Clock"
  /\ totalRecords' = totalRecords + 1
  /\ readTime' = [readTime EXCEPT ![r] = now]
  /\ recentRecords' = [a \in Assets |-> IF recentRecords[a] # Never /\ now - recentRecords[a] > Expiry
                                          THEN Never ELSE recentRecords[a]]
  /\ Goto(r, "Check")
  /\ UNCHANGED <<degraded, gathered, nonce, response, mempool, receipts, lost>>

(* ... looks the asset up ... *)
CheckCooldown(r) ==
  /\ pc[r] = "Check"
  /\ LET last == recentRecords[RequestOf[r].message.asset]
     IN  IF last # Never /\ readTime[r] - last < Cooldown
           THEN Answer(r, IF r \in degraded THEN "Error" ELSE "TooMany")
           ELSE Goto(r, "Mark") /\ UNCHANGED response
  /\ UNCHANGED <<degraded, gathered, readTime, nonce, totalRecords, recentRecords, mempool, receipts, lost>>

(* ... and marks it, before it looks at the hash; a mark is never taken back. *)
MarkRecord(r) ==
  /\ pc[r] = "Mark"
  /\ recentRecords' = [recentRecords EXCEPT ![RequestOf[r].message.asset] = readTime[r]]
  /\ readTime' = [readTime EXCEPT ![r] = 0]
  /\ IF RequestOf[r].valid THEN Goto(r, "Nonce") /\ UNCHANGED response ELSE Answer(r, "Error")
  /\ UNCHANGED <<degraded, gathered, nonce, totalRecords, mempool, receipts, lost>>

(* A plausible slip: transactions that wait are counted as if mined. *)
CountWithPending == Len(receipts) + Cardinality(mempool)

(* get_transaction_count at the default block, "latest". *)
TransactionCount == Len(receipts)

ReadNonce(r) ==
  /\ pc[r] = "Nonce"
  /\ \/ nonce' = [nonce EXCEPT ![r] = TransactionCount] /\ Goto(r, "Send")
        /\ UNCHANGED <<degraded, response>>
     \/ Fail(r) /\ UNCHANGED nonce                                 \* the RPC call fails
  /\ UNCHANGED <<gathered, readTime, totalRecords, recentRecords, mempool, receipts, lost>>

TransactionOf(r) ==
  [request |-> r, kind |-> Kind(r), nonce |-> nonce[r],
   attestations |-> IF Kind(r) = "MultiSigned" THEN gathered[r] ELSE <<>>]

(* The pool takes a transaction whose nonce is not used up; one that waits with
   the same nonce is replaced. *)
PoolTakes(tx) ==
  /\ tx.nonce >= Len(receipts)
  /\ mempool' = {t \in mempool : t.nonce # tx.nonce} \cup {tx}

(* send_raw_transaction: taken and answered, taken but the answer is lost, or
   not taken (nonce too low, price too low for a replacement, no connection).
   The thread's locals are of no use after it. *)
SendRawTransaction(r) ==
  /\ pc[r] = "Send"
  /\ \/ PoolTakes(TransactionOf(r)) /\ Succeed(r) /\ UNCHANGED lost
     \/ PoolTakes(TransactionOf(r)) /\ Fail(r) /\ lost' = lost \cup {r}
     \/ Fail(r) /\ UNCHANGED <<mempool, lost>>
  /\ gathered' = [gathered EXCEPT ![r] = <<>>]
  /\ nonce' = [nonce EXCEPT ![r] = 0]
  /\ UNCHANGED <<readTime, totalRecords, recentRecords, receipts>>

ThreadStep(r) ==
  \/ GatherConsensus(r) \/ ReadClock(r) \/ CheckCooldown(r) \/ MarkRecord(r)
  \/ ReadNonce(r) \/ SendRawTransaction(r)

-----------------------------------------------------------------------------
(* What the relayer submits, and what a node signs: OracleNodeRunner looks the
   volatility up under a key the computed scores do not have, and signs 0. *)
Submitted(r) == [agrees |-> TRUE, volatility |-> RequestOf[r].volatility]

SignedBy(attestation) == [agrees |-> attestation.computed.agrees, volatility |-> 0]

Signers(tx) == [k \in DOMAIN tx.attestations |-> tx.attestations[k].signer]

Recovered(tx) ==
  [k \in DOMAIN tx.attestations |->
     IF SignedBy(tx.attestations[k]) = Submitted(tx.request)
       THEN tx.attestations[k].signer ELSE Stranger]

(* The contract lets the call through: the guards of saveRiskReportMultiSigned
   and of saveRiskReportWithDigest. *)
CallSucceeds(tx) ==
  /\ ~paused
  /\ Acceptable(RequestOf[tx.request].message)
  /\ IF tx.kind = "MultiSigned"
       THEN /\ Len(Signers(tx)) >= requiredOracleQuorum
            /\ SortedAndUnique(Signers(tx))
            /\ \A k \in DOMAIN Signers(tx) :
                 MayAttest(Signers(tx)[k]) /\ Recovered(tx)[k] = Signers(tx)[k]
       ELSE MayAttest(Relayer)

(* A block takes the account's next transaction; one that reverts uses up its
   nonce all the same. *)
Mine(tx) ==
  /\ tx.nonce = Len(receipts)
  /\ mempool' = mempool \ {tx}
  /\ receipts' = Append(receipts, [request |-> tx.request, kind |-> tx.kind,
                                 recorded |-> CallSucceeds(tx)])
  /\ \/ tx.kind = "MultiSigned"
        /\ SaveRiskReportMultiSigned(Relayer, RequestOf[tx.request].message, Signers(tx), Recovered(tx))
     \/ tx.kind = "Direct" /\ SaveRiskReport(Relayer, RequestOf[tx.request].message)
     \/ ~CallSucceeds(tx) /\ UNCHANGED repositoryVars
  /\ UNCHANGED <<registryVars, threadVars, totalRecords, recentRecords, lost>>

(* Meanwhile the owner may stop the contract or remove a node. *)
OwnerStep ==
  /\ \/ Pause(owner) \/ Unpause(owner)
     \/ \E oracle \in Removable : DeauthorizeOracle(owner, oracle)
  /\ UNCHANGED <<repositoryVars, relayVars>>

RelayNext ==
  \/ \E r \in Requests : (Receive(r) \/ ThreadStep(r)) /\ UNCHANGED contractVars
  \/ \E tx \in mempool : Mine(tx)
  \/ OwnerStep
  \/ NextBlock /\ UNCHANGED <<registryVars, relayVars>>

(* A thread the server started runs on: every call it waits for has a timeout
   (25 s for a node, 10 s for the RPC provider). *)
RelaySpec ==
  /\ RelayInit /\ [][RelayNext]_systemVars
  /\ \A r \in Requests : WF_systemVars(ThreadStep(r) /\ UNCHANGED contractVars)

-----------------------------------------------------------------------------
RecordedFor(r) == {k \in DOMAIN receipts : receipts[k].request = r /\ receipts[k].recorded}

(* A request puts at most one report on the chain although it may submit twice,
   once with the quorum's signatures and once as the fallback.  The exception is
   a broadcast that was taken and whose answer got lost: then both may count. *)
RequestRecordsOnce == \A r \in Requests \ lost : Cardinality(RecordedFor(r)) <= 1

(* The client's answer and the chain agree on how a request was vouched for: the
   quorum answer goes with multi-signed transactions only, the degraded answer
   with single-signer ones only, and a refusal with none, in the pool or mined -
   and the statistics never claim fewer records than the relayer has on the chain
   or under way to it, lost answers and fallbacks included. *)
AnswersMatchTheChain ==
  /\ \A r \in Requests \ lost :
       LET kinds == {tx.kind : tx \in {t \in mempool : t.request = r}}
                      \cup {receipts[k].kind : k \in RecordedFor(r)}
       IN  /\ response[r] = "Quorum" => kinds \subseteq {"MultiSigned"}
           /\ response[r] \in {"Degraded", "Single"} => kinds \subseteq {"Direct"}
           /\ response[r] \in {"None", "TooMany", "Error"} => kinds = {}
  /\ totalRecords >= Cardinality({k \in DOMAIN receipts : receipts[k].recorded}) + Cardinality(mempool)

(* All requests share one account and read its count at the latest block, so the
   relayer never has two transactions waiting: the second of two concurrent
   requests is refused or takes the first one's place.  (With the types of all
   the variables.) *)
OneTransactionInFlight ==
  /\ RelayTypeOK
  /\ Cardinality(mempool) <= 1
  /\ \A tx \in mempool : tx.nonce = Len(receipts)

(* The transaction a step mines. *)
Mined(tx) == Len(receipts') = Len(receipts) + 1 /\ tx.nonce = Len(receipts)

ContractIsReady(tx) ==
  /\ ~paused /\ requiredOracleQuorum <= MinQuorum
  /\ Acceptable(RequestOf[tx.request].message)
  /\ \A k \in DOMAIN Signers(tx) : MayAttest(Signers(tx)[k])

SignedIsRecorded ==
  \A tx \in mempool :
    /\ tx.kind = "MultiSigned" /\ Mined(tx) /\ ContractIsReady(tx)
    /\ \A k \in DOMAIN tx.attestations : SignedBy(tx.attestations[k]) = Submitted(tx.request)
    => receipts'[Len(receipts')].recorded

(* What the coordinator assembles is what the contract checks: if the selected
   nodes signed the submitted scores, the contract is not paused, still knows the
   nodes and takes such a message at all, the call does not revert, whichever
   nodes answered. *)
SignedQuorumIsRecorded == [][SignedIsRecorded]_systemVars

(* Every request the server accepted is answered: threads that share the table,
   the nonce and the pool never wait for each other. *)
EveryRequestIsAnswered == \A r \in Requests : pc[r] # "Idle" ~> pc[r] = "Done"

AgreedIsRecorded ==
  \A tx \in mempool :
    /\ tx.kind = "MultiSigned" /\ Mined(tx) /\ ContractIsReady(tx)
    /\ \A k \in DOMAIN tx.attestations : tx.attestations[k].computed = Submitted(tx.request)
    => receipts'[Len(receipts')].recorded

(* don_coordinator.py:119 says a node "Verifies data_hash and score match" and
   signs: nodes that compute exactly the requested scores would make a quorum
   the contract accepts. *)
AgreeingQuorumIsRecorded == [][AgreedIsRecorded]_systemVars
=============================================================================
