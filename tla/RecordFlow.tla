----------------------------- MODULE RecordFlow -----------------------------
(***************************************************************************)
(* Putting a report on chain from the page: useTransactionRecorder and     *)
(* ProofVerifier in the browser, the routes record, record-don,            *)
(* record-verified and tx-status behind them, and the chain.               *)
(*                                                                         *)
(* A flow is one click: a closure that keeps the report it was started     *)
(* with, while the panel it writes to is shared by all of them.  The       *)
(* routes broadcast with one relayer wallet and hide every failure of the  *)
(* broadcast behind the hash of an off-chain commitment.  A flow sends at  *)
(* most one transaction, which is named after it.                          *)
(***************************************************************************)
EXTENDS Integers, FiniteSets

CONSTANTS
    Flows,      \* clicks: 1, 2, ...
    Reports,    \* what the page may show: an address with its scores
    MaxPolls,   \* polls before the page gives up, 20 in the code
    NoHash,
    Digest      \* the hash of an off-chain commitment

ASSUME RecordFlowAssumption ==
    Flows \subseteq Nat /\ MaxPolls \in Nat \ {0} /\ Reports # {}

VARIABLES
    shown,    \* the report the page shows
    panel,    \* txStep, txHash, isOnchain and what the status line says
    proof,    \* the same of ProofVerifier: [busy, hash, onchain]
    flow,     \* flow -> [kind, stage, report, polls]
    job,      \* flow -> the request at the server: [stage, nonce, hash]
    txs       \* flow -> its transaction: [state, report, wallet, nonce]
recordVars == <<shown, panel, proof, flow, job, txs>>

Wallet  == {"direct", "certificate"}    \* signed in MetaMask

RecordInit ==
    /\ shown = CHOOSE r \in Reports : TRUE   \* whichever came first
    /\ panel = [txStep |-> 0, hash |-> NoHash, onchain |-> TRUE, says |-> "nothing"]
    /\ proof = [busy |-> FALSE, hash |-> NoHash, onchain |-> FALSE]
    /\ flow = [f \in Flows |-> [kind |-> "none", stage |-> "ready", report |-> shown, polls |-> 0]]
    /\ job = [f \in Flows |-> [stage |-> "none", nonce |-> 0, hash |-> NoHash]]
    /\ txs = [f \in Flows |-> [state |-> "none", report |-> shown, wallet |-> "none", nonce |-> 0]]

-----------------------------------------------------------------------------
(* The browser.                                                              *)

(* Another analysis replaces the report while flows are under way. *)
ShowAnother ==
    /\ shown' \in Reports \ {shown}
    /\ UNCHANGED <<panel, proof, flow, job, txs>>

(* A plausible slip: the buttons stay enabled. *)
AlwaysEnabled == TRUE

(* The buttons are disabled while 0 < txStep < 3. *)
Enabled == panel.txStep \notin {1, 2}

IsNext(f) == flow[f].stage = "ready" /\ \A g \in Flows : g < f => flow[g].stage # "ready"

Begin(f, k, stage) ==
    flow' = [flow EXCEPT ![f] = [kind |-> k, stage |-> stage, report |-> shown, polls |-> 0]]
Request(f) == job' = [job EXCEPT ![f].stage = "received"]
Show(step, says) == panel' = [panel EXCEPT !.txStep = step, !.says = says]

(* recordOnChain, or recordMultiSigned without an account: the relayer's route
   is asked. *)
SubmitGasless(f, k) ==
    /\ IsNext(f) /\ Enabled
    /\ Begin(f, k, "asked")
    /\ Request(f)
    /\ panel' = [panel EXCEPT !.txStep = 1, !.hash = NoHash, !.says = "submitting"]
    /\ UNCHANGED <<shown, proof, txs>>

(* Their buttons; the mode switch decides which of the two is shown. *)
SubmitRelayer(f) == SubmitGasless(f, "relayer")
SubmitDon(f)     == SubmitGasless(f, "don")

(* recordMultiSigned with an account asks /api/don/consensus for signatures. *)
SubmitDirect(f) ==
    /\ IsNext(f) /\ Enabled
    /\ Begin(f, "direct", "consensus")
    /\ panel' = [panel EXCEPT !.txStep = 1, !.hash = NoHash, !.says = "submitting"]
    /\ UNCHANGED <<shown, proof, job, txs>>

(* recordPoRCertificate opens the wallet at once; the old hash stays. *)
SubmitCertificate(f) ==
    /\ IsNext(f) /\ Enabled
    /\ Begin(f, "certificate", "signing")
    /\ Show(1, "submitting")
    /\ UNCHANGED <<shown, proof, job, txs>>

(* recordVerifiedOnChain has a button and a panel of its own. *)
SubmitVerified(f) ==
    /\ IsNext(f) /\ ~proof.busy
    /\ Begin(f, "verified", "asked")
    /\ Request(f)
    /\ proof' = [busy |-> TRUE, hash |-> NoHash, onchain |-> FALSE]
    /\ UNCHANGED <<shown, panel, txs>>

Ended(f) == [flow EXCEPT ![f].stage = "ended"]

(* catch: the panel says what went wrong. *)
Fails(f) ==
    /\ flow' = Ended(f)
    /\ IF flow[f].kind = "verified"
         THEN proof' = [proof EXCEPT !.busy = FALSE, !.onchain = FALSE] /\ UNCHANGED panel
         ELSE Show(0, "failed") /\ UNCHANGED proof
    /\ UNCHANGED <<shown, job, txs>>

RefusalArrives(f) ==
    /\ flow[f].stage = "asked" /\ job[f].stage = "refused"
    /\ Fails(f)

(* The connection fails; the server carries on. *)
RequestFails(f) ==
    /\ flow[f].stage \in {"asked", "consensus"}
    /\ Fails(f)

(* The route's answer: a transaction to wait for, or a digest. *)
AnswerArrives(f, k) ==
    /\ flow[f].stage = "asked" /\ flow[f].kind = k
    /\ job[f].stage = "answered"
    /\ panel' = [txStep |-> 2, hash |-> job[f].hash, onchain |-> job[f].hash # Digest,
                 says |-> "waiting"]
    /\ flow' = [flow EXCEPT ![f].stage = "polling"]
    /\ UNCHANGED <<shown, proof, job, txs>>

RelayerAnswerArrives(f) == AnswerArrives(f, "relayer")
DonAnswerArrives(f)     == AnswerArrives(f, "don")

VerifiedAnswerArrives(f) ==
    /\ flow[f].stage = "asked" /\ flow[f].kind = "verified"
    /\ job[f].stage = "answered"
    /\ proof' = [busy |-> FALSE, hash |-> job[f].hash, onchain |-> job[f].hash # Digest]
    /\ flow' = Ended(f)
    /\ UNCHANGED <<shown, panel, job, txs>>

(* GET /api/tx-status: the receipt, else the mempool, else, when the query says
   that the hash is a digest, its word for it. *)
StatusOf(f) ==
    IF job[f].hash = Digest THEN "attestation_verified"
    ELSE CASE txs[f].state = "mined" -> "confirmed"
           [] txs[f].state = "reverted" -> "failed"
           [] txs[f].state = "pending" -> "pending"
           [] OTHER -> "not_found"

Conclusive == {"confirmed", "attestation_verified"}

(* A poll that settles it ... *)
PollConfirms(f) ==
    /\ flow[f].stage = "polling"
    /\ StatusOf(f) \in Conclusive
    /\ Show(3, StatusOf(f))
    /\ flow' = Ended(f)
    /\ UNCHANGED <<shown, proof, job, txs>>

(* A plausible slip: a poll that fails is not counted. *)
SameTry(f) == flow[f].polls

NextTry(f) == flow[f].polls + 1

(* ... and one that does not: pending, failed, not found, a refused or a lost
   request. After the last one the page says that it was submitted. *)
PollAgain(f) ==
    /\ flow[f].stage = "polling"
    /\ IF NextTry(f) < MaxPolls
         THEN flow' = [flow EXCEPT ![f].polls = NextTry(f)] /\ UNCHANGED panel
         ELSE flow' = Ended(f) /\ Show(3, "submitted")
    /\ UNCHANGED <<shown, proof, job, txs>>

(* The validators' signatures arrive and MetaMask opens. *)
ConsensusArrives(f) ==
    /\ flow[f].stage = "consensus"
    /\ flow' = [flow EXCEPT ![f].stage = "signing"]
    /\ Show(2, "signing")
    /\ UNCHANGED <<shown, proof, job, txs>>

Used(wallet) == {f \in Flows : txs[f].wallet = wallet /\ txs[f].state # "dropped"}

(* The pending transaction count: the first nonce no transaction has. *)
NextNonce(wallet) ==
    LET taken == {txs[f].nonce : f \in Used(wallet)} IN
    CHOOSE n \in 0..Cardinality(taken) : n \notin taken /\ 0..(n - 1) \subseteq taken

Broadcast(f, wallet, nonce) ==
    txs' = [txs EXCEPT ![f] = [state |-> "pending", report |-> flow[f].report,
                               wallet |-> wallet, nonce |-> nonce]]

(* The user signs; the certificate's flow stays at step 1. *)
WalletSigns(f) ==
    /\ flow[f].stage = "signing"
    /\ Broadcast(f, "user", NextNonce("user"))
    /\ flow' = [flow EXCEPT ![f].stage = "mining"]
    /\ panel' = [panel EXCEPT !.hash = f, !.onchain = TRUE, !.says = "waiting"]
    /\ UNCHANGED <<shown, proof, job>>

(* The user rejects, or the estimate says that it would revert. *)
WalletRejects(f) ==
    /\ flow[f].stage = "signing"
    /\ flow' = Ended(f)
    /\ Show(0, "failed")
    /\ UNCHANGED <<shown, proof, job, txs>>

(* tx.wait resolves with the receipt and throws on a revert. *)
WaitReturns(f) ==
    /\ flow[f].stage = "mining"
    /\ \/ txs[f].state = "mined" /\ Show(3, "confirmed")
       \/ txs[f].state = "reverted" /\ Show(0, "failed")
    /\ flow' = Ended(f)
    /\ UNCHANGED <<shown, proof, job, txs>>

-----------------------------------------------------------------------------
(* The routes.                                                               *)

Answer(f, hash) == job' = [job EXCEPT ![f].stage = "answered", ![f].hash = hash]

(* 429, 400, 500: the job is over; the browser sees RequestFails. *)
JobRefused(f) ==
    /\ job[f].stage = "received"
    /\ job' = [job EXCEPT ![f].stage = "refused"]
    /\ UNCHANGED <<shown, panel, proof, flow, txs>>

(* record-verified asks the prover for the proof of the source transaction. *)
NeedsProof(f) == flow[f].kind = "verified"

FetchProof(f) ==
    /\ job[f].stage = "received" /\ NeedsProof(f)
    /\ job' = [job EXCEPT ![f].stage = "proved"]
    /\ UNCHANGED <<shown, panel, proof, flow, txs>>

(* A key and a funded wallet: the transaction is prepared with the wallet's
   next nonce. *)
Prepare(f) ==
    /\ job[f].stage = IF NeedsProof(f) THEN "proved" ELSE "received"
    /\ job' = [job EXCEPT ![f].stage = "prepared", ![f].nonce = NextNonce("relayer")]
    /\ UNCHANGED <<shown, panel, proof, flow, txs>>

(* No proof, no key, no funds, no connection: the commitment is the answer. *)
Commit(f) ==
    /\ job[f].stage \in {"received", "proved"}
    /\ Answer(f, Digest)
    /\ UNCHANGED <<shown, panel, proof, flow, txs>>

NonceIsFree(f) == \A g \in Used("relayer") : txs[g].nonce # job[f].nonce

BroadcastAccepted(f) ==
    /\ job[f].stage = "prepared" /\ NonceIsFree(f)
    /\ Broadcast(f, "relayer", job[f].nonce)
    /\ Answer(f, f)
    /\ UNCHANGED <<shown, panel, proof, flow>>

(* The node took the transaction but its answer is lost. *)
BroadcastUnnoticed(f) ==
    /\ job[f].stage = "prepared" /\ NonceIsFree(f)
    /\ Broadcast(f, "relayer", job[f].nonce)
    /\ Answer(f, Digest)
    /\ UNCHANGED <<shown, panel, proof, flow>>

(* A nonce already used, a call that would revert, no connection. *)
BroadcastRejected(f) ==
    /\ job[f].stage = "prepared"
    /\ Answer(f, Digest)
    /\ UNCHANGED <<shown, panel, proof, flow, txs>>

-----------------------------------------------------------------------------
(* The chain.                                                                *)

Becomes(f, state) ==
    /\ txs[f].state = "pending"
    /\ txs' = [txs EXCEPT ![f].state = state]
    /\ UNCHANGED <<shown, panel, proof, flow, job>>

Settled == {"mined", "reverted"}
InTurn(f) ==
    txs[f].nonce = Cardinality({g \in Used(txs[f].wallet) : txs[g].state \in Settled})

Mine(f)   == InTurn(f) /\ Becomes(f, "mined")
Revert(f) == InTurn(f) /\ Becomes(f, "reverted")
Drop(f)   == Becomes(f, "dropped")

-----------------------------------------------------------------------------
ServerStep(f) ==
    \/ JobRefused(f) \/ FetchProof(f) \/ Prepare(f) \/ Commit(f)
    \/ BroadcastAccepted(f) \/ BroadcastUnnoticed(f) \/ BroadcastRejected(f)

BrowserStep(f) ==
    \/ RefusalArrives(f)
    \/ RelayerAnswerArrives(f) \/ DonAnswerArrives(f) \/ VerifiedAnswerArrives(f)
    \/ PollConfirms(f) \/ PollAgain(f)

RecordNext ==
    \/ ShowAnother
    \/ \E f \in Flows :
          \/ SubmitRelayer(f) \/ SubmitDon(f) \/ SubmitDirect(f) \/ SubmitCertificate(f)
          \/ SubmitVerified(f)
          \/ BrowserStep(f) \/ RequestFails(f)
          \/ ConsensusArrives(f) \/ WalletSigns(f) \/ WalletRejects(f) \/ WaitReturns(f)
          \/ ServerStep(f)
          \/ Mine(f) \/ Revert(f) \/ Drop(f)

(* The handlers run on and the browser takes up what they answer. *)
RecordFairness ==
    \A f \in Flows : WF_recordVars(ServerStep(f)) /\ WF_recordVars(BrowserStep(f))

RecordSpec == RecordInit /\ [][RecordNext]_recordVars /\ RecordFairness

-----------------------------------------------------------------------------
(* "Confirmed" is said only of the transaction whose hash the panel shows, once
   it was mined and did not revert, and that transaction carries the report the
   click was made for, whatever the page showed or the other flows did in
   between; "attested" is said only of a digest shown as one. *)
ConfirmedMeansMined ==
    /\ panel.says = "confirmed" =>
          /\ panel.onchain /\ panel.hash \in Flows
          /\ txs[panel.hash].state = "mined"
          /\ txs[panel.hash].report = flow[panel.hash].report
    /\ panel.says = "attestation_verified" => panel.hash = Digest /\ ~panel.onchain

(* Every flow without a wallet ends, and with it the page's waiting. *)
RecordingEnds ==
    \A f \in Flows :
        flow[f].kind \notin Wallet /\ flow[f].stage # "ready" ~> flow[f].stage = "ended"
=============================================================================
