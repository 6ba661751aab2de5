------------------------ MODULE RecordRelayer_proofs ------------------------
(***************************************************************************)
(* The relayer for any number of requests, threads, nodes and any quorum:  *)
(* one transaction of its account is in flight at a time, a request puts   *)
(* at most one report on the chain, the client's answer and the statistics *)
(* agree with what was submitted, and what the consensus round assembles   *)
(* passes the contract's checks of a quorum.                               *)
(*                                                                         *)
(* The argument is one invariant in six parts.  That nothing is recorded   *)
(* twice is not inductive by itself: it rests on where in its handler a    *)
(* thread is when it has left a transaction behind, and on the account's   *)
(* transactions being numbered by the chain.                               *)
(***************************************************************************)
EXTENDS RecordRelayer, Sums_proofs, FunctionTheorems

(* The types of all the variables; the bound on the counter is in CountInv. *)
TypesInv ==
  /\ pc \in [Requests -> {"Idle", "Gather", "Clock", "Check", "Mark", "Nonce", "Send", "Done"}]
  /\ degraded \subseteq {r \in Requests : RequestOf[r].endpoint = "RecordDON"}
  /\ gathered \in [Requests -> Seq(Attestation)]
  /\ \A r \in Requests : Len(gathered[r]) \in {0, MinQuorum}
  /\ readTime \in [Requests -> 0..MaxTime] /\ now \in 0..MaxTime
  /\ nonce \in [Requests -> Nat]
  /\ response \in [Requests -> {"None", "Quorum", "Degraded", "Single", "TooMany", "Error"}]
  /\ recentRecords \in [Assets -> 0..MaxTime \cup {Never}]
  /\ mempool \subseteq Transaction
  /\ receipts \in Seq([request : Requests, kind : {"MultiSigned", "Direct"}, recorded : BOOLEAN])
  /\ lost \subseteq Requests

(* What the coordinator hands over: a quorum of attestations, their signers in
   strictly ascending order. *)
Assembled(attestations) ==
  /\ attestations \in Seq(Attestation) /\ Len(attestations) = MinQuorum
  /\ \A i, j \in 1..MinQuorum : i < j => attestations[i].signer < attestations[j].signer

(* A request has left a transaction of a kind: in the pool, or mined. *)
Waits(r, kind) == \E tx \in mempool : tx.request = r /\ tx.kind = kind

Mines(r, kind) == \E k \in 1..Len(receipts) : receipts[k].request = r /\ receipts[k].kind = kind

Left(r, kind) == Waits(r, kind) \/ Mines(r, kind)

(* The account: no thread knows a later count than the chain's, and what waits is
   one transaction with the next nonce. *)
AccountInv ==
  /\ \A r \in Requests : nonce[r] <= Len(receipts)
  /\ \A tx \in mempool : tx.nonce = Len(receipts)
  /\ \A t, u \in mempool : t = u

(* The threads: what a place in the handlers says of the way there. *)
ThreadInv ==
  \A r \in Requests :
    /\ pc[r] = "Idle" => r \notin degraded
    /\ pc[r] = "Gather" => Kind(r) = "MultiSigned"
    /\ pc[r] \in {"Clock", "Check", "Mark"} => Kind(r) = "Direct"
    /\ pc[r] \in {"Nonce", "Send"} /\ Kind(r) = "MultiSigned" => Assembled(gathered[r])
    /\ response[r] = "None" <=> pc[r] # "Done"

(* Every request submits at most one transaction of each kind, the single-signer
   one as its last act and the quorum's not without ending or falling back. *)
SubmissionInv ==
  /\ \A r \in Requests :
       /\ Left(r, "MultiSigned") =>
            RequestOf[r].endpoint = "RecordDON" /\ (r \in degraded \/ pc[r] = "Done")
       /\ Left(r, "Direct") => Kind(r) = "Direct" /\ pc[r] = "Done"
  /\ \A j, k \in 1..Len(receipts) :
       receipts[j].request = receipts[k].request /\ receipts[j].kind = receipts[k].kind => j = k
  /\ \A tx \in mempool : ~ Mines(tx.request, tx.kind)
  /\ \A tx \in mempool : tx.kind = "MultiSigned" => Assembled(tx.attestations)

(* Unless an answer got lost, what a request left is what its client was told. *)
AnswerInv ==
  \A r \in Requests \ lost :
    /\ Left(r, "MultiSigned") => response[r] = "Quorum"
    /\ Left(r, "Direct") => response[r] \in {"Degraded", "Single"}

(* What the statistics count: every request on the DON endpoint as it comes in,
   and every run of process_record. *)
Received == {r \in Requests : pc[r] # "Idle"}

Charged(r, kind) ==
  IF kind = "MultiSigned"
    THEN RequestOf[r].endpoint = "RecordDON"
    ELSE Kind(r) = "Direct" /\ pc[r] # "Clock"

Charges == {c \in Received \X {"MultiSigned", "Direct"} : Charged(c[1], c[2])}

CountInv ==
  /\ IsFiniteSet(Received) /\ Cardinality(Received) <= MaxRequests
  /\ totalRecords = Cardinality(Charges)

RelayInv == TypesInv /\ AccountInv /\ ThreadInv /\ SubmissionInv /\ AnswerInv /\ CountInv

-----------------------------------------------------------------------------
(* What the parts of the handlers do, in the words of the invariant. *)

Places == {"Idle", "Gather", "Clock", "Check", "Mark", "Nonce", "Send", "Done"}
Responses == {"None", "Quorum", "Degraded", "Single", "TooMany", "Error"}

(* A thread moves on: to another place, with an answer, or into the fallback. *)
Moves(r, place, what, fallback) ==
  /\ pc' = [pc EXCEPT ![r] = place]
  /\ response' = [response EXCEPT ![r] = what]
  /\ degraded' = IF fallback THEN degraded \cup {r} ELSE degraded

LEMMA KindIs ==
  ASSUME NEW r \in Requests
  PROVE  /\ Kind(r) \in {"MultiSigned", "Direct"}
         /\ Kind(r) = "MultiSigned" <=> RequestOf[r].endpoint = "RecordDON" /\ r \notin degraded
  BY DEF Kind

LEMMA GoMoves ==
  ASSUME TypesInv, NEW r \in Requests, NEW place, Goto(r, place), UNCHANGED <<degraded, response>>
  PROVE  Moves(r, place, response[r], FALSE)
  BY DEF TypesInv, Goto, Moves

LEMMA FailMoves ==
  ASSUME TypesInv, NEW r \in Requests, Fail(r)
  PROVE  \/ Kind(r) = "MultiSigned" /\ Moves(r, "Clock", response[r], TRUE)
         \/ Kind(r) = "Direct" /\ Moves(r, "Done", "Error", FALSE)
  BY KindIs DEF TypesInv, Fail, Answer, Goto, Moves

LEMMA SucceedMoves ==
  ASSUME TypesInv, NEW r \in Requests, Succeed(r)
  PROVE  \E what \in {"Quorum", "Degraded", "Single"} :
           /\ Moves(r, "Done", what, FALSE)
           /\ what = "Quorum" <=> Kind(r) = "MultiSigned"
  BY KindIs DEF TypesInv, Succeed, Answer, Goto, Moves

LEMMA MovesKeepsTypes ==
  ASSUME TypesInv, NEW r \in Requests, NEW place \in Places, NEW what \in Responses,
         NEW fallback \in BOOLEAN, Moves(r, place, what, fallback),
         fallback => RequestOf[r].endpoint = "RecordDON"
  PROVE  /\ pc' \in [Requests -> Places] /\ response' \in [Requests -> Responses]
         /\ degraded' \subseteq {q \in Requests : RequestOf[q].endpoint = "RecordDON"}
  BY DEF TypesInv, Moves, Places, Responses

LEMMA Moved ==
  ASSUME TypesInv, NEW r \in Requests, NEW place \in Places, NEW what \in Responses,
         NEW fallback \in BOOLEAN, Moves(r, place, what, fallback)
  PROVE  /\ pc'[r] = place /\ response'[r] = what
         /\ r \in degraded' <=> r \in degraded \/ fallback
         /\ fallback => Kind(r)' = "Direct"
         /\ ~fallback => Kind(r)' = Kind(r)
         /\ \A q \in Requests \ {r} :
              /\ pc'[q] = pc[q] /\ response'[q] = response[q]
              /\ q \in degraded' <=> q \in degraded
              /\ Kind(q)' = Kind(q)
  BY DEF TypesInv, Moves, Kind

(* Where a thread goes from where it is. *)
Path(r, place, what, fallback) ==
  /\ Moves(r, place, what, fallback)
  /\ pc[r] # "Done" /\ place # "Idle"
  /\ fallback <=> Kind(r) = "MultiSigned" /\ place = "Clock"
  /\ place = "Gather" => Kind(r) = "MultiSigned"
  /\ place = "Clock" => pc[r] = "Idle" \/ fallback
  /\ place \in {"Check", "Mark"} => Kind(r) = "Direct"
  /\ place \in {"Nonce", "Send"} /\ Kind(r) = "MultiSigned" => Assembled(gathered'[r])
  /\ what = "None" <=> place # "Done"
  /\ pc[r] = "Idle" => r \notin degraded

LEMMA ReceivePath ==
  ASSUME TypesInv, ThreadInv, NEW r \in Requests, Receive(r)
  PROVE  \E place \in {"Gather", "Clock", "Done"}, what \in Responses :
           /\ Path(r, place, what, FALSE)
           /\ RequestOf[r].endpoint = "Record" => place = "Clock"
<1>1. pc[r] = "Idle" /\ r \notin degraded /\ response[r] = "None"
  BY DEF Receive, ThreadInv
<1>2. RequestOf[r].endpoint \in {"Record", "RecordDON"} /\ RequestOf[r].valid \in BOOLEAN
  BY RequestsAssumption
<1>3. UNCHANGED degraded
  BY DEF Receive
<1>4. CASE RequestOf[r].endpoint = "Record"
  <2>1. Goto(r, "Clock") /\ UNCHANGED response
    BY <1>4 DEF Receive
  <2>2. Moves(r, "Clock", "None", FALSE)
    BY <1>1, <1>3, <2>1, GoMoves
  <2>3. QED
    BY <1>1, <1>4, <2>2, KindIs DEF Path, Responses
<1>5. CASE RequestOf[r].endpoint = "RecordDON" /\ RequestOf[r].valid
  <2>1. Goto(r, "Gather") /\ UNCHANGED response
    BY <1>5 DEF Receive
  <2>2. Moves(r, "Gather", "None", FALSE)
    BY <1>1, <1>3, <2>1, GoMoves
  <2>3. QED
    BY <1>1, <1>5, <2>2, KindIs DEF Path, Responses
<1>6. CASE RequestOf[r].endpoint = "RecordDON" /\ ~RequestOf[r].valid
  <2>1. Answer(r, "Error")
    BY <1>6 DEF Receive
  <2>2. Moves(r, "Done", "Error", FALSE)
    BY <1>3, <2>1 DEF Answer, Goto, Moves
  <2>3. QED
    BY <1>1, <1>6, <2>2, KindIs DEF Path, Responses
<1>7. QED
  BY <1>2, <1>4, <1>5, <1>6

(* An exception on the way. *)
LEMMA FailPath ==
  ASSUME TypesInv, ThreadInv, NEW r \in Requests, pc[r] \in Places \ {"Idle", "Done"}, Fail(r)
  PROVE  \E place \in {"Clock", "Done"}, what \in Responses, fallback \in BOOLEAN :
           Path(r, place, what, fallback)
<1>1. response[r] = "None"
  BY DEF ThreadInv, Places
<1>2. CASE Kind(r) = "MultiSigned" /\ Moves(r, "Clock", response[r], TRUE)
  BY <1>1, <1>2 DEF Path, Responses
<1>3. CASE Kind(r) = "Direct" /\ Moves(r, "Done", "Error", FALSE)
  BY <1>1, <1>3 DEF Path, Responses
<1>4. QED
  BY <1>2, <1>3, FailMoves

(* The consensus round: the quorum stands in ascending order. *)
LEMMA GatherPath ==
  ASSUME TypesInv, ThreadInv, NEW r \in Requests, GatherConsensus(r)
  PROVE  /\ \E place \in {"Clock", "Nonce", "Done"}, what \in Responses, fallback \in BOOLEAN :
              Path(r, place, what, fallback)
         /\ gathered' \in [Requests -> Seq(Attestation)]
         /\ \A q \in Requests : Len(gathered'[q]) \in {0, MinQuorum}
         /\ \A q \in Requests \ {r} : gathered'[q] = gathered[q]
<1>1. pc[r] = "Gather" /\ response[r] = "None"
  BY DEF GatherConsensus, ThreadInv
<1>2. PICK responding \in SUBSET DOMAIN Endpoints :
        IF Cardinality(responding) < MinQuorum
          THEN Fail(r) /\ UNCHANGED gathered
          ELSE \E computed \in [Selected(responding) -> Measurements],
                  order \in [1..MinQuorum -> Selected(responding)] :
                 /\ SortedBySigner(order)
                 /\ gathered' = [gathered EXCEPT ![r] =
                                   [i \in 1..MinQuorum |-> AnswerOf(order[i], computed)]]
                 /\ Goto(r, "Nonce")
                 /\ UNCHANGED <<degraded, response>>
  BY DEF GatherConsensus
<1>3. CASE Fail(r) /\ UNCHANGED gathered
  BY <1>1, <1>3, FailPath DEF TypesInv, Places
<1>4. CASE ~(Cardinality(responding) < MinQuorum)
  <2>1. PICK computed \in [Selected(responding) -> Measurements],
             order \in [1..MinQuorum -> Selected(responding)] :
          /\ SortedBySigner(order)
          /\ gathered' = [gathered EXCEPT ![r] =
                            [i \in 1..MinQuorum |-> AnswerOf(order[i], computed)]]
          /\ Goto(r, "Nonce")
          /\ UNCHANGED <<degraded, response>>
    BY <1>2, <1>4
  <2> DEFINE quorum == [i \in 1..MinQuorum |-> AnswerOf(order[i], computed)]
  <2>2. MinQuorum \in Nat /\ Selected(responding) \subseteq DOMAIN Endpoints
    BY EndpointsAssumption DEF Selected
  <2>3. \A i \in 1..MinQuorum :
          /\ AnswerOf(order[i], computed) \in Attestation
          /\ AnswerOf(order[i], computed).signer = Endpoints[order[i]]
    BY <2>2 DEF AnswerOf, Attestation, Range
  <2>4. quorum \in Seq(Attestation) /\ Len(quorum) = MinQuorum
    BY <2>2, <2>3
  <2>5. \A i, j \in 1..MinQuorum : i < j => quorum[i].signer < quorum[j].signer
    BY <2>1, <2>3 DEF SortedBySigner
  <2> HIDE DEF quorum
  <2>6. Assembled(quorum)
    BY <2>4, <2>5 DEF Assembled
  <2>7. gathered' = [gathered EXCEPT ![r] = quorum]
    BY <2>1 DEF quorum
  <2>8. gathered'[r] = quorum /\ \A q \in Requests \ {r} : gathered'[q] = gathered[q]
    BY <2>7 DEF TypesInv
  <2>9. Moves(r, "Nonce", "None", FALSE)
    BY <1>1, <2>1, GoMoves
  <2>10. Path(r, "Nonce", "None", FALSE)
    BY <1>1, <2>6, <2>8, <2>9 DEF Path
  <2>11. /\ gathered' \in [Requests -> Seq(Attestation)]
         /\ \A q \in Requests : Len(gathered'[q]) \in {0, MinQuorum}
    BY <2>4, <2>7, <2>8 DEF TypesInv
  <2>12. QED
    BY <2>8, <2>10, <2>11 DEF Responses
<1>5. QED
  BY <1>2, <1>3, <1>4

LEMMA HandlerPath ==
  ASSUME TypesInv, ThreadInv, NEW r \in Requests,
         ReadClock(r) \/ CheckCooldown(r) \/ MarkRecord(r) \/ ReadNonce(r)
  PROVE  \E place \in Places, what \in Responses, fallback \in BOOLEAN :
           Path(r, place, what, fallback)
<1>1. ASSUME NEW from \in Places \ {"Idle", "Done"}, NEW place \in Places \ {"Idle", "Gather", "Clock", "Done"},
             pc[r] = from, Goto(r, place), UNCHANGED <<degraded, response, gathered>>,
             place \in {"Check", "Mark"} => Kind(r) = "Direct",
             from \in {"Check", "Mark"} => Kind(r) = "Direct",
             place \in {"Nonce", "Send"} => from \in {"Mark", "Nonce"}
      PROVE  Path(r, place, "None", FALSE)
  <2>1. response[r] = "None" /\ (from = "Idle" => r \notin degraded)
    BY <1>1 DEF ThreadInv
  <2>2. Moves(r, place, "None", FALSE)
    BY <1>1, <2>1, GoMoves
  <2>3. from \in {"Nonce", "Send"} /\ Kind(r) = "MultiSigned" => Assembled(gathered[r])
    BY <1>1 DEF ThreadInv
  <2>4. QED
    BY <1>1, <2>1, <2>2, <2>3 DEF Path
<1>2. ASSUME NEW what \in Responses \ {"None"}, pc[r] \in Places \ {"Idle", "Done"},
             Answer(r, what), UNCHANGED degraded
      PROVE  Path(r, "Done", what, FALSE)
  BY <1>2 DEF Answer, Goto, Moves, Path
<1>3. CASE ReadClock(r)
  <2>1. pc[r] = "Clock" /\ Goto(r, "Check") /\ UNCHANGED <<degraded, response, gathered>>
    BY <1>3 DEF ReadClock
  <2>2. Kind(r) = "Direct"
    BY <2>1 DEF ThreadInv
  <2>3. Path(r, "Check", "None", FALSE)
    BY <1>1, <2>1, <2>2 DEF Places
  <2>4. QED
    BY <2>3 DEF Places, Responses
<1>4. CASE CheckCooldown(r)
  <2>1. /\ pc[r] = "Check" /\ UNCHANGED <<degraded, gathered>>
        /\ \/ Answer(r, "Error") \/ Answer(r, "TooMany")
           \/ Goto(r, "Mark") /\ UNCHANGED response
    BY <1>4 DEF CheckCooldown
  <2>2. Kind(r) = "Direct"
    BY <2>1 DEF ThreadInv
  <2>3. Goto(r, "Mark") /\ UNCHANGED response => Path(r, "Mark", "None", FALSE)
    BY <1>1, <2>1, <2>2 DEF Places
  <2>4. /\ Answer(r, "Error") => Path(r, "Done", "Error", FALSE)
        /\ Answer(r, "TooMany") => Path(r, "Done", "TooMany", FALSE)
    BY <1>2, <2>1 DEF Places, Responses
  <2>5. QED
    BY <2>1, <2>3, <2>4 DEF Places, Responses
<1>5. CASE MarkRecord(r)
  <2>1. /\ pc[r] = "Mark" /\ UNCHANGED <<degraded, gathered>>
        /\ Answer(r, "Error") \/ (Goto(r, "Nonce") /\ UNCHANGED response)
    BY <1>5 DEF MarkRecord
  <2>2. Kind(r) = "Direct"
    BY <2>1 DEF ThreadInv
  <2>3. Goto(r, "Nonce") /\ UNCHANGED response => Path(r, "Nonce", "None", FALSE)
    BY <1>1, <2>1, <2>2 DEF Places
  <2>4. Answer(r, "Error") => Path(r, "Done", "Error", FALSE)
    BY <1>2, <2>1 DEF Places, Responses
  <2>5. QED
    BY <2>1, <2>3, <2>4 DEF Places, Responses
<1>6. CASE ReadNonce(r)
  <2>1. /\ pc[r] = "Nonce" /\ UNCHANGED gathered
        /\ (Goto(r, "Send") /\ UNCHANGED <<degraded, response>>) \/ Fail(r)
    BY <1>6 DEF ReadNonce
  <2>2. Goto(r, "Send") /\ UNCHANGED <<degraded, response>> => Path(r, "Send", "None", FALSE)
    BY <1>1, <2>1 DEF Places
  <2>3. QED
    BY <2>1, <2>2, FailPath DEF Places, Responses
<1>7. QED
  BY <1>3, <1>4, <1>5, <1>6

LEMMA SendPath ==
  ASSUME TypesInv, ThreadInv, NEW r \in Requests, SendRawTransaction(r)
  PROVE  \E place \in {"Clock", "Done"}, what \in Responses, fallback \in BOOLEAN :
           Path(r, place, what, fallback)
<1>1. pc[r] = "Send" /\ (Succeed(r) \/ Fail(r))
  BY DEF SendRawTransaction
<1>2. CASE Succeed(r)
  <2>1. PICK what \in {"Quorum", "Degraded", "Single"} : Moves(r, "Done", what, FALSE)
    BY <1>2, SucceedMoves
  <2>2. Path(r, "Done", what, FALSE)
    BY <1>1, <2>1 DEF Path
  <2>3. QED
    BY <2>2 DEF Responses
<1>3. CASE Fail(r)
  BY <1>1, <1>3, FailPath DEF Places
<1>4. QED
  BY <1>1, <1>2, <1>3

(* In one word: *)
LEMMA ThreadPath ==
  ASSUME TypesInv, ThreadInv, NEW r \in Requests, Receive(r) \/ ThreadStep(r)
  PROVE  \E place \in Places, what \in Responses, fallback \in BOOLEAN :
           Path(r, place, what, fallback)
  BY ReceivePath, GatherPath, HandlerPath, SendPath, ZenonT(60) DEF ThreadStep, Places

-----------------------------------------------------------------------------
(* The parts of the invariant, step by step. *)

(* A step is a thread's, a block's, the owner's or the clock's. *)
LEMMA StepIs ==
  ASSUME [RelayNext]_systemVars
  PROVE  \/ \E r \in Requests : (Receive(r) \/ ThreadStep(r)) /\ UNCHANGED contractVars
         \/ \E tx \in mempool : Mine(tx)
         \/ UNCHANGED relayVars /\ (now' = now \/ (now' = now + 1 /\ now < MaxTime))
<1>1. OwnerStep => UNCHANGED <<relayVars, now>>
  BY DEF OwnerStep, Pause, Unpause, DeauthorizeOracle, repositoryVars, reportVars
<1>2. NextBlock /\ UNCHANGED <<registryVars, relayVars>>
        => UNCHANGED relayVars /\ now' = now + 1 /\ now < MaxTime
  BY DEF NextBlock
<1>3. UNCHANGED systemVars => UNCHANGED <<relayVars, now>>
  BY DEF systemVars, contractVars, repositoryVars, reportVars
<1>4. QED
  BY <1>1, <1>2, <1>3 DEF RelayNext

LEMMA MineIs ==
  ASSUME TypesInv, NEW tx \in mempool, Mine(tx)
  PROVE  /\ UNCHANGED <<threadVars, totalRecords, recentRecords, lost, now, registryVars>>
         /\ tx.nonce = Len(receipts) /\ mempool' = mempool \ {tx}
         /\ receipts' = Append(receipts, [request |-> tx.request, kind |-> tx.kind,
                                          recorded |-> CallSucceeds(tx)])
  BY DEF Mine, SaveRiskReportMultiSigned, SaveRiskReport, RecordReport, repositoryVars, reportVars

LEMMA MinedTypes ==
  ASSUME TypesInv, NEW tx \in mempool, Mine(tx)
  PROVE  /\ receipts' \in Seq([request : Requests, kind : {"MultiSigned", "Direct"}, recorded : BOOLEAN])
         /\ Len(receipts') = Len(receipts) + 1 /\ Len(receipts) \in Nat
         /\ receipts'[Len(receipts')].request = tx.request
         /\ receipts'[Len(receipts')].kind = tx.kind
         /\ receipts'[Len(receipts')].recorded = CallSucceeds(tx)
         /\ \A k \in 1..Len(receipts) : receipts'[k] = receipts[k]
         /\ \A k \in 1..Len(receipts') : k \in 1..Len(receipts) \/ k = Len(receipts')
<1> DEFINE R == [request : Requests, kind : {"MultiSigned", "Direct"}, recorded : BOOLEAN]
           new == [request |-> tx.request, kind |-> tx.kind, recorded |-> CallSucceeds(tx)]
<1>1. tx.request \in Requests /\ tx.kind \in {"MultiSigned", "Direct"}
  BY DEF TypesInv, Transaction
<1>2. CallSucceeds(tx) \in BOOLEAN
  BY DEF CallSucceeds
<1>3. new \in R
  BY <1>1, <1>2
<1>4. receipts \in Seq(R) /\ receipts' = Append(receipts, new)
  BY MineIs DEF TypesInv
<1> HIDE DEF R, new
<1>5. /\ receipts' \in Seq(R) /\ Len(receipts') = Len(receipts) + 1 /\ Len(receipts) \in Nat
      /\ receipts'[Len(receipts')] = new
      /\ \A k \in 1..Len(receipts) : receipts'[k] = receipts[k]
  BY <1>3, <1>4
<1>6. \A k \in 1..Len(receipts') : k \in 1..Len(receipts) \/ k = Len(receipts')
  BY <1>5
<1>7. new.request = tx.request /\ new.kind = tx.kind /\ new.recorded = CallSucceeds(tx)
  BY DEF new
<1>8. QED
  BY <1>5, <1>6, <1>7 DEF R

(* Nothing of one thread's is written by another. *)
LEMMA OwnLocals ==
  ASSUME TypesInv, ThreadInv, NEW r \in Requests, Receive(r) \/ ThreadStep(r)
  PROVE  /\ \A q \in Requests \ {r} : gathered'[q] = gathered[q] /\ nonce'[q] = nonce[q]
         /\ lost \subseteq lost' /\ lost' \subseteq lost \cup {r}
         /\ receipts' = receipts
<1>1. GatherConsensus(r) => \A q \in Requests \ {r} : gathered'[q] = gathered[q]
  BY GatherPath
<1>2. SendRawTransaction(r) => \A q \in Requests \ {r} : gathered'[q] = gathered[q] /\ nonce'[q] = nonce[q]
  BY DEF SendRawTransaction, TypesInv
<1>3. ReadNonce(r) => \A q \in Requests \ {r} : nonce'[q] = nonce[q]
  BY DEF ReadNonce, TypesInv
<1>4. ~GatherConsensus(r) /\ ~SendRawTransaction(r) => UNCHANGED gathered
  BY DEF Receive, ThreadStep, ReadClock, CheckCooldown, MarkRecord, ReadNonce
<1>5. ~ReadNonce(r) /\ ~SendRawTransaction(r) => UNCHANGED nonce
  BY DEF Receive, ThreadStep, ReadClock, CheckCooldown, MarkRecord, GatherConsensus
<1>6. lost \subseteq lost' /\ lost' \subseteq lost \cup {r}
  BY DEF Receive, ThreadStep, ReadClock, CheckCooldown, MarkRecord, GatherConsensus, ReadNonce,
     SendRawTransaction
<1>7. receipts' = receipts
  BY DEF Receive, ThreadStep, ReadClock, CheckCooldown, MarkRecord, GatherConsensus, ReadNonce,
     SendRawTransaction
<1>8. QED
  BY <1>1, <1>2, <1>3, <1>4, <1>5, <1>6, <1>7

LEMMA PathTypes ==
  ASSUME TypesInv, NEW r \in Requests, NEW place \in Places, NEW what \in Responses,
         NEW fallback \in BOOLEAN, Path(r, place, what, fallback)
  PROVE  /\ pc' \in [Requests -> Places] /\ response' \in [Requests -> Responses]
         /\ degraded' \subseteq {q \in Requests : RequestOf[q].endpoint = "RecordDON"}
<1>1. fallback => RequestOf[r].endpoint = "RecordDON"
  BY KindIs DEF Path
<1>2. QED
  BY <1>1, MovesKeepsTypes DEF Path

LEMMA SubmittedIsTransaction ==
  ASSUME TypesInv, NEW r \in Requests
  PROVE  /\ TransactionOf(r) \in Transaction
         /\ TransactionOf(r).request = r /\ TransactionOf(r).kind = Kind(r)
         /\ TransactionOf(r).nonce = nonce[r]
         /\ Kind(r) = "MultiSigned" => TransactionOf(r).attestations = gathered[r]
<1>1. gathered[r] \in Seq(Attestation) /\ nonce[r] \in Nat /\ <<>> \in Seq(Attestation)
  BY DEF TypesInv
<1>2. QED
  BY <1>1, KindIs DEF TransactionOf, Transaction

LEMMA ThreadKeepsTypes ==
  ASSUME TypesInv, ThreadInv, NEW r \in Requests, Receive(r) \/ ThreadStep(r), UNCHANGED contractVars
  PROVE  TypesInv'
<1>1. /\ pc' \in [Requests -> Places] /\ response' \in [Requests -> Responses]
      /\ degraded' \subseteq {q \in Requests : RequestOf[q].endpoint = "RecordDON"}
  BY ThreadPath, PathTypes
<1>2. now' = now
  BY DEF contractVars, repositoryVars, reportVars
<1>3. MaxTime \in Nat /\ now \in 0..MaxTime
  BY BoundsAssumption DEF TypesInv
<1>4. /\ gathered' \in [Requests -> Seq(Attestation)]
      /\ \A q \in Requests : Len(gathered'[q]) \in {0, MinQuorum}
  <2>1. CASE GatherConsensus(r)
    BY <2>1, GatherPath
  <2>2. CASE SendRawTransaction(r)
    <3>1. gathered' = [gathered EXCEPT ![r] = <<>>]
      BY <2>2 DEF SendRawTransaction
    <3>2. <<>> \in Seq(Attestation) /\ Len(<<>>) = 0
      OBVIOUS
    <3>3. QED
      BY <3>1, <3>2 DEF TypesInv
  <2>3. CASE UNCHANGED gathered
    BY <2>3 DEF TypesInv
  <2>4. QED
    BY <2>1, <2>2, <2>3 DEF Receive, ThreadStep, ReadClock, CheckCooldown, MarkRecord, ReadNonce
<1>5. readTime' \in [Requests -> 0..MaxTime]
  <2>1. readTime' \in {readTime, [readTime EXCEPT ![r] = now], [readTime EXCEPT ![r] = 0]}
    BY DEF Receive, ThreadStep, ReadClock, CheckCooldown, MarkRecord, GatherConsensus, ReadNonce,
       SendRawTransaction
  <2>2. readTime \in [Requests -> 0..MaxTime] /\ now \in 0..MaxTime /\ 0 \in 0..MaxTime
    BY <1>3 DEF TypesInv
  <2>3. QED
    BY ONLY <2>1, <2>2, r \in Requests
<1>6. nonce' \in [Requests -> Nat]
  <2>1. nonce' \in {nonce, [nonce EXCEPT ![r] = Len(receipts)], [nonce EXCEPT ![r] = 0]}
    BY DEF Receive, ThreadStep, ReadClock, CheckCooldown, MarkRecord, GatherConsensus, ReadNonce,
       SendRawTransaction, TransactionCount
  <2>2. Len(receipts) \in Nat
    BY DEF TypesInv
  <2>3. QED
    BY <2>1, <2>2, SMTT(30) DEF TypesInv
<1>7. recentRecords' \in [Assets -> 0..MaxTime \cup {Never}]
  <2>1. CASE ReadClock(r)
    BY <2>1 DEF ReadClock, TypesInv
  <2>2. CASE MarkRecord(r)
    <3>1. recentRecords' = [recentRecords EXCEPT ![RequestOf[r].message.asset] = readTime[r]]
      BY <2>2 DEF MarkRecord
    <3>2. QED
      BY <3>1 DEF TypesInv
  <2>3. CASE UNCHANGED recentRecords
    BY <2>3 DEF TypesInv
  <2>4. QED
    BY <2>1, <2>2, <2>3 DEF Receive, ThreadStep, CheckCooldown, GatherConsensus, ReadNonce,
       SendRawTransaction
<1>8. mempool' \subseteq Transaction
  <2>1. mempool' \subseteq mempool \cup {TransactionOf(r)}
    BY DEF Receive, ThreadStep, ReadClock, CheckCooldown, MarkRecord, GatherConsensus, ReadNonce,
       SendRawTransaction, PoolTakes
  <2>2. QED
    BY <2>1, SubmittedIsTransaction DEF TypesInv
<1>9. lost' \subseteq Requests /\ receipts' = receipts
  BY OwnLocals DEF TypesInv
<1>10. QED
  BY <1>1, <1>2, <1>4, <1>5, <1>6, <1>7, <1>8, <1>9 DEF TypesInv, Places, Responses

LEMMA TypesStep ==
  ASSUME TypesInv, ThreadInv, [RelayNext]_systemVars
  PROVE  TypesInv'
<1>1. ASSUME NEW tx \in mempool, Mine(tx) PROVE TypesInv'
  BY <1>1, MineIs, MinedTypes DEF TypesInv, threadVars
<1>2. ASSUME UNCHANGED relayVars, now' = now \/ (now' = now + 1 /\ now < MaxTime) PROVE TypesInv'
  <2>1. now' \in 0..MaxTime
    BY <1>2, BoundsAssumption DEF TypesInv
  <2>2. QED
    BY <1>2, <2>1 DEF TypesInv, relayVars, threadVars
<1>3. QED
  BY <1>1, <1>2, StepIs, ThreadKeepsTypes

LEMMA ThreadStepKeeps ==
  ASSUME TypesInv, ThreadInv, [RelayNext]_systemVars
  PROVE  ThreadInv'
<1>1. ASSUME NEW r \in Requests, Receive(r) \/ ThreadStep(r) PROVE ThreadInv'
  <2>1. PICK place \in Places, what \in Responses, fallback \in BOOLEAN :
          Path(r, place, what, fallback)
    BY <1>1, ThreadPath
  <2>2. Moves(r, place, what, fallback)
    BY <2>1 DEF Path
  <2>3. /\ pc'[r] = place /\ response'[r] = what
        /\ r \in degraded' <=> r \in degraded \/ fallback
        /\ fallback => Kind(r)' = "Direct"
        /\ ~fallback => Kind(r)' = Kind(r)
        /\ \A q \in Requests \ {r} :
             /\ pc'[q] = pc[q] /\ response'[q] = response[q]
             /\ q \in degraded' <=> q \in degraded
             /\ Kind(q)' = Kind(q)
    BY <2>2, Moved
  <2>4. \A q \in Requests \ {r} : gathered'[q] = gathered[q]
    BY <1>1, OwnLocals
  <2>5. Kind(r) \in {"MultiSigned", "Direct"}
    BY KindIs
  <2>6. SUFFICES ASSUME NEW q \in Requests
                 PROVE  /\ pc'[q] = "Idle" => q \notin degraded'
                        /\ pc'[q] = "Gather" => Kind(q)' = "MultiSigned"
                        /\ pc'[q] \in {"Clock", "Check", "Mark"} => Kind(q)' = "Direct"
                        /\ pc'[q] \in {"Nonce", "Send"} /\ Kind(q)' = "MultiSigned"
                             => Assembled(gathered'[q])
                        /\ response'[q] = "None" <=> pc'[q] # "Done"
    BY DEF ThreadInv, Assembled
  <2>7. CASE q # r
    BY <2>3, <2>4, <2>7 DEF ThreadInv
  <2>8. CASE q = r
    <3>1. place = "Clock" => Kind(r)' = "Direct"
      <4>1. CASE fallback
        BY <2>3, <4>1
      <4>2. CASE ~fallback /\ place = "Clock"
        BY <2>1, <2>3, <2>5, <4>2 DEF Path
      <4>3. QED
        BY <4>1, <4>2
    <3>2. QED
      BY <2>1, <2>3, <2>5, <2>8, <3>1 DEF Path
  <2>9. QED
    BY <2>7, <2>8
<1>2. UNCHANGED threadVars => ThreadInv'
  BY DEF threadVars, ThreadInv, Kind
<1>3. QED
  BY <1>1, <1>2, StepIs, MineIs DEF relayVars

(* Only a broadcast touches the pool; then what it submits is all that waits. *)
LEMMA QuietThreads ==
  ASSUME NEW r \in Requests, Receive(r) \/ ThreadStep(r), ~SendRawTransaction(r)
  PROVE  UNCHANGED <<mempool, receipts, lost>>
  BY DEF Receive, ThreadStep, GatherConsensus, ReadClock, CheckCooldown, MarkRecord, ReadNonce

LEMMA Broadcast ==
  ASSUME TypesInv, AccountInv, NEW r \in Requests, SendRawTransaction(r)
  PROVE  /\ pc[r] = "Send" /\ receipts' = receipts
         /\ \/ mempool' = {TransactionOf(r)} /\ nonce[r] = Len(receipts)
               /\ \/ Succeed(r) /\ lost' = lost
                  \/ Fail(r) /\ lost' = lost \cup {r}
            \/ Fail(r) /\ UNCHANGED <<mempool, lost>>
<1>1. ASSUME PoolTakes(TransactionOf(r))
      PROVE  mempool' = {TransactionOf(r)} /\ nonce[r] = Len(receipts)
  <2> DEFINE tx == TransactionOf(r)
  <2>1. nonce[r] \in Nat /\ Len(receipts) \in Nat /\ nonce[r] <= Len(receipts)
    BY DEF TypesInv, AccountInv
  <2>2. tx.nonce = nonce[r]
    BY SubmittedIsTransaction
  <2> HIDE DEF tx
  <2>3. tx.nonce >= Len(receipts) /\ mempool' = {t \in mempool : t.nonce # tx.nonce} \cup {tx}
    BY <1>1 DEF PoolTakes, tx
  <2>4. tx.nonce = Len(receipts)
    BY <2>1, <2>2, <2>3
  <2>5. {t \in mempool : t.nonce # tx.nonce} = {}
    BY <2>4 DEF AccountInv
  <2>6. QED
    BY <2>2, <2>3, <2>4, <2>5 DEF tx
<1>2. QED
  BY <1>1 DEF SendRawTransaction

LEMMA AccountStep ==
  ASSUME TypesInv, ThreadInv, AccountInv, [RelayNext]_systemVars
  PROVE  AccountInv'
<1>1. Len(receipts) \in Nat /\ nonce \in [Requests -> Nat]
  BY DEF TypesInv
<1>2. ASSUME NEW r \in Requests, Receive(r) \/ ThreadStep(r), ~SendRawTransaction(r)
      PROVE  AccountInv'
  <2>1. UNCHANGED <<mempool, receipts>>
    BY <1>2, QuietThreads
  <2>2. nonce' \in {nonce, [nonce EXCEPT ![r] = Len(receipts)]}
    BY <1>2 DEF Receive, ThreadStep, GatherConsensus, ReadClock, CheckCooldown, MarkRecord,
       ReadNonce, TransactionCount
  <2>3. \A q \in Requests : nonce'[q] <= Len(receipts)
    BY <1>1, <2>2 DEF AccountInv
  <2>4. QED
    BY <2>1, <2>3 DEF AccountInv
<1>3. ASSUME NEW r \in Requests, SendRawTransaction(r)
      PROVE  AccountInv'
  <2>1. nonce' = [nonce EXCEPT ![r] = 0]
    BY <1>3 DEF SendRawTransaction
  <2>2. \A q \in Requests : nonce'[q] <= Len(receipts)
    BY <1>1, <2>1 DEF AccountInv
  <2>3. TransactionOf(r).nonce = nonce[r]
    BY SubmittedIsTransaction
  <2>4. QED
    BY <1>3, <2>2, <2>3, Broadcast DEF AccountInv
<1>4. ASSUME NEW tx \in mempool, Mine(tx)
      PROVE  AccountInv'
  <2>1. mempool' = {}
    BY <1>4, MineIs DEF AccountInv
  <2>2. Len(receipts') = Len(receipts) + 1 /\ nonce' = nonce
    BY <1>4, MineIs, MinedTypes DEF threadVars
  <2>3. QED
    BY <1>1, <2>1, <2>2 DEF AccountInv
<1>5. UNCHANGED relayVars => AccountInv'
  BY DEF relayVars, threadVars, AccountInv
<1>6. QED
  BY <1>2, <1>3, <1>4, <1>5, StepIs

(* A thread that has not ended has left nothing but the quorum's transaction, and
   that only as a fallback. *)
LEMMA NothingLeft ==
  ASSUME TypesInv, SubmissionInv, NEW r \in Requests, pc[r] # "Done"
  PROVE  ~Left(r, Kind(r)) /\ ~Left(r, "Direct")
  BY KindIs DEF SubmissionInv

LEMMA LeftUnchanged ==
  ASSUME UNCHANGED <<mempool, receipts>>, NEW q, NEW kind
  PROVE  /\ Left(q, kind)' <=> Left(q, kind)
         /\ Mines(q, kind)' <=> Mines(q, kind)
  BY DEF Left, Waits, Mines

(* After a broadcast: *)
LEMMA LeftByBroadcast ==
  ASSUME TypesInv, NEW r \in Requests, mempool' = {TransactionOf(r)}, receipts' = receipts,
         NEW q, NEW kind
  PROVE  /\ Left(q, kind)' => Mines(q, kind) \/ (q = r /\ kind = Kind(r))
         /\ Mines(q, kind)' <=> Mines(q, kind)
  BY SubmittedIsTransaction DEF Left, Waits, Mines

(* After a block: *)
LEMMA LeftByMining ==
  ASSUME TypesInv, AccountInv, NEW tx \in mempool, Mine(tx), NEW q, NEW kind
  PROVE  Left(q, kind)' => Left(q, kind)
<1>1. mempool' = {}
  BY MineIs DEF AccountInv
<1> SUFFICES ASSUME NEW k \in 1..Len(receipts'),
                    receipts'[k].request = q, receipts'[k].kind = kind
             PROVE  Left(q, kind)
  BY <1>1 DEF Left, Waits, Mines
<1>2. CASE k = Len(receipts')
  <2>1. tx.request = q /\ tx.kind = kind
    BY <1>2, MinedTypes
  <2>2. QED
    BY <2>1 DEF Left, Waits
<1>3. CASE k \in 1..Len(receipts)
  <2>1. receipts[k].request = q /\ receipts[k].kind = kind
    BY <1>3, MinedTypes
  <2>2. QED
    BY <1>3, <2>1 DEF Left, Mines
<1>4. k = Len(receipts') \/ k \in 1..Len(receipts)
  BY MinedTypes
<1>5. QED
  BY <1>2, <1>3, <1>4

LEMMA SubmissionStep ==
  ASSUME TypesInv, ThreadInv, AccountInv, SubmissionInv, [RelayNext]_systemVars
  PROVE  SubmissionInv'
<1> DEFINE Places1(q) ==
      /\ Left(q, "MultiSigned") =>
           RequestOf[q].endpoint = "RecordDON" /\ (q \in degraded \/ pc[q] = "Done")
      /\ Left(q, "Direct") => Kind(q) = "Direct" /\ pc[q] = "Done"
<1>1. ASSUME NEW r \in Requests, Receive(r) \/ ThreadStep(r)
      PROVE  SubmissionInv'
  <2>1. PICK place \in Places, what \in Responses, fallback \in BOOLEAN :
          Path(r, place, what, fallback)
    BY <1>1, ThreadPath
  <2>2. /\ pc'[r] = place /\ pc[r] # "Done"
        /\ r \in degraded' <=> r \in degraded \/ fallback
        /\ fallback => Kind(r)' = "Direct"
        /\ ~fallback => Kind(r)' = Kind(r)
        /\ \A q \in Requests \ {r} :
             /\ pc'[q] = pc[q] /\ Kind(q)' = Kind(q)
             /\ q \in degraded' <=> q \in degraded
    BY <2>1, Moved DEF Path
  <2>3. ~Left(r, Kind(r)) /\ ~Left(r, "Direct")
    BY <2>2, NothingLeft
  <2>4. CASE UNCHANGED <<mempool, receipts>>
    <3>1. \A q \in Requests : Places1(q)'
      BY <2>2, <2>3, <2>4, LeftUnchanged DEF SubmissionInv
    <3>2. QED
      BY <2>4, <3>1, LeftUnchanged DEF SubmissionInv
  <2>5. CASE mempool' = {TransactionOf(r)} /\ receipts' = receipts /\ SendRawTransaction(r)
    <3>1. ASSUME NEW q \in Requests, NEW kind
          PROVE  /\ Left(q, kind)' => Mines(q, kind) \/ (q = r /\ kind = Kind(r))
                 /\ Mines(q, kind)' <=> Mines(q, kind)
                 /\ Mines(q, kind) => Left(q, kind)
      BY <2>5, LeftByBroadcast DEF Left
    <3>2. place = "Done" \/ (fallback /\ Kind(r) = "MultiSigned")
      <4>1. \/ pc' = [pc EXCEPT ![r] = "Done"]
            \/ Kind(r) = "MultiSigned" /\ pc' = [pc EXCEPT ![r] = "Clock"]
        BY <2>5, FailMoves, SucceedMoves DEF SendRawTransaction, Moves
      <4>2. place = "Done" \/ (Kind(r) = "MultiSigned" /\ place = "Clock")
        BY <2>2, <4>1 DEF TypesInv
      <4>3. QED
        BY <2>1, <4>2 DEF Path
    <3>3. ASSUME NEW q \in Requests PROVE Places1(q)'
      <4>1. CASE q # r
        BY <2>2, <3>1, <4>1 DEF SubmissionInv
      <4>2. CASE q = r
        <5>1. Left(r, "Direct")' => Kind(r)' = "Direct" /\ pc'[r] = "Done"
          BY <2>2, <2>3, <3>1, <3>2
        <5>2. Left(r, "MultiSigned")' =>
                RequestOf[r].endpoint = "RecordDON" /\ (r \in degraded' \/ pc'[r] = "Done")
          <6>1. CASE Mines(r, "MultiSigned")
            BY <2>2, <3>1, <6>1 DEF SubmissionInv
          <6>2. CASE Kind(r) = "MultiSigned"
            BY <2>2, <3>2, <6>2, KindIs
          <6>3. QED
            BY <3>1, <6>1, <6>2
        <5>3. QED
          BY <4>2, <5>1, <5>2
      <4>3. QED
        BY <4>1, <4>2
    <3>4. \A tx \in mempool' : /\ ~ Mines(tx.request, tx.kind)'
                               /\ tx.kind = "MultiSigned" => Assembled(tx.attestations)
      <4>1. /\ TransactionOf(r).request = r /\ TransactionOf(r).kind = Kind(r)
            /\ Kind(r) = "MultiSigned" => TransactionOf(r).attestations = gathered[r]
        BY SubmittedIsTransaction
      <4>2. Kind(r) = "MultiSigned" => Assembled(gathered[r])
        BY <2>5 DEF SendRawTransaction, ThreadInv
      <4>3. \A kind : kind = Kind(r) => ~ Mines(r, kind)'
        BY <2>3, <3>1
      <4>4. QED
        BY <2>5, <4>1, <4>2, <4>3
    <3>5. QED
      BY <2>5, <3>3, <3>4 DEF SubmissionInv, Assembled
  <2>6. QED
    BY <1>1, <2>4, <2>5, QuietThreads, Broadcast
<1>2. ASSUME NEW tx \in mempool, Mine(tx)
      PROVE  SubmissionInv'
  <2>1. mempool' = {} /\ UNCHANGED <<pc, degraded>>
    BY <1>2, MineIs DEF AccountInv, threadVars
  <2>2. \A q \in Requests : Kind(q)' = Kind(q)
    BY <2>1 DEF Kind
  <2>3. \A q \in Requests : Places1(q)'
    BY <1>2, <2>1, <2>2, LeftByMining DEF SubmissionInv
  <2>4. ASSUME NEW j \in 1..Len(receipts'), NEW k \in 1..Len(receipts'),
               receipts'[j].request = receipts'[k].request, receipts'[j].kind = receipts'[k].kind
        PROVE  j = k
    <3>1. ~ Mines(tx.request, tx.kind)
      BY DEF SubmissionInv
    <3>2. /\ \A i \in 1..Len(receipts) : receipts'[i] = receipts[i]
          /\ receipts'[Len(receipts')].request = tx.request
          /\ receipts'[Len(receipts')].kind = tx.kind
          /\ \A i \in 1..Len(receipts') : i \in 1..Len(receipts) \/ i = Len(receipts')
      BY <1>2, MinedTypes
    <3>3. CASE j \in 1..Len(receipts) /\ k \in 1..Len(receipts)
      BY <2>4, <3>2, <3>3 DEF SubmissionInv
    <3>4. CASE j = Len(receipts') /\ k \in 1..Len(receipts)
      BY <2>4, <3>1, <3>2, <3>4 DEF Mines
    <3>5. CASE k = Len(receipts') /\ j \in 1..Len(receipts)
      BY <2>4, <3>1, <3>2, <3>5 DEF Mines
    <3>6. QED
      BY <3>2, <3>3, <3>4, <3>5
  <2>5. QED
    BY <2>1, <2>3, <2>4 DEF SubmissionInv
<1>3. ASSUME UNCHANGED relayVars PROVE SubmissionInv'
  <2>1. UNCHANGED <<mempool, receipts, pc, degraded>>
    BY <1>3 DEF relayVars, threadVars
  <2>2. \A q \in Requests : Places1(q)'
    BY <2>1, LeftUnchanged DEF SubmissionInv, Kind
  <2>3. QED
    BY <2>1, <2>2, LeftUnchanged DEF SubmissionInv
<1>4. QED
  BY <1>1, <1>2, <1>3, StepIs

LEMMA AnswerStep ==
  ASSUME TypesInv, ThreadInv, AccountInv, SubmissionInv, AnswerInv, [RelayNext]_systemVars
  PROVE  AnswerInv'
<1>1. ASSUME NEW r \in Requests, Receive(r) \/ ThreadStep(r)
      PROVE  AnswerInv'
  <2>1. PICK place \in Places, what \in Responses, fallback \in BOOLEAN :
          Path(r, place, what, fallback)
    BY <1>1, ThreadPath
  <2>2. /\ pc[r] # "Done" /\ lost \subseteq lost' /\ receipts' = receipts
        /\ \A q \in Requests \ {r} : response'[q] = response[q]
    BY <1>1, <2>1, Moved, OwnLocals DEF Path
  <2>3. r \notin lost => ~Left(r, "MultiSigned") /\ ~Left(r, "Direct")
    BY <2>2 DEF AnswerInv, ThreadInv
  <2>4. CASE UNCHANGED <<mempool, receipts>>
    BY <2>2, <2>3, <2>4, LeftUnchanged DEF AnswerInv
  <2>5. CASE mempool' = {TransactionOf(r)} /\ SendRawTransaction(r)
    <3>1. ASSUME NEW q \in Requests, NEW kind
          PROVE  /\ Left(q, kind)' => Mines(q, kind) \/ (q = r /\ kind = Kind(r))
                 /\ Mines(q, kind) => Left(q, kind)
      BY <2>2, <2>5, LeftByBroadcast DEF Left
    <3>2. r \notin lost' => UNCHANGED mempool \/ Succeed(r)
      BY <2>5, Broadcast
    <3>3. CASE UNCHANGED mempool
      BY <2>2, <2>4, <3>3
    <3>4. ASSUME NEW q \in Requests \ {r}, q \notin lost'
          PROVE  /\ Left(q, "MultiSigned")' => response'[q] = "Quorum"
                 /\ Left(q, "Direct")' => response'[q] \in {"Degraded", "Single"}
      BY <2>2, <3>1, <3>4 DEF AnswerInv
    <3>5. ASSUME Succeed(r), r \notin lost'
          PROVE  /\ Left(r, "MultiSigned")' => response'[r] = "Quorum"
                 /\ Left(r, "Direct")' => response'[r] \in {"Degraded", "Single"}
      <4>1. PICK answer \in {"Quorum", "Degraded", "Single"} :
              /\ Moves(r, "Done", answer, FALSE)
              /\ answer = "Quorum" <=> Kind(r) = "MultiSigned"
        BY <3>5, SucceedMoves
      <4>2. response'[r] = answer
        BY <4>1 DEF Moves, TypesInv
      <4>3. ~Mines(r, "MultiSigned") /\ ~Mines(r, "Direct")
        BY <2>2, <2>3, <3>1, <3>5
      <4>4. QED
        BY <3>1, <4>1, <4>2, <4>3
    <3>6. QED
      BY <3>2, <3>3, <3>4, <3>5 DEF AnswerInv
  <2>6. QED
    BY <1>1, <2>4, <2>5, QuietThreads, Broadcast
<1>2. ASSUME NEW tx \in mempool, Mine(tx)
      PROVE  AnswerInv'
  <2>1. UNCHANGED <<response, lost>>
    BY <1>2, MineIs DEF threadVars
  <2>2. QED
    BY <1>2, <2>1, LeftByMining DEF AnswerInv
<1>3. ASSUME UNCHANGED relayVars PROVE AnswerInv'
  <2>1. UNCHANGED <<mempool, receipts, response, lost>>
    BY <1>3 DEF relayVars, threadVars
  <2>2. QED
    BY <2>1, LeftUnchanged DEF AnswerInv
<1>4. QED
  BY <1>1, <1>2, <1>3, StepIs

(* A received request keeps its charges; one that reads the clock gets another. *)
LEMMA ThreadCharges ==
  ASSUME TypesInv, ThreadInv, NEW r \in Requests, ThreadStep(r)
  PROVE  /\ Received' = Received
         /\ IF pc[r] = "Clock"
              THEN /\ <<r, "Direct">> \notin Charges /\ Charges' = Charges \cup {<<r, "Direct">>}
                   /\ totalRecords' = totalRecords + 1
              ELSE Charges' = Charges /\ totalRecords' = totalRecords
<1>1. PICK place \in Places, what \in Responses, fallback \in BOOLEAN :
        Path(r, place, what, fallback)
  BY ThreadPath
<1>2. /\ pc'[r] = place /\ place # "Idle" /\ pc[r] # "Idle"
      /\ fallback => Kind(r)' = "Direct"
      /\ ~fallback => Kind(r)' = Kind(r)
      /\ \A q \in Requests \ {r} : pc'[q] = pc[q] /\ Kind(q)' = Kind(q)
  BY <1>1, Moved DEF Path, ThreadStep, GatherConsensus, ReadClock, CheckCooldown, MarkRecord,
     ReadNonce, SendRawTransaction
<1>3. Received' = Received
  BY <1>2 DEF Received
<1>4. /\ fallback => Kind(r) = "MultiSigned" /\ place = "Clock"
      /\ place = "Clock" => fallback
      /\ pc[r] = "Clock" => Kind(r) = "Direct"
  BY <1>1, <1>2 DEF Path, ThreadInv
<1>5. \A q \in Requests \ {r}, kind \in {"MultiSigned", "Direct"} :
        Charged(q, kind)' <=> Charged(q, kind)
  BY <1>2 DEF Charged
<1>6. /\ Charged(r, "MultiSigned")' <=> Charged(r, "MultiSigned")
      /\ IF pc[r] = "Clock" THEN Charged(r, "Direct")' /\ ~Charged(r, "Direct")
                            ELSE Charged(r, "Direct")' <=> Charged(r, "Direct")
  BY <1>2, <1>4 DEF Charged
<1>7. r \in Received /\ Received \subseteq Requests
  BY <1>2 DEF Received
<1>8. CASE pc[r] = "Clock"
  <2>1. Charges' = Charges \cup {<<r, "Direct">>} /\ <<r, "Direct">> \notin Charges
    BY <1>3, <1>5, <1>6, <1>7, <1>8 DEF Charges
  <2>2. totalRecords' = totalRecords + 1
    BY <1>8 DEF ThreadStep, GatherConsensus, ReadClock, CheckCooldown, MarkRecord, ReadNonce,
       SendRawTransaction
  <2>3. QED
    BY <1>3, <1>8, <2>1, <2>2
<1>9. CASE pc[r] # "Clock"
  <2>1. Charges' = Charges
    BY <1>3, <1>5, <1>6, <1>7, <1>9 DEF Charges
  <2>2. totalRecords' = totalRecords
    BY <1>9 DEF ThreadStep, GatherConsensus, ReadClock, CheckCooldown, MarkRecord, ReadNonce,
       SendRawTransaction
  <2>3. QED
    BY <1>3, <1>9, <2>1, <2>2
<1>10. QED
  BY <1>8, <1>9

(* A request that comes in is charged when it is for the DON endpoint. *)
LEMMA ReceiveCharges ==
  ASSUME TypesInv, ThreadInv, NEW r \in Requests, Receive(r)
  PROVE  /\ r \notin Received /\ Received' = Received \cup {r}
         /\ IF RequestOf[r].endpoint = "RecordDON"
              THEN /\ <<r, "MultiSigned">> \notin Charges
                   /\ Charges' = Charges \cup {<<r, "MultiSigned">>}
                   /\ totalRecords' = totalRecords + 1
              ELSE Charges' = Charges /\ totalRecords' = totalRecords + 0
<1>1. PICK place \in {"Gather", "Clock", "Done"}, what \in Responses :
        /\ Path(r, place, what, FALSE)
        /\ RequestOf[r].endpoint = "Record" => place = "Clock"
  BY ReceivePath
<1>2. /\ pc'[r] = place /\ pc[r] = "Idle" /\ r \notin degraded
      /\ Kind(r)' = Kind(r)
      /\ \A q \in Requests \ {r} : pc'[q] = pc[q] /\ Kind(q)' = Kind(q)
  <2>1. Moves(r, place, what, FALSE) /\ place \in Places
    BY <1>1 DEF Path, Places
  <2>2. pc[r] = "Idle" /\ r \notin degraded
    BY DEF Receive, ThreadInv
  <2>3. QED
    BY <2>1, <2>2, Moved
<1>3. r \notin Received /\ Received' = Received \cup {r}
  BY <1>2 DEF Received
<1>4. \A q \in Requests \ {r}, kind \in {"MultiSigned", "Direct"} :
        Charged(q, kind)' <=> Charged(q, kind)
  BY <1>2 DEF Charged
<1>5. RequestOf[r].endpoint \in {"Record", "RecordDON"}
  BY RequestsAssumption
<1>6. /\ Charged(r, "MultiSigned")' <=> RequestOf[r].endpoint = "RecordDON"
      /\ ~Charged(r, "Direct")'
  BY <1>1, <1>2, <1>5, KindIs DEF Charged
<1>7. Received \subseteq Requests
  BY DEF Received
<1>8. IF RequestOf[r].endpoint = "RecordDON"
        THEN <<r, "MultiSigned">> \notin Charges /\ Charges' = Charges \cup {<<r, "MultiSigned">>}
        ELSE Charges' = Charges
  <2>1. \A q, kind : <<q, kind>> \in Charges' <=>
                       q \in Received' /\ kind \in {"MultiSigned", "Direct"} /\ Charged(q, kind)'
    BY DEF Charges
  <2>2. \A q, kind : <<q, kind>> \in Charges <=>
                       q \in Received /\ kind \in {"MultiSigned", "Direct"} /\ Charged(q, kind)
    BY DEF Charges
  <2>3. Charges \subseteq Requests \X {"MultiSigned", "Direct"}
    BY <1>7 DEF Charges
  <2>4. Charges' \subseteq Requests \X {"MultiSigned", "Direct"}
    BY <1>3, <1>7 DEF Charges
  <2>5. QED
    BY <1>3, <1>4, <1>6, <1>7, <2>1, <2>2, <2>3, <2>4
<1>9. QED
  BY <1>3, <1>8 DEF Receive

(* There are finitely many charges: two for every request received at most. *)
LEMMA ChargesAreFew ==
  ASSUME IsFiniteSet(Received), Cardinality(Received) <= MaxRequests
  PROVE  IsFiniteSet(Charges) /\ Cardinality(Charges) \in 0..(2 * MaxRequests)
<1>1. IsFiniteSet({"MultiSigned", "Direct"}) /\ Cardinality({"MultiSigned", "Direct"}) = 2
  <2>1. {"MultiSigned", "Direct"} = {"MultiSigned"} \cup {"Direct"}
    OBVIOUS
  <2>2. IsFiniteSet({"MultiSigned"}) /\ Cardinality({"MultiSigned"}) = 1
    BY FS_Singleton
  <2>3. "Direct" \notin {"MultiSigned"}
    OBVIOUS
  <2>4. /\ IsFiniteSet({"MultiSigned"} \cup {"Direct"})
        /\ Cardinality({"MultiSigned"} \cup {"Direct"}) = Cardinality({"MultiSigned"}) + 1
    BY <2>2, <2>3, FS_AddElement
  <2>5. QED
    BY <2>1, <2>2, <2>4
<1>2. /\ IsFiniteSet(Received \X {"MultiSigned", "Direct"})
      /\ Cardinality(Received \X {"MultiSigned", "Direct"}) = Cardinality(Received) * 2
  BY <1>1, FS_Product
<1>3. Charges \in SUBSET (Received \X {"MultiSigned", "Direct"})
  BY DEF Charges
<1>4. IsFiniteSet(Charges) /\ Cardinality(Charges) <= Cardinality(Received) * 2
  BY <1>2, <1>3, FS_Subset
<1>5. Cardinality(Received) \in Nat /\ Cardinality(Charges) \in Nat
  BY <1>4, FS_CardinalityType
<1>6. QED
  BY <1>4, <1>5, MaxRequestsAssumption

LEMMA CountStep ==
  ASSUME TypesInv, ThreadInv, CountInv, [RelayNext]_systemVars
  PROVE  CountInv'
<1>1. /\ IsFiniteSet(Received) /\ Cardinality(Received) \in Nat
      /\ IsFiniteSet(Charges) /\ totalRecords = Cardinality(Charges)
  BY ChargesAreFew, FS_CardinalityType DEF CountInv
<1>2. ASSUME NEW r \in Requests, Receive(r)
      PROVE  CountInv'
  <2>1. Cardinality(Received) < MaxRequests
    BY <1>2 DEF Receive, Received
  <2>2. \A x : /\ IsFiniteSet(Received \cup {x})
               /\ Cardinality(Received \cup {x}) <= Cardinality(Received) + 1
    <3>1. SUFFICES ASSUME NEW x
                   PROVE  /\ IsFiniteSet(Received \cup {x})
                          /\ Cardinality(Received \cup {x}) <= Cardinality(Received) + 1
      OBVIOUS
    <3>2. /\ IsFiniteSet(Received \cup {x})
          /\ \/ Cardinality(Received \cup {x}) = Cardinality(Received)
             \/ Cardinality(Received \cup {x}) = Cardinality(Received) + 1
      BY <1>1, FS_AddElement
    <3>3. QED
      BY <1>1, <3>2
  <2>3. \A c : c \notin Charges => Cardinality(Charges \cup {c}) = Cardinality(Charges) + 1
    BY <1>1, FS_AddElement
  <2>4. IsFiniteSet(Received)' /\ (Cardinality(Received) <= MaxRequests)'
    <3>1. Received' = Received \cup {r}
      BY <1>2, ReceiveCharges DEF CountInv
    <3>2. IsFiniteSet(Received') /\ Cardinality(Received') <= Cardinality(Received) + 1
      BY <2>2, <3>1
    <3>3. Cardinality(Received') \in Nat
      BY <3>2, FS_CardinalityType
    <3>4. QED
      BY <1>1, <2>1, <3>2, <3>3, MaxRequestsAssumption
  <2>5. totalRecords' = Cardinality(Charges')
    <3>1. IF RequestOf[r].endpoint = "RecordDON"
            THEN /\ <<r, "MultiSigned">> \notin Charges
                 /\ Charges' = Charges \cup {<<r, "MultiSigned">>}
                 /\ totalRecords' = totalRecords + 1
            ELSE Charges' = Charges /\ totalRecords' = totalRecords + 0
      BY <1>2, ReceiveCharges
    <3>2. Cardinality(Charges) \in Nat
      BY <1>1, FS_CardinalityType
    <3>3. QED
      BY <1>1, <2>3, <3>1, <3>2
  <2>6. QED
    BY <2>4, <2>5 DEF CountInv
<1>3. ASSUME NEW r \in Requests, ThreadStep(r)
      PROVE  CountInv'
  <2>1. IsFiniteSet(Received') /\ Cardinality(Received') <= MaxRequests
    BY <1>3, ThreadCharges DEF CountInv
  <2>2. totalRecords' = Cardinality(Charges')
    BY <1>1, <1>3, ThreadCharges, FS_AddElement
  <2>3. QED
    BY <2>1, <2>2 DEF CountInv
<1>4. ASSUME UNCHANGED <<pc, degraded, totalRecords>>
      PROVE  CountInv'
  <2>1. Received' = Received
    BY <1>4 DEF Received
  <2>2. Charges' = Charges
    BY <1>4, <2>1 DEF Charges, Charged, Kind
  <2>3. QED
    BY <1>4, <2>1, <2>2 DEF CountInv
<1>5. QED
  BY <1>2, <1>3, <1>4, StepIs, MineIs DEF relayVars, threadVars

-----------------------------------------------------------------------------
(* The six parts hold from the start ... *)
LEMMA RelayInitInv ==
  ASSUME RelayInit
  PROVE  RelayInv
<1>1. /\ pc = [r \in Requests |-> "Idle"] /\ degraded = {}
      /\ gathered = [r \in Requests |-> <<>>]
      /\ readTime = [r \in Requests |-> 0] /\ nonce = [r \in Requests |-> 0]
      /\ response = [r \in Requests |-> "None"]
      /\ totalRecords = 0 /\ recentRecords = [a \in Assets |-> Never]
      /\ mempool = {} /\ receipts = <<>> /\ lost = {} /\ now = 0
  BY DEF RelayInit, RepositoryInit
<1>2. TypesInv
  BY <1>1, BoundsAssumption DEF TypesInv
<1>3. AccountInv /\ ThreadInv
  BY <1>1 DEF AccountInv, ThreadInv
<1>4. \A kind : \A r \in Requests : ~Left(r, kind)
  BY <1>1 DEF Left, Waits, Mines
<1>5. SubmissionInv /\ AnswerInv
  BY <1>1, <1>4 DEF SubmissionInv, AnswerInv
<1>6. CountInv
  <2>1. Received = {}
    BY <1>1 DEF Received
  <2>2. Charges = {}
    BY <2>1 DEF Charges
  <2>3. QED
    BY <1>1, <2>1, <2>2, FS_EmptySet, MaxRequestsAssumption DEF CountInv
<1>7. QED
  BY <1>2, <1>3, <1>5, <1>6 DEF RelayInv

(* ... and every step keeps them. *)
LEMMA RelayStepInv ==
  ASSUME RelayInv, [RelayNext]_systemVars
  PROVE  RelayInv'
  BY TypesStep, AccountStep, ThreadStepKeeps, SubmissionStep, AnswerStep, CountStep DEF RelayInv

THEOREM RelayAlwaysInv == RelaySpec => []RelayInv
<1>1. RelayInit => RelayInv
  BY RelayInitInv
<1>2. RelayInv /\ [RelayNext]_systemVars => RelayInv'
  BY RelayStepInv
<1>3. QED
  BY <1>1, <1>2, PTL DEF RelaySpec

-----------------------------------------------------------------------------
LEMMA AtMostOne ==
  ASSUME NEW S, \A t, u \in S : t = u
  PROVE  IsFiniteSet(S) /\ Cardinality(S) <= 1
<1>1. CASE S = {}
  <2>1. IsFiniteSet(S) /\ Cardinality(S) = 0
    BY <1>1, FS_EmptySet
  <2>2. QED
    BY <2>1
<1>2. ASSUME NEW t \in S PROVE IsFiniteSet(S) /\ Cardinality(S) <= 1
  <2>1. S = {t}
    OBVIOUS
  <2>2. IsFiniteSet(S) /\ Cardinality(S) = 1
    BY <2>1, FS_Singleton
  <2>3. QED
    BY <2>2
<1>3. QED
  BY <1>1, <1>2

LEMMA ReceiptIs ==
  ASSUME TypesInv
  PROVE  /\ DOMAIN receipts = 1..Len(receipts)
         /\ \A k \in 1..Len(receipts) :
              receipts[k].request \in Requests /\ receipts[k].kind \in {"MultiSigned", "Direct"}
<1> DEFINE R == [request : Requests, kind : {"MultiSigned", "Direct"}, recorded : BOOLEAN]
<1>1. receipts \in Seq(R)
  BY DEF TypesInv
<1>2. \A x \in R : x.request \in Requests /\ x.kind \in {"MultiSigned", "Direct"}
  OBVIOUS
<1> HIDE DEF R
<1>3. DOMAIN receipts = 1..Len(receipts) /\ \A k \in 1..Len(receipts) : receipts[k] \in R
  BY <1>1
<1>4. QED
  BY <1>2, <1>3

(* What waits is one transaction, and everything has its type: get_transaction_count
   reads the latest block, so every thread signs with the next nonce. *)
THEOREM OneTransactionAlways == RelaySpec => []OneTransactionInFlight
<1>1. RelayInv => OneTransactionInFlight
  <2> SUFFICES ASSUME RelayInv PROVE OneTransactionInFlight
    OBVIOUS
  <2>1. TypesInv /\ AccountInv /\ CountInv
    BY DEF RelayInv
  <2>2. totalRecords \in 0..(2 * MaxRequests)
    BY <2>1, ChargesAreFew DEF CountInv
  <2>3. RelayTypeOK
    BY <2>1, <2>2 DEF TypesInv, RelayTypeOK
  <2>4. Cardinality(mempool) <= 1
    BY <2>1, AtMostOne DEF AccountInv
  <2>5. QED
    BY <2>1, <2>3, <2>4 DEF OneTransactionInFlight, AccountInv
<1>2. QED
  BY <1>1, RelayAlwaysInv, PTL

(* A request that left a recorded receipt was told so; a receipt of each kind there
   is one of, and only one kind goes with an answer. *)
LEMMA RecordedIsLeft ==
  ASSUME TypesInv, NEW r \in Requests, NEW k \in RecordedFor(r)
  PROVE  /\ k \in 1..Len(receipts) /\ receipts[k].request = r
         /\ receipts[k].kind \in {"MultiSigned", "Direct"}
         /\ Mines(r, receipts[k].kind) /\ Left(r, receipts[k].kind)
<1>1. k \in DOMAIN receipts /\ receipts[k].request = r
  BY DEF RecordedFor
<1>2. k \in 1..Len(receipts) /\ receipts[k].kind \in {"MultiSigned", "Direct"}
  BY <1>1, ReceiptIs
<1>3. QED
  BY <1>1, <1>2 DEF Mines, Left

(* One request, one report: the fallback of a broadcast that was answered never
   runs, so only a lost answer lets both transactions count. *)
THEOREM RequestsAlwaysRecordOnce == RelaySpec => []RequestRecordsOnce
<1>1. RelayInv => RequestRecordsOnce
  <2> SUFFICES ASSUME RelayInv, NEW r \in Requests \ lost
               PROVE  Cardinality(RecordedFor(r)) <= 1
    BY DEF RequestRecordsOnce
  <2>1. TypesInv /\ SubmissionInv /\ AnswerInv
    BY DEF RelayInv
  <2>2. ASSUME NEW j \in RecordedFor(r), NEW k \in RecordedFor(r)
        PROVE  j = k
    <3>1. /\ j \in 1..Len(receipts) /\ receipts[j].request = r
          /\ receipts[j].kind \in {"MultiSigned", "Direct"} /\ Left(r, receipts[j].kind)
      BY <2>1, RecordedIsLeft
    <3>2. /\ k \in 1..Len(receipts) /\ receipts[k].request = r
          /\ receipts[k].kind \in {"MultiSigned", "Direct"} /\ Left(r, receipts[k].kind)
      BY <2>1, RecordedIsLeft
    <3>3. receipts[j].kind = receipts[k].kind
      BY <2>1, <3>1, <3>2 DEF AnswerInv
    <3>4. QED
      BY <2>1, <3>1, <3>2, <3>3 DEF SubmissionInv
  <2>3. QED
    BY <2>2, AtMostOne
<1>2. QED
  BY <1>1, RelayAlwaysInv, PTL

(* Every receipt and every waiting transaction stands for a charge of its own. *)
LEMMA ReceiptsAreCharged ==
  ASSUME RelayInv
  PROVE  totalRecords >= Cardinality({k \in DOMAIN receipts : receipts[k].recorded}) + Cardinality(mempool)
<1> DEFINE Recorded == {k \in DOMAIN receipts : receipts[k].recorded}
           f == [k \in Recorded |-> <<receipts[k].request, receipts[k].kind>>]
<1>1. TypesInv /\ AccountInv /\ ThreadInv /\ SubmissionInv /\ CountInv
  BY DEF RelayInv
<1>2. IsFiniteSet(Charges) /\ Cardinality(Charges) \in Nat /\ totalRecords = Cardinality(Charges)
  BY <1>1, ChargesAreFew, FS_CardinalityType DEF CountInv
<1>3. ASSUME NEW r \in Requests, NEW kind \in {"MultiSigned", "Direct"}, Left(r, kind)
      PROVE  <<r, kind>> \in Charges
  <2>1. r \in Received
    BY <1>1, <1>3 DEF SubmissionInv, ThreadInv, Received
  <2>2. Charged(r, kind)
    BY <1>1, <1>3 DEF SubmissionInv, Charged
  <2>3. QED
    BY <2>1, <2>2 DEF Charges
<1>4. \A k \in 1..Len(receipts) :
        /\ receipts[k].request \in Requests /\ receipts[k].kind \in {"MultiSigned", "Direct"}
        /\ Mines(receipts[k].request, receipts[k].kind)
        /\ Left(receipts[k].request, receipts[k].kind)
  BY <1>1, ReceiptIs DEF Mines, Left
<1>5. DOMAIN receipts = 1..Len(receipts)
  BY <1>1, ReceiptIs
<1>6. \A j, k \in Recorded : f[j] = f[k] => j = k
  BY <1>1, <1>5 DEF SubmissionInv
<1>7. \A k \in Recorded : f[k] \in Charges
  BY <1>3, <1>4, <1>5
<1>8. ASSUME NEW T, IsFiniteSet(T), \A k \in Recorded : f[k] \in T
      PROVE  IsFiniteSet(Recorded) /\ Cardinality(Recorded) <= Cardinality(T)
  <2>1. f \in [Recorded -> T]
    BY <1>8
  <2>2. f \in Injection(Recorded, T)
    BY <1>6, <2>1, Fun_IsInj
  <2> HIDE DEF f, Recorded
  <2>3. QED
    BY <1>8, <2>2, FS_Injection
<1>9. CASE mempool = {}
  <2>1. Cardinality(mempool) = 0
    BY <1>9, FS_EmptySet
  <2>2. IsFiniteSet(Recorded) /\ Cardinality(Recorded) <= Cardinality(Charges)
    BY <1>2, <1>7, <1>8
  <2>3. Cardinality(Recorded) \in Nat
    BY <2>2, FS_CardinalityType
  <2>4. QED
    BY <1>2, <2>1, <2>2, <2>3
<1>10. ASSUME NEW tx \in mempool
       PROVE  totalRecords >= Cardinality(Recorded) + Cardinality(mempool)
  <2> DEFINE c == <<tx.request, tx.kind>>
  <2>1. mempool = {tx} /\ Cardinality(mempool) = 1
    <3>1. mempool = {tx}
      BY <1>1 DEF AccountInv
    <3>2. QED
      BY <3>1, FS_Singleton
  <2>2. tx.request \in Requests /\ tx.kind \in {"MultiSigned", "Direct"}
    BY <1>1 DEF TypesInv, Transaction
  <2>3. c \in Charges
    BY <1>3, <2>2 DEF Left, Waits
  <2>4. \A k \in Recorded : f[k] # c
    BY <1>1, <1>5, <2>2 DEF SubmissionInv, Mines
  <2> HIDE DEF c, f, Recorded
  <2>5. \A k \in Recorded : f[k] \in Charges \ {c}
    BY <1>7, <2>4
  <2>6. IsFiniteSet(Charges \ {c}) /\ Cardinality(Charges \ {c}) = Cardinality(Charges) - 1
    BY <1>2, <2>3, FS_RemoveElement
  <2>7. IsFiniteSet(Recorded) /\ Cardinality(Recorded) <= Cardinality(Charges \ {c})
    BY <1>8, <2>5, <2>6
  <2>8. Cardinality(Recorded) \in Nat
    BY <2>7, FS_CardinalityType
  <2>9. QED
    BY <1>2, <2>1, <2>6, <2>7, <2>8
<1>11. QED
  BY <1>9, <1>10

(* What the client was told is how its request was vouched for, and the published
   counter never claims fewer records than there are. *)
THEOREM AnswersAlwaysMatch == RelaySpec => []AnswersMatchTheChain
<1>1. RelayInv => AnswersMatchTheChain
  <2> SUFFICES ASSUME RelayInv PROVE AnswersMatchTheChain
    OBVIOUS
  <2>1. TypesInv /\ AnswerInv
    BY DEF RelayInv
  <2>2. ASSUME NEW r \in Requests \ lost
        PROVE  LET kinds == {tx.kind : tx \in {t \in mempool : t.request = r}}
                              \cup {receipts[k].kind : k \in RecordedFor(r)}
               IN  /\ response[r] = "Quorum" => kinds \subseteq {"MultiSigned"}
                   /\ response[r] \in {"Degraded", "Single"} => kinds \subseteq {"Direct"}
                   /\ response[r] \in {"None", "TooMany", "Error"} => kinds = {}
    <3> DEFINE kinds == {tx.kind : tx \in {t \in mempool : t.request = r}}
                          \cup {receipts[k].kind : k \in RecordedFor(r)}
    <3>1. \A kind \in kinds : kind \in {"MultiSigned", "Direct"} /\ Left(r, kind)
      <4>1. \A tx \in mempool : tx.request = r =>
              tx.kind \in {"MultiSigned", "Direct"} /\ Left(r, tx.kind)
        BY <2>1 DEF TypesInv, Transaction, Left, Waits
      <4>2. \A k \in RecordedFor(r) :
              receipts[k].kind \in {"MultiSigned", "Direct"} /\ Left(r, receipts[k].kind)
        BY <2>1, RecordedIsLeft
      <4>3. QED
        BY <4>1, <4>2
    <3> HIDE DEF kinds
    <3>2. /\ Left(r, "MultiSigned") => response[r] = "Quorum"
          /\ Left(r, "Direct") => response[r] \in {"Degraded", "Single"}
      BY <2>1 DEF AnswerInv
    <3>3. \A kind \in kinds : \/ kind = "MultiSigned" /\ response[r] = "Quorum"
                              \/ kind = "Direct" /\ response[r] \in {"Degraded", "Single"}
      BY <3>1, <3>2
    <3>4. QED
      BY <3>3 DEF kinds
  <2>3. QED
    BY <2>2, ReceiptsAreCharged DEF AnswersMatchTheChain
<1>2. QED
  BY <1>1, RelayAlwaysInv, PTL

-----------------------------------------------------------------------------
(* What the coordinator assembled is as long as the quorum and stands in the order
   the contract asks for. *)
LEMMA AssembledIsSorted ==
  ASSUME NEW tx, Assembled(tx.attestations)
  PROVE  /\ Len(Signers(tx)) = MinQuorum
         /\ SortedAndUnique(Signers(tx))
         /\ DOMAIN Signers(tx) = DOMAIN tx.attestations
<1>1. /\ tx.attestations \in Seq(Attestation) /\ Len(tx.attestations) = MinQuorum
      /\ \A i, j \in 1..MinQuorum : i < j => tx.attestations[i].signer < tx.attestations[j].signer
  BY DEF Assembled
<1> DEFINE signers == Signers(tx)
<1>2. DOMAIN tx.attestations = 1..MinQuorum /\ MinQuorum \in Nat
  BY <1>1, EndpointsAssumption
<1>3. signers = [k \in 1..MinQuorum |-> tx.attestations[k].signer]
  BY <1>2 DEF Signers
<1>4. \A k \in 1..MinQuorum : signers[k] \in Accounts
  <2>1. \A a \in Attestation : a.signer \in Range(Endpoints)
    BY DEF Attestation
  <2>2. Range(Endpoints) \subseteq Accounts
    BY EndpointsAssumption DEF Range
  <2>3. \A k \in 1..MinQuorum : tx.attestations[k] \in Attestation
    BY <1>1, <1>2
  <2>4. QED
    BY <1>3, <2>1, <2>2, <2>3
<1>5. signers \in Seq(Accounts) /\ Len(signers) = MinQuorum /\ DOMAIN signers = 1..MinQuorum
  <2>1. signers \in [1..MinQuorum -> Accounts]
    BY <1>3, <1>4
  <2> HIDE DEF signers
  <2>2. QED
    BY <1>2, <2>1
<1>6. \A k \in 1..MinQuorum : signers[k] > ZeroAddress
  <2>1. \A a \in Accounts : a > ZeroAddress
    BY AccountsAssumption DEF ZeroAddress
  <2> HIDE DEF signers
  <2>2. QED
    BY <1>4, <2>1
<1>7. \A i, j \in 1..MinQuorum : i < j => signers[i] < signers[j]
  BY <1>1, <1>3
<1>8. QED
  BY <1>2, <1>5, <1>6, <1>7 DEF SortedAndUnique

(* A quorum whose nodes signed what is submitted is recorded by a contract that
   still knows the nodes: the call cannot revert on the signatures' order. *)
THEOREM SignedQuorumAlwaysRecorded == RelaySpec => SignedQuorumIsRecorded
<1>1. RelayInv /\ [RelayNext]_systemVars => [SignedIsRecorded]_systemVars
  <2> SUFFICES ASSUME RelayInv, [RelayNext]_systemVars, NEW tx \in mempool,
                      tx.kind = "MultiSigned", Mined(tx), ContractIsReady(tx),
                      \A k \in DOMAIN tx.attestations :
                        SignedBy(tx.attestations[k]) = Submitted(tx.request)
               PROVE  receipts'[Len(receipts')].recorded
    BY DEF SignedIsRecorded
  <2>1. TypesInv /\ ThreadInv /\ AccountInv /\ SubmissionInv
    BY DEF RelayInv
  <2>2. Len(receipts) \in Nat /\ Len(receipts') = Len(receipts) + 1
    BY <2>1 DEF TypesInv, Mined
  <2>3. \E u \in mempool : Mine(u)
    <3>1. receipts' # receipts
      BY <2>2
    <3>2. QED
      BY <2>1, <3>1, StepIs, OwnLocals DEF relayVars
  <2>4. Mine(tx)
    BY <2>1, <2>3 DEF AccountInv
  <2>5. receipts'[Len(receipts')].recorded = CallSucceeds(tx)
    BY <2>1, <2>4, MinedTypes
  <2>6. Assembled(tx.attestations)
    BY <2>1 DEF SubmissionInv
  <2>7. /\ Len(Signers(tx)) = MinQuorum /\ SortedAndUnique(Signers(tx))
        /\ DOMAIN Signers(tx) = DOMAIN tx.attestations
    BY <2>6, AssembledIsSorted
  <2>8. \A k \in DOMAIN Signers(tx) : Recovered(tx)[k] = Signers(tx)[k]
    BY <2>7 DEF Recovered, Signers
  <2>9. CallSucceeds(tx)
    BY <2>7, <2>8 DEF ContractIsReady, CallSucceeds
  <2>10. QED
    BY <2>5, <2>9
<1>2. QED
  BY <1>1, RelayAlwaysInv, PTL DEF RelaySpec, SignedQuorumIsRecorded
=============================================================================
