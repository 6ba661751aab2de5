----------------------------- MODULE ChainViews -----------------------------
(***************************************************************************)
(* What the pages show of the chain: the certificates of an address with   *)
(* their finality (useOnChainHistory), the figures of /api/stats/onchain   *)
(* on the header (useBackendStatus) and the dashboard, and the             *)
(* cross-chain transaction a user has checked by /api/attestcoin/verify    *)
(* before a report is recorded with it (ProofVerifier).                    *)
(*                                                                         *)
(* Nothing is read in one block: a list is followed by one call for each   *)
(* of its entries, the figures are separate calls, and a page may have     *)
(* several reads under way.  The chain goes on meanwhile: reports are      *)
(* appended, and a report once final stays so.                             *)
(***************************************************************************)
EXTENDS Integers, Sequences, FiniteSets, SequencesExt, Sums

CONSTANTS
    Subjects,     \* addresses with certificates
    Fetches,      \* reads of the history under way
    Polls,        \* reads of the figures under way
    Checks,       \* checks of a transaction under way
    SourceTxs,    \* transactions of the source chain
    Null,         \* null
    MaxOnChain    \* bound on the reports of an address

ASSUME ViewsAssumption ==
    /\ IsFiniteSet(Subjects) /\ MaxOnChain \in Nat
    /\ Null \notin SourceTxs \cup Nat

VARIABLES
    onchain,        \* subject -> [count, final]; and the proofs verified so far
    proofs,
    fetching,       \* fetch -> [stage, subject, length, parsed]
    certificates,   \* the panel: [records, loading]
    poll,           \* poll -> [stage, viewer, count, verified]
    figures,        \* viewer -> [connected, count, verified]
    answerable,     \* the transactions the prover answers for
    box,            \* attestcoinTxHash
    check,          \* check -> the transaction it is about, or Null
    checking,       \* attestcoinLoading
    attested,       \* attestcoinResult: [tx, live], or Null
    used            \* source_tx_hash of the last call of /api/record-verified
chainVars == <<onchain, proofs, answerable>>
historyVars == <<fetching, certificates>>
figureVars == <<poll, figures>>
checkVars == <<box, check, checking, attested, used>>
viewVars == <<chainVars, historyVars, figureVars, checkVars>>

Viewers == {"header", "dashboard"}
Idle == [stage |-> "idle", subject |-> Null, length |-> 0, parsed |-> <<>>]
NotPolling == [stage |-> "idle", viewer |-> Null, count |-> Null, verified |-> Null]

ViewsInit ==
    /\ onchain = [s \in Subjects |-> [count |-> 0, final |-> {}]]
    /\ proofs = 0
    /\ fetching = [k \in Fetches |-> Idle]
    /\ certificates = [records |-> <<>>, loading |-> FALSE]
    /\ poll = [k \in Polls |-> NotPolling]
    /\ figures = [v \in Viewers |-> [connected |-> FALSE, count |-> Null, verified |-> Null]]
    /\ answerable = {}
    /\ box = CHOOSE tx \in SourceTxs : TRUE   \* the placeholder of the field
    /\ checking = FALSE
    /\ check = [k \in Checks |-> Null]
    /\ attested = Null
    /\ used = Null

-----------------------------------------------------------------------------
(* The chain.                                                                *)

Save(s) ==
    /\ onchain[s].count < MaxOnChain
    /\ onchain' = [onchain EXCEPT ![s].count = @ + 1]

SaveReport(s) ==
    /\ Save(s)
    /\ UNCHANGED <<proofs, answerable, historyVars, figureVars, checkVars>>

SaveReportWithProof(s) ==
    /\ Save(s)
    /\ proofs' = proofs + 1
    /\ UNCHANGED <<answerable, historyVars, figureVars, checkVars>>

(* Its dispute window has passed. *)
BecomeFinal(s) ==
    /\ \E i \in 1..onchain[s].count \ onchain[s].final :
          onchain' = [onchain EXCEPT ![s].final = @ \cup {i}]
    /\ UNCHANGED <<proofs, answerable, historyVars, figureVars, checkVars>>

-----------------------------------------------------------------------------
(* fetchOnChainHistory: after an analysis, after a recording, on demand.     *)

FetchOnChainHistory(k, s) ==
    /\ fetching[k].stage = "idle"
    /\ fetching' = [fetching EXCEPT ![k] = [Idle EXCEPT !.stage = "asking", !.subject = s]]
    /\ certificates' = [certificates EXCEPT !.loading = TRUE]
    /\ UNCHANGED <<chainVars, figureVars, checkVars>>

EndFetch(k, records) ==
    /\ fetching' = [fetching EXCEPT ![k] = Idle]
    /\ certificates' = [records |-> records, loading |-> FALSE]
    /\ UNCHANGED <<chainVars, figureVars, checkVars>>

HistoryFails(k) == fetching[k].stage = "asking" /\ EndFetch(k, <<>>)

NoHistory(k) ==
    /\ fetching[k].stage = "asking" /\ onchain[fetching[k].subject].count = 0
    /\ EndFetch(k, <<>>)

HistoryArrives(k) ==
    /\ fetching[k].stage = "asking" /\ onchain[fetching[k].subject].count > 0
    /\ fetching' = [fetching EXCEPT ![k].stage = "checking",
                                    ![k].length = onchain[fetching[k].subject].count]
    /\ UNCHANGED <<chainVars, certificates, figureVars, checkVars>>

(* A plausible slip: the list is walked newest first and the contract asked by
   the place in that order. *)
PlaceInPanel(k) == fetching[k].length - Len(fetching[k].parsed)

(* The report isReportFinalized is asked about: the next of the list. *)
PlaceOnChain(k) == Len(fetching[k].parsed) + 1

(* isReportFinalized answers, or fails and counts as no. *)
FinalityOf(k) == {FALSE, PlaceOnChain(k) \in onchain[fetching[k].subject].final}

Parse(k, isFinal) ==
    Append(fetching[k].parsed,
           [subject |-> fetching[k].subject, report |-> Len(fetching[k].parsed) + 1,
            isFinalized |-> isFinal])

(* The calls are made one after the other; after the last the list is shown,
   the newest first. *)
FinalityArrives(k) ==
    /\ fetching[k].stage = "checking"
    /\ \E isFinal \in FinalityOf(k) :
          IF Len(fetching[k].parsed) + 1 < fetching[k].length
            THEN /\ fetching' = [fetching EXCEPT ![k].parsed = Parse(k, isFinal)]
                 /\ UNCHANGED <<chainVars, certificates, figureVars, checkVars>>
            ELSE EndFetch(k, Reverse(Parse(k, isFinal)))

-----------------------------------------------------------------------------
(* /api/stats/onchain, asked by the header once and by the dashboard again    *)
(* and again.                                                                 *)

AskFigures(k, v) ==
    /\ poll[k].stage = "idle"
    /\ poll' = [poll EXCEPT ![k] = [NotPolling EXCEPT !.stage = "asking", !.viewer = v]]
    /\ UNCHANGED <<chainVars, historyVars, figures, checkVars>>

Total == SumOver([s \in Subjects |-> onchain[s].count], Subjects)

(* The calls of Promise.all return in any order. *)
ReadReportCount(k) ==
    /\ poll[k].stage = "asking" /\ poll[k].count = Null
    /\ poll' = [poll EXCEPT ![k].count = Total]
    /\ UNCHANGED <<chainVars, historyVars, figures, checkVars>>

ReadVerifiedProofCount(k) ==
    /\ poll[k].stage = "asking" /\ poll[k].verified = Null
    /\ poll' = [poll EXCEPT ![k].verified = proofs]
    /\ UNCHANGED <<chainVars, historyVars, figures, checkVars>>

ShowFigures(k, connected, count, verified) ==
    /\ figures' = [figures EXCEPT ![poll[k].viewer] =
                      [connected |-> connected, count |-> count, verified |-> verified]]
    /\ poll' = [poll EXCEPT ![k] = NotPolling]
    /\ UNCHANGED <<chainVars, historyVars, checkVars>>

FiguresArrive(k) ==
    /\ poll[k].stage = "asking" /\ poll[k].count # Null /\ poll[k].verified # Null
    /\ ShowFigures(k, TRUE, poll[k].count, poll[k].verified)

(* One call fails: every figure of the answer is null, whatever the others
   said; the dashboard shows the proofs as 0. *)
RpcFails(k) ==
    /\ poll[k].stage = "asking"
    /\ ShowFigures(k, FALSE, Null, IF poll[k].viewer = "dashboard" THEN 0 ELSE Null)

(* The route cannot be reached: the header keeps what it has after a second
   try, the dashboard shows none. *)
HeaderGetsNothing(k) ==
    /\ poll[k].stage = "asking" /\ poll[k].viewer = "header"
    /\ poll' = [poll EXCEPT ![k] = NotPolling]
    /\ UNCHANGED <<chainVars, historyVars, figures, checkVars>>

DashboardGetsNothing(k) ==
    /\ poll[k].stage = "asking" /\ poll[k].viewer = "dashboard"
    /\ ShowFigures(k, FALSE, Null, Null)

-----------------------------------------------------------------------------
(* ProofVerifier and /api/attestcoin/verify.                                 *)

(* The prover knows the block of another transaction. *)
BlockAttested ==
    /\ \E tx \in SourceTxs \ answerable : answerable' = answerable \cup {tx}
    /\ UNCHANGED <<onchain, proofs, historyVars, figureVars, checkVars>>

TypeHash ==
    /\ box' \in SourceTxs \ {box}
    /\ UNCHANGED <<chainVars, historyVars, figureVars, check, checking, attested, used>>

StartCheck(k, tx) ==
    /\ check[k] = Null
    /\ check' = [check EXCEPT ![k] = tx]
    /\ checking' = TRUE
    /\ attested' = Null
    /\ UNCHANGED <<chainVars, historyVars, figureVars, used>>

(* The button is disabled while attestcoinLoading, an example is not and puts
   its hash into the box. *)
VerifyBox(k) == ~checking /\ StartCheck(k, box) /\ UNCHANGED box
VerifyExample(k, tx) == StartCheck(k, tx) /\ box' = tx

EndCheck(k, result) ==
    /\ check[k] # Null
    /\ check' = [check EXCEPT ![k] = Null]
    /\ checking' = FALSE
    /\ attested' = result
    /\ UNCHANGED <<chainVars, historyVars, figureVars, box, used>>

(* The prover answers, which the route takes for a proof whether or not the
   answer holds one of this transaction; otherwise the route commits to it. *)
ProverAnswers(k) == check[k] \in answerable /\ EndCheck(k, [tx |-> check[k], live |-> TRUE])
CommitInstead(k) == EndCheck(k, [tx |-> check[k], live |-> FALSE])
CheckFails(k) == EndCheck(k, attested)

(* recordVerifiedOnChain takes the hash of the result, not of the box. *)
UseAttested ==
    /\ attested # Null
    /\ used' = attested
    /\ UNCHANGED <<chainVars, historyVars, figureVars, box, check, checking, attested>>

-----------------------------------------------------------------------------
HistoryNext ==
    \E k \in Fetches :
        \/ \E s \in Subjects : FetchOnChainHistory(k, s)
        \/ HistoryFails(k) \/ NoHistory(k) \/ HistoryArrives(k) \/ FinalityArrives(k)

FiguresNext ==
    \E k \in Polls :
        \/ \E v \in Viewers : AskFigures(k, v)
        \/ ReadReportCount(k) \/ ReadVerifiedProofCount(k)
        \/ FiguresArrive(k) \/ RpcFails(k) \/ HeaderGetsNothing(k) \/ DashboardGetsNothing(k)

CheckNext ==
    \/ BlockAttested \/ TypeHash \/ UseAttested
    \/ \E k \in Checks :
          \/ VerifyBox(k) \/ \E tx \in SourceTxs : VerifyExample(k, tx)
          \/ ProverAnswers(k) \/ CommitInstead(k) \/ CheckFails(k)

ChainNext == \E s \in Subjects : SaveReport(s) \/ SaveReportWithProof(s) \/ BecomeFinal(s)

ViewsNext == ChainNext \/ HistoryNext \/ FiguresNext \/ CheckNext

ViewsSpec == ViewsInit /\ [][ViewsNext]_viewVars

-----------------------------------------------------------------------------
(* The panel: the first reports of one address, all of them and the newest
   first, and what it calls final is final on chain - although the list and
   the finality of each entry were read in different blocks and several reads
   may have ended in any order. *)
CertificatesAreTrue ==
    LET shown == certificates.records IN
    \A i \in DOMAIN shown :
        /\ shown[i].subject = shown[1].subject
        /\ shown[i].report = Len(shown) + 1 - i
        /\ shown[i].report <= onchain[shown[i].subject].count
        /\ shown[i].isFinalized => shown[i].report \in onchain[shown[i].subject].final

(* The figures are never ahead of the chain, and without a connection there is
   no number of reports. *)
FiguresAreTrue ==
    \A v \in Viewers :
        /\ figures[v].count # Null => figures[v].connected /\ figures[v].count <= Total
        /\ figures[v].verified # Null => figures[v].verified <= proofs

(* A transaction that is passed on as live is one the prover answers for,
   whatever was typed into the box and however the checks overtook each
   other. *)
ProofIsItsOwn == used # Null => (used.live => used.tx \in answerable)

PageShowsTheChain == CertificatesAreTrue /\ FiguresAreTrue /\ ProofIsItsOwn
=============================================================================
