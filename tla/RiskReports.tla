---------------------------- MODULE RiskReports ----------------------------
(***************************************************************************)
(* The report and certificate histories of CreditPulseASC: sections 4 to 7  *)
(* of contracts/contracts/CreditPulseScore.sol, on top of OracleRegistry.   *)
(*                                                                         *)
(* A message is what an oracle signs: the asset, the scores (here the       *)
(* overall score, the only one a guard reads) and the data hash.  A         *)
(* signature is represented by the account _recoverSigner recovers from it  *)
(* for the message at hand; recovery itself is outside the model.  Array    *)
(* indexes start at 1 here and at 0 in the contract.                        *)
(***************************************************************************)
EXTENDS OracleRegistry, Sums

CONSTANTS
  Assets,         \* the asset addresses reports are about
  Messages,       \* what callers submit: [asset, score, dataHash] records
  Submissions,    \* signer lists with their signatures: [signers, recovered] records
  QueryIds,       \* query ids the block prover hands out for verified proofs
  Certificates,   \* what attesters submit: [asset, score, reserveRatioBps,
                  \* proofHash, session] records
  MaxReports,     \* bound: reports per asset
  MaxCertificates,\* bound: certificates per asset and kind
  MaxTime         \* bound: the last block timestamp

NoHash == 0       \* bytes32(0)
MaxUint8 == 255
MaxUint16 == 65535
MaxScore == 100

ASSUME AssetsAssumption == Assets \subseteq Nat \ {ZeroAddress} /\ IsFiniteSet(Assets)
ASSUME MessagesAssumption ==
  Messages \subseteq [asset : Assets \cup {ZeroAddress}, score : 0..MaxUint8, dataHash : Nat]
ASSUME SubmissionsAssumption ==
  \A q \in Submissions :
    /\ q.signers \in Seq(Accounts \cup {ZeroAddress}) /\ q.recovered \in Seq(Accounts)
    /\ Len(q.recovered) = Len(q.signers)
ASSUME QueryIdsAssumption == QueryIds \subseteq Nat \ {NoHash}
ASSUME CertificatesAssumption ==
  Certificates \subseteq [asset : Assets \cup {ZeroAddress}, score : 0..MaxUint8,
                          reserveRatioBps : 0..MaxUint16, proofHash : Nat, session : Nat]
ASSUME BoundsAssumption ==
  MaxReports \in Nat /\ MaxCertificates \in Nat /\ MaxTime \in Nat

VARIABLES
  now,                    \* block.timestamp
  assetReportHistory,     \* mapping(address => RiskReport[])
  reportCount,
  verifiedProofCount,
  nonces,
  usedProofHashes,
  rwaCertificateHistory,
  zkTlsCertificateHistory,
  backing                 \* history variable: how each report was vouched for

reportVars == <<assetReportHistory, reportCount, verifiedProofCount, nonces,
                usedProofHashes, backing>>
certificateVars == <<rwaCertificateHistory, zkTlsCertificateHistory>>
repositoryVars == <<now, reportVars, certificateVars>>

(* Where a report may stand: its asset and its index there. *)
Slots == Assets \X (1..MaxReports)

Report == [score : 0..MaxScore, dataHash : Nat \ {NoHash}, proofHash : QueryIds \cup {NoHash},
           timestamp : Nat, verifiedBy : Accounts, crossChainVerified : BOOLEAN]

Certificate == [score : 0..MaxScore, reserveRatioBps : 1..MaxUint16, proofHash : Nat \ {NoHash},
                timestamp : Nat, attestedBy : Accounts]

Backing == [via : {"Direct", "Signed", "MultiSigned", "Verified"},
            signers : SUBSET Accounts]

RepositoryTypeOK ==
  /\ now \in Nat
  /\ assetReportHistory \in [Assets -> Seq(Report)]
  /\ reportCount \in Nat
  /\ verifiedProofCount \in Nat
  /\ nonces \in [Accounts -> Nat]
  /\ usedProofHashes \subseteq QueryIds
  /\ rwaCertificateHistory \in [Assets -> Seq(Certificate)]
  /\ zkTlsCertificateHistory \in [Assets -> Seq(Certificate)]
  /\ backing \in [Assets -> Seq(Backing)]

RepositoryInit ==
  /\ now = 0
  /\ assetReportHistory = [a \in Assets |-> <<>>]
  /\ reportCount = 0
  /\ verifiedProofCount = 0
  /\ nonces = [a \in Accounts |-> 0]
  /\ usedProofHashes = {}
  /\ rwaCertificateHistory = [a \in Assets |-> <<>>]
  /\ zkTlsCertificateHistory = [a \in Assets |-> <<>>]
  /\ backing = [a \in Assets |-> <<>>]

-----------------------------------------------------------------------------
(* The checks every save function makes on its message. *)
Acceptable(m) ==
  /\ m.asset # ZeroAddress
  /\ m.score <= MaxScore
  /\ m.dataHash # NoHash

(* A plausible slip in _recordReport: the new report takes the place of the
   asset's last one instead of being pushed after it. *)
RecordOver(m, sender, proofHash, verified, via, signers) ==
  /\ Len(assetReportHistory[m.asset]) < MaxReports
  /\ reportCount' = reportCount + 1
  /\ assetReportHistory' =
       [assetReportHistory EXCEPT ![m.asset] =
          [k \in 1..(IF Len(@) = 0 THEN 1 ELSE Len(@)) |->
             IF k < Len(@) THEN @[k]
             ELSE [score |-> m.score, dataHash |-> m.dataHash, proofHash |-> proofHash,
                   timestamp |-> now, verifiedBy |-> sender,
                   crossChainVerified |-> verified]]]
  /\ backing' = [backing EXCEPT ![m.asset] = Append(@, [via |-> via, signers |-> signers])]
  /\ UNCHANGED now

(* _recordReport: count the report, stamp it with the block time and push it.
   MaxReports bounds the array. *)
RecordReport(m, sender, proofHash, verified, via, signers) ==
  /\ Len(assetReportHistory[m.asset]) < MaxReports
  /\ reportCount' = reportCount + 1
  /\ assetReportHistory' =
       [assetReportHistory EXCEPT ![m.asset] =
          Append(@, [score |-> m.score, dataHash |-> m.dataHash, proofHash |-> proofHash,
                     timestamp |-> now, verifiedBy |-> sender,
                     crossChainVerified |-> verified])]
  /\ backing' = [backing EXCEPT ![m.asset] = Append(@, [via |-> via, signers |-> signers])]
  /\ UNCHANGED now

(* A plausible slip in the loop of saveRiskReportMultiSigned: ">=" for ">". *)
SortedOnly(signers) ==
  \A j, k \in DOMAIN signers : j < k => signers[j] <= signers[k]

(* signer > lastSigner for each signer in turn, starting from address(0). *)
SortedAndUnique(signers) ==
  /\ \A k \in DOMAIN signers : signers[k] > ZeroAddress
  /\ \A j, k \in DOMAIN signers : j < k => signers[j] < signers[k]

(* saveRiskReportMultiSigned: recovered[k] is the account the k-th signature
   recovers to for message m. *)
SaveRiskReportMultiSigned(sender, m, signers, recovered) ==
  /\ ~paused
  /\ Acceptable(m)
  /\ Len(signers) >= requiredOracleQuorum
  /\ SortedAndUnique(signers)
  /\ \A k \in DOMAIN signers : MayAttest(signers[k]) /\ recovered[k] = signers[k]
  /\ RecordReport(m, sender, NoHash, FALSE, "MultiSigned",
                  {recovered[k] : k \in DOMAIN recovered})
  /\ UNCHANGED <<verifiedProofCount, nonces, usedProofHashes, certificateVars>>

(* saveRiskReportSigned: any account may submit an oracle's signature.  The
   nonce is counted; nothing compares it. *)
SaveRiskReportSigned(sender, m, recovered) ==
  /\ ~paused
  /\ Acceptable(m)
  /\ MayAttest(recovered)
  /\ nonces' = [nonces EXCEPT ![recovered] = @ + 1]
  /\ RecordReport(m, sender, NoHash, FALSE, "Signed", {recovered})
  /\ UNCHANGED <<verifiedProofCount, usedProofHashes, certificateVars>>

(* A plausible slip: the query id is remembered only after a comparison that
   never fails. *)
SaveVerifiedUnchecked(sender, m, queryId) ==
  /\ Acceptable(m)
  /\ queryId # NoHash
  /\ usedProofHashes' = usedProofHashes \cup {queryId}
  /\ verifiedProofCount' = verifiedProofCount + 1
  /\ RecordReport(m, sender, queryId, TRUE, "Verified", {})
  /\ UNCHANGED <<nonces, certificateVars>>

(* saveVerifiedRiskReport: queryId is what the external block prover returned
   for the caller's proof.  The function is neither whenNotPaused nor
   nonReentrant. *)
SaveVerifiedRiskReport(sender, m, queryId) ==
  /\ Acceptable(m)
  /\ queryId # NoHash
  /\ queryId \notin usedProofHashes
  /\ usedProofHashes' = usedProofHashes \cup {queryId}
  /\ verifiedProofCount' = verifiedProofCount + 1
  /\ RecordReport(m, sender, queryId, TRUE, "Verified", {})
  /\ UNCHANGED <<nonces, certificateVars>>

(* A plausible slip: the onlyAuthorizedOracle modifier is missing. *)
SaveRiskReportOpen(sender, m) ==
  /\ ~paused
  /\ Acceptable(m)
  /\ RecordReport(m, sender, NoHash, FALSE, "Direct", {sender})
  /\ UNCHANGED <<verifiedProofCount, nonces, usedProofHashes, certificateVars>>

(* A plausible slip: the whenNotPaused modifier is missing. *)
SaveRiskReportUnpausable(sender, m) ==
  /\ MayAttest(sender)
  /\ Acceptable(m)
  /\ RecordReport(m, sender, NoHash, FALSE, "Direct", {sender})
  /\ UNCHANGED <<verifiedProofCount, nonces, usedProofHashes, certificateVars>>

(* saveRiskReport and saveRiskReportWithDigest, which differ in the advisory
   digest they store. *)
SaveRiskReport(sender, m) ==
  /\ MayAttest(sender)
  /\ ~paused
  /\ Acceptable(m)
  /\ RecordReport(m, sender, NoHash, FALSE, "Direct", {sender})
  /\ UNCHANGED <<verifiedProofCount, nonces, usedProofHashes, certificateVars>>

(* The checks both certificate functions make. *)
AcceptableCertificate(c) ==
  /\ c.asset # ZeroAddress
  /\ c.score <= MaxScore
  /\ c.reserveRatioBps > 0
  /\ c.proofHash # NoHash

CertificateOf(c, sender) ==
  [score |-> c.score, reserveRatioBps |-> c.reserveRatioBps, proofHash |-> c.proofHash,
   timestamp |-> now, attestedBy |-> sender]

SaveRWACertificate(sender, c) ==
  /\ ~paused
  /\ AcceptableCertificate(c)
  /\ MayAttest(sender)
  /\ Len(rwaCertificateHistory[c.asset]) < MaxCertificates
  /\ rwaCertificateHistory' =
       [rwaCertificateHistory EXCEPT ![c.asset] = Append(@, CertificateOf(c, sender))]
  /\ UNCHANGED <<now, reportVars, zkTlsCertificateHistory>>

SaveRWAZkTLSCertificate(sender, c) ==
  /\ ~paused
  /\ AcceptableCertificate(c)
  /\ c.session # NoHash
  /\ MayAttest(sender)
  /\ Len(zkTlsCertificateHistory[c.asset]) < MaxCertificates
  /\ zkTlsCertificateHistory' =
       [zkTlsCertificateHistory EXCEPT ![c.asset] = Append(@, CertificateOf(c, sender))]
  /\ UNCHANGED <<now, reportVars, rwaCertificateHistory>>

(* The chain's clock: blocks carry non-decreasing timestamps. *)
NextBlock ==
  /\ now < MaxTime
  /\ now' = now + 1
  /\ UNCHANGED <<reportVars, certificateVars>>

(* The save functions guarded by nonReentrant ... *)
GuardedSave(sender) ==
  \/ \E m \in Messages, q \in Submissions :
       SaveRiskReportMultiSigned(sender, m, q.signers, q.recovered)
  \/ \E m \in Messages, recovered \in Accounts : SaveRiskReportSigned(sender, m, recovered)
  \/ \E m \in Messages : SaveRiskReport(sender, m)
  \/ \E c \in Certificates : SaveRWACertificate(sender, c)
  \/ \E c \in Certificates : SaveRWAZkTLSCertificate(sender, c)

(* ... and the one that is not. *)
UnguardedSave(sender) ==
  \E m \in Messages, queryId \in QueryIds \cup {NoHash} :
    SaveVerifiedRiskReport(sender, m, queryId)

RepositoryStep(sender) == GuardedSave(sender) \/ UnguardedSave(sender)

RepositoryNext ==
  \/ \E sender \in Accounts : RegistryStep(sender) /\ UNCHANGED repositoryVars
  \/ \E sender \in Accounts : RepositoryStep(sender) /\ UNCHANGED registryVars
  \/ NextBlock /\ UNCHANGED registryVars

(* Every variable as the constructor leaves it. *)
RepositoryFirst == RegistryInit /\ RepositoryInit

RepositorySpec ==
  RepositoryFirst /\ [][RepositoryNext]_<<registryVars, repositoryVars>>

-----------------------------------------------------------------------------
Extends(s, t) == Len(s) <= Len(t) /\ \A k \in 1..Len(s) : t[k] = s[k]

(* Positions of the reports a step adds to an asset's history. *)
Added(a) == (Len(assetReportHistory[a]) + 1)..Len(assetReportHistory'[a])

HistoriesGrow ==
  \A a \in Assets :
    /\ Extends(assetReportHistory[a], assetReportHistory'[a])
    /\ Extends(backing[a], backing'[a])
    /\ Extends(rwaCertificateHistory[a], rwaCertificateHistory'[a])
    /\ Extends(zkTlsCertificateHistory[a], zkTlsCertificateHistory'[a])

(* Histories are append-only (CreditPulseScore.sol:144): whatever is called, an
   entry that was recorded stays at its index with its contents, for reports
   and for both kinds of certificates. *)
AppendOnly == [][HistoriesGrow]_<<registryVars, repositoryVars>>

QuorumsAreMet ==
  \A a \in Assets : \A k \in Added(a) :
    backing'[a][k].via = "MultiSigned" =>
      /\ Cardinality(backing'[a][k].signers) >= requiredOracleQuorum
      /\ \A s \in backing'[a][k].signers : MayAttest(s)

(* A report that entered through the quorum function is vouched for by as many
   different accounts as the quorum asked for at that moment, each of them
   entitled to attest at that moment - a signature made while its signer was
   authorized does not count after the owner removed the signer. *)
QuorumOfDistinctOracles == [][QuorumsAreMet]_<<registryVars, repositoryVars>>

AddedAreAttested ==
  \A a \in Assets : \A k \in Added(a) :
    IF assetReportHistory'[a][k].crossChainVerified
      THEN assetReportHistory'[a][k].proofHash \in QueryIds \ usedProofHashes
      ELSE \E s \in backing'[a][k].signers : MayAttest(s)

(* Every report is either backed by at least one account that may attest when it
   is recorded, or by a cross-chain proof nobody used before; no entry point
   lets an unattested score into the history a lender reads. *)
EveryReportAttested == [][AddedAreAttested]_<<registryVars, repositoryVars>>

Exists(d) == d[2] <= Len(assetReportHistory[d[1]])
ReportOf(d) == assetReportHistory[d[1]][d[2]]

VerifiedEntries == {d \in Slots : Exists(d) /\ ReportOf(d).crossChainVerified}

(* A cross-chain proof backs exactly one report of one asset: the set of used
   query ids, the counter of verified proofs and the flagged reports tell the
   same story, across assets and interleaved save functions. *)
ProofsBackOneReport ==
  /\ usedProofHashes = {ReportOf(d).proofHash : d \in VerifiedEntries}
  /\ \A d, e \in VerifiedEntries : ReportOf(d).proofHash = ReportOf(e).proofHash => d = e
  /\ verifiedProofCount = Cardinality(usedProofHashes)

(* CreditPulseScore.sol:614 says the nonce increment is there "for replay
   protection": one signature of one message would record one report. *)
SignatureRecordsOneReport ==
  \A a \in Assets : \A j, k \in 1..Len(backing[a]) :
    /\ backing[a][j].via = "Signed"
    /\ backing[a][k] = backing[a][j]
    /\ assetReportHistory[a][j].score = assetReportHistory[a][k].score
    /\ assetReportHistory[a][j].dataHash = assetReportHistory[a][k].dataHash
    => j = k
=============================================================================
