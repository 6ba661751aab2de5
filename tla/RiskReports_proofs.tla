------------------------- MODULE RiskReports_proofs -------------------------
(***************************************************************************)
(* What the report repository keeps for any accounts, assets, messages and  *)
(* bounds: types, append-only histories, quorums of distinct oracles, one   *)
(* report per cross-chain proof; and that it implements OracleRegistry.     *)
(***************************************************************************)
EXTENDS RiskReports, Sums_proofs, FunctionTheorems

(* The oracle registry: types, and the published array and the mapping agree.  The
   only step that takes thought is the swap-and-pop of a removal. *)
RegistryInv == RegistryTypeOK /\ RegistryAgrees

-----------------------------------------------------------------------------
(* The clean-up loop of setOracleAuthorization (CreditPulseScore.sol:264-270)
   on an array without duplicates that holds the oracle: the result is an array
   without duplicates of exactly the other entries. *)
LEMMA SwapAndPopRemovesOne ==
  ASSUME NEW S, NEW s \in Seq(S), NEW o \in S,
         \A j, k \in DOMAIN s : s[j] = s[k] => j = k,
         \E k \in DOMAIN s : s[k] = o
  PROVE  LET t == SwapAndPop(s, o)
         IN  /\ t \in Seq(S)
             /\ {t[k] : k \in DOMAIN t} = {s[k] : k \in DOMAIN s} \ {o}
             /\ \A j, k \in DOMAIN t : t[j] = t[k] => j = k
<1> DEFINE n == Len(s)
           t == SwapAndPop(s, o)
<1>1. PICK f \in DOMAIN s : s[f] = o
  OBVIOUS
<1>2. n \in Nat /\ DOMAIN s = 1..n /\ f \in 1..n /\ n >= 1
  OBVIOUS
<1>3. \A k \in DOMAIN s : s[k] = o => k = f
  BY <1>1
<1>4. f = CHOOSE k \in DOMAIN s : s[k] = o /\ \A j \in 1..(k - 1) : s[j] # o
  <2>1. \A j \in 1..(f - 1) : s[j] # o
    BY <1>1, <1>2, <1>3
  <2>2. \A k \in DOMAIN s : (s[k] = o /\ \A j \in 1..(k - 1) : s[j] # o) <=> k = f
    BY <1>1, <1>3, <2>1
  <2>3. QED
    BY <2>2
<1>5. t = [k \in 1..(n - 1) |-> IF k = f THEN s[n] ELSE s[k]]
  BY <1>1, <1>4 DEF SwapAndPop
<1>6. \A k \in DOMAIN s : s[k] \in S
  OBVIOUS
<1>7. t \in Seq(S)
  <2>1. \A k \in 1..(n - 1) : (IF k = f THEN s[n] ELSE s[k]) \in S
    BY <1>2, <1>6
  <2>2. QED
    BY <1>2, <1>5, <2>1
<1>8. DOMAIN t = 1..(n - 1) /\ \A k \in 1..(n - 1) : t[k] = IF k = f THEN s[n] ELSE s[k]
  BY <1>5
<1> HIDE DEF t
<1>9. {t[k] : k \in DOMAIN t} = {s[k] : k \in DOMAIN s} \ {o}
  <2>1. ASSUME NEW k \in DOMAIN t
        PROVE  t[k] \in {s[j] : j \in DOMAIN s} \ {o}
    <3>1. CASE k = f
      BY <1>1, <1>2, <1>3, <1>8, <3>1
    <3>2. CASE k # f
      BY <1>2, <1>3, <1>8, <3>2
    <3>3. QED
      BY <3>1, <3>2
  <2>2. ASSUME NEW j \in DOMAIN s, s[j] # o
        PROVE  \E k \in DOMAIN t : t[k] = s[j]
    <3>1. CASE j = n
      <4>1. f \in DOMAIN t /\ t[f] = s[n]
        BY <1>1, <1>2, <1>8, <2>2, <3>1
      <4>2. QED
        BY <3>1, <4>1
    <3>2. CASE j # n
      <4>1. j \in DOMAIN t /\ t[j] = s[j]
        BY <1>1, <1>2, <1>8, <2>2, <3>2
      <4>2. QED
        BY <4>1
    <3>3. QED
      BY <3>1, <3>2
  <2>3. QED
    BY <2>1, <2>2
<1>10. ASSUME NEW j \in DOMAIN t, NEW k \in DOMAIN t, t[j] = t[k]
       PROVE  j = k
  BY <1>2, <1>8, <1>10
<1>11. QED
  BY <1>7, <1>9, <1>10 DEF t

-----------------------------------------------------------------------------
(* The constructor leaves an array and a mapping that agree. *)
LEMMA RegistryInitInv == RegistryInit => RegistryInv
<1> SUFFICES ASSUME RegistryInit PROVE RegistryInv
  OBVIOUS
<1> USE AccountsAssumption, DeployerAssumption, MaxQuorumAssumption DEF RegistryInit, ZeroAddress
<1>1. RegistryTypeOK
  <2>1. <<Deployer>> \in Seq(Accounts)
    OBVIOUS
  <2>2. oracleSigner # ZeroAddress => <<Deployer, oracleSigner>> \in Seq(Accounts)
    OBVIOUS
  <2>3. authorizedOracles \in Seq(Accounts)
    <3>1. CASE oracleSigner \in {ZeroAddress, Deployer}
      BY <2>1, <3>1
    <3>2. CASE oracleSigner \notin {ZeroAddress, Deployer}
      <4>1. authorizedOracles = <<Deployer, oracleSigner>>
        BY <3>2
      <4>2. QED
        BY <2>2, <3>2, <4>1
    <3>3. QED
      BY <3>1, <3>2
  <2>4. isAuthorizedOracle \subseteq Accounts
    OBVIOUS
  <2>5. requiredOracleQuorum \in 1..MaxQuorum
    OBVIOUS
  <2>6. paused \in BOOLEAN
    BY Zenon
  <2>7. owner \in Accounts /\ oracleSigner \in Accounts \cup {ZeroAddress} /\ blockProver \in Provers
    OBVIOUS
  <2>8. QED
    BY <2>3, <2>4, <2>5, <2>6, <2>7, Zenon DEF RegistryTypeOK
<1>2. RegistryAgrees
  <2>1. CASE oracleSigner \in {ZeroAddress, Deployer}
    <3>1. authorizedOracles = <<Deployer>> /\ isAuthorizedOracle = {Deployer}
      BY <2>1
    <3>2. DOMAIN authorizedOracles = {1} /\ authorizedOracles[1] = Deployer
      BY <3>1
    <3>3. QED
      BY <3>1, <3>2 DEF RegistryAgrees
  <2>2. CASE oracleSigner \notin {ZeroAddress, Deployer}
    <3>1. /\ authorizedOracles = <<Deployer, oracleSigner>>
          /\ isAuthorizedOracle = {Deployer, oracleSigner}
      BY <2>2
    <3>2. /\ DOMAIN authorizedOracles = {1, 2}
          /\ authorizedOracles[1] = Deployer
          /\ authorizedOracles[2] = oracleSigner
      BY <3>1
    <3>3. QED
      BY <2>2, <3>1, <3>2 DEF RegistryAgrees
  <2>3. QED
    BY <2>1, <2>2
<1>3. QED
  BY <1>1, <1>2 DEF RegistryInv

(* A step that leaves the oracles alone keeps the agreement. *)
LEMMA SameOraclesAgree ==
  ASSUME RegistryAgrees, UNCHANGED <<isAuthorizedOracle, authorizedOracles>>
  PROVE  RegistryAgrees'
BY DEF RegistryAgrees

(* Every administrative call keeps the invariant, whoever makes it. *)
LEMMA RegistryStepInv ==
  ASSUME NEW sender \in Accounts, RegistryInv, RegistryStep(sender)
  PROVE  RegistryInv'
<1> USE DEF RegistryInv
<1>1. CASE Pause(sender)
  BY <1>1, SameOraclesAgree DEF Pause, RegistryTypeOK
<1>2. CASE Unpause(sender)
  BY <1>2, SameOraclesAgree DEF Unpause, RegistryTypeOK
<1>3. ASSUME NEW oracle \in Accounts, AuthorizeOracle(sender, oracle)
      PROVE  RegistryInv'
  <2>1. RegistryTypeOK'
    BY <1>3 DEF AuthorizeOracle, RegistryTypeOK
  <2>2. /\ DOMAIN authorizedOracles' = DOMAIN authorizedOracles \cup {Len(authorizedOracles) + 1}
        /\ authorizedOracles'[Len(authorizedOracles) + 1] = oracle
        /\ \A k \in DOMAIN authorizedOracles :
             /\ authorizedOracles'[k] = authorizedOracles[k]
             /\ authorizedOracles[k] # oracle
    BY <1>3 DEF AuthorizeOracle, RegistryTypeOK, RegistryAgrees
  <2>3. isAuthorizedOracle' = isAuthorizedOracle \cup {oracle}
    BY <1>3 DEF AuthorizeOracle
  <2>4. RegistryAgrees'
    BY <2>2, <2>3 DEF RegistryAgrees
  <2>5. QED
    BY <2>1, <2>4
<1>4. ASSUME NEW oracle \in Accounts, DeauthorizeOracle(sender, oracle)
      PROVE  RegistryInv'
  <2> DEFINE t == SwapAndPop(authorizedOracles, oracle)
  <2>1. \E k \in DOMAIN authorizedOracles : authorizedOracles[k] = oracle
    BY <1>4 DEF DeauthorizeOracle, RegistryAgrees
  <2>2. /\ t \in Seq(Accounts)
        /\ {t[k] : k \in DOMAIN t} = isAuthorizedOracle \ {oracle}
        /\ \A j, k \in DOMAIN t : t[j] = t[k] => j = k
    <3>1. authorizedOracles \in Seq(Accounts)
      BY DEF RegistryTypeOK
    <3>2. \A j, k \in DOMAIN authorizedOracles :
            authorizedOracles[j] = authorizedOracles[k] => j = k
      BY DEF RegistryAgrees
    <3>3. /\ t \in Seq(Accounts)
          /\ {t[k] : k \in DOMAIN t}
               = {authorizedOracles[k] : k \in DOMAIN authorizedOracles} \ {oracle}
          /\ \A j, k \in DOMAIN t : t[j] = t[k] => j = k
      BY <2>1, <3>1, <3>2, SwapAndPopRemovesOne, Zenon
    <3>4. QED
      BY <3>3 DEF RegistryAgrees
  <2>3. /\ authorizedOracles' = t
        /\ isAuthorizedOracle' = isAuthorizedOracle \ {oracle}
        /\ UNCHANGED <<owner, oracleSigner, blockProver, paused, requiredOracleQuorum>>
    BY <1>4 DEF DeauthorizeOracle
  <2> HIDE DEF t
  <2>4. RegistryTypeOK'
    BY <2>2, <2>3 DEF RegistryTypeOK
  <2>5. RegistryAgrees'
    BY <2>2, <2>3 DEF RegistryAgrees
  <2>6. QED
    BY <2>4, <2>5
<1>5. ASSUME NEW newQuorum \in 0..MaxQuorum, SetRequiredOracleQuorum(sender, newQuorum)
      PROVE  RegistryInv'
  BY <1>5, SameOraclesAgree, MaxQuorumAssumption DEF SetRequiredOracleQuorum, RegistryTypeOK
<1>6. ASSUME NEW newSigner \in Accounts, SetOracleSigner(sender, newSigner)
      PROVE  RegistryInv'
  BY <1>6, SameOraclesAgree DEF SetOracleSigner, RegistryTypeOK
<1>7. ASSUME NEW newProver \in Provers, SetBlockProver(sender, newProver)
      PROVE  RegistryInv'
  BY <1>7, SameOraclesAgree DEF SetBlockProver, RegistryTypeOK
<1>8. ASSUME NEW newOwner \in Accounts, TransferOwnership(sender, newOwner)
      PROVE  RegistryInv'
  BY <1>8, SameOraclesAgree DEF TransferOwnership, RegistryTypeOK
<1>9. QED
  BY <1>1, <1>2, <1>3, <1>4, <1>5, <1>6, <1>7, <1>8 DEF RegistryStep

(* A call that does not touch the registry keeps the invariant. *)
LEMMA RegistryStutterInv ==
  ASSUME RegistryInv, UNCHANGED registryVars
  PROVE  RegistryInv'
BY DEF RegistryInv, RegistryTypeOK, RegistryAgrees, registryVars

(* The array getters publish and the mapping every guard reads agree in every
   reachable state of the registry. *)
THEOREM RegistryCorrect == RegistrySpec => [](RegistryTypeOK /\ RegistryAgrees)
<1>1. RegistryInv /\ [RegistryNext]_registryVars => RegistryInv'
  BY RegistryStepInv, RegistryStutterInv DEF RegistryNext
<1>2. RegistryInv => RegistryTypeOK /\ RegistryAgrees
  BY DEF RegistryInv
<1>3. QED
  BY RegistryInitInv, <1>1, <1>2, PTL DEF RegistrySpec

-----------------------------------------------------------------------------
(* The report repository. *)
repositoryAndRegistry == <<registryVars, repositoryVars>>

(* The inductive invariant: besides the types, histories and their backing have
   one length, within the bound, so that every report has a slot. *)
HistoriesInStep ==
  \A a \in Assets :
    /\ Len(backing[a]) = Len(assetReportHistory[a])
    /\ Len(assetReportHistory[a]) <= MaxReports

RepositoryInv ==
  /\ RegistryInv
  /\ RepositoryTypeOK
  /\ HistoriesInStep
  /\ IsFiniteSet(usedProofHashes)
  /\ ProofsBackOneReport

-----------------------------------------------------------------------------
(* The loop of saveRiskReportMultiSigned counts list entries; because the list
   ascends strictly, that is the number of different accounts. *)
LEMMA AscendingListCountsAccounts ==
  ASSUME NEW s \in Seq(Nat), NEW r \in Seq(Accounts), Len(r) = Len(s),
         \A k \in DOMAIN s : r[k] = s[k],
         SortedAndUnique(s)
  PROVE  /\ {r[k] : k \in DOMAIN r} \in SUBSET Accounts
         /\ Cardinality({r[k] : k \in DOMAIN r}) = Len(s)
<1> DEFINE n == Len(s)
           T == {r[k] : k \in DOMAIN r}
<1>1. n \in Nat /\ DOMAIN s = 1..n /\ DOMAIN r = 1..n
  OBVIOUS
<1>2. T \in SUBSET Accounts
  OBVIOUS
<1>3. r \in [1..n -> T]
  BY <1>1
<1>4. \A j, k \in 1..n : r[j] = r[k] => j = k
  <2>1. \A j, k \in 1..n : j < k => s[j] < s[k]
    BY <1>1 DEF SortedAndUnique
  <2>2. \A k \in 1..n : s[k] \in Nat /\ r[k] = s[k]
    BY <1>1
  <2>3. QED
    BY <1>1, <2>1, <2>2
<1>5. \A t \in T : \E k \in 1..n : r[k] = t
  BY <1>1
<1>6. r \in Bijection(1..n, T)
  <2>1. r \in Injection(1..n, T)
    BY <1>3, <1>4 DEF Injection, IsInjective
  <2>2. r \in Surjection(1..n, T)
    BY <1>3, <1>5 DEF Surjection
  <2>3. QED
    BY <2>1, <2>2 DEF Bijection
<1>7. ExistsBijection(1..n, T)
  BY <1>6 DEF ExistsBijection
<1>8. Cardinality(T) = n
  BY <1>1, <1>7, FS_CountingElements
<1>9. QED
  BY <1>2, <1>8

-----------------------------------------------------------------------------
NewReport(m, sender, proofHash, verified) ==
  [score |-> m.score, dataHash |-> m.dataHash, proofHash |-> proofHash,
   timestamp |-> now, verifiedBy |-> sender, crossChainVerified |-> verified]

NewBacking(via, signers) == [via |-> via, signers |-> signers]

(* One report pushed for message m: every other asset's history stands, and m's
   asset's history and its backing grow by one entry at the end. *)
Pushed(m, report, how) ==
  /\ m.asset \in Assets
  /\ report \in Report /\ how \in Backing
  /\ Len(assetReportHistory[m.asset]) < MaxReports
  /\ assetReportHistory' =
       [assetReportHistory EXCEPT ![m.asset] = Append(assetReportHistory[m.asset], report)]
  /\ backing' = [backing EXCEPT ![m.asset] = Append(backing[m.asset], how)]
  /\ reportCount' = reportCount + 1
  /\ UNCHANGED <<now, certificateVars>>

(* A well-formed message makes a well-formed report. *)
LEMMA NewReportType ==
  ASSUME NEW m \in Messages, Acceptable(m), NEW sender \in Accounts, now \in Nat,
         NEW p \in QueryIds \cup {NoHash}, NEW v \in BOOLEAN
  PROVE  m.asset \in Assets /\ NewReport(m, sender, p, v) \in Report
<1>1. m \in [asset : Assets \cup {ZeroAddress}, score : 0..MaxUint8, dataHash : Nat]
  BY MessagesAssumption
<1>2. m.asset \in Assets /\ m.score \in 0..MaxScore /\ m.dataHash \in Nat \ {NoHash}
  BY <1>1 DEF Acceptable
<1>3. QED
  BY <1>2 DEF NewReport, Report

(* A report the contract's own rules vouch for: recorded for at least one
   account that may attest now, and for as many as the quorum if it came through
   the quorum function. *)
PushedAttested ==
  \E m \in Messages, sender \in Accounts, via \in {"Direct", "Signed", "MultiSigned"},
     signers \in SUBSET Accounts :
    /\ Pushed(m, NewReport(m, sender, NoHash, FALSE), NewBacking(via, signers))
    /\ \E s \in signers : MayAttest(s)
    /\ via = "MultiSigned" =>
         Cardinality(signers) >= requiredOracleQuorum /\ \A s \in signers : MayAttest(s)
    /\ UNCHANGED <<usedProofHashes, verifiedProofCount>>
    /\ nonces' \in [Accounts -> Nat]

(* A report a fresh cross-chain proof vouches for. *)
PushedVerified ==
  \E m \in Messages, sender \in Accounts, queryId \in QueryIds \ usedProofHashes :
    /\ Pushed(m, NewReport(m, sender, queryId, TRUE), NewBacking("Verified", {}))
    /\ usedProofHashes' = usedProofHashes \cup {queryId}
    /\ verifiedProofCount' = verifiedProofCount + 1
    /\ UNCHANGED nonces

(* A certificate pushed for one asset, in one of the two histories. *)
PushedCertificate ==
  \E a \in Assets, c \in Certificate :
    /\ \/ /\ rwaCertificateHistory' =
              [rwaCertificateHistory EXCEPT ![a] = Append(rwaCertificateHistory[a], c)]
          /\ UNCHANGED zkTlsCertificateHistory
       \/ /\ zkTlsCertificateHistory' =
              [zkTlsCertificateHistory EXCEPT ![a] = Append(zkTlsCertificateHistory[a], c)]
          /\ UNCHANGED rwaCertificateHistory
    /\ UNCHANGED <<now, reportVars>>

(* Every save function does one of three things. *)
LEMMA RecordIsPush ==
  ASSUME RepositoryTypeOK, NEW m \in Messages, Acceptable(m), NEW sender \in Accounts,
         NEW p \in QueryIds \cup {NoHash}, NEW v \in BOOLEAN,
         NEW via \in {"Direct", "Signed", "MultiSigned", "Verified"},
         NEW signers \in SUBSET Accounts,
         RecordReport(m, sender, p, v, via, signers), UNCHANGED certificateVars
  PROVE  Pushed(m, NewReport(m, sender, p, v), NewBacking(via, signers))
<1>1. m.asset \in Assets /\ NewReport(m, sender, p, v) \in Report
  BY NewReportType DEF RepositoryTypeOK
<1>2. NewBacking(via, signers) \in Backing
  BY DEF NewBacking, Backing
<1>3. QED
  BY <1>1, <1>2 DEF RecordReport, Pushed, NewReport, NewBacking, RepositoryTypeOK

LEMMA RepositoryStepShape ==
  ASSUME RepositoryInv, NEW sender \in Accounts, RepositoryStep(sender)
  PROVE  PushedAttested \/ PushedVerified \/ PushedCertificate
<1>0. RepositoryTypeOK /\ nonces \in [Accounts -> Nat] /\ requiredOracleQuorum >= 1
      /\ now \in Nat /\ MaxReports \in Nat
  BY MaxQuorumAssumption, BoundsAssumption
     DEF RepositoryInv, RepositoryTypeOK, RegistryInv, RegistryTypeOK
<1>1. ASSUME NEW m \in Messages, NEW q \in Submissions,
             SaveRiskReportMultiSigned(sender, m, q.signers, q.recovered)
      PROVE  PushedAttested
  <2> DEFINE accounts == {q.recovered[k] : k \in DOMAIN q.recovered}
  <2>1. /\ q.signers \in Seq(Accounts \cup {ZeroAddress}) /\ q.recovered \in Seq(Accounts)
        /\ Len(q.recovered) = Len(q.signers)
    BY SubmissionsAssumption
  <2>2. /\ Acceptable(m)
        /\ Len(q.signers) >= requiredOracleQuorum
        /\ SortedAndUnique(q.signers)
        /\ \A k \in DOMAIN q.signers : MayAttest(q.signers[k]) /\ q.recovered[k] = q.signers[k]
        /\ RecordReport(m, sender, NoHash, FALSE, "MultiSigned", accounts)
        /\ UNCHANGED <<verifiedProofCount, nonces, usedProofHashes, certificateVars>>
    BY <1>1 DEF SaveRiskReportMultiSigned
  <2>3. q.signers \in Seq(Nat)
    <3>1. Accounts \cup {ZeroAddress} \subseteq Nat
      BY AccountsAssumption DEF ZeroAddress
    <3>2. \A S, T : S \subseteq T => Seq(S) \subseteq Seq(T)
      OBVIOUS
    <3>3. QED
      BY <2>1, <3>1, <3>2, Zenon
  <2>4. accounts \in SUBSET Accounts /\ Cardinality(accounts) = Len(q.signers)
    BY <2>1, <2>2, <2>3, AscendingListCountsAccounts
  <2>5. \A s \in accounts : MayAttest(s)
    BY <2>1, <2>2
  <2>6. \E s \in accounts : MayAttest(s)
    <3>1. 1 \in DOMAIN q.recovered
      BY <1>0, <2>1, <2>2 DEF RepositoryInv, RegistryInv, RegistryTypeOK
    <3>2. q.recovered[1] \in accounts
      BY <3>1
    <3>3. QED
      BY <2>5, <3>2
  <2> HIDE DEF accounts
  <2>7. Pushed(m, NewReport(m, sender, NoHash, FALSE), NewBacking("MultiSigned", accounts))
    BY <1>0, <2>2, <2>4, RecordIsPush
  <2>8. Cardinality(accounts) >= requiredOracleQuorum
    BY <2>2, <2>4
  <2>9. QED
    BY <1>0, <2>2, <2>4, <2>5, <2>6, <2>7, <2>8 DEF PushedAttested
<1>2. ASSUME NEW m \in Messages, NEW r \in Accounts, SaveRiskReportSigned(sender, m, r)
      PROVE  PushedAttested
  <2>1. nonces' \in [Accounts -> Nat]
    BY <1>0, <1>2 DEF SaveRiskReportSigned
  <2>2. Pushed(m, NewReport(m, sender, NoHash, FALSE), NewBacking("Signed", {r}))
    BY <1>0, <1>2, RecordIsPush DEF SaveRiskReportSigned
  <2>3. \E s \in {r} : MayAttest(s)
    BY <1>2 DEF SaveRiskReportSigned
  <2>4. UNCHANGED <<usedProofHashes, verifiedProofCount>>
    BY <1>2 DEF SaveRiskReportSigned
  <2>5. QED
    BY <2>1, <2>2, <2>3, <2>4 DEF PushedAttested
<1>3. ASSUME NEW m \in Messages, SaveRiskReport(sender, m)
      PROVE  PushedAttested
  <2>1. Pushed(m, NewReport(m, sender, NoHash, FALSE), NewBacking("Direct", {sender}))
    BY <1>0, <1>3, RecordIsPush DEF SaveRiskReport
  <2>2. \E s \in {sender} : MayAttest(s)
    BY <1>3 DEF SaveRiskReport
  <2>3. UNCHANGED <<usedProofHashes, verifiedProofCount, nonces>>
    BY <1>3 DEF SaveRiskReport
  <2>4. QED
    BY <1>0, <2>1, <2>2, <2>3 DEF PushedAttested
<1>4. ASSUME NEW m \in Messages, NEW queryId \in QueryIds \cup {NoHash},
             SaveVerifiedRiskReport(sender, m, queryId)
      PROVE  PushedVerified
  <2>1. queryId \in QueryIds \ usedProofHashes
    BY <1>4 DEF SaveVerifiedRiskReport
  <2>2. Pushed(m, NewReport(m, sender, queryId, TRUE), NewBacking("Verified", {}))
    BY <1>0, <1>4, RecordIsPush DEF SaveVerifiedRiskReport
  <2>3. QED
    BY <1>4, <2>1, <2>2 DEF SaveVerifiedRiskReport, PushedVerified
<1>5. ASSUME NEW c \in Certificates, AcceptableCertificate(c)
      PROVE  c.asset \in Assets /\ CertificateOf(c, sender) \in Certificate
  <2>1. c \in [asset : Assets \cup {ZeroAddress}, score : 0..MaxUint8,
               reserveRatioBps : 0..MaxUint16, proofHash : Nat, session : Nat]
    BY <1>5, CertificatesAssumption
  <2>2. c.asset \in Assets
    BY <1>5, <2>1 DEF AcceptableCertificate
  <2>3. c.score \in 0..MaxScore
    BY <1>5, <2>1 DEF AcceptableCertificate
  <2>4. c.reserveRatioBps \in 1..MaxUint16
    BY <1>5, <2>1 DEF AcceptableCertificate
  <2>5. c.proofHash \in Nat \ {NoHash}
    BY <1>5, <2>1 DEF AcceptableCertificate
  <2>6. QED
    BY <1>0, <2>2, <2>3, <2>4, <2>5 DEF CertificateOf, Certificate
<1>6. ASSUME NEW c \in Certificates, SaveRWACertificate(sender, c)
      PROVE  PushedCertificate
  BY <1>5, <1>6 DEF SaveRWACertificate, PushedCertificate
<1>7. ASSUME NEW c \in Certificates, SaveRWAZkTLSCertificate(sender, c)
      PROVE  PushedCertificate
  BY <1>5, <1>7 DEF SaveRWAZkTLSCertificate, PushedCertificate
<1>8. QED
  BY <1>1, <1>2, <1>3, <1>4, <1>6, <1>7 DEF RepositoryStep, GuardedSave, UnguardedSave

-----------------------------------------------------------------------------
(* ProofsBackOneReport and its parts, as operators on a history h. *)
ExistsIn(h, d) == d[2] <= Len(h[d[1]])
ReportIn(h, d) == h[d[1]][d[2]]
VerifiedIn(h) == {d \in Slots : ExistsIn(h, d) /\ ReportIn(h, d).crossChainVerified}

ProofsIn(h, used, count) ==
  /\ used = {ReportIn(h, d).proofHash : d \in VerifiedIn(h)}
  /\ \A d, e \in VerifiedIn(h) : ReportIn(h, d).proofHash = ReportIn(h, e).proofHash => d = e
  /\ count = Cardinality(used)

LEMMA ProofsAreProofsIn ==
  /\ ProofsBackOneReport <=> ProofsIn(assetReportHistory, usedProofHashes, verifiedProofCount)
  /\ ProofsBackOneReport' <=>
       ProofsIn(assetReportHistory', usedProofHashes', verifiedProofCount')
BY DEF ProofsBackOneReport, VerifiedEntries, Exists, ReportOf,
       ProofsIn, VerifiedIn, ExistsIn, ReportIn

(* A push adds exactly one slot to the existing ones and moves no report. *)
LEMMA PushedEntries ==
  ASSUME RepositoryTypeOK, HistoriesInStep, NEW m, NEW report, NEW how, Pushed(m, report, how),
         NEW new, new = <<m.asset, Len(assetReportHistory[m.asset]) + 1>>
  PROVE  LET h == assetReportHistory
         IN  /\ new \in Slots /\ ~ExistsIn(h, new)
             /\ \A d \in Slots : ExistsIn(h', d) <=> (ExistsIn(h, d) \/ d = new)
             /\ \A d \in Slots : ExistsIn(h, d) => ReportIn(h', d) = ReportIn(h, d)
             /\ ReportIn(h', new) = report
<1> DEFINE h == assetReportHistory
           a == m.asset
<1>1. /\ h \in [Assets -> Seq(Report)] /\ a \in Assets /\ report \in Report
      /\ Len(h[a]) < MaxReports /\ MaxReports \in Nat
      /\ h' = [h EXCEPT ![a] = Append(h[a], report)]
  BY BoundsAssumption DEF RepositoryTypeOK, Pushed
<1>2. /\ h[a] \in Seq(Report) /\ Len(h[a]) \in Nat /\ h'[a] = Append(h[a], report)
      /\ Len(h'[a]) = Len(h[a]) + 1
      /\ \A k \in 1..Len(h[a]) : h'[a][k] = h[a][k]
      /\ h'[a][Len(h[a]) + 1] = report
  BY <1>1
<1>3. \A b \in Assets : b # a => h'[b] = h[b]
  BY <1>1
<1>4. \A d \in Slots : d[1] \in Assets /\ d[2] \in 1..MaxReports /\ d = <<d[1], d[2]>>
  BY DEF Slots
<1>5. new \in Slots /\ new[1] = a /\ new[2] = Len(h[a]) + 1
  BY <1>1, <1>2 DEF Slots
<1>6. ASSUME NEW d \in Slots
      PROVE  /\ ExistsIn(h', d) <=> (ExistsIn(h, d) \/ d = new)
             /\ ExistsIn(h, d) => ReportIn(h', d) = ReportIn(h, d)
  <2>1. CASE d[1] # a
    BY <1>3, <1>4, <1>5, <2>1 DEF ExistsIn, ReportIn
  <2>2. CASE d[1] = a
    <3>1. d = new <=> d[2] = Len(h[a]) + 1
      BY <1>4, <2>2
    <3>2. d[2] \in Nat \ {0}
      BY <1>1, <1>4
    <3>3. QED
      BY <1>2, <2>2, <3>1, <3>2 DEF ExistsIn, ReportIn
  <2>3. QED
    BY <2>1, <2>2
<1>7. ~ExistsIn(h, new) /\ ReportIn(h', new) = report
  BY <1>2, <1>5 DEF ExistsIn, ReportIn
<1>8. QED
  BY <1>5, <1>6, <1>7

(* A push keeps the types of what it writes and the histories in step. *)
LEMMA PushedTypes ==
  ASSUME RepositoryTypeOK, HistoriesInStep, NEW m, NEW report, NEW how, Pushed(m, report, how)
  PROVE  /\ now' \in Nat /\ reportCount' \in Nat
         /\ assetReportHistory' \in [Assets -> Seq(Report)]
         /\ backing' \in [Assets -> Seq(Backing)]
         /\ rwaCertificateHistory' \in [Assets -> Seq(Certificate)]
         /\ zkTlsCertificateHistory' \in [Assets -> Seq(Certificate)]
         /\ HistoriesInStep'
<1>1. /\ assetReportHistory[m.asset] \in Seq(Report) /\ backing[m.asset] \in Seq(Backing)
      /\ m.asset \in Assets /\ report \in Report /\ how \in Backing
  BY DEF RepositoryTypeOK, Pushed
<1>2. /\ Append(assetReportHistory[m.asset], report) \in Seq(Report)
      /\ Append(backing[m.asset], how) \in Seq(Backing)
      /\ Len(Append(assetReportHistory[m.asset], report)) = Len(assetReportHistory[m.asset]) + 1
      /\ Len(Append(backing[m.asset], how)) = Len(backing[m.asset]) + 1
  BY <1>1
<1>3. /\ assetReportHistory' \in [Assets -> Seq(Report)]
      /\ backing' \in [Assets -> Seq(Backing)]
  BY <1>1, <1>2 DEF Pushed, RepositoryTypeOK
<1>4. /\ now' \in Nat /\ reportCount' \in Nat
      /\ rwaCertificateHistory' \in [Assets -> Seq(Certificate)]
      /\ zkTlsCertificateHistory' \in [Assets -> Seq(Certificate)]
  BY DEF Pushed, RepositoryTypeOK, certificateVars
<1>5. HistoriesInStep'
  <2>1. \A b \in Assets : b # m.asset =>
          assetReportHistory'[b] = assetReportHistory[b] /\ backing'[b] = backing[b]
    BY DEF Pushed, RepositoryTypeOK
  <2>2. /\ assetReportHistory'[m.asset] = Append(assetReportHistory[m.asset], report)
        /\ backing'[m.asset] = Append(backing[m.asset], how)
    BY <1>1 DEF Pushed, RepositoryTypeOK
  <2>3. /\ Len(assetReportHistory[m.asset]) < MaxReports /\ MaxReports \in Nat
        /\ Len(assetReportHistory[m.asset]) \in Nat
    BY <1>1, BoundsAssumption DEF Pushed
  <2>4. ASSUME NEW b \in Assets
        PROVE  /\ Len(backing'[b]) = Len(assetReportHistory'[b])
               /\ Len(assetReportHistory'[b]) <= MaxReports
    <3>1. Len(backing[b]) = Len(assetReportHistory[b]) /\ Len(assetReportHistory[b]) <= MaxReports
      BY DEF HistoriesInStep
    <3>2. CASE b # m.asset
      BY <2>1, <3>1, <3>2
    <3>3. CASE b = m.asset
      <4>1. /\ Len(backing'[b]) = Len(backing[b]) + 1
            /\ Len(assetReportHistory'[b]) = Len(assetReportHistory[b]) + 1
        BY <1>2, <2>2, <3>3, Zenon
      <4>2. QED
        BY <2>3, <3>1, <3>3, <4>1
    <3>4. QED
      BY <3>2, <3>3
  <2>5. QED
    BY <2>4 DEF HistoriesInStep
<1>6. QED
  BY <1>3, <1>4, <1>5

-----------------------------------------------------------------------------
LEMMA RepositoryInitInv == RegistryInit /\ RepositoryInit => RepositoryInv
<1> SUFFICES ASSUME RegistryInit, RepositoryInit PROVE RepositoryInv
  OBVIOUS
<1>1. RegistryInv
  BY RegistryInitInv
<1>2. RepositoryTypeOK
  BY DEF RepositoryInit, RepositoryTypeOK
<1>3. HistoriesInStep
  BY BoundsAssumption DEF RepositoryInit, HistoriesInStep
<1>4. VerifiedEntries = {}
  BY DEF RepositoryInit, VerifiedEntries, Exists, Slots
<1>5. IsFiniteSet(usedProofHashes) /\ Cardinality(usedProofHashes) = 0
  BY FS_EmptySet DEF RepositoryInit
<1>6. ProofsBackOneReport
  BY <1>4, <1>5 DEF RepositoryInit, ProofsBackOneReport
<1>7. QED
  BY <1>1, <1>2, <1>3, <1>5, <1>6 DEF RepositoryInv

(* An attested report leaves the account of cross-chain proofs as it was. *)
LEMMA PushedAttestedInv ==
  ASSUME RepositoryInv, PushedAttested, UNCHANGED registryVars
  PROVE  RepositoryInv'
<1>1. PICK m \in Messages, sender \in Accounts, via \in {"Direct", "Signed", "MultiSigned"},
           signers \in SUBSET Accounts :
        /\ Pushed(m, NewReport(m, sender, NoHash, FALSE), NewBacking(via, signers))
        /\ UNCHANGED <<usedProofHashes, verifiedProofCount>>
        /\ nonces' \in [Accounts -> Nat]
  BY DEF PushedAttested
<1> DEFINE report == NewReport(m, sender, NoHash, FALSE)
           how == NewBacking(via, signers)
           new == <<m.asset, Len(assetReportHistory[m.asset]) + 1>>
           h == assetReportHistory
<1>2. RepositoryTypeOK /\ HistoriesInStep /\ ProofsBackOneReport /\ IsFiniteSet(usedProofHashes)
  BY DEF RepositoryInv
<1>3. Pushed(m, report, how) /\ ~report.crossChainVerified
  BY <1>1 DEF NewReport
<1> HIDE DEF report, how, new
<1>4. /\ new \in Slots /\ ~ExistsIn(h, new)
      /\ \A d \in Slots : ExistsIn(h', d) <=> (ExistsIn(h, d) \/ d = new)
      /\ \A d \in Slots : ExistsIn(h, d) => ReportIn(h', d) = ReportIn(h, d)
      /\ ReportIn(h', new) = report
  BY <1>2, <1>3, PushedEntries DEF new
<1>5. VerifiedIn(h') = VerifiedIn(h)
      /\ \A d \in VerifiedIn(h) : ReportIn(h', d) = ReportIn(h, d)
  BY <1>3, <1>4 DEF VerifiedIn
<1>6. ProofsBackOneReport'
  BY <1>1, <1>2, <1>5, ProofsAreProofsIn DEF ProofsIn
<1>7. RepositoryTypeOK' /\ HistoriesInStep'
  <2>1. /\ now' \in Nat /\ reportCount' \in Nat
        /\ assetReportHistory' \in [Assets -> Seq(Report)]
        /\ backing' \in [Assets -> Seq(Backing)]
        /\ rwaCertificateHistory' \in [Assets -> Seq(Certificate)]
        /\ zkTlsCertificateHistory' \in [Assets -> Seq(Certificate)]
        /\ HistoriesInStep'
    BY <1>2, <1>3, PushedTypes
  <2>2. verifiedProofCount' \in Nat /\ usedProofHashes' \subseteq QueryIds
    BY <1>1, <1>2 DEF RepositoryTypeOK
  <2>3. QED
    BY <1>1, <2>1, <2>2 DEF RepositoryTypeOK
<1>8. RegistryInv' /\ IsFiniteSet(usedProofHashes')
  BY <1>1, <1>2, RegistryStutterInv DEF RepositoryInv
<1>9. QED
  BY <1>6, <1>7, <1>8 DEF RepositoryInv

(* A verified report adds its own, fresh, query id to the used ones. *)
LEMMA PushedVerifiedInv ==
  ASSUME RepositoryInv, PushedVerified, UNCHANGED registryVars
  PROVE  RepositoryInv'
<1>1. PICK m \in Messages, sender \in Accounts, queryId \in QueryIds \ usedProofHashes :
        /\ Pushed(m, NewReport(m, sender, queryId, TRUE), NewBacking("Verified", {}))
        /\ usedProofHashes' = usedProofHashes \cup {queryId}
        /\ verifiedProofCount' = verifiedProofCount + 1
        /\ UNCHANGED nonces
  BY DEF PushedVerified
<1> DEFINE report == NewReport(m, sender, queryId, TRUE)
           how == NewBacking("Verified", {})
           new == <<m.asset, Len(assetReportHistory[m.asset]) + 1>>
           h == assetReportHistory
<1>2. RepositoryTypeOK /\ HistoriesInStep /\ ProofsBackOneReport /\ IsFiniteSet(usedProofHashes)
  BY DEF RepositoryInv
<1>3. Pushed(m, report, how) /\ report.crossChainVerified /\ report.proofHash = queryId
  BY <1>1 DEF NewReport
<1> HIDE DEF report, how, new
<1>4. /\ new \in Slots /\ ~ExistsIn(h, new)
      /\ \A d \in Slots : ExistsIn(h', d) <=> (ExistsIn(h, d) \/ d = new)
      /\ \A d \in Slots : ExistsIn(h, d) => ReportIn(h', d) = ReportIn(h, d)
      /\ ReportIn(h', new) = report
  BY <1>2, <1>3, PushedEntries DEF new
<1>5. /\ VerifiedIn(h') = VerifiedIn(h) \cup {new}
      /\ \A d \in VerifiedIn(h) : ReportIn(h', d) = ReportIn(h, d)
  BY <1>3, <1>4 DEF VerifiedIn
<1>6. ReportIn(h', new).proofHash = queryId
  BY <1>3, <1>4
<1>7. ProofsBackOneReport'
  <2>1. usedProofHashes = {ReportIn(h, d).proofHash : d \in VerifiedIn(h)}
    BY <1>2, ProofsAreProofsIn DEF ProofsIn
  <2>2. usedProofHashes' = {ReportIn(h', d).proofHash : d \in VerifiedIn(h')}
    BY <1>1, <1>5, <1>6, <2>1
  <2>3. \A d \in VerifiedIn(h) : ReportIn(h', d).proofHash # queryId
    BY <1>5, <2>1
  <2>4. \A d, e \in VerifiedIn(h') : ReportIn(h', d).proofHash = ReportIn(h', e).proofHash => d = e
    <3>1. \A d, e \in VerifiedIn(h) : ReportIn(h, d).proofHash = ReportIn(h, e).proofHash => d = e
      BY <1>2, ProofsAreProofsIn DEF ProofsIn
    <3>2. QED
      BY <1>5, <1>6, <2>3, <3>1
  <2>5. verifiedProofCount' = Cardinality(usedProofHashes')
    BY <1>1, <1>2, FS_AddElement, ProofsAreProofsIn DEF ProofsIn
  <2>6. QED
    BY <2>2, <2>4, <2>5, ProofsAreProofsIn DEF ProofsIn
<1>8. RepositoryTypeOK' /\ HistoriesInStep'
  <2>1. /\ now' \in Nat /\ reportCount' \in Nat
        /\ assetReportHistory' \in [Assets -> Seq(Report)]
        /\ backing' \in [Assets -> Seq(Backing)]
        /\ rwaCertificateHistory' \in [Assets -> Seq(Certificate)]
        /\ zkTlsCertificateHistory' \in [Assets -> Seq(Certificate)]
        /\ HistoriesInStep'
    BY <1>2, <1>3, PushedTypes
  <2>2. verifiedProofCount' \in Nat /\ usedProofHashes' \subseteq QueryIds
        /\ nonces' \in [Accounts -> Nat]
    BY <1>1, <1>2 DEF RepositoryTypeOK
  <2>3. QED
    BY <2>1, <2>2 DEF RepositoryTypeOK
<1>9. RegistryInv' /\ IsFiniteSet(usedProofHashes')
  BY <1>1, <1>2, FS_AddElement, RegistryStutterInv DEF RepositoryInv
<1>10. QED
  BY <1>7, <1>8, <1>9 DEF RepositoryInv

(* What leaves the reports alone leaves their part of the invariant alone. *)
LEMMA SameReportsInv ==
  ASSUME RepositoryInv, UNCHANGED reportVars
  PROVE  HistoriesInStep' /\ ProofsBackOneReport' /\ IsFiniteSet(usedProofHashes')
<1>1. HistoriesInStep /\ ProofsBackOneReport /\ IsFiniteSet(usedProofHashes)
  BY DEF RepositoryInv
<1>2. HistoriesInStep'
  BY <1>1 DEF HistoriesInStep, reportVars
<1>3. ProofsBackOneReport'
  BY <1>1 DEF ProofsBackOneReport, VerifiedEntries, Exists, ReportOf, reportVars
<1>4. QED
  BY <1>1, <1>2, <1>3 DEF reportVars

LEMMA PushedCertificateInv ==
  ASSUME RepositoryInv, PushedCertificate, UNCHANGED registryVars
  PROVE  RepositoryInv'
<1>1. PICK a \in Assets, c \in Certificate :
    /\ \/ /\ rwaCertificateHistory' =
              [rwaCertificateHistory EXCEPT ![a] = Append(rwaCertificateHistory[a], c)]
          /\ UNCHANGED zkTlsCertificateHistory
       \/ /\ zkTlsCertificateHistory' =
              [zkTlsCertificateHistory EXCEPT ![a] = Append(zkTlsCertificateHistory[a], c)]
          /\ UNCHANGED rwaCertificateHistory
    /\ UNCHANGED <<now, reportVars>>
  BY DEF PushedCertificate
<1>2. RepositoryTypeOK
  BY DEF RepositoryInv
<1>3. \A s \in Seq(Certificate) : Append(s, c) \in Seq(Certificate)
  OBVIOUS
<1>4. /\ rwaCertificateHistory' \in [Assets -> Seq(Certificate)]
      /\ zkTlsCertificateHistory' \in [Assets -> Seq(Certificate)]
  BY <1>1, <1>2, <1>3 DEF RepositoryTypeOK
<1>5. RepositoryTypeOK'
  BY <1>1, <1>2, <1>4 DEF RepositoryTypeOK, reportVars
<1>6. RegistryInv'
  BY RegistryStutterInv DEF RepositoryInv
<1>7. QED
  BY <1>1, <1>5, <1>6, SameReportsInv DEF RepositoryInv

LEMMA RepositoryStutterInv ==
  ASSUME RepositoryInv, UNCHANGED repositoryVars, RegistryInv'
  PROVE  RepositoryInv'
<1>1. RepositoryTypeOK'
  BY DEF RepositoryInv, RepositoryTypeOK, repositoryVars, reportVars, certificateVars
<1>2. QED
  BY <1>1, SameReportsInv DEF RepositoryInv, repositoryVars

LEMMA NextBlockInv ==
  ASSUME RepositoryInv, NextBlock, UNCHANGED registryVars
  PROVE  RepositoryInv'
<1>1. now' \in Nat
  BY DEF NextBlock, RepositoryInv, RepositoryTypeOK
<1>2. RepositoryTypeOK'
  BY <1>1 DEF NextBlock, RepositoryInv, RepositoryTypeOK, reportVars, certificateVars
<1>3. RegistryInv'
  BY RegistryStutterInv DEF RepositoryInv
<1>4. QED
  BY <1>2, <1>3, SameReportsInv DEF RepositoryInv, NextBlock

(* Every step of the repository keeps the invariant. *)
LEMMA RepositoryNextInv ==
  ASSUME RepositoryInv, [RepositoryNext]_repositoryAndRegistry
  PROVE  RepositoryInv'
<1>1. ASSUME NEW sender \in Accounts, RegistryStep(sender), UNCHANGED repositoryVars
      PROVE  RepositoryInv'
  BY <1>1, RegistryStepInv, RepositoryStutterInv DEF RepositoryInv
<1>2. ASSUME NEW sender \in Accounts, RepositoryStep(sender), UNCHANGED registryVars
      PROVE  RepositoryInv'
  BY <1>2, RepositoryStepShape, PushedAttestedInv, PushedVerifiedInv, PushedCertificateInv
<1>3. ASSUME NextBlock, UNCHANGED registryVars
      PROVE  RepositoryInv'
  BY <1>3, NextBlockInv
<1>4. CASE UNCHANGED repositoryAndRegistry
  <2>1. RegistryInv'
    BY <1>4, RegistryStutterInv DEF RepositoryInv, repositoryAndRegistry
  <2>2. QED
    BY <1>4, <2>1, RepositoryStutterInv DEF repositoryAndRegistry
<1>5. QED
  BY <1>1, <1>2, <1>3, <1>4 DEF RepositoryNext

-----------------------------------------------------------------------------
LEMMA RepositoryNextShape ==
  ASSUME RepositoryInv, [RepositoryNext]_repositoryAndRegistry
  PROVE  \/ PushedAttested \/ PushedVerified \/ PushedCertificate
         \/ UNCHANGED <<reportVars, certificateVars>>
<1>1. ASSUME NEW sender \in Accounts, RepositoryStep(sender)
      PROVE  PushedAttested \/ PushedVerified \/ PushedCertificate
  BY <1>1, RepositoryStepShape
<1>2. UNCHANGED repositoryVars => UNCHANGED <<reportVars, certificateVars>>
  BY DEF repositoryVars
<1>3. NextBlock => UNCHANGED <<reportVars, certificateVars>>
  BY DEF NextBlock
<1>4. UNCHANGED repositoryAndRegistry => UNCHANGED repositoryVars
  BY DEF repositoryAndRegistry
<1>5. QED
  BY <1>1, <1>2, <1>3, <1>4 DEF RepositoryNext

(* The positions a push adds hold what was pushed. *)
LEMMA PushedAdds ==
  ASSUME RepositoryTypeOK, HistoriesInStep, NEW m, NEW report, NEW how, Pushed(m, report, how),
         NEW a \in Assets, NEW k \in Added(a)
  PROVE  assetReportHistory'[a][k] = report /\ backing'[a][k] = how
<1>1. /\ assetReportHistory[a] \in Seq(Report) /\ backing[a] \in Seq(Backing)
      /\ Len(backing[a]) = Len(assetReportHistory[a])
      /\ report \in Report /\ how \in Backing
  BY DEF RepositoryTypeOK, HistoriesInStep, Pushed
<1>2. CASE a = m.asset
  <2>1. /\ assetReportHistory'[a] = Append(assetReportHistory[a], report)
        /\ backing'[a] = Append(backing[a], how)
    BY <1>2 DEF Pushed, RepositoryTypeOK
  <2>2. k = Len(assetReportHistory[a]) + 1
    BY <1>1, <2>1 DEF Added
  <2>3. QED
    BY <1>1, <2>1, <2>2
<1>3. CASE a # m.asset
  <2>1. assetReportHistory'[a] = assetReportHistory[a]
    BY <1>3 DEF Pushed, RepositoryTypeOK
  <2>2. FALSE
    BY <1>1, <2>1 DEF Added
  <2>3. QED
    BY <2>2
<1>4. QED
  BY <1>2, <1>3

LEMMA NothingAdded ==
  ASSUME RepositoryTypeOK, UNCHANGED assetReportHistory, NEW a \in Assets
  PROVE  Added(a) = {}
<1>1. Len(assetReportHistory[a]) \in Nat
  BY DEF RepositoryTypeOK
<1>2. QED
  BY <1>1 DEF Added

LEMMA AppendExtends ==
  ASSUME NEW S, NEW s \in Seq(S)
  PROVE  Extends(s, s) /\ \A x \in S : Extends(s, Append(s, x))
BY DEF Extends

LEMMA PushExtends ==
  ASSUME NEW S, NEW h \in [Assets -> Seq(S)], NEW b \in Assets, NEW x \in S, NEW a \in Assets
  PROVE  Extends(h[a], h[a]) /\ Extends(h[a], [h EXCEPT ![b] = Append(h[b], x)][a])
<1>1. h[a] \in Seq(S)
  OBVIOUS
<1>2. [h EXCEPT ![b] = Append(h[b], x)][a] = IF a = b THEN Append(h[a], x) ELSE h[a]
  OBVIOUS
<1>3. QED
  BY <1>1, <1>2, AppendExtends

LEMMA HistoriesGrowStep ==
  ASSUME RepositoryInv, [RepositoryNext]_repositoryAndRegistry
  PROVE  HistoriesGrow
<1> SUFFICES ASSUME NEW a \in Assets
    PROVE  /\ Extends(assetReportHistory[a], assetReportHistory'[a])
           /\ Extends(backing[a], backing'[a])
           /\ Extends(rwaCertificateHistory[a], rwaCertificateHistory'[a])
           /\ Extends(zkTlsCertificateHistory[a], zkTlsCertificateHistory'[a])
  BY DEF HistoriesGrow
<1>1. /\ assetReportHistory \in [Assets -> Seq(Report)]
      /\ backing \in [Assets -> Seq(Backing)]
      /\ rwaCertificateHistory \in [Assets -> Seq(Certificate)]
      /\ zkTlsCertificateHistory \in [Assets -> Seq(Certificate)]
  BY DEF RepositoryInv, RepositoryTypeOK
<1>2. /\ Extends(assetReportHistory[a], assetReportHistory[a])
      /\ Extends(backing[a], backing[a])
      /\ Extends(rwaCertificateHistory[a], rwaCertificateHistory[a])
      /\ Extends(zkTlsCertificateHistory[a], zkTlsCertificateHistory[a])
  BY <1>1, AppendExtends
<1>3. ASSUME NEW m, NEW report, NEW how, Pushed(m, report, how)
      PROVE  /\ Extends(assetReportHistory[a], assetReportHistory'[a])
             /\ Extends(backing[a], backing'[a])
             /\ UNCHANGED certificateVars
  <2>1. m.asset \in Assets /\ report \in Report /\ how \in Backing /\ UNCHANGED certificateVars
    BY <1>3 DEF Pushed
  <2>2. Extends(assetReportHistory[a], assetReportHistory'[a])
    BY <1>1, <1>3, <2>1, PushExtends DEF Pushed
  <2>3. Extends(backing[a], backing'[a])
    BY <1>1, <1>3, <2>1, PushExtends DEF Pushed
  <2>4. QED
    BY <2>1, <2>2, <2>3
<1>4. CASE PushedAttested
  BY <1>2, <1>3, <1>4 DEF PushedAttested, certificateVars
<1>5. CASE PushedVerified
  BY <1>2, <1>3, <1>5 DEF PushedVerified, certificateVars
<1>6. CASE PushedCertificate
  BY <1>1, <1>2, <1>6, PushExtends DEF PushedCertificate, reportVars
<1>7. CASE UNCHANGED <<reportVars, certificateVars>>
  BY <1>2, <1>7 DEF reportVars, certificateVars
<1>8. QED
  BY <1>4, <1>5, <1>6, <1>7, RepositoryNextShape

LEMMA QuorumsAreMetStep ==
  ASSUME RepositoryInv, [RepositoryNext]_repositoryAndRegistry
  PROVE  QuorumsAreMet /\ AddedAreAttested
<1>1. RepositoryTypeOK /\ HistoriesInStep
  BY DEF RepositoryInv
<1>2. CASE PushedAttested
  <2>1. PICK m \in Messages, sender \in Accounts, via \in {"Direct", "Signed", "MultiSigned"},
             signers \in SUBSET Accounts :
          /\ Pushed(m, NewReport(m, sender, NoHash, FALSE), NewBacking(via, signers))
          /\ \E s \in signers : MayAttest(s)
          /\ via = "MultiSigned" =>
               Cardinality(signers) >= requiredOracleQuorum /\ \A s \in signers : MayAttest(s)
    BY <1>2 DEF PushedAttested
  <2>2. ASSUME NEW a \in Assets, NEW k \in Added(a)
        PROVE  /\ assetReportHistory'[a][k] = NewReport(m, sender, NoHash, FALSE)
               /\ backing'[a][k] = NewBacking(via, signers)
    BY <1>1, <2>1, PushedAdds
  <2>3. /\ ~NewReport(m, sender, NoHash, FALSE).crossChainVerified
        /\ NewBacking(via, signers).via = via /\ NewBacking(via, signers).signers = signers
    BY DEF NewReport, NewBacking
  <2>4. QED
    BY <2>1, <2>2, <2>3 DEF QuorumsAreMet, AddedAreAttested
<1>3. CASE PushedVerified
  <2>1. PICK m \in Messages, sender \in Accounts, queryId \in QueryIds \ usedProofHashes :
          Pushed(m, NewReport(m, sender, queryId, TRUE), NewBacking("Verified", {}))
    BY <1>3 DEF PushedVerified
  <2>2. ASSUME NEW a \in Assets, NEW k \in Added(a)
        PROVE  /\ assetReportHistory'[a][k] = NewReport(m, sender, queryId, TRUE)
               /\ backing'[a][k] = NewBacking("Verified", {})
    BY <1>1, <2>1, PushedAdds
  <2>3. /\ NewReport(m, sender, queryId, TRUE).crossChainVerified
        /\ NewReport(m, sender, queryId, TRUE).proofHash = queryId
        /\ NewBacking("Verified", {}).via # "MultiSigned"
    BY DEF NewReport, NewBacking
  <2>4. QED
    BY <2>1, <2>2, <2>3 DEF QuorumsAreMet, AddedAreAttested
<1>4. CASE UNCHANGED assetReportHistory
  BY <1>1, <1>4, NothingAdded DEF QuorumsAreMet, AddedAreAttested
<1>5. PushedCertificate => UNCHANGED assetReportHistory
  BY DEF PushedCertificate, reportVars
<1>6. UNCHANGED <<reportVars, certificateVars>> => UNCHANGED assetReportHistory
  BY DEF reportVars
<1>7. QED
  BY <1>2, <1>3, <1>4, <1>5, <1>6, RepositoryNextShape

-----------------------------------------------------------------------------
LEMMA RepositoryAlwaysInv == RepositorySpec => []RepositoryInv
<1>1. RepositoryInv /\ [RepositoryNext]_repositoryAndRegistry => RepositoryInv'
  BY RepositoryNextInv
<1>2. QED
  BY <1>1, RepositoryInitInv, PTL DEF RepositorySpec, RepositoryFirst, repositoryAndRegistry

(* The repository changes the roles, the quorum and the pause switch only in the
   ways OracleRegistry allows, so what is proved of the registry holds of it. *)
THEOREM RepositoryImplementsRegistry == RepositorySpec => RegistrySpec
<1>1. [RepositoryNext]_repositoryAndRegistry => [RegistryNext]_registryVars
  BY DEF RepositoryNext, RegistryNext, repositoryAndRegistry
<1>2. QED
  BY <1>1, PTL DEF RepositorySpec, RepositoryFirst, RegistrySpec, repositoryAndRegistry

(* Whatever the contract is sent, its report and certificate state stays well
   typed; in particular a score above 100 is never recorded. *)
THEOREM RepositoryTypeCorrect == RepositorySpec => []RepositoryTypeOK
<1>1. RepositoryInv => RepositoryTypeOK
  BY DEF RepositoryInv
<1>2. QED
  BY <1>1, RepositoryAlwaysInv, PTL

(* A cross-chain proof is counted once and backs one report of one asset, for
   any number of assets, reports and query ids. *)
THEOREM ProofsBackOne == RepositorySpec => []ProofsBackOneReport
<1>1. RepositoryInv => ProofsBackOneReport
  BY DEF RepositoryInv
<1>2. QED
  BY <1>1, RepositoryAlwaysInv, PTL

(* No call changes or removes an entry of a history. *)
THEOREM HistoriesAppendOnly == RepositorySpec => AppendOnly
<1>1. RepositoryInv /\ [RepositoryNext]_repositoryAndRegistry =>
        [HistoriesGrow]_repositoryAndRegistry
  BY HistoriesGrowStep
<1>2. QED
  BY <1>1, RepositoryAlwaysInv, PTL DEF RepositorySpec, RepositoryFirst, AppendOnly, repositoryAndRegistry

(* A report of the quorum function has at least the quorum's number of distinct
   signers, all of them entitled, for signer lists of any length. *)
THEOREM QuorumsAreDistinct == RepositorySpec => QuorumOfDistinctOracles
<1>1. RepositoryInv /\ [RepositoryNext]_repositoryAndRegistry =>
        [QuorumsAreMet]_repositoryAndRegistry
  BY QuorumsAreMetStep
<1>2. QED
  BY <1>1, RepositoryAlwaysInv, PTL
     DEF RepositorySpec, RepositoryFirst, QuorumOfDistinctOracles, repositoryAndRegistry

(* Every report has an entitled attester or a fresh cross-chain proof. *)
THEOREM ReportsAreAttested == RepositorySpec => EveryReportAttested
<1>1. RepositoryInv /\ [RepositoryNext]_repositoryAndRegistry =>
        [AddedAreAttested]_repositoryAndRegistry
  BY QuorumsAreMetStep
<1>2. QED
  BY <1>1, RepositoryAlwaysInv, PTL
     DEF RepositorySpec, RepositoryFirst, EveryReportAttested, repositoryAndRegistry
=============================================================================
