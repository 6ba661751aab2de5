------------------------ MODULE CreditPulseASC_proofs ------------------------
(***************************************************************************)
(* What the whole contract keeps for any accounts, amounts and bounds, the  *)
(* re-entrant calls of ether receivers included: it implements the report   *)
(* repository (so what is proved there holds of it), dispute records are    *)
(* sound, a final report stays final, and a report's life is the one of     *)
(* OptimisticFinality.                                                      *)
(***************************************************************************)
EXTENDS CreditPulseASC, RiskReports_proofs

ContractInv == RepositoryInv /\ TreasuryTypeOK /\ DisputesAreSound

-----------------------------------------------------------------------------
(* A step of the contract is a step of the repository or leaves it alone. *)
LEMMA SendersAreAccounts == TreasuryTypeOK => Senders \subseteq Accounts
BY DEF TreasuryTypeOK, Senders, NotEntered

LEMMA NextIsRepositoryStep ==
  ASSUME TreasuryTypeOK, [Next]_vars
  PROVE  [RepositoryNext]_repositoryAndRegistry
<1>1. ASSUME NEW sender \in Senders, RegistryStep(sender), UNCHANGED repositoryVars
      PROVE  RepositoryNext
  BY <1>1, SendersAreAccounts DEF RepositoryNext
<1>2. ASSUME NEW sender \in Senders, UnguardedSave(sender) \/ GuardedSave(sender),
             UNCHANGED registryVars
      PROVE  RepositoryNext
  BY <1>2, SendersAreAccounts DEF RepositoryNext, RepositoryStep
<1>3. NextBlock /\ UNCHANGED registryVars => RepositoryNext
  BY DEF RepositoryNext
<1>4. UNCHANGED <<registryVars, repositoryVars>> => UNCHANGED repositoryAndRegistry
  BY DEF repositoryAndRegistry
<1>5. UNCHANGED vars => UNCHANGED <<registryVars, repositoryVars>>
  BY DEF vars
<1>6. QED
  BY <1>1, <1>2, <1>3, <1>4, <1>5 DEF Next

-----------------------------------------------------------------------------
LEMMA SlashIsStaked ==
  ASSUME TreasuryTypeOK, NEW oracle \in Accounts \cup {ZeroAddress}
  PROVE  /\ SlashOf(oracle) \in Nat
         /\ oracle # ZeroAddress => SlashOf(oracle) <= oracleStake[oracle]
BY BondAssumption DEF SlashOf, TreasuryTypeOK

(* The dispute a challenge opens and the one a verdict leaves are records of
   disputes. *)
Opened(sender, bond) ==
  [challenger |-> sender, bondAmount |-> bond, active |-> TRUE, resolved |-> FALSE,
   challengerWon |-> FALSE]

Closed(r, upheld) ==
  [challenger |-> r.challenger, bondAmount |-> r.bondAmount, active |-> FALSE,
   resolved |-> TRUE, challengerWon |-> upheld]

LEMMA SettleCloses ==
  ASSUME TreasuryTypeOK, NEW d \in Slots, NEW upheld \in BOOLEAN, Settle(d, upheld)
  PROVE  /\ reportDisputes' = [reportDisputes EXCEPT ![d] = Closed(reportDisputes[d], upheld)]
         /\ Closed(reportDisputes[d], upheld) \in Dispute
<1>1. reportDisputes \in [Slots -> Dispute] /\ reportDisputes[d] \in Dispute
  BY DEF TreasuryTypeOK
<1>2. Closed(reportDisputes[d], upheld) \in Dispute
  BY <1>1 DEF Closed, Dispute
<1>3. reportDisputes' = [reportDisputes EXCEPT ![d] = Closed(reportDisputes[d], upheld)]
  <2>1. reportDisputes'[d] = Closed(reportDisputes[d], upheld)
    BY <1>1 DEF Settle, Closed, Dispute
  <2>2. \A e \in Slots : e # d => reportDisputes'[e] = reportDisputes[e]
    BY <1>1 DEF Settle
  <2>3. reportDisputes' = [e \in Slots |-> reportDisputes'[e]]
    BY <1>1 DEF Settle
  <2>4. QED
    BY <1>1, <2>1, <2>2, <2>3
<1>4. QED
  BY <1>2, <1>3

(* What a step does to the disputes: nothing, open one on a report inside its
   window, or close an open one. *)
DisputeOpens ==
  \E sender \in Accounts, d \in Slots, bond \in BondAmounts :
    /\ Exists(d) /\ InDisputeWindow(d) /\ ~reportDisputes[d].active
    /\ bond >= ChallengerBond
    /\ reportDisputes' = [reportDisputes EXCEPT ![d] = Opened(sender, bond)]

DisputeCloses ==
  \E d \in Slots, upheld \in BOOLEAN :
    /\ reportDisputes[d].active
    /\ reportDisputes' = [reportDisputes EXCEPT ![d] = Closed(reportDisputes[d], upheld)]

LEMMA TreasuryStepShape ==
  ASSUME RegistryTypeOK, TreasuryTypeOK, NEW sender \in Accounts, TreasuryStep(sender)
  PROVE  /\ DisputeOpens \/ DisputeCloses \/ UNCHANGED reportDisputes
         /\ TreasuryTypeOK'
<1>0. /\ oracleStake \in [Accounts -> Nat] /\ totalOracleStake \in Nat
      /\ reportDisputes \in [Slots -> Dispute] /\ totalInsurancePool \in Nat
      /\ balance \in Nat /\ callee \in Accounts \cup {ZeroAddress}
      /\ StakeAmounts \subseteq Nat /\ BondAmounts \subseteq Nat
  BY AmountsAssumption DEF TreasuryTypeOK
<1>1. ASSUME NEW amount \in StakeAmounts, StakeOracle(sender, amount)
      PROVE  TreasuryTypeOK' /\ UNCHANGED reportDisputes
  BY <1>0, <1>1 DEF StakeOracle, TreasuryTypeOK
<1>2. ASSUME NEW amount \in StakeAmounts, NEW account \in Accounts, NEW paid \in Accounts,
             amount \in Nat, oracleStake[account] >= amount, totalOracleStake >= amount,
             oracleStake' = [oracleStake EXCEPT ![account] = @ - amount],
             totalOracleStake' = totalOracleStake - amount,
             Pay(paid, amount), UNCHANGED <<reportDisputes, totalInsurancePool>>
      PROVE  TreasuryTypeOK'
  <2>1. balance' \in Nat /\ callee' \in Accounts \cup {ZeroAddress}
    BY <1>0, <1>2 DEF Pay
  <2>2. totalOracleStake' \in Nat /\ oracleStake[account] - amount \in Nat
    BY <1>0, <1>2
  <2>3. oracleStake' \in [Accounts -> Nat]
    BY <1>0, <1>2, <2>2
  <2>4. QED
    BY <1>0, <1>2, <2>1, <2>2, <2>3 DEF TreasuryTypeOK
<1>3. ASSUME NEW amount \in StakeAmounts, UnstakeOracle(sender, amount)
      PROVE  TreasuryTypeOK' /\ UNCHANGED reportDisputes
  BY <1>0, <1>2, <1>3 DEF UnstakeOracle
<1>4. ASSUME NEW oracle \in Accounts, NEW recipient \in Accounts, NEW amount \in StakeAmounts,
             SlashOracle(sender, oracle, recipient, amount)
      PROVE  TreasuryTypeOK' /\ UNCHANGED reportDisputes
  BY <1>0, <1>2, <1>4 DEF SlashOracle
<1>5. ASSUME NEW d \in Slots, NEW bond \in BondAmounts, ChallengeReport(sender, d, bond)
      PROVE  TreasuryTypeOK' /\ DisputeOpens
  <2>1. DisputeOpens
    BY <1>5 DEF ChallengeReport, DisputeOpens, Opened
  <2>2. Opened(sender, bond) \in Dispute
    BY <1>0 DEF Opened, Dispute
  <2>3. reportDisputes' \in [Slots -> Dispute]
    BY <1>0, <1>5, <2>2 DEF ChallengeReport, Opened
  <2>4. balance' \in Nat
    BY <1>0, <1>5 DEF ChallengeReport
  <2>5. QED
    BY <1>0, <1>5, <2>1, <2>3, <2>4 DEF ChallengeReport, TreasuryTypeOK
<1>6. ASSUME NEW d \in Slots, NEW oracle \in Accounts \cup {ZeroAddress},
             UpholdChallenge(sender, d, oracle)
      PROVE  TreasuryTypeOK' /\ DisputeCloses
  <2> DEFINE slash == SlashOf(oracle)
  <2>1. /\ slash \in Nat /\ slash \div 2 \in Nat /\ InsuranceShare(slash) \in Nat
        /\ oracle # ZeroAddress => slash <= oracleStake[oracle]
    BY SlashIsStaked DEF InsuranceShare
  <2>2. /\ reportDisputes[d].active
        /\ Settle(d, TRUE)
        /\ totalOracleStake >= slash
        /\ oracleStake' = IF oracle = ZeroAddress THEN oracleStake
                          ELSE [oracleStake EXCEPT ![oracle] = @ - slash]
        /\ totalOracleStake' = totalOracleStake - slash
        /\ totalInsurancePool' = totalInsurancePool + InsuranceShare(slash)
        /\ Pay(reportDisputes[d].challenger, reportDisputes[d].bondAmount + slash \div 2)
    BY <1>6 DEF UpholdChallenge
  <2> HIDE DEF slash
  <2>3. DisputeCloses /\ reportDisputes' \in [Slots -> Dispute]
    BY <1>0, <2>2, SettleCloses DEF DisputeCloses
  <2>4. reportDisputes[d].challenger \in Accounts \cup {ZeroAddress}
        /\ reportDisputes[d].bondAmount \in Nat
    BY <1>0 DEF Dispute
  <2>5. balance' \in Nat /\ callee' \in Accounts \cup {ZeroAddress}
    BY <1>0, <2>1, <2>2, <2>4 DEF Pay
  <2>6. oracleStake' \in [Accounts -> Nat]
    <3>1. CASE oracle = ZeroAddress
      BY <1>0, <2>2, <3>1
    <3>2. CASE oracle # ZeroAddress
      <4>1. oracle \in Accounts /\ oracleStake[oracle] - slash \in Nat
        BY <1>0, <2>1, <3>2
      <4>2. QED
        BY <1>0, <2>2, <3>2, <4>1
    <3>3. QED
      BY <3>1, <3>2
  <2>7. totalOracleStake' \in Nat /\ totalInsurancePool' \in Nat
    BY <1>0, <2>1, <2>2
  <2>8. QED
    BY <2>3, <2>5, <2>6, <2>7 DEF TreasuryTypeOK
<1>7. ASSUME NEW d \in Slots, RejectChallenge(sender, d)
      PROVE  TreasuryTypeOK' /\ DisputeCloses
  <2>1. DisputeCloses /\ reportDisputes' \in [Slots -> Dispute]
    BY <1>0, <1>7, SettleCloses DEF DisputeCloses, RejectChallenge
  <2>2. reportDisputes[d].bondAmount \in Nat
    BY <1>0 DEF Dispute
  <2>3. totalInsurancePool' \in Nat
    BY <1>0, <1>7, <2>2 DEF RejectChallenge
  <2>4. QED
    BY <1>0, <1>7, <2>1, <2>3 DEF RejectChallenge, TreasuryTypeOK
<1>8. QED
  BY <1>1, <1>3, <1>4, <1>5, <1>6, <1>7 DEF TreasuryStep

LEMMA TreasuryStutter == TreasuryTypeOK /\ UNCHANGED treasuryVars => TreasuryTypeOK'
BY DEF TreasuryTypeOK, treasuryVars

(* What any step of the contract does to time, histories and disputes. *)
LEMMA NextShape ==
  ASSUME ContractInv, [Next]_vars
  PROVE  /\ TreasuryTypeOK'
         /\ now' \in Nat /\ now' >= now
         /\ \/ /\ DisputeOpens \/ DisputeCloses
               /\ UNCHANGED repositoryVars
            \/ UNCHANGED reportDisputes
<1>0. RegistryTypeOK /\ TreasuryTypeOK /\ RepositoryTypeOK /\ RepositoryInv /\ now \in Nat
  BY DEF ContractInv, RepositoryInv, RegistryInv, RepositoryTypeOK
<1>1. ASSUME NEW sender \in Senders, TreasuryStep(sender), UNCHANGED repositoryVars
      PROVE  /\ DisputeOpens \/ DisputeCloses \/ UNCHANGED reportDisputes
             /\ TreasuryTypeOK' /\ now' = now
  BY <1>0, <1>1, SendersAreAccounts, TreasuryStepShape DEF repositoryVars
<1>2. ASSUME UNCHANGED treasuryVars
      PROVE  TreasuryTypeOK' /\ UNCHANGED reportDisputes
  BY <1>0, <1>2, TreasuryStutter DEF treasuryVars
<1>3. ASSUME CallReturns, UNCHANGED repositoryVars
      PROVE  TreasuryTypeOK' /\ UNCHANGED reportDisputes /\ now' = now
  BY <1>0, <1>3 DEF CallReturns, TreasuryTypeOK, repositoryVars
<1>4. ASSUME NextBlock PROVE now' \in Nat /\ now' >= now
  BY <1>0, <1>4 DEF NextBlock
<1>5. ASSUME NEW sender \in Senders, UnguardedSave(sender) \/ GuardedSave(sender),
             UNCHANGED registryVars
      PROVE  now' = now
  <2>1. PushedAttested \/ PushedVerified \/ PushedCertificate
    BY <1>0, <1>5, SendersAreAccounts, RepositoryStepShape DEF RepositoryStep
  <2>2. QED
    BY <2>1 DEF PushedAttested, PushedVerified, PushedCertificate, Pushed
<1>6. UNCHANGED repositoryVars => now' = now
  BY DEF repositoryVars
<1>7. now' = now => now' \in Nat /\ now' >= now
  BY <1>0
<1>8. UNCHANGED vars => UNCHANGED repositoryVars /\ UNCHANGED treasuryVars
  BY DEF vars
<1>9. QED
  BY <1>1, <1>2, <1>3, <1>4, <1>5, <1>6, <1>7, <1>8 DEF Next

-----------------------------------------------------------------------------
(* The contract's state predicates about a slot, as operators on a history h,
   the disputes r and the time t. *)
SoundIn(h, r, d) ==
  \/ r[d] = NoDispute
  \/ /\ ExistsIn(h, d)
     /\ r[d].challenger \in Accounts
     /\ r[d].bondAmount >= ChallengerBond
     /\ r[d].active # r[d].resolved
     /\ r[d].challengerWon => r[d].resolved

FinalIn(h, r, t, d) ==
  /\ ExistsIn(h, d)
  /\ t > ReportIn(h, d).timestamp + DisputePeriod
  /\ ~r[d].active

LEMMA SoundIsSoundIn ==
  /\ DisputesAreSound <=> \A d \in Slots : SoundIn(assetReportHistory, reportDisputes, d)
  /\ DisputesAreSound' <=> \A d \in Slots : SoundIn(assetReportHistory', reportDisputes', d)
BY DEF DisputesAreSound, SoundIn, Exists, ExistsIn

(* An existing report keeps its slot and its contents in every step. *)
LEMMA EntriesStand ==
  ASSUME RepositoryTypeOK, RepositoryTypeOK', HistoriesGrow, NEW d \in Slots
  PROVE  ExistsIn(assetReportHistory, d) =>
           /\ ExistsIn(assetReportHistory', d)
           /\ ReportIn(assetReportHistory', d) = ReportIn(assetReportHistory, d)
<1> DEFINE h == assetReportHistory
<1>1. d[1] \in Assets /\ d[2] \in 1..MaxReports
  BY DEF Slots
<1>2. Len(h[d[1]]) \in Nat /\ MaxReports \in Nat
  BY <1>1, BoundsAssumption DEF RepositoryTypeOK
<1>3. Extends(h[d[1]], h'[d[1]])
  BY <1>1 DEF HistoriesGrow
<1>4. Len(h[d[1]]) <= Len(h'[d[1]]) /\ \A k \in 1..Len(h[d[1]]) : h'[d[1]][k] = h[d[1]][k]
  BY <1>3 DEF Extends
<1>5. ASSUME ExistsIn(h, d) PROVE d[2] \in 1..Len(h[d[1]])
  BY <1>1, <1>2, <1>5 DEF ExistsIn
<1>6. ASSUME ExistsIn(h, d) PROVE ReportIn(h', d) = ReportIn(h, d)
  BY <1>4, <1>5, <1>6 DEF ReportIn
<1>7. ASSUME ExistsIn(h, d) PROVE ExistsIn(h', d)
  <2>1. Len(h'[d[1]]) \in Nat
    BY <1>1 DEF RepositoryTypeOK
  <2>2. QED
    BY <1>1, <1>2, <1>4, <1>7, <2>1 DEF ExistsIn
<1>8. QED
  BY <1>6, <1>7

LEMMA ReportsAreReports ==
  ASSUME RepositoryTypeOK, NEW d \in Slots, ExistsIn(assetReportHistory, d)
  PROVE  ReportIn(assetReportHistory, d) \in Report
<1>1. d[1] \in Assets /\ d[2] \in 1..MaxReports /\ MaxReports \in Nat
  BY BoundsAssumption DEF Slots
<1>2. assetReportHistory[d[1]] \in Seq(Report)
  BY <1>1 DEF RepositoryTypeOK
<1>3. d[2] \in 1..Len(assetReportHistory[d[1]])
  BY <1>1, <1>2 DEF ExistsIn
<1>4. QED
  BY <1>2, <1>3 DEF ReportIn

LEMMA DisputesAreSoundStep ==
  ASSUME ContractInv, RepositoryInv', HistoriesGrow, [Next]_vars
  PROVE  DisputesAreSound'
<1> DEFINE h == assetReportHistory
           r == reportDisputes
<1>1. /\ RepositoryTypeOK /\ RepositoryTypeOK'
      /\ r \in [Slots -> Dispute]
      /\ BondAmounts \subseteq Nat /\ ChallengerBond \in Nat
  BY AmountsAssumption, BondAssumption DEF ContractInv, RepositoryInv, TreasuryTypeOK
<1> SUFFICES ASSUME NEW d \in Slots PROVE SoundIn(h', r', d)
  BY SoundIsSoundIn
<1>2. SoundIn(h, r, d)
  BY SoundIsSoundIn DEF ContractInv
<1>3. ExistsIn(h, d) => ExistsIn(h', d)
  BY <1>1, EntriesStand
<1>4. CASE r'[d] = r[d]
  BY <1>2, <1>3, <1>4 DEF SoundIn
<1>5. CASE DisputeOpens
  <2>1. PICK sender \in Accounts, e \in Slots, bond \in BondAmounts :
          /\ Exists(e) /\ bond >= ChallengerBond
          /\ r' = [r EXCEPT ![e] = Opened(sender, bond)]
    BY <1>5 DEF DisputeOpens
  <2>2. CASE d = e
    <3>1. r'[d] = Opened(sender, bond)
      BY <1>1, <2>1, <2>2
    <3>2. ExistsIn(h, d)
      BY <2>1, <2>2 DEF Exists, ExistsIn
    <3>3. /\ r'[d].challenger = sender /\ r'[d].bondAmount = bond /\ r'[d].active = TRUE
          /\ r'[d].resolved = FALSE /\ r'[d].challengerWon = FALSE
      BY <3>1 DEF Opened
    <3>4. QED
      BY <1>3, <2>1, <3>2, <3>3 DEF SoundIn
  <2>3. CASE d # e
    BY <1>1, <1>4, <2>1, <2>3
  <2>4. QED
    BY <2>2, <2>3
<1>6. CASE DisputeCloses
  <2>1. PICK e \in Slots, upheld \in BOOLEAN :
          r[e].active /\ r' = [r EXCEPT ![e] = Closed(r[e], upheld)]
    BY <1>6 DEF DisputeCloses
  <2>2. CASE d = e
    <3>1. r'[d] = Closed(r[d], upheld)
      BY <1>1, <2>1, <2>2
    <3>2. r[d] # NoDispute
      BY <2>1, <2>2 DEF NoDispute
    <3>3. /\ r'[d].challenger = r[d].challenger /\ r'[d].bondAmount = r[d].bondAmount
          /\ r'[d].active = FALSE /\ r'[d].resolved = TRUE
      BY <3>1 DEF Closed
    <3>4. ExistsIn(h', d) /\ r[d].challenger \in Accounts /\ r[d].bondAmount >= ChallengerBond
      BY <1>2, <1>3, <3>2 DEF SoundIn
    <3>5. QED
      BY <3>3, <3>4 DEF SoundIn
  <2>3. CASE d # e
    BY <1>1, <1>4, <2>1, <2>3
  <2>4. QED
    BY <2>2, <2>3
<1>7. QED
  BY <1>4, <1>5, <1>6, NextShape

LEMMA ContractInitInv == Init => ContractInv
<1> SUFFICES ASSUME Init PROVE ContractInv
  OBVIOUS
<1>1. RepositoryInv
  BY RepositoryInitInv DEF Init
<1>2. NoDispute \in Dispute
  BY DEF NoDispute, Dispute
<1>3. TreasuryTypeOK
  BY <1>2 DEF Init, TreasuryInit, TreasuryTypeOK
<1>4. DisputesAreSound
  BY DEF Init, TreasuryInit, DisputesAreSound
<1>5. QED
  BY <1>1, <1>3, <1>4 DEF ContractInv

LEMMA ContractNextInv ==
  ASSUME ContractInv, [Next]_vars
  PROVE  ContractInv' /\ HistoriesGrow
<1>1. [RepositoryNext]_repositoryAndRegistry
  BY NextIsRepositoryStep DEF ContractInv
<1>2. RepositoryInv' /\ HistoriesGrow
  BY <1>1, RepositoryNextInv, HistoriesGrowStep DEF ContractInv
<1>3. QED
  BY <1>2, DisputesAreSoundStep, NextShape DEF ContractInv

-----------------------------------------------------------------------------
LEMMA ContractAlwaysInv == Spec => []ContractInv
<1>1. ContractInv /\ [Next]_vars => ContractInv'
  BY ContractNextInv
<1>2. QED
  BY <1>1, ContractInitInv, PTL DEF Spec

(* The contract implements the report repository - re-entered by whomever it
   pays, for any stakes and bonds - so AppendOnly, QuorumOfDistinctOracles,
   EveryReportAttested and ProofsBackOneReport hold of it as well. *)
THEOREM ContractImplementsRepository == Spec => RepositorySpec
<1>1. ContractInv /\ [Next]_vars => [RepositoryNext]_repositoryAndRegistry
  BY NextIsRepositoryStep DEF ContractInv
<1>2. Init => RegistryInit /\ RepositoryInit
  BY DEF Init
<1>3. QED
  BY <1>1, <1>2, ContractAlwaysInv, PTL
     DEF Spec, RepositorySpec, RepositoryFirst, repositoryAndRegistry

(* The contract's state stays well typed: no stake, bond or balance is ever
   below zero, whatever calls a payment triggers. *)
THEOREM ContractTypeCorrect == Spec => []TypeOK
<1>1. ContractInv => TypeOK
  BY DEF ContractInv, RepositoryInv, RegistryInv, TypeOK
<1>2. QED
  BY <1>1, ContractAlwaysInv, PTL

(* Dispute records stay consistent with the reports they dispute, for any bond,
   window and number of re-entrant calls. *)
THEOREM DisputesStaySound == Spec => []DisputesAreSound
<1>1. ContractInv => DisputesAreSound
  BY DEF ContractInv
<1>2. QED
  BY <1>1, ContractAlwaysInv, PTL

-----------------------------------------------------------------------------
LEMMA FinalIsFinalIn ==
  ASSUME NEW d
  PROVE  /\ IsReportFinalized(d) <=> FinalIn(assetReportHistory, reportDisputes, now, d)
         /\ IsReportFinalized(d)' <=> FinalIn(assetReportHistory', reportDisputes', now', d)
         /\ ReportOf(d) = ReportIn(assetReportHistory, d)
         /\ ReportOf(d)' = ReportIn(assetReportHistory', d)
BY DEF IsReportFinalized, FinalIn, Exists, ExistsIn, ReportOf, ReportIn

(* What makes finality stable: a final report has no open dispute to settle, and
   its window is closed for a new one - the two tests never overlap. *)
LEMMA FinalDisputeStands ==
  ASSUME ContractInv, [Next]_vars, NEW d \in Slots,
         FinalIn(assetReportHistory, reportDisputes, now, d)
  PROVE  reportDisputes'[d] = reportDisputes[d]
<1> DEFINE h == assetReportHistory
           r == reportDisputes
<1>1. /\ ExistsIn(h, d) /\ ~r[d].active
      /\ now > ReportIn(h, d).timestamp + DisputePeriod
  BY DEF FinalIn
<1>2. r \in [Slots -> Dispute] /\ RepositoryTypeOK /\ now \in Nat /\ DisputePeriod \in Nat
  BY DisputePeriodAssumption
     DEF ContractInv, TreasuryTypeOK, RepositoryInv, RepositoryTypeOK
<1>3. ReportIn(h, d).timestamp \in Nat
  BY <1>1, <1>2, ReportsAreReports DEF Report
<1>4. CASE DisputeOpens
  <2>1. PICK sender \in Accounts, e \in Slots, bond \in BondAmounts :
          InDisputeWindow(e) /\ r' = [r EXCEPT ![e] = Opened(sender, bond)]
    BY <1>4 DEF DisputeOpens
  <2>2. d # e
    BY <1>1, <1>2, <1>3, <2>1 DEF InDisputeWindow, ReportOf, ReportIn
  <2>3. QED
    BY <1>2, <2>1, <2>2
<1>5. CASE DisputeCloses
  <2>1. PICK e \in Slots, upheld \in BOOLEAN :
          r[e].active /\ r' = [r EXCEPT ![e] = Closed(r[e], upheld)]
    BY <1>5 DEF DisputeCloses
  <2>2. QED
    BY <1>1, <1>2, <2>1
<1>6. QED
  BY <1>4, <1>5, NextShape

LEMMA FinalStaysStep ==
  ASSUME ContractInv, [Next]_vars
  PROVE  FinalStays
<1> DEFINE h == assetReportHistory
           r == reportDisputes
<1>1. RepositoryTypeOK /\ RepositoryTypeOK' /\ HistoriesGrow
  BY ContractNextInv DEF ContractInv, RepositoryInv
<1>2. now \in Nat /\ now' \in Nat /\ now' >= now /\ DisputePeriod \in Nat
  BY <1>1, NextShape, DisputePeriodAssumption DEF RepositoryTypeOK
<1>3. ASSUME NEW d \in Slots, FinalIn(h, r, now, d)
      PROVE  /\ FinalIn(h', r', now', d)
             /\ r'[d] = r[d]
             /\ ReportIn(h', d) = ReportIn(h, d)
  <2>1. r'[d] = r[d]
    BY <1>3, FinalDisputeStands
  <2>2. ExistsIn(h, d) /\ ~r[d].active /\ now > ReportIn(h, d).timestamp + DisputePeriod
    BY <1>3 DEF FinalIn
  <2>3. ExistsIn(h', d) /\ ReportIn(h', d) = ReportIn(h, d)
    BY <1>1, <2>2, EntriesStand
  <2>4. ReportIn(h, d).timestamp \in Nat
    BY <1>1, <2>2, ReportsAreReports DEF Report
  <2>5. now' > ReportIn(h', d).timestamp + DisputePeriod
    BY <1>2, <2>2, <2>3, <2>4
  <2>6. QED
    BY <2>1, <2>2, <2>3, <2>5 DEF FinalIn
<1> SUFFICES ASSUME NEW d \in Slots, IsReportFinalized(d)
    PROVE  IsReportFinalized(d)' /\ r'[d] = r[d] /\ ReportOf(d)' = ReportOf(d)
  BY DEF FinalStays
<1>4. QED
  BY <1>3, FinalIsFinalIn

(* A report that isReportFinalized once confirmed is confirmed for ever, with the
   same contents and the same verdict, for any window length. *)
THEOREM FinalityIsForever == Spec => FinalityIsStable
<1>1. ContractInv /\ [Next]_vars => [FinalStays]_vars
  BY FinalStaysStep
<1>2. QED
  BY <1>1, ContractAlwaysInv, PTL DEF Spec, FinalityIsStable

-----------------------------------------------------------------------------
(* The refinement of OptimisticFinality. *)
StatusIn(h, r, t, d) ==
  IF ~ExistsIn(h, d) THEN "none"
  ELSE IF r[d].active THEN "disputed"
  ELSE IF FinalIn(h, r, t, d) THEN "final"
  ELSE "open"

status == [d \in Slots |-> StatusIn(assetReportHistory, reportDisputes, now, d)]
overturned == [d \in Slots |-> reportDisputes[d].challengerWon]

LEMMA StatusIsStatusIn ==
  /\ status = [d \in Slots |-> StatusOf(d)]
  /\ status' = [d \in Slots |-> StatusOf(d)]'
BY DEF status, StatusIn, StatusOf, IsReportFinalized, FinalIn, Exists, ExistsIn,
       ReportOf, ReportIn

(* A dispute opens: the report was open. *)
LEMMA OpeningIsChallenge ==
  ASSUME ContractInv, DisputeOpens, UNCHANGED repositoryVars
  PROVE  \E d \in Slots :
           /\ status[d] = "open"
           /\ status' = [status EXCEPT ![d] = "disputed"]
           /\ overturned' = [overturned EXCEPT ![d] = FALSE]
<1> DEFINE h == assetReportHistory
           r == reportDisputes
<1>1. r \in [Slots -> Dispute] /\ RepositoryTypeOK /\ now \in Nat /\ DisputePeriod \in Nat
  BY DisputePeriodAssumption
     DEF ContractInv, TreasuryTypeOK, RepositoryInv, RepositoryTypeOK
<1>2. PICK sender \in Accounts, d \in Slots, bond \in BondAmounts :
        /\ Exists(d) /\ InDisputeWindow(d) /\ ~r[d].active
        /\ r' = [r EXCEPT ![d] = Opened(sender, bond)]
  BY DEF DisputeOpens
<1>3. ExistsIn(h, d) /\ now <= ReportIn(h, d).timestamp + DisputePeriod
  BY <1>2 DEF Exists, ExistsIn, InDisputeWindow, ReportOf, ReportIn
<1>4. h' = h /\ now' = now
  BY DEF repositoryVars, reportVars
<1>5. ReportIn(h, d).timestamp \in Nat
  BY <1>1, <1>3, ReportsAreReports DEF Report
<1>6. ~FinalIn(h, r, now, d)
  BY <1>1, <1>3, <1>5 DEF FinalIn
<1>7. status[d] = "open"
  BY <1>2, <1>3, <1>6 DEF status, StatusIn
<1>8. r'[d].active /\ r'[d].challengerWon = FALSE
  BY <1>1, <1>2 DEF Opened
<1>9. StatusIn(h', r', now', d) = "disputed"
  BY <1>3, <1>4, <1>8 DEF StatusIn
<1>10. \A e \in Slots : e # d => r'[e] = r[e]
  BY <1>1, <1>2
<1>11. \A e \in Slots : e # d => StatusIn(h', r', now', e) = StatusIn(h, r, now, e)
  BY <1>4, <1>10 DEF StatusIn, FinalIn
<1>12. status' = [status EXCEPT ![d] = "disputed"]
  BY <1>9, <1>11 DEF status
<1>13. overturned' = [overturned EXCEPT ![d] = FALSE]
  BY <1>8, <1>10 DEF overturned
<1>14. QED
  BY <1>7, <1>12, <1>13

(* A verdict settles the report: open again inside its window, final after. *)
LEMMA ClosingIsSettle ==
  ASSUME ContractInv, DisputeCloses, UNCHANGED repositoryVars
  PROVE  \E d \in Slots :
           /\ status[d] = "disputed"
           /\ \E next \in {"open", "final"} : status' = [status EXCEPT ![d] = next]
           /\ \E verdict \in BOOLEAN : overturned' = [overturned EXCEPT ![d] = verdict]
<1> DEFINE h == assetReportHistory
           r == reportDisputes
<1>1. r \in [Slots -> Dispute] /\ \A d \in Slots : SoundIn(h, r, d)
  BY SoundIsSoundIn DEF ContractInv, TreasuryTypeOK
<1>2. PICK d \in Slots, upheld \in BOOLEAN :
        r[d].active /\ r' = [r EXCEPT ![d] = Closed(r[d], upheld)]
  BY DEF DisputeCloses
<1>3. ExistsIn(h, d)
  BY <1>1, <1>2 DEF SoundIn, NoDispute
<1>4. h' = h /\ now' = now
  BY DEF repositoryVars, reportVars
<1>5. status[d] = "disputed"
  BY <1>2, <1>3 DEF status, StatusIn
<1>6. ~r'[d].active /\ r'[d].challengerWon = upheld
  BY <1>1, <1>2 DEF Closed
<1>7. StatusIn(h', r', now', d) \in {"open", "final"}
  BY <1>3, <1>4, <1>6 DEF StatusIn
<1>8. \A e \in Slots : e # d => r'[e] = r[e]
  BY <1>1, <1>2
<1>9. \A e \in Slots : e # d => StatusIn(h', r', now', e) = StatusIn(h, r, now, e)
  BY <1>4, <1>8 DEF StatusIn, FinalIn
<1>10. status' = [status EXCEPT ![d] = StatusIn(h', r', now', d)]
  BY <1>9 DEF status
<1>11. overturned' = [overturned EXCEPT ![d] = upheld]
  BY <1>6, <1>8 DEF overturned
<1>12. QED
  BY <1>5, <1>7, <1>10, <1>11

(* A recorded report is published open. *)
LEMMA PushIsPublish ==
  ASSUME ContractInv, UNCHANGED reportDisputes,
         NEW m, NEW sender, NEW p, NEW v, NEW how,
         Pushed(m, NewReport(m, sender, p, v), how)
  PROVE  \E d \in Slots :
           /\ status[d] = "none"
           /\ status' = [status EXCEPT ![d] = "open"]
           /\ UNCHANGED overturned
<1> DEFINE h == assetReportHistory
           r == reportDisputes
           report == NewReport(m, sender, p, v)
           new == <<m.asset, Len(h[m.asset]) + 1>>
<1>1. /\ RepositoryTypeOK /\ HistoriesInStep /\ \A d \in Slots : SoundIn(h, r, d)
      /\ now \in Nat /\ DisputePeriod \in Nat \ {0}
  BY SoundIsSoundIn, DisputePeriodAssumption DEF ContractInv, RepositoryInv, RepositoryTypeOK
<1>2. now' = now /\ report.timestamp = now
  BY DEF Pushed, NewReport
<1> HIDE DEF report, new
<1>3. /\ new \in Slots /\ ~ExistsIn(h, new)
      /\ \A d \in Slots : ExistsIn(h', d) <=> (ExistsIn(h, d) \/ d = new)
      /\ \A d \in Slots : ExistsIn(h, d) => ReportIn(h', d) = ReportIn(h, d)
      /\ ReportIn(h', new) = report
  BY <1>1, PushedEntries DEF new, report
<1>4. ~r[new].active
  BY <1>1, <1>3 DEF SoundIn, NoDispute
<1>5. status[new] = "none"
  BY <1>3 DEF status, StatusIn
<1>6. ~FinalIn(h', r', now', new)
  BY <1>1, <1>2, <1>3 DEF FinalIn
<1>7. StatusIn(h', r', now', new) = "open"
  BY <1>3, <1>4, <1>6 DEF StatusIn
<1>8. ASSUME NEW e \in Slots, e # new
      PROVE  StatusIn(h', r', now', e) = StatusIn(h, r, now, e)
  <2>1. ExistsIn(h', e) <=> ExistsIn(h, e)
    BY <1>3, <1>8
  <2>2. ExistsIn(h, e) => ReportIn(h', e) = ReportIn(h, e)
    BY <1>3
  <2>3. QED
    BY <1>2, <2>1, <2>2 DEF StatusIn, FinalIn
<1>9. status' = [status EXCEPT ![new] = "open"]
  BY <1>3, <1>7, <1>8 DEF status
<1>10. UNCHANGED overturned
  BY DEF overturned
<1>11. QED
  BY <1>3, <1>5, <1>9, <1>10

(* While no report or dispute changes, time can only close windows. *)
LEMMA TimeIsExpiry ==
  ASSUME ContractInv, UNCHANGED <<assetReportHistory, reportDisputes>>,
         now' \in Nat, now' >= now
  PROVE  /\ UNCHANGED overturned
         /\ \/ UNCHANGED status
            \/ \E closing \in SUBSET {d \in Slots : status[d] = "open"} :
                 /\ closing # {}
                 /\ status' = [d \in Slots |-> IF d \in closing THEN "final" ELSE status[d]]
<1> DEFINE h == assetReportHistory
           r == reportDisputes
           closing == {d \in Slots : status[d] = "open" /\ FinalIn(h, r, now', d)}
<1>1. RepositoryTypeOK /\ now \in Nat /\ DisputePeriod \in Nat
  BY DisputePeriodAssumption DEF ContractInv, RepositoryInv, RepositoryTypeOK
<1>2. ASSUME NEW d \in Slots, FinalIn(h, r, now, d) PROVE FinalIn(h, r, now', d)
  <2>1. ReportIn(h, d).timestamp \in Nat
    BY <1>1, <1>2, ReportsAreReports DEF FinalIn, Report
  <2>2. QED
    BY <1>1, <1>2, <2>1 DEF FinalIn
<1>3. \A d \in Slots : StatusIn(h, r, now', d) =
                         IF d \in closing THEN "final" ELSE StatusIn(h, r, now, d)
  BY <1>2 DEF status, StatusIn, FinalIn
<1>4. status' = [d \in Slots |-> StatusIn(h, r, now', d)]
  BY DEF status
<1>5. \A d \in Slots : status[d] = StatusIn(h, r, now, d)
  BY DEF status
<1>6. status' = [d \in Slots |-> IF d \in closing THEN "final" ELSE status[d]]
  BY <1>3, <1>4, <1>5
<1>7. UNCHANGED overturned
  BY DEF overturned
<1>8. CASE closing = {}
  BY <1>5, <1>6, <1>7, <1>8 DEF status
<1>9. CASE closing # {}
  BY <1>6, <1>7, <1>9
<1>10. QED
  BY <1>8, <1>9

LEMMA NextIsLifeStep ==
  ASSUME ContractInv, [Next]_vars
  PROVE  [Life!LifeNext]_(Life!statusVars)
<1>1. ASSUME DisputeOpens, UNCHANGED repositoryVars PROVE Life!LifeNext
  BY <1>1, OpeningIsChallenge, StatusIsStatusIn
     DEF Life!LifeNext, Life!Challenge, overturned
<1>2. ASSUME DisputeCloses, UNCHANGED repositoryVars PROVE Life!LifeNext
  BY <1>2, ClosingIsSettle, StatusIsStatusIn
     DEF Life!LifeNext, Life!Settle, overturned
<1>3. ASSUME UNCHANGED reportDisputes, PushedAttested \/ PushedVerified PROVE Life!LifeNext
  <2>1. \E d \in Slots :
           /\ status[d] = "none"
           /\ status' = [status EXCEPT ![d] = "open"]
           /\ UNCHANGED overturned
    BY <1>3, PushIsPublish DEF PushedAttested, PushedVerified
  <2>2. QED
    BY <2>1, StatusIsStatusIn DEF Life!LifeNext, Life!Publish, overturned
<1>4. ASSUME UNCHANGED <<assetReportHistory, reportDisputes>>
      PROVE  [Life!LifeNext]_(Life!statusVars)
  BY <1>4, NextShape, TimeIsExpiry, StatusIsStatusIn
     DEF Life!LifeNext, Life!Expire, Life!statusVars, overturned
<1>5. PushedAttested \/ PushedVerified \/ UNCHANGED assetReportHistory
  <2>1. \/ PushedAttested \/ PushedVerified \/ PushedCertificate
        \/ UNCHANGED <<reportVars, certificateVars>>
    BY NextIsRepositoryStep, RepositoryNextShape DEF ContractInv
  <2>2. QED
    BY <2>1 DEF PushedCertificate, reportVars
<1>6. QED
  BY <1>1, <1>2, <1>3, <1>4, <1>5, NextShape

LEMMA InitIsLifeInit == Init => Life!LifeInit
<1> SUFFICES ASSUME Init PROVE Life!LifeInit
  OBVIOUS
<1>1. \A d \in Slots : d[1] \in Assets /\ d[2] \in 1..MaxReports /\ MaxReports \in Nat
  BY BoundsAssumption DEF Slots
<1>2. \A d \in Slots : ~Exists(d)
  BY <1>1 DEF Init, RepositoryInit, Exists
<1>3. \A d \in Slots : StatusOf(d) = "none"
  BY <1>2 DEF StatusOf
<1>4. \A d \in Slots : reportDisputes[d].challengerWon = FALSE
  BY DEF Init, TreasuryInit, NoDispute
<1>5. QED
  BY <1>3, <1>4 DEF Life!LifeInit

(* The contract implements OptimisticFinality: a report is published open, may
   be disputed while it is open, and is final once and for ever. *)
THEOREM ContractImplementsFinality == Spec => ImplementsOptimisticFinality
<1>1. ContractInv /\ [Next]_vars => [Life!LifeNext]_(Life!statusVars)
  BY NextIsLifeStep
<1>2. QED
  BY <1>1, InitIsLifeInit, ContractAlwaysInv, PTL
     DEF Spec, ImplementsOptimisticFinality, Life!LifeSpec

-----------------------------------------------------------------------------
(* The bond of an open dispute. *)
LEMMA UpholdSettlesBond ==
  ASSUME ContractInv, NEW sender, NEW d \in Slots,
         NEW oracle \in Accounts \cup {ZeroAddress}, UpholdChallenge(sender, d, oracle)
  PROVE  BondSettled(d)
<1> DEFINE half == SlashOf(oracle) \div 2
<1>1. /\ TreasuryTypeOK /\ reportDisputes \in [Slots -> Dispute]
      /\ reportDisputes[d].bondAmount \in Nat /\ balance \in Nat
  BY DEF ContractInv, TreasuryTypeOK, Dispute
<1>2. half \in Nat
  BY <1>1, SlashIsStaked
<1>3. Settle(d, TRUE) /\ Pay(reportDisputes[d].challenger, reportDisputes[d].bondAmount + half)
  BY DEF UpholdChallenge
<1> HIDE DEF half
<1>4. reportDisputes'[d] = Closed(reportDisputes[d], TRUE)
  BY <1>1, <1>3, SettleCloses
<1>5. balance' <= balance - reportDisputes[d].bondAmount
  BY <1>1, <1>2, <1>3 DEF Pay
<1>6. QED
  BY <1>3, <1>4, <1>5 DEF BondSettled, Closed, Pay

LEMMA RejectSettlesBond ==
  ASSUME ContractInv, NEW sender, NEW d \in Slots, RejectChallenge(sender, d)
  PROVE  BondSettled(d)
<1>1. TreasuryTypeOK /\ reportDisputes \in [Slots -> Dispute]
  BY DEF ContractInv, TreasuryTypeOK
<1>2. reportDisputes'[d] = Closed(reportDisputes[d], FALSE)
  BY <1>1, SettleCloses DEF RejectChallenge
<1>3. QED
  BY <1>2 DEF RejectChallenge, BondSettled, Closed

LEMMA BondsStandOrSettleStep ==
  ASSUME ContractInv, [Next]_vars
  PROVE  BondsStandOrSettle
<1> SUFFICES ASSUME NEW d \in Slots, reportDisputes[d].active
    PROVE  reportDisputes'[d] = reportDisputes[d] \/ BondSettled(d)
  BY DEF BondsStandOrSettle
<1>1. reportDisputes \in [Slots -> Dispute]
  BY DEF ContractInv, TreasuryTypeOK
<1>2. CASE UNCHANGED reportDisputes
  BY <1>2
<1>3. ASSUME NEW sender, NEW e \in Slots, NEW bond, ChallengeReport(sender, e, bond)
      PROVE  reportDisputes'[d] = reportDisputes[d]
  BY <1>1, <1>3 DEF ChallengeReport
<1>4. ASSUME NEW sender, NEW e \in Slots, NEW oracle \in Accounts \cup {ZeroAddress},
             UpholdChallenge(sender, e, oracle)
      PROVE  reportDisputes'[d] = reportDisputes[d] \/ BondSettled(d)
  <2>1. e # d => reportDisputes'[d] = reportDisputes[d]
    BY <1>1, <1>4 DEF UpholdChallenge, Settle
  <2>2. QED
    BY <1>4, <2>1, UpholdSettlesBond
<1>5. ASSUME NEW sender, NEW e \in Slots, RejectChallenge(sender, e)
      PROVE  reportDisputes'[d] = reportDisputes[d] \/ BondSettled(d)
  <2>1. e # d => reportDisputes'[d] = reportDisputes[d]
    BY <1>1, <1>5 DEF RejectChallenge, Settle
  <2>2. QED
    BY <1>5, <2>1, RejectSettlesBond
<1>6. ASSUME NEW sender \in Senders, TreasuryStep(sender)
      PROVE  reportDisputes'[d] = reportDisputes[d] \/ BondSettled(d)
  BY <1>2, <1>3, <1>4, <1>5, <1>6 DEF TreasuryStep, StakeOracle, UnstakeOracle, SlashOracle
<1>7. UNCHANGED treasuryVars \/ UNCHANGED vars \/ CallReturns => UNCHANGED reportDisputes
  BY DEF treasuryVars, vars, CallReturns
<1>8. QED
  BY <1>2, <1>6, <1>7 DEF Next

(* No bond is lost or paid twice, for any bonds, slashes and re-entrant calls. *)
THEOREM BondsAreSettledOnce == Spec => BondIsSettledOnce
<1>1. ContractInv /\ [Next]_vars => [BondsStandOrSettle]_vars
  BY BondsStandOrSettleStep
<1>2. QED
  BY <1>1, ContractAlwaysInv, PTL DEF Spec, BondIsSettledOnce

-----------------------------------------------------------------------------
(* The pause switch. *)
LEMMA PausedTreasuryStep ==
  ASSUME ContractInv, paused, NEW sender, TreasuryStep(sender)
  PROVE  /\ balance' <= balance
         /\ \A d \in Slots : reportDisputes'[d].active => reportDisputes[d].active
<1>1. /\ reportDisputes \in [Slots -> Dispute] /\ balance \in Nat /\ TreasuryTypeOK
      /\ StakeAmounts \subseteq Nat
  BY AmountsAssumption DEF ContractInv, TreasuryTypeOK
<1>2. ASSUME NEW account, NEW amount \in Nat, Pay(account, amount) PROVE balance' <= balance
  BY <1>1, <1>2 DEF Pay
<1>3. ASSUME NEW amount \in StakeAmounts, NEW account, Pay(account, amount)
      PROVE  balance' <= balance
  BY <1>1, <1>2, <1>3
<1>4. ASSUME NEW amount \in StakeAmounts, UnstakeOracle(sender, amount)
      PROVE  balance' <= balance /\ UNCHANGED reportDisputes
  BY <1>3, <1>4 DEF UnstakeOracle
<1>5. ASSUME NEW amount \in StakeAmounts, NEW oracle, NEW recipient,
             SlashOracle(sender, oracle, recipient, amount)
      PROVE  balance' <= balance /\ UNCHANGED reportDisputes
  BY <1>3, <1>5 DEF SlashOracle
<1>6. ASSUME NEW d \in Slots, NEW upheld \in BOOLEAN, Settle(d, upheld)
      PROVE  \A e \in Slots : reportDisputes'[e].active => reportDisputes[e].active
  <2>1. reportDisputes' = [reportDisputes EXCEPT ![d] = Closed(reportDisputes[d], upheld)]
    BY <1>1, <1>6, SettleCloses
  <2>2. QED
    BY <1>1, <2>1 DEF Closed
<1>7. ASSUME NEW d \in Slots, NEW oracle \in Accounts \cup {ZeroAddress},
             UpholdChallenge(sender, d, oracle)
      PROVE  /\ balance' <= balance
             /\ \A e \in Slots : reportDisputes'[e].active => reportDisputes[e].active
  <2>1. SlashOf(oracle) \div 2 \in Nat /\ reportDisputes[d].bondAmount \in Nat
    BY <1>1, SlashIsStaked DEF Dispute
  <2>2. balance' <= balance
    BY <1>2, <1>7, <2>1 DEF UpholdChallenge
  <2>3. QED
    BY <1>6, <1>7, <2>2 DEF UpholdChallenge
<1>8. ASSUME NEW d \in Slots, RejectChallenge(sender, d)
      PROVE  /\ balance' <= balance
             /\ \A e \in Slots : reportDisputes'[e].active => reportDisputes[e].active
  <2>1. balance' <= balance
    BY <1>1, <1>8 DEF RejectChallenge
  <2>2. QED
    BY <1>6, <1>8, <2>1 DEF RejectChallenge
<1>9. QED
  BY <1>4, <1>5, <1>7, <1>8 DEF TreasuryStep, StakeOracle, ChallengeReport

LEMMA NothingEntersStep ==
  ASSUME ContractInv, [Next]_vars, paused
  PROVE  NothingEnters
<1>1. RepositoryInv /\ RepositoryTypeOK /\ HistoriesInStep /\ balance \in Nat
  BY DEF ContractInv, RepositoryInv, TreasuryTypeOK
<1>2. ASSUME UNCHANGED assetReportHistory
      PROVE  \A a \in Assets : \A k \in Added(a) : assetReportHistory'[a][k].crossChainVerified
  BY <1>1, <1>2, NothingAdded
<1>3. ASSUME UNCHANGED treasuryVars
      PROVE  /\ balance' <= balance
             /\ \A d \in Slots : reportDisputes'[d].active => reportDisputes[d].active
  BY <1>1, <1>3 DEF treasuryVars
<1>4. UNCHANGED repositoryVars => UNCHANGED certificateVars /\ UNCHANGED assetReportHistory
  BY DEF repositoryVars, reportVars
<1>5. ASSUME NEW sender \in Senders, UnguardedSave(sender),
             UNCHANGED <<registryVars, treasuryVars>>
      PROVE  NothingEnters
  <2>1. PICK m \in Messages, queryId \in QueryIds \cup {NoHash} :
          SaveVerifiedRiskReport(sender, m, queryId)
    BY <1>5 DEF UnguardedSave
  <2>2. Pushed(m, NewReport(m, sender, queryId, TRUE), NewBacking("Verified", {}))
    BY <1>1, <2>1, SendersAreAccounts, RecordIsPush DEF SaveVerifiedRiskReport, ContractInv
  <2>3. NewReport(m, sender, queryId, TRUE).crossChainVerified
    BY DEF NewReport
  <2>4. \A a \in Assets : \A k \in Added(a) : assetReportHistory'[a][k].crossChainVerified
    BY <1>1, <2>2, <2>3, PushedAdds, ZenonT(60)
  <2>5. UNCHANGED certificateVars
    BY <2>2 DEF Pushed
  <2>6. QED
    BY <1>3, <1>5, <2>4, <2>5 DEF NothingEnters
<1>6. ASSUME NEW sender \in Senders, GuardedSave(sender) PROVE FALSE
  BY <1>6 DEF GuardedSave, SaveRiskReportMultiSigned, SaveRiskReportSigned, SaveRiskReport,
              SaveRWACertificate, SaveRWAZkTLSCertificate
<1>7. ASSUME NEW sender \in Senders, TreasuryStep(sender), UNCHANGED repositoryVars
      PROVE  NothingEnters
  BY <1>2, <1>4, <1>7, PausedTreasuryStep DEF NothingEnters
<1>8. ASSUME NextBlock, UNCHANGED treasuryVars PROVE NothingEnters
  <2>1. UNCHANGED certificateVars /\ UNCHANGED assetReportHistory
    BY <1>8 DEF NextBlock, reportVars
  <2>2. QED
    BY <1>2, <1>3, <1>8, <2>1 DEF NothingEnters
<1>9. ASSUME UNCHANGED repositoryVars, UNCHANGED treasuryVars \/ CallReturns
      PROVE  NothingEnters
  <2>1. /\ balance' <= balance
        /\ \A d \in Slots : reportDisputes'[d].active => reportDisputes[d].active
    BY <1>1, <1>3, <1>9 DEF CallReturns
  <2>2. QED
    BY <1>2, <1>4, <1>9, <2>1 DEF NothingEnters
<1>10. UNCHANGED vars => UNCHANGED repositoryVars /\ UNCHANGED treasuryVars
  BY DEF vars
<1>11. QED
  BY <1>5, <1>6, <1>7, <1>8, <1>9, <1>10 DEF Next

(* A paused contract takes in nothing but cross-chain reports, whoever calls it
   and from inside whatever payment. *)
THEOREM PauseStopsIntake == Spec => PausedIntake
<1>1. ContractInv /\ [Next]_vars => [paused => NothingEnters]_vars
  BY NothingEntersStep
<1>2. QED
  BY <1>1, ContractAlwaysInv, PTL DEF Spec, PausedIntake

-----------------------------------------------------------------------------
(* The ether.  What an open dispute holds back: *)
BondAt(r) == IF r.active THEN r.bondAmount ELSE 0

LEMMA SlotsAreFinite == IsFiniteSet(Slots)
<1>1. IsFiniteSet(1..MaxReports)
  BY BoundsAssumption, FS_Interval
<1>2. QED
  BY <1>1, AssetsAssumption, FS_Product DEF Slots

LEMMA StakesChange ==
  ASSUME oracleStake \in [Accounts -> Nat], NEW a \in Accounts, NEW v \in Nat,
         oracleStake' = [oracleStake EXCEPT ![a] = v]
  PROVE  SumOver(oracleStake', Accounts)
           = SumOver(oracleStake, Accounts) + (v - oracleStake[a])
<1>1. IsFiniteSet(Accounts)
  BY AccountsAssumption
<1>2. oracleStake \in [Accounts -> Int] /\ v \in Int
  OBVIOUS
<1>3. SumOver([oracleStake EXCEPT ![a] = v], Accounts)
        = SumOver(oracleStake, Accounts) + (v - oracleStake[a])
  BY <1>1, <1>2, SumOfUpdated
<1>4. QED
  BY <1>3

LEMMA BondsChange ==
  ASSUME reportDisputes \in [Slots -> Dispute], NEW d \in Slots, NEW r \in Dispute,
         reportDisputes' = [reportDisputes EXCEPT ![d] = r]
  PROVE  ActiveBonds' = ActiveBonds + (BondAt(r) - BondAt(reportDisputes[d]))
<1> DEFINE f == [e \in Slots |-> IF reportDisputes[e].active THEN reportDisputes[e].bondAmount ELSE 0]
           g == [e \in Slots |-> IF reportDisputes'[e].active THEN reportDisputes'[e].bondAmount ELSE 0]
<1>1. ActiveBonds = SumOver(f, Slots) /\ ActiveBonds' = SumOver(g, Slots)
  BY DEF ActiveBonds
<1>2. \A e \in Slots : f[e] = BondAt(reportDisputes[e]) /\ g[e] = BondAt(reportDisputes'[e])
  BY DEF BondAt
<1>3. \A q \in Dispute : BondAt(q) \in Int
  BY DEF BondAt, Dispute
<1>4. reportDisputes'[d] = r /\ \A e \in Slots \ {d} : reportDisputes'[e] = reportDisputes[e]
  OBVIOUS
<1> HIDE DEF f, g
<1>5. \A e \in Slots : f[e] \in Int
  BY <1>2, <1>3
<1>6. g[d] \in Int /\ \A e \in Slots \ {d} : g[e] = f[e]
  BY <1>2, <1>3, <1>4
<1>7. SumOver(g, Slots) = SumOver(f, Slots) + (g[d] - f[d])
  BY <1>5, <1>6, SlotsAreFinite, SumOfChanged
<1>8. QED
  BY <1>1, <1>2, <1>4, <1>7

LEMMA SumsAreInts ==
  ASSUME TreasuryTypeOK
  PROVE  ActiveBonds \in Int /\ SumOver(oracleStake, Accounts) \in Int
<1> DEFINE f == [e \in Slots |-> IF reportDisputes[e].active THEN reportDisputes[e].bondAmount ELSE 0]
<1>1. \A e \in Slots : f[e] \in Int
  BY DEF TreasuryTypeOK, Dispute
<1>2. \A a \in Accounts : oracleStake[a] \in Int
  BY DEF TreasuryTypeOK
<1> HIDE DEF f
<1>3. SumOver(f, Slots) \in Int
  BY <1>1, SlotsAreFinite, SumIsInt
<1>4. SumOver(oracleStake, Accounts) \in Int
  BY <1>2, AccountsAssumption, SumIsInt
<1>5. QED
  BY <1>3, <1>4 DEF ActiveBonds, f

(* Stakes taken out and paid: by their owner, or by a slash. *)
LEMMA PaidStakeIsAccountedFor ==
  ASSUME TreasuryTypeOK, EtherIsAccountedFor, NEW account \in Accounts, NEW paid,
         NEW amount \in Nat, oracleStake[account] >= amount,
         oracleStake' = [oracleStake EXCEPT ![account] = @ - amount],
         totalOracleStake' = totalOracleStake - amount,
         Pay(paid, amount), UNCHANGED <<reportDisputes, totalInsurancePool>>
  PROVE  EtherIsAccountedFor'
<1>1. /\ oracleStake \in [Accounts -> Nat] /\ totalOracleStake \in Nat /\ balance \in Nat
      /\ totalInsurancePool \in Nat
  BY DEF TreasuryTypeOK
<1>2. oracleStake[account] \in Nat /\ oracleStake[account] - amount \in Nat
  BY <1>1
<1>3. SumOver(oracleStake', Accounts) = SumOver(oracleStake, Accounts) - amount
  <2>1. SumOver(oracleStake', Accounts)
          = SumOver(oracleStake, Accounts) + ((oracleStake[account] - amount) - oracleStake[account])
    BY <1>1, <1>2, StakesChange
  <2>2. QED
    BY <1>2, <2>1, SumsAreInts
<1>4. ActiveBonds' = ActiveBonds
  BY DEF ActiveBonds
<1>5. QED
  BY <1>1, <1>3, <1>4, SumsAreInts DEF Pay, EtherIsAccountedFor

LEMMA TreasuryKeepsEther ==
  ASSUME TreasuryTypeOK, EtherIsAccountedFor, NEW sender \in Accounts, TreasuryStep(sender)
  PROVE  EtherIsAccountedFor'
<1>0. /\ oracleStake \in [Accounts -> Nat] /\ totalOracleStake \in Nat
      /\ reportDisputes \in [Slots -> Dispute] /\ totalInsurancePool \in Nat
      /\ balance \in Nat
      /\ StakeAmounts \subseteq Nat /\ BondAmounts \subseteq Nat
      /\ ActiveBonds \in Int /\ SumOver(oracleStake, Accounts) \in Int
      /\ balance = totalOracleStake + ActiveBonds + totalInsurancePool
      /\ totalOracleStake = SumOver(oracleStake, Accounts)
  BY AmountsAssumption, SumsAreInts DEF TreasuryTypeOK, EtherIsAccountedFor
<1>1. ASSUME NEW amount \in StakeAmounts, StakeOracle(sender, amount)
      PROVE  EtherIsAccountedFor'
  <2>1. /\ oracleStake' = [oracleStake EXCEPT ![sender] = oracleStake[sender] + amount]
        /\ totalOracleStake' = totalOracleStake + amount /\ balance' = balance + amount
        /\ UNCHANGED <<reportDisputes, totalInsurancePool>>
    BY <1>1 DEF StakeOracle
  <2>2. oracleStake[sender] + amount \in Nat /\ oracleStake[sender] \in Nat /\ amount \in Nat
    BY <1>0
  <2>3. SumOver(oracleStake', Accounts)
          = SumOver(oracleStake, Accounts) + ((oracleStake[sender] + amount) - oracleStake[sender])
    BY <1>0, <2>1, <2>2, StakesChange
  <2>4. ActiveBonds' = ActiveBonds
    BY <2>1 DEF ActiveBonds
  <2>5. QED
    BY <1>0, <2>1, <2>2, <2>3, <2>4 DEF EtherIsAccountedFor
<1>2. ASSUME NEW amount \in StakeAmounts, UnstakeOracle(sender, amount)
      PROVE  EtherIsAccountedFor'
  BY <1>0, <1>2, PaidStakeIsAccountedFor DEF UnstakeOracle
<1>3. ASSUME NEW oracle \in Accounts, NEW recipient \in Accounts, NEW amount \in StakeAmounts,
             SlashOracle(sender, oracle, recipient, amount)
      PROVE  EtherIsAccountedFor'
  BY <1>0, <1>3, PaidStakeIsAccountedFor DEF SlashOracle
<1>4. ASSUME NEW d \in Slots, NEW bond \in BondAmounts, ChallengeReport(sender, d, bond)
      PROVE  EtherIsAccountedFor'
  <2> DEFINE r == Opened(sender, bond)
  <2>1. /\ reportDisputes' = [reportDisputes EXCEPT ![d] = r]
        /\ ~reportDisputes[d].active /\ balance' = balance + bond
        /\ UNCHANGED <<oracleStake, totalOracleStake, totalInsurancePool>>
    BY <1>4 DEF ChallengeReport, Opened
  <2>2. r \in Dispute /\ BondAt(r) = bond /\ bond \in Nat
    BY <1>0 DEF Opened, Dispute, BondAt
  <2> HIDE DEF r
  <2>3. BondAt(reportDisputes[d]) = 0
    BY <2>1 DEF BondAt
  <2>4. ActiveBonds' = ActiveBonds + (bond - 0)
    BY <1>0, <2>1, <2>2, <2>3, BondsChange
  <2>5. QED
    BY <1>0, <2>1, <2>2, <2>4 DEF EtherIsAccountedFor
<1>5. ASSUME NEW d \in Slots, NEW upheld \in BOOLEAN,
             reportDisputes[d].active, Settle(d, upheld)
      PROVE  /\ reportDisputes[d].bondAmount \in Nat
             /\ ActiveBonds' = ActiveBonds - reportDisputes[d].bondAmount
  <2> DEFINE r == Closed(reportDisputes[d], upheld)
  <2>1. reportDisputes' = [reportDisputes EXCEPT ![d] = r] /\ r \in Dispute
    BY <1>5, SettleCloses
  <2>2. BondAt(r) = 0 /\ BondAt(reportDisputes[d]) = reportDisputes[d].bondAmount
    BY <1>5 DEF Closed, BondAt
  <2> HIDE DEF r
  <2>3. ActiveBonds' = ActiveBonds + (0 - reportDisputes[d].bondAmount)
    BY <1>0, <2>1, <2>2, BondsChange
  <2>4. reportDisputes[d].bondAmount \in Nat
    BY <1>0 DEF Dispute
  <2>5. QED
    BY <1>0, <2>3, <2>4
<1>6. ASSUME NEW d \in Slots, NEW oracle \in Accounts \cup {ZeroAddress},
             UpholdChallenge(sender, d, oracle)
      PROVE  EtherIsAccountedFor'
  <2> DEFINE slash == SlashOf(oracle)
             half == slash \div 2
             bond == reportDisputes[d].bondAmount
  <2>1. /\ reportDisputes[d].active /\ Settle(d, TRUE)
        /\ oracleStake' = IF oracle = ZeroAddress THEN oracleStake
                          ELSE [oracleStake EXCEPT ![oracle] = @ - slash]
        /\ totalOracleStake' = totalOracleStake - slash
        /\ totalInsurancePool' = totalInsurancePool + (slash - half)
        /\ balance' = balance - (bond + half)
    BY <1>6 DEF UpholdChallenge, Pay, InsuranceShare
  <2>2. /\ slash \in Nat
        /\ oracle # ZeroAddress => slash <= oracleStake[oracle]
    BY SlashIsStaked
  <2>3. half \in Nat
    BY <2>2
  <2>4. bond \in Nat /\ ActiveBonds' = ActiveBonds - bond
    BY <1>5, <2>1
  <2>5. SumOver(oracleStake', Accounts) = SumOver(oracleStake, Accounts) - slash
    <3>1. CASE oracle = ZeroAddress
      <4>1. slash = 0
        BY <3>1 DEF SlashOf
      <4>2. QED
        BY <1>0, <2>1, <3>1, <4>1
    <3>2. CASE oracle # ZeroAddress
      <4> HIDE DEF slash, half, bond
      <4>1. oracle \in Accounts /\ slash \in Nat /\ slash <= oracleStake[oracle]
        BY <2>2, <3>2
      <4>2. oracleStake[oracle] \in Nat /\ oracleStake[oracle] - slash \in Nat
        BY <1>0, <4>1
      <4>3. oracleStake' = [oracleStake EXCEPT ![oracle] = oracleStake[oracle] - slash]
        BY <2>1, <3>2
      <4>4. SumOver(oracleStake', Accounts) = SumOver(oracleStake, Accounts)
                       + ((oracleStake[oracle] - slash) - oracleStake[oracle])
        BY <1>0, <4>1, <4>2, <4>3, StakesChange
      <4>5. QED
        BY <1>0, <4>1, <4>2, <4>4
    <3>3. QED
      BY <3>1, <3>2
  <2>6. slash \in Nat
    BY <2>2
  <2> HIDE DEF slash, half, bond
  <2>7. QED
    BY <1>0, <2>1, <2>3, <2>4, <2>5, <2>6 DEF EtherIsAccountedFor
<1>7. ASSUME NEW d \in Slots, RejectChallenge(sender, d)
      PROVE  EtherIsAccountedFor'
  <2>1. /\ reportDisputes[d].active /\ Settle(d, FALSE)
        /\ totalInsurancePool' = totalInsurancePool + reportDisputes[d].bondAmount
        /\ UNCHANGED <<oracleStake, totalOracleStake, balance>>
    BY <1>7 DEF RejectChallenge
  <2>2. /\ reportDisputes[d].bondAmount \in Nat
        /\ ActiveBonds' = ActiveBonds - reportDisputes[d].bondAmount
    BY <1>5, <2>1
  <2>3. QED
    BY <1>0, <2>1, <2>2 DEF EtherIsAccountedFor
<1>8. QED
  BY <1>1, <1>2, <1>3, <1>4, <1>6, <1>7 DEF TreasuryStep

LEMMA EtherStep ==
  ASSUME ContractInv, EtherIsAccountedFor, [Next]_vars
  PROVE  EtherIsAccountedFor'
<1>1. TreasuryTypeOK
  BY DEF ContractInv
<1>2. UNCHANGED <<oracleStake, totalOracleStake, reportDisputes, totalInsurancePool, balance>>
        => EtherIsAccountedFor'
  BY DEF EtherIsAccountedFor, ActiveBonds
<1>3. ASSUME NEW sender \in Senders, TreasuryStep(sender) PROVE EtherIsAccountedFor'
  BY <1>1, <1>3, SendersAreAccounts, TreasuryKeepsEther
<1>4. CallReturns => EtherIsAccountedFor'
  BY <1>2 DEF CallReturns
<1>5. UNCHANGED treasuryVars => EtherIsAccountedFor'
  BY <1>2 DEF treasuryVars
<1>6. UNCHANGED vars => UNCHANGED treasuryVars
  BY DEF vars
<1>7. QED
  BY <1>3, <1>4, <1>5, <1>6 DEF Next

(* The contract is solvent at every moment, in the middle of a call too: what it
   holds is the stakes, the open bonds and the insurance pool, to the wei. *)
THEOREM EtherAlwaysAccountedFor == Spec => []EtherIsAccountedFor
<1>1. Init => EtherIsAccountedFor
  <2> SUFFICES ASSUME Init PROVE EtherIsAccountedFor
    OBVIOUS
  <2> DEFINE f == [e \in Slots |-> IF reportDisputes[e].active THEN reportDisputes[e].bondAmount ELSE 0]
  <2>1. \A e \in Slots : f[e] = 0
    BY DEF Init, TreasuryInit, NoDispute
  <2>2. \A a \in Accounts : oracleStake[a] = 0
    BY DEF Init, TreasuryInit
  <2> HIDE DEF f
  <2>3. SumOver(f, Slots) = 0
    BY <2>1, SlotsAreFinite, SumOfZeros
  <2>4. SumOver(oracleStake, Accounts) = 0
    BY <2>2, AccountsAssumption, SumOfZeros
  <2>5. ActiveBonds = 0
    BY <2>3 DEF ActiveBonds, f
  <2>6. balance = 0 /\ totalOracleStake = 0 /\ totalInsurancePool = 0
    BY DEF Init, TreasuryInit
  <2>7. QED
    BY <2>4, <2>5, <2>6 DEF EtherIsAccountedFor
<1>2. ContractInv /\ EtherIsAccountedFor /\ [Next]_vars => EtherIsAccountedFor'
  BY EtherStep
<1>3. QED
  BY <1>1, <1>2, ContractAlwaysInv, PTL DEF Spec
=============================================================================
