------------------------- MODULE LendingPool_proofs -------------------------
(***************************************************************************)
(* The lending pool beside the reports, for any accounts, assets, ratings  *)
(* and amounts: the pool never bends the rules of the repository it writes *)
(* to - so what is proved of the repository holds beside it - and every    *)
(* loan has the terms the SDK quotes for the rating it was made on.        *)
(***************************************************************************)
EXTENDS LendingPool, RiskReports_proofs

(* What the quote needs: loans were made on ratings from 50 up, for natural
   amounts, on the contract's terms. *)
LoanOnTerms(l) ==
  /\ l.creditScoreAtBorrow \in Nat /\ l.creditScoreAtBorrow >= 50
  /\ l.collateralAmount \in Nat
  /\ l.borrowedAmount = (l.collateralAmount * LtvBps(l.creditScoreAtBorrow)) \div 10000
  /\ l.interestRateBps = InterestRateBps(l.creditScoreAtBorrow)

LoansOnTerms ==
  /\ loans \in Seq([borrower : Callers, collateralAsset : Assets, collateralAmount : Nat,
                    borrowedAmount : Int, interestRateBps : Nat, creditScoreAtBorrow : Nat,
                    borrowTimestamp : Nat])
  /\ \A id \in 1..Len(loans) : LoanOnTerms(loans[id])

LendingInv == RepositoryInv /\ LoansOnTerms

-----------------------------------------------------------------------------
(* A delivery by the lending pool is a delivery by one more account. *)
LEMMA NextIsLendersRepositoryStep ==
  ASSUME [LendingNext]_allVars
  PROVE  [RepositoryNext]_repositoryAndRegistry
<1>1. ASSUME NEW sender \in Callers, RegistryStep(sender), UNCHANGED <<repositoryVars, lendingVars>>
      PROVE  RepositoryNext
  BY <1>1 DEF Callers, RepositoryNext
<1>2. ASSUME NEW sender \in Callers, RepositoryStep(sender), UNCHANGED <<registryVars, lendingVars>>
      PROVE  RepositoryNext
  BY <1>2 DEF Callers, RepositoryNext
<1>3. NextBlock /\ UNCHANGED <<registryVars, lendingVars>> => RepositoryNext
  BY DEF RepositoryNext
<1>4. ASSUME NEW borrower \in Callers, NEW asset \in Assets, NEW amount \in CollateralAmounts,
             Borrow(borrower, asset, amount)
      PROVE  UNCHANGED repositoryAndRegistry
  BY <1>4 DEF Borrow, repositoryAndRegistry
<1>5. ASSUME NEW borrower \in Callers, NEW m \in Messages, NEW amount \in CollateralAmounts,
             NEW q \in Submissions,
             BorrowWithOracleProof(borrower, m, amount, q.signers, q.recovered)
      PROVE  RepositoryNext
  <2>1. SaveRiskReportMultiSigned(Lender, m, q.signers, q.recovered) /\ UNCHANGED registryVars
    BY <1>5 DEF BorrowWithOracleProof
  <2>2. Lender \in Accounts
    BY LenderAssumption
  <2>3. RepositoryStep(Lender)
    BY <2>1 DEF RepositoryStep, GuardedSave
  <2>4. QED
    BY <2>1, <2>2, <2>3 DEF RepositoryNext
<1>6. UNCHANGED allVars => UNCHANGED repositoryAndRegistry
  BY DEF allVars, repositoryAndRegistry
<1>7. QED
  BY <1>1, <1>2, <1>3, <1>4, <1>5, <1>6 DEF LendingNext

(* A new loan is on the contract's terms, whichever history it was read from. *)
LEMMA OriginationKeepsTerms ==
  ASSUME LoansOnTerms, NEW borrower \in Callers, NEW asset \in Assets,
         NEW amount \in CollateralAmounts, NEW history \in Seq(Report), now \in Nat,
         OriginateLoan(borrower, asset, amount, history)
  PROVE  LoansOnTerms'
<1> DEFINE score == LatestScore(history)
           loan == NewLoan(borrower, asset, amount, score)
           Terms == [borrower : Callers, collateralAsset : Assets, collateralAmount : Nat,
                     borrowedAmount : Int, interestRateBps : Nat, creditScoreAtBorrow : Nat,
                     borrowTimestamp : Nat]
<1>1. /\ loans \in Seq(Terms) /\ loans' = Append(loans, loan)
      /\ Len(history) > 0 /\ score >= 50
  BY DEF LoansOnTerms, OriginateLoan
<1>2. amount \in Nat
  BY CollateralAssumption
<1>3. score \in Nat
  <2>1. Len(history) \in 1..Len(history)
    BY <1>1
  <2>2. history[Len(history)] \in Report
    BY <2>1
  <2>3. history[Len(history)].score \in 0..100
    BY <2>2 DEF Report, MaxScore
  <2>4. score = history[Len(history)].score
    BY DEF LatestScore
  <2> HIDE DEF score
  <2>5. \A n \in 0..100 : n \in Nat
    OBVIOUS
  <2>6. QED
    BY <2>3, <2>4, <2>5, Zenon
<1> HIDE DEF score
<1>4. LtvBps(score) \in Nat /\ InterestRateBps(score) \in Nat
  BY DEF LtvBps, InterestRateBps
<1>5. (amount * LtvBps(score)) \div 10000 \in Int
  <2>1. amount * LtvBps(score) \in Nat
    BY <1>2, <1>4
  <2>2. QED
    BY <2>1, SMT
<1>6. /\ loan.creditScoreAtBorrow = score /\ loan.collateralAmount = amount
      /\ loan.borrowedAmount = (amount * LtvBps(score)) \div 10000
      /\ loan.interestRateBps = InterestRateBps(score)
  BY SMT DEF NewLoan
<1>7. loan \in Terms
  BY <1>2, <1>3, <1>4, <1>5, SMT DEF NewLoan
<1>8. LoanOnTerms(loan)
  BY <1>1, <1>2, <1>3, <1>6, SMT DEF LoanOnTerms
<1> HIDE DEF loan
<1>9. loans' \in Seq(Terms) /\ Len(loans') = Len(loans) + 1
  BY <1>1, <1>7
<1>10. ASSUME NEW id \in 1..Len(loans') PROVE LoanOnTerms(loans'[id])
  <2>1. CASE id = Len(loans) + 1
    <3>1. loans'[id] = loan
      BY <2>1, <1>1, <1>7
    <3>2. QED
      BY <3>1, <1>8
  <2>2. CASE id \in 1..Len(loans)
    <3>1. loans'[id] = loans[id]
      BY <2>2, <1>1, <1>7
    <3>2. QED
      BY <2>2, <3>1 DEF LoansOnTerms
  <2>3. id = Len(loans) + 1 \/ id \in 1..Len(loans)
    BY <1>1, <1>9
  <2>4. QED
    BY <2>1, <2>2, <2>3
<1>11. QED
  BY <1>9, <1>10 DEF LoansOnTerms

LEMMA LendingNextInv ==
  ASSUME LendingInv, [LendingNext]_allVars
  PROVE  LendingInv'
<1>1. RepositoryInv /\ RepositoryInv' /\ LoansOnTerms
  BY NextIsLendersRepositoryStep, RepositoryNextInv DEF LendingInv
<1>2. /\ now \in Nat /\ assetReportHistory \in [Assets -> Seq(Report)]
      /\ assetReportHistory' \in [Assets -> Seq(Report)]
  BY <1>1 DEF RepositoryInv, RepositoryTypeOK
<1>3. UNCHANGED lendingVars => LoansOnTerms'
  BY <1>1 DEF lendingVars, LoansOnTerms
<1>4. ASSUME NEW borrower \in Callers, NEW asset \in Assets, NEW amount \in CollateralAmounts,
             Borrow(borrower, asset, amount)
      PROVE  LoansOnTerms'
  <2>1. OriginateLoan(borrower, asset, amount, assetReportHistory[asset])
    BY <1>4 DEF Borrow
  <2>2. assetReportHistory[asset] \in Seq(Report)
    BY <1>2
  <2>3. QED
    BY <1>1, <1>2, <2>1, <2>2, OriginationKeepsTerms
<1>5. ASSUME NEW borrower \in Callers, NEW m \in Messages, NEW amount \in CollateralAmounts,
             NEW q \in Submissions,
             BorrowWithOracleProof(borrower, m, amount, q.signers, q.recovered)
      PROVE  LoansOnTerms'
  <2>1. /\ OriginateLoan(borrower, m.asset, amount, assetReportHistory'[m.asset])
        /\ Acceptable(m)
    BY <1>5 DEF BorrowWithOracleProof, SaveRiskReportMultiSigned
  <2>2. m.asset \in Assets
    BY <2>1, MessagesAssumption DEF Acceptable
  <2>3. assetReportHistory'[m.asset] \in Seq(Report)
    BY <1>2, <2>2
  <2>4. QED
    BY <1>1, <1>2, <2>1, <2>2, <2>3, OriginationKeepsTerms
<1>6. LoansOnTerms'
  <2>1. UNCHANGED allVars => UNCHANGED lendingVars
    BY DEF allVars
  <2>2. QED
    BY <2>1, <1>3, <1>4, <1>5 DEF LendingNext
<1>7. QED
  BY <1>1, <1>6 DEF LendingInv

LEMMA LendingAlwaysInv == LendingSpec => []LendingInv
<1>1. Deployed => LendingInv
  <2> SUFFICES ASSUME Deployed PROVE LendingInv
    OBVIOUS
  <2>1. RepositoryInv
    BY RepositoryInitInv DEF Deployed, RepositoryFirst
  <2>2. LoansOnTerms
    BY DEF Deployed, LendingInit, LoansOnTerms
  <2>3. QED
    BY <2>1, <2>2 DEF LendingInv
<1>2. LendingInv /\ [LendingNext]_allVars => LendingInv'
  BY LendingNextInv
<1>3. QED
  BY <1>1, <1>2, PTL DEF LendingSpec

(* Borrowing is a use of the repository and no exception to its rules: every
   behaviour of the two contracts is one of the report histories, so they stay
   append-only, quorums are met and every report is attested beside it. *)
THEOREM LendingImplementsRepository == LendingSpec => RepositorySpec
<1>1. [LendingNext]_allVars => [RepositoryNext]_repositoryAndRegistry
  BY NextIsLendersRepositoryStep
<1>2. Deployed => RepositoryFirst
  BY DEF Deployed
<1>3. QED
  BY <1>1, <1>2, PTL DEF LendingSpec, RepositorySpec, repositoryAndRegistry

-----------------------------------------------------------------------------
(* The contract's table and the SDK's are one, unit for unit. *)
LEMMA QuoteIsTerms ==
  ASSUME NEW l, LoanOnTerms(l)
  PROVE  LET quote == SdkLoanTerms(l.creditScoreAtBorrow) IN
         /\ quote.isEligible
         /\ l.borrowedAmount = (l.collateralAmount * quote.ltvPercent) \div 100
         /\ l.interestRateBps = 10 * quote.aprTenths
<1> DEFINE score == l.creditScoreAtBorrow
           quote == SdkLoanTerms(score)
<1>1. /\ score \in Nat /\ score >= 50 /\ l.collateralAmount \in Nat
      /\ l.borrowedAmount = (l.collateralAmount * LtvBps(score)) \div 10000
      /\ l.interestRateBps = InterestRateBps(score)
  BY DEF LoanOnTerms
<1>2. \A n \in Nat, pct \in {90, 80, 65, 50} : (n * (100 * pct)) \div 10000 = (n * pct) \div 100
  BY SMT
<1>3. /\ quote.isEligible /\ quote.ltvPercent \in {90, 80, 65, 50}
      /\ LtvBps(score) = 100 * quote.ltvPercent
      /\ InterestRateBps(score) = 10 * quote.aprTenths
  BY <1>1, SMT DEF SdkLoanTerms, LtvBps, InterestRateBps
<1> HIDE DEF quote
<1>4. l.borrowedAmount = (l.collateralAmount * quote.ltvPercent) \div 100
  BY <1>1, <1>2, <1>3
<1>5. QED
  BY <1>1, <1>3, <1>4 DEF quote

(* Every loan has the terms the SDK quotes for the rating it was made on. *)
THEOREM QuotesHold == LendingSpec => []LoansMatchTheQuote
<1>1. LendingInv => LoansMatchTheQuote
  BY QuoteIsTerms DEF LendingInv, LoansOnTerms, LoansMatchTheQuote
<1>2. QED
  BY <1>1, LendingAlwaysInv, PTL

-----------------------------------------------------------------------------
(* What a step adds to the history it appends to is what it appended. *)
LEMMA AppendAdds ==
  ASSUME RepositoryTypeOK, NEW b \in Assets, NEW r,
         assetReportHistory' =
           [assetReportHistory EXCEPT ![b] = Append(assetReportHistory[b], r)],
         NEW a \in Assets, NEW k \in Added(a)
  PROVE  a = b /\ k = Len(assetReportHistory'[a]) /\ assetReportHistory'[a][k] = r
<1>1. assetReportHistory \in [Assets -> Seq(Report)]
  BY DEF RepositoryTypeOK
<1>2. a = b
  BY <1>1 DEF Added
<1>3. assetReportHistory'[a] = Append(assetReportHistory[a], r)
  BY <1>1, <1>2
<1>4. k = Len(assetReportHistory[a]) + 1 /\ k = Len(assetReportHistory'[a])
  BY <1>1, <1>3 DEF Added
<1>5. assetReportHistory'[a][k] = r
  BY <1>1, <1>3, <1>4
<1>6. QED
  BY <1>2, <1>4, <1>5

(* Nobody but the lending pool records in its name. *)
LEMMA CallersSignTheirs ==
  ASSUME RepositoryTypeOK, NEW sender, RepositoryStep(sender), NEW a \in Assets, NEW k \in Added(a)
  PROVE  assetReportHistory'[a][k].verifiedBy = sender
<1>1. ASSUME NEW m \in Messages, NEW q \in Submissions,
             SaveRiskReportMultiSigned(sender, m, q.signers, q.recovered)
      PROVE  assetReportHistory'[a][k].verifiedBy = sender
  <2> DEFINE r == NewReport(m, sender, NoHash, FALSE)
  <2>1. /\ m.asset \in Assets
        /\ assetReportHistory' =
             [assetReportHistory EXCEPT ![m.asset] = Append(assetReportHistory[m.asset], r)]
    BY <1>1, MessagesAssumption DEF SaveRiskReportMultiSigned, Acceptable, RecordReport, NewReport
  <2>2. r.verifiedBy = sender
    BY DEF NewReport
  <2> HIDE DEF r
  <2>3. QED
    BY <2>1, <2>2, AppendAdds
<1>2. ASSUME NEW m \in Messages, NEW recovered, SaveRiskReportSigned(sender, m, recovered)
      PROVE  assetReportHistory'[a][k].verifiedBy = sender
  <2> DEFINE r == NewReport(m, sender, NoHash, FALSE)
  <2>1. /\ m.asset \in Assets
        /\ assetReportHistory' =
             [assetReportHistory EXCEPT ![m.asset] = Append(assetReportHistory[m.asset], r)]
    BY <1>2, MessagesAssumption DEF SaveRiskReportSigned, Acceptable, RecordReport, NewReport
  <2>2. r.verifiedBy = sender
    BY DEF NewReport
  <2> HIDE DEF r
  <2>3. QED
    BY <2>1, <2>2, AppendAdds
<1>3. ASSUME NEW m \in Messages, SaveRiskReport(sender, m)
      PROVE  assetReportHistory'[a][k].verifiedBy = sender
  <2> DEFINE r == NewReport(m, sender, NoHash, FALSE)
  <2>1. /\ m.asset \in Assets
        /\ assetReportHistory' =
             [assetReportHistory EXCEPT ![m.asset] = Append(assetReportHistory[m.asset], r)]
    BY <1>3, MessagesAssumption DEF SaveRiskReport, Acceptable, RecordReport, NewReport
  <2>2. r.verifiedBy = sender
    BY DEF NewReport
  <2> HIDE DEF r
  <2>3. QED
    BY <2>1, <2>2, AppendAdds
<1>4. ASSUME NEW m \in Messages, NEW queryId, SaveVerifiedRiskReport(sender, m, queryId)
      PROVE  assetReportHistory'[a][k].verifiedBy = sender
  <2> DEFINE r == NewReport(m, sender, queryId, TRUE)
  <2>1. /\ m.asset \in Assets
        /\ assetReportHistory' =
             [assetReportHistory EXCEPT ![m.asset] = Append(assetReportHistory[m.asset], r)]
    BY <1>4, MessagesAssumption DEF SaveVerifiedRiskReport, Acceptable, RecordReport, NewReport
  <2>2. r.verifiedBy = sender
    BY DEF NewReport
  <2> HIDE DEF r
  <2>3. QED
    BY <2>1, <2>2, AppendAdds
<1>5. ASSUME NEW c, SaveRWACertificate(sender, c) \/ SaveRWAZkTLSCertificate(sender, c)
      PROVE  FALSE
  <2>1. UNCHANGED assetReportHistory
    BY <1>5 DEF SaveRWACertificate, SaveRWAZkTLSCertificate, reportVars
  <2>2. QED
    BY <2>1, NothingAdded
<1>6. QED
  BY <1>1, <1>2, <1>3, <1>4, <1>5 DEF RepositoryStep, GuardedSave, UnguardedSave

LEMMA PullIsAtomicStep ==
  ASSUME LendingInv, [LendingNext]_allVars
  PROVE  PullIsAtomic
<1> SUFFICES ASSUME NEW a \in Assets, NEW k \in Added(a),
                    assetReportHistory'[a][k].verifiedBy = Lender
    PROVE  /\ Len(loans') = Len(loans) + 1
           /\ loans'[Len(loans')].collateralAsset = a
           /\ loans'[Len(loans')].creditScoreAtBorrow = assetReportHistory'[a][k].score
  BY DEF PullIsAtomic
<1>1. RepositoryTypeOK
  BY DEF LendingInv, RepositoryInv
<1>2. ~ UNCHANGED assetReportHistory
  BY <1>1, NothingAdded
<1>3. ASSUME NEW sender \in Callers, RepositoryStep(sender) PROVE FALSE
  BY <1>1, <1>3, CallersSignTheirs DEF Callers
<1>4. PICK borrower \in Callers, m \in Messages, amount \in CollateralAmounts, q \in Submissions :
          BorrowWithOracleProof(borrower, m, amount, q.signers, q.recovered)
  BY <1>2, <1>3 DEF LendingNext, repositoryVars, reportVars, NextBlock, Borrow, allVars
<1>5. /\ SaveRiskReportMultiSigned(Lender, m, q.signers, q.recovered)
      /\ OriginateLoan(borrower, m.asset, amount, assetReportHistory'[m.asset])
  BY <1>4 DEF BorrowWithOracleProof
<1> DEFINE r == NewReport(m, Lender, NoHash, FALSE)
<1>6. /\ m.asset \in Assets
      /\ assetReportHistory' =
           [assetReportHistory EXCEPT ![m.asset] = Append(assetReportHistory[m.asset], r)]
  BY <1>5, MessagesAssumption DEF SaveRiskReportMultiSigned, Acceptable, RecordReport, NewReport
<1> HIDE DEF r
<1>7. a = m.asset /\ k = Len(assetReportHistory'[a])
  BY <1>1, <1>6, AppendAdds
<1> DEFINE loan == NewLoan(borrower, a, amount, LatestScore(assetReportHistory'[a]))
<1>8. loans' = Append(loans, loan)
  BY <1>5, <1>7 DEF OriginateLoan
<1>9. /\ loan.collateralAsset = a
      /\ loan.creditScoreAtBorrow = assetReportHistory'[a][k].score
  BY <1>7 DEF NewLoan, LatestScore
<1> HIDE DEF loan
<1>10. \E S : loans \in Seq(S)
  BY DEF LendingInv, LoansOnTerms
<1>11. Len(loans') = Len(loans) + 1 /\ loans'[Len(loans')] = loan
  BY <1>8, <1>10
<1>12. QED
  BY <1>9, <1>11

(* A report in the pool's name comes with the loan it was delivered for, priced by
   it, for any signer lists, ratings and amounts. *)
THEOREM PullsAreAtomic == LendingSpec => PullOracleIsAtomic
<1>1. LendingInv /\ [LendingNext]_allVars => [PullIsAtomic]_allVars
  BY PullIsAtomicStep
<1>2. QED
  BY <1>1, LendingAlwaysInv, PTL DEF LendingSpec, PullOracleIsAtomic

-----------------------------------------------------------------------------
(* Nothing on chain is dated in the future, which is what makes the successor of a
   loan's report younger than the loan. *)
NothingAhead ==
  /\ \A a \in Assets : \A k \in 1..Len(assetReportHistory[a]) :
       assetReportHistory[a][k].timestamp <= now
  /\ \A id \in 1..Len(loans) : loans[id].borrowTimestamp <= now

DatedInv == LendingInv /\ NothingAhead /\ LoansAreOnLatest

(* Where a loan stands in the history of its collateral. *)
OnLatest(l, h) ==
  \E k \in 1..Len(h) :
    /\ h[k].score = l.creditScoreAtBorrow
    /\ h[k].timestamp <= l.borrowTimestamp
    /\ k < Len(h) => h[k + 1].timestamp >= l.borrowTimestamp

(* Reports are pushed with the time of the block, or not at all. *)
LEMMA ReportsArePushedNow ==
  ASSUME LendingInv, [LendingNext]_allVars
  PROVE  /\ now \in Nat /\ now' \in Nat /\ now <= now'
         /\ \A a \in Assets :
               \/ assetReportHistory'[a] = assetReportHistory[a]
               \/ \E r \in Report :
                     /\ assetReportHistory'[a] = Append(assetReportHistory[a], r)
                     /\ r.timestamp = now /\ now' = now
<1>1. RepositoryInv /\ [RepositoryNext]_repositoryAndRegistry /\ RepositoryInv'
  BY NextIsLendersRepositoryStep, RepositoryNextInv DEF LendingInv
<1>2. now \in Nat /\ now' \in Nat /\ assetReportHistory \in [Assets -> Seq(Report)]
  BY <1>1 DEF RepositoryInv, RepositoryTypeOK
<1>3. now <= now'
  <2>1. ASSUME NEW sender \in Accounts, RepositoryStep(sender) PROVE now' = now
    BY <1>1, <2>1, RepositoryStepShape DEF PushedAttested, PushedVerified, PushedCertificate, Pushed
  <2>2. NextBlock => now' = now + 1
    BY DEF NextBlock
  <2>3. UNCHANGED repositoryVars => now' = now
    BY DEF repositoryVars
  <2>4. QED
    BY <1>1, <1>2, <2>1, <2>2, <2>3 DEF RepositoryNext, repositoryAndRegistry
<1>4. ASSUME NEW m, NEW report \in Report, NEW how, Pushed(m, report, how), report.timestamp = now
      PROVE  /\ now' = now
             /\ \A a \in Assets :
                   \/ assetReportHistory'[a] = assetReportHistory[a]
                   \/ assetReportHistory'[a] = Append(assetReportHistory[a], report)
  BY <1>2, <1>4 DEF Pushed
<1>5. CASE PushedAttested
  <2>1. PICK m \in Messages, sender \in Accounts, via \in {"Direct", "Signed", "MultiSigned"},
             signers \in SUBSET Accounts :
          Pushed(m, NewReport(m, sender, NoHash, FALSE), NewBacking(via, signers))
    BY <1>5 DEF PushedAttested
  <2> DEFINE r == NewReport(m, sender, NoHash, FALSE)
  <2>2. r \in Report /\ r.timestamp = now
    BY <2>1 DEF Pushed, NewReport
  <2>3. Pushed(m, r, NewBacking(via, signers))
    BY <2>1
  <2> HIDE DEF r
  <2>4. QED
    BY <1>2, <1>3, <1>4, <2>2, <2>3
<1>6. CASE PushedVerified
  <2>1. PICK m \in Messages, sender \in Accounts, queryId \in QueryIds :
          Pushed(m, NewReport(m, sender, queryId, TRUE), NewBacking("Verified", {}))
    BY <1>6 DEF PushedVerified
  <2> DEFINE r == NewReport(m, sender, queryId, TRUE)
  <2>2. r \in Report /\ r.timestamp = now
    BY <2>1 DEF Pushed, NewReport
  <2>3. Pushed(m, r, NewBacking("Verified", {}))
    BY <2>1
  <2> HIDE DEF r
  <2>4. QED
    BY <1>2, <1>3, <1>4, <2>2, <2>3
<1>7. CASE PushedCertificate
  BY <1>2, <1>7 DEF PushedCertificate, reportVars
<1>8. CASE UNCHANGED <<reportVars, certificateVars>>
  <2>1. UNCHANGED assetReportHistory
    BY <1>8 DEF reportVars
  <2>2. QED
    BY <1>2, <1>3, <2>1
<1>9. QED
  BY <1>1, <1>5, <1>6, <1>7, <1>8, RepositoryNextShape

(* A loan stays where it stood when a report younger than it is pushed, and a new
   loan stands at the end. *)
LEMMA PushKeepsPlace ==
  ASSUME NEW l, NEW h \in Seq(Report), OnLatest(l, h), NEW r \in Report,
         l.borrowTimestamp \in Nat, l.borrowTimestamp <= r.timestamp
  PROVE  OnLatest(l, Append(h, r))
<1>1. PICK k \in 1..Len(h) :
        /\ h[k].score = l.creditScoreAtBorrow
        /\ h[k].timestamp <= l.borrowTimestamp
        /\ k < Len(h) => h[k + 1].timestamp >= l.borrowTimestamp
  BY DEF OnLatest
<1> DEFINE g == Append(h, r)
<1>2. /\ Len(g) = Len(h) + 1 /\ k \in 1..Len(g) /\ g[k] = h[k] /\ Len(h) \in Nat
      /\ k < Len(h) => k + 1 \in 1..Len(h) /\ g[k + 1] = h[k + 1]
      /\ k = Len(h) => g[k + 1] = r
  OBVIOUS
<1>3. k < Len(g) => g[k + 1].timestamp >= l.borrowTimestamp
  <2>1. CASE k < Len(h)
    BY <1>1, <1>2, <2>1
  <2>2. CASE k = Len(h)
    <3>1. r.timestamp \in Nat
      BY DEF Report
    <3>2. QED
      BY <1>2, <2>2, <3>1
  <2>3. QED
    BY <1>2, <2>1, <2>2
<1> HIDE DEF g
<1>4. OnLatest(l, g)
  BY <1>1, <1>2, <1>3 DEF OnLatest
<1>5. QED
  BY <1>4 DEF g

LEMMA NewLoanIsOnLatest ==
  ASSUME NEW h \in Seq(Report), Len(h) > 0, \A k \in 1..Len(h) : h[k].timestamp <= now,
         NEW borrower, NEW asset, NEW amount,
         NEW l, l = NewLoan(borrower, asset, amount, LatestScore(h))
  PROVE  OnLatest(l, h) /\ l.collateralAsset = asset /\ l.borrowTimestamp = now
<1>1. Len(h) \in 1..Len(h) /\ ~(Len(h) < Len(h))
  OBVIOUS
<1>2. l.borrowTimestamp = now /\ l.creditScoreAtBorrow = h[Len(h)].score /\ l.collateralAsset = asset
  BY DEF NewLoan, LatestScore
<1>3. QED
  BY <1>1, <1>2 DEF OnLatest

LEMMA DatedNextInv ==
  ASSUME DatedInv, [LendingNext]_allVars
  PROVE  DatedInv'
<1>1. /\ LendingInv /\ LendingInv' /\ now \in Nat /\ now' \in Nat /\ now <= now'
      /\ \A a \in Assets :
            \/ assetReportHistory'[a] = assetReportHistory[a]
            \/ \E r \in Report : /\ assetReportHistory'[a] = Append(assetReportHistory[a], r)
                                 /\ r.timestamp = now /\ now' = now
  BY LendingNextInv, ReportsArePushedNow DEF DatedInv
<1>2. /\ assetReportHistory \in [Assets -> Seq(Report)]
      /\ assetReportHistory' \in [Assets -> Seq(Report)]
  BY <1>1 DEF LendingInv, RepositoryInv, RepositoryTypeOK
<1>3. ASSUME NEW id \in 1..Len(loans)
      PROVE  /\ loans[id].collateralAsset \in Assets /\ loans[id].borrowTimestamp \in Nat
             /\ loans[id].borrowTimestamp <= now
             /\ OnLatest(loans[id], assetReportHistory[loans[id].collateralAsset])
  <2> DEFINE Terms == [borrower : Callers, collateralAsset : Assets, collateralAmount : Nat,
                       borrowedAmount : Int, interestRateBps : Nat, creditScoreAtBorrow : Nat,
                       borrowTimestamp : Nat]
  <2>1. loans \in Seq(Terms)
    BY <1>1 DEF LendingInv, LoansOnTerms
  <2>2. loans[id].collateralAsset \in Assets /\ loans[id].borrowTimestamp \in Nat
    <3>1. \A l \in Terms : l.collateralAsset \in Assets /\ l.borrowTimestamp \in Nat
      OBVIOUS
    <3> HIDE DEF Terms
    <3>2. loans[id] \in Terms
      BY <2>1
    <3>3. QED
      BY <3>1, <3>2
  <2>3. loans[id].borrowTimestamp <= now
    BY DEF DatedInv, NothingAhead
  <2>4. OnLatest(loans[id], assetReportHistory[loans[id].collateralAsset])
    BY DEF DatedInv, LoansAreOnLatest, OnLatest
  <2>5. QED
    BY <2>2, <2>3, <2>4
<1>4. ASSUME NEW a \in Assets, NEW k \in 1..Len(assetReportHistory'[a])
      PROVE  assetReportHistory'[a][k].timestamp <= now'
  <2> DEFINE h == assetReportHistory[a]
             g == assetReportHistory'[a]
  <2>1. h \in Seq(Report) /\ g \in Seq(Report)
    BY <1>2
  <2>2. \A j \in 1..Len(h) : h[j].timestamp \in Nat /\ h[j].timestamp <= now'
    <3>1. ASSUME NEW j \in 1..Len(h) PROVE h[j].timestamp \in Nat
      <4>1. h[j] \in Report
        BY <2>1
      <4>2. QED
        BY <4>1 DEF Report
    <3>2. \A j \in 1..Len(h) : h[j].timestamp <= now
      BY DEF DatedInv, NothingAhead
    <3> HIDE DEF h
    <3>3. QED
      BY <1>1, <3>1, <3>2
  <2>3. \/ g = h
        \/ \E r \in Report : g = Append(h, r) /\ r.timestamp = now /\ now' = now
    BY <1>1
  <2>4. k \in 1..Len(g)
    OBVIOUS
  <2> HIDE DEF h, g
  <2>5. CASE \E r \in Report : g = Append(h, r) /\ r.timestamp = now /\ now' = now
    <3>1. PICK r \in Report : g = Append(h, r) /\ r.timestamp = now /\ now' = now
      BY <2>5
    <3>2. (k \in 1..Len(h) /\ g[k] = h[k]) \/ g[k] = r
      BY <2>1, <2>4, <3>1
    <3>3. QED
      BY <1>1, <2>2, <3>1, <3>2 DEF g
  <2>6. QED
    BY <2>2, <2>3, <2>4, <2>5 DEF g
<1>5. ASSUME NEW id \in 1..Len(loans)
      PROVE  /\ OnLatest(loans[id], assetReportHistory'[loans[id].collateralAsset])
             /\ loans[id].borrowTimestamp <= now'
  <2> DEFINE l == loans[id]
             a == l.collateralAsset
             h == assetReportHistory[a]
             g == assetReportHistory'[a]
  <2>1. /\ l.borrowTimestamp \in Nat /\ l.borrowTimestamp <= now
        /\ OnLatest(l, h) /\ h \in Seq(Report)
    BY <1>2, <1>3
  <2>2. \/ g = h
        \/ \E r \in Report : g = Append(h, r) /\ r.timestamp = now /\ now' = now
    BY <1>1, <1>3
  <2>3. OnLatest(l, g) /\ l.borrowTimestamp <= now'
    <3> HIDE DEF l, a, h, g
    <3>1. l.borrowTimestamp <= now'
      BY <1>1, <2>1
    <3>2. CASE \E r \in Report : g = Append(h, r) /\ r.timestamp = now /\ now' = now
      <4>1. PICK r \in Report : g = Append(h, r) /\ r.timestamp = now
        BY <3>2
      <4>2. OnLatest(l, Append(h, r))
        BY <2>1, <4>1, PushKeepsPlace
      <4>3. QED
        BY <3>1, <4>1, <4>2
    <3>3. QED
      BY <2>1, <2>2, <3>1, <3>2
  <2>4. QED
    BY <2>3
<1> DEFINE Placed ==
      \A id \in 1..Len(loans') :
        /\ OnLatest(loans'[id], assetReportHistory'[loans'[id].collateralAsset])
        /\ loans'[id].borrowTimestamp <= now'
<1>6. ASSUME NEW borrower, NEW asset \in Assets, NEW amount, now' = now,
             OriginateLoan(borrower, asset, amount, assetReportHistory'[asset])
      PROVE  Placed
  <2> DEFINE h == assetReportHistory'[asset]
             loan == NewLoan(borrower, asset, amount, LatestScore(h))
  <2>1. Len(h) > 0 /\ loans' = Append(loans, loan) /\ h \in Seq(Report)
    BY <1>2, <1>6 DEF OriginateLoan
  <2>2. \A k \in 1..Len(h) : h[k].timestamp <= now
    BY <1>4, <1>6
  <2> HIDE DEF h
  <2>3. OnLatest(loan, h) /\ loan.collateralAsset = asset /\ loan.borrowTimestamp = now
    BY <2>1, <2>2, NewLoanIsOnLatest
  <2> HIDE DEF loan
  <2>4. \E S : loans \in Seq(S)
    BY <1>1 DEF LendingInv, LoansOnTerms
  <2>5. ASSUME NEW id \in 1..Len(loans')
        PROVE  (id \in 1..Len(loans) /\ loans'[id] = loans[id]) \/ loans'[id] = loan
    BY <2>1, <2>4, <2>5
  <2>6. loan.borrowTimestamp <= now'
    BY <1>1, <1>6, <2>3
  <2>7. OnLatest(loan, assetReportHistory'[loan.collateralAsset])
    BY <2>3 DEF h
  <2>8. ASSUME NEW id \in 1..Len(loans')
        PROVE  /\ OnLatest(loans'[id], assetReportHistory'[loans'[id].collateralAsset])
               /\ loans'[id].borrowTimestamp <= now'
    <3>1. CASE id \in 1..Len(loans) /\ loans'[id] = loans[id]
      BY <1>5, <3>1
    <3>2. CASE loans'[id] = loan
      BY <2>6, <2>7, <3>2
    <3>3. QED
      BY <2>5, <3>1, <3>2
  <2>9. QED
    BY <2>8
<1>7. UNCHANGED lendingVars => Placed
  <2>1. UNCHANGED lendingVars => loans' = loans
    BY DEF lendingVars
  <2>2. QED
    BY <1>5, <2>1
<1>8. ASSUME NEW borrower \in Callers, NEW asset \in Assets, NEW amount \in CollateralAmounts,
             Borrow(borrower, asset, amount)
      PROVE  Placed
  <2>1. /\ OriginateLoan(borrower, asset, amount, assetReportHistory'[asset])
        /\ now' = now
    BY <1>8 DEF Borrow, repositoryVars, reportVars
  <2> HIDE DEF Placed
  <2>2. QED
    BY <1>6, <2>1
<1>9. ASSUME NEW borrower \in Callers, NEW m \in Messages, NEW amount \in CollateralAmounts,
             NEW q \in Submissions,
             BorrowWithOracleProof(borrower, m, amount, q.signers, q.recovered)
      PROVE  Placed
  <2>1. /\ OriginateLoan(borrower, m.asset, amount, assetReportHistory'[m.asset])
        /\ Acceptable(m) /\ now' = now
    BY <1>9 DEF BorrowWithOracleProof, SaveRiskReportMultiSigned, RecordReport
  <2>2. m.asset \in Assets
    BY <2>1, MessagesAssumption DEF Acceptable
  <2> HIDE DEF Placed
  <2>3. QED
    BY <1>6, <2>1, <2>2
<1>10. Placed
  <2> HIDE DEF Placed
  <2>1. UNCHANGED allVars => UNCHANGED lendingVars
    BY DEF allVars
  <2>2. QED
    BY <2>1, <1>7, <1>8, <1>9 DEF LendingNext
<1>11. NothingAhead'
  BY <1>4, <1>10 DEF NothingAhead
<1>12. LoansAreOnLatest'
  BY <1>10 DEF LoansAreOnLatest, OnLatest
<1>13. QED
  BY <1>1, <1>11, <1>12 DEF DatedInv

(* Every loan was made on the rating that was the latest of its collateral at the
   time, however deliveries and borrowers interleave. *)
THEOREM LoansStandOnLatest == LendingSpec => []LoansAreOnLatest
<1>1. Deployed => DatedInv
  <2> SUFFICES ASSUME Deployed PROVE DatedInv
    OBVIOUS
  <2>1. LendingInv /\ loans = <<>> /\ assetReportHistory = [a \in Assets |-> <<>>]
    <3>1. RepositoryInv
      BY RepositoryInitInv DEF Deployed, RepositoryFirst
    <3>2. LoansOnTerms
      BY DEF Deployed, LendingInit, LoansOnTerms
    <3>3. QED
      BY <3>1, <3>2 DEF Deployed, LendingInit, LendingInv, RepositoryFirst, RepositoryInit
  <2>2. QED
    BY <2>1 DEF DatedInv, NothingAhead, LoansAreOnLatest
<1>2. DatedInv /\ [LendingNext]_allVars => DatedInv'
  BY DatedNextInv
<1>3. DatedInv => LoansAreOnLatest
  BY DEF DatedInv
<1>4. QED
  BY <1>1, <1>2, <1>3, PTL DEF LendingSpec

-----------------------------------------------------------------------------
(* The table of loans and the borrowers' lists. *)

(* One list: what it names is there, is its owner's, and stands in order. *)
ListIsRight(list, table, a) ==
  \A k \in 1..Len(list) :
    /\ list[k] \in 1..Len(table)
    /\ table[list[k]].borrower = a
    /\ k > 1 => list[k - 1] < list[k]

LEMMA NewLoanIsALoan ==
  ASSUME NEW borrower \in Callers, NEW asset \in Assets, NEW amount \in CollateralAmounts,
         NEW history \in Seq(Report), now \in Nat, amount > 0, Len(history) > 0,
         LatestScore(history) >= 50
  PROVE  NewLoan(borrower, asset, amount, LatestScore(history)) \in Loan
<1> DEFINE score == LatestScore(history)
<1>1. score \in 50..MaxScore
  <2>1. Len(history) \in 1..Len(history)
    OBVIOUS
  <2>2. history[Len(history)] \in Report
    BY <2>1
  <2>3. score \in 0..MaxScore /\ score >= 50
    BY <2>2 DEF LatestScore, Report
  <2> HIDE DEF score
  <2>4. QED
    BY <2>3 DEF MaxScore
<1> HIDE DEF score
<1>2. amount \in Nat \ {0} /\ score \in Nat
  BY <1>1, CollateralAssumption DEF MaxScore
<1>3. LtvBps(score) \in Nat /\ InterestRateBps(score) \in 450..1400
  BY DEF LtvBps, InterestRateBps
<1>4. (amount * LtvBps(score)) \div 10000 \in Nat
  <2>1. amount * LtvBps(score) \in Nat
    BY <1>2, <1>3
  <2>2. QED
    BY <2>1, SMT
<1>5. NewLoan(borrower, asset, amount, score) \in Loan
  BY <1>1, <1>2, <1>3, <1>4 DEF NewLoan, Loan
<1>6. QED
  BY <1>5 DEF score

LEMMA SeqWidens ==
  ASSUME NEW S, NEW T, S \subseteq T, NEW s \in Seq(S)
  PROVE  s \in Seq(T)
  OBVIOUS

(* A new loan leaves every list right, and goes to the end of its borrower's. *)
LEMMA TableGrows ==
  ASSUME NEW table \in Seq(Loan), NEW loan \in Loan, NEW a, NEW list \in Seq(1..Len(table)),
         ListIsRight(list, table, a)
  PROVE  /\ list \in Seq(1..Len(Append(table, loan)))
         /\ ListIsRight(list, Append(table, loan), a)
<1> DEFINE longer == Append(table, loan)
<1>1. /\ Len(longer) = Len(table) + 1 /\ Len(table) \in Nat
      /\ \A i \in 1..Len(table) : longer[i] = table[i]
  OBVIOUS
<1> HIDE DEF longer
<1>2. 1..Len(table) \subseteq 1..Len(longer)
  BY <1>1
<1>3. list \in Seq(1..Len(longer))
  BY <1>2, SeqWidens
<1>4. ListIsRight(list, longer, a)
  BY <1>1, <1>2 DEF ListIsRight
<1>5. QED
  BY <1>3, <1>4 DEF longer

LEMMA ListGrows ==
  ASSUME NEW table \in Seq(Loan), NEW loan \in Loan, NEW list \in Seq(1..Len(table)),
         ListIsRight(list, table, loan.borrower)
  PROVE  /\ Append(list, Len(table) + 1) \in Seq(1..Len(Append(table, loan)))
         /\ ListIsRight(Append(list, Len(table) + 1), Append(table, loan), loan.borrower)
<1> DEFINE longer == Append(table, loan)
           last == Len(table) + 1
           grown == Append(list, last)
           a == loan.borrower
<1>1. /\ Len(longer) = last /\ Len(table) \in Nat /\ longer[last] = loan
  OBVIOUS
<1>2. list \in Seq(1..Len(longer)) /\ ListIsRight(list, longer, a)
  BY TableGrows
<1>3. \A k \in 1..Len(list) : list[k] \in 1..Len(table)
  OBVIOUS
<1> HIDE DEF longer, a
<1>4. last \in 1..Len(longer)
  BY <1>1
<1>5. /\ Len(grown) = Len(list) + 1 /\ Len(list) \in Nat /\ grown[Len(grown)] = last
      /\ \A k \in 1..Len(list) : grown[k] = list[k]
      /\ grown \in Seq(1..Len(longer))
  BY <1>2, <1>4
<1> HIDE DEF grown, last
<1>6. ASSUME NEW k \in 1..Len(grown)
      PROVE  /\ grown[k] \in 1..Len(longer)
             /\ longer[grown[k]].borrower = a
             /\ k > 1 => grown[k - 1] < grown[k]
  <2>1. CASE k \in 1..Len(list)
    <3>1. k > 1 => k - 1 \in 1..Len(list)
      BY <2>1
    <3>2. QED
      BY <1>2, <1>5, <2>1, <3>1 DEF ListIsRight
  <2>2. CASE k = Len(grown)
    <3>1. k > 1 => k - 1 \in 1..Len(list)
      BY <1>5, <2>2
    <3>2. k > 1 => grown[k - 1] \in 1..Len(table)
      BY <1>3, <1>5, <3>1
    <3>3. k > 1 => grown[k - 1] < last
      BY <1>1, <3>2 DEF last
    <3>4. longer[last].borrower = a
      BY <1>1 DEF a
    <3>5. QED
      BY <1>4, <1>5, <2>2, <3>3, <3>4
  <2>3. QED
    BY <1>5, <2>1, <2>2
<1>7. ListIsRight(grown, longer, a)
  BY <1>6 DEF ListIsRight
<1>8. QED
  BY <1>5, <1>7 DEF grown, longer, last, a

LEMMA ListsAsTyped ==
  LendingTypeOK <=>
    /\ LendingTypes
    /\ \A a \in Callers : ListIsRight(borrowerLoans[a], loans, a)
    /\ Len(loans) = SumOver([a \in Callers |-> Len(borrowerLoans[a])], Callers)
  BY DEF LendingTypeOK, ListIsRight

LEMMA CallersAreFinite == IsFiniteSet(Callers)
  BY AccountsAssumption, FS_Subset DEF Callers

LEMMA OriginationKeepsLists ==
  ASSUME LendingTypeOK, NEW borrower \in Callers, NEW asset \in Assets,
         NEW amount \in CollateralAmounts, NEW history \in Seq(Report), now \in Nat,
         OriginateLoan(borrower, asset, amount, history)
  PROVE  LendingTypeOK'
<1> DEFINE loan == NewLoan(borrower, asset, amount, LatestScore(history))
           last == Len(loans) + 1
<1>1. /\ loans' = Append(loans, loan)
      /\ borrowerLoans' = [borrowerLoans EXCEPT ![borrower] = Append(borrowerLoans[borrower], last)]
  BY DEF OriginateLoan
<1>2. loan \in Loan /\ loan.borrower = borrower
  <2>1. amount > 0 /\ Len(history) > 0 /\ LatestScore(history) >= 50
    BY DEF OriginateLoan
  <2>2. loan \in Loan
    BY <2>1, NewLoanIsALoan
  <2>3. QED
    BY <2>2 DEF NewLoan
<1> HIDE DEF loan
<1>3. /\ loans \in Seq(Loan) /\ borrowerLoans \in [Callers -> Seq(1..Len(loans))]
      /\ \A a \in Callers : ListIsRight(borrowerLoans[a], loans, a)
      /\ Len(loans) = SumOver([a \in Callers |-> Len(borrowerLoans[a])], Callers)
  BY ListsAsTyped DEF LendingTypes
<1>4. loans' \in Seq(Loan) /\ Len(loans') = last /\ Len(loans) \in Nat
  <2>1. loans' = Append(loans, loan) /\ loan \in Loan /\ loans \in Seq(Loan)
    BY <1>1, <1>2, <1>3
  <2>2. QED
    BY ONLY <2>1
<1>5. ASSUME NEW a \in Callers
      PROVE  borrowerLoans'[a] \in Seq(1..Len(loans')) /\ ListIsRight(borrowerLoans'[a], loans', a)
  <2> DEFINE list == borrowerLoans[a]
  <2>1. list \in Seq(1..Len(loans)) /\ ListIsRight(list, loans, a)
    BY <1>3
  <2>2. CASE a = borrower
    <3>1. borrowerLoans'[a] = Append(list, last)
      BY <1>1, <1>3, <2>2
    <3> HIDE DEF list
    <3>2. /\ Append(list, Len(loans) + 1) \in Seq(1..Len(Append(loans, loan)))
          /\ ListIsRight(Append(list, Len(loans) + 1), Append(loans, loan), loan.borrower)
      BY <1>2, <1>3, <2>1, <2>2, ListGrows
    <3>3. QED
      BY <1>1, <1>2, <2>2, <3>1, <3>2
  <2>3. CASE a # borrower
    <3>1. borrowerLoans'[a] = list
      BY <1>1, <1>3, <2>3
    <3> HIDE DEF list
    <3>2. list \in Seq(1..Len(Append(loans, loan))) /\ ListIsRight(list, Append(loans, loan), a)
      BY <1>2, <1>3, <2>1, TableGrows
    <3>3. QED
      BY <1>1, <3>1, <3>2
  <2>4. QED
    BY <2>2, <2>3
<1>6. borrowerLoans' \in [Callers -> Seq(1..Len(loans'))]
  <2>1. borrowerLoans' = [a \in Callers |-> borrowerLoans'[a]]
    BY <1>1, <1>3
  <2>2. QED
    BY <1>5, <2>1
<1> DEFINE f == [a \in Callers |-> Len(borrowerLoans[a])]
           g == [a \in Callers |-> Len(borrowerLoans'[a])]
           count == Len(borrowerLoans[borrower]) + 1
<1>7. f \in [Callers -> Int] /\ count \in Int /\ count = f[borrower] + 1 /\ f[borrower] \in Int
  BY <1>3
<1>8. g = [f EXCEPT ![borrower] = count]
  <2>1. \A a \in Callers : Len(borrowerLoans'[a]) = IF a = borrower THEN count ELSE Len(borrowerLoans[a])
    BY <1>1, <1>3
  <2>2. QED
    BY <2>1
<1>9. Len(loans') = SumOver(g, Callers)
  <2>1. Len(loans) = SumOver(f, Callers)
    BY <1>3
  <2> HIDE DEF f, g, count
  <2>2. SumOver([f EXCEPT ![borrower] = count], Callers) = SumOver(f, Callers) + (count - f[borrower])
    BY <1>7, CallersAreFinite, SumOfUpdated
  <2>3. SumOver(g, Callers) = Len(loans) + (count - f[borrower])
    BY <1>8, <2>1, <2>2
  <2>4. QED
    BY <1>4, <1>7, <2>3
<1>10. QED
  BY <1>4, <1>5, <1>6, <1>9 DEF LendingTypeOK, LendingTypes, ListIsRight

LEMMA ListsStep ==
  ASSUME LendingInv, LendingTypeOK, [LendingNext]_allVars
  PROVE  LendingTypeOK'
<1>1. RepositoryInv /\ RepositoryInv'
  BY NextIsLendersRepositoryStep, RepositoryNextInv DEF LendingInv
<1>2. /\ now \in Nat /\ assetReportHistory \in [Assets -> Seq(Report)]
      /\ assetReportHistory' \in [Assets -> Seq(Report)]
  BY <1>1 DEF RepositoryInv, RepositoryTypeOK
<1>3. UNCHANGED lendingVars => LendingTypeOK'
  BY DEF lendingVars, LendingTypeOK, LendingTypes
<1>4. ASSUME NEW borrower \in Callers, NEW asset \in Assets, NEW amount \in CollateralAmounts,
             Borrow(borrower, asset, amount)
      PROVE  LendingTypeOK'
  BY <1>2, <1>4, OriginationKeepsLists DEF Borrow
<1>5. ASSUME NEW borrower \in Callers, NEW m \in Messages, NEW amount \in CollateralAmounts,
             NEW q \in Submissions,
             BorrowWithOracleProof(borrower, m, amount, q.signers, q.recovered)
      PROVE  LendingTypeOK'
  <2>1. /\ OriginateLoan(borrower, m.asset, amount, assetReportHistory'[m.asset])
        /\ Acceptable(m)
    BY <1>5 DEF BorrowWithOracleProof, SaveRiskReportMultiSigned
  <2>2. m.asset \in Assets
    BY <2>1, MessagesAssumption DEF Acceptable
  <2>3. assetReportHistory'[m.asset] \in Seq(Report)
    BY <1>2, <2>2
  <2>4. QED
    BY <1>2, <2>1, <2>2, <2>3, OriginationKeepsLists
<1>6. UNCHANGED allVars => UNCHANGED lendingVars
  BY DEF allVars
<1>7. QED
  BY <1>3, <1>4, <1>5, <1>6 DEF LendingNext

LEMMA DeployedLists == Deployed => LendingTypeOK
<1> SUFFICES ASSUME Deployed PROVE LendingTypeOK
  OBVIOUS
<1>1. loans = <<>> /\ borrowerLoans = [a \in Callers |-> <<>>]
  BY DEF Deployed, LendingInit
<1> DEFINE f == [a \in Callers |-> Len(borrowerLoans[a])]
<1>2. \A a \in Callers : f[a] = 0
  BY <1>1
<1> HIDE DEF f
<1>3. SumOver(f, Callers) = 0
  BY <1>2, CallersAreFinite, SumOfZeros
<1>4. LendingTypes
  BY <1>1 DEF LendingTypes
<1>5. QED
  BY <1>1, <1>3, <1>4 DEF LendingTypeOK, f

(* Every loan was made on its collateral's latest rating and is on the list of its
   borrower and on no other, once, in the order of origination, for any number of
   borrowers, loans and reports. *)
THEOREM LoansAlwaysFollowLatest == LendingSpec => []LoansFollowLatestReport
<1>1. LendingTypeOK /\ LoansAreOnLatest => LoansFollowLatestReport
  BY DEF LoansFollowLatestReport
<1>2. LendingSpec => []LendingTypeOK
  BY DeployedLists, ListsStep, LendingAlwaysInv, PTL DEF LendingSpec
<1>3. QED
  BY <1>1, <1>2, LoansStandOnLatest, PTL
=============================================================================
