---------------------------- MODULE LendingPool ----------------------------
(***************************************************************************)
(* A consumer of the reports: CreditPulseLendingPool                        *)
(* (contracts/contracts/examples/CreditPulseLendingPool.sol) composed with  *)
(* the CreditPulseASC repository it reads and, in borrowWithOracleProof,    *)
(* writes.  A transaction that reverts in the lending pool takes the report *)
(* it saved in the oracle contract back with it.                            *)
(***************************************************************************)
EXTENDS RiskReports

CONSTANTS
  Lender,             \* the address of the lending pool contract
  CollateralAmounts,  \* collateral amounts borrowers name
  MaxLoans            \* bound: loans originated

ASSUME LenderAssumption == Lender \in Accounts /\ Lender # Deployer
ASSUME CollateralAssumption == CollateralAmounts \subseteq Nat
ASSUME MaxLoansAssumption == MaxLoans \in Nat

VARIABLES
  loans,              \* mapping(uint256 => Loan), 1..loanCount
  borrowerLoans

lendingVars == <<loans, borrowerLoans>>
allVars == <<registryVars, repositoryVars, lendingVars>>

(* The accounts that call on their own: the lending pool does only what its
   functions do. *)
Callers == Accounts \ {Lender}

Loan == [borrower : Callers, collateralAsset : Assets, collateralAmount : Nat \ {0},
         borrowedAmount : Nat, interestRateBps : 450..1400, creditScoreAtBorrow : 50..MaxScore,
         borrowTimestamp : Nat]

LendingTypes ==
  /\ loans \in Seq(Loan)
  /\ borrowerLoans \in [Callers -> Seq(1..Len(loans))]

LendingInit ==
  /\ loans = <<>>
  /\ borrowerLoans = [a \in Callers |-> <<>>]

-----------------------------------------------------------------------------
(* A plausible slip: the values of two tiers changed places. *)
LtvTiersSwapped(score) ==
  IF score >= 85 THEN 9000 ELSE IF score >= 75 THEN 6500 ELSE IF score >= 60 THEN 8000 ELSE 5000

(* calculateLoanTerms, for a score it does not turn away. *)
LtvBps(score) ==
  IF score >= 85 THEN 9000 ELSE IF score >= 75 THEN 8000 ELSE IF score >= 60 THEN 6500 ELSE 5000

InterestRateBps(score) ==
  IF score >= 85 THEN 450 ELSE IF score >= 75 THEN 650 ELSE IF score >= 60 THEN 950 ELSE 1400

(* The SDK's calculateLoanTerms: what an integrator is told a rating buys, the
   yearly rate in tenths of a percent. *)
SdkLoanTerms(score) ==
  CASE score >= 85      -> [ltvPercent |-> 90, aprTenths |-> 45, isEligible |-> TRUE]
    [] score \in 75..84 -> [ltvPercent |-> 80, aprTenths |-> 65, isEligible |-> TRUE]
    [] score \in 60..74 -> [ltvPercent |-> 65, aprTenths |-> 95, isEligible |-> TRUE]
    [] score \in 50..59 -> [ltvPercent |-> 50, aprTenths |-> 140, isEligible |-> TRUE]
    [] score < 50       -> [ltvPercent |-> 0, aprTenths |-> 0, isEligible |-> FALSE]

(* A plausible slip: the first report is read for the last. *)
FirstScore(history) == history[1].score

(* getRiskReport: it reverts without a report. *)
LatestScore(history) == history[Len(history)].score

NewLoan(borrower, asset, amount, score) ==
  [borrower |-> borrower, collateralAsset |-> asset, collateralAmount |-> amount,
   borrowedAmount |-> (amount * LtvBps(score)) \div 10000,
   interestRateBps |-> InterestRateBps(score), creditScoreAtBorrow |-> score,
   borrowTimestamp |-> now]

(* _originateLoan: history is the asset's report history when it reads it. *)
OriginateLoan(borrower, asset, amount, history) ==
  /\ amount > 0
  /\ Len(history) > 0 /\ LatestScore(history) >= 50
  /\ Len(loans) < MaxLoans
  /\ loans' = Append(loans, NewLoan(borrower, asset, amount, LatestScore(history)))
  /\ borrowerLoans' = [borrowerLoans EXCEPT ![borrower] = Append(@, Len(loans) + 1)]

Borrow(borrower, asset, amount) ==
  /\ OriginateLoan(borrower, asset, amount, assetReportHistory[asset])
  /\ UNCHANGED <<registryVars, repositoryVars>>

(* A plausible slip: the rating is read before the proof is delivered. *)
BorrowThenDeliver(borrower, m, amount, signers, recovered) ==
  /\ SaveRiskReportMultiSigned(Lender, m, signers, recovered)
  /\ OriginateLoan(borrower, m.asset, amount, assetReportHistory[m.asset])
  /\ UNCHANGED registryVars

(* The oracle contract sees the lending pool as its caller. *)
BorrowWithOracleProof(borrower, m, amount, signers, recovered) ==
  /\ SaveRiskReportMultiSigned(Lender, m, signers, recovered)
  /\ OriginateLoan(borrower, m.asset, amount, assetReportHistory'[m.asset])
  /\ UNCHANGED registryVars

-----------------------------------------------------------------------------
LendingNext ==
  \/ \E sender \in Callers : RegistryStep(sender) /\ UNCHANGED <<repositoryVars, lendingVars>>
  \/ \E sender \in Callers : RepositoryStep(sender) /\ UNCHANGED <<registryVars, lendingVars>>
  \/ NextBlock /\ UNCHANGED <<registryVars, lendingVars>>
  \/ \E borrower \in Callers, asset \in Assets, amount \in CollateralAmounts :
       Borrow(borrower, asset, amount)
  \/ \E borrower \in Callers, m \in Messages, amount \in CollateralAmounts, q \in Submissions :
       BorrowWithOracleProof(borrower, m, amount, q.signers, q.recovered)

(* The two contracts just deployed. *)
Deployed == RepositoryFirst /\ LendingInit

LendingSpec == Deployed /\ [][LendingNext]_allVars

-----------------------------------------------------------------------------
(* Types, and the borrowers' lists and the loan table agree: every loan is listed once, in
   the order of origination, and only under its borrower. *)
LendingTypeOK ==
  /\ LendingTypes
  /\ \A a \in Callers : \A k \in 1..Len(borrowerLoans[a]) :
       /\ borrowerLoans[a][k] \in 1..Len(loans)
       /\ loans[borrowerLoans[a][k]].borrower = a
       /\ k > 1 => borrowerLoans[a][k - 1] < borrowerLoans[a][k]
  /\ Len(loans) = SumOver([a \in Callers |-> Len(borrowerLoans[a])], Callers)

(* Some report of the asset carries the loan's score, was there when the loan was
   made, and its successor was not. *)
LoansAreOnLatest ==
  \A id \in 1..Len(loans) :
    LET l == loans[id]
        h == assetReportHistory[l.collateralAsset]
    IN  \E k \in 1..Len(h) :
          /\ h[k].score = l.creditScoreAtBorrow
          /\ h[k].timestamp <= l.borrowTimestamp
          /\ k < Len(h) => h[k + 1].timestamp >= l.borrowTimestamp

(* Each loan was made on the rating that was the asset's latest at that time,
   however deliveries and borrowers interleave, and it is on the list of its
   borrower. *)
LoansFollowLatestReport == LendingTypeOK /\ LoansAreOnLatest

(* Every loan has the terms an integrator was quoted: what the TypeScript SDK
   computes from the rating the loan was made on is what the contract lent, at
   the rate it charges, and no loan was made on a rating the SDK turns away -
   whichever of the two ways in the loan came. *)
LoansMatchTheQuote ==
  \A id \in 1..Len(loans) :
    LET l == loans[id]
        quote == SdkLoanTerms(l.creditScoreAtBorrow)
    IN  /\ quote.isEligible
        /\ l.borrowedAmount = (l.collateralAmount * quote.ltvPercent) \div 100
        /\ l.interestRateBps = 10 * quote.aprTenths

PullIsAtomic ==
  \A a \in Assets : \A k \in Added(a) :
    assetReportHistory'[a][k].verifiedBy = Lender =>
      /\ Len(loans') = Len(loans) + 1
      /\ loans'[Len(loans')].collateralAsset = a
      /\ loans'[Len(loans')].creditScoreAtBorrow = assetReportHistory'[a][k].score

(* A report the lending pool delivers and the loan it is delivered for stand or
   fall together: a proof of a rating too low to borrow on leaves no report
   behind, and the loan is priced by the delivered report, not by an older one. *)
PullOracleIsAtomic == [][PullIsAtomic]_allVars
=============================================================================
