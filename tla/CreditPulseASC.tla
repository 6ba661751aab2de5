--------------------------- MODULE CreditPulseASC ---------------------------
(***************************************************************************)
(* The whole CreditPulseASC contract                                       *)
(* (contracts/contracts/CreditPulseScore.sol): sections 2 and 3, the        *)
(* oracles' stakes, slashing, the optimistic dispute window and the         *)
(* insurance pool, composed with OracleRegistry and RiskReports.            *)
(*                                                                         *)
(* Three functions send ether with a call, and the account called may call  *)
(* the contract back before it returns.  "callee" is that account while the *)
(* call is running: the callee is then the only sender, functions marked    *)
(* nonReentrant revert, and no block is mined.  A call that fails reverts   *)
(* the whole transaction and is a stuttering step like any other revert, so *)
(* only calls that succeed are modelled.  Subtraction is checked            *)
(* (Solidity 0.8) and a call needs the balance it sends: both are guards.   *)
(***************************************************************************)
EXTENDS RiskReports

CONSTANTS
  DisputePeriod,    \* DISPUTE_PERIOD, in units of the model's clock
  ChallengerBond,   \* challengerBond
  MinOracleStake,   \* minOracleStake
  StakeAmounts,     \* amounts callers stake, unstake and slash
  BondAmounts,      \* amounts sent with a challenge
  MaxBalance        \* bound: the ether the contract holds

ASSUME DisputePeriodAssumption == DisputePeriod \in Nat \ {0}
ASSUME BondAssumption == ChallengerBond \in Nat \ {0}
ASSUME MinStakeAssumption == MinOracleStake \in Nat
ASSUME AmountsAssumption == StakeAmounts \subseteq Nat /\ BondAmounts \subseteq Nat
ASSUME MaxBalanceAssumption == MaxBalance \in Nat

VARIABLES
  oracleStake,
  totalOracleStake,
  reportDisputes,       \* [Assets \X index -> Dispute], all defaults at first
  totalInsurancePool,
  balance,              \* address(this).balance
  callee                \* the account being called, or ZeroAddress

treasuryVars == <<oracleStake, totalOracleStake, reportDisputes, totalInsurancePool,
                  balance, callee>>
vars == <<registryVars, repositoryVars, treasuryVars>>

Dispute == [challenger : Accounts \cup {ZeroAddress}, bondAmount : Nat,
            active : BOOLEAN, resolved : BOOLEAN, challengerWon : BOOLEAN]

NoDispute == [challenger |-> ZeroAddress, bondAmount |-> 0,
              active |-> FALSE, resolved |-> FALSE, challengerWon |-> FALSE]

TreasuryTypeOK ==
  /\ oracleStake \in [Accounts -> Nat]
  /\ totalOracleStake \in Nat
  /\ reportDisputes \in [Slots -> Dispute]
  /\ totalInsurancePool \in Nat
  /\ balance \in Nat
  /\ callee \in Accounts \cup {ZeroAddress}

TreasuryInit ==
  /\ oracleStake = [a \in Accounts |-> 0]
  /\ totalOracleStake = 0
  /\ reportDisputes = [d \in Slots |-> NoDispute]
  /\ totalInsurancePool = 0
  /\ balance = 0
  /\ callee = ZeroAddress

(* nonReentrant: the function is entered only when no call is running. *)
NotEntered == callee = ZeroAddress

(* Who can be msg.sender now. *)
Senders == IF NotEntered THEN Accounts ELSE {callee}

-----------------------------------------------------------------------------
(* Section 2: staking and slashing. *)

(* The ether leaves, and its receiver may call back. *)
Pay(account, amount) ==
  /\ balance >= amount
  /\ balance' = balance - amount
  /\ callee' = account

StakeOracle(sender, amount) ==
  /\ ~paused
  /\ amount > 0
  /\ sender \in isAuthorizedOracle \/ sender = owner
  /\ balance + amount <= MaxBalance
  /\ oracleStake' = [oracleStake EXCEPT ![sender] = @ + amount]
  /\ totalOracleStake' = totalOracleStake + amount
  /\ balance' = balance + amount
  /\ UNCHANGED <<reportDisputes, totalInsurancePool, callee>>

UnstakeOracle(sender, amount) ==
  /\ NotEntered
  /\ amount > 0
  /\ oracleStake[sender] >= amount
  /\ sender \in isAuthorizedOracle =>
       LET remaining == oracleStake[sender] - amount
       IN  remaining = 0 \/ remaining >= MinOracleStake
  /\ totalOracleStake >= amount
  /\ oracleStake' = [oracleStake EXCEPT ![sender] = @ - amount]
  /\ totalOracleStake' = totalOracleStake - amount
  /\ Pay(sender, amount)
  /\ UNCHANGED <<reportDisputes, totalInsurancePool>>

SlashOracle(sender, oracle, recipient, amount) ==
  /\ sender = owner
  /\ NotEntered
  /\ amount > 0
  /\ oracleStake[oracle] >= amount
  /\ totalOracleStake >= amount
  /\ oracleStake' = [oracleStake EXCEPT ![oracle] = @ - amount]
  /\ totalOracleStake' = totalOracleStake - amount
  /\ Pay(recipient, amount)
  /\ UNCHANGED <<reportDisputes, totalInsurancePool>>

-----------------------------------------------------------------------------
(* Section 3: the dispute window. *)

(* A plausible slip at the boundary: the window seen one tick longer by a
   challenge than by isReportFinalized. *)
WindowOpenTooLong(d) == now <= ReportOf(d).timestamp + DisputePeriod + 1

InDisputeWindow(d) == now <= ReportOf(d).timestamp + DisputePeriod

(* isReportFinalized *)
IsReportFinalized(d) ==
  /\ Exists(d)
  /\ now > ReportOf(d).timestamp + DisputePeriod
  /\ ~reportDisputes[d].active

(* A plausible slip: the check that no dispute is active is missing. *)
ChallengeOverActive(sender, d, bond) ==
  /\ ~paused
  /\ Exists(d)
  /\ bond >= ChallengerBond
  /\ InDisputeWindow(d)
  /\ balance + bond <= MaxBalance
  /\ reportDisputes' =
       [reportDisputes EXCEPT ![d] = [challenger |-> sender, bondAmount |-> bond,
          active |-> TRUE, resolved |-> FALSE, challengerWon |-> FALSE]]
  /\ balance' = balance + bond
  /\ UNCHANGED <<oracleStake, totalOracleStake, totalInsurancePool, callee>>

(* challengeReport is not nonReentrant; a report whose dispute was resolved may
   be challenged again while its window is open, over the old Dispute. *)
ChallengeReport(sender, d, bond) ==
  /\ ~paused
  /\ Exists(d)
  /\ bond >= ChallengerBond
  /\ InDisputeWindow(d)
  /\ ~reportDisputes[d].active
  /\ balance + bond <= MaxBalance
  /\ reportDisputes' =
       [reportDisputes EXCEPT ![d] = [challenger |-> sender, bondAmount |-> bond,
          active |-> TRUE, resolved |-> FALSE, challengerWon |-> FALSE]]
  /\ balance' = balance + bond
  /\ UNCHANGED <<oracleStake, totalOracleStake, totalInsurancePool, callee>>

(* A plausible slip: the slash is not capped by what the oracle has staked. *)
SlashUncapped(oracle) == IF oracle = ZeroAddress THEN 0 ELSE ChallengerBond

(* What an upheld challenge takes from the oracle it names. *)
SlashOf(oracle) ==
  IF oracle = ZeroAddress THEN 0
  ELSE IF oracleStake[oracle] >= ChallengerBond THEN ChallengerBond
  ELSE oracleStake[oracle]

(* A plausible slip: the rounding remainder of the slash is not booked. *)
ShareLosingRemainder(slash) == slash \div 2

InsuranceShare(slash) == slash - slash \div 2

(* A plausible slip: the dispute is marked resolved and stays active. *)
SettleLeavingActive(d, upheld) ==
  reportDisputes' = [reportDisputes EXCEPT ![d].resolved = TRUE, ![d].challengerWon = upheld]

Settle(d, upheld) ==
  reportDisputes' = [reportDisputes EXCEPT ![d].resolved = TRUE, ![d].active = FALSE,
                                           ![d].challengerWon = upheld]

(* resolveDispute with _upholdChallenge: the named oracle is slashed, the
   challenger gets the bond and half the slash, the pool the rest. *)
UpholdChallenge(sender, d, oracle) ==
  /\ sender = owner
  /\ NotEntered
  /\ reportDisputes[d].active /\ ~reportDisputes[d].resolved
  /\ Settle(d, TRUE)
  /\ LET slash == SlashOf(oracle)
     IN  /\ totalOracleStake >= slash
         /\ oracleStake' = IF oracle = ZeroAddress THEN oracleStake
                           ELSE [oracleStake EXCEPT ![oracle] = @ - slash]
         /\ totalOracleStake' = totalOracleStake - slash
         /\ totalInsurancePool' = totalInsurancePool + InsuranceShare(slash)
         /\ Pay(reportDisputes[d].challenger, reportDisputes[d].bondAmount + slash \div 2)

(* resolveDispute without: the bond goes to the insurance pool, no call. *)
RejectChallenge(sender, d) ==
  /\ sender = owner
  /\ NotEntered
  /\ reportDisputes[d].active /\ ~reportDisputes[d].resolved
  /\ Settle(d, FALSE)
  /\ totalInsurancePool' = totalInsurancePool + reportDisputes[d].bondAmount
  /\ UNCHANGED <<oracleStake, totalOracleStake, balance, callee>>

(* The external call returns, and with it the transaction ends. *)
CallReturns ==
  /\ ~NotEntered
  /\ callee' = ZeroAddress
  /\ UNCHANGED <<oracleStake, totalOracleStake, reportDisputes, totalInsurancePool, balance>>

-----------------------------------------------------------------------------
TreasuryStep(sender) ==
  \/ \E amount \in StakeAmounts : StakeOracle(sender, amount)
  \/ \E amount \in StakeAmounts : UnstakeOracle(sender, amount)
  \/ \E oracle, recipient \in Accounts, amount \in StakeAmounts :
       SlashOracle(sender, oracle, recipient, amount)
  \/ \E d \in Slots, bond \in BondAmounts : ChallengeReport(sender, d, bond)
  \/ \E d \in Slots, oracle \in Accounts \cup {ZeroAddress} :
       UpholdChallenge(sender, d, oracle)
  \/ \E d \in Slots : RejectChallenge(sender, d)

Init == RegistryInit /\ RepositoryInit /\ TreasuryInit

Next ==
  \/ \E sender \in Senders :
       RegistryStep(sender) /\ UNCHANGED <<repositoryVars, treasuryVars>>
  \/ \E sender \in Senders :
       UnguardedSave(sender) /\ UNCHANGED <<registryVars, treasuryVars>>
  \/ \E sender \in Senders :
       NotEntered /\ GuardedSave(sender) /\ UNCHANGED <<registryVars, treasuryVars>>
  \/ \E sender \in Senders :
       TreasuryStep(sender) /\ UNCHANGED <<registryVars, repositoryVars>>
  \/ NotEntered /\ NextBlock /\ UNCHANGED <<registryVars, treasuryVars>>
  \/ CallReturns /\ UNCHANGED <<registryVars, repositoryVars>>

Spec == Init /\ [][Next]_vars

-----------------------------------------------------------------------------
TypeOK == RegistryTypeOK /\ RepositoryTypeOK /\ TreasuryTypeOK

ActiveBonds ==
  SumOver([d \in Slots |-> IF reportDisputes[d].active THEN reportDisputes[d].bondAmount ELSE 0],
          Slots)

(* The ether the contract holds is exactly what it owes: the stakes, the bonds
   of the disputes still open and the insurance pool - at every moment, the
   middle of an external call included.  So a stake can always be withdrawn and
   a bond always repaid, whatever was slashed or resolved in between. *)
EtherIsAccountedFor ==
  /\ balance = totalOracleStake + ActiveBonds + totalInsurancePool
  /\ totalOracleStake = SumOver(oracleStake, Accounts)

(* A dispute record is consistent with the report it disputes: only reports that
   exist have one, an open dispute has a challenger and a full bond and no
   verdict, a closed one had its verdict, and a challenger wins only by one. *)
DisputesAreSound ==
  \A d \in Slots :
    LET r == reportDisputes[d]
    IN  \/ r = NoDispute
        \/ /\ Exists(d)
           /\ r.challenger \in Accounts
           /\ r.bondAmount >= ChallengerBond
           /\ r.active # r.resolved
           /\ r.challengerWon => r.resolved

FinalStays ==
  \A d \in Slots :
    IsReportFinalized(d) =>
      /\ IsReportFinalized(d)'
      /\ reportDisputes'[d] = reportDisputes[d]
      /\ ReportOf(d)' = ReportOf(d)

(* Once isReportFinalized answers true for a report it answers true for ever,
   and the report and the verdict on it can no longer change: a consumer may
   act on a finalized report (off-by-one between the two window tests, late
   challenge, re-entrant challenge from a bounty transfer). *)
FinalityIsStable == [][FinalStays]_vars

BondSettled(d) ==
  /\ reportDisputes'[d].resolved
  /\ reportDisputes'[d].bondAmount = reportDisputes[d].bondAmount
  /\ IF reportDisputes'[d].challengerWon
       THEN /\ callee' = reportDisputes[d].challenger
            /\ balance' <= balance - reportDisputes[d].bondAmount
       ELSE totalInsurancePool' = totalInsurancePool + reportDisputes[d].bondAmount

BondsStandOrSettle ==
  \A d \in Slots :
    reportDisputes[d].active =>
      reportDisputes'[d] = reportDisputes[d] \/ BondSettled(d)

(* An open dispute ends only by its resolution, which settles its bond once and
   whole: a winner is paid at least the bond out of the contract, a loser's bond
   is in the insurance pool.  Until then nobody can replace it. *)
BondIsSettledOnce == [][BondsStandOrSettle]_vars

NothingEnters ==
  /\ balance' <= balance
  /\ \A d \in Slots : reportDisputes'[d].active => reportDisputes[d].active
  /\ UNCHANGED certificateVars
  /\ \A a \in Assets : \A k \in Added(a) : assetReportHistory'[a][k].crossChainVerified

(* While the contract is paused nothing new enters it: no ether, no dispute, no
   certificate, and no report but one proved across chains - also when the owner
   pauses between a caller's payment and its re-entrant calls. *)
PausedIntake == [][paused => NothingEnters]_vars

(* The contract implements the abstract life of a report: what isReportFinalized
   and the Dispute records show of a slot only ever takes the steps of
   OptimisticFinality. *)
StatusOf(d) ==
  IF ~Exists(d) THEN "none"
  ELSE IF reportDisputes[d].active THEN "disputed"
  ELSE IF IsReportFinalized(d) THEN "final"
  ELSE "open"

Life == INSTANCE OptimisticFinality WITH
          status <- [d \in Slots |-> StatusOf(d)],
          overturned <- [d \in Slots |-> reportDisputes[d].challengerWon]

ImplementsOptimisticFinality == Life!LifeSpec
=============================================================================
