--------------------------- MODULE InsurancePool ---------------------------
(***************************************************************************)
(* CreditPulseInsurancePool                                                *)
(* (contracts/contracts/CreditPulseInsurancePool.sol): two tranches of      *)
(* underwriting capital, withdrawals after a cooldown, and payouts to       *)
(* damaged lending pools.                                                  *)
(*                                                                         *)
(* As in CreditPulseASC a call that reverts is a stuttering step, and while *)
(* ether is being sent its receiver "callee" is the only sender and the     *)
(* functions marked nonReentrant revert.  Initial states are those after    *)
(* initialize, which the proxy's initializer modifier lets run once.        *)
(***************************************************************************)
EXTENDS Integers, FiniteSets, Sums

CONSTANTS
  Accounts,            \* providers, resolver, owner and payout recipients
  NoAccount,           \* address(0): nobody
  Resolver,            \* authorizedDisputeResolver, set by initialize for good
  Cooldown,            \* WITHDRAWAL_COOLDOWN, in units of the model's clock
  LossAbsorptionPct,   \* juniorTranche.lossAbsorptionPct (80 in initialize)
  Amounts,             \* amounts deposited, withdrawn, donated
  Deficits,            \* deficits paid out
  MaxBalance,          \* bound: the ether the pool holds
  MaxClaims,           \* bound: the total of the deficits claimed
  MaxTime              \* bound: the last block timestamp

ASSUME PoolAccountsAssumption ==
  NoAccount \notin Accounts /\ Resolver \in Accounts /\ IsFiniteSet(Accounts)
ASSUME CooldownAssumption == Cooldown \in Nat
ASSUME PctAssumption == LossAbsorptionPct \in 0..100
ASSUME PoolAmountsAssumption == Amounts \subseteq Nat /\ Deficits \subseteq Nat
ASSUME PoolBoundsAssumption == MaxBalance \in Nat /\ MaxClaims \in Nat /\ MaxTime \in Nat

Junior == 1
Senior == 2
Tranches == {Junior, Senior}

VARIABLES
  owner,
  paused,
  now,                    \* block.timestamp
  deposits,               \* juniorDeposits and seniorDeposits
  totalDeposited,         \* of juniorTranche and seniorTranche
  totalClaimed,           \* of juniorTranche and seniorTranche
  charged,                \* history variable: total of the deficits claimed
  lastDepositTimestamp,
  balance,                \* address(this).balance
  callee,                 \* the account being called, or NoAccount
  donated,                \* history variable: ether that came in by receive()
  arrivals                \* history variable: when each provider made its deposits

ledgerVars == <<deposits, totalDeposited, lastDepositTimestamp, arrivals>>
poolVars == <<owner, paused, now, ledgerVars, totalClaimed, charged, balance, callee, donated>>

PoolTypes ==
  /\ owner \in Accounts \cup {NoAccount}
  /\ paused \in BOOLEAN
  /\ now \in Nat
  /\ deposits \in [Tranches -> [Accounts -> Nat]]
  /\ totalDeposited \in [Tranches -> Nat]
  /\ totalClaimed \in [Tranches -> Nat]
  /\ charged \in Nat
  /\ lastDepositTimestamp \in [Accounts -> Nat]
  /\ balance \in Nat
  /\ callee \in Accounts \cup {NoAccount}
  /\ donated \in Nat
  /\ arrivals \in [Accounts -> SUBSET Nat]

PoolInit ==
  /\ owner \in Accounts
  /\ paused = FALSE
  /\ now = Cooldown             \* timestamps are far beyond 24 hours
  /\ deposits = [t \in Tranches |-> [a \in Accounts |-> 0]]
  /\ totalDeposited = [t \in Tranches |-> 0]
  /\ totalClaimed = [t \in Tranches |-> 0]
  /\ charged = 0
  /\ lastDepositTimestamp = [a \in Accounts |-> 0]
  /\ balance = 0
  /\ callee = NoAccount
  /\ donated = 0
  /\ arrivals = [a \in Accounts |-> {}]

NotEntered == callee = NoAccount
Senders == IF NotEntered THEN Accounts ELSE {callee}

(* The ether leaves, and its receiver may call back. *)
Pay(account, amount) ==
  /\ balance >= amount
  /\ balance' = balance - amount
  /\ callee' = account

-----------------------------------------------------------------------------
(* A plausible slip: a second tranche's deposit does not restart the cooldown
   of the provider's first. *)
DepositKeepingClock(sender, tranche, amount) ==
  /\ ~paused
  /\ amount > 0
  /\ balance + amount <= MaxBalance
  /\ totalDeposited' = [totalDeposited EXCEPT ![tranche] = @ + amount]
  /\ deposits' = [deposits EXCEPT ![tranche][sender] = @ + amount]
  /\ lastDepositTimestamp' = [lastDepositTimestamp EXCEPT ![sender] =
                                IF @ = 0 THEN now ELSE @]
  /\ balance' = balance + amount
  /\ arrivals' = [arrivals EXCEPT ![sender] = @ \cup {now}]
  /\ UNCHANGED <<owner, paused, now, totalClaimed, charged, callee, donated>>

(* depositToTranche is not nonReentrant: it may run inside a payment. *)
DepositToTranche(sender, tranche, amount) ==
  /\ ~paused
  /\ amount > 0
  /\ balance + amount <= MaxBalance
  /\ totalDeposited' = [totalDeposited EXCEPT ![tranche] = @ + amount]
  /\ deposits' = [deposits EXCEPT ![tranche][sender] = @ + amount]
  /\ lastDepositTimestamp' = [lastDepositTimestamp EXCEPT ![sender] = now]
  /\ balance' = balance + amount
  /\ arrivals' = [arrivals EXCEPT ![sender] = @ \cup {now}]
  /\ UNCHANGED <<owner, paused, now, totalClaimed, charged, callee, donated>>

(* A plausible slip: the tranche's total keeps what its provider withdrew. *)
WithdrawKeepingTotal(sender, tranche, amount) ==
  /\ ~paused
  /\ NotEntered
  /\ amount > 0
  /\ now >= lastDepositTimestamp[sender] + Cooldown
  /\ deposits[tranche][sender] >= amount
  /\ deposits' = [deposits EXCEPT ![tranche][sender] = @ - amount]
  /\ Pay(sender, amount)
  /\ UNCHANGED <<owner, paused, now, totalDeposited, lastDepositTimestamp, arrivals,
                 totalClaimed, charged, donated>>

WithdrawFromTranche(sender, tranche, amount) ==
  /\ ~paused
  /\ NotEntered
  /\ amount > 0
  /\ now >= lastDepositTimestamp[sender] + Cooldown
  /\ deposits[tranche][sender] >= amount
  /\ totalDeposited[tranche] >= amount
  /\ deposits' = [deposits EXCEPT ![tranche][sender] = @ - amount]
  /\ totalDeposited' = [totalDeposited EXCEPT ![tranche] = @ - amount]
  /\ Pay(sender, amount)
  /\ UNCHANGED <<owner, paused, now, lastDepositTimestamp, arrivals, totalClaimed, charged, donated>>

-----------------------------------------------------------------------------
(* How a payout is split, what the pool holds permitting. *)
FullJuniorShare(deficit) == (deficit * LossAbsorptionPct) \div 100

SmallerOf(x, y) == IF x <= y THEN x ELSE y

(* A plausible slip: a capped payout is split by the percentages again. *)
JuniorShareProRata(deficit) == FullJuniorShare(SmallerOf(deficit, balance))

JuniorShare(deficit) == SmallerOf(FullJuniorShare(deficit), balance)

SeniorShare(deficit) ==
  SmallerOf(deficit - FullJuniorShare(deficit), balance - JuniorShare(deficit))

(* executeDeficitPayout records the claims of the tranches; the providers'
   deposits stay as they were.  A payout of nothing makes no call. *)
ExecuteDeficitPayout(sender, recipient, deficit) ==
  /\ ~paused
  /\ NotEntered
  /\ sender = Resolver \/ sender = owner
  /\ deficit > 0
  /\ charged + deficit <= MaxClaims
  /\ charged' = charged + deficit
  /\ totalClaimed' = [totalClaimed EXCEPT ![Junior] = @ + JuniorShare(deficit),
                                          ![Senior] = @ + SeniorShare(deficit)]
  /\ LET payout == JuniorShare(deficit) + SeniorShare(deficit)
     IN  IF payout > 0 THEN Pay(recipient, payout) ELSE UNCHANGED <<balance, callee>>
  /\ UNCHANGED <<owner, paused, now, ledgerVars, donated>>

(* receive(): plain ether is taken from anyone, at any time. *)
Receive(amount) ==
  /\ amount > 0
  /\ balance + amount <= MaxBalance
  /\ balance' = balance + amount
  /\ donated' = donated + amount
  /\ UNCHANGED <<owner, paused, now, ledgerVars, totalClaimed, charged, callee>>

SetPaused(sender, value) ==
  /\ sender = owner
  /\ paused # value
  /\ paused' = value
  /\ UNCHANGED <<owner, now, ledgerVars, totalClaimed, charged, balance, callee, donated>>

(* transferOwnership and renounceOwnership of OwnableUpgradeable. *)
SetOwner(sender, newOwner) ==
  /\ sender = owner
  /\ owner' = newOwner
  /\ UNCHANGED <<paused, now, ledgerVars, totalClaimed, charged, balance, callee, donated>>

PoolCallReturns ==
  /\ ~NotEntered
  /\ callee' = NoAccount
  /\ UNCHANGED <<owner, paused, now, ledgerVars, totalClaimed, charged, balance, donated>>

PoolNextBlock ==
  /\ NotEntered
  /\ now < MaxTime
  /\ now' = now + 1
  /\ UNCHANGED <<owner, paused, ledgerVars, totalClaimed, charged, balance, callee, donated>>

PoolNext ==
  \/ \E sender \in Senders, tranche \in Tranches, amount \in Amounts :
       DepositToTranche(sender, tranche, amount)
  \/ \E sender \in Senders, tranche \in Tranches, amount \in Amounts :
       WithdrawFromTranche(sender, tranche, amount)
  \/ \E sender \in Senders, recipient \in Accounts, deficit \in Deficits :
       ExecuteDeficitPayout(sender, recipient, deficit)
  \/ \E amount \in Amounts : Receive(amount)
  \/ \E sender \in Senders, value \in BOOLEAN : SetPaused(sender, value)
  \/ \E sender \in Senders, newOwner \in Accounts \cup {NoAccount} :
       SetOwner(sender, newOwner)
  \/ PoolCallReturns
  \/ PoolNextBlock

PoolSpec == PoolInit /\ [][PoolNext]_poolVars

-----------------------------------------------------------------------------
TotalClaims == totalClaimed[Junior] + totalClaimed[Senior]

EtherMatchesTotals ==
  balance + TotalClaims = totalDeposited[Junior] + totalDeposited[Senior] + donated

(* The two ledgers of a tranche agree with each other and with the ether: a
   tranche's total is what its providers deposited, and the pool holds the
   deposits and donations less the claims paid - also in the middle of a
   payment whose receiver deposits again. *)
PoolBalances ==
  /\ PoolTypes
  /\ \A t \in Tranches :
       totalDeposited[t] = SumOver(deposits[t], Accounts)
  /\ EtherMatchesTotals

PayoutFollowsTranches ==
  LET deficit == charged' - charged
      junior == totalClaimed'[Junior] - totalClaimed[Junior]
      senior == totalClaimed'[Senior] - totalClaimed[Senior]
  IN  IF deficit = 0
        THEN totalClaimed' = totalClaimed
        ELSE /\ junior >= 0 /\ senior >= 0
             /\ junior + senior = SmallerOf(deficit, balance)
             /\ balance' = balance - (junior + senior)
             /\ 100 * junior <= LossAbsorptionPct * deficit
             /\ senior > 0 => 100 * junior > LossAbsorptionPct * deficit - 100

(* A claim is paid in full or as far as the ether goes, the junior tranche never
   bears more than its percentage of this very deficit, and the senior tranche
   is not reached before that percentage, rounded down, is paid in full:
   executeDeficitPayout splits the deficit before it looks at the balance, and a
   short pool must cut the senior share first.  Nothing but a claim charges the
   tranches. *)
JuniorPaysFirst == [][PayoutFollowsTranches]_poolVars

CapitalIsSeasoned ==
  \A a \in Accounts :
    (\E t \in Tranches : deposits'[t][a] < deposits[t][a]) =>
      /\ \A moment \in arrivals[a] : now >= moment + Cooldown
      /\ callee = NoAccount /\ callee' = a

(* No flash capital (CreditPulseInsurancePool.sol:58): when capital leaves, none
   of what its provider ever put into either tranche is younger than the
   cooldown, and it goes to that provider in a transaction of its own - so no
   interleaving of deposits to the two tranches, re-entrant ones included,
   brings capital in and out again at once. *)
NoFlashCapital == [][CapitalIsSeasoned]_poolVars

AbsorbedStaysAbsorbed ==
  totalDeposited'[Junior] < totalDeposited[Junior] =>
    totalDeposited'[Junior] >= totalClaimed'[Junior]

(* WHITEPAPER.md:150 says of a loss event that "junior capital absorbs first":
   what the junior tranche absorbed cannot be withdrawn afterwards, or it is
   the senior capital that pays.  (While the junior tranche keeps at least what
   it was charged, the pool holds all senior deposits less the senior losses.) *)
JuniorBearsItsLosses == [][AbsorbedStaysAbsorbed]_poolVars
=============================================================================
