------------------------ MODULE InsurancePool_proofs ------------------------
(***************************************************************************)
(* The insurance pool for any accounts, amounts, percentage and cooldown:  *)
(* the ether it holds matches the totals of its tranches and its claims,   *)
(* no capital leaves before all its provider ever put in is seasoned, and  *)
(* a payout charges the senior tranche only after the junior.              *)
(*                                                                         *)
(* The cooldown is kept in one number per provider.  What makes it stand   *)
(* for all the deposits is that it never lies before any of them.          *)
(***************************************************************************)
EXTENDS InsurancePool, Sums_proofs

ClocksAreLatest ==
  \A a \in Accounts :
    /\ lastDepositTimestamp[a] <= now
    /\ \A moment \in arrivals[a] : moment <= lastDepositTimestamp[a]

PoolInv == PoolTypes /\ EtherMatchesTotals /\ ClocksAreLatest

-----------------------------------------------------------------------------
(* The shares of a payout. *)

LEMMA FullShareIsBounded ==
  ASSUME NEW deficit \in Nat
  PROVE  FullJuniorShare(deficit) \in Nat /\ FullJuniorShare(deficit) <= deficit
<1> DEFINE product == deficit * LossAbsorptionPct
<1>1. LossAbsorptionPct \in Nat /\ LossAbsorptionPct <= 100
  BY PctAssumption
<1>2. product \in Nat /\ product <= 100 * deficit
  <2>1. deficit * LossAbsorptionPct \in Nat
    BY <1>1
  <2>2. deficit * (100 - LossAbsorptionPct) \in Nat
    BY <1>1
  <2>3. deficit * (100 - LossAbsorptionPct) = 100 * deficit - deficit * LossAbsorptionPct
    BY <1>1
  <2>4. QED
    BY <2>1, <2>2, <2>3
<1> HIDE DEF product
<1>3. product \div 100 \in Nat /\ product \div 100 <= deficit
  BY <1>2
<1>4. QED
  BY <1>3 DEF FullJuniorShare, product

LEMMA SharesAreBounded ==
  ASSUME balance \in Nat, NEW deficit \in Nat
  PROVE  /\ JuniorShare(deficit) \in Nat /\ SeniorShare(deficit) \in Nat
         /\ JuniorShare(deficit) + SeniorShare(deficit) <= balance
         /\ JuniorShare(deficit) + SeniorShare(deficit) = SmallerOf(deficit, balance)
         /\ JuniorShare(deficit) <= FullJuniorShare(deficit)
         /\ SeniorShare(deficit) > 0 => JuniorShare(deficit) = FullJuniorShare(deficit)
  BY FullShareIsBounded DEF JuniorShare, SeniorShare, SmallerOf

(* The full junior share is the percentage of the deficit, rounded down. *)
LEMMA FullShareIsRounded ==
  ASSUME NEW deficit \in Nat
  PROVE  /\ LossAbsorptionPct * deficit \in Nat
         /\ 100 * FullJuniorShare(deficit) <= LossAbsorptionPct * deficit
         /\ 100 * FullJuniorShare(deficit) > LossAbsorptionPct * deficit - 100
<1> DEFINE product == deficit * LossAbsorptionPct
<1>1. LossAbsorptionPct \in Nat
  BY PctAssumption
<1>2. product \in Nat /\ LossAbsorptionPct * deficit = product
  BY <1>1
<1> HIDE DEF product
<1>3. 100 * (product \div 100) <= product /\ 100 * (product \div 100) > product - 100
  BY <1>2
<1>4. FullJuniorShare(deficit) = product \div 100
  BY DEF FullJuniorShare, product
<1>5. QED
  BY <1>2, <1>3, <1>4

(* What executeDeficitPayout does to the claims and the ether. *)
LEMMA PayoutEffect ==
  ASSUME PoolTypes, NEW sender \in Accounts, NEW recipient \in Accounts,
         NEW deficit \in Deficits, ExecuteDeficitPayout(sender, recipient, deficit)
  PROVE  /\ totalClaimed' \in [Tranches -> Nat]
         /\ totalClaimed'[Junior] = totalClaimed[Junior] + JuniorShare(deficit)
         /\ totalClaimed'[Senior] = totalClaimed[Senior] + SeniorShare(deficit)
         /\ balance' = balance - (JuniorShare(deficit) + SeniorShare(deficit))
         /\ callee' \in Accounts \cup {NoAccount}
         /\ charged' = charged + deficit
<1>1. deficit \in Nat /\ balance \in Nat
  BY PoolAmountsAssumption DEF PoolTypes
<1>2. /\ JuniorShare(deficit) \in Nat /\ SeniorShare(deficit) \in Nat
      /\ JuniorShare(deficit) + SeniorShare(deficit) <= balance
  BY <1>1, SharesAreBounded
<1> DEFINE junior == JuniorShare(deficit)
           senior == SeniorShare(deficit)
<1> HIDE DEF junior, senior
<1>3. totalClaimed' = [totalClaimed EXCEPT ![Junior] = @ + junior, ![Senior] = @ + senior]
  BY DEF ExecuteDeficitPayout, junior, senior
<1>4. junior \in Nat /\ senior \in Nat
  BY <1>2 DEF junior, senior
<1>5. totalClaimed \in [Tranches -> Nat]
  BY DEF PoolTypes
<1>6. /\ totalClaimed' \in [Tranches -> Nat]
      /\ totalClaimed'[Junior] = totalClaimed[Junior] + junior
      /\ totalClaimed'[Senior] = totalClaimed[Senior] + senior
  BY <1>3, <1>4, <1>5 DEF Tranches, Junior, Senior
<1>7. /\ balance' = balance - (junior + senior)
      /\ callee' \in Accounts \cup {NoAccount}
  <2>1. CASE junior + senior > 0
    BY <2>1 DEF ExecuteDeficitPayout, Pay, junior, senior
  <2>2. CASE ~(junior + senior > 0)
    <3>1. UNCHANGED <<balance, callee>>
      BY <2>2 DEF ExecuteDeficitPayout, junior, senior
    <3>2. junior + senior = 0 /\ callee \in Accounts \cup {NoAccount}
      BY <2>2, <1>4 DEF PoolTypes
    <3>3. QED
      BY <1>1, <3>1, <3>2
  <2>3. QED
    BY <2>1, <2>2
<1>8. QED
  BY <1>6, <1>7 DEF junior, senior, ExecuteDeficitPayout

-----------------------------------------------------------------------------
(* The invariant, action by action. *)

LEMMA InitEstablishes == PoolInit => PoolInv
<1> SUFFICES ASSUME PoolInit PROVE PoolInv
  OBVIOUS
<1>1. PoolTypes
  BY CooldownAssumption DEF PoolInit, PoolTypes, Tranches
<1>2. EtherMatchesTotals
  BY DEF PoolInit, EtherMatchesTotals, TotalClaims, Tranches, Junior, Senior
<1>3. ClocksAreLatest
  BY CooldownAssumption DEF PoolInit, ClocksAreLatest
<1>4. QED
  BY <1>1, <1>2, <1>3 DEF PoolInv

LEMMA SendersAreAccounts == PoolTypes => Senders \subseteq Accounts
  BY DEF PoolTypes, Senders, NotEntered

LEMMA DepositKeeps ==
  ASSUME PoolInv, NEW sender \in Accounts, NEW tranche \in Tranches, NEW amount \in Amounts,
         DepositToTranche(sender, tranche, amount)
  PROVE  PoolInv'
<1>1. amount \in Nat
  BY PoolAmountsAssumption
<1>2. PoolTypes'
  <2>1. deposits' \in [Tranches -> [Accounts -> Nat]]
    BY <1>1 DEF PoolInv, PoolTypes, DepositToTranche
  <2>2. totalDeposited' \in [Tranches -> Nat]
    BY <1>1 DEF PoolInv, PoolTypes, DepositToTranche
  <2>3. lastDepositTimestamp' \in [Accounts -> Nat]
    BY DEF PoolInv, PoolTypes, DepositToTranche
  <2>4. arrivals' \in [Accounts -> SUBSET Nat]
    BY DEF PoolInv, PoolTypes, DepositToTranche
  <2>5. QED
    BY <1>1, <2>1, <2>2, <2>3, <2>4 DEF PoolInv, PoolTypes, DepositToTranche
<1>3. EtherMatchesTotals'
  <2>1. CASE tranche = Junior
    BY <1>1, <2>1 DEF PoolInv, PoolTypes, EtherMatchesTotals, TotalClaims, DepositToTranche,
       Tranches, Junior, Senior
  <2>2. CASE tranche = Senior
    BY <1>1, <2>2 DEF PoolInv, PoolTypes, EtherMatchesTotals, TotalClaims, DepositToTranche,
       Tranches, Junior, Senior
  <2>3. QED
    BY <2>1, <2>2 DEF Tranches
<1>4. ClocksAreLatest'
  <2> SUFFICES ASSUME NEW a \in Accounts
               PROVE  /\ lastDepositTimestamp'[a] <= now'
                      /\ \A moment \in arrivals'[a] : moment <= lastDepositTimestamp'[a]
    BY DEF ClocksAreLatest
  <2>1. now' = now /\ now \in Nat
    BY DEF DepositToTranche, PoolInv, PoolTypes
  <2>2. /\ lastDepositTimestamp[a] \in Nat /\ lastDepositTimestamp[a] <= now
        /\ arrivals[a] \subseteq Nat
        /\ \A moment \in arrivals[a] : moment <= lastDepositTimestamp[a]
    BY DEF PoolInv, PoolTypes, ClocksAreLatest
  <2>3. CASE a = sender
    <3>1. lastDepositTimestamp'[a] = now
      BY <2>3 DEF DepositToTranche, PoolInv, PoolTypes
    <3>2. arrivals'[a] = arrivals[a] \cup {now}
      BY <2>3 DEF DepositToTranche, PoolInv, PoolTypes
    <3>3. \A moment \in arrivals[a] : moment <= now
      BY <2>1, <2>2
    <3>4. QED
      BY <2>1, <3>1, <3>2, <3>3
  <2>4. CASE a # sender
    <3>1. lastDepositTimestamp'[a] = lastDepositTimestamp[a] /\ arrivals'[a] = arrivals[a]
      BY <2>4 DEF DepositToTranche, PoolInv, PoolTypes
    <3>2. QED
      BY <2>1, <2>2, <3>1
  <2>5. QED
    BY <2>3, <2>4
<1>5. QED
  BY <1>2, <1>3, <1>4 DEF PoolInv

LEMMA WithdrawKeeps ==
  ASSUME PoolInv, NEW sender \in Accounts, NEW tranche \in Tranches, NEW amount \in Amounts,
         WithdrawFromTranche(sender, tranche, amount)
  PROVE  PoolInv'
<1>1. amount \in Nat
  BY PoolAmountsAssumption
<1>2. PoolTypes'
  <2>1. deposits' \in [Tranches -> [Accounts -> Nat]]
    BY <1>1 DEF PoolInv, PoolTypes, WithdrawFromTranche
  <2>2. totalDeposited' \in [Tranches -> Nat]
    BY <1>1 DEF PoolInv, PoolTypes, WithdrawFromTranche
  <2>3. balance' \in Nat
    BY <1>1 DEF PoolInv, PoolTypes, WithdrawFromTranche, Pay
  <2>4. QED
    BY <2>1, <2>2, <2>3 DEF PoolInv, PoolTypes, WithdrawFromTranche, Pay
<1>3. EtherMatchesTotals'
  <2>1. CASE tranche = Junior
    BY <1>1, <2>1 DEF PoolInv, PoolTypes, EtherMatchesTotals, TotalClaims, WithdrawFromTranche,
       Pay, Tranches, Junior, Senior
  <2>2. CASE tranche = Senior
    BY <1>1, <2>2 DEF PoolInv, PoolTypes, EtherMatchesTotals, TotalClaims, WithdrawFromTranche,
       Pay, Tranches, Junior, Senior
  <2>3. QED
    BY <2>1, <2>2 DEF Tranches
<1>4. ClocksAreLatest'
  BY DEF PoolInv, ClocksAreLatest, WithdrawFromTranche
<1>5. QED
  BY <1>2, <1>3, <1>4 DEF PoolInv

LEMMA PayoutKeeps ==
  ASSUME PoolInv, NEW sender \in Accounts, NEW recipient \in Accounts, NEW deficit \in Deficits,
         ExecuteDeficitPayout(sender, recipient, deficit)
  PROVE  PoolInv'
<1>1. deficit \in Nat /\ balance \in Nat /\ PoolTypes
  BY PoolAmountsAssumption DEF PoolInv, PoolTypes
<1>2. /\ JuniorShare(deficit) \in Nat /\ SeniorShare(deficit) \in Nat
      /\ JuniorShare(deficit) + SeniorShare(deficit) <= balance
  BY <1>1, SharesAreBounded
<1>3. /\ totalClaimed' \in [Tranches -> Nat]
      /\ totalClaimed'[Junior] = totalClaimed[Junior] + JuniorShare(deficit)
      /\ totalClaimed'[Senior] = totalClaimed[Senior] + SeniorShare(deficit)
      /\ balance' = balance - (JuniorShare(deficit) + SeniorShare(deficit))
      /\ callee' \in Accounts \cup {NoAccount}
      /\ charged' = charged + deficit
  BY <1>1, PayoutEffect
<1>4. UNCHANGED <<owner, paused, now, ledgerVars, donated>>
  BY DEF ExecuteDeficitPayout
<1>5. PoolTypes'
  BY <1>1, <1>2, <1>3, <1>4 DEF PoolTypes, ledgerVars
<1>6. EtherMatchesTotals'
  BY <1>1, <1>2, <1>3, <1>4 DEF PoolInv, PoolTypes, EtherMatchesTotals, TotalClaims, ledgerVars,
     Tranches, Junior, Senior
<1>7. ClocksAreLatest'
  BY <1>4 DEF PoolInv, ClocksAreLatest, ledgerVars
<1>8. QED
  BY <1>5, <1>6, <1>7 DEF PoolInv

LEMMA ReceiveKeeps ==
  ASSUME PoolInv, NEW amount \in Amounts, Receive(amount)
  PROVE  PoolInv'
<1>1. amount \in Nat
  BY PoolAmountsAssumption
<1>2. PoolTypes'
  BY <1>1 DEF PoolInv, PoolTypes, Receive, ledgerVars
<1>3. EtherMatchesTotals'
  BY <1>1 DEF PoolInv, PoolTypes, EtherMatchesTotals, TotalClaims, Receive, ledgerVars,
     Tranches, Junior, Senior
<1>4. ClocksAreLatest'
  BY DEF PoolInv, ClocksAreLatest, Receive, ledgerVars
<1>5. QED
  BY <1>2, <1>3, <1>4 DEF PoolInv

(* The steps that touch neither the ledgers nor the ether. *)
LEMMA LedgerUntouched ==
  ASSUME PoolInv,
         UNCHANGED <<ledgerVars, totalClaimed, charged, balance, donated>>,
         now' \in Nat, now' >= now, owner' \in Accounts \cup {NoAccount}, paused' \in BOOLEAN,
         callee' \in Accounts \cup {NoAccount}
  PROVE  PoolInv'
<1>1. PoolTypes'
  BY DEF PoolInv, PoolTypes, ledgerVars
<1>2. EtherMatchesTotals'
  BY DEF PoolInv, EtherMatchesTotals, TotalClaims, ledgerVars
<1>3. ClocksAreLatest'
  BY DEF PoolInv, PoolTypes, ClocksAreLatest, ledgerVars
<1>4. QED
  BY <1>1, <1>2, <1>3 DEF PoolInv

LEMMA PoolStepKeeps == PoolInv /\ [PoolNext]_poolVars => PoolInv'
<1> SUFFICES ASSUME PoolInv, [PoolNext]_poolVars PROVE PoolInv'
  OBVIOUS
<1> USE SendersAreAccounts DEF PoolInv
<1>1. ASSUME NEW sender \in Senders, NEW tranche \in Tranches, NEW amount \in Amounts,
             DepositToTranche(sender, tranche, amount)
      PROVE  PoolInv'
  BY <1>1, DepositKeeps
<1>2. ASSUME NEW sender \in Senders, NEW tranche \in Tranches, NEW amount \in Amounts,
             WithdrawFromTranche(sender, tranche, amount)
      PROVE  PoolInv'
  BY <1>2, WithdrawKeeps
<1>3. ASSUME NEW sender \in Senders, NEW recipient \in Accounts, NEW deficit \in Deficits,
             ExecuteDeficitPayout(sender, recipient, deficit)
      PROVE  PoolInv'
  BY <1>3, PayoutKeeps
<1>4. ASSUME NEW amount \in Amounts, Receive(amount)
      PROVE  PoolInv'
  BY <1>4, ReceiveKeeps
<1>5. ASSUME NEW sender \in Senders, NEW value \in BOOLEAN, SetPaused(sender, value)
      PROVE  PoolInv'
  BY <1>5, LedgerUntouched DEF SetPaused, PoolTypes
<1>6. ASSUME NEW sender \in Senders, NEW newOwner \in Accounts \cup {NoAccount},
             SetOwner(sender, newOwner)
      PROVE  PoolInv'
  BY <1>6, LedgerUntouched DEF SetOwner, PoolTypes
<1>7. CASE PoolCallReturns
  BY <1>7, LedgerUntouched DEF PoolCallReturns, PoolTypes
<1>8. CASE PoolNextBlock
  BY <1>8, LedgerUntouched DEF PoolNextBlock, PoolTypes
<1>9. CASE UNCHANGED poolVars
  BY <1>9, LedgerUntouched DEF poolVars, PoolTypes
<1>10. QED
  BY <1>1, <1>2, <1>3, <1>4, <1>5, <1>6, <1>7, <1>8, <1>9 DEF PoolNext

(* The pool's ether is what was put in less what was paid out, in every state,
   also while a receiver is being called. *)
THEOREM PoolCorrect == PoolSpec => []PoolInv
  BY InitEstablishes, PoolStepKeeps, PTL DEF PoolSpec

-----------------------------------------------------------------------------
(* What leaves is seasoned. *)

LEMMA OnlyWithdrawalsTakeCapital ==
  ASSUME PoolInv, [PoolNext]_poolVars, NEW a \in Accounts, NEW t \in Tranches,
         deposits'[t][a] < deposits[t][a]
  PROVE  \E tranche \in Tranches, amount \in Amounts : WithdrawFromTranche(a, tranche, amount)
<1> USE SendersAreAccounts DEF PoolInv
<1>1. deposits \in [Tranches -> [Accounts -> Nat]] /\ deposits[t][a] \in Nat
  BY DEF PoolTypes
<1>2. deposits' # deposits
  BY <1>1
<1>3. ASSUME NEW sender \in Senders, NEW tranche \in Tranches, NEW amount \in Amounts,
             DepositToTranche(sender, tranche, amount)
      PROVE  FALSE
  <2>1. amount \in Nat /\ sender \in Accounts
    BY PoolAmountsAssumption
  <2>2. deposits' = [deposits EXCEPT ![tranche][sender] = @ + amount]
    BY <1>3 DEF DepositToTranche
  <2>3. deposits'[t][a] \in {deposits[t][a], deposits[t][a] + amount}
    BY <1>1, <2>1, <2>2
  <2>4. QED
    BY <1>1, <2>1, <2>3
<1>4. ASSUME NEW sender \in Senders, NEW tranche \in Tranches, NEW amount \in Amounts,
             WithdrawFromTranche(sender, tranche, amount)
      PROVE  sender = a
  <2>1. deposits' = [deposits EXCEPT ![tranche][sender] = @ - amount]
    BY <1>4 DEF WithdrawFromTranche
  <2>2. sender # a => deposits'[t][a] = deposits[t][a]
    BY <1>1, <2>1
  <2>3. QED
    BY <1>1, <2>2
<1>5. ASSUME NEW sender \in Senders, NEW recipient \in Accounts, NEW deficit \in Deficits,
             ExecuteDeficitPayout(sender, recipient, deficit)
      PROVE  FALSE
  BY <1>2, <1>5 DEF ExecuteDeficitPayout, ledgerVars
<1>6. ASSUME NEW amount \in Amounts, Receive(amount) PROVE FALSE
  BY <1>2, <1>6 DEF Receive, ledgerVars
<1>7. ASSUME NEW sender \in Senders, NEW value \in BOOLEAN, SetPaused(sender, value) PROVE FALSE
  BY <1>2, <1>7 DEF SetPaused, ledgerVars
<1>8. ASSUME NEW sender \in Senders, NEW newOwner \in Accounts \cup {NoAccount},
             SetOwner(sender, newOwner)
      PROVE  FALSE
  BY <1>2, <1>8 DEF SetOwner, ledgerVars
<1>9. ~PoolCallReturns /\ ~PoolNextBlock /\ ~UNCHANGED poolVars
  BY <1>2 DEF PoolCallReturns, PoolNextBlock, poolVars, ledgerVars
<1>10. QED
  BY <1>3, <1>4, <1>5, <1>6, <1>7, <1>8, <1>9 DEF PoolNext

LEMMA SeasonedStep == PoolInv /\ [PoolNext]_poolVars => CapitalIsSeasoned
<1> SUFFICES ASSUME PoolInv, [PoolNext]_poolVars, NEW a \in Accounts, NEW t \in Tranches,
                    deposits'[t][a] < deposits[t][a]
             PROVE  /\ \A moment \in arrivals[a] : now >= moment + Cooldown
                    /\ callee = NoAccount /\ callee' = a
  BY DEF CapitalIsSeasoned
<1>1. PICK tranche \in Tranches, amount \in Amounts : WithdrawFromTranche(a, tranche, amount)
  BY OnlyWithdrawalsTakeCapital
<1>2. callee = NoAccount /\ callee' = a /\ now >= lastDepositTimestamp[a] + Cooldown
  BY <1>1 DEF WithdrawFromTranche, NotEntered, Pay
<1>3. ASSUME NEW moment \in arrivals[a] PROVE now >= moment + Cooldown
  <2>1. moment \in Nat /\ lastDepositTimestamp[a] \in Nat /\ now \in Nat
    BY DEF PoolInv, PoolTypes
  <2>2. moment <= lastDepositTimestamp[a]
    BY DEF PoolInv, ClocksAreLatest
  <2>3. QED
    BY <1>2, <2>1, <2>2, CooldownAssumption
<1>4. QED
  BY <1>2, <1>3

(* No interleaving of deposits and withdrawals, re-entrant ones included, takes
   capital out within the cooldown of anything its provider put in. *)
THEOREM CapitalIsNeverFlash == PoolSpec => NoFlashCapital
  BY PoolCorrect, SeasonedStep, PTL DEF PoolSpec, NoFlashCapital

-----------------------------------------------------------------------------
(* Who pays. *)

LEMMA OnlyPayoutsClaim ==
  ASSUME [PoolNext]_poolVars,
         \A sender \in Senders, recipient \in Accounts, deficit \in Deficits :
           ~ExecuteDeficitPayout(sender, recipient, deficit)
  PROVE  UNCHANGED <<totalClaimed, charged>>
  BY DEF PoolNext, DepositToTranche, WithdrawFromTranche, Receive, SetPaused, SetOwner,
     PoolCallReturns, PoolNextBlock, poolVars

LEMMA PayoutStep == PoolInv /\ [PoolNext]_poolVars => PayoutFollowsTranches
<1> SUFFICES ASSUME PoolInv, [PoolNext]_poolVars PROVE PayoutFollowsTranches
  OBVIOUS
<1>1. /\ PoolTypes /\ balance \in Nat /\ charged \in Nat
      /\ totalClaimed[Junior] \in Nat /\ totalClaimed[Senior] \in Nat
  BY DEF PoolInv, PoolTypes, Tranches
<1>2. ASSUME NEW sender \in Senders, NEW recipient \in Accounts, NEW deficit \in Deficits,
             ExecuteDeficitPayout(sender, recipient, deficit)
      PROVE  PayoutFollowsTranches
  <2> DEFINE junior == totalClaimed'[Junior] - totalClaimed[Junior]
             senior == totalClaimed'[Senior] - totalClaimed[Senior]
             part == LossAbsorptionPct * deficit
  <2>1. sender \in Accounts /\ deficit \in Nat /\ deficit > 0
    BY <1>1, <1>2, SendersAreAccounts, PoolAmountsAssumption DEF ExecuteDeficitPayout
  <2>2. /\ totalClaimed'[Junior] = totalClaimed[Junior] + JuniorShare(deficit)
        /\ totalClaimed'[Senior] = totalClaimed[Senior] + SeniorShare(deficit)
        /\ balance' = balance - (JuniorShare(deficit) + SeniorShare(deficit))
        /\ charged' = charged + deficit
    BY <1>1, <1>2, <2>1, PayoutEffect
  <2>3. /\ JuniorShare(deficit) \in Nat /\ SeniorShare(deficit) \in Nat
        /\ JuniorShare(deficit) + SeniorShare(deficit) = SmallerOf(deficit, balance)
        /\ JuniorShare(deficit) <= FullJuniorShare(deficit)
        /\ SeniorShare(deficit) > 0 => JuniorShare(deficit) = FullJuniorShare(deficit)
    BY <1>1, <2>1, SharesAreBounded
  <2>4. junior = JuniorShare(deficit) /\ senior = SeniorShare(deficit)
    BY <1>1, <2>2, <2>3
  <2>5. charged' - charged = deficit /\ deficit # 0
    BY <1>1, <2>1, <2>2
  <2>6. /\ part \in Nat /\ FullJuniorShare(deficit) \in Nat
        /\ 100 * FullJuniorShare(deficit) <= part
        /\ 100 * FullJuniorShare(deficit) > part - 100
    BY <2>1, FullShareIsRounded, FullShareIsBounded
  <2> HIDE DEF junior, senior, part
  <2>7. 100 * junior <= part /\ (senior > 0 => 100 * junior > part - 100)
    BY <2>3, <2>4, <2>6
  <2>8. /\ junior >= 0 /\ senior >= 0
        /\ junior + senior = SmallerOf(deficit, balance)
        /\ balance' = balance - (junior + senior)
    BY <2>2, <2>3, <2>4
  <2>9. QED
    BY <2>5, <2>7, <2>8 DEF PayoutFollowsTranches, junior, senior, part
<1>3. UNCHANGED <<totalClaimed, charged>> => PayoutFollowsTranches
  BY <1>1 DEF PayoutFollowsTranches
<1>4. QED
  BY <1>2, <1>3, OnlyPayoutsClaim

(* Whatever the percentage, the ether and the deficit, a claim is split by its
   own deficit: all of it or all the ether is paid, the junior tranche bears no
   more than its part, and all of its part before the senior tranche pays. *)
THEOREM JuniorIsFirst == PoolSpec => JuniorPaysFirst
  BY PoolCorrect, PayoutStep, PTL DEF PoolSpec, JuniorPaysFirst

-----------------------------------------------------------------------------
(* The providers' ledger. *)
TotalsAreSums == \A t \in Tranches : totalDeposited[t] = SumOver(deposits[t], Accounts)

LEMMA TotalsInit == PoolInit => TotalsAreSums
<1> SUFFICES ASSUME PoolInit, NEW t \in Tranches
             PROVE  totalDeposited[t] = SumOver(deposits[t], Accounts)
  BY DEF TotalsAreSums
<1> DEFINE f == deposits[t]
<1>1. (\A a \in Accounts : f[a] = 0) /\ totalDeposited[t] = 0
  BY DEF PoolInit
<1>2. IsFiniteSet(Accounts)
  BY PoolAccountsAssumption
<1> HIDE DEF f
<1>3. SumOver(f, Accounts) = 0
  BY <1>1, <1>2, SumOfZeros
<1>4. QED
  BY <1>1, <1>3 DEF f

LEMMA TotalsStep == PoolInv /\ TotalsAreSums /\ [PoolNext]_poolVars => TotalsAreSums'
<1> SUFFICES ASSUME PoolInv, TotalsAreSums, [PoolNext]_poolVars PROVE TotalsAreSums'
  OBVIOUS
<1>1. /\ deposits \in [Tranches -> [Accounts -> Nat]] /\ totalDeposited \in [Tranches -> Nat]
      /\ Senders \subseteq Accounts /\ Amounts \subseteq Nat
  BY SendersAreAccounts, PoolAmountsAssumption DEF PoolInv, PoolTypes
<1>2. \A t \in Tranches : totalDeposited[t] = SumOver(deposits[t], Accounts)
  BY DEF TotalsAreSums
<1>3. ASSUME NEW sender \in Accounts, NEW tranche \in Tranches, NEW entry \in Nat,
             deposits' = [deposits EXCEPT ![tranche][sender] = entry],
             totalDeposited' = [totalDeposited EXCEPT ![tranche] = @ + (entry - deposits[tranche][sender])]
      PROVE  TotalsAreSums'
  <2> DEFINE f == deposits[tranche]
  <2>1. SumOver([f EXCEPT ![sender] = entry], Accounts) = SumOver(f, Accounts) + (entry - f[sender])
    <3>1. f \in [Accounts -> Int] /\ entry \in Int /\ IsFiniteSet(Accounts)
      BY <1>1, PoolAccountsAssumption
    <3> HIDE DEF f
    <3>2. QED
      BY <3>1, SumOfUpdated
  <2>2. /\ deposits'[tranche] = [f EXCEPT ![sender] = entry]
        /\ totalDeposited'[tranche] = SumOver(f, Accounts) + (entry - f[sender])
    BY <1>1, <1>2, <1>3
  <2>3. \A t \in Tranches \ {tranche} :
          deposits'[t] = deposits[t] /\ totalDeposited'[t] = totalDeposited[t]
    BY <1>1, <1>3
  <2> HIDE DEF f
  <2>4. QED
    BY <1>2, <2>1, <2>2, <2>3 DEF TotalsAreSums
<1>4. ASSUME NEW sender \in Senders, NEW tranche \in Tranches, NEW amount \in Amounts,
             DepositToTranche(sender, tranche, amount)
      PROVE  TotalsAreSums'
  <2> DEFINE entry == deposits[tranche][sender] + amount
  <2>1. deposits[tranche][sender] \in Nat /\ amount \in Nat /\ totalDeposited[tranche] \in Nat
    BY <1>1
  <2>2. entry \in Nat /\ entry - deposits[tranche][sender] = amount
    BY <2>1
  <2>3. deposits' = [deposits EXCEPT ![tranche][sender] = entry]
    BY <1>4 DEF DepositToTranche
  <2>4. totalDeposited' = [totalDeposited EXCEPT ![tranche] = @ + (entry - deposits[tranche][sender])]
    BY <1>4, <2>2 DEF DepositToTranche
  <2> HIDE DEF entry
  <2>5. QED
    BY <1>1, <1>3, <2>2, <2>3, <2>4
<1>5. ASSUME NEW sender \in Senders, NEW tranche \in Tranches, NEW amount \in Amounts,
             WithdrawFromTranche(sender, tranche, amount)
      PROVE  TotalsAreSums'
  <2> DEFINE entry == deposits[tranche][sender] - amount
  <2>1. /\ deposits[tranche][sender] \in Nat /\ amount \in Nat /\ totalDeposited[tranche] \in Nat
        /\ deposits[tranche][sender] >= amount
    BY <1>1, <1>5 DEF WithdrawFromTranche
  <2>2. /\ entry \in Nat
        /\ totalDeposited[tranche] - amount = totalDeposited[tranche] + (entry - deposits[tranche][sender])
    BY <2>1
  <2>3. deposits' = [deposits EXCEPT ![tranche][sender] = entry]
    BY <1>5 DEF WithdrawFromTranche
  <2>4. totalDeposited' = [totalDeposited EXCEPT ![tranche] = @ + (entry - deposits[tranche][sender])]
    BY <1>5, <2>2 DEF WithdrawFromTranche
  <2> HIDE DEF entry
  <2>5. QED
    BY <1>1, <1>3, <2>2, <2>3, <2>4
<1>6. UNCHANGED <<deposits, totalDeposited>> => TotalsAreSums'
  BY DEF TotalsAreSums
<1>7. QED
  BY <1>4, <1>5, <1>6 DEF PoolNext, ExecuteDeficitPayout, Receive, SetPaused, SetOwner,
     PoolCallReturns, PoolNextBlock, poolVars, ledgerVars

(* The two ledgers of a tranche and the ether agree in every state, also while
   the receiver of a payment deposits again: a tranche's total is the sum of its
   providers' deposits, for any number of providers. *)
THEOREM PoolAlwaysBalances == PoolSpec => []PoolBalances
<1>1. PoolInv /\ TotalsAreSums => PoolBalances
  BY DEF PoolInv, TotalsAreSums, PoolBalances
<1>2. QED
  BY <1>1, TotalsInit, TotalsStep, PoolCorrect, PTL DEF PoolSpec
=============================================================================
