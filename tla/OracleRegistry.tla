--------------------------- MODULE OracleRegistry ---------------------------
(***************************************************************************)
(* Sections 0 and 1 of the CreditPulseASC contract                         *)
(* (contracts/contracts/CreditPulseScore.sol): who owns the contract, who   *)
(* may attest, how many attestations a quorum takes, and the pause switch.  *)
(*                                                                         *)
(* An address is a natural number, because saveRiskReportMultiSigned        *)
(* compares addresses with ">"; 0 is address(0).  A call that reverts       *)
(* leaves the state as it was, so it is a stuttering step: every action is  *)
(* one call that succeeds, made by the account "sender" (msg.sender).       *)
(***************************************************************************)
EXTENDS Integers, Sequences, FiniteSets

CONSTANTS
  Accounts,     \* the externally owned accounts and contracts that call the contract
  Deployer,     \* the account that runs the constructor
  Provers,      \* the block prover contracts the owner may install (external)
  MaxQuorum     \* bound: the largest quorum the owner asks for (uint8 in the code)

ZeroAddress == 0

ASSUME AccountsAssumption == Accounts \subseteq Nat \ {ZeroAddress} /\ IsFiniteSet(Accounts)
ASSUME DeployerAssumption == Deployer \in Accounts
ASSUME ProversAssumption == Provers # {}
ASSUME MaxQuorumAssumption == MaxQuorum \in Nat /\ MaxQuorum >= 2

VARIABLES
  owner,
  oracleSigner,
  blockProver,
  paused,
  isAuthorizedOracle,     \* mapping(address => bool), as the set of accounts mapped to true
  authorizedOracles,      \* address[]
  requiredOracleQuorum

registryVars == <<owner, oracleSigner, blockProver, paused,
                  isAuthorizedOracle, authorizedOracles, requiredOracleQuorum>>

RegistryTypeOK ==
  /\ owner \in Accounts
  /\ oracleSigner \in Accounts \cup {ZeroAddress}
  /\ blockProver \in Provers
  /\ paused \in BOOLEAN
  /\ isAuthorizedOracle \subseteq Accounts
  /\ authorizedOracles \in Seq(Accounts)
  /\ requiredOracleQuorum \in 1..MaxQuorum

-----------------------------------------------------------------------------
(* The constructor: the deployer, and the oracle signer when it is a second
   account, are the first authorized oracles. *)
RegistryInit ==
  /\ owner = Deployer
  /\ oracleSigner \in Accounts \cup {ZeroAddress}
  /\ blockProver \in Provers
  /\ paused = FALSE
  /\ requiredOracleQuorum = 2
  /\ authorizedOracles = IF oracleSigner \in {ZeroAddress, Deployer}
                           THEN <<Deployer>>
                           ELSE <<Deployer, oracleSigner>>
  /\ isAuthorizedOracle = {Deployer, oracleSigner} \ {ZeroAddress}

(* The test of onlyAuthorizedOracle, of the signers of a quorum and of the
   attester of a certificate. *)
MayAttest(account) ==
  account \in isAuthorizedOracle \/ account = owner \/ account = oracleSigner

Pause(sender) ==
  /\ sender = owner
  /\ ~paused                       \* OpenZeppelin's _pause is whenNotPaused
  /\ paused' = TRUE
  /\ UNCHANGED <<owner, oracleSigner, blockProver, isAuthorizedOracle,
                 authorizedOracles, requiredOracleQuorum>>

Unpause(sender) ==
  /\ sender = owner
  /\ paused
  /\ paused' = FALSE
  /\ UNCHANGED <<owner, oracleSigner, blockProver, isAuthorizedOracle,
                 authorizedOracles, requiredOracleQuorum>>

AuthorizeOracle(sender, oracle) ==
  /\ sender = owner
  /\ oracle \notin isAuthorizedOracle
  /\ isAuthorizedOracle' = isAuthorizedOracle \cup {oracle}
  /\ authorizedOracles' = Append(authorizedOracles, oracle)
  /\ UNCHANGED <<owner, oracleSigner, blockProver, paused, requiredOracleQuorum>>

(* A plausible slip in the clean-up loop: pop without moving the last entry. *)
PopOnly(oracles, oracle) ==
  [k \in 1..(Len(oracles) - 1) |-> oracles[k]]

(* The clean-up loop: the first entry equal to oracle takes the last entry's
   value and the array shrinks by one; no entry, no change. *)
SwapAndPop(oracles, oracle) ==
  IF \A k \in DOMAIN oracles : oracles[k] # oracle
    THEN oracles
    ELSE LET first == CHOOSE k \in DOMAIN oracles :
                        /\ oracles[k] = oracle
                        /\ \A j \in 1..(k - 1) : oracles[j] # oracle
         IN  [k \in 1..(Len(oracles) - 1) |->
                IF k = first THEN oracles[Len(oracles)] ELSE oracles[k]]

DeauthorizeOracle(sender, oracle) ==
  /\ sender = owner
  /\ oracle \in isAuthorizedOracle
  /\ isAuthorizedOracle' = isAuthorizedOracle \ {oracle}
  /\ authorizedOracles' = SwapAndPop(authorizedOracles, oracle)
  /\ UNCHANGED <<owner, oracleSigner, blockProver, paused, requiredOracleQuorum>>

SetRequiredOracleQuorum(sender, newQuorum) ==
  /\ sender = owner
  /\ newQuorum >= 1
  /\ requiredOracleQuorum' = newQuorum
  /\ UNCHANGED <<owner, oracleSigner, blockProver, paused, isAuthorizedOracle,
                 authorizedOracles>>

(* Neither the new signer's nor the old one's entry in isAuthorizedOracle is
   touched. *)
SetOracleSigner(sender, newSigner) ==
  /\ sender = owner
  /\ oracleSigner' = newSigner
  /\ UNCHANGED <<owner, blockProver, paused, isAuthorizedOracle,
                 authorizedOracles, requiredOracleQuorum>>

SetBlockProver(sender, newProver) ==
  /\ sender = owner
  /\ blockProver' = newProver
  /\ UNCHANGED <<owner, oracleSigner, paused, isAuthorizedOracle,
                 authorizedOracles, requiredOracleQuorum>>

TransferOwnership(sender, newOwner) ==
  /\ sender = owner
  /\ owner' = newOwner
  /\ UNCHANGED <<oracleSigner, blockProver, paused, isAuthorizedOracle,
                 authorizedOracles, requiredOracleQuorum>>

RegistryStep(sender) ==
  \/ Pause(sender)
  \/ Unpause(sender)
  \/ \E oracle \in Accounts : AuthorizeOracle(sender, oracle)
  \/ \E oracle \in Accounts : DeauthorizeOracle(sender, oracle)
  \/ \E newQuorum \in 0..MaxQuorum : SetRequiredOracleQuorum(sender, newQuorum)
  \/ \E newSigner \in Accounts : SetOracleSigner(sender, newSigner)
  \/ \E newProver \in Provers : SetBlockProver(sender, newProver)
  \/ \E newOwner \in Accounts : TransferOwnership(sender, newOwner)

RegistryNext == \E sender \in Accounts : RegistryStep(sender)

RegistrySpec == RegistryInit /\ [][RegistryNext]_registryVars

-----------------------------------------------------------------------------
(* The array the contract publishes (authorizedOracles) and the mapping it
   decides with (isAuthorizedOracle) always name the same oracles, each once:
   no sequence of authorizations and swap-and-pop removals loses an entry,
   leaves a removed oracle behind or lists one twice. *)
RegistryAgrees ==
  /\ {authorizedOracles[k] : k \in DOMAIN authorizedOracles} = isAuthorizedOracle
  /\ \A j, k \in DOMAIN authorizedOracles :
       authorizedOracles[j] = authorizedOracles[k] => j = k
=============================================================================
