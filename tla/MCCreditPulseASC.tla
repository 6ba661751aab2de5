-------------------------- MODULE MCCreditPulseASC --------------------------
(* A small chain for TLC: two accounts (the deployer is 2), one asset whose
   reports have indexes 1 and 2, a window of one tick and a bond of 2.  A stake
   of 1 is slashed in part and leaves a remainder when halved; challengers send
   too little (1) or too much (3). *)
EXTENDS CreditPulseASC

MCAccounts == {1, 2}
MCAssets == {7}
MCMessages == {[asset |-> 7, score |-> 80, dataHash |-> 5]}
MCQueryIds == {21}
MCSubmissions == {[signers |-> <<1, 2>>, recovered |-> <<1, 2>>]}
MCCertificates == {}
MCStakes == {1, 2}
MCBonds == {1, 3}

(* Roles and provenance of reports are explored by MCRiskReports: here the
   deployer stays the owner and an authorized oracle, there is no separate
   oracle signer, the quorum stays 2 and the owner submits the reports, only
   the second of which may be a cross-chain one. *)
FixedRoles ==
  /\ owner = Deployer /\ Deployer \in isAuthorizedOracle
  /\ oracleSigner = ZeroAddress
  /\ requiredOracleQuorum = 2
  /\ \A a \in Assets : \A k \in 1..Len(assetReportHistory[a]) :
       /\ assetReportHistory[a][k].verifiedBy = Deployer
       /\ backing[a][k].via \in IF k = 1 THEN {"Direct"} ELSE {"Direct", "Verified"}
=============================================================================
