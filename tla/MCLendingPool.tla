--------------------------- MODULE MCLendingPool ---------------------------
(* The reports and the market that reads and writes them, for TLC: the
   accounts, messages and signatures of MCRiskReports, of which the deployer
   (2) signs, owns and may borrow and 1 borrows; 3 is the lending pool.
   Messages carry ratings of the first three tiers and one just below the
   limit too. *)
EXTENDS LendingPool, MCRiskReports

MarketAccounts == MCAccounts \cup {Lender}
Ratings == {90, 80, 62, 49}
MarketMessages == MCMessages \cup {[asset |-> 7, score |-> s, dataHash |-> 5] : s \in Ratings}
MCAmountsNamed == {0, 3}

Reported == {assetReportHistory[7][k] : k \in 1..Reports7}

(* Every way to administer the registry, to report and to certify, while
   nobody borrows and the lending pool is an account like none. *)
Records ==
  /\ loans = <<>>
  /\ Lender \notin isAuthorizedOracle \cup {owner, oracleSigner}
  /\ \A r \in Reported : r.score = 80
  /\ now <= 1

(* Every order of deliveries and loans: here only the quorum is lowered, by
   the owner, to what one oracle can meet, and the reports are delivered
   directly or with a quorum. *)
Market ==
  /\ owner = Deployer /\ isAuthorizedOracle = {Deployer} /\ oracleSigner = ZeroAddress
  /\ ~paused /\ Certified7 = 0 /\ usedProofHashes = {}
  /\ \A k \in 1..Reports7 : backing[7][k].via # "Signed"
  /\ \A r \in Reported : r.score \in Ratings /\ r.verifiedBy \in {Deployer, Lender}

(* The states whose successors are explored. *)
Explored == FewCertificates /\ (Records \/ Market)
=============================================================================
