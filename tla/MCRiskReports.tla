--------------------------- MODULE MCRiskReports ---------------------------
(* A small chain for TLC: two accounts (the deployer is 2), one asset, one
   good message and one of each kind of message the checks turn away. *)
EXTENDS RiskReports

MCAccounts == {1, 2}
MCAssets == {7}
MCMessages == {[asset |-> 7, score |-> 80, dataHash |-> 5],
               [asset |-> 7, score |-> 101, dataHash |-> 5],
               [asset |-> ZeroAddress, score |-> 80, dataHash |-> NoHash]}
Signed(list) == [signers |-> list, recovered |-> list]
MCSubmissions == {Signed(<<1>>), Signed(<<2>>), Signed(<<1, 2>>), Signed(<<2, 1>>),
                  Signed(<<1, 1>>), Signed(<<2, 2>>),
                  [signers |-> <<1, 2>>, recovered |-> <<1, 1>>],
                  [signers |-> <<ZeroAddress, 1>>, recovered |-> <<1, 1>>]}
MCQueryIds == {21, 22}
Certified(ratio, session) ==
  [asset |-> 7, score |-> 90, reserveRatioBps |-> ratio, proofHash |-> 6, session |-> session]
MCCertificates == {Certified(10000, 8), Certified(0, 8), Certified(10000, NoHash)}

Certified7 == Len(rwaCertificateHistory[7]) + Len(zkTlsCertificateHistory[7])
Reports7 == Len(assetReportHistory[7])

(* Bounds: one certificate, beside one report at most, and a later block only
   once a report was recorded. *)
FewCertificates ==
  /\ Certified7 <= 1 /\ Certified7 + Reports7 <= 2
  /\ now > 0 => Reports7 > 0
=============================================================================
