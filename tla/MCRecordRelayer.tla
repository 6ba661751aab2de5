-------------------------- MODULE MCRecordRelayer --------------------------
(* A small relayer for TLC: the relayer (1) deployed the contract, three nodes
   whose order of endpoints is not their order of addresses, any two of five
   requests: with and without volatility, malformed, and on the plain endpoint. *)
EXTENDS RecordRelayer

MCAccounts == {1, 10, 11, 12}
MCAssets == {7}
MCMessage == [asset |-> 7, score |-> 80, dataHash |-> 5]
MCMessages == {MCMessage}
MCEndpoints == <<12, 10, 11>>
MCMeasurements ==
  {[agrees |-> TRUE, volatility |-> 40], [agrees |-> FALSE, volatility |-> 0]}

MCRequest(endpoint, volatility, valid) ==
  [endpoint |-> endpoint, message |-> MCMessage, volatility |-> volatility, valid |-> valid]

MCTable ==
  <<MCRequest("RecordDON", 0, TRUE), MCRequest("Record", 0, TRUE),
    MCRequest("Record", 0, FALSE), MCRequest("RecordDON", 40, TRUE),
    MCRequest("RecordDON", 0, FALSE)>>

MCRequestOf == [r \in Requests |-> MCTable[r]]
=============================================================================
