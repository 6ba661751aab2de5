---------------------------- MODULE AnalyzeRoute ----------------------------
(***************************************************************************)
(* POST /api/analyze: one request from its address to the signed rating.   *)
(* The handler asks DeFiLlama about a catalogued protocol, reads the       *)
(* account over RPC, scores what it has with ScoreEngine, has the rating   *)
(* put into words and answers.  Every source may fail, and every failure   *)
(* is replaced by something: the benchmark of the catalogue, a balance of  *)
(* 0, no code, the rule-based text.                                        *)
(*                                                                         *)
(* An address is a record of what the catalogue and the chain hold for it: *)
(* [entry |-> catalogue entry or NoEntry, account |-> [bytes, txs, native, *)
(* tokens]], the balances in USD.                                          *)
(***************************************************************************)
EXTENDS ScoreEngine

CONSTANTS
    Addresses,   \* well-formed addresses
    NoEntry,     \* nothing: no catalogue entry, no reading yet
    Replies,     \* what DeFiLlama may say: [tvl, change1d, change7d, chains]
    D2s, Cvars   \* outcomes of the Merton and the Monte Carlo formulas

(* The figures of the catalogue, of DeFiLlama and of an account. *)
CatalogueEntries == [sector : Sectors, ageDays : Nat, audits : Nat, tvl : Nat]
Figures == [tvl : Nat, change1d : Int, change7d : Int, chains : Nat]
Accounts == [bytes : Nat, txs : Nat, native : Nat, tokens : Nat]
(* A protocol as it is scored. *)
Protocols == [sector : Sectors, ageDays : Nat, audits : Nat, tvl : Nat,
              change1d : Int, change7d : Int, chains : Nat]

ASSUME AnalyzeAssumption ==
    /\ Addresses \subseteq [entry : CatalogueEntries \cup {NoEntry}, account : Accounts]
    /\ Replies \subseteq Figures /\ NoEntry \notin Protocols
    /\ D2s \subseteq Int /\ Cvars \subseteq Int

VARIABLE req     \* the request

(* The memo: the loan-to-value it recommends, or a text of the model. *)
NoMemo == -1
ModelMemo == -2

AnalyzeInit ==
    req = [phase |-> "arrived", address |-> NoEntry, protocol |-> NoEntry, telemetry |-> NoEntry,
           breaker |-> FALSE, raw |-> 0, quant |-> 0, score |-> 0, memo |-> NoMemo]

(* 400: no address, or not an EVM address. *)
RejectAddress ==
    /\ req.phase = "arrived"
    /\ req' = [req EXCEPT !.phase = "refused"]

Live(entry, reply) ==
    [sector |-> entry.sector, ageDays |-> entry.ageDays, audits |-> entry.audits,
     tvl |-> reply.tvl, change1d |-> reply.change1d, change7d |-> reply.change7d,
     chains |-> Most(1, reply.chains)]

(* The catalogue entry with the benchmark figures. *)
Benchmark(entry) ==
    [sector |-> entry.sector, ageDays |-> entry.ageDays, audits |-> entry.audits,
     tvl |-> entry.tvl, change1d |-> 0, change7d |-> 0, chains |-> 3]

(* fetchLiveProtocolData: DeFiLlama answers, fails, or is not asked. *)
ResolveProtocol ==
    /\ req.phase = "arrived"
    /\ \E a \in Addresses :
          \E p \in IF a.entry = NoEntry THEN {NoEntry}
                   ELSE {Benchmark(a.entry)} \cup {Live(a.entry, r) : r \in Replies} :
             req' = [req EXCEPT !.phase = "resolved", !.address = a, !.protocol = p]

Reads == {"native", "txs", "bytes", "tokens"}

(* inspectOnchainWallet: a read that fails counts as 0, an account without
   code is a plain account. *)
Telemetry(account, lost) ==
    LET seen(f) == IF f \in lost THEN 0 ELSE account[f] IN
    [bytes |-> seen("bytes"), txs |-> seen("txs"), usd |-> seen("native") + seen("tokens")]

Inspect ==
    /\ req.phase = "resolved"
    /\ \E lost \in SUBSET Reads :
          req' = [req EXCEPT !.phase = "inspected",
                             !.telemetry = Telemetry(req.address.account, lost)]

(* The dimensions of the case the address falls under. *)
Case(p, t) == IF p # NoEntry THEN p.sector ELSE IF t.bytes > 0 THEN "contract" ELSE "account"

DimensionsOf(p, t) ==
    CASE p # NoEntry -> ProtocolDimensions(p)
      [] p = NoEntry /\ t.bytes > 0 -> ContractDimensions(t)
      [] OTHER -> AccountDimensions(t)

RawScore(p, t) ==
    LET d == DimensionsOf(p, t)
        raw == WeightedRaw(Case(p, t), d)
    IN IF p # NoEntry THEN BreakFlow(p, CapCritical(d, raw)) ELSE BreakZeroState(t, raw)

BreakerActive(p, t) ==
    IF p # NoEntry THEN Critical(DimensionsOf(p, t)) \/ Surging(p) \/ BankRun(p)
                ELSE ZeroState(t)

(* The asset value the Merton model is given; debt and volatility derived from
   the dimensions are positive. *)
AssetValue(p, t) == IF p # NoEntry THEN p.tvl ELSE Most(100, t.usd)

(* The rating, with the quantitative adjustment. *)
Rate ==
    /\ req.phase = "inspected"
    /\ \E d2 \in D2s, cvar \in Cvars :
          LET p == req.protocol
              t == req.telemetry
              quant == QuantAdjustment(MertonDefault(AssetValue(p, t), 1, 1, d2), cvar)
          IN req' = [req EXCEPT !.phase = "rated",
                                !.breaker = BreakerActive(p, t),
                                !.raw = RawScore(p, t),
                                !.quant = quant,
                                !.score = FinalScore(RawScore(p, t), quant)]

(* The largest loan-to-value the rule-based memo recommends, in tenths of a
   percent, by its own tiers. *)
Memo(score) ==
    CASE score >= 85 -> 825 [] score \in 65..84 -> 680 [] score \in 35..64 -> 666 [] OTHER -> 0

(* generateCreditNarrative: the model's text, or the rule-based one when there
   is no key, the call fails or its answer does not parse. *)
Narrate ==
    /\ req.phase = "rated"
    /\ \E m \in {Memo(req.score), ModelMemo} :
          req' = [req EXCEPT !.phase = "answered", !.memo = m]

(* 500: whatever throws on the way. *)
AnalysisFails ==
    /\ req.phase \in {"arrived", "resolved", "inspected", "rated"}
    /\ req' = [req EXCEPT !.phase = "failed"]

AnalyzeNext ==
    \/ RejectAddress \/ ResolveProtocol \/ Inspect \/ Rate \/ Narrate \/ AnalysisFails

AnalyzeSpec == AnalyzeInit /\ [][AnalyzeNext]_req

-----------------------------------------------------------------------------
Rated == req.phase \in {"rated", "answered"}

(* A tripped breaker holds to the end: the adjustment that comes last lifts a
   capped score by three points at most, so a protocol whose security or
   collateral is critical or whose TVL exploded is rated below AA, a bank run
   below A, and an address without any history C - in every sector and whatever
   the other dimensions are. *)
BreakersHold ==
    Rated =>
      LET p == req.protocol
          t == req.telemetry
          d == DimensionsOf(p, t)
      IN IF p = NoEntry
           THEN ZeroState(t) => /\ req.score <= (IF t.bytes > 0 THEN 28 ELSE 21)
                                /\ Verdict(req.score) = "C"
           ELSE /\ d.security < 45 \/ d.collateral < 40 =>
                     req.score <= 62 /\ Verdict(req.score) \notin {"AAA", "AA"}
                /\ Surging(p) => req.score <= 61 /\ Verdict(req.score) \notin {"AAA", "AA"}
                /\ BankRun(p) => req.score <= 48 /\ Verdict(req.score) \in {"B", "C"}


(* The protocol after capital of s percent of its TVL flowed in. *)
Pumped(p, s) ==
    [p EXCEPT !.tvl = (p.tvl * (100 + s)) \div 100,
              !.change1d = p.change1d + s, !.change7d = p.change7d + s]

Inflows == {5, 20, 60, 140, 200, 320}

(* Pumping the TVL does not pay: after a quiet week, capital that flows in
   lowers the rating or leaves it, all else equal - the penalty for the change
   outweighs what the size adds, in every sector.  (It is false in the middle
   of a surge, once the volatility score has reached 0.) *)
Quiet(p) == p.change1d \in 0..5 /\ p.change7d \in 0..10

InflowNeverPays ==
    Rated /\ req.protocol # NoEntry =>
      LET p == req.protocol IN
      Quiet(p) =>
        \A s \in Inflows :
            FinalScore(RawScore(Pumped(p, s), req.telemetry), req.quant) <= req.score
=============================================================================
