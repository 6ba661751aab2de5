---------------------------- MODULE ScoreEngine ----------------------------
(***************************************************************************)
(* The scoring of /api/analyze and the parts of lib/quantEngine.ts it      *)
(* calls, as operators on integers: scores in points, weights in percent,  *)
(* weighted sums in hundredths of a point, the TVL of a protocol in units  *)
(* of 100 000 USD, a portfolio in USD.  A logarithm is rounded to a tenth, *)
(* percentages are whole numbers.  The distance to default (in hundredths  *)
(* of sigma) and the tail loss (in percent) come from floating-point       *)
(* formulas and a Monte Carlo run: they are inputs.                        *)
(***************************************************************************)
EXTENDS Integers, FiniteSets

Least(x, y) == IF x < y THEN x ELSE y
Most(x, y) == IF x > y THEN x ELSE y

(* A plausible slip: of a change of the TVL only the fall counts. *)
FallOnly(x) == Most(0, -x)

Abs(x) == IF x < 0 THEN -x ELSE x

Clamp(lo, hi, x) == Most(lo, Least(hi, x))

(* Math.round(x / d) *)
RoundDiv(x, d) == (2 * x + d) \div (2 * d)

(* Math.round(10 * log10(x)): x has passed so many of the points half way
   between two tenths of a decade. *)
Halfway == {112, 141, 178, 224, 282, 355, 447, 562, 708, 891}
Decades == {1, 10, 100, 1000, 10000, 100000, 1000000}
Log10(x) == Cardinality({q \in Halfway \X Decades : q[1] * q[2] <= 100 * x})

Sectors == {"rwa", "lrt", "lending", "other"}
Names == {"liquidity", "collateral", "security", "audit", "volatility", "governance"}

-----------------------------------------------------------------------------
(* Case A: a protocol of the catalogue, with what DeFiLlama said of it.      *)

(* computeLindySeasoning in thousandths: sqrt(age / 90), within 1/4 and 1. *)
LindySeasoning(ageDays) ==
    LET share == Least(ageDays, 90) * 1000000 IN
    CHOOSE m \in 250..1000 :
        /\ m = 250 \/ m * m * 90 <= share
        /\ m = 1000 \/ (m + 1) * (m + 1) * 90 > share

(* The damping of a TVL spike in thousandths. *)
SpikeDamping(p) ==
    1000 + 5 * Most(0, p.change1d - 25) + 3 * Most(0, p.change7d - 60)

EffectiveTvl(p) ==
    (p.tvl * LindySeasoning(p.ageDays)) \div SpikeDamping(p)

(* parseInt(audits) || 6: no audit counts as six. *)
NumAudits(p) == IF p.audits = 0 THEN 6 ELSE p.audits

AgeMonths(p) == p.ageDays \div 30

(* Inflow and outflow alike, and a day that disagrees with its week. *)
VolPenalty(p) ==
    LET rwa == p.sector = "rwa"
        divergence == Abs(p.change1d - p.change7d)
    IN RoundDiv(Abs(p.change1d) * (IF rwa THEN 15 ELSE 30), 10)
       + RoundDiv(Abs(p.change7d) * (IF rwa THEN 8 ELSE 15), 10)
       + (IF divergence > 80 THEN Least(25, RoundDiv((divergence - 80) * 4, 10)) ELSE 0)

ProtocolDimensions(p) ==
    LET rwa == p.sector = "rwa"
        lending == p.sector = "lending"
        audited == NumAudits(p) > 0
        log == 50 + Log10(EffectiveTvl(p))
        drawdown == RoundDiv(Abs(p.change7d) * (IF rwa THEN 6 ELSE 10), 10)
    IN [liquidity  |-> IF rwa THEN Clamp(20, 100, RoundDiv(log * 105, 100)) ELSE Clamp(0, 100, log),
        collateral |-> Clamp(0, 100, (CASE rwa -> 92 [] lending -> 85 [] p.sector = "lrt" -> 78 [] OTHER -> 68)
                                     - Least(35, drawdown)),
        security   |-> Clamp(0, 100, (IF rwa THEN 45 ELSE 40) + (IF audited THEN 32 ELSE 0)
                                     + Least(28, p.chains * 4)),
        volatility |-> Clamp(0, 100, 100 - VolPenalty(p)),
        governance |-> Clamp(0, 100, (CASE rwa -> 75 [] lending -> 55 [] OTHER -> 35)
                                     + Least(15, p.chains * 3)
                                     + Least(15, RoundDiv(AgeMonths(p) * 4, 10))
                                     + (IF audited THEN 8 ELSE 0)
                                     + Least(10, RoundDiv((50 + Log10(p.tvl)) * 12, 100))),
        audit      |-> Least(100, (IF audited THEN 88 ELSE 32) + Least(20, p.chains * 2)
                                     + Least(15, RoundDiv(AgeMonths(p) * 5, 10)))]

(* The weights of a sector in percent; "contract" and "account" are the
   addresses outside the catalogue. *)
Weights(sector) ==
    CASE sector = "rwa"      -> [collateral |-> 30, governance |-> 20, audit |-> 15,
                                 liquidity |-> 15, security |-> 10, volatility |-> 10]
      [] sector = "lrt"      -> [collateral |-> 25, security |-> 25, liquidity |-> 20,
                                 volatility |-> 15, governance |-> 10, audit |-> 5]
      [] sector = "lending"  -> [collateral |-> 30, security |-> 25, liquidity |-> 20,
                                 volatility |-> 10, governance |-> 10, audit |-> 5]
      [] sector = "other"    -> [collateral |-> 17, security |-> 17, liquidity |-> 17,
                                 volatility |-> 17, governance |-> 16, audit |-> 16]
      [] sector = "contract" -> [collateral |-> 25, liquidity |-> 20, security |-> 25,
                                 governance |-> 15, volatility |-> 10, audit |-> 5]
      [] sector = "account"  -> [collateral |-> 25, liquidity |-> 25, security |-> 20,
                                 audit |-> 15, volatility |-> 10, governance |-> 5]

WeightedRaw(sector, d) ==
    LET w == Weights(sector) IN
    d.collateral * w.collateral + d.liquidity * w.liquidity + d.security * w.security
    + d.audit * w.audit + d.volatility * w.volatility + d.governance * w.governance

(* The critical-vector breaker. *)
Critical(d) == d.security < 45 \/ d.collateral < 40 \/ d.volatility < 30
HardCap(d) == Least(10000, Most(500, Least(d.security, d.collateral) * 135))
CapCritical(d, raw) == IF Critical(d) THEN Least(raw, HardCap(d)) ELSE raw

Surging(p) == p.change1d > 150 \/ p.change7d > 300
BankRun(p) == p.change1d < -35 \/ p.change7d < -60

(* A plausible slip: a bank run no longer lowers the score. *)
BreakNoBankRun(p, raw) == IF Surging(p) THEN Least(raw, 5800) ELSE raw

(* The two breakers that look at the flow of capital. *)
BreakFlow(p, raw) ==
    LET damped == IF Surging(p) THEN Least(raw, 5800) ELSE raw IN
    IF BankRun(p) THEN Least(damped, 4500) ELSE damped

-----------------------------------------------------------------------------
(* Cases B and C: any other address, with what the inspection found of it.   *)

ContractDimensions(t) ==
    LET log == Log10(Most(10, t.usd + 100))
        size == (Least(t.bytes, 24000) * 50) \div 240   \* in hundredths of a point
    IN [liquidity  |-> Clamp(10, 100, RoundDiv(log * 15, 10)),
        collateral |-> Clamp(15, 100, RoundDiv(log * 14, 10) + (IF t.txs > 50 THEN 20 ELSE 0)),
        security   |-> Clamp(20, 100, RoundDiv(size + (IF t.txs > 100 THEN 3500 ELSE t.txs * 35), 100)),
        audit      |-> IF t.bytes > 8000 THEN 65 ELSE IF t.bytes > 2000 THEN 45 ELSE 20,
        volatility |-> Clamp(30, 100, 50 + Least(45, RoundDiv(Log10(t.txs + 1) * 18, 10))),
        governance |-> Clamp(20, 100, 30 + Least(55, RoundDiv(t.bytes * 35, 24000)
                                                     + (IF t.txs > 200 THEN 20 ELSE 5)))]

AccountDimensions(t) ==
    LET liquidity == Clamp(5, 100, RoundDiv(Log10(t.usd + 1) * 175, 100))
        activity == Clamp(5, 100, RoundDiv(Log10(t.txs + 1) * 315, 100))
    IN [liquidity  |-> liquidity,
        collateral |-> Clamp(10, 100, RoundDiv(liquidity * 65 + activity * 35, 100)),
        security   |-> Clamp(15, 100, 20 + Least(70, RoundDiv(activity * 75, 100))),
        audit      |-> Clamp(10, 100, 15 + Least(60, RoundDiv(activity * 55, 100))),
        volatility |-> Clamp(25, 100, 35 + Least(55, RoundDiv(activity * 55, 100))),
        governance |-> Clamp(15, 100, 20 + Least(60, RoundDiv(activity * 60, 100)))]

(* A contract that never ran, an account that never moved. *)
ZeroState(t) == t.txs = 0 /\ t.usd < (IF t.bytes > 0 THEN 10 ELSE 1)
BreakZeroState(t, raw) ==
    IF ZeroState(t) THEN Least(raw, IF t.bytes > 0 THEN 2500 ELSE 1800) ELSE raw

-----------------------------------------------------------------------------
(* The quantitative modifier and the final score.                            *)

(* computeMertonDefault: degenerate inputs first; else the probability falls
   with d2, and at 0.67, 1.28 and 1.88 it is still above 25, 10 and 3 percent. *)
MertonDefault(assetValue, debt, vol, d2) ==
    IF assetValue <= 0 \/ debt <= 0
      THEN [probDefault |-> 999, distance |-> -500]
    ELSE IF vol = 0
      THEN IF assetValue > debt THEN [probDefault |-> 1, distance |-> 1000]
                                ELSE [probDefault |-> 999, distance |-> -1000]
    ELSE [probDefault |-> CASE d2 < 68 -> 251 [] d2 \in 68..128 -> 101
                            [] d2 \in 129..188 -> 31 [] OTHER -> 1,
          distance |-> d2]

(* computeQuantitativeRiskAdjustment *)
QuantAdjustment(m, cvar) ==
    LET penalty == (CASE m.probDefault > 250 -> 14 [] m.probDefault \in 101..250 -> 8
                      [] m.probDefault \in 31..100 -> 3 [] OTHER -> 0)
                   + (IF cvar > 40 THEN 10 ELSE IF cvar > 25 THEN 4 ELSE 0)
        bonus == IF m.probDefault <= 30 /\ m.distance >= 400 THEN 3 ELSE 0
    IN bonus - penalty

FinalScore(raw, adjustment) == Clamp(0, 100, RoundDiv(raw + 100 * adjustment, 100))

Verdict(score) ==
    CASE score >= 85 -> "AAA" [] score \in 70..84 -> "AA" [] score \in 50..69 -> "A"
      [] score \in 30..49 -> "B" [] OTHER -> "C"
=============================================================================
