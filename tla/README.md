# CreditPulse in TLA+

This directory holds TLA+ models of the CreditPulse system, the TLC
configurations that check them on small instances, and TLAPS proofs of what
matters most for every value of the constants. The models are translated from
the code in this repository; line numbers refer to it. Start with the table of
modules, open a module next to the source file it names, and use `PROJECT.json`
(`map`) to find the lines each definition stands for.

To check one run: `tlc -workers 2 -config asc.cfg MCCreditPulseASC`. To check
the proofs of a module: `tlapm RiskReports_proofs.tla`.

## The system

CreditPulse rates assets off chain and keeps the ratings on chain.

| Component | State | Operations | Talks to |
|---|---|---|---|
| `CreditPulseASC` (contracts/contracts/CreditPulseScore.sol) | owner, pause switch, authorized oracles (mapping and list), quorum; report and certificate histories, counters, nonces, used proofs; stakes, disputes, insurance total, ether | administration, five ways to save a report, two to save a certificate, stake, unstake, slash, challenge, resolve | block prover precompile, ether recipients (which may call back) |
| `CreditPulseInsurancePool` | two tranches, deposits per provider, last deposit time, claims, ether | deposit, withdraw, payout, pause | providers and damaged protocols (which may call back) |
| `CreditPulseLendingPool` (example) | loans, loans per borrower | borrow, borrow with an oracle proof | reads and writes `CreditPulseASC` |
| `CreditPulseScoreV2` | a UUPS variant of the first with fewer ways in | the same kinds | proxy |
| Relayer API (backend/app.py) | cooldown table, counters; one funded account with its nonce | record, record-don, record-verified, sign, multi-sign, zktls, tx-status | DON coordinator, RPC provider, contract |
| DON coordinator and nodes (backend/nodes) | none between rounds but telemetry | consensus round: ask all nodes, take the first answers, sort | nodes over HTTP |
| Keeper (backend/app.py, keeper_daemon.py) | running flag, timer, cycle lock, logs, SQLite rows | toggle, trigger, cycle | scoring, coordinator, contract |
| Scoring engine (risk_engine.py, quant_risk.py, quantEngine.ts) | protocol cache | compute scores, canonical hash | market data |
| Next.js: analyze, analyze-stream | none between requests | score an address from the catalogue, market figures and five reads of the chain; send the steps as events | DeFiLlama, RPC provider, language model |
| Next.js: record, record-don, record-verified, tx-status | one relayer wallet; nothing of what was sent | the relayer's operations again, with local signing and an off-chain digest as fallbacks | nodes, prover, RPC provider |
| Next.js: don/consensus, don/nodes | none | ask the nodes, sign locally when too few answer, report who is there | nodes |
| Next.js: waitlist | a JSON file in the instance's /tmp | register, count | the form |
| Rate limiter, price cache (frontend/src/lib) | a Map of timestamps per key; a price per symbol | let through or refuse; serve, refresh | every route |
| Browser client (hooks, components) | address box, analysis, pipeline, the panel of the recording, history, figures | analyse, record (wallet or relayer), poll, fetch, check a proof | API routes, wallet, RPC provider |
| SDK (sdk/src/index.ts) | one subscription filter | reads with retries, batches, subscription, loan terms | contract |
| zkTLS verifier, cross-chain relayer, BLS quorum, scripts | none, or simulated | hashing, aggregation, deployment | |

What makes it hard:

* **Concurrency.** On chain, transactions of different accounts interleave, and
  a recipient of ether may call back into the functions that are not
  `nonReentrant` before its caller returns. Off chain, each HTTP request runs in
  its own thread; they share `_recent_records`, one account's nonce and one
  transaction pool. In the browser every click is a closure of its own that
  writes to state all of them share, and answers overtake each other.
* **Failure.** Nodes are slow or down, RPC answers get lost after their effect,
  a transaction that was reported as submitted reverts or is replaced, a server
  instance dies in the middle of a write or starts with an empty disk.
* **Order.** Signatures are made before they are submitted and the oracle set
  may change in between; a dispute races its window; a loan races a delivery.
* **Time.** The dispute window and the withdrawal cooldown have boundaries that
  two functions must agree on.
* **Money.** Ether must be where the ledgers say; halves and percentages round.

What makes each part correct: the oracle list and the mapping agree; histories
only grow and each entry is vouched for by somebody entitled; a proof backs one
report; a bond is settled once and a final report stays final; ether covers
stakes, bonds and insurance; the pool's ledgers and balance agree and the junior
tranche pays first; a loan follows the latest rating; a request records once, is
answered, and is told the truth; a page says "confirmed", "live" or "success"
only of what is so, and stops waiting; a tripped circuit breaker outlives the
adjustments after it; a limit is a limit under every interleaving of the routes
that share its key.

## Modules

| Module | Models | State and actions |
|---|---|---|
| `OracleRegistry` | CreditPulseScore.sol 0-1 | owner, signer, prover, pause, oracles, quorum; one action per administrative function |
| `RiskReports` | sections 4-7, extends `OracleRegistry` | histories, counters, nonces, used proofs, `backing` (history variable: who vouched); one action per save function |
| `CreditPulseASC` | sections 2-3, extends `RiskReports` | stakes, disputes, ether, `callee` (the account that is being paid); one action per function and `CallReturns` |
| `OptimisticFinality` | the promise of the dispute section | status of each report: none, open, disputed, final |
| `InsurancePool` | CreditPulseInsurancePool.sol | deposits, totals, claims, balance, cooldown clock, `callee`, `charged` (history variable: the deficits claimed) |
| `LendingPool` | CreditPulseLendingPool.sol and the loan terms of the SDK, extends `RiskReports` | loans and lists; `BorrowWithOracleProof` composes the save and the loan in one step; `SdkLoanTerms` is the quote an integrator gets for a rating |
| `RecordRelayer` | app.py 533-687, don_coordinator.py, node_server.py, oracle_node.py, extends `RiskReports` | per request: where its thread is, its locals, its answer; shared: cooldown table, counter, pool, receipts |
| `Keeper` | app.py 60-80, 1095-1318 | running flag, the global timer, where each thread and timer is, the cycle's locals, the transaction in the pool, the latest reports; `overtaken` (history variable: the last resumption came while a pause was under way); one action per statement of the scheduler, per step of the cycle |
| `RateLimiter` | lib/rateLimiter.ts, lib/apiSecurity.ts | the log of requests let through, the stored timestamps per key, the clock; a request and the clean-up timer |
| `ScoreEngine` | the scoring of api/analyze and of lib/quantEngine.ts | none: operators on integers (dimensions, weights, caps, adjustment, verdict) |
| `AnalyzeRoute` | api/analyze/route.ts, extends `ScoreEngine` | one request: what each source answered, the score, the adjustment, the memo; one action per source with its failure |
| `LiveData` | the price cache of lib/priceOracle.ts | entry per symbol, where each caller is; ask, answer, time out, store |
| `AnalysisStream` | api/analyze-stream, AnalysisPipeline.tsx, useRiskAnalysis.ts | the stream's queue and the two ways it closes, the component that reads it, the analyses under way |
| `RecordFlow` | useTransactionRecorder.ts, ProofVerifier.tsx, api/record, record-don, record-verified, tx-status | per click: where its closure is and the report it keeps; the shared panel; the transactions |
| `DonRoutes` | lib/donSigners.ts, api/don/consensus, don/nodes, record-don | one request and its answer: what each node replied, clamping, filtering, order, and for each signature who made it and over what |
| `Sdk` | sdk/src/index.ts | a batch of reads with their retries; the reports of the chain |
| `ChainViews` | useOnChainHistory.ts, useBackendStatus.ts, api/stats/onchain, the dashboard, api/attestcoin/verify | reads under way and what is shown, beside a chain that goes on |
| `Waitlist` | app/waitlist, api/waitlist | forms, messages under way, the file, readable or not, and the log; a crash in the middle of a write and a cold start |
| `MCWeb` | the ten modules above, for TLC | each behaviour runs one part and leaves the others alone |
| `Sums` | the totals of the contracts and pages | none: the sum of a table over a finite set of keys |
| `*_proofs` | theorems about the module of that name (`RiskReports_proofs`: `OracleRegistry` too; `Web_proofs`: the modules `MCWeb` runs, but the score alone and the stream; `Sums_proofs`: lemmas about sums that the others cite) | |
| `MC*` | small constants for TLC | |

Conventions. A call that reverts changes nothing and is therefore a stuttering
step; an action is a call that succeeds. An address is a number, since the
contract compares addresses. Messages keep the fields a guard or a property
reads; a signature is the account it recovers to. Recovery itself, keccak and
the 0x0FD2 precompile are external: the model lets a signature recover to any
account and the prover return any query id. A definition headed "A plausible
slip" is not part of the system: it is an alternative that the check puts in the
place of the definition that follows it, to see that a property notices.

**Re-entrancy.** In `CreditPulseASC` and `InsurancePool` a function that sends
ether is one step up to the call, after which `callee` holds the recipient;
until `CallReturns` only the recipient may act (`Senders`), and only through
functions that are not `nonReentrant` (`NotEntered`). What a failing call would
undo is a stuttering step.

**The web parts** share nothing but a key of the rate limiter and the chain; each
module models these where they matter. `MCWeb` therefore lets a behaviour choose
one part and run it alone: the state space is the sum of the parts' and not
their product, and one run covers them. The chain of `ChainViews`, of `Sdk` and
of `RecordFlow` is what those parts can tell apart of it: lists that grow,
reports that become final, transactions that are mined, revert or stay pending.

**The score** is computed in integers: points, percent, hundredths of a point,
a TVL in units of 100,000 USD; a logarithm is rounded to a tenth. Merton's
distance and the tail loss of the simulated paths are inputs, as free as the
code lets them be; what the route does with them is modelled.

**Recording in the browser.** A click keeps the report it was started with in its
closure (`flow[f].report`); the panel is one for all. Each of the ways to record
is an action of its own, as is the arrival of its answer; a relayer's route hides
a failed broadcast behind a digest, and the digest is what the panel then shows.

**The relayer.** A thread's steps are the places where it waits or where another
thread may get in: the round, reading the clock, the check, the mark, reading the
nonce, sending. A round takes the first answers in the order of the endpoints
(`Selected`) and hands them on sorted by signer (`SortedBySigner`), since the
contract wants strictly ascending signers. `SignedQuorumIsRecorded` says that
this is enough: if those nodes signed the submitted scores and the contract is
ready for them - not paused, quorum not above the coordinator's, the nodes still
authorized, a message it takes at all - the call does not revert. `SendRawTransaction`
has the three outcomes a client of an RPC provider sees: taken and answered, taken
and the answer lost, not taken. `Mine`
runs the transaction through the contract's own actions or reverts. What a node
measures is free: it may agree with the request or not, and has a volatility
of its own.

**The validators' routes** ask three configured nodes. A signature is a pair of the
key that made it and what was hashed, a payload in the packed or in the typed format.
A node replies with a signature over what it computed itself (`NodeAttests`:
node_server.py:128-133 signs its own scores and hash, and `Computed` are payloads of
volatility 0, as oracle_node.py:61 makes them), with an error, or not in time. The
route takes the first replies as many as the quorum asks for (`FirstResponding`),
sorts them by signer and compares nothing (`DistributedQuorum`); with too few it
signs with local keys what was asked, in packed form sorted for the contract
(`LocalQuorum`) or as typed data in the order of the keys (`LocalTypedQuorum`).
`api/record-don` checks the lists its caller sends (`Verify`) and signs itself when
they do not check out. The monitor lists every node under a local key
(`ClusterHealth`), since it reads a field that a node's answer does not have. That the
three nodes have different keys is an assumption about the configuration.

**The keeper.** Threads are those of API calls and of timers. `_keeper_timer` is
assigned, started, tested, cancelled and cleared in separate statements, and each
statement reads the global anew; the module has a step for each, with the
exceptions that `None.start()`, `None.cancel()` and a second `start()` raise. The
cycle, under `KEEPER_CYCLE_LOCK`, analyses, decides and sends asset by asset;
each of the three may fail, as in the code. The two endpoints take no lock, so
calls to them overlap in every way. The report on chain is never read: the function
the cycle calls is missing from its ABI (`OnChainReport`). Time is abstracted: an
armed timer may fire at any time, and a report be stale at any reading. That the
keeper has one transaction in the pool at most follows from its nonce, which
counts mined transactions.

## Runs

| Run | Question | Bounds |
|---|---|---|
| `reports` | Do lists, counters, histories and quorums stay right under any interleaving of administration and saves? Do loans follow the latest rating, on the terms the SDK quotes for it, and is the pull of a proof atomic? | 2 accounts, 1 asset, 2 reports, 1 certificate, quorum up to 2, 2 ticks of the clock; signer lists of one and two, in both orders, with a repeated, an unrecovered and a zero entry; messages with a score above 100 or the zero asset; for the market two loans and ratings of the first three tiers and one just below the limit |
| `asc` | Do ether, disputes and finality stay right with re-entrant recipients? Does the contract implement `OptimisticFinality`? | bond 2, stakes 1 and 2 (so a slash is odd, short or exact), bonds 1 and 3 (one too small), balance up to 6, clock past the window's end |
| `pool` | Do ledgers and balance agree, does junior pay first, can capital leave early? | deposits, odd deficits of 4 in all, a payout above the balance, clock past the cooldown |
| `relay` | Does a request record once, get answered truthfully and always? | two of three kinds of requests at a time, three nodes whose endpoint order is not their address order, one removable node |
| `keeper` | Do timers neither multiply nor vanish while calls to the toggle overlap? Does a pause wind down, does every call return, do reports arrive in order? | one asset, three timer objects, any number of pauses and cycles, one call that starts a cycle beside the timers' own; two operators at once, or one with a visitor and two analyses told apart |
| `web` | Do limit, cache, scores, stream, recording, quorums, SDK, views and waiting list keep what they promise, each under its own interleavings and failures? | below |
| `replay` (violation) | Is the nonce a replay protection? | as `reports` |
| `junior` (violation) | Does junior capital bear what it absorbed? | as `pool` |
| `resume` (violation) | Has a keeper that is reported ACTIVE its next cycle ahead? | as `keeper` |
| `caps` (violation) | Are the caps of the README kept? | as `web` |
| `consensus` (violation) | Does a distributed quorum vouch for the scores beside it? | as `web` |
| `agree` (violation) | Is a quorum of nodes that agree with the request accepted? | one request with volatility 40 |

The bounds of `web`, part by part:

| Part | Bounds |
|---|---|
| limiter | two routes with limit 2, one on the shared key and one on its own, a third with limit 1 on the shared key; window 2, clock up to 4, so entries expire, and a clean-up every 2 |
| analyze | a young and an old protocol of every sector, addresses with and without code, history and money, day and week changes on each side of both breakers, a small and a large TVL, close to default or far, heavy tail or not |
| prices | two callers, time to live 3, timeout 1, clock up to 5: a refresh that is overtaken and an entry that expires while one is under way |
| stream | three steps, two analyses, box empty or with one of two addresses |
| record | two flows over two reports in every way to record, 2 polls in place of 20 |
| don | three nodes whose endpoint order is not their address order, three local keys, a stranger, two payloads, of which the nodes compute one, and one more that nobody asks for, quorums -1 to 7, both formats, two listed signatures |
| sdk | batches of one and two reads over two assets, one retry, two reports of each |
| history, figures, check | two reads of two addresses with two reports each; one poll of the figures; two checks of two source transactions |
| waitlist | a list of two, one form that sends three submissions (to three addresses or again to one), one loss of the file |

`PipelineSettles` and `RecordingEnds` are checked over the parts named stream and
record; in the others they hold because nothing of theirs moves. `web` runs
without the deadlock check: a request is answered, a page that has what it wanted
does nothing more, and these parts stop for good.

The bounds reach the interesting cases: a second challenge after a settled one,
a proof offered for a second report, an oracle removed between signing and
submission, a withdrawal from a pool a payout emptied, a fallback after a lost
answer, two transactions with one nonce. More accounts or assets repeat these
with other names: no function iterates over assets or accounts but the clean-up
of the oracle list. The runs grow that list to two entries, where the removed
one is first or last; `RegistryCorrect` (below) covers lists of every size. What
is proved does not depend on the bounds at all.

`pool` runs without the deadlock check: the contract inherits
`renounceOwnership`, and a pool that is paused when its owner renounces stays
shut for good. That state is real. The violation runs over `MCWeb` and the pool go
without it as `web` and `pool` do. All other runs check deadlock.

A limit of analyses (`MaxMeasured`) is no end of the keeper: from then on
analyses fail. `Explored` and `FixedRoles` are state constraints of `reports` and
`asc`; what they leave out of one is in another (roles in `reports`, disputes in
`asc`). `reports` explores two regions: `Records`, where accounts come and go, report
and certify while nobody borrows, and `Market`, where two accounts borrow on what
the deployer and the pool deliver. `keeper` has two parts likewise, of which a
behaviour runs one: `toggles`, where two operators pause and resume at once while
analyses fail, and `cycles`, where an operator who does not pause, a visitor and
timers measure and send. The theorems about both modules know no such regions or parts.

**Fairness.** Three runs have liveness properties: `relay`, `keeper` and `web`. `RelaySpec` assumes weak
fairness of each request's own thread: the server keeps running it, and each
call it waits for has a timeout (25 s per node, 10 s at the RPC provider). Nothing
is assumed of the nodes, the pool, the blocks or the owner. The contracts are
called by whoever wants to; nothing obliges anybody, so they have safety
properties only. The keeper's `Spec` assumes that a thread that runs goes on (its
calls have timeouts), that an armed timer fires, and, strongly, that a thread
which waits for the lock gets it: its contenders are timers that stay away for a
day after a cycle, and the few callers a rate limit lets through.

In `web` the stream's handler and a recording route run on once started, the
calls they wait for have timeouts, and the browser takes up what arrived and
goes on polling. Nothing is assumed of the chain (a transaction may stay pending
for ever), of the user (who may never confirm in the wallet: `RecordingEnds`
speaks of flows without one) or of the analysis beside the stream, which may
never be answered.

### What the violations show

* `replay`: the nonce of line 615 is counted and never compared, and not part of
  the signed message; line 614 calls it replay protection. A client that retries
  a delivery records twice.
* `junior`: a payout adds to `totalClaimed` and leaves every deposit, so the
  junior tranche's loss falls on whoever withdraws last. WHITEPAPER.md:150 says
  junior capital absorbs first.
* `agree`: a node signs `scores.get("volatility", 0)` (oracle_node.py:61) of
  scores that have only `volatility_score`; its signature fits the submitted
  scores only if their volatility is 0. The transaction reverts after the client
  was told that it succeeded. The same round lets nodes sign scores that differ
  from the request, where don_coordinator.py:119-120 and node_server.py:247 say
  they verify first; the model includes both.
* `resume`: the toggle (app.py:1310-1318) takes no lock. If the thread of a pause is
  held up between its test of `_keeper_timer` (1116) and the cancellation (1117)
  while a call that resumes the keeper runs a cycle and starts the next timer, the
  pause cancels that one: the status says ACTIVE, and no cycle is ahead until
  somebody toggles again. `ResumedKeeperIsScheduled` says that nothing else loses the
  timer: a resumption that overlaps no pause keeps the keeper scheduled, whatever
  visitors, timers and other resumptions do.
* `caps`: README.md:32 names caps of 58 points after a surge and 45 in a bank run;
  the route adds the quantitative adjustment of up to 3 points after its caps
  (api/analyze/route.ts:267), so scores up to 61 and 48 are given. What holds is
  `BreakersHold`: those numbers, and verdicts below AA and A.
* `consensus`: api/don/consensus puts what the nodes signed beside the scores it was
  asked about, and says it is sorted "to match CreditPulseASC.sol verification"
  (route.ts:93). A node signs the scores it computed; the contract recovers other
  accounts from the scores in the answer, and the browser's direct mode, which sends
  them together, gets a revert. `QuorumIsGenuine` says what does hold: the signatures
  of as many different validators, from the nodes over what they computed, or from
  local keys over what was asked.

Other places where documents and code differ, noted while modelling. Each is one
line of the code and visible in one definition, so none has a run:

* `saveVerifiedRiskReport` lacks `whenNotPaused` (CreditPulseScore.sol:634), while line
  77 promises a pause "for all write operations". What the pause does stop is
  `PausedIntake`, which is checked and proved.
* A keeper's broadcast that raises puts "SIMULATED_REVERT: ..." into `tx_hash`
  (app.py:1246), which is not empty, and so the log line says `ONCHAIN_UPDATED` (1259;
  `SendFails`). keeper_daemon.py:249 leaves the hash out for the same failure.
* The keeper's cycle reads `getRiskReport` (app.py:1162), which the ABI in
  app.py:483-489 does not declare. The read raises, an asset whose report cannot be
  read counts as one without (`OnChainReport`), and so every cycle sends every asset,
  where app.py:1126 and README.md:34 promise a transaction for a drift of 5 points.
* api/don/nodes reads `signer_address` (route.ts:103) of an answer that has `address`
  (oracle_node.py:31), under the comment "use its actual data": a live node is shown
  with the address of a key of the web server (`ClusterHealth`), its own only if both
  have one.
* The SDK says the callback of `onNewReport` is "Called with parsed RiskScores on each
  new report" (index.ts:225). `contract.on` is not awaited (276) and ethers polls a
  filter: a report saved before the filter exists, or in an answer that was lost, is
  never handed over. The subscription is ethers' own and is not modelled.

And numbers: the minimum stake (README 1,000 CTC, code 0.01 ether and checked only when
unstaking part), the dispute window (WHITEPAPER 24 hours, code 3 days), the
destination of a slash (README 80% to the junior tranche, code half to
`totalInsurancePool`, which no function pays out).

Known races without a property, because no document promises otherwise: the
cooldown of `process_record` is checked and marked in two steps, so two
simultaneous requests for one asset both pass; the mark outlives a request
that failed; the second of two simultaneous submissions is refused or replaces
the first (`OneTransactionInFlight` states the exact limit); after a lost answer
the fallback may record a second time (`RequestRecordsOnce` excepts it).
Toggling on a keeper that runs starts a
second chain of timers, and pausing it cancels only the one the global names; the
others stop when they next fire (`PausedKeeperWindsDown`), unless it was resumed
before.

What the web modules brought to light, where nothing in the repository promises
otherwise, and so without a run of its own:

* `api/analyze-stream` calls `computeMertonDefault` with rate and horizon in the
  other order than `api/analyze`; the two may rate, and sign, one address
  differently.
* A click records what the page holds when it is clicked: after two analyses that
  overtook each other, or with the address box edited since, that is the result
  of A under address B. Reserve data of an earlier analysis may arrive late and
  be minted with the later one. `ConfirmedMeansMined` promises the report of the
  click, not that of the box.
* Overtaken requests: a price refresh stores an older price over a newer one
  (its age is right, which is what `CachedPriceIsFresh` says); a history read of
  an address left meanwhile shows that address's certificates and ends the
  spinner of the current one.
* `ProofVerifier` says "verified & bound" once a transaction is broadcast;
  `api/attestcoin/verify` passes a source transaction on as live whenever the
  prover answers, also when the answer holds no proof of it. A wallet that
  refused the switch of networks stays where it was, and a "confirmed" is then
  one of that network.
* `api/record` and its siblings swallow a broadcast that raises and answer with
  an off-chain digest, although the node may have taken the transaction. In the
  direct mode `tx.wait()` has no timeout.
* On the shared key of the limiter the polling of one route uses up the small
  limit of another, and `Retry-After` is then too short: `RetryAfterSuffices` is
  about keys of one's own. Two waiting-list entries of one millisecond have one
  id.
* While the RPC provider is down the dashboard shows 0 proofs and a stake of
  "0.0" and not the absence of figures; the SDK's `getProtocolStats` reads three
  values at different blocks.
* `InflowNeverPays` needs its quiet week: in a surge, once the volatility score has
  reached 0, more capital only adds.
* The tiers on the simulator and explorer pages are not the contract's;
  `zktls` labels a ratio below 100% "FULLY_COLLATERALIZED".

Hazards of the code that no property covers:

* `setOracleSigner` and `transferOwnership` leave the former signer and owner
  authorized (CreditPulseScore.sol:844): no document says otherwise.
* The owner may ask for a quorum larger than the number of authorized accounts
  (CreditPulseScore.sol:278); saves then revert until it is lowered.
* A challenger that refuses ether makes the resolution in its favour revert
  (CreditPulseScore.sol:389).
* A pool that is paused when its owner renounces (CreditPulseInsurancePool.sol:97)
  stays shut; `pool` reaches that state.
* The cooldown of `process_record` is checked and marked in two steps and
  outlives a request that failed (app.py:541, 543); a cycle of the keeper reads
  the nonce of the latest block for every asset (app.py:1233).

## Proofs

All proofs hold for every number of accounts, assets, messages, reports, requests,
callers, forms and every amount; they rest on the named assumptions of the
constants only. Addresses are positive naturals and finitely many (20 bytes), the
deployer is an account, amounts are naturals, the bond and the period are positive,
limits and windows are natural numbers, what the sources of an analysis may answer
are integers. Each node of the coordinator has a key of its own, and it is not the
deployer's: `authorizeOracle` takes no account twice. There is at least one report to
record in the browser, a quorum asked of the routes is rounded to an integer, no
metrics are not a protocol's metrics, and the SDK's null is no number. No theorem has a
hypothesis of its own.

* `Sums_proofs`: the library's sums are recursive functions, and the provers cannot use
  an induction theorem that takes a predicate. The lemmas argue by least
  counterexample instead: of the subsets for which a claim fails one has no smaller
  such subset (`LeastSubset`), and taking one element away from it is a contradiction. So
  the sum of a table exists, is the same in whichever order it is added up (`SumStep`),
  depends on its entries only (`SumOfSame`) and changes by what one entry
  changes (`SumOfUpdated`).
* `RiskReports_proofs`: `RegistryCorrect` first. The inductive invariant adds to
  the types that the list has no repetition and its range is the mapping. The
  work is in `SwapAndPop`: removing the first (hence only) occurrence by moving
  the last entry keeps both. `RepositoryImplementsRegistry` lets the registry's
  invariant be used for the histories. `ProofsBackOne` needs a strengthening: that
  `backing` and the history of an asset have one length, every flagged report carries a
  used query id, and distinct flagged reports carry distinct ones; the
  counter is then the cardinality of the set, one step at a time.
  `HistoriesAppendOnly`, `QuorumsAreDistinct` and `ReportsAreAttested` are action
  properties, proved function by function from that invariant; the quorum
  one rests on a lemma that a strictly ascending list has as many members as
  entries.
* `CreditPulseASC_proofs`: `ContractImplementsRepository` lifts everything above
  to the whole contract. `DisputesStaySound` is the inductive invariant behind
  `FinalityIsForever` and `ContractImplementsFinality`: a dispute stands on a
  recorded report and was opened within its window, so that the clock cannot
  make an undisputed report final and then disputed. `ContractTypeCorrect` needs
  that a slash never exceeds the stake it is taken from. `BondsAreSettledOnce`
  and `PauseStopsIntake` follow action by action. `EtherAlwaysAccountedFor`: every
  function changes one stake or one bond and the ether by the same amount; a
  resolution moves half of the slash, rounded, to the challenger and what is left of
  it to the insurance, so that nothing is lost to the rounding.
* `InsurancePool_proofs`: `PoolCorrect`, `PoolAlwaysBalances`, `CapitalIsNeverFlash`,
  `JuniorIsFirst`, which speaks of the deficit of the payout itself (`charged`). The invariant says that the ether is the deposits less the claims,
  also while a receiver is being called, that a tranche's total is the sum of its
  accounts, and that the clock of a provider is not older than
  its last deposit (`ClocksAreLatest`). The shares are products and quotients: a
  lemma bounds each before a step uses it.
* `LendingPool_proofs`: `LendingImplementsRepository` (the pool calls the contract
  as one more account, so the rules of the histories hold beside it) and
  `QuotesHold`, by the invariant that every loan carries the terms of a rating the
  SDK would not turn away (`LoansOnTerms`). `PullsAreAtomic` rests on two facts: a
  delivery adds one report, and nobody but the pool records in its name.
  `LoansStandOnLatest` adds to the invariant that nothing on chain is dated in
  the future (`NothingAhead`): a report pushed later is then no older than the
  loan, so the loan keeps its place in the history. `LoansAlwaysFollowLatest` has
  the borrowers' lists too: each ascends over loans of its borrower, and the sum of their
  lengths is the number of all loans.
* `RecordRelayer_proofs`: one invariant in six parts (`RelayAlwaysInv`) for four properties.
  `AccountInv`: no thread knows a later count than the chain's, and what waits is one
  transaction with the next nonce, since the pool takes no other while one
  waits - only in its place (`OneTransactionAlways`). `ThreadInv` says what a place in the
  handlers says of the way there. `SubmissionInv`: every request submits at most one
  transaction of each kind, the single-signer one as its last act; a request whose
  answers arrived left only the last it sent, hence `RequestsAlwaysRecordOnce`.
  `AnswerInv` relates what a request left, in the pool or mined, to what its client was
  told (`AnswersAlwaysMatch`), and `CountInv` the statistics to the set of the runs that
  were counted, of which the transactions are a part. `SignedQuorumAlwaysRecorded` goes through
  the contract's own check: the order in which the coordinator sorts makes the entries
  distinct, and the entitled signers are those the signatures recover to.
* `Keeper_proofs`: `CyclesAreExclusive` and `NewerReportsStay`. The invariant says
  that the analysis at hand is the latest of its asset, that the transaction in
  the pool is older than it, and the report on chain older than both; the lock
  is what keeps a second analysis from being at hand. The scheduler's steps touch
  none of this, which one lemma (`CalmKeepsInv`) says for all of them.
  `ChainsStartByToggle` counts: a step adds a thread to the chains only when it starts a
  timer for the thread that leaves them, because a second `start()` raises.
  `ResumedKeeperStaysScheduled` follows the global name while any number of calls to
  the toggle overlap: unless the last resumption came while a pause was under way, no
  thread is between test and cancellation of an active keeper, and either a thread is
  still ahead of assigning the next timer, or one is about to start a timer and the one
  the global names, which may be another thread's, has not been started yet.
* `Web_proofs`, each part for its own constants:
  * limiter and prices: `LimiterCorrect`, `WindowHolds`, `RetryAfterHolds`, `CacheIsFresh`. The
    invariant relates the log of what was let through to what the Map still holds:
    the stored entries of a key are a subset, and every logged request of the
    window is stored (`WindowIsStored`); on a key of its own a route stores no more
    than its limit (`OwnEntriesFit`), which is what makes the wait of
    `Retry-After` long enough. The prices need that an entry is dated no later than
    its price: a request takes its time before it asks, and the source answers after.
  * the score: `BreakersAlwaysHold`, for every catalogue entry, reply and
    balance. The invariant says that a rating is the capped score with an
    adjustment of at most 3 (`ScoreIsFinal`); the rest is that a cap plus 3 stays
    within the number and below the verdict it excludes, sector by sector.
  * the score again: `InflowAlwaysCosts`, for every protocol after a quiet week. The
    tabulated logarithm is a number of points passed, so it grows by as many as can
    be given different ranks between two sizes: ten tenths if the size grows less
    than tenfold (`Log10WithinDecade`), five if it at most doubles
    (`Log10WithinDoubling`). The damping of a quiet protocol is 1 and never less after
    the inflow (`DampedInflow`), so an inflow of up to 320% adds ten tenths at most and
    one of 5% adds five. Against that stands a volatility score lower by 70 points or by
    22, for real-world assets by 46 or by 11. `InflowWeighsLess` weighs the two in every
    sector: the closest case is an inflow of 5% into a real-world asset, where
    11 points of volatility at a weight of 10 just pay for 6 points of liquidity at 15
    and one of governance at 20. The breakers and the rounding keep the order
    (`CapsFollow`, `FinalFollowsRaw`).
  * the recording: `ConfirmedAlwaysMined`. The panel belongs to one flow at a time
    (`PanelIsOnes`), since the buttons are disabled while it is busy; a flow that polls
    asks for the hash the panel shows; and what is said of a hash stands, because a
    transaction said to be confirmed belongs to a flow that ended (`SaysInv`).
  * the validators' routes: `QuorumsAlwaysGenuine`. An ascending enumeration of a set of
    keys exists (`AscendingExists`, by least counterexample again), and has each key
    once. The replies at hand are those of the nodes at their places, and nodes have
    different keys, so the first responding nodes are as many signers as the quorum asks
    for; the local signers are as many because the quorum was clamped to the keys.
  * the pages: `PagesAlwaysShowTheChain`. A read takes time and the chain goes on
    meanwhile, but it only grows (`ChainGrows`): what was true of a history when it was
    read stays true, and the total of all histories never falls.
  * the SDK: `SdkAnswersAlwaysTrue`. A call that is under way has no value yet and has
    attempts left; one that is done has a value between the count when it was made and
    the count now.
  * the waiting list: `RegistrationsAlwaysKept`. Who is listed was handled, nobody is
    listed twice, and what an answer was based on stands until the file is lost
    (`AnsweredInv`).

Left to TLC: liveness (`EveryRequestIsAnswered`, `EveryCallReturns`, `PausedKeeperWindsDown`,
`PipelineSettles`, `RecordingEnds`), which is out of the prover's reach. `AnalysisStream`
has no other property, and so no theorem.

## Not modelled yet, and the plan

In order:

1. The standalone keeper (keeper_daemon.py) as a second sender beside `Keeper`, with
   its table of cycles: the two share an account and its nonce.
2. `CreditPulseScoreV2` as a variant of the registry and dispute modules.
3. `RecordRelayer` with `record-verified`, and `sign`, `multi-sign` and `zktls` as
   requests that share its limits; the zkTLS round of the coordinator.
4. The Python protocol cache and the RPC pool's failover, as `LiveData` and `Sdk`
   do for their TypeScript siblings.
5. Proofs: that the relayer's requests that share the nonce keep `AppendOnly` and
   the other promises of `RiskReports` (a refinement with `Mine` as the caller); the
   life of a recording as an abstract specification that `RecordFlow` implements.

Not planned: the Python scoring (its TypeScript twin is modelled); Monte Carlo
simulation and logarithms (numerics); hash commitments, BLS arithmetic and the
packing of signatures (their guarantees are cryptographic); the wallet button
(one request to an extension, whose refusal is noted above); the reserve
attestation, metrics, health and statistics routes (one call each, no state); the
explorer, simulator, documentation and report-export pages (presentation); the
SDK's `getProtocolStats` and `verifyCC3Precompile` (one call each); indexing and
deployment scripts; generated and vendored code.
