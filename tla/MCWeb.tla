------------------------------- MODULE MCWeb -------------------------------
(***************************************************************************)
(* The web application for TLC: the routes of the Next.js server, the page *)
(* and the SDK.  These parts share nothing but the key of the rate limiter *)
(* and the chain, which the modules model where it matters, so each        *)
(* behaviour runs one of them and leaves the others in their initial       *)
(* state: the state space is the sum of theirs and not the product.        *)
(***************************************************************************)
EXTENDS RateLimiter, AnalyzeRoute, LiveData, AnalysisStream, RecordFlow, DonRoutes, Sdk,
        ChainViews, Waitlist

VARIABLE part   \* the part that runs
webVars == <<part, limiterVars, req, liveDataVars, streamVars, recordVars, don, sdkVars,
             viewVars, waitlistVars>>

Parts == {"limiter", "analyze", "prices", "stream", "record", "don",
          "sdk", "history", "figures", "check", "waitlist"}

WebInit ==
    /\ part \in Parts
    /\ LimiterInit /\ AnalyzeInit /\ LiveDataInit /\ StreamInit /\ RecordInit /\ DonInit /\ SdkInit
    /\ ViewsInit /\ WaitlistInit

Rest(p) ==
    /\ UNCHANGED part
    /\ p # "limiter" => UNCHANGED limiterVars
    /\ p # "analyze" => UNCHANGED req
    /\ p # "prices" => UNCHANGED liveDataVars
    /\ p # "stream" => UNCHANGED streamVars
    /\ p # "record" => UNCHANGED recordVars
    /\ p # "don" => UNCHANGED don
    /\ p # "sdk" => UNCHANGED sdkVars
    /\ p \notin {"history", "figures", "check"} => UNCHANGED viewVars
    /\ p # "waitlist" => UNCHANGED waitlistVars

WebNext ==
    \/ part = "limiter" /\ LimiterNext /\ Rest("limiter")
    \/ part = "analyze" /\ AnalyzeNext /\ Rest("analyze")
    \/ part = "prices" /\ LiveDataNext /\ Rest("prices")
    \/ part = "stream" /\ StreamNext /\ Rest("stream")
    \/ part = "record" /\ RecordNext /\ Rest("record")
    \/ part = "don" /\ DonNext /\ Rest("don")
    \/ part = "sdk" /\ SdkNext /\ Rest("sdk")
    \/ part = "history" /\ (HistoryNext \/ \E s \in Subjects : SaveReport(s) \/ BecomeFinal(s)) /\ Rest("history")
    \/ part = "figures" /\ (FiguresNext \/ \E s \in Subjects : SaveReport(s) \/ SaveReportWithProof(s)) /\ Rest("figures")
    \/ part = "check" /\ CheckNext /\ Rest("check")
    \/ part = "waitlist" /\ WaitlistNext /\ Rest("waitlist")

(* The fairness of the two parts with a liveness property. *)
WebFairness ==
    /\ WF_webVars(part = "stream" /\ (StreamOpens \/ StreamRefused) /\ Rest("stream"))
    /\ WF_webVars(part = "stream" /\ ServerSends /\ Rest("stream"))
    /\ WF_webVars(part = "stream" /\ PipelineReads /\ Rest("stream"))
    /\ \A f \in Flows :
          /\ WF_webVars(part = "record" /\ ServerStep(f) /\ Rest("record"))
          /\ WF_webVars(part = "record" /\ BrowserStep(f) /\ Rest("record"))

WebSpec == WebInit /\ [][WebNext]_webVars /\ WebFairness

-----------------------------------------------------------------------------
(* Two routes that share a key, with limits of their own, and one apart. *)
LimitOfDef == [r \in {"record", "nodes", "waitlist"} |-> IF r = "waitlist" THEN 1 ELSE 2]

(* A young and an old protocol of every sector; addresses with and without
   code, history and money. *)
CatalogueEntry(sector, age) == [sector |-> sector, ageDays |-> age, audits |-> 5, tvl |-> 1000]
Account(bytes, txCount, native, tokens) ==
    [bytes |-> bytes, txs |-> txCount, native |-> native, tokens |-> tokens]
AddressesDef ==
    {[entry |-> CatalogueEntry(s, age), account |-> Account(0, 0, 0, 0)] : s \in Sectors, age \in {20, 400}}
    \cup {[entry |-> NoEntry, account |-> Account(b, x, n, 0)] :
             b \in {0, 24000}, x \in {0, 300}, n \in {0, 8, 1000000}}

(* Quiet weeks, both thresholds of the breakers crossed by a day or by a week. *)
RepliesDef ==
    [tvl : {1, 12, 30, 200000}, change1d : {-36, 3, 151}, change7d : {-61, 0, 301}, chains : {1, 2, 9}]
D2sDef == {0, 450}
CvarsDef == {10, 50}

StepsDef == <<"resolve_address", "fetch_price", "fetch_protocol">>

(* The nodes in the order of their endpoints, not of their addresses. *)
NodesDef == <<3, 1, 2>>
LocalDef == <<5, 4, 6>>
QuorumsDef == {-1, 0, 1, 2, 3, 7}

Asks(kind, a) == [read |-> kind, asset |-> a]
BatchesDef == {<<Asks("report", "b"), Asks("report", "a")>>,
               <<Asks("history", "a")>>, <<Asks("count", "b")>>}
=============================================================================
