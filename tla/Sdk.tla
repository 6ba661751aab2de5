-------------------------------- MODULE Sdk --------------------------------
(***************************************************************************)
(* The TypeScript SDK (src/sdk/src/index.ts): reads of the contract, each  *)
(* retried with a growing delay, and the batch that asks for many assets   *)
(* at once.                                                                *)
(* The reports of an asset are append-only, so the latest report is the    *)
(* number of them.                                                         *)
(***************************************************************************)
EXTENDS Integers, Sequences, FiniteSets

CONSTANTS
    Assets,
    Batches,      \* the reads an integrator starts together: sequences of Reading
    MaxRetries,   \* maxRetries
    MaxReports,   \* bound on the reports of an asset
    Missing       \* null

(* getRiskReport, getReportHistory, getReportCount *)
Reading == [read : {"report", "history", "count"}, asset : Assets]

ASSUME SdkAssumption ==
    /\ MaxRetries \in Nat /\ MaxReports \in Nat /\ Missing \notin Nat
    /\ Batches \subseteq Seq(Reading)

VARIABLES
    history,   \* asset -> number of its reports on chain
    batch      \* the reads under way: [readings, calls],
               \* a call is [asset, read, attempt, since, value, done]
sdkVars == <<history, batch>>

SdkInit ==
    /\ history = [a \in Assets |-> 0]
    /\ batch = [readings |-> <<>>, calls |-> <<>>]

(* The contract stores a report. *)
ReportSaved(a) ==
    /\ history[a] < MaxReports
    /\ history' = [history EXCEPT ![a] = @ + 1]
    /\ UNCHANGED batch

-----------------------------------------------------------------------------
(* Promise.all: batchGetReports calls getRiskReport for every asset; a single
   read is a batch of one.  Null stands for the exception of a read too. *)
StartBatch ==
    /\ batch.calls = <<>>
    /\ \E readings \in Batches :
          batch' = [readings |-> readings,
                    calls |-> [i \in DOMAIN readings |->
                                 [read |-> readings[i].read, asset |-> readings[i].asset,
                                  attempt |-> 0, since |-> history[readings[i].asset],
                                  value |-> Missing, done |-> FALSE]]]
    /\ UNCHANGED history

Call(i) == i \in DOMAIN batch.calls /\ ~batch.calls[i].done

(* A plausible slip: the results are kept in the order of their arrival. *)
SlotOfArrival(i) ==
    CHOOSE j \in DOMAIN batch.calls :
        /\ batch.calls[j].value = Missing
        /\ \A k \in DOMAIN batch.calls : k < j => batch.calls[k].value # Missing

(* The place of an answer in the result of Promise.all: that of its call. *)
Slot(i) == i

(* The latest report, the whole history or its length: each is the number of
   reports there are.  Only the latest report of none makes the contract
   revert, which the wrapper cannot tell from a lost connection. *)
Attempt(i) ==
    /\ Call(i)
    /\ LET call == batch.calls[i] IN
          /\ call.read = "report" => history[call.asset] > 0
          /\ batch' = [batch EXCEPT !.calls =
                          [@ EXCEPT ![Slot(i)].value = history[call.asset], ![i].done = TRUE]]
    /\ UNCHANGED history

AttemptFails(i) ==
    /\ Call(i)
    /\ batch' = [batch EXCEPT !.calls[i].attempt = @ + 1,
                              !.calls[i].done = batch.calls[i].attempt = MaxRetries]
    /\ UNCHANGED history

SdkNext ==
    \/ \E a \in Assets : ReportSaved(a)
    \/ StartBatch
    \/ \E i \in DOMAIN batch.calls : Attempt(i) \/ AttemptFails(i)

SdkSpec == SdkInit /\ [][SdkNext]_sdkVars

-----------------------------------------------------------------------------
Finished == batch.calls # <<>> /\ \A i \in DOMAIN batch.calls : batch.calls[i].done

(* Each place of a finished batch answers for the asset asked at that place: its
   reports as they were at some moment since the call - and there is a report
   if one was asked for - or null after every attempt failed. *)
SdkAnswersAreTrue ==
    Finished =>
        \A i \in DOMAIN batch.calls :
            LET call == batch.calls[i] IN
            /\ call.asset = batch.readings[i].asset
            /\ IF call.value = Missing THEN call.attempt = MaxRetries + 1
               ELSE /\ call.value \in call.since..history[call.asset]
                    /\ call.read = "report" => call.value > 0
=============================================================================
