--------------------------- MODULE AnalysisStream ---------------------------
(***************************************************************************)
(* What the page does while it analyses an address: the requests to        *)
(* /api/analyze (useRiskAnalysis), and beside them the pipeline component  *)
(* that is mounted while one of them is under way and follows the          *)
(* server-sent events of /api/analyze-stream.                              *)
(*                                                                         *)
(* The stream is the ReadableStream of the route: close() lets the reader  *)
(* take what is queued and then tells it that it is done; an exception out *)
(* of start(), which a second close() throws, drops the queue and makes    *)
(* the reader's next read fail.                                            *)
(***************************************************************************)
EXTENDS Integers, Sequences

CONSTANTS
    Steps,      \* the steps of the route in their order
    Requests,   \* presses of the analyse button
    Box,        \* what the address box may hold
    Empty       \* the empty box

ASSUME StreamAssumption == Steps \in Seq(STRING) /\ Steps # <<>> /\ Empty \in Box

VARIABLES
    page,      \* [address, result, error] as displayed
    loading,   \* the page's flag
    asked,     \* request -> [state, address]
    stream,    \* the server's side: [state, at, half, queue]
    pipe       \* the component: "unmounted", "fetching", "reading", or how it ended
streamVars == <<page, loading, asked, stream, pipe>>

Blank == [state |-> "none", at |-> 1, half |-> "running", queue |-> <<>>]

StreamInit ==
    /\ page = [address |-> Empty, result |-> Empty, error |-> FALSE]
    /\ loading = FALSE
    /\ asked = [r \in Requests |-> [state |-> "ready", address |-> Empty]]
    /\ stream = Blank
    /\ pipe = "unmounted"

-----------------------------------------------------------------------------
(* The page shows the pipeline while it is loading and the box is not empty:
   mounting it starts a request, unmounting aborts it. *)
Mounted == loading /\ page.address # Empty

Rerender ==
    /\ pipe' = IF Mounted = Mounted' THEN pipe ELSE IF Mounted' THEN "fetching" ELSE "unmounted"
    /\ stream' = IF Mounted = Mounted' THEN stream
                 ELSE IF Mounted' THEN Blank ELSE [stream EXCEPT !.state = "cancelled", !.queue = <<>>]

(* handleAnalyze: the button, the enter key, a preset; only the button waits
   for an analysis to end. *)
Analyze(r) ==
    /\ asked[r].state = "ready"
    /\ \E a \in Box \ {Empty} :
          /\ page' = [page EXCEPT !.address = a, !.error = FALSE]
          /\ asked' = [asked EXCEPT ![r] = [state |-> "asked", address |-> a]]
    /\ loading' = TRUE
    /\ Rerender

TypeAddress ==
    /\ page' \in {[page EXCEPT !.address = a] : a \in Box \ {page.address}}
    /\ UNCHANGED <<loading, asked>>
    /\ Rerender

(* The answer of any request, or its failure, takes the page out of loading. *)
AnalyzeEnds(r) ==
    /\ asked[r].state = "asked"
    /\ asked' = [asked EXCEPT ![r].state = "ended"]
    /\ page' \in {[page EXCEPT !.result = asked[r].address], [page EXCEPT !.error = TRUE]}
    /\ loading' = FALSE
    /\ Rerender

-----------------------------------------------------------------------------
(* The route.                                                                *)

(* 429, no address, a body that is no JSON: the component reports it. *)
StreamRefused ==
    /\ pipe = "fetching" /\ stream.state = "none"
    /\ pipe' = "error"
    /\ page' = [page EXCEPT !.error = TRUE]
    /\ UNCHANGED <<loading, asked, stream>>

StreamOpens ==
    /\ pipe = "fetching" /\ stream.state = "none"
    /\ stream' = [stream EXCEPT !.state = "open"]
    /\ UNCHANGED <<page, loading, asked, pipe>>

Finish == Len(Steps) + 1
Event(i, status) == [step |-> i, status |-> status]

(* controller.close(): the reader takes what is queued. *)
Close(s) == [s EXCEPT !.state = "closing"]

(* A plausible slip: only one close, and the step's own error event is what
   the reader gets. *)
CloseOnce(s) == Close([s EXCEPT !.queue = Append(@, Event(1, "step failed"))])

(* The step's error event is queued and the stream closed; finally closes it
   again, and the exception out of start() errors the stream. *)
CloseTwice(s) == [s EXCEPT !.state = "errored", !.queue = <<>>]

(* An address that is none. *)
InvalidAddress ==
    /\ stream.state = "open" /\ stream.at = 1 /\ stream.half = "done"
    /\ stream' = CloseTwice(stream)
    /\ UNCHANGED <<page, loading, asked, pipe>>

(* A step is announced, then done; after the last one the result is sent and
   the stream closed. *)
SendRunning ==
    /\ stream.state = "open" /\ stream.at < Finish /\ stream.half = "running"
    /\ stream' = [stream EXCEPT !.half = "done", !.queue = Append(@, Event(stream.at, "running"))]
    /\ UNCHANGED <<page, loading, asked, pipe>>

SendDone ==
    /\ stream.state = "open" /\ stream.at < Finish /\ stream.half = "done"
    /\ stream' = [stream EXCEPT !.half = "running", !.at = @ + 1,
                                !.queue = Append(@, Event(stream.at, "done"))]
    /\ UNCHANGED <<page, loading, asked, pipe>>

SendComplete ==
    /\ stream.state = "open" /\ stream.at = Finish
    /\ stream' = Close([stream EXCEPT !.queue = Append(@, Event(Finish, "complete"))])
    /\ UNCHANGED <<page, loading, asked, pipe>>

(* A step throws: the catch sends an error event, finally closes. *)
StepThrows ==
    /\ stream.state = "open" /\ stream.at > 1 /\ stream.half = "done"
    /\ stream' = Close([stream EXCEPT !.queue = Append(@, Event(stream.at, "error"))])
    /\ UNCHANGED <<page, loading, asked, pipe>>

-----------------------------------------------------------------------------
(* The component.                                                            *)

HeadersArrive ==
    /\ pipe = "fetching" /\ stream.state \in {"open", "closing"}
    /\ pipe' = "reading"
    /\ UNCHANGED <<page, loading, asked, stream>>

Error == page' = [page EXCEPT !.error = TRUE]

(* The result is not taken from the stream: the page has its own. *)
ReadEvent ==
    /\ pipe = "reading" /\ stream.queue # <<>>
    /\ LET status == Head(stream.queue).status IN
          /\ pipe' = IF status \in {"complete", "error"} THEN status ELSE pipe
          /\ IF status = "error" THEN Error ELSE UNCHANGED page
    /\ stream' = [stream EXCEPT !.queue = Tail(@)]
    /\ UNCHANGED <<loading, asked>>

(* Nothing is queued any more: reader.read() says done, which the component
   takes as the end, or rejects. *)
ReadEnds ==
    /\ pipe \in {"fetching", "reading"} /\ stream.queue = <<>>
    /\ stream.state \in {"closing", "errored"}
    /\ pipe' = IF stream.state = "closing" THEN "ended" ELSE "error"
    /\ IF stream.state = "errored" THEN Error ELSE UNCHANGED page
    /\ UNCHANGED <<loading, asked, stream>>

-----------------------------------------------------------------------------
ServerSends == InvalidAddress \/ SendRunning \/ SendDone \/ SendComplete \/ StepThrows
PipelineReads == HeadersArrive \/ ReadEvent \/ ReadEnds

StreamNext ==
    \/ \E r \in Requests : Analyze(r) \/ AnalyzeEnds(r)
    \/ TypeAddress
    \/ StreamRefused \/ StreamOpens
    \/ ServerSends \/ PipelineReads

(* Every source the route asks has a timeout, so the route goes on; the browser
   takes what arrives.  Nothing is assumed of /api/analyze. *)
StreamFairness ==
    /\ WF_streamVars(StreamOpens \/ StreamRefused)
    /\ WF_streamVars(ServerSends)
    /\ WF_streamVars(PipelineReads)

StreamSpec == StreamInit /\ [][StreamNext]_streamVars /\ StreamFairness

-----------------------------------------------------------------------------
(* The pipeline stops spinning and says why - the analysis is complete, or an
   error - unless the page takes it away first: whichever step of the stream
   fails, however the stream is closed, and although the analysis it
   accompanies may never be answered.  It never just ends. *)
PipelineSettles ==
    pipe \in {"fetching", "reading"} ~> pipe \in {"complete", "error", "unmounted"}
=============================================================================
