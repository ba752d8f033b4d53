------------------------------- MODULE Bridge -------------------------------
(***************************************************************************)
(* The HTTP side of the bridge: the handler of POST /v1/responses, the     *)
(* stream it returns, the stream permits, the metrics both update, and the *)
(* bounded graceful shutdown around them (src/src/server.rs, metrics.rs).  *)
(*                                                                         *)
(* A request is one task.  Its program counter names the await (or the     *)
(* yield) the task is suspended at; an action is the code that runs from   *)
(* one suspension point to the next.  hyper drops the task when the client *)
(* goes away, so a Disconnect may happen at every suspension point.        *)
(* Credentials (auth.rs) and the upstream answer nondeterministically here.*)
(***************************************************************************)
EXTENDS Naturals, FiniteSets

CONSTANTS
  Requests,     \* the requests clients may send
  MaxStreams,   \* CODEX_FOR_GROK_MAX_STREAMS
  NoRequest     \* `latest` before any outcome is recorded

\* Config::from_env refuses a stream limit of zero.
ASSUME BridgeAssumption ==
  /\ IsFiniteSet(Requests)
  /\ MaxStreams \in Nat \ {0}
  /\ NoRequest \notin Requests

VARIABLES
  phase,    \* of serve(): "serving", "draining" after the signal, "stopped"
  permits,  \* free permits of the semaphore
  pc,       \* where each request's task is suspended
  saw,      \* saw_completed of each stream
  ending,   \* "open", or the outcome the stream leaves its loop with
  told,     \* the last terminal event the client was sent on the stream
  verdict,  \* the outcome record_outcome() has counted for the request
  billed,   \* requests whose tokens record_usage() has added up
  quiet,    \* requests whose upstream neither sends nor closes any more
  metrics   \* the counters of Metrics and `latest`

vars == <<phase, permits, pc, saw, ending, told, verdict, billed, quiet, metrics>>
reqVars == <<saw, ending, told, billed>>

-----------------------------------------------------------------------------
\* Suspension points of the handler that hold a permit, and those that do not.
PermitPcs  == {"session", "posting", "refreshing", "reposting", "limits"}
FreePcs    == {"reading", "errorbody", "failing"}
\* Suspension points of the stream; the stream owns the permit.
StreamPcs  == {"unpolled", "waiting", "usage", "yielded", "recording"}
LivePcs    == PermitPcs \cup FreePcs \cup StreamPcs
\* How a request ends: answered early and not recorded, answered with a
\* recorded error, streamed to the end, dropped before or during the stream.
EndPcs     == {"rejected", "refused", "served", "abandoned", "cut"}
Pcs        == {"idle"} \cup LivePcs \cup EndPcs

Outcomes   == {"completed", "failed", "truncated"}
Counters   == {"total", "succeeded", "failed", "truncated", "cancelled", "active"}

At(P)      == {r \in Requests : pc[r] \in P}
Holders    == At(PermitPcs \cup StreamPcs)   \* requests that own a permit
Streaming  == At(StreamPcs)                  \* requests with an ActiveStream
Judged(o)  == {r \in Requests : verdict[r] = o}

TypeOK ==
  /\ phase   \in {"serving", "draining", "stopped"}
  /\ permits \in Nat
  /\ pc      \in [Requests -> Pcs]
  /\ saw     \in [Requests -> BOOLEAN]
  /\ ending  \in [Requests -> Outcomes \cup {"open"}]
  /\ told    \in [Requests -> {"nothing", "completed", "failed"}]
  /\ verdict \in [Requests -> Outcomes \cup {"none"}]
  /\ billed  \in SUBSET Requests
  /\ quiet   \in SUBSET Requests
  /\ metrics \in [count : [Counters -> Nat], latest : Requests \cup {NoRequest}]

Init ==
  /\ phase   = "serving"
  /\ permits = MaxStreams
  /\ pc      = [r \in Requests |-> "idle"]
  /\ saw     = [r \in Requests |-> FALSE]
  /\ ending  = [r \in Requests |-> "open"]
  /\ told    = [r \in Requests |-> "nothing"]
  /\ verdict = [r \in Requests |-> "none"]
  /\ billed  = {}
  /\ quiet   = {}
  /\ metrics = [count |-> [c \in Counters |-> 0], latest |-> NoRequest]

-----------------------------------------------------------------------------
(* Helpers: what the code between two suspension points does.              *)

\* A task of a running process moves from one suspension point to another.
Step(r, from, to) ==
  /\ phase # "stopped"
  /\ pc[r] = from
  /\ pc' = [pc EXCEPT ![r] = to]

Bump(c)         == metrics' = [metrics EXCEPT !.count[c] = @ + 1]
Release         == permits' = permits + 1
CounterOf(o)    == IF o = "completed" THEN "succeeded" ELSE o

\* record_outcome() up to its await: the counter moves, `latest` does not yet.
RecordOutcome(r, o) ==
  /\ verdict' = [verdict EXCEPT ![r] = o]
  /\ Bump(CounterOf(o))

\* fail_before_stream(), entered from the given suspension point.
FailBeforeStream(r, from) ==
  /\ Step(r, from, "failing")
  /\ RecordOutcome(r, "failed")
  /\ UNCHANGED <<phase, quiet, reqVars>>

\* The stream yields a terminal event to its client.
YieldTerminal(r, event, outcome) ==
  /\ Step(r, "waiting", "yielded")
  /\ told' = [told EXCEPT ![r] = event]
  /\ ending' = [ending EXCEPT ![r] = outcome]
  /\ UNCHANGED <<phase, permits, saw, verdict, billed, quiet, metrics>>

-----------------------------------------------------------------------------
(* The handler.                                                            *)

\* Not loopback, or a bad or oversized Content-Length: counted in the total,
\* answered at once and recorded nowhere else.
RejectEarly(r) ==
  /\ Step(r, "idle", "rejected")
  /\ Bump("total")
  /\ UNCHANGED <<phase, permits, verdict, quiet, reqVars>>

\* Also while draining: a connection accepted before the listener closed may
\* deliver its request after it.
Accept(r) ==
  /\ Step(r, "idle", "reading")
  /\ Bump("total")
  /\ UNCHANGED <<phase, permits, verdict, quiet, reqVars>>

\* The body is too large, is not JSON, or adapt_request() refuses it.
BadBody(r) == FailBeforeStream(r, "reading") /\ UNCHANGED permits

\* try_acquire_owned() never waits.
Busy(r) ==
  /\ permits = 0
  /\ FailBeforeStream(r, "reading")
  /\ UNCHANGED permits

AcquirePermit(r) ==
  /\ permits > 0
  /\ Step(r, "reading", "session")
  /\ permits' = permits - 1
  /\ UNCHANGED <<phase, verdict, quiet, metrics, reqVars>>

\* A session, a 401 worth one refresh, a refreshed session, or a stream:
\* the handler goes on and keeps its permit.
GoOn(r) ==
  /\ \/ Step(r, "session", "posting")
     \/ Step(r, "posting", "refreshing")
     \/ Step(r, "refreshing", "reposting")
     \/ Step(r, "posting", "limits")
     \/ Step(r, "reposting", "limits")
  /\ UNCHANGED <<phase, permits, verdict, quiet, metrics, reqVars>>

\* No session, no refreshed session, no answer, or a success that is not SSE.
GiveUp(r) ==
  /\ \E from \in {"session", "posting", "refreshing", "reposting"} :
       FailBeforeStream(r, from)
  /\ Release

\* An error status: the permit is dropped before the error body is read.
ErrorStatus(r) ==
  /\ \E from \in {"posting", "reposting"} : Step(r, from, "errorbody")
  /\ Release
  /\ UNCHANGED <<phase, verdict, quiet, metrics, reqVars>>

\* Mutant: the handler starts over after an error status.
ErrorBodyRead_Retries(r) ==
  /\ Step(r, "errorbody", "reading")
  /\ UNCHANGED <<phase, permits, verdict, quiet, metrics, reqVars>>

ErrorBodyRead(r) == FailBeforeStream(r, "errorbody") /\ UNCHANGED permits

\* fail_before_stream() gets the write lock of `latest` and answers.
Refuse(r) ==
  /\ Step(r, "failing", "refused")
  /\ metrics' = [metrics EXCEPT !.latest = r]
  /\ UNCHANGED <<phase, permits, verdict, quiet, reqVars>>

\* Mutant: an ActiveStream is made without counting it.
StartStream_Uncounted(r) ==
  /\ Step(r, "limits", "unpolled")
  /\ UNCHANGED <<phase, permits, verdict, quiet, metrics, reqVars>>

\* record_rate_limits() is done: record_stream_start() and the response.
StartStream(r) ==
  /\ Step(r, "limits", "unpolled")
  /\ Bump("active")
  /\ UNCHANGED <<phase, permits, verdict, quiet, reqVars>>

-----------------------------------------------------------------------------
(* The stream.                                                             *)

\* Mutant: `break` leaves only the inner loop.
Poll_NoOuterBreak(r) ==
  /\ \/ Step(r, "unpolled", "waiting")
     \/ Step(r, "yielded", "waiting")
  /\ UNCHANGED <<phase, permits, verdict, quiet, metrics, reqVars>>

\* hyper polls the body: the first poll starts the generator; a later one
\* resumes it after a yield and, if the loop was left, records the outcome.
Poll(r) ==
  /\ \/ /\ \/ Step(r, "unpolled", "waiting")
           \/ ending[r] = "open" /\ Step(r, "yielded", "waiting")
        /\ UNCHANGED <<verdict, metrics>>
     \/ /\ ending[r] # "open"
        /\ Step(r, "yielded", "recording")
        /\ RecordOutcome(r, ending[r])
  /\ UNCHANGED <<phase, permits, quiet, reqVars>>

\* A comment, a [DONE] or an event that the transformer lets through.  An
\* event the transformer filters out changes nothing and is no step.
ForwardFrame(r) ==
  /\ r \notin quiet
  /\ Step(r, "waiting", "yielded")
  /\ UNCHANGED <<phase, permits, verdict, quiet, metrics, reqVars>>

\* An event that is not JSON, or response.created naming another model.
BadFrame(r) == r \notin quiet /\ YieldTerminal(r, "failed", "failed")

\* response.completed; if it carries usage, record_usage() adds the tokens
\* up and waits for `latest_usage` before the event is yielded.
CompletedFrame(r) ==
  /\ r \notin quiet
  /\ saw' = [saw EXCEPT ![r] = TRUE]
  /\ \/ /\ Step(r, "waiting", "usage")
        /\ billed' = billed \cup {r}
        /\ UNCHANGED told
     \/ /\ Step(r, "waiting", "yielded")
        /\ told' = [told EXCEPT ![r] = "completed"]
        /\ UNCHANGED billed
  /\ UNCHANGED <<phase, permits, ending, verdict, quiet, metrics>>

UsageRecorded(r) ==
  /\ Step(r, "usage", "yielded")
  /\ told' = [told EXCEPT ![r] = "completed"]
  /\ UNCHANGED <<phase, permits, saw, ending, verdict, billed, quiet, metrics>>

UpstreamError(r) == r \notin quiet /\ YieldTerminal(r, "failed", "failed")

\* Mutant: no idle timeout once response.completed was seen.
IdleTimeout_UntilCompleted(r) == ~saw[r] /\ YieldTerminal(r, "failed", "failed")

IdleTimeout(r) == YieldTerminal(r, "failed", "failed")

\* Mutant: the end of the body is taken for success.
UpstreamEnd_Completes(r) ==
  /\ r \notin quiet
  /\ YieldTerminal(r, "failed", "completed")

\* The upstream closes: a completed stream records at once, another one
\* tells its client first.
UpstreamEnd(r) ==
  /\ r \notin quiet
  /\ IF saw[r]
     THEN /\ Step(r, "waiting", "recording")
          /\ ending' = [ending EXCEPT ![r] = "completed"]
          /\ RecordOutcome(r, "completed")
          /\ UNCHANGED <<phase, permits, saw, told, billed, quiet>>
     ELSE YieldTerminal(r, "failed", "truncated")

\* Mutant: active_stream.finish() is missing.
FinishStream_Unfinished(r) ==
  /\ Step(r, "recording", "served")
  /\ metrics' = [metrics EXCEPT !.latest = r, !.count["active"] = @ - 1,
                                !.count["cancelled"] = @ + 1]
  /\ Release
  /\ UNCHANGED <<phase, verdict, quiet, reqVars>>

\* `latest` is written, finish() is called, and the stream drops its
\* ActiveStream and its permit.
FinishStream(r) ==
  /\ Step(r, "recording", "served")
  /\ metrics' = [metrics EXCEPT !.latest = r, !.count["active"] = @ - 1]
  /\ Release
  /\ UNCHANGED <<phase, verdict, quiet, reqVars>>

-----------------------------------------------------------------------------
(* The environment.                                                        *)

\* Mutant: the permit is returned by the normal exits only.
DropHandler_Leaks(r) ==
  /\ \E from \in PermitPcs \cup FreePcs : Step(r, from, "abandoned")
  /\ UNCHANGED <<phase, permits, verdict, quiet, metrics, reqVars>>

\* The client leaves and hyper drops the handler.
DropHandler(r) ==
  /\ \E from \in PermitPcs \cup FreePcs : Step(r, from, "abandoned")
  /\ permits' = IF pc[r] \in PermitPcs THEN permits + 1 ELSE permits
  /\ UNCHANGED <<phase, verdict, quiet, metrics, reqVars>>

\* Mutant: the destructor also publishes the request as the latest.
DropStream_Publishes(r) ==
  /\ \E from \in StreamPcs : Step(r, from, "cut")
  /\ metrics' = [metrics EXCEPT !.latest = r, !.count["active"] = @ - 1,
                                !.count["cancelled"] = @ + 1]
  /\ Release
  /\ UNCHANGED <<phase, verdict, quiet, reqVars>>

\* The client leaves and hyper drops the body: an ActiveStream that was not
\* finished counts a cancelled stream.
DropStream(r) ==
  /\ \E from \in StreamPcs : Step(r, from, "cut")
  /\ metrics' = [metrics EXCEPT !.count["active"] = @ - 1,
                                !.count["cancelled"] = @ + 1]
  /\ Release
  /\ UNCHANGED <<phase, verdict, quiet, reqVars>>

\* The upstream keeps the connection open and never sends again.
GoQuiet(r) ==
  /\ phase # "stopped"
  /\ r \in Streaming \ quiet
  /\ quiet' = quiet \cup {r}
  /\ UNCHANGED <<phase, permits, pc, verdict, metrics, reqVars>>

\* SIGTERM or SIGINT: the listener closes, requests in flight go on.
Signal ==
  /\ phase = "serving"
  /\ phase' = "draining"
  /\ UNCHANGED <<permits, pc, verdict, quiet, metrics, reqVars>>

\* serve() returns when the last request is over, or at the deadline; the
\* process then exits and its tasks run no more.
Drained ==
  /\ phase = "draining"
  /\ At(LivePcs) = {}
  /\ phase' = "stopped"
  /\ UNCHANGED <<permits, pc, verdict, quiet, metrics, reqVars>>

DrainTimeout ==
  /\ phase = "draining"
  /\ phase' = "stopped"
  /\ UNCHANGED <<permits, pc, verdict, quiet, metrics, reqVars>>

-----------------------------------------------------------------------------
Handler(r) ==
  \/ RejectEarly(r) \/ Accept(r) \/ BadBody(r) \/ Busy(r) \/ AcquirePermit(r)
  \/ GoOn(r) \/ GiveUp(r) \/ ErrorStatus(r) \/ ErrorBodyRead(r) \/ Refuse(r)
  \/ StartStream(r)

Stream(r) ==
  \/ Poll(r) \/ ForwardFrame(r) \/ BadFrame(r) \/ CompletedFrame(r)
  \/ UsageRecorded(r) \/ UpstreamError(r) \/ IdleTimeout(r) \/ UpstreamEnd(r)
  \/ FinishStream(r)

Leave(r) == DropHandler(r) \/ DropStream(r)

Next ==
  \/ \E r \in Requests : Handler(r) \/ Stream(r) \/ Leave(r) \/ GoQuiet(r)
  \/ Signal \/ Drained \/ DrainTimeout

Spec == Init /\ [][Next]_vars

\* The runtime runs every runnable task and fires every timer; clients read
\* what they are sent (or leave).  Nothing is assumed of upstream or auth.
Fairness ==
  \A r \in Requests : /\ WF_vars(Poll(r)) /\ WF_vars(UsageRecorded(r))
                      /\ WF_vars(IdleTimeout(r)) /\ WF_vars(FinishStream(r))

FairSpec == Spec /\ Fairness

-----------------------------------------------------------------------------
(* Safety.                                                                 *)

\* Every permit is free or owned by exactly one request, on every path out of
\* the handler and the stream: an early return, an error, a client that
\* leaves at any await.  A leak would make the bridge answer 429 for ever, a
\* double release would break the stream limit (server.rs:266-466).
PermitsConserved == permits + Cardinality(Holders) = MaxStreams

\* "Concurrent stream limit" (README.md, CODEX_FOR_GROK_MAX_STREAMS): never
\* more streams than permits, and active_streams, which goes up in the
\* handler and down in a destructor, counts exactly the streams there are.
StreamLimit ==
  /\ Cardinality(Streaming) <= MaxStreams
  /\ metrics.count["active"] = Cardinality(Streaming)

Recorded == {r \in Requests : verdict[r] # "none"}
Owed     == At(LivePcs) \ Recorded            \* still to be counted
Silent   == At({"rejected", "abandoned"}) \ Recorded  \* never counted
Twice    == At({"cut"}) \cap Recorded         \* counted, then also cancelled

\* The books of /v1/status: every request in the total ends in exactly one
\* of the four outcome counters, except those the code answers or loses
\* without recording (Silent) and those dropped inside record_outcome()'s
\* await, which count as their outcome and as cancelled (Twice).
BooksBalance ==
  LET c == metrics.count
  IN  c["total"] + Cardinality(Twice) =
        c["succeeded"] + c["failed"] + c["truncated"] + c["cancelled"]
        + Cardinality(Owed) + Cardinality(Silent)

\* What /v1/status says of a stream is what its client saw last: "completed"
\* only after response.completed was delivered and nothing failed later,
\* "failed" and "truncated" only after the client was sent the failure.  The
\* tokens are added up only for streams that saw response.completed.
VerdictMatchesClient ==
  \A r \in Requests :
    /\ verdict[r] = "completed" => saw[r] /\ told[r] = "completed"
    /\ verdict[r] = "truncated" => ~saw[r] /\ told[r] = "failed"
    /\ verdict[r] = "failed" /\ pc[r] \in StreamPcs \cup {"served", "cut"}
         => told[r] = "failed"
    /\ r \in billed => saw[r]

\* latest_request never shows a request that is still running, and never one
\* whose client left: the cancelled outcomes exist only as a counter.
LatestIsAnswered ==
  metrics.latest # NoRequest => pc[metrics.latest] \in {"refused", "served"}

\* Once the bridge sends its own failure event the stream is over: whatever
\* is left in the chunk, in the decoder or upstream, the client is told
\* nothing more (the break out of two nested loops, server.rs:464-502).
FailureIsLast ==
  [][\A r \in Requests :
       ending[r] # "open" => /\ told'[r] = told[r]
                             /\ ending'[r] = ending[r]
                             /\ pc'[r] # "waiting"]_vars

\* The bridge implements StreamSlots: a request's stage is read off its pc.
Stage(r) ==
  CASE pc[r] = "idle"    -> "new"
    [] pc[r] = "reading" -> "asking"
    [] r \in Holders     -> "holding"
    [] OTHER             -> "over"

Slots == INSTANCE StreamSlots WITH stage <- [r \in Requests |-> Stage(r)]

\* Every step of every handler, stream and client is a step of the abstract
\* semaphore or none of its business: no path takes a permit twice, gives one
\* back twice, or asks again after it was turned away.
ImplementsSlots == Slots!Spec

(* Liveness.                                                               *)

Over == {"served", "cut"}

\* A stream whose upstream falls silent, before or after response.completed
\* and at whatever point of the generator, ends and gives its permit back,
\* unless the process stops first (CODEX_FOR_GROK_IDLE_TIMEOUT_SECS).
QuietStreamEnds ==
  \A r \in Requests :
    r \in quiet ~> pc[r] \in Over \/ phase = "stopped"

=============================================================================
