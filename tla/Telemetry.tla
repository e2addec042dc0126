------------------------------ MODULE Telemetry ------------------------------
(***************************************************************************)
(* telemetry/__init__.py and mcp_server/observability/tracing.py: the      *)
(* spans of the requests of a server, from the sampling decision to the    *)
(* collector.  The threads of the requests record the spans they end in a  *)
(* bounded buffer and, when an endpoint is configured, in a bounded queue, *)
(* which the exporter thread drains every few seconds and flush_exporter() *)
(* before the process ends.  The collector is external.                    *)
(*                                                                         *)
(* A span is a request and what it is for; what a span tells, its times    *)
(* and the count of the spans that were sent, which nothing reads, are     *)
(* left out.                                                               *)
(***************************************************************************)
EXTENDS Naturals, Sequences, FiniteSets

CONSTANTS Requests,
          Inner,       \* the spans inside run(): the authorization's and the executor's
          NoSpan,
          SampleRatio, \* OTEL_SAMPLE_RATIO: none, some or all of the traces
          BufferSize,  \* OTEL_MAX_SPANS
          QueueSize    \* maxsize of _EXPORT_QUEUE

Kinds == {"root", "query"} \cup Inner
Spans == Requests \X Kinds
Drainers == {"worker", "flush"}

ASSUME TelemetryAssumption ==
    /\ NoSpan \notin Spans
    /\ "root" \notin Inner /\ "query" \notin Inner
    /\ SampleRatio \in {"none", "some", "all"}
    /\ BufferSize \in Nat \ {0} /\ QueueSize \in Nat \ {0}

VARIABLES exporting,  \* _EXPORTER_THREAD is not None
          flag,       \* trace_flags of the spans that were started
          opened,     \* the spans each request has open, the innermost last
          putting,    \* the span each request has yet to put on the queue
          buffer, queue,
          drainer,    \* where the exporter thread and flush_exporter() are
          hand,       \* the set of the spans each of them has taken from the queue
          arrived,    \* how often the collector has received each span
          lost,       \* history: the spans it will not receive
          down        \* the process has ended

tracing == <<exporting, flag, opened, putting>>
exporter == <<drainer, hand, arrived>>
telemetry == <<tracing, buffer, queue, exporter, lost, down>>

SpanOf(r, kind) == <<r, kind>>
Elements(s) == {s[i] : i \in DOMAIN s}

\* start_exporter() has run; it starts no thread without an endpoint.
TelemetryInit ==
    /\ exporting \in BOOLEAN
    /\ flag = [s \in Spans |-> ""]
    /\ opened = [r \in Requests |-> <<>>]
    /\ putting = [r \in Requests |-> NoSpan]
    /\ buffer = <<>> /\ queue = <<>>
    /\ drainer = [d \in Drainers |-> IF d = "worker" /\ exporting THEN "sleep" ELSE "idle"]
    /\ hand = [d \in Drainers |-> {}]
    /\ arrived = [s \in Spans |-> 0]
    /\ lost = {}
    /\ down = FALSE

-----------------------------------------------------------------------------
(* The spans of a request *)

\* _sample_flag(): what the parent's flag leaves to decide.
SampleFlag(parent) ==
    IF parent \in {"00", "01"} THEN {parent}
    ELSE (IF SampleRatio # "none" THEN {"01"} ELSE {}) \cup
         (IF SampleRatio # "all" THEN {"00"} ELSE {})

\* What parse_traceparent() makes of the header: no parent, or one with any hex flags.
RemoteFlags == {"", "00", "01", "other"}

\* child_span_context(): the TraceContext holds no flag.
ChildFlag(r) == "01"

Start(s, parent) ==
    /\ flag[s] = ""
    /\ \E f \in SampleFlag(parent) : flag' = [flag EXCEPT ![s] = f]
    /\ opened' = [opened EXCEPT ![s[1]] = Append(@, s)]
    /\ UNCHANGED <<exporting, putting, buffer, queue, exporter, lost, down>>

\* trace_middleware().
StartRoot(r) == ~down /\ \E remote \in RemoteFlags : Start(SpanOf(r, "root"), remote)

Innermost(r) == opened[r][Len(opened[r])]
Inside(r, kind) ==
    /\ ~down
    /\ putting[r] = NoSpan
    /\ opened[r] # <<>> /\ Innermost(r) = SpanOf(r, kind)

\* QueryService.run(), and in it authorize_sql() and QueryExecutor.run().
StartQuery(r) == Inside(r, "root") /\ Start(SpanOf(r, "query"), ChildFlag(r))
StartInner(r, kind) == Inside(r, "query") /\ Start(SpanOf(r, kind), ChildFlag(r))

Front(s) == SubSeq(s, 1, Len(s) - 1)
Latest(s) == IF Len(s) > BufferSize THEN Tail(s) ELSE s

\* Tracer.end() and the first half of _record(): nothing is kept of a span that is not
\* sampled.
End(r) ==
    /\ ~down
    /\ putting[r] = NoSpan
    /\ opened[r] # <<>>
    /\ opened' = [opened EXCEPT ![r] = Front(@)]
    /\ LET s == Innermost(r) IN
       IF flag[s] = "01"
         THEN /\ buffer' = Latest(Append(buffer, s))
              /\ putting' = [putting EXCEPT ![r] = IF exporting THEN s ELSE @]
         ELSE UNCHANGED <<buffer, putting>>
    /\ UNCHANGED <<exporting, flag, queue, exporter, lost, down>>

\* put_nowait(): a full queue drops the new span.
Put(r) ==
    /\ ~down
    /\ putting[r] # NoSpan
    /\ putting' = [putting EXCEPT ![r] = NoSpan]
    /\ \/ /\ Len(queue) < QueueSize
          /\ queue' = Append(queue, putting[r])
          /\ UNCHANGED lost
       \/ /\ Len(queue) >= QueueSize
          /\ lost' = lost \cup {putting[r]}
          /\ UNCHANGED queue
    /\ UNCHANGED <<exporting, flag, opened, buffer, exporter, down>>

\* _run() raises: run() does not end its span, the middleware ends the root.
Abandon(r) ==
    /\ Inside(r, "query")
    /\ opened' = [opened EXCEPT ![r] = Front(@)]
    /\ UNCHANGED <<exporting, flag, putting, buffer, queue, exporter, lost, down>>

-----------------------------------------------------------------------------
(* _exporter_worker() and flush_exporter() *)

Go(d, step) == drainer' = [drainer EXCEPT ![d] = step]

Wake ==
    /\ ~down
    /\ drainer["worker"] = "sleep"
    /\ Go("worker", "drain")
    /\ UNCHANGED <<tracing, buffer, queue, hand, arrived, lost, down>>

\* The server flushes when it stops, an agent after every run.
BeginFlush ==
    /\ ~down
    /\ drainer["flush"] \in {"idle", "flushed"}
    /\ Go("flush", IF exporting THEN "drain" ELSE "flushed")
    /\ UNCHANGED <<tracing, buffer, queue, hand, arrived, lost, down>>

Done(d) == IF d = "worker" THEN "sleep" ELSE "flushed"

\* _drain_export_queue(), one get_nowait() at a time.
Drain(d) ==
    /\ ~down
    /\ drainer[d] = "drain"
    /\ \/ /\ queue # <<>>
          /\ hand' = [hand EXCEPT ![d] = @ \cup {Head(queue)}]
          /\ queue' = Tail(queue)
          /\ UNCHANGED drainer
       \/ /\ queue = <<>>
          /\ Go(d, IF hand[d] = {} THEN Done(d) ELSE "post")
          /\ UNCHANGED <<hand, queue>>
    /\ UNCHANGED <<tracing, buffer, arrived, lost, down>>

Group(d, r) == {s \in hand[d] : s[1] = r}
Rest_ByOne(d, r) == hand[d] \ {CHOOSE s \in hand[d] : s[1] = r}
Rest(d, r) == hand[d] \ Group(d, r)

\* _post_otlp() of one trace of the batch, in any order.  The collector receives it, whether
\* or not its answer comes back, or it does not; a failure is not repeated.
Post(d) ==
    /\ ~down
    /\ drainer[d] = "post"
    /\ \E r \in Requests :
       /\ Group(d, r) # {}
       /\ \/ /\ arrived' = [s \in Spans |->
                              IF s \in Group(d, r) THEN arrived[s] + 1 ELSE arrived[s]]
             /\ UNCHANGED lost
          \/ /\ lost' = lost \cup Group(d, r)
             /\ UNCHANGED arrived
       /\ hand' = [hand EXCEPT ![d] = Rest(d, r)]
       /\ IF Rest(d, r) = {} THEN Go(d, Done(d)) ELSE UNCHANGED drainer
    /\ UNCHANGED <<tracing, buffer, queue, down>>

InFlight ==
    Elements(queue) \cup hand["worker"] \cup hand["flush"]
                    \cup ({putting[r] : r \in Requests} \ {NoSpan})

\* The process ends after a flush: the exporter thread is a daemon, and what it has in
\* its hands goes with it.
Exit ==
    /\ ~down
    /\ drainer["flush"] = "flushed"
    /\ down' = TRUE
    /\ buffer' = <<>>
    /\ lost' = lost \cup InFlight
    /\ queue' = <<>>
    /\ hand' = [d \in Drainers |-> {}]
    /\ putting' = [r \in Requests |-> NoSpan]
    /\ UNCHANGED <<exporting, flag, opened, drainer, arrived>>

-----------------------------------------------------------------------------
TelemetryNext ==
    \/ \E r \in Requests :
          \/ StartRoot(r) \/ StartQuery(r) \/ \E kind \in Inner : StartInner(r, kind)
          \/ End(r) \/ Put(r) \/ Abandon(r)
    \/ Wake \/ BeginFlush \/ Exit
    \/ \E d \in Drainers : Drain(d) \/ Post(d)

TelemetrySpec == TelemetryInit /\ [][TelemetryNext]_telemetry

-----------------------------------------------------------------------------
TelemetryTypeOK ==
    /\ exporting \in BOOLEAN /\ down \in BOOLEAN
    /\ flag \in [Spans -> {"", "00", "01"}]
    /\ opened \in [Requests -> Seq(Spans)]
    /\ putting \in [Requests -> Spans \cup {NoSpan}]
    /\ buffer \in Seq(Spans) /\ Len(buffer) <= BufferSize
    /\ queue \in Seq(Spans) /\ Len(queue) <= QueueSize
    /\ drainer \in [Drainers -> {"idle", "sleep", "drain", "post", "flushed"}]
    /\ hand \in [Drainers -> SUBSET Spans]
    /\ arrived \in [Spans -> Nat]
    /\ lost \subseteq Spans

\* What has become of each span on its way from _record() to the collector.
FateOf(s) ==
    CASE arrived[s] > 1                                      -> "repeated"
      [] arrived[s] = 1                                      -> "delivered"
      [] arrived[s] = 0 /\ s \in lost                        -> "lost"
      [] arrived[s] = 0 /\ s \notin lost /\ s \in InFlight   -> "pending"
      [] arrived[s] = 0 /\ s \notin lost \cup InFlight       -> "local"

Fates == [s \in Spans |-> FateOf(s)]

Delivery == INSTANCE SpanDelivery WITH Spans <- Spans, fate <- Fates

\* The exporter implements SpanDelivery, "never exports a batch twice": with the exporter
\* thread and a flush draining the queue side by side, a full queue, failed posts and the
\* end of the process, no span reaches the collector twice or after it was given up, and
\* none disappears without being counted as lost.
DeliverySpec == Delivery!Spec
=============================================================================
