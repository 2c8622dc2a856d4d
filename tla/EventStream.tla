----------------------------- MODULE EventStream -----------------------------
(***************************************************************************)
(* The SSE stream of the events of one run and a client that follows it:   *)
(* stream_events (runtime.py), list_events (store.py), stream_run and      *)
(* replay_events (api/runs.py).                                            *)
(*                                                                         *)
(* A stream polls the store: it lists the events after its cursor, yields  *)
(* them, then reads the run and ends when that is terminal and the cursor  *)
(* has reached last_sequence.  list_events is three reads, each of which   *)
(* sees the store as it is at that time; the run may be executed by        *)
(* another process, which appends events between them.  The retention      *)
(* window moves on meanwhile, but a cutoff is computed once per listing.   *)
(*                                                                         *)
(* A client keeps its position over broken connections: it asks again with *)
(* afterSequence, the last event it received.  Chunks on the way when the  *)
(* connection breaks are lost.  Heartbeats, which are comments, ownership  *)
(* of the run and the metrics row of the stream are left out.  Timestamps  *)
(* are taken to grow with sequence: events expire in their order.          *)
(***************************************************************************)
EXTENDS Integers, Sequences

CONSTANTS
  MaxEvents,     \* bound: events of the run
  MaxPosition,   \* bound: first afterSequence of the client
  MaxBreaks      \* bound: connections that break, and subscriptions from the start

ASSUME StreamAssumption == MaxEvents \in Nat /\ MaxPosition \in Nat /\ MaxBreaks \in Nat

VARIABLES
  published, over, expired,      \* the run and its events in the store
  stream,                        \* the generator that serves the connection
  wire,                          \* yielded, not yet received
  position, received, reader,    \* the client
  breaks

storeVars == <<published, over, expired>>
clientVars == <<position, received, reader>>
streamVars == <<storeVars, stream, wire, clientVars, breaks>>

NoEarliest == 0

\* pc: NONE no connection; RUN, EARLIEST, ROWS the reads of list_events; SEND the
\* yields; STATUS the get_run after them; CLOSED, BROKEN the generator returned, raised.
\* use: CHECK while replay_events lists, before it answers; then STREAM.
NoStream == [pc |-> "NONE", use |-> "STREAM", cursor |-> 0, cutoff |-> 0,
             last |-> 0, earliest |-> NoEarliest, rows |-> {}]

StreamInit ==
  /\ published = 0 /\ over = FALSE /\ expired = 0
  /\ stream = NoStream /\ wire = <<>>
  /\ position \in 0 .. MaxPosition
  /\ received = <<>> /\ reader = "READING"
  /\ breaks = 0

-----------------------------------------------------------------------------
(* The run *)

\* Event and status are written in one transaction; a terminal run takes no more.
Publish ==
  /\ ~over
  /\ published < MaxEvents
  /\ published' = published + 1
  /\ over' \in BOOLEAN
  /\ UNCHANGED <<expired, stream, wire, clientVars, breaks>>

Expire ==
  /\ expired < published
  /\ expired' = expired + 1
  /\ UNCHANGED <<published, over, stream, wire, clientVars, breaks>>

-----------------------------------------------------------------------------
(* Opening a connection *)

Seen == position + Len(received)

\* A listing begins.
Listing(use, after) == [pc |-> "RUN", use |-> use, cursor |-> after, cutoff |-> 0,
                        last |-> 0, earliest |-> NoEarliest, rows |-> {}]

ResumeFrom == Seen + 1                              \* mutation of AfterSequence

AfterSequence == Seen

\* GET /runs/{runId}/events?afterSequence=N
Replay ==
  /\ reader = "READING"
  /\ stream.pc = "NONE"
  /\ stream' = Listing("CHECK", AfterSequence)
  /\ UNCHANGED <<storeVars, wire, clientVars, breaks>>

\* POST /runs/stream with the messageId of the run attaches to it, from the start.
Subscribe ==
  /\ stream.pc = "NONE"
  /\ breaks < MaxBreaks
  /\ stream' = Listing("STREAM", 0)
  /\ position' = 0 /\ received' = <<>> /\ reader' = "READING"
  /\ breaks' = breaks + 1
  /\ UNCHANGED <<storeVars, wire>>

-----------------------------------------------------------------------------
(* list_events *)

\* The cutoff, and the row of the run.
ReadRun ==
  /\ stream.pc = "RUN"
  /\ stream' = [stream EXCEPT !.pc = "EARLIEST", !.cutoff = expired, !.last = published]
  /\ UNCHANGED <<storeVars, wire, clientVars, breaks>>

EarliestByCutoff(s) == s.cutoff + 1                 \* mutation of Earliest

\* SELECT MIN(sequence) of the events that were not past retention at the cutoff.
Earliest(s) == IF published > s.cutoff THEN s.cutoff + 1 ELSE NoEarliest

ReadEarliest ==
  /\ stream.pc = "EARLIEST"
  /\ stream' = [stream EXCEPT !.pc = "ROWS", !.earliest = Earliest(stream)]
  /\ UNCHANGED <<storeVars, wire, clientVars, breaks>>

RefusesOneEarly(s) ==                               \* mutation of HistoryExpired
  \/ s.earliest = NoEarliest /\ s.last > s.cursor
  \/ s.earliest # NoEarliest /\ s.cursor + 1 <= s.earliest

HistoryExpired(s) ==
  \/ s.earliest = NoEarliest /\ s.last > s.cursor
  \/ s.earliest # NoEarliest /\ s.cursor + 1 < s.earliest

\* EVENT_HISTORY_EXPIRED answers the request with 410, or ends a stream that has
\* begun without a word.
RaiseExpired ==
  /\ stream.pc = "ROWS"
  /\ HistoryExpired(stream)
  /\ reader' = IF stream.use = "CHECK" THEN "REFUSED" ELSE reader
  /\ stream' = IF stream.use = "CHECK" THEN NoStream
               ELSE [stream EXCEPT !.pc = "BROKEN"]
  /\ UNCHANGED <<storeVars, wire, position, received, breaks>>

RowsVisible(s) == {n \in 1 .. published : s.cursor < n /\ s.cutoff < n}

\* What replay_events listed is not used: the stream lists again.
ReadRows ==
  /\ stream.pc = "ROWS"
  /\ ~HistoryExpired(stream)
  /\ stream' = IF stream.use = "CHECK"
               THEN Listing("STREAM", stream.cursor)
               ELSE [stream EXCEPT !.pc = "SEND", !.rows = RowsVisible(stream)]
  /\ UNCHANGED <<storeVars, wire, clientVars, breaks>>

-----------------------------------------------------------------------------
(* stream_events *)

CursorAfter(s, n) == n

\* In the order of sequence.
Yield ==
  /\ stream.pc = "SEND"
  /\ \E n \in stream.rows :
       /\ \A m \in stream.rows : n <= m
       /\ wire' = Append(wire, n)
       /\ stream' = [stream EXCEPT !.cursor = CursorAfter(stream, n), !.rows = @ \ {n}]
  /\ UNCHANGED <<storeVars, clientVars, breaks>>

AllSent ==
  /\ stream.pc = "SEND"
  /\ stream.rows = {}
  /\ stream' = [stream EXCEPT !.pc = "STATUS"]
  /\ UNCHANGED <<storeVars, wire, clientVars, breaks>>

TerminalIsEnough(s) == over                         \* mutation of NothingLeft
NeverBeyond(s) == over /\ s.cursor = published      \* mutation of NothingLeft

NothingLeft(s) == over /\ s.cursor >= published

\* Otherwise a heartbeat may be due, and after a sleep the stream lists again.
ReadStatus ==
  /\ stream.pc = "STATUS"
  /\ stream' = IF NothingLeft(stream) THEN [stream EXCEPT !.pc = "CLOSED"]
               ELSE Listing("STREAM", stream.cursor)
  /\ UNCHANGED <<storeVars, wire, clientVars, breaks>>

-----------------------------------------------------------------------------
(* The connection and the client *)

Receive ==
  /\ wire # <<>>
  /\ received' = Append(received, Head(wire))
  /\ wire' = Tail(wire)
  /\ UNCHANGED <<storeVars, stream, position, reader, breaks>>

\* The response came to its end: the client knows that it has everything.
ReceiveEnd ==
  /\ stream.pc = "CLOSED"
  /\ wire = <<>>
  /\ reader' = "ENDED"
  /\ stream' = NoStream
  /\ UNCHANGED <<storeVars, wire, position, received, breaks>>

\* The generator raised: the response breaks off.
ReceiveBreak ==
  /\ stream.pc = "BROKEN"
  /\ stream' = NoStream
  /\ wire' = <<>>
  /\ UNCHANGED <<storeVars, clientVars, breaks>>

\* The client or the network gives up, or a read of the store raises.
Break ==
  /\ stream.pc # "NONE"
  /\ breaks < MaxBreaks
  /\ breaks' = breaks + 1
  /\ stream' = NoStream
  /\ wire' = <<>>
  /\ UNCHANGED <<storeVars, clientVars>>

-----------------------------------------------------------------------------
StreamNext ==
  \/ Publish \/ Expire
  \/ Replay \/ Subscribe
  \/ ReadRun \/ ReadEarliest \/ RaiseExpired \/ ReadRows
  \/ Yield \/ AllSent \/ ReadStatus
  \/ Receive \/ ReceiveEnd \/ ReceiveBreak \/ Break

\* The event loop serves the generator, the network delivers, the client asks
\* again after a break.  Nothing is assumed of the run.
Serve ==
  \/ ReadRun \/ ReadEarliest \/ RaiseExpired \/ ReadRows \/ Yield \/ AllSent \/ ReadStatus

StreamFairness ==
  /\ WF_streamVars(Serve)
  /\ WF_streamVars(Receive) /\ WF_streamVars(ReceiveEnd) /\ WF_streamVars(ReceiveBreak)
  /\ WF_streamVars(Replay)

StreamSpec == StreamInit /\ [][StreamNext]_streamVars
FairStreamSpec == StreamSpec /\ StreamFairness

-----------------------------------------------------------------------------
(* Properties *)

\* A stream that has seen at most n events.
Stream(n) ==
  [pc : {"NONE", "RUN", "EARLIEST", "ROWS", "SEND", "STATUS", "CLOSED", "BROKEN"},
   use : {"CHECK", "STREAM"}, cursor : Nat, cutoff : 0 .. n, last : 0 .. n, earliest : 0 .. n,
   rows : SUBSET (1 .. n)]

\* The variables keep their types; a stream lists only what the store holds.
StreamTypeOK ==
  /\ published \in 0 .. MaxEvents /\ over \in BOOLEAN /\ expired \in 0 .. published
  /\ stream \in Stream(published)
  /\ wire \in Seq(1 .. published)
  /\ position \in Nat /\ received \in Seq(1 .. published)
  /\ reader \in {"READING", "ENDED", "REFUSED"}
  /\ breaks \in 0 .. MaxBreaks

\* What the client is told, over all its connections, are the events after the
\* position it began with, each once and in order: the events that run on between
\* the reads of list_events, the ones that expire meanwhile, and the chunks lost with
\* a connection leave no gap and bring no event twice.
NoGapNoRepeat == \A i \in DOMAIN received : received[i] = position + i

\* A client that saw the stream end has the terminal event: the status that ended the
\* stream was read after the events, and covers them.
EndedClientHasItAll == reader = "ENDED" => over /\ Seen >= published

\* The client is refused only when an event it has not seen is past retention.
RefusedOnlyWhenLost == reader = "REFUSED" => Seen < expired

\* Stream and client together implement the feed.
Feed == INSTANCE EventFeed
ImplementsFeed == Feed!FeedSpec

\* Once the run is over, a client that asks again after each break comes to the end
\* of the stream, or learns that it cannot have it.
ClientLearnsTheEnd == over ~> reader # "READING"
=============================================================================
