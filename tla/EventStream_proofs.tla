------------------------- MODULE EventStream_proofs -------------------------
(***************************************************************************)
(* Proofs about EventStream, for every number of events, starting position *)
(* and number of broken connections.                                       *)
(*                                                                         *)
(*   StreamTypeCorrect      the variables keep their types                 *)
(*   StreamHasNoGap         no gap and no repetition over reconnections    *)
(*   StreamEndIsTheEnd      a stream that ended told everything            *)
(*   StreamRefusesRightly   a refusal means that an unseen event is gone   *)
(*   StreamImplementsFeed   stream and client implement EventFeed          *)
(***************************************************************************)
EXTENDS EventStream, TLAPS

\* The chunks on the way continue what the client has.
WireInv ==
  /\ \A i \in DOMAIN wire : wire[i] = Seen + i
  /\ stream.pc = "NONE" \/ stream.use = "CHECK" => wire = <<>>

\* The cursor counts what was yielded over this connection.
CursorInv ==
  stream.pc # "NONE" => stream.cursor = Seen + Len(wire) /\ reader = "READING"

\* What a listing has read stays explained by the store.
ListingInv ==
  /\ stream.pc \in {"EARLIEST", "ROWS"} => stream.cutoff <= expired /\ stream.cutoff <= stream.last
  /\ stream.pc = "ROWS" => \/ stream.earliest = NoEarliest /\ stream.last <= stream.cutoff
                           \/ stream.earliest = stream.cutoff + 1
  /\ stream.pc = "SEND" => \E k \in Nat : k <= published /\ stream.rows = (stream.cursor + 1) .. k
  /\ stream.pc = "CLOSED" => over /\ stream.cursor >= published
  /\ stream.pc \in {"SEND", "STATUS", "CLOSED", "BROKEN"} => stream.use = "STREAM"

StreamInv ==
  /\ StreamTypeOK
  /\ NoGapNoRepeat
  /\ WireInv
  /\ CursorInv
  /\ ListingInv
  /\ EndedClientHasItAll
  /\ RefusedOnlyWhenLost

-----------------------------------------------------------------------------

LEMMA SeqGrows ==
  ASSUME NEW n \in Nat, NEW s \in Seq(1 .. n)
  PROVE  s \in Seq(1 .. (n + 1))
BY 1 .. n \subseteq 1 .. (n + 1)

\* The part of the type invariant that the fields of the stream depend on.
LEMMA StreamOf ==
  ASSUME StreamInv
  PROVE  published \in Nat /\ expired \in 0 .. published /\ stream \in Stream(published)
BY StreamAssumption DEF StreamAssumption, StreamInv, StreamTypeOK

LEMMA NoStreamOf == ASSUME NEW n \in Nat PROVE NoStream \in Stream(n)
BY DEF NoStream, NoEarliest, Stream

LEMMA ListingOf ==
  ASSUME NEW n \in Nat, NEW c \in Nat, NEW u \in {"CHECK", "STREAM"}
  PROVE  Listing(u, c) \in Stream(n) /\ Listing(u, c).pc = "RUN"
         /\ Listing(u, c).cursor = c /\ Listing(u, c).use = u
BY DEF Listing, NoEarliest, Stream

\* The steps of a stream, each within the type.
LEMMA RunRead ==
  ASSUME NEW n \in Nat, NEW s \in Stream(n), NEW c \in 0 .. n, NEW l \in 0 .. n
  PROVE  [s EXCEPT !.pc = "EARLIEST", !.cutoff = c, !.last = l] \in Stream(n)
BY DEF Stream

LEMMA EarliestRead ==
  ASSUME NEW n \in Nat, NEW s \in Stream(n), NEW e \in 0 .. n
  PROVE  [s EXCEPT !.pc = "ROWS", !.earliest = e] \in Stream(n)
BY DEF Stream

LEMMA RowsRead ==
  ASSUME NEW n \in Nat, NEW s \in Stream(n), NEW R \in SUBSET (1 .. n)
  PROVE  [s EXCEPT !.pc = "SEND", !.rows = R] \in Stream(n)
BY DEF Stream

LEMMA RowYielded ==
  ASSUME NEW n \in Nat, NEW s \in Stream(n), NEW c \in Nat, NEW R \in SUBSET (1 .. n)
  PROVE  [s EXCEPT !.cursor = c, !.rows = R] \in Stream(n)
BY DEF Stream

LEMMA MovedOn ==
  ASSUME NEW n \in Nat, NEW s \in Stream(n), NEW p \in {"STATUS", "CLOSED", "BROKEN"}
  PROVE  [s EXCEPT !.pc = p] \in Stream(n)
BY DEF Stream

LEMMA HeadOf ==
  ASSUME NEW S, NEW w \in Seq(S), w # <<>>
  PROVE  1 \in DOMAIN w /\ Head(w) = w[1] /\ w[1] \in S
<1>1. Len(w) \in Nat /\ Len(w) # 0 /\ DOMAIN w = 1 .. Len(w)
  OBVIOUS
<1>2. Head(w) = w[1]
  OBVIOUS
<1> QED BY <1>1, <1>2

LEMMA StreamInvInit == StreamInit => StreamInv
<1> SUFFICES ASSUME StreamInit PROVE StreamInv
  OBVIOUS
<1> USE StreamAssumption DEF StreamAssumption, StreamInit
<1>1. StreamTypeOK
  <2>1. stream \in Stream(published)
    BY NoStreamOf
  <2>2. wire \in Seq(1 .. published) /\ received \in Seq(1 .. published)
    OBVIOUS
  <2>3. position \in Nat /\ breaks \in 0 .. MaxBreaks /\ published \in 0 .. MaxEvents
        /\ expired \in 0 .. published /\ reader = "READING"
    OBVIOUS
  <2>4. over \in BOOLEAN
    OBVIOUS
  <2> HIDE DEF StreamInit
  <2> QED BY <2>1, <2>2, <2>3, <2>4 DEF StreamTypeOK
<1>2. NoGapNoRepeat /\ WireInv /\ CursorInv /\ ListingInv
  BY DEF NoGapNoRepeat, WireInv, CursorInv, ListingInv, NoStream, Listing
<1>3. EndedClientHasItAll /\ RefusedOnlyWhenLost
  BY DEF EndedClientHasItAll, RefusedOnlyWhenLost
<1> QED BY <1>1, <1>2, <1>3 DEF StreamInv

LEMMA PublishKeeps == StreamInv /\ Publish => StreamInv'
<1> SUFFICES ASSUME StreamInv, Publish PROVE StreamInv'
  OBVIOUS
<1> USE StreamAssumption DEF StreamAssumption, StreamInv, Publish, storeVars, clientVars
<1>1. published \in Nat /\ published' = published + 1 /\ 1 .. published \subseteq 1 .. published'
  BY DEF StreamTypeOK, Stream
<1>2. StreamTypeOK'
  <2>1. wire' \in Seq(1 .. published') /\ received' \in Seq(1 .. published')
    BY <1>1, SeqGrows DEF StreamTypeOK, Stream
  <2>2. stream' \in Stream(published')
    BY <1>1 DEF StreamTypeOK, Stream
  <2> QED BY <2>1, <2>2, <1>1 DEF StreamTypeOK, Stream
<1>3. NoGapNoRepeat' /\ WireInv' /\ CursorInv'
  BY DEF NoGapNoRepeat, WireInv, CursorInv, Seen
<1>4. ListingInv'
  BY <1>1 DEF ListingInv, StreamTypeOK, Stream
<1>5. EndedClientHasItAll' /\ RefusedOnlyWhenLost'
  BY DEF EndedClientHasItAll, RefusedOnlyWhenLost, Seen
<1> QED BY <1>2, <1>3, <1>4, <1>5

LEMMA ExpireKeeps == StreamInv /\ Expire => StreamInv'
BY StreamAssumption
   DEF StreamAssumption, storeVars, StreamInv, Expire, StreamTypeOK, Stream, NoGapNoRepeat, WireInv, CursorInv, ListingInv,
       EndedClientHasItAll, RefusedOnlyWhenLost, Seen, clientVars

\* The steps of the generator that leave wire and client alone.
LEMMA ListingKeeps ==
  StreamInv /\ (ReadRun \/ ReadEarliest \/ ReadRows \/ AllSent \/ ReadStatus) => StreamInv'
<1> SUFFICES ASSUME StreamInv, ReadRun \/ ReadEarliest \/ ReadRows \/ AllSent \/ ReadStatus
             PROVE  StreamInv'
  OBVIOUS
<1> USE StreamAssumption DEF StreamAssumption, StreamInv, storeVars, clientVars
<1>1. UNCHANGED <<published, over, expired, wire, position, received, reader, breaks>>
  BY DEF ReadRun, ReadEarliest, ReadRows, AllSent, ReadStatus
<1>2. NoGapNoRepeat' /\ EndedClientHasItAll' /\ RefusedOnlyWhenLost'
  BY <1>1 DEF NoGapNoRepeat, EndedClientHasItAll, RefusedOnlyWhenLost, Seen
<1>3. /\ stream.pc # "NONE" /\ stream'.pc # "NONE"
      /\ stream'.cursor = stream.cursor
      /\ stream'.use = "CHECK" => stream.use = "CHECK"
  <2>1. CASE ReadRun
    BY <2>1, StreamOf DEF ReadRun, Stream
  <2>2. CASE ReadEarliest
    BY <2>2, StreamOf DEF ReadEarliest, Stream
  <2>3. CASE ReadRows
    BY <2>3, StreamOf DEF ReadRows, Listing, Stream
  <2>4. CASE AllSent
    BY <2>4, StreamOf DEF AllSent, Stream
  <2>5. CASE ReadStatus
    BY <2>5, StreamOf DEF ReadStatus, Listing, Stream
  <2> QED BY <2>1, <2>2, <2>3, <2>4, <2>5
<1>4. WireInv' /\ CursorInv'
  BY <1>1, <1>3 DEF WireInv, CursorInv, Seen
<1>5. CASE ReadRun
  <2>1. stream' \in Stream(published)
    <3>1. published \in 0 .. published
      BY StreamOf
    <3> QED BY <1>5, <3>1, StreamOf, RunRead DEF ReadRun
  <2>2. ListingInv'
    BY <1>5 DEF ReadRun, StreamTypeOK, Stream, ListingInv
  <2> QED BY <1>1, <1>2, <1>4, <2>1, <2>2 DEF StreamTypeOK, Stream
<1>6. CASE ReadEarliest
  <2>1. stream' \in Stream(published)
    <3>1. Earliest(stream) \in 0 .. published
      BY StreamOf DEF Earliest, NoEarliest, Stream
    <3> QED BY <1>6, <3>1, StreamOf, EarliestRead DEF ReadEarliest
  <2>2. ListingInv'
    BY <1>6 DEF ReadEarliest, Earliest, NoEarliest, StreamTypeOK, Stream, ListingInv
  <2> QED BY <1>1, <1>2, <1>4, <2>1, <2>2 DEF StreamTypeOK, Stream
<1>7. CASE ReadRows
  <2>1. stream.cutoff <= stream.cursor
    BY <1>7 DEF ReadRows, HistoryExpired, ListingInv, StreamTypeOK, Stream
  <2>2. RowsVisible(stream) = (stream.cursor + 1) .. published
    BY <2>1 DEF RowsVisible, StreamTypeOK, Stream
  <2>3. RowsVisible(stream) \in SUBSET (1 .. published)
    BY DEF RowsVisible
  <2>4. stream' \in Stream(published)
    <3>1. stream.cursor \in Nat
      BY StreamOf DEF Stream
    <3> QED BY <1>7, <2>3, <3>1, StreamOf, RowsRead, ListingOf DEF ReadRows
  <2>5. ListingInv'
    BY <1>7, <2>2 DEF ReadRows, StreamTypeOK, Stream, NoStream, Listing, ListingInv
  <2> QED BY <1>1, <1>2, <1>4, <2>4, <2>5 DEF StreamTypeOK, Stream
<1>8. CASE AllSent
  <2>1. stream' \in Stream(published)
    BY <1>8, StreamOf, MovedOn DEF AllSent
  <2>2. ListingInv'
    BY <1>8 DEF AllSent, StreamTypeOK, Stream, ListingInv
  <2> QED BY <1>1, <1>2, <1>4, <2>1, <2>2 DEF StreamTypeOK, Stream
<1>9. CASE ReadStatus
  <2>1. stream' \in Stream(published)
    <3>1. stream.cursor \in Nat
      BY StreamOf DEF Stream
    <3> QED BY <1>9, <3>1, StreamOf, MovedOn, ListingOf DEF ReadStatus
  <2>2. ListingInv'
    BY <1>9 DEF ReadStatus, NothingLeft, StreamTypeOK, Stream, ListingInv, NoStream, Listing
  <2> QED BY <1>1, <1>2, <1>4, <2>1, <2>2 DEF StreamTypeOK, Stream
<1> QED BY <1>5, <1>6, <1>7, <1>8, <1>9

LEMMA ExpiredKeeps == StreamInv /\ RaiseExpired => StreamInv'
<1> SUFFICES ASSUME StreamInv, RaiseExpired PROVE StreamInv'
  OBVIOUS
<1> USE StreamAssumption DEF StreamAssumption, StreamInv, RaiseExpired, storeVars
<1>1. stream.cursor < expired
  BY SMTT(20) DEF HistoryExpired, ListingInv, StreamTypeOK, Stream, NoEarliest
<1>2. stream.use = "CHECK" => wire = <<>> /\ Seen < expired
  BY <1>1 DEF WireInv, CursorInv, StreamTypeOK, Stream, Seen
<1>3. StreamTypeOK' /\ NoGapNoRepeat'
  <2>1. stream' \in Stream(published)
    BY StreamOf, NoStreamOf, MovedOn
  <2> QED BY <2>1 DEF StreamTypeOK, Stream, NoGapNoRepeat
<1>4. WireInv' /\ CursorInv' /\ ListingInv'
  BY <1>2 DEF WireInv, CursorInv, ListingInv, StreamTypeOK, Stream, NoStream, Seen
<1>5. EndedClientHasItAll' /\ RefusedOnlyWhenLost'
  BY <1>2 DEF EndedClientHasItAll, RefusedOnlyWhenLost, CursorInv, Seen, StreamTypeOK, Stream
<1> QED BY <1>3, <1>4, <1>5

LEMMA YieldKeeps == StreamInv /\ Yield => StreamInv'
<1> SUFFICES ASSUME StreamInv, Yield PROVE StreamInv'
  OBVIOUS
<1> USE StreamAssumption DEF StreamAssumption, StreamInv, storeVars, clientVars
<1>1. PICK n \in stream.rows : /\ \A m \in stream.rows : n <= m
                               /\ wire' = Append(wire, n)
                               /\ stream' = [stream EXCEPT !.cursor = n, !.rows = @ \ {n}]
  BY DEF Yield, CursorAfter
<1>2. UNCHANGED <<published, over, expired, position, received, reader, breaks>> /\ stream.pc = "SEND"
  BY DEF Yield
<1>3. PICK k \in Nat : k <= published /\ stream.rows = (stream.cursor + 1) .. k
  BY <1>2 DEF ListingInv
<1>4. n = stream.cursor + 1 /\ n \in 1 .. published /\ stream'.rows = (n + 1) .. k
  <2>1. stream.cursor \in Nat /\ published \in Nat
    BY DEF StreamTypeOK, Stream
  <2>2. stream.cursor + 1 \in stream.rows
    BY <1>1, <1>3, <2>1
  <2>3. n = stream.cursor + 1
    BY <2>1, <2>2, <1>1, <1>3
  <2>4. stream'.rows = stream.rows \ {n}
    BY <1>1 DEF StreamTypeOK, Stream
  <2> QED BY <2>1, <2>3, <2>4, <1>1, <1>3
<1>5. StreamTypeOK'
  <2>1. wire' \in Seq(1 .. published)
    BY <1>1, <1>4 DEF StreamTypeOK, Stream
  <2>2. stream' \in Stream(published)
    <3>1. n \in Nat /\ stream.rows \ {n} \in SUBSET (1 .. published)
      BY <1>4, StreamOf DEF Stream
    <3> QED BY <1>1, <3>1, StreamOf, RowYielded
  <2> QED BY <2>1, <2>2, <1>2 DEF StreamTypeOK, Stream
<1>6. n = Seen + Len(wire) + 1 /\ Seen \in Nat /\ Len(wire) \in Nat /\ Seen' = Seen
  <2>1. Seen \in Nat /\ Len(wire) \in Nat /\ Seen' = Seen
    BY <1>2 DEF StreamTypeOK, Seen
  <2> QED BY <2>1, <1>2, <1>4 DEF CursorInv
<1>7. WireInv'
  <2>1. /\ Len(wire') = Len(wire) + 1 /\ DOMAIN wire' = 1 .. (Len(wire) + 1)
        /\ \A i \in 1 .. Len(wire) : wire'[i] = wire[i]
        /\ wire'[Len(wire) + 1] = n
    BY <1>1, <1>4 DEF StreamTypeOK, Stream
  <2>2. DOMAIN wire = 1 .. Len(wire)
    BY DEF StreamTypeOK, Stream
  <2>3. \A i \in DOMAIN wire' : wire'[i] = Seen + i
    BY <2>1, <2>2, <1>6 DEF WireInv
  <2>4. stream'.use = "STREAM" /\ stream'.pc # "NONE"
    BY <1>1, <1>2 DEF ListingInv, StreamTypeOK, Stream
  <2> QED BY <2>3, <2>4, <1>6 DEF WireInv
<1>8. CursorInv'
  BY <1>1, <1>2, <1>4, <1>6 DEF CursorInv, StreamTypeOK, Stream
<1>9. ListingInv'
  BY <1>1, <1>2, <1>3, <1>4 DEF ListingInv, StreamTypeOK, Stream
<1>10. NoGapNoRepeat' /\ EndedClientHasItAll' /\ RefusedOnlyWhenLost'
  BY <1>2, <1>6 DEF NoGapNoRepeat, EndedClientHasItAll, RefusedOnlyWhenLost
<1> QED BY <1>5, <1>7, <1>8, <1>9, <1>10

LEMMA ReceiveNext ==
  ASSUME StreamInv, Receive
  PROVE  /\ received' = Append(received, Seen + 1)
         /\ Seen' = Seen + 1 /\ Len(wire') = Len(wire) - 1
         /\ reader = "READING" /\ Seen < published
<1>1. wire \in Seq(1 .. published) /\ wire # <<>> /\ wire' = Tail(wire)
      /\ received' = Append(received, Head(wire)) /\ position' = position
  BY DEF StreamInv, StreamTypeOK, Stream, Receive
<1>2. Head(wire) = Seen + 1 /\ Head(wire) \in 1 .. published
  <2>1. 1 \in DOMAIN wire /\ Head(wire) = wire[1] /\ wire[1] \in 1 .. published
    BY <1>1, HeadOf
  <2> QED BY <2>1 DEF StreamInv, WireInv
<1>3. received \in Seq(1 .. published) /\ position \in Nat /\ published \in Nat
  BY DEF StreamInv, StreamTypeOK, Stream
<1>4. Len(received') = Len(received) + 1 /\ Len(wire') = Len(wire) - 1
  BY <1>1, <1>2, <1>3
<1>5. reader = "READING"
  BY <1>1 DEF StreamInv, WireInv, CursorInv
<1> QED BY <1>1, <1>2, <1>3, <1>4, <1>5 DEF Seen

LEMMA ReceiveKeeps == StreamInv /\ Receive => StreamInv'
<1> SUFFICES ASSUME StreamInv, Receive PROVE StreamInv'
  OBVIOUS
<1> USE StreamAssumption DEF StreamAssumption
<1>1. /\ received' = Append(received, Seen + 1)
      /\ Seen' = Seen + 1 /\ Len(wire') = Len(wire) - 1
      /\ reader = "READING" /\ Seen < published
  BY ReceiveNext
<1>2. UNCHANGED <<published, over, expired, stream, position, reader, breaks>>
      /\ wire # <<>> /\ wire' = Tail(wire)
  BY DEF Receive, storeVars
<1>3. wire \in Seq(1 .. published) /\ received \in Seq(1 .. published) /\ position \in Nat
      /\ published \in Nat /\ Seen \in Nat
  BY DEF StreamInv, StreamTypeOK, Stream, Seen
<1>4. StreamTypeOK'
  <2>1. Seen + 1 \in 1 .. published
    BY <1>1, <1>3
  <2>2. received' \in Seq(1 .. published) /\ wire' \in Seq(1 .. published)
    BY <1>1, <1>2, <1>3, <2>1
  <2> QED BY <1>2, <2>2 DEF StreamInv, StreamTypeOK, Stream
<1>5. NoGapNoRepeat'
  <2>1. /\ DOMAIN received' = 1 .. (Len(received) + 1) /\ DOMAIN received = 1 .. Len(received)
        /\ \A i \in 1 .. Len(received) : received'[i] = received[i]
        /\ received'[Len(received) + 1] = Seen + 1
    BY <1>1, <1>3
  <2>2. ASSUME NEW i \in 1 .. Len(received) PROVE received'[i] = position + i
    BY <2>1, <2>2 DEF StreamInv, NoGapNoRepeat
  <2>3. received'[Len(received) + 1] = position + (Len(received) + 1)
    BY <2>1, <1>3 DEF Seen
  <2>4. Len(received) \in Nat
    BY <1>3
  <2> QED BY <2>1, <2>2, <2>3, <2>4, <1>2 DEF NoGapNoRepeat
<1>6. WireInv'
  <2>1. /\ DOMAIN wire' = 1 .. (Len(wire) - 1) /\ DOMAIN wire = 1 .. Len(wire)
        /\ \A i \in 1 .. (Len(wire) - 1) : wire'[i] = wire[i + 1]
    BY <1>2, <1>3
  <2>2. ASSUME NEW i \in 1 .. (Len(wire) - 1) PROVE wire'[i] = Seen' + i
    <3>1. i + 1 \in DOMAIN wire /\ i \in Nat
      BY <2>1, <1>3
    <3>2. wire[i + 1] = Seen + (i + 1)
      BY <3>1 DEF StreamInv, WireInv
    <3> QED BY <3>1, <3>2, <2>1, <1>1, <1>3
  <2> QED BY <2>1, <2>2, <1>2 DEF StreamInv, WireInv
<1>7. CursorInv'
  BY <1>1, <1>2, <1>3 DEF StreamInv, CursorInv
<1>8. ListingInv' /\ EndedClientHasItAll' /\ RefusedOnlyWhenLost'
  BY <1>1, <1>2 DEF StreamInv, ListingInv, EndedClientHasItAll, RefusedOnlyWhenLost
<1> QED BY <1>4, <1>5, <1>6, <1>7, <1>8 DEF StreamInv

LEMMA OpenKeeps == StreamInv /\ (Replay \/ Subscribe) => StreamInv'
<1> SUFFICES ASSUME StreamInv, Replay \/ Subscribe PROVE StreamInv'
  OBVIOUS
<1> USE StreamAssumption DEF StreamAssumption, StreamInv, storeVars, clientVars
<1>1. /\ stream.pc = "NONE" /\ wire = <<>>
      /\ UNCHANGED <<storeVars, wire>>
      /\ position' \in Nat /\ received' \in Seq(1 .. published) /\ reader' = "READING"
      /\ breaks' \in 0 .. MaxBreaks
  <2>1. CASE Replay
    BY <2>1 DEF Replay, WireInv, StreamTypeOK
  <2>2. CASE Subscribe
    BY <2>2 DEF Subscribe, WireInv, StreamTypeOK
  <2> QED BY <2>1, <2>2
<1>2. Seen' \in Nat
  BY <1>1 DEF Seen
<1>3. PICK u \in {"CHECK", "STREAM"} : stream' = Listing(u, Seen')
  <2>1. CASE Replay
    BY <2>1 DEF Replay, AfterSequence, Seen
  <2>2. CASE Subscribe
    BY <2>2 DEF Subscribe, Seen
  <2> QED BY <2>1, <2>2
<1>4. stream' \in Stream(published) /\ stream'.pc = "RUN" /\ stream'.cursor = Seen'
  BY <1>2, <1>3, StreamOf, ListingOf
<1>5. NoGapNoRepeat'
  <2>1. CASE Replay
    BY <2>1 DEF Replay, NoGapNoRepeat
  <2>2. CASE Subscribe
    BY <2>2 DEF Subscribe, NoGapNoRepeat
  <2> QED BY <2>1, <2>2
<1>6. StreamTypeOK'
  BY <1>1, <1>4 DEF StreamTypeOK, Stream
<1>7. WireInv' /\ CursorInv'
  <2>1. wire' = <<>> /\ Len(wire') = 0 /\ DOMAIN wire' = {}
    BY <1>1
  <2>2. WireInv'
    BY <2>1 DEF WireInv
  <2>3. stream'.cursor = Seen' + Len(wire') /\ reader' = "READING"
    <3>1. \A x \in Nat : x + 0 = x
      OBVIOUS
    <3>2. Seen' + Len(wire') = Seen'
      BY <3>1, <2>1, <1>2, Zenon
    <3> QED BY <3>2, <1>1, <1>4
  <2> QED BY <2>2, <2>3 DEF CursorInv
<1>9. ListingInv'
  BY <1>4 DEF ListingInv
<1>8. EndedClientHasItAll' /\ RefusedOnlyWhenLost'
  BY <1>1 DEF EndedClientHasItAll, RefusedOnlyWhenLost
<1> QED BY <1>5, <1>6, <1>7, <1>8, <1>9

LEMMA CloseKeeps == StreamInv /\ (ReceiveEnd \/ ReceiveBreak \/ Break) => StreamInv'
<1> SUFFICES ASSUME StreamInv, ReceiveEnd \/ ReceiveBreak \/ Break PROVE StreamInv'
  OBVIOUS
<1> USE StreamAssumption DEF StreamAssumption, StreamInv, storeVars, clientVars
<1>1. /\ UNCHANGED <<storeVars, position, received>>
      /\ stream' = NoStream /\ wire' = <<>> /\ breaks' \in 0 .. MaxBreaks
      /\ stream.pc # "NONE"
  BY DEF ReceiveEnd, ReceiveBreak, Break, StreamTypeOK, Stream
<1>2. reader' # reader => reader' = "ENDED" /\ over /\ Seen >= published
  BY DEF ReceiveEnd, ReceiveBreak, Break, CursorInv, ListingInv, Seen, StreamTypeOK, Stream
<1>3. stream' \in Stream(published) /\ stream'.pc = "NONE"
  <2>1. NoStream \in Stream(published) /\ NoStream.pc = "NONE"
    BY StreamOf, NoStreamOf DEF NoStream
  <2> QED BY <2>1, <1>1
<1>4. StreamTypeOK'
  BY <1>1, <1>2, <1>3 DEF StreamTypeOK, Stream
<1>5. NoGapNoRepeat' /\ WireInv' /\ CursorInv' /\ ListingInv'
  BY <1>1, <1>3 DEF NoGapNoRepeat, WireInv, CursorInv, ListingInv, NoStream, Listing
<1>6. EndedClientHasItAll' /\ RefusedOnlyWhenLost'
  BY <1>1, <1>2 DEF EndedClientHasItAll, RefusedOnlyWhenLost, Seen
<1> QED BY <1>4, <1>5, <1>6

LEMMA StreamInvStep == StreamInv /\ [StreamNext]_streamVars => StreamInv'
<1> SUFFICES ASSUME StreamInv, [StreamNext]_streamVars PROVE StreamInv'
  OBVIOUS
<1>1. CASE StreamNext
  BY <1>1, PublishKeeps, ExpireKeeps, ListingKeeps, ExpiredKeeps, YieldKeeps, ReceiveKeeps,
     OpenKeeps, CloseKeeps DEF StreamNext
<1>2. CASE UNCHANGED streamVars
  BY <1>2 DEF StreamInv, StreamTypeOK, Stream, NoGapNoRepeat, WireInv, CursorInv, ListingInv,
              EndedClientHasItAll, RefusedOnlyWhenLost, Seen,
              streamVars, storeVars, clientVars
<1> QED BY <1>1, <1>2

LEMMA StreamInvAlways == StreamSpec => []StreamInv
BY StreamInvInit, StreamInvStep, PTL DEF StreamSpec

-----------------------------------------------------------------------------

\* Every variable keeps its type, whatever the reads of a listing see.
THEOREM StreamTypeCorrect == StreamSpec => []StreamTypeOK
BY StreamInvAlways, PTL DEF StreamInv

\* However often the connection breaks, and whatever is appended or expires between
\* the reads of a listing, the client is told consecutive events, each once.
THEOREM StreamHasNoGap == StreamSpec => []NoGapNoRepeat
BY StreamInvAlways, PTL DEF StreamInv

\* A stream ends only after its terminal event: reading the status after the events
\* loses nothing that was appended in between.
THEOREM StreamEndIsTheEnd == StreamSpec => []EndedClientHasItAll
BY StreamInvAlways, PTL DEF StreamInv

\* EVENT_HISTORY_EXPIRED is never answered to a client whose next event is still there.
THEOREM StreamRefusesRightly == StreamSpec => []RefusedOnlyWhenLost
BY StreamInvAlways, PTL DEF StreamInv

-----------------------------------------------------------------------------
(* The refinement *)

LEMMA FeedStep == StreamInv /\ [StreamNext]_streamVars => [Feed!FeedNext]_Feed!feedVars
<1> SUFFICES ASSUME StreamInv, [StreamNext]_streamVars PROVE [Feed!FeedNext]_Feed!feedVars
  OBVIOUS
<1> USE DEF Feed!feedVars, Feed!FeedNext, storeVars, clientVars
<1>1. CASE Publish
  BY <1>1 DEF Publish, Feed!FeedPublish
<1>2. CASE Expire
  BY <1>2 DEF Expire, Feed!FeedExpire
<1>3. CASE Receive
  BY <1>3, ReceiveNext DEF Receive, Feed!FeedTell, Feed!Seen, Seen
<1>4. CASE ReceiveEnd
  <2>1. reader = "READING" /\ over /\ Seen >= published
    BY <1>4 DEF ReceiveEnd, StreamInv, StreamTypeOK, Stream, CursorInv, ListingInv, Seen
  <2> QED BY <1>4, <2>1 DEF ReceiveEnd, Feed!FeedEnd, Feed!Seen, Seen
<1>5. CASE RaiseExpired
  <2>1. stream.use = "CHECK" => reader' = "REFUSED" /\ reader = "READING"
    BY <1>5 DEF RaiseExpired, StreamInv, CursorInv
  <2>2. stream.use = "CHECK" => Seen < expired
    <3>1. StreamInv'
      BY <1>5, ExpiredKeeps
    <3> QED BY <1>5, <2>1, <3>1 DEF StreamInv, RefusedOnlyWhenLost, RaiseExpired, Seen
  <2> QED BY <1>5, <2>1, <2>2 DEF RaiseExpired, Feed!FeedRefuse, Feed!Seen, Seen
<1>6. CASE Subscribe
  BY <1>6 DEF Subscribe, Feed!FeedRestart
<1>7. CASE Replay \/ ReadRun \/ ReadEarliest \/ ReadRows \/ Yield \/ AllSent \/ ReadStatus
           \/ ReceiveBreak \/ Break \/ UNCHANGED streamVars
  BY <1>7 DEF Replay, ReadRun, ReadEarliest, ReadRows, Yield, AllSent, ReadStatus,
              ReceiveBreak, Break, streamVars
<1> QED BY <1>1, <1>2, <1>3, <1>4, <1>5, <1>6, <1>7 DEF StreamNext

\* Three reads for a listing, a status read later, chunks lost with a connection and
\* a client that asks again amount to a feed told event by event.
THEOREM StreamImplementsFeed == StreamSpec => ImplementsFeed
<1>1. StreamInit => Feed!FeedInit
  BY StreamAssumption DEF StreamAssumption, StreamInit, Feed!FeedInit
<1> QED BY <1>1, StreamInvAlways, FeedStep, PTL DEF StreamSpec, ImplementsFeed, Feed!FeedSpec
=============================================================================
