------------------------------ MODULE EventFeed ------------------------------
(***************************************************************************)
(* What the event history of one run promises to somebody who follows it,  *)
(* however often the connection breaks: the events one by one in their     *)
(* order, from the place the reader asked for; the end only when the run   *)
(* is over and every event was told; a refusal only when an event that the *)
(* reader has not seen is past the retention window.                       *)
(***************************************************************************)
EXTENDS Naturals, Sequences

VARIABLES
  published,   \* number of events of the run; they are numbered from 1
  over,        \* the run is terminal
  expired,     \* events 1 .. expired are past the retention window
  position,    \* the reader asked for the events after this one
  received,    \* what it was told since
  reader       \* "READING", "ENDED" or "REFUSED"

feedVars == <<published, over, expired, position, received, reader>>

Seen == position + Len(received)

FeedInit ==
  /\ published = 0 /\ over = FALSE /\ expired = 0
  /\ position \in Nat
  /\ received = <<>> /\ reader = "READING"

FeedPublish ==
  /\ ~over
  /\ published' = published + 1
  /\ over' \in BOOLEAN
  /\ UNCHANGED <<expired, position, received, reader>>

FeedExpire ==
  /\ expired < published
  /\ expired' = expired + 1
  /\ UNCHANGED <<published, over, position, received, reader>>

FeedTell ==
  /\ reader = "READING"
  /\ Seen < published
  /\ received' = Append(received, Seen + 1)
  /\ UNCHANGED <<published, over, expired, position, reader>>

FeedEnd ==
  /\ reader = "READING"
  /\ over /\ Seen >= published
  /\ reader' = "ENDED"
  /\ UNCHANGED <<published, over, expired, position, received>>

FeedRefuse ==
  /\ reader = "READING"
  /\ Seen < expired
  /\ reader' = "REFUSED"
  /\ UNCHANGED <<published, over, expired, position, received>>

\* The reader begins again, from the first event.
FeedRestart ==
  /\ position' = 0 /\ received' = <<>> /\ reader' = "READING"
  /\ UNCHANGED <<published, over, expired>>

FeedNext ==
  \/ FeedPublish \/ FeedExpire \/ FeedTell \/ FeedEnd \/ FeedRefuse \/ FeedRestart

FeedSpec == FeedInit /\ [][FeedNext]_feedVars
=============================================================================
