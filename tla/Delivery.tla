------------------------------ MODULE Delivery -------------------------------
(***************************************************************************)
(* One connection of the IPC server (internal/ipc/server.go) and what      *)
(* feeds it: the changes of the syncer and the results of the mutator,     *)
(* each through the subscription channel of its source, a forwarder of     *)
(* cmd/omatorrent-service/main.go and a channel of its own.                *)
(*                                                                         *)
(* Six goroutines share the connection: handle reads requests and answers  *)
(* them, the delta pump and the pump of results send what they receive,    *)
(* the writer drains the bounded queue to the socket, two forwarders feed  *)
(* the pumps.  Every send is one critical section of connIO.               *)
(*                                                                         *)
(* Abstractions: changes and results are numbered in the order they are    *)
(* published; a delta is one or more frames; what a goroutine holds        *)
(* between a receive and a non-blocking send is still in the channel;      *)
(* a write succeeds or fails at any time, and deadlines expire or not.     *)
(* Other connections have queues of their own and no effect on this one.   *)
(***************************************************************************)
EXTENDS Integers, Sequences, FiniteSets

CONSTANTS
  SrcCap,    \* capacity of a source's subscription channel (64; results 16)
  FwdCap,    \* capacity of a forwarder's channel (16)
  OutCap,    \* frames queued for the connection (256)
  Items,     \* torrents in a snapshot
  MaxParts,  \* bound: frames of one delta
  MaxSeq,    \* bound: changes published in a behaviour
  MaxRes,    \* bound: results published
  MaxReq     \* bound: requests of the client

ASSUME DeliveryAssumption ==
  /\ SrcCap \in Nat \ {0} /\ FwdCap \in Nat \ {0} /\ OutCap \in Nat \ {0}
  /\ Items \in Nat /\ MaxParts \in Nat \ {0}
  /\ MaxSeq \in Nat /\ MaxRes \in Nat /\ MaxReq \in Nat

VARIABLES
  published,  \* changes and results their sources have published
  src, fwd, ch, \* each feed: its source's channel, its forwarder and that one's
  rd, left,     \* handle, and the frames of the snapshot it has yet to send
  requests, subscribed,  \* how many requests it has read; one was a subscribe
  pump, todo,   \* the delta pump, and the frames of the delta it has in hand
  rpump,        \* the pump of results
  latched,      \* the connection is in mutConns
  sent, written,      \* every frame enqueued, and how many the writer took off
  closed, canceller,  \* the queue is closed; subCancel is set
  wr, sock,     \* the writer, and the server's end of the socket
  closing,      \* Close has been called
  base,         \* history: the last change in the snapshot
  since,        \* history: results published before the first mutation request
  missed        \* history: results a feed has lost

feedVars == <<src, fwd, ch>>
rdVars   == <<rd, left, requests, subscribed, base, since>>
qVars    == <<sent, closed, canceller>>
vars == <<published, feedVars, rdVars, todo, pump, rpump, latched, qVars, written,
          wr, sock, closing, missed>>

-----------------------------------------------------------------------------
(* Frames.                                                                 *)

Kinds  == {"reply", "error", "result", "subscribed", "begin", "item", "end", "delta"}
Frames == [kind : Kinds, n : Nat, part : Nat, last : BOOLEAN]

Frame(k, n) == [kind |-> k, n |-> n, part |-> 1, last |-> TRUE]

\* subscribed, snapshot.begin, one snapshot.item each, snapshot.end (which
\* is marked with the snapshot's change: history).
SnapshotFrames ==
  <<Frame("subscribed", 0), Frame("begin", 0)>>
    \o [i \in 1..Items |-> Frame("item", i)] \o <<Frame("end", base)>>

\* EncodeDeltas splits change n into k frames with the same seq; which part
\* a frame is and whether it is the last one is history.
DeltaFrames(n, k) ==
  [i \in 1..k |-> [kind |-> "delta", n |-> n, part |-> i, last |-> i = k]]

-----------------------------------------------------------------------------
(* The queue of the connection.                                            *)

Room == Len(sent) - written < OutCap

\* cancel of a subscription: its source's channel is closed, once.
Cancelled(f) == [src EXCEPT ![f].open = FALSE]

\* The queue is closed and, if it is known already, the subscription
\* cancelled.
DropConnection ==
  /\ closed' = TRUE
  /\ canceller' = FALSE
  /\ src' = IF canceller THEN Cancelled("changes") ELSE src

\* teardown: idempotent.
Teardown ==
  \/ ~closed /\ DropConnection
  \/ closed /\ UNCHANGED <<closed, canceller, src>>

\* Mutant of Overflow: the frame is dropped and the connection lives on.
SkipFrame == ~closed /\ ~Room /\ UNCHANGED qVars /\ UNCHANGED src

\* A full queue ends the connection.
Overflow == ~closed /\ ~Room /\ DropConnection /\ UNCHANGED sent

\* send: enqueue without waiting, overflow, or do nothing after the end.
Send(frame) ==
  \/ ~closed /\ Room /\ sent' = Append(sent, frame) /\ UNCHANGED <<closed, canceller, src>>
  \/ Overflow
  \/ closed /\ UNCHANGED qVars /\ UNCHANGED src

-----------------------------------------------------------------------------
(* The feeds: what a source publishes goes through the source's channel    *)
(* and the forwarder's.                                                    *)

Feeds == {"changes", "results"}

Chan(open) == [open |-> open, buf |-> <<>>]

\* A non-blocking send of the source; a subscriber whose channel is full is
\* dropped.
Offer(f, n) ==
  src' = IF src[f].open /\ Len(src[f].buf) < SrcCap
           THEN [src EXCEPT ![f].buf = Append(@, n)]
           ELSE [src EXCEPT ![f].open = FALSE]

Publish(f) ==
  /\ published[f] < (IF f = "changes" THEN MaxSeq ELSE MaxRes)
  /\ published' = [published EXCEPT ![f] = @ + 1]
  /\ Offer(f, published'[f])
  /\ missed' = IF f = "results" /\ Len(src'[f].buf) = Len(src[f].buf)
                 THEN missed \cup {published'[f]} ELSE missed
  /\ UNCHANGED <<fwd, ch, rdVars, todo, pump, rpump, latched, qVars, written, wr, sock, closing>>

\* The consumer is too slow: the forwarder ends, with all it has not
\* forwarded. Only that of the results cancels its subscription.
GiveUp(f) ==
  /\ fwd' = [fwd EXCEPT ![f] = "done"]
  /\ IF f = "results"
       THEN /\ src' = [src EXCEPT ![f] = Chan(FALSE)]
            /\ missed' = missed \cup {src[f].buf[i] : i \in DOMAIN src[f].buf}
       ELSE /\ src' = [src EXCEPT ![f].buf = Tail(@)]
            /\ UNCHANGED missed

Forward(f) ==
  /\ fwd[f] = "run" /\ src[f].buf # <<>>
  /\ \/ /\ Len(ch[f].buf) < FwdCap
        /\ ch' = [ch EXCEPT ![f].buf = Append(@, Head(src[f].buf))]
        /\ src' = [src EXCEPT ![f].buf = Tail(@)]
        /\ UNCHANGED <<fwd, missed>>
     \/ /\ Len(ch[f].buf) = FwdCap
        /\ GiveUp(f)
        /\ ch' = [ch EXCEPT ![f].open = (fwd'[f] = "run")]
  /\ UNCHANGED <<published, rdVars, todo, pump, rpump, latched, qVars, written, wr, sock, closing>>

\* The source's channel is closed and drained: so is the forwarder's.
ForwarderEnds(f) ==
  /\ fwd[f] = "run" /\ src[f] = Chan(FALSE)
  /\ fwd' = [fwd EXCEPT ![f] = "done"]
  /\ ch' = [ch EXCEPT ![f].open = FALSE]
  /\ UNCHANGED <<published, src, rdVars, todo, pump, rpump, latched, qVars, written, wr, sock,
                 closing, missed>>

-----------------------------------------------------------------------------
(* The delta pump, started at the end of startSubscription.                *)

pumpRest == <<published, fwd, rdVars, rpump, latched, written, wr, sock, closing, missed>>

\* abort: cancel, then teardown.
Abort ==
  /\ src' = Cancelled("changes")
  /\ closed' = TRUE
  /\ canceller' = (canceller /\ closed)

PumpTake ==
  /\ pump = "run" /\ todo = <<>> /\ ch["changes"].buf # <<>>
  /\ ch' = [ch EXCEPT !["changes"].buf = Tail(@)]
  /\ \E k \in 1..MaxParts : todo' = DeltaFrames(Head(ch["changes"].buf), k)
  /\ UNCHANGED <<pumpRest, src, pump, qVars>>

\* A change that cannot be framed ends the connection.
PumpAborts ==
  /\ pump = "run" /\ todo = <<>> /\ ch["changes"].buf # <<>>
  /\ ch' = [ch EXCEPT !["changes"].buf = Tail(@)]
  /\ pump' = "done"
  /\ Abort
  /\ UNCHANGED <<pumpRest, todo, sent>>

\* The next frame of the delta. The pump ends if it could not be sent.
PumpSend ==
  /\ pump = "run" /\ todo # <<>>
  /\ Send(Head(todo))
  /\ todo' = IF closed' THEN <<>> ELSE Tail(todo)
  /\ pump' = IF closed' THEN "cancel" ELSE "run"
  /\ UNCHANGED <<pumpRest, ch>>

PumpCancels ==
  /\ pump = "cancel"
  /\ src' = Cancelled("changes")
  /\ pump' = "done"
  /\ UNCHANGED <<pumpRest, ch, todo, qVars>>

\* Mutant of DroppedBySource: the pump just ends.
Quietly == UNCHANGED <<closed, canceller, src>>

\* A feed that has ended before the client did ends the connection.
DroppedBySource == Teardown

PumpEnds ==
  /\ pump = "run" /\ todo = <<>> /\ ch["changes"] = Chan(FALSE)
  /\ pump' = "done"
  /\ DroppedBySource
  /\ UNCHANGED <<pumpRest, ch, todo, sent>>

-----------------------------------------------------------------------------
(* handle: the handshake, the requests, and a subscription's snapshot.     *)

rdRest == <<published, todo, rpump, written, wr, closing, missed>>

\* Leaving handle tears the connection down, if a send has not, and takes it
\* off the maps of the server.
Exit == rd' = "gone" /\ latched' = FALSE

\* Whether another request is read after a send (the check of alive).
Resume ==
  IF closed' THEN Exit ELSE rd' = "read" /\ UNCHANGED latched

\* A hello is answered directly; then the writer starts.
Handshake ==
  /\ rd = "hello" /\ sock = "open"
  /\ rd' = "read" /\ wr' = "run"
  /\ UNCHANGED <<published, feedVars, left, requests, subscribed, base, since, todo, pump,
                 rpump, latched, qVars, written, sock, closing, missed>>

\* No hello in time, a wrong one, or an unwritable socket: no writer runs,
\* and teardown closes the socket.
HandshakeFails ==
  /\ rd = "hello"
  /\ Exit
  /\ Teardown
  /\ sock' = "closed"
  /\ UNCHANGED <<rdRest, fwd, ch, left, requests, subscribed, base, since, pump, sent>>

\* A request is read, perhaps one that was received before the socket was
\* closed.
Read == rd = "read" /\ requests < MaxReq /\ requests' = requests + 1

\* A status request, a test or a configuration, and a second
\* torrent.subscribe: one frame in answer, after work of bounded duration.
Query ==
  /\ Read
  /\ Send(Frame("reply", 0))
  /\ Resume
  /\ UNCHANGED <<rdRest, fwd, ch, left, subscribed, base, since, pump, sock>>

\* A frame that is too large, invalid, unknown or out of place is answered
\* with an error, after which handle returns.
BadRequest ==
  /\ Read
  /\ Send(Frame("error", 0))
  /\ rd' = "leave"
  /\ UNCHANGED <<rdRest, fwd, ch, left, subscribed, base, since, pump, latched, sock>>

\* handle returns: after an error, or because the client has closed its end
\* or been idle for too long, or the socket is closed.
Leave ==
  /\ rd \in {"read", "leave"}
  /\ Exit
  /\ Teardown
  /\ UNCHANGED <<rdRest, fwd, ch, left, requests, subscribed, base, since, pump, sent, sock>>

\* startSubscription: the snapshot and the registration with the syncer are
\* one critical section of the syncer's, which also starts the forwarder.
Subscribe ==
  /\ Read
  /\ ~subscribed
  /\ subscribed' = TRUE
  /\ base' = published["changes"]
  /\ src' = [src EXCEPT !["changes"] = Chan(TRUE)]
  /\ ch' = [ch EXCEPT !["changes"] = Chan(TRUE)]
  /\ fwd' = [fwd EXCEPT !["changes"] = "run"]
  /\ rd' = "subscribe"
  /\ UNCHANGED <<rdRest, left, since, pump, latched, qVars, sock>>

SetSubCancel ==
  /\ rd = "subscribe"
  /\ canceller' = TRUE
  /\ left' = SnapshotFrames
  /\ rd' = "snapshot"
  /\ UNCHANGED <<rdRest, feedVars, requests, subscribed, base, since, pump, latched, sent, closed,
                 sock>>

\* sendBlocking: the snapshot waits for room.
SnapshotSend ==
  /\ rd = "snapshot" /\ left # <<>>
  /\ ~closed /\ Room
  /\ sent' = Append(sent, Head(left))
  /\ left' = Tail(left)
  /\ UNCHANGED <<rdRest, feedVars, rd, requests, subscribed, base, since, pump, latched, closed,
                 canceller, sock>>

\* Mutant of SnapshotEnds: the subscription is not cancelled.
TornDown == Teardown

\* The connection is torn down meanwhile, there is no room before the
\* deadline, or an item cannot be framed.
SnapshotEnds == Abort

SnapshotFails ==
  /\ rd = "snapshot" /\ left # <<>>
  /\ closed \/ ~Room \/ Head(left).kind = "item"
  /\ SnapshotEnds
  /\ Exit
  /\ left' = <<>>
  /\ UNCHANGED <<rdRest, fwd, ch, requests, subscribed, base, since, pump, sent, sock>>

StartPump ==
  /\ rd = "snapshot" /\ left = <<>>
  /\ pump' = "run"
  /\ IF closed THEN Exit ELSE rd' = "read" /\ UNCHANGED latched
  /\ UNCHANGED <<rdRest, feedVars, left, requests, subscribed, base, since, qVars, sock>>

\* Mutant of Latched: the connection is entered once its request is accepted.
LatchedLate == latched

\* Whether the connection receives results: from its first mutation request
\* on, before that is submitted, unless the server is closing.
Latched == latched \/ ~closing

Mutate ==
  /\ Read
  /\ rd' = "submit"
  /\ latched' = Latched
  /\ since' = IF since < 0 /\ ~closing THEN published["results"] ELSE since
  /\ UNCHANGED <<rdRest, feedVars, left, subscribed, base, pump, qVars, sock>>

\* Submit returns within its timeout, and its outcome is sent.
Submitted ==
  /\ rd = "submit"
  /\ Send(Frame("reply", 0))
  /\ Resume
  /\ UNCHANGED <<rdRest, fwd, ch, left, requests, subscribed, base, since, pump, sock>>

-----------------------------------------------------------------------------
(* The writer.                                                             *)

wrRest == <<published, fwd, ch, rdVars, todo, pump, rpump, latched, sent, closing, missed>>

Write ==
  /\ wr = "run" /\ written < Len(sent) /\ sock = "open"
  /\ written' = written + 1
  /\ UNCHANGED <<wrRest, src, closed, canceller, wr, sock>>

\* A failed write, or one beyond its deadline, tears the queue down.
WriteFails ==
  /\ wr = "run" /\ written < Len(sent)
  /\ Teardown
  /\ wr' = "done"
  /\ UNCHANGED <<wrRest, written, sock>>

\* Mutant of HangUp: the socket is left to somebody else.
HangOn == UNCHANGED sock

HangUp == sock' = "closed"

\* A closed queue is drained first; then the writer closes the socket.
WriterEnds ==
  /\ wr = "run" /\ written = Len(sent) /\ closed
  /\ wr' = "done"
  /\ HangUp
  /\ UNCHANGED <<wrRest, src, closed, canceller, written>>

-----------------------------------------------------------------------------
(* The pump of results, and shutdown.                                      *)

rpRest == <<published, rdVars, todo, pump, latched, written, wr, sock, closing>>

\* One result is sent to every connection in mutConns.
PushResult ==
  /\ ch["results"].buf # <<>>
  /\ ch' = [ch EXCEPT !["results"].buf = Tail(@)]
  /\ \/ latched /\ Send(Frame("result", Head(ch["results"].buf)))
     \/ ~latched /\ UNCHANGED qVars /\ UNCHANGED src
  /\ UNCHANGED <<rpRest, fwd, rpump, missed>>

\* The source has dropped the pump: it pauses ...
Drained ==
  /\ rpump = "run" /\ ch["results"] = Chan(FALSE)
  /\ rpump' = "pause"
  /\ src' = Cancelled("results")
  /\ UNCHANGED <<rpRest, fwd, ch, qVars, missed>>

\* ... and subscribes again.
Rearm ==
  /\ rpump = "pause"
  /\ rpump' = "run"
  /\ src' = [src EXCEPT !["results"] = Chan(TRUE)]
  /\ ch' = [ch EXCEPT !["results"] = Chan(TRUE)]
  /\ fwd' = [fwd EXCEPT !["results"] = "run"]
  /\ UNCHANGED <<rpRest, qVars, missed>>

PumpStops ==
  /\ rpump # "stopped" /\ closing
  /\ rpump' = "stopped"
  /\ src' = Cancelled("results")
  /\ UNCHANGED <<rpRest, fwd, ch, qVars, missed>>

\* Close closes the sockets of the connections in clients.
Disconnect == sock' = IF rd = "gone" THEN sock ELSE "closed"

Close ==
  /\ ~closing
  /\ closing' = TRUE
  /\ Disconnect
  /\ UNCHANGED <<published, feedVars, rdVars, todo, pump, rpump, latched, qVars, written, wr, missed>>

-----------------------------------------------------------------------------
(* The specification.                                                      *)

Init ==
  /\ published = [f \in Feeds |-> 0]
  /\ src = [f \in Feeds |-> Chan(f = "results")]
  /\ ch = [f \in Feeds |-> Chan(f = "results")]
  /\ fwd = [f \in Feeds |-> IF f = "results" THEN "run" ELSE "none"]
  /\ rd = "hello" /\ left = <<>> /\ requests = 0 /\ subscribed = FALSE
  /\ todo = <<>> /\ pump = "none" /\ rpump = "run" /\ latched = FALSE
  /\ sent = <<>> /\ written = 0 /\ closed = FALSE /\ canceller = FALSE
  /\ wr = "none" /\ sock = "open" /\ closing = FALSE
  /\ base = 0 /\ since = -1 /\ missed = {}

DeltaPump   == PumpTake \/ PumpAborts \/ PumpSend \/ PumpCancels \/ PumpEnds
Subscribing == SetSubCancel \/ SnapshotSend \/ SnapshotFails \/ StartPump
Handle      == Handshake \/ HandshakeFails \/ Query \/ BadRequest \/ Leave
                 \/ Subscribe \/ Subscribing \/ Mutate \/ Submitted
Writer      == Write \/ WriteFails \/ WriterEnds
ResultPump  == PushResult \/ Drained \/ Rearm \/ PumpStops

Next ==
  \/ \E f \in Feeds : Publish(f) \/ Forward(f) \/ ForwarderEnds(f)
  \/ DeltaPump \/ Handle \/ Writer \/ ResultPump \/ Close

Spec == Init /\ [][Next]_vars

\* Goroutines run; reads and writes have deadlines, and so has a snapshot.
\* A client that keeps sending requests may stay for ever, but not beyond
\* the end of its connection.
FairSpec ==
  /\ Spec
  /\ \A f \in Feeds : WF_vars(Forward(f) \/ ForwarderEnds(f))
  /\ WF_vars(DeltaPump)
  /\ WF_vars(Handshake \/ HandshakeFails \/ Subscribing \/ Submitted
               \/ ((closed \/ sock = "closed" \/ rd = "leave") /\ Leave))
  /\ WF_vars(Writer)
  /\ WF_vars(PushResult)
  /\ WF_vars(Drained \/ Rearm \/ PumpStops)

-----------------------------------------------------------------------------
(* What the client has seen.                                               *)

\* The frames of the feed that were written, and the latest of them.
FeedKinds == {"subscribed", "begin", "item", "end", "delta"}
Received  == {i \in 1..written : sent[i].kind \in FeedKinds}
Latest ==
  LET R == Received
  IN  IF R = {} THEN Frame("none", 0) ELSE sent[CHOOSE i \in R : \A j \in R : j <= i]

\* The writer may still write, or start.
Live == wr = "run" \/ (wr = "none" /\ rd # "gone")

F == INSTANCE Feed WITH committed <- published["changes"], got <- Cardinality(Received),
                        latest <- Latest, live <- Live

\* The change the client has in full, -1 before the end of the snapshot.
View ==
  CASE Latest.kind = "end"   -> Latest.n
    [] Latest.kind = "delta" -> IF Latest.last THEN Latest.n ELSE Latest.n - 1
    [] OTHER                 -> -1

-----------------------------------------------------------------------------
(* Properties.                                                             *)

Channels(max) == [open : BOOLEAN, buf : Seq(1..max)]

TypeOK ==
  /\ published \in [Feeds -> Nat]
  /\ src \in [Feeds -> Channels(MaxSeq + MaxRes)] /\ ch \in [Feeds -> Channels(MaxSeq + MaxRes)]
  /\ \A f \in Feeds : Len(src[f].buf) <= SrcCap /\ Len(ch[f].buf) <= FwdCap
  /\ fwd \in [Feeds -> {"none", "run", "done"}]
  /\ rd \in {"hello", "read", "subscribe", "snapshot", "submit", "leave", "gone"}
  /\ left \in Seq(Frames) /\ requests \in 0..MaxReq /\ subscribed \in BOOLEAN
  /\ pump \in {"none", "run", "cancel", "done"} /\ todo \in Seq(Frames)
  /\ rpump \in {"run", "pause", "stopped"} /\ latched \in BOOLEAN
  /\ sent \in Seq(Frames) /\ written \in 0..Len(sent) /\ Len(sent) - written <= OutCap
  /\ closed \in BOOLEAN /\ canceller \in BOOLEAN
  /\ wr \in {"none", "run", "done"} /\ sock \in {"open", "closed"} /\ closing \in BOOLEAN
  /\ base \in Nat /\ since \in Int /\ missed \subseteq 1..(MaxSeq + MaxRes)

\* Whatever of the three bounded buffers overflows, and whoever sends what in
\* between, what is written to the socket is a feed, frame by frame: all items
\* of the snapshot and its end, then every part of every change after it, none
\* left out, none twice and none out of order (server.go:652-710,
\* main.go:200-219).
FollowsCommits == F!Spec

\* A change that a subscriber has not been sent yet is written, or the
\* connection ends: a feed that was dropped anywhere in the chain never just
\* falls silent (server.go:685-709).
ReachesOrEnds ==
  \A n \in 1..MaxSeq :
    subscribed /\ base < n /\ n <= published["changes"] ~> View >= n \/ ~Live

\* A connection that is torn down, by whichever goroutine and at whichever
\* moment of a subscription, takes all its goroutines and its registration
\* with the syncer with it (setSubCancel, teardown and abort, server.go:654-660,
\* 819-853). And Close returns, since what it waits for ends: handle, even in
\* the middle of a snapshot for a client that does not read, and the pump of
\* results (server.go:443-459).
NothingLeaks ==
  /\ closed ~> /\ ~src["changes"].open /\ fwd["changes"] # "run"
               /\ pump \notin {"run", "cancel"}
               /\ wr # "run" /\ rd = "gone"
  /\ closing ~> rd = "gone" /\ rpump = "stopped"

\* Whoever tears a connection down, and whatever is still queued then, its
\* client comes to the end of the stream: what was queued is written and the
\* socket closed (teardown leaves it to the writer, server.go:816-833, 863-877).
\* The exception is a write that failed: then nobody closes the socket (see
\* ClosesTheSocket), and the client is not told.
EndIsSeen == closed ~> sock = "closed" \/ (wr = "done" /\ written < Len(sent))

\* From its first mutation request on, each result is sent to a connection
\* once and in order, is on its way, or was lost because a consumer of the
\* whole feed was too slow (mutConns entered before Submit, pumpResults).
ResultsAccounted ==
  /\ \A i, j \in 1..Len(sent) :
       i < j /\ sent[i].kind = "result" /\ sent[j].kind = "result" => sent[i].n < sent[j].n
  /\ since >= 0 /\ rd # "gone" /\ ~closed =>
       \A n \in (since + 1)..published["results"] :
         \/ n \in missed
         \/ \E i \in 1..Len(sent) : sent[i] = Frame("result", n)
         \/ \E c \in {src["results"], ch["results"]} : \E i \in DOMAIN c.buf : c.buf[i] = n

-----------------------------------------------------------------------------
(* What the documentation says, and the code does not do.                  *)

\* "queue overflow or an unwritable subscriber (5 s write deadline exceeded)
\* closes the connection" (docs/IPC.md:163).
ClosesTheSocket == rd = "gone" /\ wr = "done" => sock = "closed"
=============================================================================
