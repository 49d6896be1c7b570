--------------------------- MODULE DeliveryProofs ----------------------------
(***************************************************************************)
(* What holds of Delivery for any capacity of the queue and of the         *)
(* channels, any size of a snapshot and any number of changes, results and *)
(* requests: the feed a client gets is the one Feed specifies, frame by    *)
(* frame, and no result is lost inside the server.                         *)
(*                                                                         *)
(* The proof of the first follows the changes backwards: each frame of the *)
(* feed in the queue follows the one before (SentInv), so does what handle *)
(* and the pump have in hand, and what is in the two channels before them  *)
(* continues that without a gap (PipeInv).  That of the second is the same *)
(* for results, whose forwarder leaves nothing behind when it gives up     *)
(* (ResultInv).                                                            *)
(***************************************************************************)
EXTENDS Delivery, FiniteSetTheorems, TLAPS

-----------------------------------------------------------------------------
(* Sequences.                                                              *)

\* What Append and Tail do to a sequence of frames, and to the numbers in a
\* channel.
LEMMA AppendFrame ==
  ASSUME NEW s \in Seq(Frames), NEW f \in Frames
  PROVE  /\ Append(s, f) \in Seq(Frames)
         /\ Len(Append(s, f)) = Len(s) + 1
         /\ \A i \in 1..Len(s) : Append(s, f)[i] = s[i]
         /\ Append(s, f)[Len(s) + 1] = f
  OBVIOUS

LEMMA TailFrame ==
  ASSUME NEW s \in Seq(Frames), s # <<>>
  PROVE  /\ Len(s) \in Nat \ {0} /\ Head(s) = s[1] /\ Head(s) \in Frames
         /\ Tail(s) \in Seq(Frames)
         /\ Len(Tail(s)) = Len(s) - 1
         /\ \A i \in 1..(Len(s) - 1) : Tail(s)[i] = s[i + 1]
  OBVIOUS

Numbers == 1..(MaxSeq + MaxRes)

LEMMA AppendNumber ==
  ASSUME NEW s \in Seq(Numbers), NEW n \in Numbers
  PROVE  /\ Append(s, n) \in Seq(Numbers)
         /\ Len(Append(s, n)) = Len(s) + 1
         /\ \A i \in 1..Len(s) : Append(s, n)[i] = s[i]
         /\ Append(s, n)[Len(s) + 1] = n
  OBVIOUS

LEMMA TailNumber ==
  ASSUME NEW s \in Seq(Numbers), s # <<>>
  PROVE  /\ Len(s) \in Nat \ {0} /\ Head(s) = s[1] /\ Head(s) \in Numbers
         /\ Tail(s) \in Seq(Numbers)
         /\ Len(Tail(s)) = Len(s) - 1
         /\ \A i \in 1..(Len(s) - 1) : Tail(s)[i] = s[i + 1]
  OBVIOUS

-----------------------------------------------------------------------------
(* The latest frame of the feed.                                           *)

\* Latest, of any frames s of which any number k are written.
IsFeed(f) == f.kind \in FeedKinds
FeedIn(s, k) == {i \in 1..k : IsFeed(s[i])}
LatestOf(s, M) ==
  IF M = {} THEN Frame("none", 0) ELSE s[CHOOSE i \in M : \A j \in M : j <= i]
LatestIn(s, k) == LatestOf(s, FeedIn(s, k))

\* Whatever of the frames is of the feed, one of them is the last.
HasLast(M) == M # {} => \E m \in M : \A j \in M : j <= m
AllHaveLast(s) == \A k \in 0..Len(s) : HasLast(FeedIn(s, k))

LEMMA LatestIsLatestIn == Latest = LatestIn(sent, written) /\ Received = FeedIn(sent, written)
  BY DEF Latest, LatestIn, LatestOf, Received, FeedIn, IsFeed

LEMMA LatestIs ==
  ASSUME NEW s, NEW M \in SUBSET Nat, NEW m \in M, \A j \in M : j <= m
  PROVE  LatestOf(s, M) = s[m]
<1> DEFINE c == CHOOSE i \in M : \A j \in M : j <= i
<1>1. c \in M /\ \A j \in M : j <= c
  OBVIOUS
<1>2. c \in Nat /\ m \in Nat /\ c <= m /\ m <= c
  BY <1>1
<1>3. c = m
  BY <1>2
<1> QED BY <1>3 DEF LatestOf

\* A frame of the feed is the latest one; another one changes nothing.
LEMMA LatestFeed ==
  ASSUME NEW s \in Seq(Frames), NEW k \in 1..Len(s), IsFeed(s[k])
  PROVE  /\ FeedIn(s, k) = FeedIn(s, k - 1) \cup {k} /\ k \notin FeedIn(s, k - 1)
         /\ LatestIn(s, k) = s[k]
<1>1. FeedIn(s, k) = FeedIn(s, k - 1) \cup {k} /\ k \notin FeedIn(s, k - 1)
  BY DEF FeedIn
<1>2. /\ FeedIn(s, k) \in SUBSET Nat /\ k \in FeedIn(s, k)
      /\ \A j \in FeedIn(s, k) : j <= k
  BY DEF FeedIn
<1>3. LatestOf(s, FeedIn(s, k)) = s[k]
  BY <1>2, LatestIs
<1> QED BY <1>1, <1>3 DEF LatestIn

LEMMA LatestOther ==
  ASSUME NEW s \in Seq(Frames), NEW k \in 1..Len(s), ~IsFeed(s[k])
  PROVE  FeedIn(s, k) = FeedIn(s, k - 1) /\ LatestIn(s, k) = LatestIn(s, k - 1)
<1>1. FeedIn(s, k) = FeedIn(s, k - 1)
  BY DEF FeedIn
<1> QED BY <1>1 DEF LatestIn

\* The latest frame is a frame of the feed, or there is none.
LEMMA LatestTyped ==
  ASSUME NEW s \in Seq(Frames), AllHaveLast(s), NEW k \in 0..Len(s)
  PROVE  LatestIn(s, k) = Frame("none", 0) \/ (LatestIn(s, k) \in Frames /\ IsFeed(LatestIn(s, k)))
<1> DEFINE M == FeedIn(s, k)
<1>1. HasLast(M) /\ M \in SUBSET Nat /\ M \in SUBSET (1..Len(s)) /\ \A i \in M : IsFeed(s[i])
  BY DEF AllHaveLast, FeedIn
<1>2. CASE M = {}
  BY <1>2 DEF LatestIn, LatestOf
<1>3. CASE M # {}
  <2>1. PICK m \in M : \A j \in M : j <= m
    BY <1>1, <1>3 DEF HasLast
  <2>2. LatestOf(s, M) = s[m]
    BY <1>1, <2>1, LatestIs
  <2>3. s[m] \in Frames /\ IsFeed(s[m])
    BY <1>1, <2>1
  <2> QED BY <2>2, <2>3 DEF LatestIn
<1> QED BY <1>2, <1>3

\* The latest frame depends only on the frames written.
LEMMA LatestSame ==
  ASSUME NEW s \in Seq(Frames), NEW t \in Seq(Frames), NEW k \in 0..Len(s),
         k <= Len(t), \A i \in 1..k : t[i] = s[i], HasLast(FeedIn(s, k))
  PROVE  FeedIn(t, k) = FeedIn(s, k) /\ LatestIn(t, k) = LatestIn(s, k)
<1> DEFINE M == FeedIn(s, k)
<1>1. FeedIn(t, k) = M
  BY DEF FeedIn
<1>2. M \in SUBSET (1..k) /\ M \in SUBSET Nat
  BY DEF FeedIn
<1>3. LatestOf(t, M) = LatestOf(s, M)
  <2>1. CASE M = {}
    BY <2>1 DEF LatestOf
  <2>2. CASE M # {}
    <3>1. PICK m \in M : \A j \in M : j <= m
      BY <2>2 DEF HasLast
    <3>2. t[m] = s[m]
      BY <1>2, <3>1
    <3>3. LatestOf(s, M) = s[m] /\ LatestOf(t, M) = t[m]
      BY <1>2, <3>1, LatestIs
    <3> QED BY <3>2, <3>3
  <2> QED BY <2>1, <2>2
<1> QED BY <1>1, <1>3 DEF LatestIn

\* One more frame is enqueued.
LEMMA LatestAppend ==
  ASSUME NEW s \in Seq(Frames), NEW f \in Frames, AllHaveLast(s)
  PROVE  /\ \A k \in 0..Len(s) : /\ FeedIn(Append(s, f), k) = FeedIn(s, k)
                                 /\ LatestIn(Append(s, f), k) = LatestIn(s, k)
         /\ AllHaveLast(Append(s, f))
<1> DEFINE t == Append(s, f)
<1>1. /\ t \in Seq(Frames) /\ Len(t) = Len(s) + 1 /\ Len(s) \in Nat
      /\ \A i \in 1..Len(s) : t[i] = s[i]
  BY AppendFrame
<1>2. ASSUME NEW k \in 0..Len(s)
      PROVE  FeedIn(t, k) = FeedIn(s, k) /\ LatestIn(t, k) = LatestIn(s, k)
  <2>1. k <= Len(t) /\ \A i \in 1..k : t[i] = s[i]
    BY <1>1
  <2>2. HasLast(FeedIn(s, k))
    BY DEF AllHaveLast
  <2> HIDE DEF t
  <2> QED BY <1>1, <2>1, <2>2, LatestSame
<1>3. ASSUME NEW k \in 0..Len(t)
      PROVE  HasLast(FeedIn(t, k))
  <2>1. CASE k <= Len(s)
    <3>1. k \in 0..Len(s)
      BY <1>1, <2>1
    <3> QED BY <1>2, <3>1 DEF AllHaveLast
  <2>2. CASE k = Len(s) + 1
    <3>1. CASE IsFeed(t[k])
      <4>1. k \in FeedIn(t, k) /\ \A j \in FeedIn(t, k) : j <= k
        BY <1>1, <2>2, <3>1 DEF FeedIn
      <4> QED BY <4>1 DEF HasLast
    <3>2. CASE ~IsFeed(t[k])
      <4>1. FeedIn(t, k) = FeedIn(t, Len(s))
        BY <1>1, <2>2, <3>2 DEF FeedIn
      <4>2. Len(s) \in 0..Len(s)
        BY <1>1
      <4>3. HasLast(FeedIn(s, Len(s)))
        BY <4>2 DEF AllHaveLast
      <4> QED BY <4>1, <4>2, <4>3, <1>2
    <3> QED BY <3>1, <3>2
  <2> QED BY <2>1, <2>2, <1>1
<1> QED BY <1>2, <1>3 DEF AllHaveLast

-----------------------------------------------------------------------------
(* Channels, and what the critical sections of connIO do.                  *)

Chans == [open : BOOLEAN, buf : Seq(Numbers)]

LEMMA Typed == TypeOK => src \in [Feeds -> Chans] /\ ch \in [Feeds -> Chans]
  BY DEF TypeOK, Channels, Chans, Numbers

\* A channel has its two fields and nothing else.
LEMMA ChanFields ==
  ASSUME NEW c \in Chans
  PROVE  /\ c.open \in BOOLEAN /\ c.buf \in Seq(Numbers) /\ Len(c.buf) \in Nat
         /\ c = [open |-> c.open, buf |-> c.buf]
         /\ \A o \in BOOLEAN : c = Chan(o) <=> (c.open = o /\ c.buf = <<>>)
  BY DEF Chans, Chan

LEMMA ChanIs ==
  ASSUME NEW o \in BOOLEAN
  PROVE  Chan(o) \in Chans /\ Chan(o).open = o /\ Chan(o).buf = <<>> /\ Len(Chan(o).buf) = 0
  BY DEF Chans, Chan

\* The channels that differ from c only at feed f.
LEMMA PutField ==
  ASSUME NEW c \in [Feeds -> Chans], NEW f \in Feeds, NEW d \in Chans, NEW e,
         e = [c EXCEPT ![f] = d]
  PROVE  e \in [Feeds -> Chans] /\ e[f] = d /\ \A g \in Feeds \ {f} : e[g] = c[g]
  OBVIOUS

LEMMA PutOpen ==
  ASSUME NEW c \in [Feeds -> Chans], NEW f \in Feeds, NEW o \in BOOLEAN, NEW e,
         e = [c EXCEPT ![f].open = o]
  PROVE  /\ e \in [Feeds -> Chans] /\ e[f].open = o /\ e[f].buf = c[f].buf
         /\ \A g \in Feeds \ {f} : e[g] = c[g]
  BY DEF Chans

LEMMA PutBuf ==
  ASSUME NEW c \in [Feeds -> Chans], NEW f \in Feeds, NEW b \in Seq(Numbers), NEW e,
         e = [c EXCEPT ![f].buf = b]
  PROVE  /\ e \in [Feeds -> Chans] /\ e[f].open = c[f].open /\ e[f].buf = b
         /\ \A g \in Feeds \ {f} : e[g] = c[g]
  BY DEF Chans

LEMMA FeedsAre == Feeds = {"changes", "results"} /\ "changes" \in Feeds /\ "results" \in Feeds
  BY DEF Feeds

\* What no step of the connection does to the channels of the sources: the
\* subscription may be cancelled, which leaves what is in its channel.
SrcKept ==
  /\ src' \in [Feeds -> Chans]
  /\ src'["results"] = src["results"]
  /\ src'["changes"].buf = src["changes"].buf
  /\ src'["changes"].open => src["changes"].open

LEMMA SameKept ==
  ASSUME TypeOK, src' = src
  PROVE  SrcKept
  BY Typed DEF SrcKept

LEMMA CancelledKept ==
  ASSUME TypeOK, src' = Cancelled("changes")
  PROVE  SrcKept /\ src'["changes"].open = FALSE
<1>1. src \in [Feeds -> Chans]
  BY Typed
<1>2. src' = [src EXCEPT !["changes"].open = FALSE]
  BY DEF Cancelled
<1>3. /\ src' \in [Feeds -> Chans] /\ src'["changes"].open = FALSE
      /\ src'["changes"].buf = src["changes"].buf
      /\ \A g \in Feeds \ {"changes"} : src'[g] = src[g]
  BY <1>1, <1>2, FeedsAre DEF Chans
<1> QED BY <1>3, FeedsAre DEF SrcKept

LEMMA TeardownDoes ==
  ASSUME TypeOK, Teardown
  PROVE  closed' = TRUE /\ canceller' \in BOOLEAN /\ SrcKept
<1>1. src' = src \/ src' = Cancelled("changes")
  BY DEF Teardown, DropConnection
<1>2. closed' = TRUE /\ canceller' \in BOOLEAN
  BY DEF Teardown, DropConnection, TypeOK
<1> QED BY <1>1, <1>2, SameKept, CancelledKept

LEMMA AbortDoes ==
  ASSUME TypeOK, Abort
  PROVE  closed' = TRUE /\ canceller' \in BOOLEAN /\ SrcKept
<1>1. closed' = TRUE /\ canceller' \in BOOLEAN
  BY DEF Abort, TypeOK
<1> QED BY <1>1, CancelledKept DEF Abort

\* A frame is enqueued, or the connection ends or has ended.
Sends(f) ==
  /\ SrcKept /\ closed' \in BOOLEAN /\ canceller' \in BOOLEAN
  /\ closed => closed'
  /\ \/ sent' = sent /\ closed'
     \/ sent' = Append(sent, f) /\ ~closed' /\ Len(sent) - written < OutCap

LEMMA SendDoes ==
  ASSUME TypeOK, NEW f \in Frames, Send(f)
  PROVE  Sends(f)
<1>1. src' = src \/ src' = Cancelled("changes")
  BY DEF Send, Overflow, DropConnection, qVars
<1>2. /\ closed' \in BOOLEAN /\ canceller' \in BOOLEAN
      /\ closed => closed'
      /\ \/ sent' = sent /\ closed'
         \/ sent' = Append(sent, f) /\ ~closed' /\ Len(sent) - written < OutCap
  <2>1. CASE ~closed /\ Room /\ sent' = Append(sent, f) /\ UNCHANGED <<closed, canceller, src>>
    BY <2>1 DEF TypeOK, Room
  <2>2. CASE Overflow
    BY <2>2 DEF Overflow, DropConnection, TypeOK
  <2>3. CASE closed /\ UNCHANGED qVars /\ UNCHANGED src
    BY <2>3 DEF qVars, TypeOK
  <2> QED BY <2>1, <2>2, <2>3 DEF Send
<1> QED BY <1>1, <1>2, SameKept, CancelledKept DEF Sends

LEMMA FramesAre ==
  /\ \A n \in Nat : \A k \in Kinds :
       /\ Frame(k, n) \in Frames
       /\ Frame(k, n).kind = k /\ Frame(k, n).n = n
  /\ {"reply", "error", "result", "subscribed", "begin", "item", "end", "delta"} = Kinds
  /\ \A f \in Frames : f.kind \in Kinds /\ f.n \in Nat /\ f.part \in Nat /\ f.last \in BOOLEAN
  BY DEF Frame, Frames, Kinds

\* The queue after a frame: the types of what Sends sets.
LEMMA SentTyped ==
  ASSUME TypeOK, NEW f \in Frames, Sends(f) \/ sent' = sent, written' = written
  PROVE  sent' \in Seq(Frames) /\ written' \in 0..Len(sent') /\ Len(sent)' - written' <= OutCap
<1>1. sent \in Seq(Frames) /\ written \in 0..Len(sent) /\ Len(sent) - written <= OutCap
      /\ Len(sent) \in Nat /\ OutCap \in Nat
  BY DeliveryAssumption DEF TypeOK
<1>2. Append(sent, f) \in Seq(Frames) /\ Len(Append(sent, f)) = Len(sent) + 1
  BY <1>1, AppendFrame
<1>3. CASE sent' = sent
  BY <1>1, <1>3
<1>4. CASE sent' = Append(sent, f) /\ Len(sent) - written < OutCap
  BY <1>1, <1>2, <1>4
<1> QED BY <1>3, <1>4 DEF Sends

LEMMA Concatenated ==
  ASSUME NEW s \in Seq(Frames), NEW t \in Seq(Frames)
  PROVE  /\ s \o t \in Seq(Frames) /\ Len(s \o t) = Len(s) + Len(t)
         /\ \A i \in 1..Len(s) : (s \o t)[i] = s[i]
         /\ \A i \in (Len(s) + 1)..(Len(s) + Len(t)) : (s \o t)[i] = t[i - Len(s)]
  OBVIOUS

\* The snapshot, frame by frame: one follows the other.
LEMMA SnapshotIs ==
  ASSUME base \in Nat
  PROVE
  /\ SnapshotFrames \in Seq(Frames) /\ Len(SnapshotFrames) = Items + 3
  /\ SnapshotFrames[1].kind = "subscribed"
  /\ \A i \in 1..(Items + 3) :
       /\ SnapshotFrames[i].kind \in {"subscribed", "begin", "item", "end"}
       /\ SnapshotFrames[i].kind = "end" <=> i = Items + 3
       /\ SnapshotFrames[i].kind = "end" => SnapshotFrames[i].n = base
  /\ \A c \in Nat : base <= c =>
       \A i \in 1..(Items + 2) : F!Follows(SnapshotFrames[i], SnapshotFrames[i + 1], c)
<1> DEFINE A == <<Frame("subscribed", 0), Frame("begin", 0)>>
           B == [i \in 1..Items |-> Frame("item", i)]
           C == <<Frame("end", base)>>
<1>0. Items \in Nat
  BY DeliveryAssumption
<1>1. A \in Seq(Frames) /\ Len(A) = 2 /\ A[1] = Frame("subscribed", 0) /\ A[2] = Frame("begin", 0)
  <2>1. Frame("subscribed", 0) \in Frames /\ Frame("begin", 0) \in Frames
    BY FramesAre
  <2> QED BY <2>1
<1>2. B \in Seq(Frames) /\ Len(B) = Items /\ \A i \in 1..Items : B[i] = Frame("item", i)
  <2>1. \A i \in 1..Items : Frame("item", i) \in Frames
    BY <1>0, FramesAre
  <2> QED BY <1>0, <2>1
<1>3. C \in Seq(Frames) /\ Len(C) = 1 /\ C[1] = Frame("end", base)
  <2>1. Frame("end", base) \in Frames
    BY FramesAre
  <2> QED BY <2>1
<1>4. SnapshotFrames = (A \o B) \o C
  BY DEF SnapshotFrames
<1> HIDE DEF A, B, C
<1>5. /\ A \o B \in Seq(Frames) /\ Len(A \o B) = Items + 2
      /\ (A \o B)[1] = A[1] /\ (A \o B)[2] = A[2]
      /\ \A i \in 3..(Items + 2) : (A \o B)[i] = B[i - 2]
  <2>1. /\ A \o B \in Seq(Frames) /\ Len(A \o B) = Len(A) + Len(B)
        /\ \A i \in 1..Len(A) : (A \o B)[i] = A[i]
        /\ \A i \in (Len(A) + 1)..(Len(A) + Len(B)) : (A \o B)[i] = B[i - Len(A)]
    BY <1>1, <1>2, Concatenated
  <2> QED BY <2>1, <1>0, <1>1, <1>2
<1>6. /\ SnapshotFrames \in Seq(Frames) /\ Len(SnapshotFrames) = Items + 3
      /\ \A i \in 1..(Items + 2) : SnapshotFrames[i] = (A \o B)[i]
      /\ SnapshotFrames[Items + 3] = C[1]
  <2> DEFINE D == A \o B
  <2>1. /\ D \o C \in Seq(Frames) /\ Len(D \o C) = Len(D) + Len(C)
        /\ \A i \in 1..Len(D) : (D \o C)[i] = D[i]
        /\ \A i \in (Len(D) + 1)..(Len(D) + Len(C)) : (D \o C)[i] = C[i - Len(D)]
    <3> HIDE DEF D
    <3>1. D \in Seq(Frames)
      BY <1>5 DEF D
    <3> QED BY <3>1, <1>3, Concatenated
  <2>2. D \in Seq(Frames) /\ Len(D) = Items + 2 /\ SnapshotFrames = D \o C
    BY <1>4, <1>5
  <2> HIDE DEF D
  <2>3. /\ SnapshotFrames \in Seq(Frames) /\ Len(SnapshotFrames) = Items + 3
        /\ \A i \in 1..(Items + 2) : SnapshotFrames[i] = D[i]
        /\ SnapshotFrames[Items + 3] = C[1]
    <3>1. Len(D) + Len(C) = Items + 3 /\ Len(D) + 1 = Items + 3
      BY <2>2, <1>0, <1>3
    <3>2. Items + 3 \in (Len(D) + 1)..(Len(D) + Len(C)) /\ (Items + 3) - Len(D) = 1
      BY <2>2, <3>1, <1>0
    <3>3. (D \o C)[Items + 3] = C[1]
      BY <2>1, <3>2
    <3> QED BY <2>1, <2>2, <3>1, <3>3
  <2> QED BY <2>3 DEF D
<1>7. /\ SnapshotFrames[1] = Frame("subscribed", 0) /\ SnapshotFrames[2] = Frame("begin", 0)
      /\ SnapshotFrames[Items + 3] = Frame("end", base)
  BY <1>0, <1>1, <1>3, <1>5, <1>6
<1>8. ASSUME NEW i \in 3..(Items + 2) PROVE SnapshotFrames[i] = Frame("item", i - 2)
  <2>1. i - 2 \in 1..Items /\ i - 2 \in Nat /\ i \in 1..(Items + 2)
    BY <1>0
  <2>2. SnapshotFrames[i] = B[i - 2]
    BY <2>1, <1>5, <1>6
  <2> QED BY <2>1, <2>2, <1>2
<1> DEFINE S == SnapshotFrames
<1>9. /\ S[1].kind = "subscribed" /\ S[2].kind = "begin" /\ S[2].n = 0
      /\ S[Items + 3].kind = "end" /\ S[Items + 3].n = base
      /\ \A i \in 3..(Items + 2) : S[i].kind = "item" /\ S[i].n = i - 2
  <2>1. \A n \in Nat : /\ Frame("subscribed", n).kind = "subscribed"
                       /\ Frame("begin", n).kind = "begin" /\ Frame("begin", n).n = n
                       /\ Frame("item", n).kind = "item" /\ Frame("item", n).n = n
                       /\ Frame("end", n).kind = "end" /\ Frame("end", n).n = n
    BY FramesAre
  <2>2. \A i \in 3..(Items + 2) : i - 2 \in Nat
    BY <1>0
  <2> QED BY <1>7, <1>8, <2>1, <2>2
<1> HIDE DEF S
<1>10. ASSUME NEW i \in 1..(Items + 3)
       PROVE  /\ S[i].kind \in {"subscribed", "begin", "item", "end"}
              /\ S[i].kind = "end" <=> i = Items + 3
              /\ S[i].kind = "end" => S[i].n = base
  <2>1. i = 1 \/ i = 2 \/ i \in 3..(Items + 2) \/ i = Items + 3
    BY <1>0
  <2>2. i \in 3..(Items + 2) => i # Items + 3
    BY <1>0
  <2> QED BY <1>0, <1>9, <2>1, <2>2
<1>11. ASSUME NEW c \in Nat, base <= c, NEW i \in 1..(Items + 2)
       PROVE  F!Follows(S[i], S[i + 1], c)
  <2>1. CASE i = 1
    BY <2>1, <1>9 DEF F!Follows
  <2>2. CASE i \in 2..(Items + 1)
    <3>1. /\ i + 1 \in 3..(Items + 2) /\ i - 2 < Items /\ (i + 1) - 2 = (i - 2) + 1
          /\ i = 2 \/ i \in 3..(Items + 2)
      BY <2>2, <1>0
    <3>2. S[i].kind \in {"begin", "item"} /\ S[i].n = i - 2
      BY <3>1, <1>9
    <3>3. S[i + 1].kind = "item" /\ S[i + 1].n = (i - 2) + 1
      BY <3>1, <1>9
    <3> QED BY <3>1, <3>2, <3>3 DEF F!Follows
  <2>3. CASE i # 1 /\ i = Items + 2
    <3>1. i + 1 = Items + 3 /\ (i = 2 \/ i \in 3..(Items + 2)) /\ i - 2 = Items
      BY <2>3, <1>0
    <3>2. S[i].kind \in {"begin", "item"} /\ S[i].n = Items
      BY <3>1, <1>9
    <3>3. base \in 0..c
      BY <1>11
    <3> QED BY <3>1, <3>2, <3>3, <1>9 DEF F!Follows
  <2> QED BY <2>1, <2>2, <2>3, <1>0
<1> QED BY <1>6, <1>9, <1>10, <1>11 DEF S

LEMMA DeltaIs ==
  ASSUME NEW n \in Nat, NEW k \in Nat \ {0}
  PROVE  /\ DeltaFrames(n, k) \in Seq(Frames) /\ Len(DeltaFrames(n, k)) = k
         /\ DeltaFrames(n, k) # <<>>
         /\ \A i \in 1..k : /\ DeltaFrames(n, k)[i].kind = "delta" /\ DeltaFrames(n, k)[i].n = n
                            /\ DeltaFrames(n, k)[i].part = i
                            /\ DeltaFrames(n, k)[i].last <=> i = k
<1> DEFINE D == DeltaFrames(n, k)
<1>1. D = [i \in 1..k |-> [kind |-> "delta", n |-> n, part |-> i, last |-> i = k]]
  BY DEF DeltaFrames
<1>2. \A i \in 1..k : D[i] = [kind |-> "delta", n |-> n, part |-> i, last |-> i = k]
  BY <1>1
<1>3. \A i \in 1..k : [kind |-> "delta", n |-> n, part |-> i, last |-> i = k] \in Frames
  BY DEF Frames, Kinds
<1>4. D \in [1..k -> Frames]
  BY <1>1, <1>3
<1>5. k \in Nat /\ D \in Seq(Frames) /\ Len(D) = k
  BY <1>4
<1>6. ASSUME NEW i \in 1..k
      PROVE  D[i].kind = "delta" /\ D[i].n = n /\ D[i].part = i /\ (D[i].last <=> i = k)
  <2>1. D[i] = [kind |-> "delta", n |-> n, part |-> i, last |-> i = k]
    BY <1>2
  <2>2. D[i].kind = "delta" /\ D[i].n = n /\ D[i].part = i
    BY <2>1
  <2> DEFINE b == i = k
  <2>3. D[i] = [kind |-> "delta", n |-> n, part |-> i, last |-> b]
    BY <2>1
  <2> HIDE DEF b
  <2>4. D[i].last = b
    BY <2>3
  <2>5. D[i].last <=> b
    BY <2>4, Zenon
  <2> QED BY <2>2, <2>5 DEF b
<1> HIDE DEF D
<1>7. D # <<>>
  BY <1>5
<1> QED BY <1>5, <1>6, <1>7 DEF D

-----------------------------------------------------------------------------
(* Types.                                                                  *)

\* The parts of TypeOK that an action can disturb.
TypedChannels ==
  /\ src \in [Feeds -> Chans] /\ ch \in [Feeds -> Chans]
  /\ \A f \in Feeds : Len(src[f].buf) <= SrcCap /\ Len(ch[f].buf) <= FwdCap
TypedQueue == sent \in Seq(Frames) /\ written \in 0..Len(sent) /\ Len(sent) - written <= OutCap
TypedRest ==
  /\ published \in [Feeds -> Nat]
  /\ fwd \in [Feeds -> {"none", "run", "done"}]
  /\ rd \in {"hello", "read", "subscribe", "snapshot", "submit", "leave", "gone"}
  /\ left \in Seq(Frames) /\ requests \in 0..MaxReq /\ subscribed \in BOOLEAN
  /\ pump \in {"none", "run", "cancel", "done"} /\ todo \in Seq(Frames)
  /\ rpump \in {"run", "pause", "stopped"} /\ latched \in BOOLEAN
  /\ closed \in BOOLEAN /\ canceller \in BOOLEAN
  /\ wr \in {"none", "run", "done"} /\ sock \in {"open", "closed"} /\ closing \in BOOLEAN
  /\ base \in Nat /\ since \in Int /\ missed \subseteq Numbers

LEMMA TypeParts == TypeOK <=> TypedChannels /\ TypedQueue /\ TypedRest
  BY DEF TypeOK, TypedChannels, TypedQueue, TypedRest, Channels, Chans, Numbers

LEMMA TypeInit == Init => TypeOK
<1> SUFFICES ASSUME Init PROVE TypeOK
  OBVIOUS
<1>1. src \in [Feeds -> Channels(MaxSeq + MaxRes)] /\ ch \in [Feeds -> Channels(MaxSeq + MaxRes)]
  BY DEF Init, Feeds, Chan, Channels
<1>2. \A f \in Feeds : Len(src[f].buf) <= SrcCap /\ Len(ch[f].buf) <= FwdCap
  BY DeliveryAssumption DEF Init, Feeds, Chan
<1>3. fwd \in [Feeds -> {"none", "run", "done"}] /\ published \in [Feeds -> Nat]
  BY DEF Init, Feeds
<1>4. sent \in Seq(Frames) /\ written \in 0..Len(sent) /\ Len(sent) - written <= OutCap
  <2>1. sent = <<>> /\ written = 0
    BY DEF Init
  <2>2. sent \in Seq(Frames) /\ Len(sent) = 0
    BY <2>1
  <2> QED BY <2>1, <2>2, DeliveryAssumption
<1>5. left \in Seq(Frames) /\ todo \in Seq(Frames)
  BY DEF Init
<1>6. TypedRest
  <2>1. requests \in 0..MaxReq /\ base \in Nat /\ since \in Int
    BY DeliveryAssumption DEF Init
  <2>2. /\ subscribed \in BOOLEAN /\ latched \in BOOLEAN /\ closed \in BOOLEAN
        /\ canceller \in BOOLEAN /\ closing \in BOOLEAN
    BY Zenon DEF Init
  <2>3. /\ rd = "hello" /\ pump = "none" /\ rpump = "run" /\ wr = "none" /\ sock = "open"
        /\ missed = {}
    BY DEF Init
  <2> QED BY <1>3, <1>5, <2>1, <2>2, <2>3 DEF TypedRest
<1> QED BY <1>1, <1>2, <1>4, <1>6 DEF TypeOK, TypedRest, Numbers

\* The channels of the sources may have been closed, those of the forwarders
\* are as they were.
LEMMA KeptTyped ==
  ASSUME TypeOK, SrcKept, ch' = ch
  PROVE  TypedChannels'
  BY TypeParts, FeedsAre DEF TypedChannels, SrcKept

\* One feed's two channels have changed.
LEMMA PutTyped ==
  ASSUME TypeOK, NEW f \in Feeds, NEW g \in Feeds, f # g,
         src' \in [Feeds -> Chans], ch' \in [Feeds -> Chans],
         Len(src'[f].buf) <= SrcCap, Len(ch'[f].buf) <= FwdCap,
         src'[g].buf = src[g].buf, ch'[g].buf = ch[g].buf
  PROVE  TypedChannels'
  BY TypeParts, FeedsAre DEF TypedChannels

\* What a publication does to the channel of its source.
Offered(f, n) ==
  LET s == src[f]  t == src'[f] IN
  /\ src' \in [Feeds -> Chans] /\ \A g \in Feeds \ {f} : src'[g] = src[g]
  /\ \/ s.open /\ Len(s.buf) < SrcCap /\ t.open = s.open /\ t.buf = Append(s.buf, n)
     \/ ~t.open /\ t.buf = s.buf

LEMMA OfferDoes ==
  ASSUME TypeOK, NEW f \in Feeds, NEW n \in Numbers, Offer(f, n)
  PROVE  Offered(f, n)
<1>1. src \in [Feeds -> Chans] /\ src[f] \in Chans
  BY Typed
<1>2. src[f].open \in BOOLEAN /\ src[f].buf \in Seq(Numbers)
  BY <1>1, ChanFields
<1>3. CASE src[f].open /\ Len(src[f].buf) < SrcCap
  <2> DEFINE b == Append(src[f].buf, n)
  <2>1. b \in Seq(Numbers) /\ src' = [src EXCEPT ![f].buf = b]
    BY <1>2, <1>3, AppendNumber DEF Offer
  <2> HIDE DEF b
  <2>2. /\ src' \in [Feeds -> Chans] /\ src'[f].open = src[f].open /\ src'[f].buf = b
        /\ \A g \in Feeds \ {f} : src'[g] = src[g]
    BY <1>1, <2>1 DEF Chans
  <2> QED BY <2>2, <1>3 DEF Offered, b
<1>4. CASE ~(src[f].open /\ Len(src[f].buf) < SrcCap)
  <2>1. src' = [src EXCEPT ![f].open = FALSE]
    BY <1>4 DEF Offer
  <2>2. /\ src' \in [Feeds -> Chans] /\ src'[f].open = FALSE /\ src'[f].buf = src[f].buf
        /\ \A g \in Feeds \ {f} : src'[g] = src[g]
    BY <1>1, <2>1 DEF Chans
  <2> QED BY <2>2 DEF Offered
<1> QED BY <1>3, <1>4

\* What a step of a forwarder does: it passes one number on, or gives up.
Forwarded(f) ==
  LET s == src[f]  t == src'[f]  c == ch[f]  d == ch'[f] IN
  /\ src' \in [Feeds -> Chans] /\ ch' \in [Feeds -> Chans]
  /\ fwd' \in [Feeds -> {"none", "run", "done"}]
  /\ \A g \in Feeds \ {f} : src'[g] = src[g] /\ ch'[g] = ch[g] /\ fwd'[g] = fwd[g]
  /\ fwd[f] = "run" /\ s.buf # <<>>
  /\ \/ /\ Len(c.buf) < FwdCap /\ fwd'[f] = "run" /\ missed' = missed
        /\ t.open = s.open /\ t.buf = Tail(s.buf)
        /\ d.open = c.open /\ d.buf = Append(c.buf, Head(s.buf))
     \/ /\ fwd'[f] = "done" /\ ~d.open /\ d.buf = c.buf
        /\ \/ /\ f = "results" /\ t = Chan(FALSE)
              /\ missed' = missed \cup {s.buf[i] : i \in DOMAIN s.buf}
           \/ f = "changes" /\ t.open = s.open /\ t.buf = Tail(s.buf) /\ missed' = missed

LEMMA ForwardDoes ==
  ASSUME TypeOK, NEW f \in Feeds, Forward(f)
  PROVE  Forwarded(f)
<1>1. /\ src \in [Feeds -> Chans] /\ src[f] \in Chans /\ ch \in [Feeds -> Chans] /\ ch[f] \in Chans
      /\ fwd \in [Feeds -> {"none", "run", "done"}]
  BY Typed DEF TypeOK
<1>2. src[f].buf \in Seq(Numbers) /\ src[f].buf # <<>> /\ fwd[f] = "run"
  BY <1>1, ChanFields DEF Forward
<1>3. Head(src[f].buf) \in Numbers /\ Tail(src[f].buf) \in Seq(Numbers)
  BY <1>2, TailNumber
<1> DEFINE b == Tail(src[f].buf)
           n == Head(src[f].buf)
<1>4. CASE /\ Len(ch[f].buf) < FwdCap
           /\ ch' = [ch EXCEPT ![f].buf = Append(@, n)]
           /\ src' = [src EXCEPT ![f].buf = b]
           /\ UNCHANGED <<fwd, missed>>
  <2> DEFINE a == Append(ch[f].buf, n)
  <2>1. a \in Seq(Numbers)
    <3>1. ch[f].buf \in Seq(Numbers)
      BY <1>1, ChanFields
    <3> QED BY <3>1, <1>3, AppendNumber
  <2>2. ch' = [ch EXCEPT ![f].buf = a]
    BY <1>4
  <2> HIDE DEF a
  <2>3. /\ ch' \in [Feeds -> Chans] /\ ch'[f].open = ch[f].open /\ ch'[f].buf = a
        /\ \A g \in Feeds \ {f} : ch'[g] = ch[g]
    BY <1>1, <2>1, <2>2 DEF Chans
  <2>4. b \in Seq(Numbers) /\ src' = [src EXCEPT ![f].buf = b]
    BY <1>3, <1>4
  <2> HIDE DEF b
  <2>5. /\ src' \in [Feeds -> Chans] /\ src'[f].open = src[f].open /\ src'[f].buf = b
        /\ \A g \in Feeds \ {f} : src'[g] = src[g]
    BY <1>1, <2>4 DEF Chans
  <2> QED BY <1>1, <1>2, <1>4, <2>3, <2>5 DEF Forwarded, a, b
<1>5. CASE /\ Len(ch[f].buf) = FwdCap
           /\ GiveUp(f)
           /\ ch' = [ch EXCEPT ![f].open = (fwd'[f] = "run")]
  <2>1. /\ fwd' \in [Feeds -> {"none", "run", "done"}] /\ fwd'[f] = "done"
        /\ \A g \in Feeds \ {f} : fwd'[g] = fwd[g]
    BY <1>1, <1>5 DEF GiveUp
  <2>2. ch' = [ch EXCEPT ![f].open = FALSE]
    BY <1>5, <2>1
  <2>3. /\ ch' \in [Feeds -> Chans] /\ ch'[f].open = FALSE /\ ch'[f].buf = ch[f].buf
        /\ \A g \in Feeds \ {f} : ch'[g] = ch[g]
    BY <1>1, <2>2 DEF Chans
  <2>4. CASE f = "results"
    <3>1. /\ src' = [src EXCEPT ![f] = Chan(FALSE)]
          /\ missed' = missed \cup {src[f].buf[i] : i \in DOMAIN src[f].buf}
      BY <1>5, <2>4 DEF GiveUp
    <3>2. Chan(FALSE) \in Chans
      BY ChanIs
    <3>3. src' \in [Feeds -> Chans] /\ src'[f] = Chan(FALSE) /\ \A g \in Feeds \ {f} : src'[g] = src[g]
      BY <1>1, <3>1, <3>2
    <3> QED BY <1>2, <2>1, <2>3, <2>4, <3>1, <3>3 DEF Forwarded
  <2>5. CASE f = "changes"
    <3>1. src' = [src EXCEPT ![f].buf = b] /\ missed' = missed
      BY <1>5, <2>5 DEF GiveUp
    <3>2. b \in Seq(Numbers)
      BY <1>3
    <3> HIDE DEF b
    <3>3. /\ src' \in [Feeds -> Chans] /\ src'[f].open = src[f].open /\ src'[f].buf = b
          /\ \A g \in Feeds \ {f} : src'[g] = src[g]
      BY <1>1, <3>1, <3>2 DEF Chans
    <3> QED BY <1>2, <2>1, <2>3, <2>5, <3>1, <3>3 DEF Forwarded, b
  <2> QED BY <2>4, <2>5, FeedsAre
<1> QED BY <1>4, <1>5 DEF Forward

LEMMA TypePartsAfter == TypedChannels' /\ TypedQueue' /\ TypedRest' => TypeOK'
  BY DEF TypeOK, TypedChannels, TypedQueue, TypedRest, Channels, Chans, Numbers

LEMMA Heads ==
  ASSUME TypeOK, NEW f \in Feeds, ch[f].buf # <<>>
  PROVE  /\ ch[f].buf \in Seq(Numbers) /\ Len(ch[f].buf) \in Nat \ {0}
         /\ Head(ch[f].buf) = ch[f].buf[1] /\ Head(ch[f].buf) \in Numbers /\ Head(ch[f].buf) \in Nat
         /\ Tail(ch[f].buf) \in Seq(Numbers)
         /\ Len(Tail(ch[f].buf)) = Len(ch[f].buf) - 1
         /\ \A i \in 1..(Len(ch[f].buf) - 1) : Tail(ch[f].buf)[i] = ch[f].buf[i + 1]
<1>1. ch[f].buf \in Seq(Numbers)
  BY Typed, ChanFields
<1>2. Numbers \subseteq Nat
  BY DeliveryAssumption DEF Numbers
<1> QED BY <1>1, <1>2, TailNumber

\* A number is taken from the channel of a forwarder.
LEMMA TakenTyped ==
  ASSUME TypeOK, NEW f \in Feeds, ch[f].buf # <<>>, ch' = [ch EXCEPT ![f].buf = Tail(@)], SrcKept
  PROVE  /\ ch' \in [Feeds -> Chans] /\ ch'[f].open = ch[f].open /\ ch'[f].buf = Tail(ch[f].buf)
         /\ \A g \in Feeds \ {f} : ch'[g] = ch[g]
         /\ TypedChannels'
<1> DEFINE b == Tail(ch[f].buf)
<1>1. b \in Seq(Numbers) /\ Len(b) = Len(ch[f].buf) - 1 /\ Len(ch[f].buf) \in Nat
  BY Heads
<1>2. ch' = [ch EXCEPT ![f].buf = b]
  OBVIOUS
<1> HIDE DEF b
<1>3. /\ ch' \in [Feeds -> Chans] /\ ch'[f].open = ch[f].open /\ ch'[f].buf = b
      /\ \A g \in Feeds \ {f} : ch'[g] = ch[g]
  BY <1>1, <1>2, Typed DEF Chans
<1>4. TypedChannels'
  <2>1. Len(ch[f].buf) <= FwdCap /\ FwdCap \in Nat
    BY DeliveryAssumption DEF TypeOK
  <2>2. Len(ch'[f].buf) <= FwdCap
    BY <1>1, <1>3, <2>1
  <2> QED BY <1>3, <2>2, TypeParts, FeedsAre DEF TypedChannels, SrcKept
<1> QED BY <1>3, <1>4 DEF b

\* A source or a forwarder starts a channel.
LEMMA RenewTyped ==
  ASSUME TypeOK, NEW f \in Feeds, src' = [src EXCEPT ![f] = Chan(TRUE)],
         ch' = [ch EXCEPT ![f] = Chan(TRUE)]
  PROVE  /\ src' \in [Feeds -> Chans] /\ src'[f] = Chan(TRUE)
         /\ \A g \in Feeds \ {f} : src'[g] = src[g]
         /\ ch' \in [Feeds -> Chans] /\ ch'[f] = Chan(TRUE)
         /\ \A g \in Feeds \ {f} : ch'[g] = ch[g]
         /\ TypedChannels'
<1>1. /\ Chan(TRUE) \in Chans /\ Len(Chan(TRUE).buf) = 0
      /\ src \in [Feeds -> Chans] /\ ch \in [Feeds -> Chans]
  BY Typed, ChanIs
<1>2. /\ src' \in [Feeds -> Chans] /\ src'[f] = Chan(TRUE)
      /\ \A g \in Feeds \ {f} : src'[g] = src[g]
      /\ ch' \in [Feeds -> Chans] /\ ch'[f] = Chan(TRUE)
      /\ \A g \in Feeds \ {f} : ch'[g] = ch[g]
  BY <1>1
<1>3. TypedChannels'
  <2>1. 0 <= SrcCap /\ 0 <= FwdCap
    BY DeliveryAssumption
  <2>2. ASSUME NEW g \in Feeds PROVE Len(src'[g].buf) <= SrcCap /\ Len(ch'[g].buf) <= FwdCap
    <3>1. CASE g = f
      BY <1>1, <1>2, <2>1, <3>1
    <3>2. CASE g # f
      BY <1>2, <3>2, TypeParts DEF TypedChannels
    <3> QED BY <3>1, <3>2
  <2> QED BY <1>2, <2>2 DEF TypedChannels
<1> QED BY <1>2, <1>3

\* A subscription is cancelled.
LEMMA CancelTyped ==
  ASSUME TypeOK, NEW f \in Feeds, src' = Cancelled(f), ch' = ch
  PROVE  /\ src' \in [Feeds -> Chans] /\ src'[f].open = FALSE /\ src'[f].buf = src[f].buf
         /\ \A g \in Feeds \ {f} : src'[g] = src[g]
         /\ TypedChannels'
<1>1. /\ src' \in [Feeds -> Chans] /\ src'[f].open = FALSE /\ src'[f].buf = src[f].buf
      /\ \A g \in Feeds \ {f} : src'[g] = src[g]
  BY Typed DEF Cancelled, Chans
<1> QED BY <1>1, TypeParts, FeedsAre DEF TypedChannels

\* A forwarder ends after its source's channel.
LEMMA EndsTyped ==
  ASSUME TypeOK, NEW f \in Feeds, ForwarderEnds(f)
  PROVE  /\ ch' \in [Feeds -> Chans] /\ ch'[f].open = FALSE /\ ch'[f].buf = ch[f].buf
         /\ \A g \in Feeds \ {f} : ch'[g] = ch[g]
         /\ fwd' \in [Feeds -> {"none", "run", "done"}] /\ fwd'[f] = "done"
         /\ \A g \in Feeds \ {f} : fwd'[g] = fwd[g]
         /\ src' = src /\ src[f] = Chan(FALSE) /\ fwd[f] = "run"
         /\ TypedChannels'
<1>1. /\ ch' \in [Feeds -> Chans] /\ ch'[f].open = FALSE /\ ch'[f].buf = ch[f].buf
      /\ \A g \in Feeds \ {f} : ch'[g] = ch[g]
  BY Typed DEF ForwarderEnds, Chans
<1>2. /\ fwd' \in [Feeds -> {"none", "run", "done"}] /\ fwd'[f] = "done"
      /\ \A g \in Feeds \ {f} : fwd'[g] = fwd[g]
  BY DEF ForwarderEnds, TypeOK
<1>3. src' = src /\ src[f] = Chan(FALSE) /\ fwd[f] = "run"
  BY DEF ForwarderEnds
<1> QED BY <1>1, <1>2, <1>3, TypeParts, FeedsAre DEF TypedChannels

\* Every action keeps the types.
LEMMA TypeNext == TypeOK /\ [Next]_vars => TypeOK'
<1> SUFFICES ASSUME TypeOK, [Next]_vars PROVE TypeOK'
  OBVIOUS
<1>t. TypedChannels /\ TypedQueue /\ TypedRest
  BY TypeParts
<1>q. sent' = sent /\ written' = written => TypedQueue'
  BY <1>t DEF TypedQueue
<1>s. ASSUME NEW f \in Frames, Sends(f) \/ sent' = sent, written' = written
      PROVE  TypedQueue'
  BY <1>s, SentTyped DEF TypedQueue
<1>c. src' = src /\ ch' = ch => TypedChannels'
  BY <1>t DEF TypedChannels
<1>0. CASE UNCHANGED vars
  <2>1. TypedRest'
    BY <1>0, <1>t DEF TypedRest, vars, feedVars, rdVars, qVars
  <2> QED BY <1>0, <2>1, <1>q, <1>c, TypePartsAfter DEF vars, feedVars, qVars
<1>1. ASSUME NEW f \in Feeds, Publish(f)
      PROVE  TypeOK'
  <2> DEFINE n == published[f] + 1
             g == CHOOSE e \in Feeds : e # f
  <2>1. /\ published' \in [Feeds -> Nat] /\ published'[f] = n
        /\ n \in Numbers /\ (f = "results" => n \in 1..MaxRes)
    <3>1. published[f] \in Nat /\ published[f] < (IF f = "changes" THEN MaxSeq ELSE MaxRes)
      BY <1>1 DEF Publish, TypeOK
    <3>2. n \in 1..(IF f = "changes" THEN MaxSeq ELSE MaxRes)
      BY <3>1, DeliveryAssumption
    <3>3. published' = [published EXCEPT ![f] = n]
      BY <1>1 DEF Publish
    <3> QED BY <3>1, <3>2, <3>3, DeliveryAssumption DEF Numbers, TypeOK
  <2>2. Offer(f, n) /\ ch' = ch
    BY <1>1, <2>1 DEF Publish, feedVars
  <2> HIDE DEF n
  <2>3. Offered(f, n)
    BY <2>1, <2>2, OfferDoes
  <2>4. src[f] \in Chans /\ src[f].buf \in Seq(Numbers)
    BY Typed, ChanFields
  <2>5. Len(src'[f].buf) <= SrcCap
    <3>1. Len(Append(src[f].buf, n)) = Len(src[f].buf) + 1 /\ Len(src[f].buf) \in Nat
      BY <2>1, <2>4, AppendNumber
    <3>2. Len(src[f].buf) <= SrcCap /\ SrcCap \in Nat
      BY DeliveryAssumption DEF TypeOK
    <3> QED BY <2>3, <3>1, <3>2 DEF Offered
  <2>6. TypedChannels'
    <3>1. \A e \in Feeds \ {f} : src'[e] = src[e]
      BY <2>3 DEF Offered
    <3> QED BY <2>2, <2>3, <2>5, <3>1, <1>t DEF TypedChannels, Offered
  <2>7. missed' \subseteq Numbers
    <3>1. missed' = missed \/ missed' = missed \cup {n}
      BY <1>1, <2>1 DEF Publish
    <3> QED BY <2>1, <3>1, <1>t DEF TypedRest
  <2>8. TypedRest'
    BY <1>1, <2>1, <2>7, <1>t DEF TypedRest, Publish, rdVars, qVars
  <2>9. TypedQueue'
    BY <1>1, <1>q DEF Publish, qVars
  <2> QED BY <2>6, <2>8, <2>9, TypePartsAfter
<1>2. ASSUME NEW f \in Feeds, Forward(f)
      PROVE  TypeOK'
  <2>1. Forwarded(f)
    BY <1>2, ForwardDoes
  <2>2. src[f] \in Chans /\ src[f].buf \in Seq(Numbers) /\ ch[f].buf \in Seq(Numbers) /\ src[f].buf # <<>>
    BY <2>1, Typed, ChanFields DEF Forwarded
  <2>3. /\ Head(src[f].buf) \in Numbers /\ Len(Tail(src[f].buf)) = Len(src[f].buf) - 1
        /\ Len(src[f].buf) \in Nat
    BY <2>2, TailNumber
  <2>4. Len(Append(ch[f].buf, Head(src[f].buf))) = Len(ch[f].buf) + 1 /\ Len(ch[f].buf) \in Nat
    BY <2>2, <2>3, AppendNumber
  <2>5. Len(src[f].buf) <= SrcCap /\ Len(ch[f].buf) <= FwdCap /\ SrcCap \in Nat /\ FwdCap \in Nat
    BY DeliveryAssumption DEF TypeOK
  <2>6. Len(Chan(FALSE).buf) = 0
    BY ChanIs
  <2>7. Len(src'[f].buf) <= SrcCap /\ Len(ch'[f].buf) <= FwdCap
    <3>1. src'[f] = Chan(FALSE) \/ src'[f].buf = Tail(src[f].buf)
      BY <2>1 DEF Forwarded
    <3>2. \/ Len(ch[f].buf) < FwdCap /\ ch'[f].buf = Append(ch[f].buf, Head(src[f].buf))
          \/ ch'[f].buf = ch[f].buf
      BY <2>1 DEF Forwarded
    <3>3. Len(src'[f].buf) <= SrcCap
      <4>1. Len(src'[f].buf) = 0 \/ Len(src'[f].buf) = Len(src[f].buf) - 1
        BY <2>3, <2>6, <3>1
      <4> QED BY <4>1, <2>3, <2>5
    <3>4. Len(ch'[f].buf) <= FwdCap
      BY <2>4, <2>5, <3>2
    <3> QED BY <3>3, <3>4
  <2>8. TypedChannels'
    <3>1. \A e \in Feeds \ {f} : src'[e] = src[e] /\ ch'[e] = ch[e]
      BY <2>1 DEF Forwarded
    <3> QED BY <2>1, <2>7, <3>1, <1>t DEF TypedChannels, Forwarded
  <2>9. missed' \subseteq Numbers
    <3>1. {src[f].buf[i] : i \in DOMAIN src[f].buf} \subseteq Numbers
      BY <2>2
    <3> QED BY <2>1, <3>1, <1>t DEF TypedRest, Forwarded
  <2>10. fwd' \in [Feeds -> {"none", "run", "done"}]
    BY <2>1 DEF Forwarded
  <2>11. TypedRest'
    BY <1>2, <2>9, <2>10, <1>t DEF TypedRest, Forward, rdVars, qVars
  <2>12. TypedQueue'
    BY <1>2, <1>q DEF Forward, qVars
  <2> QED BY <2>8, <2>11, <2>12, TypePartsAfter
<1>3. ASSUME NEW f \in Feeds, ForwarderEnds(f)
      PROVE  TypeOK'
  <2>1. TypedRest'
    BY <1>3, EndsTyped, <1>t DEF TypedRest, ForwarderEnds, rdVars, qVars
  <2> QED BY <1>3, <2>1, EndsTyped, <1>q, TypePartsAfter DEF ForwarderEnds, qVars
<1>4. CASE PumpTake
  <2>1. ch' = [ch EXCEPT !["changes"].buf = Tail(@)] /\ ch["changes"].buf # <<>> /\ src' = src
    BY <1>4 DEF PumpTake
  <2>2. SrcKept
    BY <2>1, SameKept
  <2>3. todo' \in Seq(Frames)
    <3>1. PICK k \in 1..MaxParts : todo' = DeltaFrames(Head(ch["changes"].buf), k)
      BY <1>4 DEF PumpTake
    <3>2. k \in Nat \ {0}
      BY DeliveryAssumption
    <3>3. Head(ch["changes"].buf) \in Nat
      BY <2>1, Heads, FeedsAre
    <3> QED BY <3>1, <3>2, <3>3, DeltaIs
  <2>c. TypedChannels'
    BY <1>4, <2>1, <2>2, TakenTyped, FeedsAre
  <2>q. TypedQueue'
    BY <1>4, <1>q DEF PumpTake, pumpRest, qVars
  <2>r. TypedRest'
    BY <1>4, <2>3, <1>t DEF TypedRest, PumpTake, pumpRest, rdVars, qVars
  <2> QED BY <2>c, <2>q, <2>r, TypePartsAfter
<1>5. CASE PumpAborts
  <2>1. ch' = [ch EXCEPT !["changes"].buf = Tail(@)] /\ ch["changes"].buf # <<>>
    BY <1>5 DEF PumpAborts
  <2>2. SrcKept /\ closed' = TRUE /\ canceller' \in BOOLEAN
    BY <1>5, AbortDoes DEF PumpAborts
  <2>c. TypedChannels'
    BY <1>5, <2>1, <2>2, TakenTyped, FeedsAre
  <2>q. TypedQueue'
    BY <1>5, <1>q DEF PumpAborts, pumpRest
  <2>r. TypedRest'
    BY <1>5, <2>2, <1>t DEF TypedRest, PumpAborts, pumpRest, rdVars
  <2> QED BY <2>c, <2>q, <2>r, TypePartsAfter
<1>6. CASE PumpSend
  <2>1. Head(todo) \in Frames /\ Tail(todo) \in Seq(Frames)
    BY <1>6, TailFrame DEF PumpSend, TypeOK
  <2>2. Sends(Head(todo))
    BY <1>6, <2>1, SendDoes DEF PumpSend
  <2>3. SrcKept /\ closed' \in BOOLEAN /\ canceller' \in BOOLEAN
    BY <2>2 DEF Sends
  <2>4. todo' \in Seq(Frames)
    BY <1>6, <2>1 DEF PumpSend
  <2>5. pump' \in {"none", "run", "cancel", "done"}
    BY <1>6 DEF PumpSend
  <2>c. TypedChannels'
    BY <1>6, <2>3, KeptTyped DEF PumpSend, pumpRest
  <2>q. TypedQueue'
    BY <1>6, <2>1, <2>2, <1>s DEF PumpSend, pumpRest
  <2>r. TypedRest'
    BY <1>6, <2>3, <2>4, <2>5, <1>t DEF TypedRest, PumpSend, pumpRest, rdVars
  <2> QED BY <2>c, <2>q, <2>r, TypePartsAfter
<1>7. CASE PumpCancels
  <2>1. SrcKept
    BY <1>7, CancelledKept DEF PumpCancels
  <2>c. TypedChannels'
    BY <1>7, <2>1, KeptTyped DEF PumpCancels
  <2>q. TypedQueue'
    BY <1>7, <1>q DEF PumpCancels, pumpRest, qVars
  <2>r. TypedRest'
    BY <1>7, <1>t DEF TypedRest, PumpCancels, pumpRest, rdVars, qVars
  <2> QED BY <2>c, <2>q, <2>r, TypePartsAfter
<1>8. CASE PumpEnds
  <2>1. SrcKept /\ closed' = TRUE /\ canceller' \in BOOLEAN
    BY <1>8, TeardownDoes DEF PumpEnds, DroppedBySource
  <2>c. TypedChannels'
    BY <1>8, <2>1, KeptTyped DEF PumpEnds
  <2>q. TypedQueue'
    BY <1>8, <1>q DEF PumpEnds, pumpRest
  <2>r. TypedRest'
    BY <1>8, <2>1, <1>t DEF TypedRest, PumpEnds, pumpRest, rdVars
  <2> QED BY <2>c, <2>q, <2>r, TypePartsAfter
<1>9. CASE Handshake
  <2>c. TypedChannels'
    BY <1>9, <1>c DEF Handshake, feedVars
  <2>q. TypedQueue'
    BY <1>9, <1>q DEF Handshake, qVars
  <2>r. TypedRest'
    BY <1>9, <1>t DEF TypedRest, Handshake, feedVars, qVars
  <2> QED BY <2>c, <2>q, <2>r, TypePartsAfter
<1>10. CASE HandshakeFails
  <2>1. SrcKept /\ closed' = TRUE /\ canceller' \in BOOLEAN
    BY <1>10, TeardownDoes DEF HandshakeFails
  <2>c. TypedChannels'
    BY <1>10, <2>1, KeptTyped DEF HandshakeFails
  <2>q. TypedQueue'
    BY <1>10, <1>q DEF HandshakeFails, rdRest
  <2>r. TypedRest'
    BY <1>10, <2>1, <1>t DEF TypedRest, HandshakeFails, Exit, rdRest
  <2> QED BY <2>c, <2>q, <2>r, TypePartsAfter
<1>11. CASE Leave
  <2>1. SrcKept /\ closed' = TRUE /\ canceller' \in BOOLEAN
    BY <1>11, TeardownDoes DEF Leave
  <2>c. TypedChannels'
    BY <1>11, <2>1, KeptTyped DEF Leave
  <2>q. TypedQueue'
    BY <1>11, <1>q DEF Leave, rdRest
  <2>r. TypedRest'
    BY <1>11, <2>1, <1>t DEF TypedRest, Leave, Exit, rdRest
  <2> QED BY <2>c, <2>q, <2>r, TypePartsAfter
<1>12. CASE Query
  <2>1. Frame("reply", 0) \in Frames
    BY FramesAre
  <2>2. Sends(Frame("reply", 0))
    BY <1>12, <2>1, SendDoes DEF Query
  <2>3. SrcKept /\ closed' \in BOOLEAN /\ canceller' \in BOOLEAN
    BY <2>2 DEF Sends
  <2>4. requests' \in 0..MaxReq
    BY <1>12, DeliveryAssumption DEF Query, Read, TypeOK
  <2>c. TypedChannels'
    BY <1>12, <2>3, KeptTyped DEF Query, rdRest
  <2>q. TypedQueue'
    BY <1>12, <2>1, <2>2, <1>s DEF Query, rdRest
  <2>r. TypedRest'
    BY <1>12, <2>3, <2>4, <1>t DEF TypedRest, Query, Resume, Exit, rdRest
  <2> QED BY <2>c, <2>q, <2>r, TypePartsAfter
<1>13. CASE BadRequest
  <2>1. Frame("error", 0) \in Frames
    BY FramesAre
  <2>2. Sends(Frame("error", 0))
    BY <1>13, <2>1, SendDoes DEF BadRequest
  <2>3. SrcKept /\ closed' \in BOOLEAN /\ canceller' \in BOOLEAN
    BY <2>2 DEF Sends
  <2>4. requests' \in 0..MaxReq
    BY <1>13, DeliveryAssumption DEF BadRequest, Read, TypeOK
  <2>c. TypedChannels'
    BY <1>13, <2>3, KeptTyped DEF BadRequest, rdRest
  <2>q. TypedQueue'
    BY <1>13, <2>1, <2>2, <1>s DEF BadRequest, rdRest
  <2>r. TypedRest'
    BY <1>13, <2>3, <2>4, <1>t DEF TypedRest, BadRequest, Resume, Exit, rdRest
  <2> QED BY <2>c, <2>q, <2>r, TypePartsAfter
<1>14. CASE Submitted
  <2>1. Frame("reply", 0) \in Frames
    BY FramesAre
  <2>2. Sends(Frame("reply", 0))
    BY <1>14, <2>1, SendDoes DEF Submitted
  <2>3. SrcKept /\ closed' \in BOOLEAN /\ canceller' \in BOOLEAN
    BY <2>2 DEF Sends
  <2>c. TypedChannels'
    BY <1>14, <2>3, KeptTyped DEF Submitted, rdRest
  <2>q. TypedQueue'
    BY <1>14, <2>1, <2>2, <1>s DEF Submitted, rdRest
  <2>r. TypedRest'
    BY <1>14, <2>3, <1>t DEF TypedRest, Submitted, Resume, Exit, rdRest
  <2> QED BY <2>c, <2>q, <2>r, TypePartsAfter
<1>15. CASE Subscribe
  <2>1. src' = [src EXCEPT !["changes"] = Chan(TRUE)] /\ ch' = [ch EXCEPT !["changes"] = Chan(TRUE)]
    BY <1>15 DEF Subscribe
  <2>2. requests' \in 0..MaxReq
    BY <1>15, DeliveryAssumption DEF Subscribe, Read, TypeOK
  <2>3. fwd' \in [Feeds -> {"none", "run", "done"}] /\ base' \in Nat
    BY <1>15, <1>t, FeedsAre DEF Subscribe, TypedRest
  <2>c. TypedChannels'
    BY <1>15, <2>1, RenewTyped, FeedsAre
  <2>q. TypedQueue'
    BY <1>15, <1>q DEF Subscribe, rdRest, qVars
  <2>r. TypedRest'
    BY <1>15, <2>2, <2>3, <1>t DEF TypedRest, Subscribe, rdRest, qVars
  <2> QED BY <2>c, <2>q, <2>r, TypePartsAfter
<1>16. CASE SetSubCancel
  <2>1. left' \in Seq(Frames)
    BY <1>16, <1>t, SnapshotIs DEF SetSubCancel, TypedRest
  <2>c. TypedChannels'
    BY <1>16, <1>c DEF SetSubCancel, feedVars
  <2>q. TypedQueue'
    BY <1>16, <1>q DEF SetSubCancel, rdRest
  <2>r. TypedRest'
    BY <1>16, <2>1, <1>t DEF TypedRest, SetSubCancel, feedVars, rdRest
  <2> QED BY <2>c, <2>q, <2>r, TypePartsAfter
<1>17. CASE SnapshotSend
  <2>1. Head(left) \in Frames /\ Tail(left) \in Seq(Frames)
    BY <1>17, TailFrame DEF SnapshotSend, TypeOK
  <2>2. SrcKept
    BY <1>17, SameKept DEF SnapshotSend, feedVars
  <2>3. Sends(Head(left))
    BY <1>17, <2>2 DEF SnapshotSend, Sends, Room, TypeOK
  <2>c. TypedChannels'
    BY <1>17, <1>c DEF SnapshotSend, feedVars
  <2>q. TypedQueue'
    BY <1>17, <2>1, <2>3, <1>s DEF SnapshotSend, rdRest
  <2>r. TypedRest'
    BY <1>17, <2>1, <1>t DEF TypedRest, SnapshotSend, feedVars, rdRest
  <2> QED BY <2>c, <2>q, <2>r, TypePartsAfter
<1>18. CASE SnapshotFails
  <2>1. SrcKept /\ closed' = TRUE /\ canceller' \in BOOLEAN
    BY <1>18, AbortDoes DEF SnapshotFails, SnapshotEnds
  <2>2. left' \in Seq(Frames)
    BY <1>18 DEF SnapshotFails
  <2>c. TypedChannels'
    BY <1>18, <2>1, KeptTyped DEF SnapshotFails
  <2>q. TypedQueue'
    BY <1>18, <1>q DEF SnapshotFails, rdRest
  <2>r. TypedRest'
    BY <1>18, <2>1, <2>2, <1>t DEF TypedRest, SnapshotFails, Exit, rdRest
  <2> QED BY <2>c, <2>q, <2>r, TypePartsAfter
<1>19. CASE StartPump
  <2>c. TypedChannels'
    BY <1>19, <1>c DEF StartPump, feedVars
  <2>q. TypedQueue'
    BY <1>19, <1>q DEF StartPump, rdRest, qVars
  <2>r. TypedRest'
    BY <1>19, <1>t DEF TypedRest, StartPump, Exit, feedVars, rdRest, qVars
  <2> QED BY <2>c, <2>q, <2>r, TypePartsAfter
<1>20. CASE Mutate
  <2>1. requests' \in 0..MaxReq
    BY <1>20, DeliveryAssumption DEF Mutate, Read, TypeOK
  <2>2. latched' \in BOOLEAN
    BY <1>20, <1>t DEF Mutate, Latched, TypedRest
  <2>3. since' \in Int
    BY <1>20, <1>t, FeedsAre DEF Mutate, TypedRest
  <2>c. TypedChannels'
    BY <1>20, <1>c DEF Mutate, feedVars
  <2>q. TypedQueue'
    BY <1>20, <1>q DEF Mutate, rdRest, qVars
  <2>r. TypedRest'
    BY <1>20, <2>1, <2>2, <2>3, <1>t DEF TypedRest, Mutate, rdRest, feedVars, qVars
  <2> QED BY <2>c, <2>q, <2>r, TypePartsAfter
<1>21. CASE Write
  <2>1. /\ sent' = sent /\ written' = written + 1 /\ written < Len(sent)
    BY <1>21 DEF Write, wrRest
  <2>2. /\ Len(sent) \in Nat /\ OutCap \in Nat /\ written \in 0..Len(sent) /\ Len(sent) - written <= OutCap
    BY <1>t, DeliveryAssumption DEF TypedQueue
  <2>c. TypedChannels'
    BY <1>21, <1>c DEF Write, wrRest
  <2>q. TypedQueue'
    BY <1>21, <2>1, <2>2, <1>t DEF TypedQueue
  <2>r. TypedRest'
    BY <1>21, <1>t DEF TypedRest, Write, wrRest, rdVars
  <2> QED BY <2>c, <2>q, <2>r, TypePartsAfter
<1>22. CASE WriteFails
  <2>1. SrcKept /\ closed' = TRUE /\ canceller' \in BOOLEAN
    BY <1>22, TeardownDoes DEF WriteFails
  <2>c. TypedChannels'
    BY <1>22, <2>1, KeptTyped DEF WriteFails, wrRest
  <2>q. TypedQueue'
    BY <1>22, <1>q DEF WriteFails, wrRest
  <2>r. TypedRest'
    BY <1>22, <2>1, <1>t DEF TypedRest, WriteFails, wrRest, rdVars
  <2> QED BY <2>c, <2>q, <2>r, TypePartsAfter
<1>23. CASE WriterEnds
  <2>c. TypedChannels'
    BY <1>23, <1>c DEF WriterEnds, wrRest
  <2>q. TypedQueue'
    BY <1>23, <1>q DEF WriterEnds, wrRest
  <2>r. TypedRest'
    BY <1>23, <1>t DEF TypedRest, WriterEnds, HangUp, wrRest, rdVars
  <2> QED BY <2>c, <2>q, <2>r, TypePartsAfter
<1>24. CASE PushResult
  <2>1. ch["results"].buf # <<>> /\ ch' = [ch EXCEPT !["results"].buf = Tail(@)]
    BY <1>24 DEF PushResult
  <2>2. Head(ch["results"].buf) \in Nat
    BY <2>1, Heads, FeedsAre
  <2> DEFINE r == Frame("result", Head(ch["results"].buf))
  <2>3. r \in Frames
    BY <2>2, FramesAre
  <2>4. Sends(r) \/ (sent' = sent /\ closed' = closed /\ canceller' = canceller /\ src' = src)
    BY <1>24, <2>3, SendDoes DEF PushResult, qVars
  <2>5. SrcKept /\ closed' \in BOOLEAN /\ canceller' \in BOOLEAN
    BY <2>4, <1>t, SameKept DEF Sends, TypedRest
  <2> HIDE DEF r
  <2>c. TypedChannels'
    BY <1>24, <2>1, <2>5, TakenTyped, FeedsAre
  <2>q. TypedQueue'
    BY <1>24, <2>3, <2>4, <1>s DEF PushResult, rpRest
  <2>r. TypedRest'
    BY <1>24, <2>5, <1>t DEF TypedRest, PushResult, rpRest, rdVars
  <2> QED BY <2>c, <2>q, <2>r, TypePartsAfter
<1>25. CASE Drained
  <2>c. TypedChannels'
    BY <1>25, CancelTyped, FeedsAre DEF Drained
  <2>q. TypedQueue'
    BY <1>25, <1>q DEF Drained, rpRest, qVars
  <2>r. TypedRest'
    BY <1>25, <1>t DEF TypedRest, Drained, rpRest, rdVars, qVars
  <2> QED BY <2>c, <2>q, <2>r, TypePartsAfter
<1>26. CASE Rearm
  <2>1. src' = [src EXCEPT !["results"] = Chan(TRUE)] /\ ch' = [ch EXCEPT !["results"] = Chan(TRUE)]
    BY <1>26 DEF Rearm
  <2>2. fwd' \in [Feeds -> {"none", "run", "done"}]
    BY <1>26, <1>t, FeedsAre DEF Rearm, TypedRest
  <2>c. TypedChannels'
    BY <1>26, <2>1, RenewTyped, FeedsAre
  <2>q. TypedQueue'
    BY <1>26, <1>q DEF Rearm, rpRest, qVars
  <2>r. TypedRest'
    BY <1>26, <2>2, <1>t DEF TypedRest, Rearm, rpRest, rdVars, qVars
  <2> QED BY <2>c, <2>q, <2>r, TypePartsAfter
<1>27. CASE PumpStops
  <2>c. TypedChannels'
    BY <1>27, CancelTyped, FeedsAre DEF PumpStops
  <2>q. TypedQueue'
    BY <1>27, <1>q DEF PumpStops, rpRest, qVars
  <2>r. TypedRest'
    BY <1>27, <1>t DEF TypedRest, PumpStops, rpRest, rdVars, qVars
  <2> QED BY <2>c, <2>q, <2>r, TypePartsAfter
<1>28. CASE Close
  <2>c. TypedChannels'
    BY <1>28, <1>c DEF Close, feedVars
  <2>q. TypedQueue'
    BY <1>28, <1>q DEF Close, qVars
  <2>r. TypedRest'
    BY <1>28, <1>t DEF TypedRest, Close, Disconnect, feedVars, rdVars, qVars
  <2> QED BY <2>c, <2>q, <2>r, TypePartsAfter
<1> QED
  BY <1>0, <1>1, <1>2, <1>3, <1>4, <1>5, <1>6, <1>7, <1>8, <1>9, <1>10, <1>11, <1>12, <1>13, <1>14, <1>15, <1>16, <1>17, <1>18, <1>19, <1>20, <1>21, <1>22, <1>23, <1>24, <1>25, <1>26, <1>27, <1>28
  DEF Next, DeltaPump, Subscribing, Handle, Writer, ResultPump

\* Every variable keeps its type, however many frames, changes and results
\* there are: the queue holds at most OutCap frames and each channel at most
\* its capacity, whoever sends (connIO.send and sendBlocking, server.go:766-814;
\* the non-blocking sends of syncer.go:600-613 and main.go:205-216).
THEOREM TypeCorrect == Spec => []TypeOK
<1> QED BY TypeInit, TypeNext, PTL DEF Spec

-----------------------------------------------------------------------------
(* The feed of changes.                                                    *)

\* The last frame of the feed enqueued so far, whether the snapshot has ended
\* with it or before, the change the client will have in full then, and the one
\* the delta pump has taken last.
Last     == LatestIn(sent, Len(sent))
HasEnd   == Last.kind \in {"end", "delta"}
InFull(f) == IF f.kind = "end" \/ f.last THEN f.n ELSE f.n - 1
Final    == IF HasEnd THEN InFull(Last) ELSE -1
Taken    == IF todo # <<>> THEN todo[1].n ELSE IF HasEnd THEN Final ELSE base

\* The queue: each frame of the feed is the one that follows the one before.
SentInv ==
  /\ AllHaveLast(sent)
  /\ \A i \in 1..Len(sent) : IsFeed(sent[i]) =>
       F!Follows(LatestIn(sent, i - 1), sent[i], published["changes"])

\* The snapshot is of a change that was published.
BoundsInv == base <= published["changes"]

\* handle: what it has yet to send continues what was enqueued, up to the end
\* of the snapshot, after which the pump starts.
StageInv ==
  /\ ~subscribed => /\ Last = Frame("none", 0) /\ pump = "none" /\ rd \notin {"subscribe", "snapshot"}
                    /\ fwd["changes"] = "none" /\ ch["changes"].buf = <<>>
  /\ rd \in {"hello", "subscribe"} => Last = Frame("none", 0) /\ pump = "none"
  /\ rd = "snapshot" =>
       /\ pump = "none"
       /\ left = <<>> => Last.kind = "end"
       /\ left # <<>> => ~HasEnd /\ F!Follows(Last, left[1], published["changes"])
       /\ \A i \in 1..Len(left) :
            /\ left[i].kind \in {"subscribed", "begin", "item", "end"}
            /\ left[i].kind = "end" <=> i = Len(left)
            /\ left[i].kind = "end" => left[i].n = base
            /\ i < Len(left) => F!Follows(left[i], left[i + 1], published["changes"])
  /\ pump # "none" => HasEnd

\* The pump's hand: what is left of the next change, or of the one that the
\* frames enqueued have in part.
HandInv ==
  /\ pump = "run" /\ todo = <<>> => F!Settled(Last)
  /\ todo # <<>> =>
       /\ pump = "run" /\ F!Follows(Last, todo[1], published["changes"])
       /\ todo[1].n = Final + 1 /\ todo[1].n <= published["changes"]
       /\ \A i \in 1..Len(todo) : /\ todo[i].kind = "delta" /\ todo[i].n = todo[1].n
                                  /\ todo[i].part = todo[1].part + (i - 1)
                                  /\ todo[i].last <=> i = Len(todo)

\* The numbers after n, in order and without a gap.
Follow(b, n) == \A i \in 1..Len(b) : b[i] = n + i

\* The two channels continue what the pump has taken, while it runs; and that
\* of the syncer reaches to the last change, while nobody was dropped.
ChainInv ==
  LET c == ch["changes"].buf  s == src["changes"]  last == Taken + Len(c) IN
  pump \in {"none", "run"} =>
    /\ Follow(c, Taken) /\ last <= published["changes"]
    /\ fwd["changes"] = "run" =>
         /\ Follow(s.buf, last) /\ last + Len(s.buf) <= published["changes"]
         /\ s.open => last + Len(s.buf) = published["changes"]

\* The writer starts with the handshake.
WriterInv == (rd = "hello" => wr = "none") /\ (wr = "none" => rd \in {"hello", "gone"})

PipeInv == BoundsInv /\ StageInv /\ HandInv /\ ChainInv
FeedInv == SentInv /\ PipeInv /\ WriterInv

LEMMA FollowAppend ==
  ASSUME NEW b \in Seq(Numbers), NEW n \in Int, NEW m \in Numbers, Follow(b, n), m = n + Len(b) + 1
  PROVE  Follow(Append(b, m), n)
<1>1. /\ Len(Append(b, m)) = Len(b) + 1 /\ Append(b, m)[Len(b) + 1] = m /\ Len(b) \in Nat
      /\ \A i \in 1..Len(b) : Append(b, m)[i] = b[i]
  BY AppendNumber
<1> DEFINE a == Append(b, m)
<1> HIDE DEF a
<1>2. ASSUME NEW i \in 1..(Len(b) + 1) PROVE a[i] = n + i
  <2>1. CASE i = Len(b) + 1
    BY <1>1, <2>1 DEF a
  <2>2. CASE i # Len(b) + 1
    <3>1. i \in 1..Len(b)
      BY <1>1, <2>2
    <3> QED BY <1>1, <3>1 DEF Follow, a
  <2> QED BY <2>1, <2>2
<1> QED BY <1>1, <1>2 DEF Follow, a

LEMMA FollowTail ==
  ASSUME NEW b \in Seq(Numbers), NEW n \in Int, Follow(b, n), b # <<>>
  PROVE  Head(b) = n + 1 /\ Follow(Tail(b), n + 1)
<1>1. /\ Len(b) \in Nat \ {0} /\ Head(b) = b[1] /\ Len(Tail(b)) = Len(b) - 1
      /\ \A i \in 1..(Len(b) - 1) : Tail(b)[i] = b[i + 1]
  BY TailNumber
<1> DEFINE a == Tail(b)
<1> HIDE DEF a
<1>2. ASSUME NEW i \in 1..(Len(b) - 1) PROVE a[i] = (n + 1) + i
  <2>1. i + 1 \in 1..Len(b)
    BY <1>1
  <2> QED BY <1>1, <2>1 DEF Follow, a
<1>3. b[1] = n + 1
  BY <1>1 DEF Follow
<1> QED BY <1>1, <1>2, <1>3 DEF Follow, a

LEMMA FollowNone ==
  ASSUME NEW n
  PROVE  Follow(<<>>, n)
<1>1. Len(<<>>) = 0
  OBVIOUS
<1> QED BY <1>1 DEF Follow

\* The last frame is one of the feed, or there is none.
LEMMA LastTyped ==
  ASSUME TypeOK, SentInv
  PROVE  /\ Last = Frame("none", 0) \/ (Last \in Frames /\ IsFeed(Last))
         /\ Last.kind \in Kinds \cup {"none"} /\ Last.n \in Nat /\ Last.part \in Nat
         /\ Last.last \in BOOLEAN
<1>1. sent \in Seq(Frames) /\ Len(sent) \in 0..Len(sent) /\ AllHaveLast(sent)
  BY DEF TypeOK, SentInv
<1>2. Last = Frame("none", 0) \/ (Last \in Frames /\ IsFeed(Last))
  BY <1>1, LatestTyped DEF Last
<1>3. CASE Last = Frame("none", 0)
  <2>1. Last = [kind |-> "none", n |-> 0, part |-> 1, last |-> TRUE]
    BY <1>3 DEF Frame
  <2>2. Last.kind = "none" /\ Last.n = 0 /\ Last.part = 1
    BY <2>1
  <2>3. Last.last \in BOOLEAN
    BY <2>1, Zenon
  <2> QED BY <1>2, <2>2, <2>3
<1>4. CASE Last \in Frames
  BY <1>2, <1>4, FramesAre
<1> QED BY <1>2, <1>3, <1>4

\* Types of what the invariants compare.
LEMMA FeedTyped ==
  ASSUME TypeOK, SentInv
  PROVE  /\ base \in Nat /\ published["changes"] \in Nat /\ Final \in Int
         /\ sent \in Seq(Frames) /\ Len(sent) \in Nat
         /\ Taken \in Int
         /\ ch["changes"].buf \in Seq(Numbers) /\ Len(ch["changes"].buf) \in Nat
         /\ src["changes"].buf \in Seq(Numbers) /\ Len(src["changes"].buf) \in Nat
<1>1. base \in Nat /\ published["changes"] \in Nat /\ sent \in Seq(Frames) /\ todo \in Seq(Frames)
  BY FeedsAre DEF TypeOK
<1>2. Len(sent) \in Nat
  BY <1>1
<1>3. Final \in Int
  BY LastTyped DEF Final, InFull
<1>4. todo # <<>> => todo[1].n \in Nat
  <2>1. todo # <<>> => todo[1] \in Frames
    BY <1>1
  <2> QED BY <2>1, FramesAre
<1>5. Taken \in Int
  BY <1>1, <1>3, <1>4 DEF Taken
<1>6. ch["changes"].buf \in Seq(Numbers) /\ src["changes"].buf \in Seq(Numbers)
  BY Typed, ChanFields, FeedsAre
<1> QED BY <1>1, <1>2, <1>3, <1>5, <1>6

\* What may follow a frame may do so when more changes are committed.
LEMMA FollowsLater ==
  ASSUME NEW f, NEW g, NEW c \in Nat, NEW d \in Nat, c <= d, f.n \in Nat, F!Follows(f, g, c)
  PROVE  F!Follows(f, g, d)
<1>1. 0..c \subseteq 0..d /\ (f.n < c => f.n < d)
  OBVIOUS
<1> QED BY <1>1 DEF F!Follows

\* No frame is enqueued.
LEMMA SentKeeps ==
  ASSUME TypeOK, SentInv, sent' = sent,
         published'["changes"] \in Nat, published["changes"] <= published'["changes"]
  PROVE  SentInv' /\ Last' = Last /\ Final' = Final /\ (HasEnd' <=> HasEnd)
<1>1. published["changes"] \in Nat /\ sent \in Seq(Frames)
  BY FeedsAre DEF TypeOK
<1>2. Last' = Last /\ Final' = Final /\ (HasEnd' <=> HasEnd)
  BY DEF Last, Final, HasEnd
<1>3. ASSUME NEW i \in 1..Len(sent), IsFeed(sent[i])
      PROVE  F!Follows(LatestIn(sent, i - 1), sent[i], published'["changes"])
  <2>1. F!Follows(LatestIn(sent, i - 1), sent[i], published["changes"])
    BY <1>3 DEF SentInv
  <2>2. LatestIn(sent, i - 1).n \in Nat
    <3>1. AllHaveLast(sent) /\ i - 1 \in 0..Len(sent)
      BY <1>1 DEF SentInv
    <3>2. LatestIn(sent, i - 1) = Frame("none", 0) \/ LatestIn(sent, i - 1) \in Frames
      BY <1>1, <3>1, LatestTyped
    <3>3. Frame("none", 0).n = 0
      BY DEF Frame
    <3> QED BY <3>2, <3>3, FramesAre
  <2> HIDE DEF SentInv
  <2> QED BY <1>1, <2>1, <2>2, FollowsLater
<1>4. SentInv'
  BY <1>3 DEF SentInv
<1> QED BY <1>2, <1>4

\* The frame that is enqueued is not of the feed, or it is the next one.
LEMMA SentGrows ==
  ASSUME TypeOK, SentInv, NEW f \in Frames, sent' = Append(sent, f),
         published'["changes"] = published["changes"],
         IsFeed(f) => F!Follows(Last, f, published["changes"])
  PROVE  /\ SentInv'
         /\ Last' = IF IsFeed(f) THEN f ELSE Last
<1> DEFINE t == sent'
           N == Len(sent) + 1
<1>1. /\ sent \in Seq(Frames) /\ Len(sent) \in Nat /\ t \in Seq(Frames) /\ Len(t) = N
      /\ \A i \in 1..Len(sent) : t[i] = sent[i]
      /\ t[N] = f
  <2>1. sent \in Seq(Frames)
    BY DEF TypeOK
  <2> QED BY <2>1, AppendFrame
<1>2. /\ AllHaveLast(t)
      /\ \A k \in 0..Len(sent) : LatestIn(t, k) = LatestIn(sent, k)
  <2>1. sent \in Seq(Frames) /\ AllHaveLast(sent)
    BY DEF TypeOK, SentInv
  <2> QED BY <2>1, LatestAppend
<1> HIDE DEF t
<1>3. LatestIn(t, N - 1) = Last
  BY <1>1, <1>2 DEF Last
<1>4. Last' = LatestIn(t, N)
  BY <1>1 DEF Last, t
<1>5. Last' = IF IsFeed(f) THEN f ELSE Last
  <2>0. N \in 1..Len(t) /\ t \in Seq(Frames) /\ t[N] = f
    BY <1>1
  <2> HIDE DEF N
  <2>1. CASE IsFeed(f)
    BY <2>0, <2>1, <1>4, LatestFeed
  <2>2. CASE ~IsFeed(f)
    <3>1. LatestIn(t, N) = LatestIn(t, N - 1)
      BY <2>0, <2>2, LatestOther
    <3> QED BY <2>2, <3>1, <1>3, <1>4
  <2> QED BY <2>1, <2>2
<1>6. ASSUME NEW i \in 1..N, IsFeed(t[i])
      PROVE  F!Follows(LatestIn(t, i - 1), t[i], published["changes"])
  <2>1. CASE i = N
    BY <1>1, <1>3, <1>6, <2>1
  <2>2. CASE i # N
    <3>1. i \in 1..Len(sent) /\ t[i] = sent[i] /\ i - 1 \in 0..Len(sent)
      BY <1>1, <2>2
    <3>2. LatestIn(t, i - 1) = LatestIn(sent, i - 1)
      BY <1>2, <3>1
    <3> QED BY <3>1, <3>2, <1>6 DEF SentInv
  <2> QED BY <2>1, <2>2
<1>7. SentInv'
  <2>1. Len(sent)' = N /\ sent' = t
    BY <1>1 DEF t
  <2> HIDE DEF N
  <2> QED BY <2>1, <1>2, <1>6 DEF SentInv
<1> QED BY <1>5, <1>7

\* A frame that is not of the feed, if any, is enqueued.
LEMMA SentQuiet ==
  ASSUME TypeOK, SentInv, NEW f \in Frames, ~IsFeed(f),
         Sends(f) \/ sent' = sent, published' = published
  PROVE  SentInv' /\ Last' = Last /\ Final' = Final /\ (HasEnd' <=> HasEnd)
<1>1. published["changes"] \in Nat
  BY FeedsAre DEF TypeOK
<1>2. CASE sent' = sent
  BY <1>1, <1>2, SentKeeps
<1>3. CASE sent' = Append(sent, f)
  <2>1. SentInv' /\ Last' = Last
    BY <1>3, SentGrows
  <2> QED BY <2>1 DEF Final, HasEnd
<1> QED BY <1>2, <1>3 DEF Sends

\* Nothing of the feed has changed, but that it may be cancelled, or handle
\* may be elsewhere.
LEMMA PipeFrame ==
  ASSUME TypeOK, PipeInv, base' = base, published'["changes"] = published["changes"],
         Last' = Last, subscribed' = subscribed, pump' = pump,
         todo' = todo, left' = left,
         fwd'["changes"] = fwd["changes"] \/ (fwd["changes"] = "run" /\ fwd'["changes"] = "done"),
         ch'["changes"].buf = ch["changes"].buf, src'["changes"].buf = src["changes"].buf,
         src'["changes"].open => src["changes"].open,
         rd' = rd \/ rd' \in {"read", "submit", "leave", "gone"}
  PROVE  PipeInv'
<1>0. Final' = Final /\ (HasEnd' <=> HasEnd)
  BY DEF Final, HasEnd
<1>1. Taken' = Taken
  BY <1>0 DEF Taken
<1>2. BoundsInv'
  BY <1>0 DEF PipeInv, BoundsInv
<1>3. StageInv'
  BY <1>0 DEF PipeInv, StageInv
<1>4. HandInv'
  BY <1>0 DEF PipeInv, HandInv
<1>5. ChainInv'
  BY <1>1 DEF PipeInv, ChainInv
<1> QED BY <1>2, <1>3, <1>4, <1>5 DEF PipeInv

\* Every step keeps the feed without a gap.
LEMMA FeedNext == TypeOK /\ FeedInv /\ [Next]_vars => FeedInv'
<1> SUFFICES ASSUME TypeOK, FeedInv, [Next]_vars PROVE FeedInv'
  OBVIOUS
<1>i. SentInv /\ PipeInv /\ WriterInv /\ BoundsInv /\ StageInv /\ HandInv /\ ChainInv
  BY DEF FeedInv, PipeInv
<1>t. /\ base \in Nat /\ published["changes"] \in Nat /\ Final \in Int
      /\ sent \in Seq(Frames) /\ Len(sent) \in Nat
      /\ Taken \in Int
      /\ ch["changes"].buf \in Seq(Numbers) /\ Len(ch["changes"].buf) \in Nat
      /\ src["changes"].buf \in Seq(Numbers) /\ Len(src["changes"].buf) \in Nat
  BY <1>i, FeedTyped
<1>k. ASSUME sent' = sent, published'["changes"] \in Nat,
             published["changes"] <= published'["changes"]
      PROVE  SentInv' /\ Last' = Last /\ Final' = Final /\ (HasEnd' <=> HasEnd)
  BY <1>i, <1>k, SentKeeps
<1>q. ASSUME NEW f \in Frames, ~IsFeed(f), Sends(f) \/ sent' = sent,
             published' = published
      PROVE  SentInv' /\ Last' = Last /\ Final' = Final /\ (HasEnd' <=> HasEnd)
  BY <1>i, <1>q, SentQuiet
<1>n. \A f : f.kind \in {"reply", "error", "result"} => ~IsFeed(f)
  BY DEF IsFeed, FeedKinds
<1>e. SrcKept => /\ src'["changes"].buf = src["changes"].buf
                 /\ src'["changes"].open => src["changes"].open
  BY DEF SrcKept
<1>f. ASSUME base' = base, published'["changes"] = published["changes"],
             Last' = Last, subscribed' = subscribed, pump' = pump,
             todo' = todo, left' = left,
             fwd'["changes"] = fwd["changes"] \/ (fwd["changes"] = "run" /\ fwd'["changes"] = "done"),
             ch'["changes"].buf = ch["changes"].buf, src'["changes"].buf = src["changes"].buf,
             src'["changes"].open => src["changes"].open,
             rd' = rd \/ rd' \in {"read", "submit", "leave", "gone"}
      PROVE  PipeInv'
  BY <1>i, <1>f, PipeFrame
<1>0. CASE UNCHANGED vars
  <2>1. SentInv' /\ Last' = Last /\ Final' = Final /\ (HasEnd' <=> HasEnd)
    BY <1>0, <1>t, <1>k DEF vars, rdVars, qVars
  <2>2. PipeInv'
    BY <1>0, <2>1, <1>f DEF vars, feedVars, rdVars
  <2> QED BY <1>0, <2>1, <2>2, <1>i DEF FeedInv, WriterInv, vars, rdVars
<1>1. CASE Publish("changes")
  <2> DEFINE n == published["changes"] + 1
  <2>1. published'["changes"] = n /\ n \in Numbers /\ n \in Nat /\ Offer("changes", n)
    <3>1. published["changes"] < MaxSeq
      BY <1>1 DEF Publish
    <3>2. n \in Numbers /\ n \in Nat
      BY <3>1, <1>t, DeliveryAssumption DEF Numbers
    <3>3. published' = [published EXCEPT !["changes"] = n] /\ published \in [Feeds -> Nat]
      BY <1>1 DEF Publish, TypeOK
    <3>4. published'["changes"] = n
      BY <3>3, FeedsAre
    <3> QED BY <1>1, <3>2, <3>4 DEF Publish
  <2>2. Offered("changes", n)
    <3> HIDE DEF n
    <3> QED BY <2>1, OfferDoes, FeedsAre
  <2>3. SentInv' /\ Last' = Last /\ Final' = Final /\ (HasEnd' <=> HasEnd)
    BY <1>1, <2>1, <1>t, <1>k DEF Publish, rdVars, qVars
  <2>4. /\ base' = base /\ subscribed' = subscribed /\ pump' = pump /\ todo' = todo /\ left' = left
        /\ rd' = rd /\ fwd' = fwd /\ ch' = ch /\ wr' = wr
    BY <1>1 DEF Publish, rdVars
  <2>5. BoundsInv'
    BY <2>1, <2>4, <1>t, <1>i DEF BoundsInv
  <2>l. ASSUME NEW f, NEW g, f.n \in Nat, F!Follows(f, g, published["changes"])
        PROVE  F!Follows(f, g, published'["changes"])
    <3>1. published'["changes"] \in Nat /\ published["changes"] <= published'["changes"]
      BY <2>1, <1>t
    <3> QED BY <3>1, <2>l, <1>t, FollowsLater
  <2>6. StageInv'
    <3>1. Last.n \in Nat
      BY <1>i, LastTyped
    <3>2. \A i \in 1..Len(left) : left[i].n \in Nat
      BY FramesAre DEF TypeOK
    <3> HIDE DEF n
    <3> QED BY <2>l, <2>3, <2>4, <3>1, <3>2, <1>i DEF StageInv
  <2>7. HandInv'
    <3>1. Last.n \in Nat
      BY <1>i, LastTyped
    <3>2. todo # <<>> => todo[1].n \in Nat
      <4>1. todo # <<>> => todo[1] \in Frames
        BY DEF TypeOK
      <4> QED BY <4>1, FramesAre
    <3>3. todo # <<>> => todo[1].n <= published'["changes"]
      BY <2>1, <3>2, <1>t, <1>i DEF HandInv
    <3> HIDE DEF n
    <3> QED BY <2>l, <2>3, <2>4, <3>1, <3>3, <1>i DEF HandInv
  <2>8. ChainInv'
    <3>1. Taken' = Taken
      BY <2>3, <2>4 DEF Taken
    <3> DEFINE b == src["changes"].buf
               last == Taken + Len(ch["changes"].buf)
    <3>2. SUFFICES ASSUME pump \in {"none", "run"}
                   PROVE  /\ Follow(ch["changes"].buf, Taken) /\ last <= n
                          /\ fwd["changes"] = "run" =>
                               /\ Follow(src'["changes"].buf, last) /\ last + Len(src'["changes"].buf) <= n
                               /\ src'["changes"].open => last + Len(src'["changes"].buf) = n
      BY <2>1, <2>4, <3>1 DEF ChainInv
    <3>3. /\ Follow(ch["changes"].buf, Taken) /\ last <= published["changes"]
          /\ fwd["changes"] = "run" =>
               /\ Follow(b, last) /\ last + Len(b) <= published["changes"]
               /\ src["changes"].open => last + Len(b) = published["changes"]
      BY <3>2, <1>i DEF ChainInv
    <3>0. last \in Int /\ b \in Seq(Numbers) /\ Len(b) \in Nat /\ published["changes"] \in Nat
      BY <1>t
    <3>4. \/ src["changes"].open /\ src'["changes"].buf = Append(b, n)
          \/ ~src'["changes"].open /\ src'["changes"].buf = b
      BY <2>2 DEF Offered
    <3>7. n = published["changes"] + 1 /\ n \in Numbers
      BY <2>1
    <3> HIDE DEF n, b, last
    <3>5. CASE ~src'["changes"].open /\ src'["changes"].buf = b
      BY <3>0, <3>3, <3>5, <3>7
    <3>6. CASE src["changes"].open /\ src'["changes"].buf = Append(b, n)
      <4>1. Len(Append(b, n)) = Len(b) + 1
        BY <3>0, <3>7, AppendNumber
      <4>2. fwd["changes"] = "run" => n = last + Len(b) + 1
        BY <3>0, <3>3, <3>6, <3>7
      <4>3. fwd["changes"] = "run" => Follow(Append(b, n), last)
        BY <3>0, <3>3, <3>7, <4>2, FollowAppend
      <4> QED BY <3>0, <3>3, <3>6, <3>7, <4>1, <4>2, <4>3
    <3> QED BY <3>4, <3>5, <3>6
  <2> QED BY <2>3, <2>4, <2>5, <2>6, <2>7, <2>8, <1>i DEF FeedInv, PipeInv, WriterInv
<1>2. CASE Publish("results")
  <2>1. published'["changes"] = published["changes"]
    <3>1. published' = [published EXCEPT !["results"] = published["results"] + 1]
      BY <1>2 DEF Publish
    <3> QED BY <3>1, FeedsAre DEF TypeOK
  <2>2. src'["changes"] = src["changes"]
    BY <1>2, Typed, FeedsAre DEF Publish, Offer
  <2>3. SentInv' /\ Last' = Last /\ Final' = Final /\ (HasEnd' <=> HasEnd)
    BY <1>2, <2>1, <1>t, <1>k DEF Publish, rdVars, qVars
  <2>4. PipeInv'
    BY <1>2, <2>1, <2>2, <2>3, <1>f DEF Publish, rdVars
  <2> QED BY <1>2, <2>3, <2>4, <1>i DEF FeedInv, WriterInv, Publish, rdVars
<1>3. CASE Forward("changes")
  <2>1. Forwarded("changes")
    BY <1>3, ForwardDoes, FeedsAre
  <2>2. SentInv' /\ Last' = Last /\ Final' = Final /\ (HasEnd' <=> HasEnd)
    BY <1>3, <1>t, <1>k DEF Forward, rdVars, qVars
  <2>3. /\ base' = base /\ subscribed' = subscribed /\ pump' = pump /\ todo' = todo /\ left' = left
        /\ rd' = rd /\ wr' = wr /\ published' = published
    BY <1>3 DEF Forward, rdVars
  <2>4. BoundsInv' /\ HandInv' /\ Taken' = Taken
    BY <2>2, <2>3, <1>i DEF BoundsInv, HandInv, Taken
  <2>5. StageInv'
    <3>1. subscribed
      BY <2>1, <1>i DEF Forwarded, StageInv
    <3> QED BY <3>1, <2>2, <2>3, <1>i DEF StageInv
  <2>6. ChainInv'
    <3> DEFINE c == ch["changes"].buf
               b == src["changes"].buf
               last == Taken + Len(c)
               m == Head(b)
    <3>1. /\ fwd["changes"] = "run" /\ b # <<>>
          /\ \/ /\ fwd'["changes"] = "run" /\ src'["changes"].open = src["changes"].open
                /\ src'["changes"].buf = Tail(b) /\ ch'["changes"].buf = Append(c, m)
             \/ fwd'["changes"] = "done" /\ ch'["changes"].buf = c
      BY <2>1, FeedsAre DEF Forwarded
    <3>2. SUFFICES ASSUME pump \in {"none", "run"}
                   PROVE  LET d == ch'["changes"].buf  s == src'["changes"]  l == Taken + Len(d) IN
                          /\ Follow(d, Taken) /\ l <= published["changes"]
                          /\ fwd'["changes"] = "run" =>
                               /\ Follow(s.buf, l) /\ l + Len(s.buf) <= published["changes"]
                               /\ s.open => l + Len(s.buf) = published["changes"]
      BY <2>3, <2>4 DEF ChainInv
    <3>3. /\ Follow(c, Taken) /\ last <= published["changes"]
          /\ Follow(b, last) /\ last + Len(b) <= published["changes"]
          /\ src["changes"].open => last + Len(b) = published["changes"]
      BY <3>1, <3>2, <1>i DEF ChainInv
    <3>4. CASE fwd'["changes"] = "done" /\ ch'["changes"].buf = c
      BY <3>3, <3>4
    <3>5. CASE /\ fwd'["changes"] = "run" /\ src'["changes"].open = src["changes"].open
               /\ src'["changes"].buf = Tail(b) /\ ch'["changes"].buf = Append(c, m)
      <4>0. b \in Seq(Numbers) /\ c \in Seq(Numbers) /\ last \in Int /\ Len(c) \in Nat /\ Taken \in Int
        BY <1>t
      <4>1. /\ m \in Numbers /\ Len(Tail(b)) = Len(b) - 1 /\ Len(b) \in Nat \ {0}
        BY <4>0, <3>1, TailNumber
      <4> HIDE DEF b, c
      <4>2. m = last + 1 /\ Follow(Tail(b), last + 1)
        <5> HIDE DEF last
        <5> QED BY <4>0, <3>1, <3>3, FollowTail DEF m
      <4>3. Len(Append(c, m)) = Len(c) + 1
        BY <4>0, <4>1, AppendNumber
      <4> HIDE DEF m
      <4>4. Follow(Append(c, m), Taken)
        BY <4>0, <4>1, <4>2, <3>3, FollowAppend
      <4>5. Taken + (Len(c) + 1) = last + 1
        BY <4>0
      <4>6. last + 1 <= published["changes"] /\ (last + 1) + (Len(b) - 1) = last + Len(b)
        BY <4>0, <4>1, <3>3, <1>t
      <4> HIDE DEF last
      <4> QED BY <3>3, <3>5, <4>1, <4>2, <4>3, <4>4, <4>5, <4>6
    <3> QED BY <3>1, <3>4, <3>5
  <2> QED BY <2>2, <2>3, <2>4, <2>5, <2>6, <1>i DEF FeedInv, PipeInv, WriterInv
<1>4. CASE Forward("results")
  <2>1. src'["changes"] = src["changes"] /\ ch'["changes"] = ch["changes"] /\ fwd'["changes"] = fwd["changes"]
    <3>1. Forwarded("results")
      BY <1>4, ForwardDoes, FeedsAre
    <3> QED BY <3>1, FeedsAre DEF Forwarded
  <2>2. SentInv' /\ Last' = Last /\ Final' = Final /\ (HasEnd' <=> HasEnd)
    BY <1>4, <1>t, <1>k DEF Forward, rdVars, qVars
  <2>3. PipeInv'
    BY <1>4, <2>1, <2>2, <1>f DEF Forward, rdVars
  <2> QED BY <1>4, <2>2, <2>3, <1>i DEF FeedInv, WriterInv, Forward, rdVars
<1>5. ASSUME NEW f \in Feeds, ForwarderEnds(f)
      PROVE  FeedInv'
  <2>1. /\ src' = src /\ ch'["changes"].buf = ch["changes"].buf
        /\ \/ fwd'["changes"] = fwd["changes"]
           \/ fwd["changes"] = "run" /\ fwd'["changes"] = "done"
    BY <1>5, EndsTyped, FeedsAre
  <2>2. SentInv' /\ Last' = Last /\ Final' = Final /\ (HasEnd' <=> HasEnd)
    BY <1>5, <1>t, <1>k DEF ForwarderEnds, rdVars, qVars
  <2>3. PipeInv'
    BY <1>5, <2>1, <2>2, <1>f DEF ForwarderEnds, rdVars
  <2> QED BY <1>5, <2>2, <2>3, <1>i DEF FeedInv, WriterInv, ForwarderEnds, rdVars
<1>6. CASE PumpTake
  <2> DEFINE c == ch["changes"].buf
             n == Head(c)
  <2>1. /\ pump = "run" /\ todo = <<>> /\ c # <<>> /\ ch' = [ch EXCEPT !["changes"].buf = Tail(@)]
        /\ sent' = sent /\ published' = published /\ base' = base /\ fwd' = fwd /\ src' = src
        /\ pump' = pump /\ subscribed' = subscribed /\ rd' = rd /\ left' = left /\ wr' = wr
    BY <1>6 DEF PumpTake, pumpRest, rdVars, qVars
  <2>2. SentInv' /\ Last' = Last /\ Final' = Final /\ (HasEnd' <=> HasEnd)
    BY <2>1, <1>t, <1>k
  <2>3. HasEnd /\ subscribed /\ Taken = Final /\ F!Settled(Last) /\ Last.n = Final
    <3>1. HasEnd /\ subscribed /\ F!Settled(Last)
      BY <2>1, <1>i DEF StageInv, HandInv
    <3>2. Last.n = Final
      BY <3>1 DEF F!Settled, Final, InFull
    <3> QED BY <2>1, <3>1, <3>2 DEF Taken
  <2>4. /\ Follow(c, Taken) /\ Taken + Len(c) <= published["changes"]
        /\ fwd["changes"] = "run" =>
             /\ Follow(src["changes"].buf, Taken + Len(c))
             /\ (Taken + Len(c)) + Len(src["changes"].buf) <= published["changes"]
             /\ src["changes"].open => (Taken + Len(c)) + Len(src["changes"].buf) = published["changes"]
    BY <2>1, <1>i DEF ChainInv
  <2>5. /\ n \in Nat /\ Len(Tail(c)) = Len(c) - 1 /\ Len(c) \in Nat \ {0} /\ c \in Seq(Numbers)
    BY <2>1, Heads, FeedsAre
  <2>6. ch'["changes"].buf = Tail(c)
    <3>1. SrcKept
      BY <2>1, SameKept
    <3> QED BY <2>1, <3>1, TakenTyped, FeedsAre
  <2> HIDE DEF c
  <2>7. n = Taken + 1 /\ Follow(Tail(c), Taken + 1)
    BY <2>1, <2>4, <2>5, <1>t, FollowTail
  <2> HIDE DEF n
  <2>8. PICK k \in Nat \ {0} : todo' = DeltaFrames(n, k)
    <3>1. PICK k \in 1..MaxParts : todo' = DeltaFrames(n, k)
      BY <1>6 DEF PumpTake, n, c
    <3>2. k \in Nat \ {0}
      BY DeliveryAssumption
    <3> QED BY <3>1, <3>2
  <2>9. /\ todo' # <<>> /\ Len(todo') = k /\ 1 \in 1..k
        /\ \A i \in 1..k : /\ todo'[i].kind = "delta" /\ todo'[i].n = n /\ todo'[i].part = i
                           /\ todo'[i].last <=> i = k
    BY <2>5, <2>8, DeltaIs
  <2>10. todo'[1].n = n /\ todo'[1].part = 1 /\ todo'[1].kind = "delta" /\ Taken' = Taken + 1
    BY <2>7, <2>9 DEF Taken
  <2>11. HandInv'
    <3>1. n = Final + 1 /\ n <= published["changes"] /\ Last.n < published["changes"]
      BY <2>3, <2>4, <2>5, <2>7, <1>t
    <3>2. F!Follows(Last, todo'[1], published["changes"])
      BY <2>3, <2>10, <3>1 DEF F!Follows
    <3>3. \A i \in 1..k : todo'[i].part = todo'[1].part + (i - 1)
      BY <2>9, <2>10
    <3> QED BY <2>1, <2>2, <2>9, <2>10, <3>1, <3>2, <3>3 DEF HandInv
  <2>12. ChainInv'
    <3>1. /\ Taken' + Len(Tail(c)) = Taken + Len(c)
      BY <2>5, <2>10, <1>t
    <3>2. Follow(Tail(c), Taken')
      BY <2>7, <2>10
    <3> QED BY <2>1, <2>4, <2>6, <3>1, <3>2 DEF ChainInv
  <2>13. BoundsInv' /\ StageInv'
    BY <2>1, <2>2, <2>3, <1>i DEF BoundsInv, StageInv
  <2> QED BY <2>1, <2>2, <2>11, <2>12, <2>13, <1>i DEF FeedInv, PipeInv, WriterInv
<1>7. CASE PumpAborts
  <2>1. /\ pump \in {"run", "cancel"} /\ pump' = "done" /\ todo' = todo
        /\ sent' = sent /\ published' = published /\ base' = base /\ fwd' = fwd
        /\ subscribed' = subscribed /\ rd' = rd /\ left' = left /\ wr' = wr
    BY <1>7 DEF PumpAborts, pumpRest, rdVars
  <2>2. SentInv' /\ Last' = Last /\ Final' = Final /\ (HasEnd' <=> HasEnd)
    BY <2>1, <1>t, <1>k
  <2>3. HasEnd /\ subscribed
    BY <2>1, <1>i DEF StageInv
  <2>4. todo = <<>>
    BY <1>7, <1>i DEF PumpAborts, HandInv
  <2>5. BoundsInv' /\ StageInv' /\ HandInv' /\ ChainInv'
    BY <2>1, <2>2, <2>3, <2>4, <1>i DEF BoundsInv, StageInv, HandInv, ChainInv
  <2> QED BY <2>1, <2>2, <2>5, <1>i DEF FeedInv, PipeInv, WriterInv
<1>8. CASE PumpCancels
  <2>1. /\ pump \in {"run", "cancel"} /\ pump' = "done" /\ todo' = todo
        /\ sent' = sent /\ published' = published /\ base' = base /\ fwd' = fwd
        /\ subscribed' = subscribed /\ rd' = rd /\ left' = left /\ wr' = wr
    BY <1>8 DEF PumpCancels, pumpRest, rdVars, qVars
  <2>2. SentInv' /\ Last' = Last /\ Final' = Final /\ (HasEnd' <=> HasEnd)
    BY <2>1, <1>t, <1>k
  <2>3. HasEnd /\ subscribed
    BY <2>1, <1>i DEF StageInv
  <2>4. todo = <<>>
    BY <1>8, <1>i DEF PumpCancels, HandInv
  <2>5. BoundsInv' /\ StageInv' /\ HandInv' /\ ChainInv'
    BY <2>1, <2>2, <2>3, <2>4, <1>i DEF BoundsInv, StageInv, HandInv, ChainInv
  <2> QED BY <2>1, <2>2, <2>5, <1>i DEF FeedInv, PipeInv, WriterInv
<1>9. CASE PumpEnds
  <2>1. /\ pump \in {"run", "cancel"} /\ pump' = "done" /\ todo' = todo
        /\ sent' = sent /\ published' = published /\ base' = base /\ fwd' = fwd
        /\ subscribed' = subscribed /\ rd' = rd /\ left' = left /\ wr' = wr
    BY <1>9 DEF PumpEnds, pumpRest, rdVars
  <2>2. SentInv' /\ Last' = Last /\ Final' = Final /\ (HasEnd' <=> HasEnd)
    BY <2>1, <1>t, <1>k
  <2>3. HasEnd /\ subscribed
    BY <2>1, <1>i DEF StageInv
  <2>4. todo = <<>>
    BY <1>9, <1>i DEF PumpEnds, HandInv
  <2>5. BoundsInv' /\ StageInv' /\ HandInv' /\ ChainInv'
    BY <2>1, <2>2, <2>3, <2>4, <1>i DEF BoundsInv, StageInv, HandInv, ChainInv
  <2> QED BY <2>1, <2>2, <2>5, <1>i DEF FeedInv, PipeInv, WriterInv
<1>10. CASE PumpSend
  <2> DEFINE f == Head(todo)
             g == Tail(todo)
  <2>1. /\ pump = "run" /\ todo # <<>> /\ Send(f)
        /\ todo' = (IF closed' THEN <<>> ELSE g)
        /\ pump' = (IF closed' THEN "cancel" ELSE "run")
        /\ published' = published /\ base' = base /\ fwd' = fwd /\ ch' = ch
        /\ subscribed' = subscribed /\ rd' = rd /\ left' = left /\ wr' = wr
    BY <1>10 DEF PumpSend, pumpRest, rdVars
  <2>2. /\ f = todo[1] /\ f \in Frames /\ g \in Seq(Frames) /\ Len(g) = Len(todo) - 1
        /\ Len(todo) \in Nat \ {0} /\ \A i \in 1..(Len(todo) - 1) : g[i] = todo[i + 1]
    BY <2>1, TailFrame DEF TypeOK
  <2> HIDE DEF f, g
  <2>3. Sends(f)
    BY <2>1, <2>2, SendDoes
  <2>4. /\ HasEnd /\ subscribed /\ F!Follows(Last, f, published["changes"])
        /\ f.kind = "delta" /\ IsFeed(f) /\ f.n <= published["changes"]
        /\ f.last <=> Len(todo) = 1
        /\ \A i \in 1..Len(todo) : /\ todo[i].kind = "delta" /\ todo[i].n = f.n
                                   /\ todo[i].part = f.part + (i - 1)
                                   /\ todo[i].last <=> i = Len(todo)
    <3>1. 1 \in 1..Len(todo)
      BY <2>2
    <3> QED BY <2>1, <2>2, <3>1, <1>i DEF StageInv, HandInv, IsFeed, FeedKinds
  <2>5. f.n \in Nat /\ f.part \in Nat /\ Taken = f.n
    BY <2>1, <2>2, FramesAre DEF Taken
  <2>6. SrcKept
    BY <2>3 DEF Sends
  <2>7. CASE sent' = sent /\ closed'
    <3>1. SentInv' /\ Last' = Last /\ Final' = Final /\ (HasEnd' <=> HasEnd)
      BY <2>1, <2>7, <1>t, <1>k
    <3>2. todo' = <<>> /\ pump' = "cancel"
      BY <2>1, <2>7
    <3>3. BoundsInv' /\ StageInv' /\ HandInv' /\ ChainInv'
      BY <2>1, <2>4, <3>1, <3>2, <1>i DEF BoundsInv, StageInv, HandInv, ChainInv
    <3> QED BY <2>1, <3>1, <3>3, <1>i DEF FeedInv, PipeInv, WriterInv
  <2>8. CASE sent' = Append(sent, f) /\ ~closed'
    <3>1. SentInv' /\ Last' = f
      BY <2>1, <2>2, <2>4, <2>8, <1>i, SentGrows
    <3>2. HasEnd' /\ Final' = IF f.last THEN f.n ELSE f.n - 1
      BY <2>4, <3>1 DEF HasEnd, Final, InFull
    <3>3. todo' = g /\ pump' = "run"
      BY <2>1, <2>8
    <3>4. BoundsInv' /\ StageInv'
      BY <2>1, <2>4, <3>2, <3>3, <1>i DEF BoundsInv, StageInv
    <3>5. HandInv' /\ Taken' = Taken
      <4>1. CASE f.last
        <5>1. Len(g) = 0 /\ todo' = <<>>
          BY <2>2, <2>4, <3>3, <4>1
        <5>2. F!Settled(f)
          BY <2>4, <4>1 DEF F!Settled
        <5> QED BY <2>5, <3>1, <3>2, <4>1, <5>1, <5>2 DEF HandInv, Taken
      <4>2. CASE ~f.last
        <5>1. Len(g) \in Nat \ {0} /\ todo' # <<>> /\ 1 \in 1..Len(g)
          BY <2>2, <2>4, <3>3, <4>2
        <5>2. ASSUME NEW i \in 1..Len(g)
              PROVE  /\ g[i].kind = "delta" /\ g[i].n = f.n /\ g[i].part = f.part + i
                     /\ g[i].last <=> i = Len(g)
          <6>1. /\ g[i] = todo[i + 1] /\ i + 1 \in 1..Len(todo) /\ (i + 1 = Len(todo) <=> i = Len(g))
                /\ (i + 1) - 1 = i
            BY <2>2
          <6> QED BY <6>1, <2>4
        <5>3. F!Follows(f, g[1], published["changes"])
          BY <5>1, <5>2, <2>4, <4>2 DEF F!Follows
        <5>4. ASSUME NEW i \in 1..Len(g) PROVE g[i].part = g[1].part + (i - 1)
          <6>1. g[i].part = f.part + i /\ g[1].part = f.part + 1 /\ i \in Nat
            BY <5>1, <5>2
          <6> QED BY <6>1, <2>5
        <5>5. g[1].n = f.n /\ f.n = Final' + 1
          BY <5>1, <5>2, <2>5, <3>2, <4>2
        <5>6. HandInv'
          BY <2>1, <2>4, <3>1, <3>3, <5>1, <5>2, <5>3, <5>4, <5>5 DEF HandInv
        <5> QED BY <2>5, <3>3, <5>1, <5>5, <5>6 DEF Taken
      <4> QED BY <4>1, <4>2
    <3>6. ChainInv'
      BY <2>1, <3>3, <3>5, <2>6, <1>e, <1>i DEF ChainInv
    <3> QED BY <2>1, <3>1, <3>4, <3>5, <3>6, <1>i DEF FeedInv, PipeInv, WriterInv
  <2> QED BY <2>3, <2>7, <2>8 DEF Sends
<1>11. CASE Subscribe
  <2>1. /\ rd = "read" /\ ~subscribed /\ subscribed' = TRUE /\ base' = published["changes"]
        /\ src' = [src EXCEPT !["changes"] = Chan(TRUE)]
        /\ ch' = [ch EXCEPT !["changes"] = Chan(TRUE)]
        /\ rd' = "subscribe" /\ sent' = sent /\ published' = published
        /\ pump' = pump /\ todo' = todo /\ left' = left /\ wr' = wr
    BY <1>11 DEF Subscribe, Read, rdRest, qVars
  <2>2. src'["changes"] = Chan(TRUE) /\ ch'["changes"] = Chan(TRUE)
    BY <2>1, RenewTyped, FeedsAre
  <2>3. Last = Frame("none", 0) /\ ~HasEnd /\ pump = "none" /\ todo = <<>>
    <3>1. Last = Frame("none", 0) /\ pump = "none"
      BY <2>1, <1>i DEF StageInv
    <3> QED BY <3>1, <1>i DEF HasEnd, Frame, HandInv
  <2>4. SentInv' /\ Last' = Last /\ Final' = Final /\ (HasEnd' <=> HasEnd)
    BY <2>1, <1>t, <1>k
  <2>5. Taken' = base'
    BY <2>1, <2>3, <2>4 DEF Taken
  <2>6. BoundsInv' /\ HandInv' /\ StageInv'
    BY <2>1, <2>3, <2>4, <1>t DEF BoundsInv, HandInv, StageInv
  <2>7. ChainInv'
    <3>1. Chan(TRUE).buf = <<>> /\ Len(Chan(TRUE).buf) = 0
      BY ChanIs
    <3>2. ch'["changes"].buf = <<>> /\ Len(ch'["changes"].buf) = 0
          /\ src'["changes"].buf = <<>> /\ Len(src'["changes"].buf) = 0
      BY <2>2, <3>1
    <3>3. Follow(<<>>, Taken') /\ Follow(<<>>, Taken' + 0)
      BY FollowNone
    <3>4. Taken' + 0 = published'["changes"] /\ (Taken' + 0) + 0 = published'["changes"] /\ published'["changes"] \in Nat
      BY <2>1, <2>5, <1>t
    <3> QED BY <3>2, <3>3, <3>4 DEF ChainInv
  <2> QED BY <2>1, <2>4, <2>6, <2>7, <1>i DEF FeedInv, PipeInv, WriterInv
<1>12. CASE SetSubCancel
  <2>1. /\ rd = "subscribe" /\ left' = SnapshotFrames /\ rd' = "snapshot" /\ subscribed' = subscribed
        /\ base' = base /\ src' = src /\ ch' = ch /\ fwd' = fwd /\ sent' = sent /\ published' = published
        /\ pump' = pump /\ todo' = todo /\ wr' = wr
    BY <1>12 DEF SetSubCancel, rdRest, feedVars
  <2>2. SentInv' /\ Last' = Last /\ Final' = Final /\ (HasEnd' <=> HasEnd)
    BY <2>1, <1>t, <1>k
  <2>3. subscribed /\ Last = Frame("none", 0) /\ ~HasEnd /\ pump = "none"
    <3>1. subscribed /\ Last = Frame("none", 0) /\ pump = "none"
      BY <2>1, <1>i DEF StageInv
    <3> QED BY <3>1 DEF HasEnd, Frame
  <2>4. /\ SnapshotFrames # <<>>
        /\ F!Follows(Last, SnapshotFrames[1], published["changes"])
        /\ \A i \in 1..Len(SnapshotFrames) :
             /\ SnapshotFrames[i].kind \in {"subscribed", "begin", "item", "end"}
             /\ SnapshotFrames[i].kind = "end" <=> i = Len(SnapshotFrames)
             /\ SnapshotFrames[i].kind = "end" => SnapshotFrames[i].n = base
             /\ i < Len(SnapshotFrames) =>
                  F!Follows(SnapshotFrames[i], SnapshotFrames[i + 1], published["changes"])
    <3> DEFINE N == Items + 3
    <3>1. Items \in Nat /\ N \in Nat \ {0} /\ \A i \in 1..N : i < N => i \in 1..(Items + 2)
      BY DeliveryAssumption
    <3>2. base <= published["changes"]
      BY <1>i DEF BoundsInv
    <3>3. /\ SnapshotFrames \in Seq(Frames) /\ Len(SnapshotFrames) = N
          /\ SnapshotFrames[1].kind = "subscribed"
          /\ \A i \in 1..N :
               /\ SnapshotFrames[i].kind \in {"subscribed", "begin", "item", "end"}
               /\ SnapshotFrames[i].kind = "end" <=> i = N
               /\ SnapshotFrames[i].kind = "end" => SnapshotFrames[i].n = base
          /\ \A i \in 1..(Items + 2) :
               F!Follows(SnapshotFrames[i], SnapshotFrames[i + 1], published["changes"])
      BY <1>t, <3>2, SnapshotIs
    <3>4. Last.kind = "none"
      BY <2>3 DEF Frame
    <3>5. F!Follows(Last, SnapshotFrames[1], published["changes"])
      BY <3>3, <3>4 DEF F!Follows
    <3>6. SnapshotFrames # <<>>
      BY <3>1, <3>3
    <3> HIDE DEF N
    <3> QED BY <3>1, <3>3, <3>5, <3>6
  <2>5. StageInv'
    BY <2>1, <2>2, <2>3, <2>4 DEF StageInv
  <2>6. BoundsInv' /\ HandInv' /\ ChainInv'
    BY <2>1, <2>2, <1>i DEF BoundsInv, HandInv, ChainInv, Taken
  <2> QED BY <2>1, <2>2, <2>5, <2>6, <1>i DEF FeedInv, PipeInv, WriterInv
<1>13. CASE SnapshotSend
  <2> DEFINE f == Head(left)
             g == Tail(left)
  <2>1. /\ rd = "snapshot" /\ left # <<>> /\ sent' = Append(sent, f) /\ left' = g /\ rd' = rd
        /\ subscribed' = subscribed /\ base' = base /\ src' = src /\ ch' = ch /\ fwd' = fwd
        /\ published' = published /\ pump' = pump /\ todo' = todo /\ wr' = wr
    BY <1>13 DEF SnapshotSend, rdRest, feedVars
  <2>2. /\ f = left[1] /\ f \in Frames /\ g \in Seq(Frames) /\ Len(g) = Len(left) - 1
        /\ Len(left) \in Nat \ {0} /\ \A i \in 1..(Len(left) - 1) : g[i] = left[i + 1]
    BY <2>1, TailFrame DEF TypeOK
  <2> HIDE DEF f, g
  <2>3. /\ subscribed /\ ~HasEnd /\ pump = "none" /\ todo = <<>>
        /\ F!Follows(Last, f, published["changes"])
        /\ \A i \in 1..Len(left) :
             /\ left[i].kind \in {"subscribed", "begin", "item", "end"}
             /\ left[i].kind = "end" <=> i = Len(left)
             /\ left[i].kind = "end" => left[i].n = base
             /\ i < Len(left) => F!Follows(left[i], left[i + 1], published["changes"])
    BY <2>1, <2>2, <1>i DEF StageInv, HandInv
  <2>4. /\ f.kind \in {"subscribed", "begin", "item", "end"} /\ IsFeed(f)
        /\ (f.kind = "end" <=> Len(left) = 1) /\ (f.kind = "end" => f.n = base)
    <3>1. 1 \in 1..Len(left)
      BY <2>2
    <3> QED BY <2>2, <2>3, <3>1 DEF IsFeed, FeedKinds
  <2>5. SentInv' /\ Last' = f
    BY <2>1, <2>2, <2>3, <2>4, <1>i, SentGrows
  <2>6. (HasEnd' <=> f.kind = "end") /\ (HasEnd' => Final' = base)
    BY <2>4, <2>5 DEF HasEnd, Final, InFull
  <2>7. StageInv'
    <3>1. ASSUME NEW i \in 1..Len(g)
          PROVE  /\ g[i].kind \in {"subscribed", "begin", "item", "end"}
                 /\ g[i].kind = "end" <=> i = Len(g)
                 /\ g[i].kind = "end" => g[i].n = base
                 /\ i < Len(g) => F!Follows(g[i], g[i + 1], published["changes"])
      <4>1. g[i] = left[i + 1] /\ i + 1 \in 1..Len(left) /\ (i + 1 = Len(left) <=> i = Len(g))
        BY <2>2
      <4>2. i < Len(g) => g[i + 1] = left[(i + 1) + 1] /\ i + 1 < Len(left)
        BY <2>2
      <4> QED BY <4>1, <4>2, <2>3
    <3>2. left' = <<>> => Last'.kind = "end"
      BY <2>1, <2>2, <2>4, <2>5
    <3>3. left' # <<>> => ~HasEnd' /\ F!Follows(f, g[1], published["changes"])
      <4>1. SUFFICES ASSUME left' # <<>> PROVE ~HasEnd' /\ F!Follows(f, g[1], published["changes"])
        OBVIOUS
      <4>2. Len(left) > 1 /\ 1 \in 1..Len(left) /\ g[1] = left[1 + 1]
        BY <4>1, <2>1, <2>2
      <4> QED BY <4>2, <2>2, <2>3, <2>4, <2>6
    <3> QED BY <2>1, <2>3, <2>5, <3>1, <3>2, <3>3 DEF StageInv
  <2>8. Taken' = Taken
    BY <2>1, <2>3, <2>6 DEF Taken
  <2>9. BoundsInv' /\ HandInv'
    BY <2>1, <2>3, <1>i DEF BoundsInv, HandInv
  <2>10. ChainInv'
    BY <2>1, <2>8, <1>i DEF ChainInv
  <2> QED BY <2>1, <2>5, <2>7, <2>9, <2>10, <1>i DEF FeedInv, PipeInv, WriterInv
<1>14. CASE SnapshotFails
  <2>1. /\ rd = "snapshot" /\ sent' = sent /\ left' = <<>> /\ rd' = "gone"
        /\ subscribed' = subscribed /\ base' = base /\ ch' = ch /\ fwd' = fwd
        /\ published' = published /\ pump' = pump /\ todo' = todo /\ wr' = wr
    BY <1>14 DEF SnapshotFails, Exit, rdRest
  <2>2. SrcKept
    BY <1>14, AbortDoes DEF SnapshotFails, SnapshotEnds
  <2>3. SentInv' /\ Last' = Last /\ Final' = Final /\ (HasEnd' <=> HasEnd)
    BY <2>1, <1>t, <1>k
  <2>4. BoundsInv' /\ StageInv' /\ HandInv' /\ Taken' = Taken
    BY <2>1, <2>3, <1>i DEF BoundsInv, StageInv, HandInv, Taken
  <2>5. ChainInv'
    BY <2>1, <2>2, <2>4, <1>e, <1>i DEF ChainInv
  <2> QED BY <2>1, <2>3, <2>4, <2>5, <1>i DEF FeedInv, PipeInv, WriterInv
<1>15. CASE StartPump
  <2>1. /\ rd = "snapshot" /\ sent' = sent /\ left = <<>> /\ left' = left /\ rd' \in {"read", "gone"}
        /\ subscribed' = subscribed /\ base' = base /\ src' = src /\ ch' = ch /\ fwd' = fwd
        /\ published' = published /\ pump' = "run" /\ todo' = todo /\ wr' = wr
    BY <1>15 DEF StartPump, Exit, rdRest, feedVars, qVars
  <2>2. SentInv' /\ Last' = Last /\ Final' = Final /\ (HasEnd' <=> HasEnd)
    BY <2>1, <1>t, <1>k
  <2>3. Last.kind = "end" /\ HasEnd /\ F!Settled(Last) /\ subscribed /\ pump = "none" /\ todo = <<>>
    <3>1. Last.kind = "end" /\ subscribed /\ pump = "none"
      BY <2>1, <1>i DEF StageInv
    <3> QED BY <3>1, <1>i DEF HandInv, HasEnd, F!Settled
  <2>4. BoundsInv' /\ StageInv' /\ HandInv' /\ Taken' = Taken
    BY <2>1, <2>2, <2>3, <1>i DEF BoundsInv, StageInv, HandInv, Taken
  <2>5. ChainInv'
    BY <2>1, <2>3, <2>4, <1>i DEF ChainInv
  <2> QED BY <2>1, <2>2, <2>4, <2>5, <1>i DEF FeedInv, PipeInv, WriterInv
<1>16. CASE Handshake
  <2>s. SentInv' /\ Last' = Last /\ Final' = Final /\ (HasEnd' <=> HasEnd)
    BY <1>16, <1>t, <1>k DEF Handshake, feedVars, qVars
  <2>p. PipeInv'
    BY <1>16, <2>s, <1>f, <1>t DEF Handshake, feedVars, qVars
  <2>w. WriterInv'
    BY <1>16, <1>i DEF WriterInv, Handshake, feedVars, qVars
  <2> QED BY <2>s, <2>p, <2>w DEF FeedInv
<1>17. CASE HandshakeFails
  <2>1. SrcKept
    BY <1>17, TeardownDoes DEF HandshakeFails
  <2>s. SentInv' /\ Last' = Last /\ Final' = Final /\ (HasEnd' <=> HasEnd)
    BY <1>17, <1>t, <1>k DEF HandshakeFails, Exit, rdRest
  <2>p. PipeInv'
    BY <1>17, <2>s, <1>f, <2>1, <1>e DEF HandshakeFails, Exit, rdRest
  <2>w. WriterInv'
    BY <1>17, <1>i DEF WriterInv, HandshakeFails, Exit, rdRest
  <2> QED BY <2>s, <2>p, <2>w DEF FeedInv
<1>18. CASE Leave
  <2>1. SrcKept
    BY <1>18, TeardownDoes DEF Leave
  <2>s. SentInv' /\ Last' = Last /\ Final' = Final /\ (HasEnd' <=> HasEnd)
    BY <1>18, <1>t, <1>k DEF Leave, Exit, rdRest
  <2>p. PipeInv'
    BY <1>18, <2>s, <1>f, <2>1, <1>e DEF Leave, Exit, rdRest
  <2>w. WriterInv'
    BY <1>18, <1>i DEF WriterInv, Leave, Exit, rdRest
  <2> QED BY <2>s, <2>p, <2>w DEF FeedInv
<1>19. CASE Query
  <2>1. Frame("reply", 0) \in Frames /\ Frame("reply", 0).kind = "reply"
    BY FramesAre
  <2>2. Sends(Frame("reply", 0))
    BY <1>19, <2>1, SendDoes DEF Query
  <2>3. SrcKept
    BY <2>2 DEF Sends
  <2>s. SentInv' /\ Last' = Last /\ Final' = Final /\ (HasEnd' <=> HasEnd)
    BY <1>19, <2>1, <2>2, <1>n, <1>q DEF Query, rdRest
  <2>p. PipeInv'
    BY <1>19, <2>s, <1>f, <2>3, <1>e DEF Query, Read, Resume, Exit, rdRest
  <2>w. WriterInv'
    BY <1>19, <1>i DEF WriterInv, Query, Read, Resume, Exit, rdRest
  <2> QED BY <2>s, <2>p, <2>w DEF FeedInv
<1>20. CASE BadRequest
  <2>1. Frame("error", 0) \in Frames /\ Frame("error", 0).kind = "error"
    BY FramesAre
  <2>2. Sends(Frame("error", 0))
    BY <1>20, <2>1, SendDoes DEF BadRequest
  <2>3. SrcKept
    BY <2>2 DEF Sends
  <2>s. SentInv' /\ Last' = Last /\ Final' = Final /\ (HasEnd' <=> HasEnd)
    BY <1>20, <2>1, <2>2, <1>n, <1>q DEF BadRequest, rdRest
  <2>p. PipeInv'
    BY <1>20, <2>s, <1>f, <2>3, <1>e DEF BadRequest, Read, Resume, Exit, rdRest
  <2>w. WriterInv'
    BY <1>20, <1>i DEF WriterInv, BadRequest, Read, Resume, Exit, rdRest
  <2> QED BY <2>s, <2>p, <2>w DEF FeedInv
<1>21. CASE Submitted
  <2>1. Frame("reply", 0) \in Frames /\ Frame("reply", 0).kind = "reply"
    BY FramesAre
  <2>2. Sends(Frame("reply", 0))
    BY <1>21, <2>1, SendDoes DEF Submitted
  <2>3. SrcKept
    BY <2>2 DEF Sends
  <2>s. SentInv' /\ Last' = Last /\ Final' = Final /\ (HasEnd' <=> HasEnd)
    BY <1>21, <2>1, <2>2, <1>n, <1>q DEF Submitted, rdRest
  <2>p. PipeInv'
    BY <1>21, <2>s, <1>f, <2>3, <1>e DEF Submitted, Read, Resume, Exit, rdRest
  <2>w. WriterInv'
    BY <1>21, <1>i DEF WriterInv, Submitted, Read, Resume, Exit, rdRest
  <2> QED BY <2>s, <2>p, <2>w DEF FeedInv
<1>22. CASE Mutate
  <2>s. SentInv' /\ Last' = Last /\ Final' = Final /\ (HasEnd' <=> HasEnd)
    BY <1>22, <1>t, <1>k DEF Mutate, Read, rdRest, feedVars, qVars
  <2>p. PipeInv'
    BY <1>22, <2>s, <1>f, <1>t DEF Mutate, Read, rdRest, feedVars, qVars
  <2>w. WriterInv'
    BY <1>22, <1>i DEF WriterInv, Mutate, Read, rdRest, feedVars, qVars
  <2> QED BY <2>s, <2>p, <2>w DEF FeedInv
<1>23. CASE Write
  <2>s. SentInv' /\ Last' = Last /\ Final' = Final /\ (HasEnd' <=> HasEnd)
    BY <1>23, <1>t, <1>k DEF Write, wrRest, rdVars
  <2>p. PipeInv'
    BY <1>23, <2>s, <1>f, <1>t DEF Write, wrRest, rdVars
  <2>w. WriterInv'
    BY <1>23, <1>i DEF WriterInv, Write, wrRest, rdVars
  <2> QED BY <2>s, <2>p, <2>w DEF FeedInv
<1>24. CASE WriteFails
  <2>1. SrcKept
    BY <1>24, TeardownDoes DEF WriteFails
  <2>s. SentInv' /\ Last' = Last /\ Final' = Final /\ (HasEnd' <=> HasEnd)
    BY <1>24, <1>t, <1>k DEF WriteFails, wrRest, rdVars
  <2>p. PipeInv'
    BY <1>24, <2>s, <1>f, <2>1, <1>e DEF WriteFails, wrRest, rdVars
  <2>w. WriterInv'
    BY <1>24, <1>i DEF WriterInv, WriteFails, wrRest, rdVars
  <2> QED BY <2>s, <2>p, <2>w DEF FeedInv
<1>25. CASE WriterEnds
  <2>s. SentInv' /\ Last' = Last /\ Final' = Final /\ (HasEnd' <=> HasEnd)
    BY <1>25, <1>t, <1>k DEF WriterEnds, wrRest, rdVars
  <2>p. PipeInv'
    BY <1>25, <2>s, <1>f, <1>t DEF WriterEnds, wrRest, rdVars
  <2>w. WriterInv'
    BY <1>25, <1>i DEF WriterInv, WriterEnds, wrRest, rdVars
  <2> QED BY <2>s, <2>p, <2>w DEF FeedInv
<1>26. CASE PushResult
  <2>1. ch["results"].buf # <<>> /\ ch' = [ch EXCEPT !["results"].buf = Tail(@)]
    BY <1>26 DEF PushResult
  <2>2. Head(ch["results"].buf) \in Nat
    BY <2>1, Heads, FeedsAre
  <2> DEFINE r == Frame("result", Head(ch["results"].buf))
  <2>3. r \in Frames /\ r.kind = "result"
    BY <2>2, FramesAre
  <2>4. Sends(r) \/ (sent' = sent /\ src' = src)
    BY <1>26, <2>3, SendDoes DEF PushResult, qVars
  <2>5. SrcKept
    BY <2>4, SameKept DEF Sends
  <2>6. ch'["changes"] = ch["changes"]
    BY <2>1, <2>5, TakenTyped, FeedsAre
  <2> HIDE DEF r
  <2>s. SentInv' /\ Last' = Last /\ Final' = Final /\ (HasEnd' <=> HasEnd)
    BY <1>26, <2>3, <2>4, <1>n, <1>q DEF PushResult, rpRest, rdVars
  <2>p. PipeInv'
    BY <1>26, <2>s, <1>f, <2>5, <2>6, <1>e DEF PushResult, rpRest, rdVars
  <2>w. WriterInv'
    BY <1>26, <1>i DEF WriterInv, PushResult, rpRest, rdVars
  <2> QED BY <2>s, <2>p, <2>w DEF FeedInv
<1>27. CASE Drained
  <2>1. src'["changes"] = src["changes"]
    BY <1>27, CancelTyped, FeedsAre DEF Drained
  <2>s. SentInv' /\ Last' = Last /\ Final' = Final /\ (HasEnd' <=> HasEnd)
    BY <1>27, <1>t, <1>k DEF Drained, rpRest, rdVars, qVars
  <2>p. PipeInv'
    BY <1>27, <2>s, <1>f, <2>1 DEF Drained, rpRest, rdVars, qVars
  <2>w. WriterInv'
    BY <1>27, <1>i DEF WriterInv, Drained, rpRest, rdVars, qVars
  <2> QED BY <2>s, <2>p, <2>w DEF FeedInv
<1>28. CASE Rearm
  <2>1. src'["changes"] = src["changes"] /\ ch'["changes"] = ch["changes"]
    BY <1>28, RenewTyped, FeedsAre DEF Rearm
  <2>2. fwd'["changes"] = fwd["changes"]
    BY <1>28, FeedsAre DEF Rearm, TypeOK
  <2>s. SentInv' /\ Last' = Last /\ Final' = Final /\ (HasEnd' <=> HasEnd)
    BY <1>28, <1>t, <1>k DEF Rearm, rpRest, rdVars, qVars
  <2>p. PipeInv'
    BY <1>28, <2>s, <1>f, <2>1, <2>2 DEF Rearm, rpRest, rdVars, qVars
  <2>w. WriterInv'
    BY <1>28, <1>i DEF WriterInv, Rearm, rpRest, rdVars, qVars
  <2> QED BY <2>s, <2>p, <2>w DEF FeedInv
<1>29. CASE PumpStops
  <2>1. src'["changes"] = src["changes"]
    BY <1>29, CancelTyped, FeedsAre DEF PumpStops
  <2>s. SentInv' /\ Last' = Last /\ Final' = Final /\ (HasEnd' <=> HasEnd)
    BY <1>29, <1>t, <1>k DEF PumpStops, rpRest, rdVars, qVars
  <2>p. PipeInv'
    BY <1>29, <2>s, <1>f, <2>1 DEF PumpStops, rpRest, rdVars, qVars
  <2>w. WriterInv'
    BY <1>29, <1>i DEF WriterInv, PumpStops, rpRest, rdVars, qVars
  <2> QED BY <2>s, <2>p, <2>w DEF FeedInv
<1>30. CASE Close
  <2>s. SentInv' /\ Last' = Last /\ Final' = Final /\ (HasEnd' <=> HasEnd)
    BY <1>30, <1>t, <1>k DEF Close, feedVars, rdVars, qVars
  <2>p. PipeInv'
    BY <1>30, <2>s, <1>f, <1>t DEF Close, feedVars, rdVars, qVars
  <2>w. WriterInv'
    BY <1>30, <1>i DEF WriterInv, Close, feedVars, rdVars, qVars
  <2> QED BY <2>s, <2>p, <2>w DEF FeedInv
<1> QED
  BY FeedsAre, <1>0, <1>1, <1>2, <1>3, <1>4, <1>5, <1>6, <1>7, <1>8, <1>9, <1>10, <1>11, <1>12, <1>13, <1>14, <1>15, <1>16, <1>17, <1>18, <1>19, <1>20, <1>21, <1>22, <1>23, <1>24, <1>25, <1>26, <1>27, <1>28, <1>29, <1>30
  DEF Next, DeltaPump, Subscribing, Handle, Writer, ResultPump

LEMMA FeedInit == Init => FeedInv
<1> SUFFICES ASSUME Init PROVE FeedInv
  OBVIOUS
<1>1. /\ sent = <<>> /\ Len(sent) = 0 /\ sent \in Seq(Frames) /\ base = 0 /\ todo = <<>>
      /\ rd = "hello" /\ subscribed = FALSE /\ pump = "none" /\ wr = "none"
  BY DEF Init
<1>2. /\ published["changes"] = 0 /\ fwd["changes"] = "none"
      /\ ch["changes"] = Chan(FALSE) /\ src["changes"] = Chan(FALSE)
  BY FeedsAre DEF Init
<1>3. /\ ch["changes"].buf = <<>> /\ Len(ch["changes"].buf) = 0
  BY <1>2, ChanIs
<1>4. AllHaveLast(sent) /\ Last = Frame("none", 0)
  <2>1. FeedIn(sent, 0) = {}
    BY DEF FeedIn
  <2>2. AllHaveLast(sent)
    BY <1>1, <2>1 DEF AllHaveLast, HasLast
  <2> QED BY <1>1, <2>1, <2>2 DEF Last, LatestIn, LatestOf
<1>5. ~HasEnd /\ Final = -1
  <2>1. Last.kind = "none"
    BY <1>4 DEF Frame
  <2> QED BY <2>1 DEF HasEnd, Final
<1>6. SentInv
  BY <1>1, <1>4 DEF SentInv
<1>7. BoundsInv /\ StageInv /\ HandInv
  <2>1. BoundsInv
    BY <1>1, <1>2 DEF BoundsInv
  <2>2. ~subscribed
    BY Zenon DEF Init
  <2>3. StageInv
    BY <1>1, <1>2, <1>3, <1>4, <1>5, <2>2 DEF StageInv
  <2>4. HandInv
    BY <1>1 DEF HandInv
  <2> QED BY <2>1, <2>3, <2>4
<1>8. ChainInv
  <2>1. Taken = 0
    BY <1>1, <1>5 DEF Taken
  <2>2. Follow(<<>>, 0)
    BY FollowNone
  <2>3. Follow(ch["changes"].buf, Taken) /\ Taken + Len(ch["changes"].buf) = 0
    BY <1>3, <2>1, <2>2
  <2>4. fwd["changes"] # "run" /\ published["changes"] = 0
    BY <1>2
  <2> QED BY <2>3, <2>4 DEF ChainInv
<1> QED BY <1>1, <1>6, <1>7, <1>8 DEF FeedInv, PipeInv, WriterInv

-----------------------------------------------------------------------------
(* The refinement of Feed.                                                 *)

\* The latest frame and those received, after a step.
LEMMA LatestAfter == Latest' = LatestIn(sent', written') /\ Received' = FeedIn(sent', written')
  BY DEF Latest, LatestIn, LatestOf, Received, FeedIn, IsFeed

\* What the writer has yet to write does not matter to the client.
LEMMA LatestStays ==
  ASSUME TypeOK, SentInv, NEW f \in Frames, sent' = sent \/ sent' = Append(sent, f),
         written' = written
  PROVE  Latest' = Latest /\ Received' = Received
<1>1. sent \in Seq(Frames) /\ written \in 0..Len(sent) /\ AllHaveLast(sent)
  BY DEF TypeOK, SentInv
<1>2. /\ FeedIn(Append(sent, f), written) = FeedIn(sent, written)
      /\ LatestIn(Append(sent, f), written) = LatestIn(sent, written)
  BY <1>1, LatestAppend
<1> QED BY <1>2, LatestIsLatestIn, LatestAfter

\* A step by which the client gets no frame of the feed is no step of it, or
\* its end.
LEMMA Stutters ==
  ASSUME published'["changes"] = published["changes"], Latest' = Latest, Received' = Received,
         Live' => Live
  PROVE  [F!Next]_F!vars
<1>1. CASE Live' <=> Live
  <2>1. Live' = Live
    BY <1>1, Zenon DEF Live
  <2> QED BY <2>1 DEF F!vars
<1>2. CASE ~(Live' <=> Live)
  <2>1. Live' = FALSE
    BY <1>2, Zenon DEF Live
  <2>2. F!End
    BY <2>1 DEF F!End
  <2> QED BY <2>2 DEF F!Next
<1> QED BY <1>1, <1>2

\* Every step is one of the feed: a change of the syncer is committed, and a
\* frame of the feed that is written is the one that follows the latest.
LEMMA FeedStep == TypeOK /\ FeedInv /\ [Next]_vars => [F!Next]_F!vars
<1> SUFFICES ASSUME TypeOK, FeedInv, [Next]_vars PROVE [F!Next]_F!vars
  OBVIOUS
<1>i. SentInv /\ WriterInv
  BY DEF FeedInv
<1>t. published["changes"] \in Nat /\ sent \in Seq(Frames) /\ Len(sent) \in Nat
  BY <1>i, FeedTyped
<1>r. Frame("reply", 0) \in Frames /\ Frame("error", 0) \in Frames
  BY FramesAre
<1>s. ASSUME published'["changes"] = published["changes"], NEW f \in Frames,
             sent' = sent \/ sent' = Append(sent, f), written' = written, Live' => Live
      PROVE  [F!Next]_F!vars
  BY <1>s, <1>i, LatestStays, Stutters
<1>q. ASSUME published'["changes"] = published["changes"], sent' = sent, written' = written,
             Live' => Live
      PROVE  [F!Next]_F!vars
  BY <1>q, <1>r, <1>s
<1>0. CASE UNCHANGED vars
  BY <1>0, <1>q DEF vars, rdVars, qVars, Live
<1>1. CASE Publish("changes")
  <2>1. published'["changes"] = published["changes"] + 1
    BY <1>1, FeedsAre DEF Publish, TypeOK
  <2>2. Latest' = Latest /\ Received' = Received
    BY <1>1, <1>i, <1>r, LatestStays DEF Publish, qVars
  <2>3. Live' <=> Live
    BY <1>1 DEF Publish, rdVars, Live
  <2>4. Live' = Live
    BY <2>3, Zenon DEF Live
  <2>5. F!Commit
    BY <2>1, <2>2, <2>4 DEF F!Commit
  <2> QED BY <2>5 DEF F!Next
<1>2. CASE Publish("results")
  <2>1. published'["changes"] = published["changes"]
    BY <1>2, FeedsAre DEF Publish, TypeOK
  <2> QED BY <1>2, <2>1, <1>q DEF Publish, rdVars, qVars, Live
<1>3. ASSUME NEW f \in Feeds, Forward(f) \/ ForwarderEnds(f)
      PROVE  [F!Next]_F!vars
  BY <1>3, <1>q DEF Forward, ForwarderEnds, rdVars, qVars, Live
<1>4. CASE Write
  <2> DEFINE k == written + 1
  <2>1. /\ wr = "run" /\ wr' = wr /\ published' = published /\ sent' = sent
        /\ written' = k /\ written < Len(sent) /\ written \in 0..Len(sent)
    BY <1>4 DEF Write, wrRest, TypeOK
  <2>2. k \in 1..Len(sent) /\ k - 1 = written
    BY <2>1, <1>t
  <2>3. Latest = LatestIn(sent, k - 1) /\ Received = FeedIn(sent, k - 1)
    BY <2>2, LatestIsLatestIn
  <2>4. Latest' = LatestIn(sent, k) /\ Received' = FeedIn(sent, k)
    BY <2>1, LatestAfter
  <2>5. Live /\ Live'
    BY <2>1 DEF Live
  <2>6. Live = TRUE /\ Live' = TRUE
    BY <2>5, Zenon DEF Live
  <2> HIDE DEF k
  <2>7. CASE ~IsFeed(sent[k])
    <3>1. Latest' = Latest /\ Received' = Received
      BY <2>2, <2>3, <2>4, <2>7, <1>t, LatestOther
    <3> QED BY <3>1, <2>1, <2>5, Stutters
  <2>8. CASE IsFeed(sent[k])
    <3>1. /\ Received' = Received \cup {k} /\ k \notin Received
          /\ Latest' = sent[k]
      BY <2>2, <2>3, <2>4, <2>8, <1>t, LatestFeed
    <3>2. F!Follows(Latest, Latest', published["changes"])
      BY <2>2, <2>3, <2>8, <3>1, <1>i DEF SentInv
    <3>3. Cardinality(Received') = Cardinality(Received) + 1
      <4>1. IsFiniteSet(Received)
        <5>1. Received \subseteq 1..Len(sent) /\ IsFiniteSet(1..Len(sent))
          BY <2>2, <2>3, <1>t, FS_Interval DEF FeedIn
        <5> QED BY <5>1, FS_Subset
      <4> QED BY <3>1, <4>1, FS_AddElement
    <3>4. F!Receive
      BY <2>1, <2>6, <3>2, <3>3 DEF F!Receive
    <3> QED BY <3>4 DEF F!Next
  <2> QED BY <2>7, <2>8
<1>5. CASE Subscribe
  BY <1>5, <1>q, <1>i DEF Subscribe, Read, rdRest, qVars, Live, WriterInv
<1>6. CASE PumpTake
  BY <1>6, <1>q, <1>i DEF PumpTake, pumpRest, rdVars, qVars, Live, WriterInv
<1>7. CASE PumpAborts
  BY <1>7, <1>q, <1>i DEF PumpAborts, pumpRest, rdVars, Live, WriterInv
<1>8. CASE PumpCancels
  BY <1>8, <1>q, <1>i DEF PumpCancels, pumpRest, rdVars, qVars, Live, WriterInv
<1>9. CASE PumpEnds
  BY <1>9, <1>q, <1>i DEF PumpEnds, pumpRest, rdVars, Live, WriterInv
<1>10. CASE PumpSend
  <2>f. Head(todo) \in Frames
    BY <1>10, TailFrame DEF PumpSend, TypeOK
  <2>s. sent' = sent \/ sent' = Append(sent, Head(todo))
    BY <1>10 DEF PumpSend, Send, Overflow, qVars
  <2> QED BY <1>10, <1>r, <2>f, <2>s, <1>s, <1>i DEF PumpSend, pumpRest, rdVars, Live, WriterInv
<1>11. CASE SnapshotSend
  <2>f. Head(left) \in Frames
    BY <1>11, TailFrame DEF SnapshotSend, TypeOK
  <2>s. sent' = sent \/ sent' = Append(sent, Head(left))
    BY <1>11 DEF SnapshotSend, Send, Overflow, qVars
  <2> QED BY <1>11, <1>r, <2>f, <2>s, <1>s, <1>i DEF SnapshotSend, rdRest, Live, WriterInv
<1>12. CASE Query
  <2>f. Frame("reply", 0) \in Frames
    BY <1>r
  <2>s. sent' = sent \/ sent' = Append(sent, Frame("reply", 0))
    BY <1>12 DEF Query, Send, Overflow, qVars
  <2> QED BY <1>12, <1>r, <2>f, <2>s, <1>s, <1>i DEF Query, Read, Resume, Exit, rdRest, Live, WriterInv
<1>13. CASE BadRequest
  <2>f. Frame("error", 0) \in Frames
    BY <1>r
  <2>s. sent' = sent \/ sent' = Append(sent, Frame("error", 0))
    BY <1>13 DEF BadRequest, Send, Overflow, qVars
  <2> QED BY <1>13, <1>r, <2>f, <2>s, <1>s, <1>i DEF BadRequest, Read, Resume, Exit, rdRest, Live, WriterInv
<1>14. CASE Submitted
  <2>f. Frame("reply", 0) \in Frames
    BY <1>r
  <2>s. sent' = sent \/ sent' = Append(sent, Frame("reply", 0))
    BY <1>14 DEF Submitted, Send, Overflow, qVars
  <2> QED BY <1>14, <1>r, <2>f, <2>s, <1>s, <1>i DEF Submitted, Read, Resume, Exit, rdRest, Live, WriterInv
<1>15. CASE PushResult
  <2> DEFINE r == Frame("result", Head(ch["results"].buf))
  <2>f. r \in Frames
    <3>1. Head(ch["results"].buf) \in Nat
      BY <1>15, Heads, FeedsAre DEF PushResult
    <3> QED BY <3>1, FramesAre
  <2>s. sent' = sent \/ sent' = Append(sent, r)
    BY <1>15 DEF PushResult, Send, Overflow, qVars
  <2> HIDE DEF r
  <2> QED BY <1>15, <2>f, <2>s, <1>s DEF PushResult, rpRest, rdVars, Live
<1>16. CASE Handshake
  BY <1>16, <1>q, <1>i DEF Handshake, qVars, Live, WriterInv
<1>17. CASE HandshakeFails
  BY <1>17, <1>q, <1>i DEF HandshakeFails, Exit, rdRest, Live, WriterInv
<1>18. CASE Leave
  BY <1>18, <1>q, <1>i DEF Leave, Exit, rdRest, Live, WriterInv
<1>19. CASE SetSubCancel
  BY <1>19, <1>q, <1>i DEF SetSubCancel, rdRest, Live, WriterInv
<1>20. CASE SnapshotFails
  BY <1>20, <1>q, <1>i DEF SnapshotFails, Exit, rdRest, Live, WriterInv
<1>21. CASE StartPump
  BY <1>21, <1>q, <1>i DEF StartPump, Exit, rdRest, qVars, Live, WriterInv
<1>22. CASE Mutate
  BY <1>22, <1>q, <1>i DEF Mutate, Read, rdRest, qVars, Live, WriterInv
<1>23. CASE WriteFails
  BY <1>23, <1>q, <1>i DEF WriteFails, wrRest, rdVars, Live, WriterInv
<1>24. CASE WriterEnds
  BY <1>24, <1>q, <1>i DEF WriterEnds, wrRest, rdVars, Live, WriterInv
<1>25. CASE Drained
  BY <1>25, <1>q, <1>i DEF Drained, rpRest, rdVars, qVars, Live, WriterInv
<1>26. CASE Rearm
  BY <1>26, <1>q, <1>i DEF Rearm, rpRest, rdVars, qVars, Live, WriterInv
<1>27. CASE PumpStops
  BY <1>27, <1>q, <1>i DEF PumpStops, rpRest, rdVars, qVars, Live, WriterInv
<1>28. CASE Close
  BY <1>28, <1>q, <1>i DEF Close, rdVars, qVars, Live, WriterInv
<1> QED
  BY FeedsAre, <1>0, <1>1, <1>2, <1>3, <1>4, <1>5, <1>6, <1>7, <1>8, <1>9, <1>10, <1>11, <1>12, <1>13, <1>14, <1>15, <1>16, <1>17, <1>18, <1>19, <1>20, <1>21, <1>22, <1>23, <1>24, <1>25, <1>26, <1>27, <1>28
  DEF Next, DeltaPump, Subscribing, Handle, Writer, ResultPump

LEMMA FeedStart == Init => F!Init
<1> SUFFICES ASSUME Init PROVE F!Init
  OBVIOUS
<1>1. published["changes"] = 0 /\ written = 0
  BY FeedsAre DEF Init
<1>2. Received = {}
  BY <1>1 DEF Received
<1>3. Cardinality(Received) = 0
  BY <1>2, FS_EmptySet
<1>4. Latest = F!Nothing
  BY <1>2 DEF Latest, Frame, F!Nothing
<1>5. Live
  BY DEF Init, Live
<1>6. Live = TRUE
  BY <1>5, Zenon DEF Live
<1> QED BY <1>1, <1>3, <1>4, <1>6 DEF F!Init

\* However deltas, replies and results interleave in the queue, and wherever
\* on the way from the syncer a channel fills up, what is written to the
\* socket is a feed, frame by frame: every item of the snapshot and its end,
\* then every part of each change after the snapshot, each once and in order,
\* up to some point (startSubscription, server.go:652-710; connIO.send,
\* server.go:766-786; the forwarder, main.go:194-219; publishToSubs,
\* syncer.go:600-613).
THEOREM FeedRefined == Spec => FollowsCommits
<1>1. Init => TypeOK /\ FeedInv
  BY TypeInit, FeedInit
<1>2. TypeOK /\ FeedInv /\ [Next]_vars => (TypeOK /\ FeedInv)'
  BY TypeNext, FeedNext
<1>3. Init => F!Init
  BY FeedStart
<1>4. TypeOK /\ FeedInv /\ [Next]_vars => [F!Next]_F!vars
  BY FeedStep
<1> QED BY <1>1, <1>2, <1>3, <1>4, PTL DEF Spec, FollowsCommits, F!Spec

-----------------------------------------------------------------------------
(* Results.                                                                *)

S == src["results"].buf
C == ch["results"].buf

Has(b, n) == \E i \in 1..Len(b) : b[i] = n
Rising(b) == \A i, j \in 1..Len(b) : i < j => b[i] < b[j]

\* Where a result that a connection has coming may be.
Accounted(n) ==
  \/ n \in missed
  \/ \E i \in 1..Len(sent) : sent[i] = Frame("result", n)
  \/ Has(S, n) \/ Has(C, n)

\* From the queue back to the source: the results enqueued, those in the
\* forwarder's channel, those in the source's, in the order of publication.
OrderInv ==
  /\ \A i \in 1..Len(sent) : sent[i].kind = "result" =>
       /\ sent[i].n <= published["results"]
       /\ \A j \in 1..Len(sent) : i < j /\ sent[j].kind = "result" => sent[i].n < sent[j].n
       /\ \A j \in 1..Len(C) : sent[i].n < C[j]
       /\ \A j \in 1..Len(S) : sent[i].n < S[j]
  /\ Rising(C) /\ Rising(S)
  /\ \A i \in 1..Len(C) : C[i] <= published["results"] /\ \A j \in 1..Len(S) : C[i] < S[j]
  /\ \A i \in 1..Len(S) : S[i] <= published["results"]

\* A forwarder that is done has left nothing behind, and the pump subscribes
\* again only after it has taken all that was forwarded.
ForwarderInv ==
  /\ fwd["results"] \in {"run", "done"}
  /\ fwd["results"] = "done" => src["results"] = Chan(FALSE)
  /\ ~ch["results"].open => fwd["results"] = "done"
  /\ rpump = "pause" => fwd["results"] = "done" /\ C = <<>>

\* A connection that has results coming is in mutConns, until handle returns.
LatchedInv == since >= 0 /\ rd # "gone" => latched

AccountInv ==
  since >= 0 /\ rd # "gone" /\ ~closed => \A n \in (since + 1)..published["results"] : Accounted(n)

ResultInv == OrderInv /\ ForwarderInv /\ LatchedInv /\ AccountInv

LEMMA ResultTyped ==
  ASSUME TypeOK
  PROVE  /\ S \in Seq(Numbers) /\ C \in Seq(Numbers) /\ Len(S) \in Nat /\ Len(C) \in Nat
         /\ \A i \in 1..Len(S) : S[i] \in Nat
         /\ \A i \in 1..Len(C) : C[i] \in Nat
         /\ sent \in Seq(Frames) /\ Len(sent) \in Nat
         /\ \A i \in 1..Len(sent) : sent[i] \in Frames /\ sent[i].n \in Nat
         /\ published["results"] \in Nat /\ since \in Int
         /\ src["results"] \in Chans /\ ch["results"] \in Chans
<1>1. src["results"] \in Chans /\ ch["results"] \in Chans
  BY Typed, FeedsAre
<1>2. S \in Seq(Numbers) /\ C \in Seq(Numbers)
  BY <1>1, ChanFields DEF S, C
<1>3. Numbers \subseteq Nat
  BY DeliveryAssumption DEF Numbers
<1>4. /\ \A i \in 1..Len(S) : S[i] \in Nat
      /\ \A i \in 1..Len(C) : C[i] \in Nat
  <2>1. (\A i \in 1..Len(S) : S[i] \in Numbers) /\ (\A i \in 1..Len(C) : C[i] \in Numbers)
    BY <1>2
  <2> QED BY <2>1, <1>3
<1>5. sent \in Seq(Frames) /\ published["results"] \in Nat /\ since \in Int
  BY FeedsAre DEF TypeOK
<1>6. \A i \in 1..Len(sent) : sent[i] \in Frames /\ sent[i].n \in Nat
  BY <1>5, FramesAre
<1> QED BY <1>1, <1>2, <1>4, <1>5, <1>6

LEMMA ResultInit == Init => ResultInv
<1> SUFFICES ASSUME Init PROVE ResultInv
  OBVIOUS
<1>1. Len(sent) = 0 /\ since = -1 /\ rpump = "run"
  BY DEF Init
<1>2. src["results"] = Chan(TRUE) /\ ch["results"] = Chan(TRUE) /\ fwd["results"] = "run"
  BY FeedsAre DEF Init
<1>3. Len(S) = 0 /\ Len(C) = 0 /\ ch["results"].open
  BY <1>2, ChanIs DEF S, C
<1>4. OrderInv
  BY <1>1, <1>3 DEF OrderInv, Rising
<1>5. ForwarderInv
  BY <1>1, <1>2, <1>3 DEF ForwarderInv
<1>6. LatchedInv /\ AccountInv
  BY <1>1 DEF LatchedInv, AccountInv
<1> QED BY <1>4, <1>5, <1>6 DEF ResultInv

\* No result has moved, and the connection has not come back from its end.
LEMMA ResultFrame ==
  ASSUME TypeOK, ResultInv, NEW f \in Frames, f.kind # "result",
         sent' = sent \/ sent' = Append(sent, f),
         src'["results"] = src["results"], ch'["results"] = ch["results"],
         fwd'["results"] = fwd["results"], published'["results"] = published["results"],
         missed' = missed, rpump' = rpump, since' = since, closed => closed',
         rd = "gone" => rd' = "gone", latched => latched' \/ rd' = "gone"
  PROVE  ResultInv'
<1>1. S' = S /\ C' = C
  BY DEF S, C
<1>2. sent \in Seq(Frames) /\ Len(sent) \in Nat
  BY ResultTyped
<1>3. ForwarderInv' /\ LatchedInv'
  BY <1>1 DEF ResultInv, ForwarderInv, LatchedInv
<1>4. /\ Len(sent') \in Nat /\ 1..Len(sent) \subseteq 1..Len(sent')
      /\ \A i \in 1..Len(sent) : sent'[i] = sent[i]
      /\ \A i \in 1..Len(sent') : i \in 1..Len(sent) \/ sent'[i].kind # "result"
  <2>1. CASE sent' = sent
    BY <1>2, <2>1
  <2>2. CASE sent' = Append(sent, f)
    <3>1. /\ Len(sent') = Len(sent) + 1 /\ sent'[Len(sent) + 1] = f
          /\ \A i \in 1..Len(sent) : sent'[i] = sent[i]
      BY <1>2, <2>2, AppendFrame
    <3>2. \A i \in 1..Len(sent') : i \in 1..Len(sent) \/ i = Len(sent) + 1
      BY <1>2, <3>1
    <3>3. Len(sent') \in Nat /\ 1..Len(sent) \subseteq 1..Len(sent')
      BY <1>2, <3>1
    <3> QED BY <3>1, <3>2, <3>3
  <2> QED BY <2>1, <2>2
<1>5. OrderInv'
  BY <1>1, <1>4 DEF ResultInv, OrderInv
<1>6. AccountInv'
  <2>1. \A n : Accounted(n) => Accounted(n)'
    BY <1>1, <1>4 DEF Accounted
  <2>2. SUFFICES ASSUME since >= 0, rd # "gone", ~closed, NEW n \in (since + 1)..published["results"]
                 PROVE  Accounted(n)'
    BY DEF AccountInv
  <2>3. Accounted(n)
    BY <2>2 DEF ResultInv, AccountInv
  <2> QED BY <2>1, <2>3
<1> QED BY <1>3, <1>5, <1>6 DEF ResultInv

\* Every step keeps track of the results.
LEMMA ResultNext == TypeOK /\ FeedInv /\ ResultInv /\ [Next]_vars => ResultInv'
<1> SUFFICES ASSUME TypeOK, FeedInv, ResultInv, [Next]_vars PROVE ResultInv'
  OBVIOUS
<1>i. OrderInv /\ ForwarderInv /\ LatchedInv /\ AccountInv
  BY DEF ResultInv
<1>t. /\ S \in Seq(Numbers) /\ C \in Seq(Numbers) /\ Len(S) \in Nat /\ Len(C) \in Nat
      /\ \A i \in 1..Len(S) : S[i] \in Nat
      /\ \A i \in 1..Len(C) : C[i] \in Nat
      /\ sent \in Seq(Frames) /\ Len(sent) \in Nat
      /\ \A i \in 1..Len(sent) : sent[i] \in Frames /\ sent[i].n \in Nat
      /\ published["results"] \in Nat /\ since \in Int
      /\ src["results"] \in Chans /\ ch["results"] \in Chans
  BY ResultTyped
<1>h. /\ todo # <<>> => todo[1].kind # "result"
      /\ rd = "snapshot" /\ left # <<>> => left[1].kind # "result"
  <2>1. todo # <<>> => 1 \in 1..Len(todo)
    BY DEF TypeOK
  <2>2. left # <<>> => 1 \in 1..Len(left)
    BY DEF TypeOK
  <2> QED BY <2>1, <2>2 DEF FeedInv, PipeInv, HandInv, StageInv
<1>r. /\ Frame("reply", 0) \in Frames /\ Frame("reply", 0).kind = "reply"
      /\ Frame("error", 0) \in Frames /\ Frame("error", 0).kind = "error"
  BY FramesAre
<1>f. ASSUME NEW f \in Frames, f.kind # "result",
             sent' = sent \/ sent' = Append(sent, f),
             src'["results"] = src["results"], ch'["results"] = ch["results"],
             fwd'["results"] = fwd["results"], published'["results"] = published["results"],
             missed' = missed, rpump' = rpump, since' = since, closed => closed',
             rd = "gone" => rd' = "gone", latched => latched' \/ rd' = "gone"
      PROVE  ResultInv'
  BY <1>f, ResultFrame
<1>q. ASSUME sent' = sent,
             src'["results"] = src["results"], ch'["results"] = ch["results"],
             fwd'["results"] = fwd["results"], published'["results"] = published["results"],
             missed' = missed, rpump' = rpump, since' = since, closed => closed',
             rd = "gone" => rd' = "gone", latched => latched' \/ rd' = "gone"
      PROVE  ResultInv'
  BY <1>q, <1>r, <1>f
<1>e. SrcKept => src'["results"] = src["results"]
  BY DEF SrcKept
<1>0. CASE UNCHANGED vars
  BY <1>0, <1>q DEF vars, feedVars, rdVars, qVars
<1>1. CASE Publish("results")
  <2> DEFINE n == published["results"] + 1
  <2>1. /\ published'["results"] = n /\ n \in Numbers /\ n \in Nat /\ Offer("results", n)
        /\ missed' = IF Len(src'["results"].buf) = Len(S) THEN missed \cup {n} ELSE missed
    <3>1. published["results"] < MaxRes
      BY <1>1 DEF Publish
    <3>2. n \in Numbers /\ n \in Nat
      BY <3>1, <1>t, DeliveryAssumption DEF Numbers
    <3>3. published' = [published EXCEPT !["results"] = n] /\ published \in [Feeds -> Nat]
      BY <1>1 DEF Publish, TypeOK
    <3>4. published'["results"] = n
      BY <3>3, FeedsAre
    <3> QED BY <1>1, <3>2, <3>4 DEF Publish, S
  <2>2. n = published["results"] + 1
    OBVIOUS
  <2> HIDE DEF n
  <2>3. Offered("results", n)
    BY <2>1, OfferDoes, FeedsAre
  <2>4. /\ sent' = sent /\ C' = C /\ ch' = ch /\ fwd' = fwd /\ rpump' = rpump /\ since' = since
        /\ rd' = rd /\ closed' = closed /\ latched' = latched
    BY <1>1 DEF Publish, rdVars, qVars, C
  <2>5. /\ src'["results"] \in Chans
        /\ \/ src["results"].open /\ S' = Append(S, n)
           \/ ~src'["results"].open /\ S' = S
    BY <2>3, FeedsAre DEF Offered, S
  <2>6. LatchedInv'
    BY <2>4, <1>i DEF LatchedInv
  <2>7. ForwarderInv'
    <3>1. fwd["results"] = "done" => src'["results"] = Chan(FALSE)
      <4>1. SUFFICES ASSUME fwd["results"] = "done" PROVE src'["results"] = Chan(FALSE)
        OBVIOUS
      <4>2. ~src["results"].open /\ S = <<>>
        BY <4>1, <1>i, ChanIs DEF ForwarderInv, S
      <4>3. ~src'["results"].open /\ src'["results"].buf = <<>>
        BY <2>5, <4>2 DEF S
      <4>4. src'["results"].open = FALSE
        BY <2>5, <4>3, ChanFields
      <4> QED BY <2>5, <4>3, <4>4, ChanFields
    <3> QED BY <3>1, <2>4, <1>i DEF ForwarderInv
  <2>8. CASE src["results"].open /\ S' = Append(S, n)
    <3>1. /\ Len(S') = Len(S) + 1 /\ S'[Len(S) + 1] = n
          /\ \A i \in 1..Len(S) : S'[i] = S[i]
      BY <2>1, <2>8, <1>t, AppendNumber
    <3>2. \A i \in 1..Len(S') : i \in 1..Len(S) \/ i = Len(S) + 1
      BY <3>1, <1>t
    <3>3. \A i \in 1..Len(S') : (i \in 1..Len(S) /\ S'[i] = S[i]) \/ (i = Len(S) + 1 /\ S'[i] = n)
      BY <3>1, <3>2
    <3>4. Rising(S')
      <4>1. SUFFICES ASSUME NEW i \in 1..Len(S'), NEW j \in 1..Len(S'), i < j PROVE S'[i] < S'[j]
        BY DEF Rising
      <4>2. i \in 1..Len(S) /\ S'[i] = S[i] /\ S[i] <= published["results"]
        BY <3>1, <3>3, <4>1, <1>t, <1>i DEF OrderInv
      <4>3. CASE j = Len(S) + 1 /\ S'[j] = n
        BY <2>2, <4>2, <4>3, <1>t
      <4>4. CASE j \in 1..Len(S) /\ S'[j] = S[j]
        BY <4>1, <4>2, <4>4, <1>i DEF OrderInv, Rising
      <4> QED BY <3>3, <4>3, <4>4
    <3>5. OrderInv'
      <4>1. ASSUME NEW i \in 1..Len(sent), sent[i].kind = "result"
            PROVE  sent[i].n <= n /\ \A j \in 1..Len(S') : sent[i].n < S'[j]
        <5>1. sent[i].n <= published["results"] /\ \A j \in 1..Len(S) : sent[i].n < S[j]
          BY <4>1, <1>i DEF OrderInv
        <5>0. sent[i].n \in Nat /\ published["results"] \in Nat
          BY <1>t
        <5>2. sent[i].n < n
          BY <5>0, <5>1, <2>2
        <5>3. sent[i].n <= n
          BY <5>0, <5>2, <2>1
        <5>4. \A j \in 1..Len(S') : sent[i].n < S'[j]
          BY <5>1, <5>2, <3>3
        <5> QED BY <5>3, <5>4
      <4>2. ASSUME NEW i \in 1..Len(C)
            PROVE  C[i] <= n /\ \A j \in 1..Len(S') : C[i] < S'[j]
        <5>1. C[i] <= published["results"] /\ \A j \in 1..Len(S) : C[i] < S[j]
          BY <1>i DEF OrderInv
        <5>2. C[i] < n
          BY <5>1, <2>2, <1>t
        <5> QED BY <5>1, <5>2, <3>3, <2>1, <1>t
      <4>3. ASSUME NEW i \in 1..Len(S') PROVE S'[i] <= n
        <5>1. i \in 1..Len(S) => S[i] <= published["results"]
          BY <1>i DEF OrderInv
        <5> QED BY <5>1, <3>3, <2>1, <2>2, <1>t
      <4> QED BY <2>1, <2>4, <3>4, <4>1, <4>2, <4>3, <1>i DEF OrderInv
    <3>6. \A m : Accounted(m) => Accounted(m)'
      <4>1. missed \subseteq missed'
        BY <2>1
      <4>2. 1..Len(S) \subseteq 1..Len(S')
        BY <3>1, <1>t
      <4>3. \A m : Has(S, m) => Has(S', m)
        BY <3>1, <4>2 DEF Has
      <4> QED BY <2>4, <4>1, <4>3 DEF Accounted
    <3>7. Has(S', n)
      <4>1. Len(S) + 1 \in 1..Len(S')
        BY <3>1, <1>t
      <4> QED BY <3>1, <4>1 DEF Has
    <3>8. AccountInv'
      <4>1. SUFFICES ASSUME since >= 0, rd # "gone", ~closed, NEW m \in (since + 1)..n
                     PROVE  Accounted(m)'
        BY <2>1, <2>4 DEF AccountInv
      <4>2. m \in (since + 1)..published["results"] \/ m = n
        BY <4>1, <2>2, <1>t
      <4> QED BY <4>1, <4>2, <3>6, <3>7, <1>i DEF AccountInv, Accounted
    <3> QED BY <2>6, <2>7, <3>5, <3>8 DEF ResultInv
  <2>9. CASE ~src'["results"].open /\ S' = S
    <3>1. OrderInv'
      <4>1. \A m \in Nat : m <= published["results"] => m <= n
        BY <2>2, <1>t
      <4> QED BY <2>1, <2>4, <2>9, <4>1, <1>t, <1>i DEF OrderInv
    <3>2. missed' = missed \cup {n}
      BY <2>1, <2>9 DEF S
    <3>3. AccountInv'
      <4>1. SUFFICES ASSUME since >= 0, rd # "gone", ~closed, NEW m \in (since + 1)..n
                     PROVE  Accounted(m)'
        BY <2>1, <2>4 DEF AccountInv
      <4>2. m \in (since + 1)..published["results"] \/ m = n
        BY <4>1, <2>2, <1>t
      <4>3. Accounted(m) => Accounted(m)'
        BY <2>4, <2>9, <3>2 DEF Accounted
      <4> QED BY <4>1, <4>2, <4>3, <3>2, <1>i DEF AccountInv, Accounted
    <3> QED BY <2>6, <2>7, <3>1, <3>3 DEF ResultInv
  <2> QED BY <2>5, <2>8, <2>9
<1>2. CASE Forward("results")
  <2> DEFINE m == Head(S)
  <2>1. /\ fwd["results"] = "run" /\ S # <<>>
        /\ \/ /\ fwd'["results"] = "run" /\ missed' = missed
              /\ src'["results"].open = src["results"].open /\ S' = Tail(S)
              /\ ch'["results"].open = ch["results"].open /\ C' = Append(C, m)
           \/ /\ fwd'["results"] = "done" /\ ~ch'["results"].open /\ C' = C
              /\ src'["results"] = Chan(FALSE)
              /\ missed' = missed \cup {S[i] : i \in DOMAIN S}
    <3>1. Forwarded("results")
      BY <1>2, ForwardDoes, FeedsAre
    <3> QED BY <3>1 DEF Forwarded, S, C
  <2>2. /\ sent' = sent /\ published' = published /\ rpump' = rpump /\ since' = since
        /\ rd' = rd /\ closed' = closed /\ latched' = latched
    BY <1>2 DEF Forward, rdVars, qVars
  <2>3. /\ m = S[1] /\ m \in Numbers /\ Len(Tail(S)) = Len(S) - 1 /\ Len(S) \in Nat \ {0}
        /\ \A i \in 1..(Len(S) - 1) : Tail(S)[i] = S[i + 1]
    BY <2>1, <1>t, TailNumber
  <2> HIDE DEF m
  <2>4. LatchedInv'
    BY <2>2, <1>i DEF LatchedInv
  <2>5. rpump # "pause"
    BY <2>1, <1>i DEF ForwarderInv
  <2>6. CASE /\ fwd'["results"] = "run" /\ missed' = missed
             /\ src'["results"].open = src["results"].open /\ S' = Tail(S)
             /\ ch'["results"].open = ch["results"].open /\ C' = Append(C, m)
    <3>1. /\ Len(C') = Len(C) + 1 /\ C'[Len(C) + 1] = m
          /\ \A i \in 1..Len(C) : C'[i] = C[i]
      BY <2>3, <2>6, <1>t, AppendNumber
    <3>2. \A i \in 1..Len(C') : (i \in 1..Len(C) /\ C'[i] = C[i]) \/ (i = Len(C) + 1 /\ C'[i] = m)
      <4>1. \A i \in 1..Len(C') : i \in 1..Len(C) \/ i = Len(C) + 1
        BY <3>1, <1>t
      <4> QED BY <3>1, <4>1
    <3>3. \A i \in 1..Len(S') : i + 1 \in 1..Len(S) /\ S'[i] = S[i + 1]
      BY <2>3, <2>6
    <3>4. 1 \in 1..Len(S)
      BY <2>3
    <3>5. ForwarderInv'
      BY <2>1, <2>2, <2>5, <2>6, <1>i DEF ForwarderInv
    <3>6. Rising(S')
      <4>1. SUFFICES ASSUME NEW i \in 1..Len(S'), NEW j \in 1..Len(S'), i < j PROVE S'[i] < S'[j]
        BY DEF Rising
      <4>2. i + 1 \in 1..Len(S) /\ j + 1 \in 1..Len(S) /\ i + 1 < j + 1
        BY <3>3, <4>1
      <4>3. S[i + 1] < S[j + 1]
        BY <4>2, <1>i DEF OrderInv, Rising
      <4> QED BY <3>3, <4>3
    <3>7. Rising(C')
      <4>1. SUFFICES ASSUME NEW i \in 1..Len(C'), NEW j \in 1..Len(C'), i < j PROVE C'[i] < C'[j]
        BY DEF Rising
      <4>2. i \in 1..Len(C) /\ C'[i] = C[i]
        BY <3>1, <3>2, <4>1, <1>t
      <4>3. CASE j \in 1..Len(C) /\ C'[j] = C[j]
        BY <4>1, <4>2, <4>3, <1>i DEF OrderInv, Rising
      <4>4. CASE C'[j] = m
        BY <4>2, <4>4, <2>3, <3>4, <1>i DEF OrderInv
      <4> QED BY <3>2, <4>3, <4>4
    <3>8. ASSUME NEW i \in 1..Len(sent), sent[i].kind = "result"
          PROVE  /\ \A j \in 1..Len(C') : sent[i].n < C'[j]
                 /\ \A j \in 1..Len(S') : sent[i].n < S'[j]
      <4>1. /\ \A j \in 1..Len(C) : sent[i].n < C[j]
            /\ \A j \in 1..Len(S) : sent[i].n < S[j]
        BY <3>8, <1>i DEF OrderInv
      <4> QED BY <4>1, <3>2, <3>3, <3>4, <2>3
    <3>9. ASSUME NEW i \in 1..Len(C')
          PROVE  C'[i] <= published["results"] /\ \A j \in 1..Len(S') : C'[i] < S'[j]
      <4>1. CASE i \in 1..Len(C) /\ C'[i] = C[i]
        BY <4>1, <3>3, <1>i DEF OrderInv
      <4>2. CASE C'[i] = m
        <5>1. m <= published["results"]
          BY <2>3, <3>4, <1>i DEF OrderInv
        <5>2. ASSUME NEW j \in 1..Len(S') PROVE m < S'[j]
          <6>1. j + 1 \in 1..Len(S) /\ 1 < j + 1 /\ S'[j] = S[j + 1]
            BY <3>3
          <6>2. S[1] < S[j + 1]
            BY <3>4, <6>1, <1>i DEF OrderInv, Rising
          <6> QED BY <6>1, <6>2, <2>3
        <5> QED BY <4>2, <5>1, <5>2
      <4> QED BY <3>2, <4>1, <4>2
    <3>10. \A i \in 1..Len(S') : S'[i] <= published["results"]
      BY <3>3, <1>i DEF OrderInv
    <3>11. OrderInv'
      BY <2>2, <3>6, <3>7, <3>8, <3>9, <3>10, <1>i DEF OrderInv
    <3>12. \A n : Accounted(n) => Accounted(n)'
      <4>1. ASSUME NEW n, Has(C, n) PROVE Has(C', n)
        <5>1. PICK i \in 1..Len(C) : C[i] = n
          BY <4>1 DEF Has
        <5>2. i \in 1..Len(C')
          BY <3>1, <1>t
        <5> QED BY <3>1, <5>1, <5>2 DEF Has
      <4>2. ASSUME NEW n, Has(S, n) PROVE Has(S', n) \/ Has(C', n)
        <5>1. PICK i \in 1..Len(S) : S[i] = n
          BY <4>2 DEF Has
        <5>2. CASE i = 1
          <6>1. Len(C) + 1 \in 1..Len(C')
            BY <3>1, <1>t
          <6> QED BY <3>1, <5>1, <5>2, <6>1, <2>3 DEF Has
        <5>3. CASE i # 1
          <6>1. i - 1 \in 1..Len(S') /\ i - 1 \in 1..(Len(S) - 1) /\ (i - 1) + 1 = i
            BY <2>3, <2>6, <5>3
          <6>2. S'[i - 1] = n
            BY <5>1, <6>1, <3>3
          <6> QED BY <6>1, <6>2 DEF Has
        <5> QED BY <5>2, <5>3
      <4> QED BY <2>2, <2>6, <4>1, <4>2 DEF Accounted
    <3>13. AccountInv'
      BY <2>2, <3>12, <1>i DEF AccountInv
    <3> QED BY <2>4, <3>5, <3>11, <3>13 DEF ResultInv
  <2>7. CASE /\ fwd'["results"] = "done" /\ ~ch'["results"].open /\ C' = C
             /\ src'["results"] = Chan(FALSE)
             /\ missed' = missed \cup {S[i] : i \in DOMAIN S}
    <3>1. S' = <<>> /\ Len(S') = 0
      BY <2>7, ChanIs DEF S
    <3>2. OrderInv'
      BY <2>2, <2>7, <3>1, <1>i DEF OrderInv, Rising
    <3>3. ForwarderInv'
      BY <2>2, <2>5, <2>7, <1>i DEF ForwarderInv
    <3>4. \A n : Accounted(n) => Accounted(n)'
      <4>1. ASSUME NEW n, Has(S, n) PROVE n \in missed'
        <5>1. PICK i \in 1..Len(S) : S[i] = n
          BY <4>1 DEF Has
        <5>2. i \in DOMAIN S
          BY <1>t
        <5> QED BY <2>7, <5>1, <5>2
      <4>2. missed \subseteq missed'
        BY <2>7
      <4> QED BY <2>2, <2>7, <4>1, <4>2 DEF Accounted
    <3>5. AccountInv'
      BY <2>2, <3>4, <1>i DEF AccountInv
    <3> QED BY <2>4, <3>2, <3>3, <3>5 DEF ResultInv
  <2> QED BY <2>1, <2>6, <2>7
<1>3. CASE ForwarderEnds("results")
  <2>1. /\ src' = src /\ src["results"] = Chan(FALSE) /\ fwd["results"] = "run" /\ fwd'["results"] = "done"
        /\ ch'["results"].open = FALSE /\ ch'["results"].buf = ch["results"].buf
    BY <1>3, EndsTyped, FeedsAre
  <2>2. /\ sent' = sent /\ published' = published /\ rpump' = rpump /\ since' = since /\ missed' = missed
        /\ rd' = rd /\ closed' = closed /\ latched' = latched /\ S' = S /\ C' = C
    BY <1>3, <2>1 DEF ForwarderEnds, rdVars, qVars, S, C
  <2>3. OrderInv' /\ LatchedInv'
    BY <2>2, <1>i DEF OrderInv, LatchedInv
  <2>4. ForwarderInv'
    BY <2>1, <2>2, <1>i DEF ForwarderInv
  <2>5. AccountInv'
    BY <2>2, <1>i DEF AccountInv, Accounted
  <2> QED BY <2>3, <2>4, <2>5 DEF ResultInv
<1>4. CASE PushResult
  <2> DEFINE m == Head(C)
             r == Frame("result", m)
  <2>1. /\ C # <<>> /\ ch' = [ch EXCEPT !["results"].buf = Tail(@)]
        /\ published' = published /\ rpump' = rpump /\ since' = since /\ missed' = missed
        /\ rd' = rd /\ latched' = latched /\ fwd' = fwd
        /\ (latched /\ Send(r)) \/ (~latched /\ UNCHANGED qVars /\ UNCHANGED src)
    BY <1>4 DEF PushResult, rpRest, rdVars, C
  <2>2. /\ m = C[1] /\ m \in Numbers /\ m \in Nat /\ Len(Tail(C)) = Len(C) - 1 /\ Len(C) \in Nat \ {0}
        /\ \A i \in 1..(Len(C) - 1) : Tail(C)[i] = C[i + 1]
    BY <2>1, Heads, FeedsAre DEF C
  <2> HIDE DEF m
  <2>3. r \in Frames /\ r.kind = "result" /\ r.n = m
    BY <2>2, FramesAre
  <2>4. r = Frame("result", m)
    OBVIOUS
  <2> HIDE DEF r
  <2>5. /\ SrcKept
        /\ \/ sent' = sent /\ (closed' \/ ~latched)
           \/ latched /\ ~closed' /\ sent' = Append(sent, r)
        /\ closed => closed'
    <3>1. CASE latched /\ Send(r)
      <4>1. Sends(r)
        BY <2>3, <3>1, SendDoes
      <4> QED BY <3>1, <4>1 DEF Sends
    <3>2. CASE ~latched /\ UNCHANGED qVars /\ UNCHANGED src
      BY <3>2, SameKept DEF qVars
    <3> QED BY <2>1, <3>1, <3>2
  <2>6. src'["results"] = src["results"] /\ S' = S
    BY <2>5, <1>e DEF S
  <2>7. ch'["results"].open = ch["results"].open /\ C' = Tail(C)
    BY <2>1, <2>5, TakenTyped, FeedsAre DEF C
  <2>8. \A i \in 1..Len(C') : i + 1 \in 1..Len(C) /\ C'[i] = C[i + 1]
    BY <2>2, <2>7
  <2>9. 1 \in 1..Len(C)
    BY <2>2
  <2>10. LatchedInv'
    BY <2>1, <1>i DEF LatchedInv
  <2>11. ForwarderInv'
    <3>1. rpump # "pause"
      BY <2>1, <1>i DEF ForwarderInv
    <3> QED BY <2>1, <2>6, <2>7, <3>1, <1>i DEF ForwarderInv
  <2>12. Rising(C')
    <3>1. SUFFICES ASSUME NEW i \in 1..Len(C'), NEW j \in 1..Len(C'), i < j PROVE C'[i] < C'[j]
      BY DEF Rising
    <3>2. i + 1 \in 1..Len(C) /\ j + 1 \in 1..Len(C) /\ i + 1 < j + 1
      BY <2>8, <3>1
    <3>3. C[i + 1] < C[j + 1]
      BY <3>2, <1>i DEF OrderInv, Rising
    <3> QED BY <2>8, <3>3
  <2>13. \A i \in 1..Len(C') : C'[i] <= published["results"] /\ \A j \in 1..Len(S) : C'[i] < S[j]
    BY <2>8, <1>i DEF OrderInv
  <2>14. ASSUME NEW n \in Nat, \A j \in 1..Len(C) : n < C[j]
         PROVE  \A j \in 1..Len(C') : n < C'[j]
    BY <2>8, <2>14
  <2>15. ASSUME NEW n, Has(C, n), n # m PROVE Has(C', n)
    <3>1. PICK i \in 1..Len(C) : C[i] = n
      BY <2>15 DEF Has
    <3>2. i # 1
      BY <2>2, <2>15, <3>1
    <3>3. i - 1 \in 1..Len(C') /\ (i - 1) + 1 = i
      BY <2>2, <2>7, <3>2
    <3>4. C'[i - 1] = n
      BY <2>8, <3>1, <3>3
    <3> QED BY <3>3, <3>4 DEF Has
  <2>16. CASE sent' = sent /\ (closed' \/ ~latched)
    <3>1. OrderInv'
      BY <2>1, <2>6, <2>12, <2>13, <2>14, <2>16, <1>t, <1>i DEF OrderInv
    <3>2. AccountInv'
      BY <2>1, <2>10, <2>16 DEF AccountInv, LatchedInv
    <3> QED BY <2>10, <2>11, <3>1, <3>2 DEF ResultInv
  <2>17. CASE latched /\ ~closed' /\ sent' = Append(sent, r)
    <3>1. /\ Len(sent') = Len(sent) + 1 /\ sent'[Len(sent) + 1] = r
          /\ \A i \in 1..Len(sent) : sent'[i] = sent[i]
      BY <2>3, <2>17, <1>t, AppendFrame
    <3>2. \A i \in 1..Len(sent') : (i \in 1..Len(sent) /\ sent'[i] = sent[i]) \/ (i = Len(sent) + 1 /\ sent'[i] = r)
      <4>1. \A i \in 1..Len(sent') : i \in 1..Len(sent) \/ i = Len(sent) + 1
        BY <3>1, <1>t
      <4> QED BY <3>1, <4>1
    <3>3. /\ m <= published["results"] /\ \A j \in 1..Len(S) : m < S[j]
      BY <2>2, <2>9, <1>i DEF OrderInv
    <3>4. \A j \in 1..Len(C') : m < C'[j]
      <4>1. SUFFICES ASSUME NEW j \in 1..Len(C') PROVE m < C'[j]
        OBVIOUS
      <4>2. j + 1 \in 1..Len(C) /\ 1 < j + 1 /\ C'[j] = C[j + 1]
        BY <2>8
      <4>3. C[1] < C[j + 1]
        BY <2>9, <4>2, <1>i DEF OrderInv, Rising
      <4> QED BY <2>2, <4>2, <4>3
    <3>5. \A i \in 1..Len(sent) : sent[i].kind = "result" => sent[i].n < m
      BY <2>2, <2>9, <1>i DEF OrderInv
    <3>6. ASSUME NEW i \in 1..Len(sent'), sent'[i].kind = "result"
          PROVE  /\ sent'[i].n <= published["results"]
                 /\ \A j \in 1..Len(sent') : i < j /\ sent'[j].kind = "result" => sent'[i].n < sent'[j].n
                 /\ \A j \in 1..Len(C') : sent'[i].n < C'[j]
                 /\ \A j \in 1..Len(S) : sent'[i].n < S[j]
      <4>1. CASE i = Len(sent) + 1 /\ sent'[i] = r
        <5>1. \A j \in 1..Len(sent') : ~(i < j)
          BY <3>1, <4>1, <1>t
        <5> QED BY <2>3, <3>3, <3>4, <4>1, <5>1
      <4>2. CASE i \in 1..Len(sent) /\ sent'[i] = sent[i]
        <5>1. /\ sent[i].kind = "result" /\ sent[i].n <= published["results"] /\ sent[i].n \in Nat
              /\ \A j \in 1..Len(sent) : i < j /\ sent[j].kind = "result" => sent[i].n < sent[j].n
              /\ \A j \in 1..Len(C) : sent[i].n < C[j]
              /\ \A j \in 1..Len(S) : sent[i].n < S[j]
          BY <3>6, <4>2, <1>t, <1>i DEF OrderInv
        <5>2. \A j \in 1..Len(C') : sent[i].n < C'[j]
          BY <5>1, <2>14
        <5>3. ASSUME NEW j \in 1..Len(sent'), i < j, sent'[j].kind = "result"
              PROVE  sent[i].n < sent'[j].n
          BY <5>1, <5>3, <3>2, <3>5, <2>3, <4>2
        <5> QED BY <4>2, <5>1, <5>2, <5>3
      <4> QED BY <3>2, <4>1, <4>2
    <3>7. OrderInv'
      BY <2>1, <2>6, <2>12, <2>13, <3>6, <1>i DEF OrderInv
    <3>8. ASSUME NEW n, Accounted(n) PROVE Accounted(n)'
      <4>1. CASE n = m
        <5>1. Len(sent) + 1 \in 1..Len(sent')
          BY <3>1, <1>t
        <5> QED BY <3>1, <5>1, <4>1, <2>4 DEF Accounted
      <4>2. CASE n # m
        <5>1. ASSUME NEW i \in 1..Len(sent), sent[i] = Frame("result", n)
              PROVE  \E j \in 1..Len(sent') : sent'[j] = Frame("result", n)
          <6>1. i \in 1..Len(sent')
            BY <3>1, <1>t
          <6> QED BY <3>1, <5>1, <6>1
        <5> QED BY <2>1, <2>6, <2>15, <3>8, <4>2, <5>1 DEF Accounted
      <4> QED BY <4>1, <4>2
    <3>9. AccountInv'
      BY <2>1, <2>5, <2>17, <3>8, <1>i DEF AccountInv
    <3> QED BY <2>10, <2>11, <3>7, <3>9 DEF ResultInv
  <2> QED BY <2>5, <2>16, <2>17
<1>5. CASE Drained \/ PumpStops
  <2>1. /\ src' = Cancelled("results") /\ ch' = ch
        /\ sent' = sent /\ published' = published /\ since' = since /\ missed' = missed
        /\ rd' = rd /\ closed' = closed /\ latched' = latched /\ fwd' = fwd /\ C' = C
    BY <1>5 DEF Drained, PumpStops, rpRest, rdVars, qVars, C
  <2>2. src'["results"].open = FALSE /\ S' = S /\ src'["results"] \in Chans
    BY <2>1, CancelTyped, FeedsAre DEF S
  <2>3. OrderInv' /\ LatchedInv' /\ AccountInv'
    BY <2>1, <2>2, <1>i DEF OrderInv, LatchedInv, AccountInv, Accounted
  <2>4. fwd["results"] = "done" => src'["results"] = Chan(FALSE)
    <3>1. SUFFICES ASSUME fwd["results"] = "done" PROVE src'["results"] = Chan(FALSE)
      OBVIOUS
    <3>2. S = <<>>
      BY <3>1, <1>i, ChanIs DEF ForwarderInv, S
    <3> QED BY <2>2, <3>2, ChanFields DEF S
  <2>5. CASE Drained
    <3>1. ch["results"] = Chan(FALSE)
      BY <2>5 DEF Drained
    <3>2. C = <<>> /\ ~ch["results"].open
      BY <3>1, ChanIs DEF C
    <3>3. fwd["results"] = "done"
      BY <3>2, <1>i DEF ForwarderInv
    <3>4. ForwarderInv'
      BY <2>1, <2>4, <3>2, <3>3 DEF ForwarderInv
    <3> QED BY <2>3, <3>4 DEF ResultInv
  <2>6. CASE PumpStops
    <3>1. rpump' = "stopped"
      BY <2>6 DEF PumpStops
    <3>2. ForwarderInv'
      BY <2>1, <2>4, <3>1, <1>i DEF ForwarderInv
    <3> QED BY <2>3, <3>2 DEF ResultInv
  <2> QED BY <1>5, <2>5, <2>6
<1>6. CASE Rearm
  <2>1. /\ rpump = "pause" /\ rpump' = "run" /\ sent' = sent /\ published' = published
        /\ since' = since /\ missed' = missed /\ rd' = rd /\ closed' = closed /\ latched' = latched
    BY <1>6 DEF Rearm, rpRest, rdVars, qVars
  <2>2. src'["results"] = Chan(TRUE) /\ ch'["results"] = Chan(TRUE)
    BY <1>6, RenewTyped, FeedsAre DEF Rearm
  <2>3. fwd'["results"] = "run"
    BY <1>6, FeedsAre DEF Rearm, TypeOK
  <2>4. S = <<>> /\ C = <<>> /\ Len(S') = 0 /\ Len(C') = 0 /\ ch'["results"].open
    BY <2>1, <2>2, <1>i, ChanIs DEF ForwarderInv, S, C
  <2>5. OrderInv' /\ LatchedInv'
    BY <2>1, <2>4, <1>i DEF OrderInv, LatchedInv, Rising
  <2>6. ForwarderInv'
    BY <2>1, <2>2, <2>3, <2>4 DEF ForwarderInv
  <2>7. AccountInv'
    <3>1. \A n : ~Has(S, n) /\ ~Has(C, n)
      BY <2>4 DEF Has
    <3>2. \A n : Accounted(n) => Accounted(n)'
      BY <2>1, <3>1 DEF Accounted
    <3> QED BY <2>1, <3>2, <1>i DEF AccountInv
  <2> QED BY <2>5, <2>6, <2>7 DEF ResultInv
<1>7. CASE Mutate
  <2>1. /\ rd = "read" /\ rd' = "submit" /\ sent' = sent /\ published' = published /\ missed' = missed
        /\ closed' = closed /\ src' = src /\ ch' = ch /\ fwd' = fwd /\ rpump' = rpump
    BY <1>7 DEF Mutate, Read, rdRest, feedVars, qVars
  <2>2. S' = S /\ C' = C
    BY <2>1 DEF S, C
  <2>3. OrderInv' /\ ForwarderInv'
    BY <2>1, <2>2, <1>i DEF OrderInv, ForwarderInv
  <2>4. \/ since < 0 /\ ~closing /\ since' = published["results"] /\ latched'
        \/ since' = since /\ (latched => latched')
    BY <1>7 DEF Mutate, Latched
  <2>5. LatchedInv'
    BY <2>1, <2>4, <1>i DEF LatchedInv
  <2>6. AccountInv'
    <3>1. \A n : Accounted(n) => Accounted(n)'
      BY <2>1, <2>2 DEF Accounted
    <3>2. CASE since' = published["results"]
      <4>1. (since' + 1)..published["results"] = {}
        BY <3>2, <1>t
      <4> QED BY <2>1, <4>1 DEF AccountInv
    <3>3. CASE since' = since
      BY <2>1, <3>1, <3>3, <1>i DEF AccountInv
    <3> QED BY <2>4, <3>2, <3>3
  <2> QED BY <2>3, <2>5, <2>6 DEF ResultInv
<1>8. CASE Publish("changes")
  <2>1. published'["results"] = published["results"] /\ missed' = missed
    BY <1>8, FeedsAre DEF Publish, TypeOK
  <2>2. src'["results"] = src["results"]
    BY <1>8, Typed, FeedsAre DEF Publish, Offer
  <2> QED BY <1>8, <2>1, <2>2, <1>q DEF Publish, rdVars, qVars
<1>9. CASE Forward("changes")
  <2>1. /\ src'["results"] = src["results"] /\ ch'["results"] = ch["results"]
        /\ fwd'["results"] = fwd["results"] /\ missed' = missed
    <3>1. Forwarded("changes")
      BY <1>9, ForwardDoes, FeedsAre
    <3> QED BY <3>1, FeedsAre DEF Forwarded
  <2> QED BY <1>9, <2>1, <1>q DEF Forward, rdVars, qVars
<1>10. CASE ForwarderEnds("changes")
  <2>1. src' = src /\ ch'["results"] = ch["results"] /\ fwd'["results"] = fwd["results"]
    BY <1>10, EndsTyped, FeedsAre
  <2> QED BY <1>10, <2>1, <1>q DEF ForwarderEnds, rdVars, qVars
<1>11. CASE PumpTake
  <2>1. ch'["results"] = ch["results"]
    BY <1>11, SameKept, TakenTyped, FeedsAre DEF PumpTake
  <2> QED BY <1>11, <2>1, <1>q DEF PumpTake, pumpRest, rdVars, qVars
<1>12. CASE PumpAborts
  <2>1. SrcKept /\ closed' = TRUE
    BY <1>12, AbortDoes DEF PumpAborts
  <2>2. ch'["results"] = ch["results"]
    BY <1>12, <2>1, TakenTyped, FeedsAre DEF PumpAborts
  <2> QED BY <1>12, <2>1, <2>2, <1>e, <1>q DEF PumpAborts, pumpRest, rdVars
<1>13. CASE PumpCancels
  <2>1. SrcKept
    BY <1>13, CancelledKept DEF PumpCancels
  <2> QED BY <1>13, <2>1, <1>e, <1>q DEF PumpCancels, pumpRest, rdVars, qVars
<1>14. CASE PumpEnds
  <2>1. SrcKept /\ closed' = TRUE
    BY <1>14, TeardownDoes DEF PumpEnds, DroppedBySource
  <2> QED BY <1>14, <2>1, <1>e, <1>q DEF PumpEnds, pumpRest, rdVars
<1>15. CASE HandshakeFails
  <2>1. SrcKept /\ closed' = TRUE
    BY <1>15, TeardownDoes DEF HandshakeFails
  <2> QED BY <1>15, <2>1, <1>e, <1>q DEF HandshakeFails, Exit, rdRest
<1>16. CASE Leave
  <2>1. SrcKept /\ closed' = TRUE
    BY <1>16, TeardownDoes DEF Leave
  <2> QED BY <1>16, <2>1, <1>e, <1>q DEF Leave, Exit, rdRest
<1>17. CASE SnapshotFails
  <2>1. SrcKept /\ closed' = TRUE
    BY <1>17, AbortDoes DEF SnapshotFails, SnapshotEnds
  <2> QED BY <1>17, <2>1, <1>e, <1>q DEF SnapshotFails, Exit, rdRest
<1>18. CASE WriteFails
  <2>1. SrcKept /\ closed' = TRUE
    BY <1>18, TeardownDoes DEF WriteFails
  <2> QED BY <1>18, <2>1, <1>e, <1>q DEF WriteFails, wrRest, rdVars
<1>19. CASE PumpSend
  <2>1. Head(todo) \in Frames /\ Head(todo).kind # "result"
    <3>1. Head(todo) \in Frames /\ Head(todo) = todo[1]
      BY <1>19, TailFrame DEF PumpSend, TypeOK
    <3> QED BY <3>1, <1>19, <1>h DEF PumpSend
  <2>2. Sends(Head(todo))
    BY <1>19, <2>1, SendDoes DEF PumpSend
  <2>3. SrcKept /\ (closed => closed') /\ (sent' = sent \/ sent' = Append(sent, Head(todo)))
    BY <2>2 DEF Sends
  <2> QED BY <1>19, <2>1, <2>3, <1>e, <1>f DEF PumpSend, pumpRest, rdVars
<1>20. CASE Query
  <2>1. Frame("reply", 0) \in Frames /\ Frame("reply", 0).kind # "result"
    BY <1>r
  <2>2. Sends(Frame("reply", 0))
    BY <1>20, <2>1, SendDoes DEF Query
  <2>3. SrcKept /\ (closed => closed') /\ (sent' = sent \/ sent' = Append(sent, Frame("reply", 0)))
    BY <2>2 DEF Sends
  <2> QED BY <1>20, <2>1, <2>3, <1>e, <1>f DEF Query, Read, Resume, Exit, rdRest
<1>21. CASE BadRequest
  <2>1. Frame("error", 0) \in Frames /\ Frame("error", 0).kind # "result"
    BY <1>r
  <2>2. Sends(Frame("error", 0))
    BY <1>21, <2>1, SendDoes DEF BadRequest
  <2>3. SrcKept /\ (closed => closed') /\ (sent' = sent \/ sent' = Append(sent, Frame("error", 0)))
    BY <2>2 DEF Sends
  <2> QED BY <1>21, <2>1, <2>3, <1>e, <1>f DEF BadRequest, Read, Resume, Exit, rdRest
<1>22. CASE Submitted
  <2>1. Frame("reply", 0) \in Frames /\ Frame("reply", 0).kind # "result"
    BY <1>r
  <2>2. Sends(Frame("reply", 0))
    BY <1>22, <2>1, SendDoes DEF Submitted
  <2>3. SrcKept /\ (closed => closed') /\ (sent' = sent \/ sent' = Append(sent, Frame("reply", 0)))
    BY <2>2 DEF Sends
  <2> QED BY <1>22, <2>1, <2>3, <1>e, <1>f DEF Submitted, Read, Resume, Exit, rdRest
<1>23. CASE SnapshotSend
  <2>1. Head(left) \in Frames /\ Head(left).kind # "result"
    <3>1. Head(left) \in Frames /\ Head(left) = left[1]
      BY <1>23, TailFrame DEF SnapshotSend, TypeOK
    <3> QED BY <3>1, <1>23, <1>h DEF SnapshotSend
  <2> QED BY <1>23, <2>1, <1>f DEF SnapshotSend, rdRest, feedVars
<1>24. CASE Subscribe
  <2>1. src'["results"] = src["results"] /\ ch'["results"] = ch["results"]
    BY <1>24, RenewTyped, FeedsAre DEF Subscribe
  <2>2. fwd'["results"] = fwd["results"]
    BY <1>24, FeedsAre DEF Subscribe, TypeOK
  <2> QED BY <1>24, <2>1, <2>2, <1>q DEF Subscribe, Read, rdRest, qVars
<1>25. CASE Handshake
  BY <1>25, <1>q DEF Handshake, feedVars, qVars
<1>26. CASE SetSubCancel
  BY <1>26, <1>q DEF SetSubCancel, rdRest, feedVars
<1>27. CASE StartPump
  BY <1>27, <1>q DEF StartPump, Exit, rdRest, feedVars, qVars
<1>28. CASE Write
  BY <1>28, <1>q DEF Write, wrRest, rdVars
<1>29. CASE WriterEnds
  BY <1>29, <1>q DEF WriterEnds, wrRest, rdVars
<1>30. CASE Close
  BY <1>30, <1>q DEF Close, feedVars, rdVars, qVars
<1> QED
  BY FeedsAre, <1>0, <1>1, <1>2, <1>3, <1>4, <1>5, <1>6, <1>7, <1>8, <1>9, <1>10, <1>11, <1>12, <1>13, <1>14, <1>15, <1>16, <1>17, <1>18, <1>19, <1>20, <1>21, <1>22, <1>23, <1>24, <1>25, <1>26, <1>27, <1>28, <1>29, <1>30
  DEF Next, DeltaPump, Subscribing, Handle, Writer, ResultPump

\* From its first mutation request on, each result is sent to a connection
\* once and in order, is on its way through the forwarder's channels, or was
\* lost because a consumer of all results was too slow: it never slips between
\* a forwarder that gives up, a pump that drains what that one has left and the
\* subscription after that, and never between the submission of a request and
\* the connection's entry in mutConns (handle, server.go:610-636; pumpResults,
\* server.go:400-437; daemonHandler.Results, main.go:265-285).
THEOREM ResultsArrive == Spec => []ResultsAccounted
<1>1. Init => TypeOK /\ FeedInv /\ ResultInv
  BY TypeInit, FeedInit, ResultInit
<1>2. TypeOK /\ FeedInv /\ ResultInv /\ [Next]_vars => (TypeOK /\ FeedInv /\ ResultInv)'
  BY TypeNext, FeedNext, ResultNext
<1>3. ResultInv /\ TypeOK => ResultsAccounted
  <2> SUFFICES ASSUME ResultInv, TypeOK PROVE ResultsAccounted
    OBVIOUS
  <2>1. \A i, j \in 1..Len(sent) :
          i < j /\ sent[i].kind = "result" /\ sent[j].kind = "result" => sent[i].n < sent[j].n
    BY DEF ResultInv, OrderInv
  <2>2. ASSUME NEW n, Accounted(n)
        PROVE  \/ n \in missed
               \/ \E i \in 1..Len(sent) : sent[i] = Frame("result", n)
               \/ \E c \in {src["results"], ch["results"]} : \E i \in DOMAIN c.buf : c.buf[i] = n
    <3>1. DOMAIN src["results"].buf = 1..Len(S) /\ DOMAIN ch["results"].buf = 1..Len(C)
      BY ResultTyped DEF S, C
    <3> QED BY <2>2, <3>1 DEF Accounted, Has, S, C
  <2> QED BY <2>1, <2>2 DEF ResultInv, AccountInv, ResultsAccounted
<1> QED BY <1>1, <1>2, <1>3, PTL DEF Spec

=============================================================================
