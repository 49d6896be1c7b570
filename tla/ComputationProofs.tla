-------------------------- MODULE ComputationProofs --------------------------
(***************************************************************************)
(* What the service computes, for every input: the frames of a change fit  *)
(* and hold all of it (Deltas), the dashboard's totals, counts and list    *)
(* are those of the torrents (Dashboard), a request is parsed as           *)
(* documented and the endpoint in force is the one that was judged         *)
(* (Requests). The three share no state: each has its own invariant.       *)
(***************************************************************************)
EXTENDS Deltas, Dashboard, Requests, FiniteSetTheorems, TLAPS

-----------------------------------------------------------------------------
(* Lengths.                                                                *)

\* A row costs at least LeastRow bytes, whether its name is cut or not.
LEMMA RowCost ==
  ASSUME NEW row \in Row
  PROVE  RowBytes(row) \in Nat /\ RowBytes(row) >= LeastRow
<1> DEFINE n == row.name
<1>1. /\ row.rest \in Nat /\ row.rest >= LeastRow
      /\ n \in Name /\ ~n.cut
      /\ LeastRow \in Nat /\ NameCap \in Nat \ {0}
  BY DeltasAssumption
<1>2. n.runes \in Nat /\ n.esc \in 1..6
  BY <1>1 DEF Name
<1>3. Bytes(Capped(n, NameCap)) \in Nat
  <2>1. CASE n.runes <= NameCap
    <3>1. Bytes(Capped(n, NameCap)) = n.runes * n.esc
      BY <1>1, <2>1 DEF Bytes, Capped
    <3> QED
      BY <1>2, <3>1
  <2>2. CASE ~(n.runes <= NameCap)
    <3>1. Capped(n, NameCap) = [n EXCEPT !.runes = NameCap, !.cut = TRUE]
      BY <2>2 DEF Capped
    <3>2. Capped(n, NameCap).runes = NameCap /\ Capped(n, NameCap).cut = TRUE
          /\ Capped(n, NameCap).esc = n.esc
      BY <1>1, <3>1 DEF Name
    <3>3. Bytes(Capped(n, NameCap)) = (NameCap - 1) * n.esc + 3
      BY <3>2 DEF Bytes
    <3>4. (NameCap - 1) * n.esc \in Nat
      BY <1>1, <1>2
    <3> QED
      BY <3>3, <3>4
  <2> QED
    BY <2>1, <2>2
<1> HIDE DEF n
<1>4. RowBytes(row) = row.rest + Bytes(Capped(n, NameCap))
  BY DEF RowBytes, n
<1> QED
  BY <1>1, <1>3, <1>4

\* One more row adds at most one comma, and at least LeastRow to the size.
LEMMA OneMore ==
  ASSUME NEW d \in Int, NEW s \in Int, NEW len \in Int, NEW c \in 0..1, LeastRow * d <= s, len >= LeastRow
  PROVE  LeastRow * (d + c) <= s + len
<1>1. LeastRow \in Nat
  BY DeltasAssumption
<1>2. LeastRow * (d + 1) = LeastRow * d + LeastRow /\ LeastRow * d \in Int
  BY <1>1
<1> QED
  BY <1>1, <1>2

\* Fewer uncounted bytes cost nothing.
LEMMA Fewer ==
  ASSUME NEW d \in Int, NEW e \in Int, NEW s \in Int, LeastRow * d <= s, e <= d
  PROVE  LeastRow * e <= s
<1>1. LeastRow \in Nat
  BY DeltasAssumption
<1>2. LeastRow * d = LeastRow * e + LeastRow * (d - e)
  BY <1>1
<1>3. LeastRow * (d - e) \in Nat
  BY <1>1
<1>4. LeastRow * e \in Int
  BY <1>1
<1> QED
  BY <1>2, <1>3, <1>4

\* Within the budget, the uncounted bytes fit between it and the frame.
LEMMA Slack ==
  ASSUME NEW d \in Int, LeastRow * d <= Budget
  PROVE  d <= Budget \div LeastRow
<1>1. LeastRow \in Nat \ {0} /\ Budget \in Nat
  BY DeltasAssumption
<1> DEFINE q == Budget \div LeastRow  r == Budget % LeastRow
<1>2. q \in Int /\ r \in Int /\ Budget = LeastRow * q + r /\ r < LeastRow
  BY <1>1
<1> HIDE DEF q, r
<1>3. SUFFICES ASSUME d >= q + 1 PROVE FALSE
  BY <1>2 DEF q
<1>4. LeastRow * d = LeastRow * (q + 1) + LeastRow * (d - (q + 1))
  BY <1>1, <1>2
<1>5. LeastRow * (d - (q + 1)) \in Nat
  BY <1>1, <1>2, <1>3
<1>6. LeastRow * (q + 1) = LeastRow * q + LeastRow
  BY <1>1, <1>2
<1>7. LeastRow * q \in Int
  BY <1>1, <1>2
<1> QED
  BY <1>1, <1>2, <1>4, <1>5, <1>6, <1>7
-----------------------------------------------------------------------------
(* The inductive invariant. `wire' is ahead of `size' by the frame and by  *)
(* what the budget does not count: a comma per row, which LeastRow bytes   *)
(* of the row outweigh.                                                    *)

Lists == [changed : Seq(Row), removed : Seq(HashLen)]
Frame == [changed : Seq(Row), removed : Seq(HashLen), bytes : Int]
Made  == Seq(Frame)

ListsInv ==
  /\ left \in Lists
  /\ changed \in Seq(Row) /\ removed \in Seq(HashLen)
  /\ frames \in Made

SizeInv ==
  /\ size \in 0..Budget /\ wire \in Int
  /\ ~Buffered => size = 0 /\ wire = DeltaFrame
  /\ LeastRow * (wire - DeltaFrame - size) <= size

FitInv == ListsInv /\ SizeInv /\ FramesFit

\* The frame in preparation fits at any time.
LEMMA WireFits ==
  ASSUME SizeInv
  PROVE  wire <= MaxFrame
<1> DEFINE d == wire - DeltaFrame - size
<1>1. /\ Budget \in Nat /\ DeltaFrame \in Nat /\ MaxFrame \in Nat /\ LeastRow \in Nat \ {0}
      /\ DeltaFrame + Budget + Budget \div LeastRow <= MaxFrame
  BY DeltasAssumption
<1>2. d \in Int /\ size \in Int /\ size <= Budget /\ wire \in Int
  BY <1>1 DEF SizeInv
<1>3. LeastRow * d <= Budget
  <2>1. LeastRow * d <= size
    BY DEF SizeInv
  <2>2. LeastRow * d \in Int
    BY <1>1, <1>2
  <2> QED
    BY <1>1, <1>2, <2>1, <2>2
<1>4. d <= Budget \div LeastRow
  BY <1>2, <1>3, Slack
<1>5. Budget \div LeastRow \in Int
  BY <1>1
<1> QED
  BY <1>1, <1>2, <1>4, <1>5

\* So a flush makes a frame that fits.
LEMMA FlushFits ==
  ASSUME FitInv, NEW f \in BOOLEAN, frames' = IF f THEN Append(frames, Flushed) ELSE frames
  PROVE  frames' \in Made /\ FramesFit'
<1>1. wire <= MaxFrame /\ wire \in Int
  BY WireFits DEF FitInv, SizeInv
<1>2. Flushed \in Frame
  BY <1>1 DEF FitInv, ListsInv, Flushed, Frame
<1>3. frames \in Made
  BY DEF FitInv, ListsInv
<1>4. CASE ~f
  BY <1>3, <1>4 DEF FitInv, FramesFit
<1>5. CASE f
  <2>1. frames' = Append(frames, Flushed)
    BY <1>5
  <2>2. frames' \in Made
    BY <1>2, <1>3, <2>1 DEF Made
  <2>3. Len(frames') = Len(frames) + 1 /\ Len(frames) \in Nat
    BY <1>3, <2>1 DEF Made
  <2>4. ASSUME NEW i \in 1..Len(frames') PROVE frames'[i].bytes <= MaxFrame
    <3>1. CASE i = Len(frames) + 1
      <4>1. frames'[i] = Flushed
        BY <1>3, <2>1, <3>1 DEF Made
      <4> QED
        BY <1>1, <4>1 DEF Flushed
    <3>2. CASE i # Len(frames) + 1
      <4>1. i \in 1..Len(frames) /\ frames'[i] = frames[i]
        BY <1>3, <2>1, <2>3, <3>2 DEF Made
      <4> QED
        BY <4>1 DEF FitInv, FramesFit
    <3> QED
      BY <3>1, <3>2
  <2> QED
    BY <2>2, <2>4 DEF FramesFit
<1> QED
  BY <1>4, <1>5

\* What a row does to the sizes: it has `bytes' bytes and a comma before it
\* or none, and costs `cost' of the budget; it starts a frame if it must.
LEMMA SizesAfterRow ==
  ASSUME SizeInv, Buffered',
         NEW cost \in 0..Budget, NEW bytes \in Int, NEW c \in 0..1,
         (bytes = cost /\ cost >= LeastRow) \/ bytes < cost,
         NEW flush \in BOOLEAN, flush <=> Full(cost) /\ Buffered,
         size' = IF flush THEN cost ELSE size + cost,
         wire' = (IF flush THEN DeltaFrame ELSE wire + c) + bytes
  PROVE  SizeInv'
<1> DEFINE d == wire - DeltaFrame - size
<1>1. LeastRow \in Nat \ {0} /\ Budget \in Nat /\ DeltaFrame \in Nat
  BY DeltasAssumption
<1>2. /\ size \in 0..Budget /\ wire \in Int /\ d \in Int
      /\ ~Buffered => size = 0
      /\ LeastRow * d <= size
  BY <1>1 DEF SizeInv
<1>3. CASE flush
  <2>1. size' = cost /\ wire' = DeltaFrame + bytes
    BY <1>3
  <2>2. LeastRow * 0 <= cost
    BY <1>1
  <2>3. LeastRow * (bytes - cost) <= cost
    BY <1>1, <2>2, Fewer
  <2>4. wire' - DeltaFrame - size' = bytes - cost
    BY <1>1, <2>1
  <2> QED
    BY <1>1, <2>1, <2>3, <2>4 DEF SizeInv
<1>4. CASE ~flush
  <2>1. size' = size + cost /\ wire' = wire + c + bytes
    BY <1>4
  <2>2. size' \in 0..Budget
    <3>1. CASE ~Full(cost)
      BY <1>1, <1>2, <2>1, <3>1 DEF Full
    <3>2. CASE ~Buffered
      BY <1>1, <1>2, <2>1, <3>2
    <3> QED
      BY <1>4, <3>1, <3>2
  <2>3. wire' - DeltaFrame - size' = d + c + bytes - cost
    BY <1>1, <1>2, <2>1
  <2>4. LeastRow * (d + c + bytes - cost) <= size'
    <3>1. CASE bytes = cost /\ cost >= LeastRow
      <4>1. LeastRow * (d + c) <= size + cost
        BY <1>1, <1>2, <3>1, OneMore
      <4>2. d + c + bytes - cost = d + c
        BY <1>2, <3>1
      <4> QED
        BY <2>1, <4>1, <4>2
    <3>2. CASE bytes < cost
      <4>1. d + c + bytes - cost \in Int /\ d + c + bytes - cost <= d
        BY <1>2, <3>2
      <4> DEFINE e == d + c + bytes - cost
      <4>2. e \in Int /\ e <= d /\ d \in Int /\ size \in Int
        BY <1>1, <1>2, <4>1
      <4>3. LeastRow * e <= size
        <5> HIDE DEF e, d
        <5> QED
          BY <1>2, <4>2, Fewer
      <4>4. LeastRow * e \in Int
        BY <1>1, <4>2
      <4> QED
        BY <1>1, <1>2, <2>1, <4>3, <4>4
    <3> QED
      BY <3>1, <3>2
  <2> QED
    BY <1>1, <1>2, <2>1, <2>2, <2>3, <2>4 DEF SizeInv
<1> QED
  BY <1>3, <1>4

-----------------------------------------------------------------------------
(* The steps.                                                              *)

LEMMA InitFits == DeltasInit => FitInv
<1> SUFFICES ASSUME DeltasInit PROVE FitInv
  OBVIOUS
<1>1. event.changed \in BoundedSeq(Row, MaxRows) /\ event.removed \in BoundedSeq(HashLen, MaxRows)
      /\ event = [changed |-> event.changed, removed |-> event.removed]
  BY DEF DeltasInit, Events
<1>2. event.changed \in Seq(Row) /\ event.removed \in Seq(HashLen)
  <2>1. ASSUME NEW S, NEW s \in BoundedSeq(S, MaxRows) PROVE s \in Seq(S)
    <3>1. PICK m \in 0..MaxRows : s \in [1..m -> S]
      BY DEF BoundedSeq, SeqOf
    <3>2. m \in Nat
      BY <3>1, DeltasAssumption
    <3> QED
      BY <3>1, <3>2
  <2> QED
    BY <1>1, <2>1
<1>3. ListsInv
  BY <1>1, <1>2 DEF ListsInv, Lists, Made, DeltasInit
<1>4. SizeInv
  BY DeltasAssumption DEF SizeInv, DeltasInit, Buffered
<1>5. FramesFit
  BY DEF FramesFit, DeltasInit
<1> QED
  BY <1>3, <1>4, <1>5 DEF FitInv

\* Nothing that the invariant speaks of has changed.
LEMMA StillFits ==
  ASSUME FitInv, UNCHANGED <<left, changed, removed, size, wire, frames>>
  PROVE  FitInv'
BY DEF FitInv, ListsInv, SizeInv, FramesFit, Buffered

LEMMA SplitChangedFits == FitInv /\ SplitChanged => FitInv'
<1> SUFFICES ASSUME FitInv, SplitChanged PROVE FitInv'
  OBVIOUS
<1> DEFINE row == Head(left.changed)
           len == RowBytes(row)
           flush == Full(len) /\ Buffered
<1>1. CASE len > Budget
  BY <1>1, StillFits DEF SplitChanged
<1>2. CASE ~(len > Budget)
  <2>1. /\ left \in Lists /\ left.changed \in Seq(Row) /\ left.changed # <<>>
        /\ changed \in Seq(Row) /\ removed \in Seq(HashLen)
    BY DEF SplitChanged, FitInv, ListsInv, Lists
  <2>2. row \in Row /\ Tail(left.changed) \in Seq(Row)
    BY <2>1
  <2>3. len \in Nat /\ len >= LeastRow /\ len \in 0..Budget
    <3>1. len \in Nat /\ len >= LeastRow
      BY <2>2, RowCost
    <3>2. Budget \in Nat
      BY DeltasAssumption
    <3> HIDE DEF len
    <3> QED
      BY <1>2, <3>1, <3>2
  <2>4. /\ frames'  = IF flush THEN Append(frames, Flushed) ELSE frames
        /\ changed' = IF flush THEN <<row>> ELSE Append(changed, row)
        /\ removed' = IF flush THEN <<>> ELSE removed
        /\ size'    = IF flush THEN len ELSE size + len
        /\ wire'    = IF flush THEN DeltaFrame + len ELSE wire + Comma(changed) + len
        /\ left'    = [left EXCEPT !.changed = Tail(@)]
    BY <1>2 DEF SplitChanged
  <2> HIDE DEF row, len
  <2>5. flush \in BOOLEAN
    BY DEF Full, Buffered
  <2>6. changed' \in Seq(Row) /\ changed' # <<>> /\ removed' \in Seq(HashLen)
    BY <2>1, <2>2, <2>4
  <2>7. left' \in Lists
    BY <2>1, <2>2, <2>4 DEF Lists
  <2>8. frames' \in Made /\ FramesFit'
    <3> HIDE DEF flush
    <3> QED
      BY <2>4, <2>5, FlushFits
  <2>9. SizeInv'
    <3>1. Buffered'
      BY <2>6 DEF Buffered
    <3>2. Comma(changed) \in 0..1
      BY DEF Comma
    <3>3. wire' = (IF flush THEN DeltaFrame ELSE wire + Comma(changed)) + len
      BY <2>4
    <3>4. flush <=> Full(len) /\ Buffered
      OBVIOUS
    <3>5. SizeInv /\ len \in Int
      BY <2>3 DEF FitInv
    <3> HIDE DEF flush
    <3> QED
      BY <2>3, <2>4, <2>5, <3>1, <3>2, <3>3, <3>4, <3>5, SizesAfterRow
  <2> QED
    BY <2>6, <2>7, <2>8, <2>9 DEF FitInv, ListsInv
<1> QED
  BY <1>1, <1>2

LEMMA SplitRemovedFits == FitInv /\ SplitRemoved => FitInv'
<1> SUFFICES ASSUME FitInv, SplitRemoved PROVE FitInv'
  OBVIOUS
<1> DEFINE len == Head(left.removed)
           flush == Full(len + 16) /\ Buffered
<1>1. CASE len > LongestHash
  BY <1>1, StillFits DEF SplitRemoved
<1>2. CASE ~(len > LongestHash)
  <2>1. /\ left \in Lists /\ left.removed \in Seq(HashLen) /\ left.removed # <<>>
        /\ changed \in Seq(Row) /\ removed \in Seq(HashLen)
    BY DEF SplitRemoved, FitInv, ListsInv, Lists
  <2>2. len \in HashLen /\ Tail(left.removed) \in Seq(HashLen)
    BY <2>1
  <2>3. len \in Nat /\ len + 16 \in 0..Budget
    <3>1. Budget \in Nat /\ LongestHash \in Nat /\ LongestHash + 16 <= Budget
      BY DeltasAssumption
    <3>2. len \in Nat
      BY <2>2, DeltasAssumption
    <3> HIDE DEF len
    <3> QED
      BY <1>2, <3>1, <3>2
  <2>4. /\ frames'  = IF flush THEN Append(frames, Flushed) ELSE frames
        /\ changed' = IF flush THEN <<>> ELSE changed
        /\ removed' = IF flush THEN <<len>> ELSE Append(removed, len)
        /\ size'    = IF flush THEN len + 16 ELSE size + len + 16
        /\ wire'    = (IF flush THEN DeltaFrame ELSE wire + Comma(removed)) + len + 2
        /\ left'    = [left EXCEPT !.removed = Tail(@)]
    BY <1>2 DEF SplitRemoved
  <2> HIDE DEF len
  <2>5. flush \in BOOLEAN
    BY DEF Full, Buffered
  <2>6. changed' \in Seq(Row) /\ removed' # <<>> /\ removed' \in Seq(HashLen)
    BY <2>1, <2>2, <2>4
  <2>7. left' \in Lists
    BY <2>1, <2>2, <2>4 DEF Lists
  <2>8. frames' \in Made /\ FramesFit'
    <3> HIDE DEF flush
    <3> QED
      BY <2>4, <2>5, FlushFits
  <2>9. SizeInv'
    <3> DEFINE cost == len + 16  bytes == len + 2
    <3>1. Buffered'
      BY <2>6 DEF Buffered
    <3>2. Comma(removed) \in 0..1
      BY DEF Comma
    <3>3. SizeInv /\ size \in Int /\ wire \in Int /\ DeltaFrame \in Int
      BY DeltasAssumption DEF FitInv, SizeInv
    <3>4. wire' = (IF flush THEN DeltaFrame ELSE wire + Comma(removed)) + bytes
      <4>1. CASE flush
        BY <2>3, <2>4, <3>3, <4>1
      <4>2. CASE ~flush
        <5>1. wire' = (wire + Comma(removed)) + len + 2
          BY <2>4, <4>2
        <5> HIDE DEF flush
        <5> QED
          BY <2>3, <3>2, <3>3, <4>2, <5>1
      <4> QED
        BY <4>1, <4>2
    <3>5. size' = IF flush THEN cost ELSE size + cost
      <4> HIDE DEF flush
      <4> QED
        BY <2>3, <2>4, <3>3
    <3>6. flush <=> Full(cost) /\ Buffered
      OBVIOUS
    <3>7. cost \in 0..Budget /\ bytes \in Int /\ bytes < cost
      BY <2>3
    <3> HIDE DEF flush, cost, bytes
    <3> QED
      BY <2>5, <3>1, <3>2, <3>3, <3>4, <3>5, <3>6, <3>7, SizesAfterRow
  <2> QED
    BY <2>6, <2>7, <2>8, <2>9 DEF FitInv, ListsInv
<1> QED
  BY <1>1, <1>2

LEMMA LastFlushFits == FitInv /\ LastFlush => FitInv'
<1> SUFFICES ASSUME FitInv, LastFlush PROVE FitInv'
  OBVIOUS
<1>1. Buffered \in BOOLEAN
  BY DEF Buffered
<1>2. frames' = IF Buffered THEN Append(frames, Flushed) ELSE frames
  BY DEF LastFlush
<1>3. frames' \in Made /\ FramesFit'
  BY <1>1, <1>2, FlushFits
<1>4. ListsInv' /\ SizeInv'
  BY <1>3 DEF FitInv, ListsInv, SizeInv, LastFlush, Buffered
<1> QED
  BY <1>3, <1>4 DEF FitInv

LEMMA FitNext == FitInv /\ [DeltasNext]_deltasVars => FitInv'
<1> SUFFICES ASSUME FitInv, [DeltasNext]_deltasVars PROVE FitInv'
  OBVIOUS
<1>1. CASE SplitChanged
  BY <1>1, SplitChangedFits
<1>2. CASE SplitRemoved
  BY <1>2, SplitRemovedFits
<1>3. CASE LastFlush
  BY <1>3, LastFlushFits
<1>4. CASE FrameItem
  BY <1>4, StillFits DEF FrameItem
<1>5. CASE UNCHANGED deltasVars
  BY <1>5, StillFits DEF deltasVars
<1> QED
  BY <1>1, <1>2, <1>3, <1>4, <1>5 DEF DeltasNext

\* "The frame fits MaxFrameBytes with its LF" (EncodeDeltas): no frame of a
\* change is longer than what every reader takes, whatever the change.
THEOREM EveryFrameFits == DeltasSpec => []FramesFit
<1>1. DeltasInit => FitInv
  BY InitFits
<1>2. FitInv /\ [DeltasNext]_deltasVars => FitInv'
  BY FitNext
<1>3. FitInv => FramesFit
  BY DEF FitInv
<1> QED
  BY <1>1, <1>2, <1>3, PTL DEF DeltasSpec

-----------------------------------------------------------------------------
(* Nothing is lost. Of either list, the frames hold what comes first, cut  *)
(* into pieces; the frame in preparation goes on from there, and `left' is *)
(* the rest.                                                               *)

\* The parts are what the list begins with, cut into pieces.
Cut(list, n, parts) ==
  \E cut \in [0..Len(parts) -> 0..n] :
    /\ cut[0] = 0 /\ cut[Len(parts)] = n
    /\ \A i \in 1..Len(parts) :
         cut[i - 1] <= cut[i] /\ parts[i] = SubSeq(list, cut[i - 1] + 1, cut[i])

\* After the first n of the list come cur and then rest.
Continues(list, n, cur, rest) ==
  /\ n + Len(cur) + Len(rest) = Len(list)
  /\ \A i \in 1..Len(cur) : cur[i] = list[n + i]
  /\ \A i \in 1..Len(rest) : rest[i] = list[n + Len(cur) + i]

Underway(list, parts, cur, rest) == \E n \in Nat : Cut(list, n, parts) /\ Continues(list, n, cur, rest)

\* One more piece.
LEMMA CutMore ==
  ASSUME NEW S, NEW list \in Seq(S), NEW parts \in Seq(Seq(S)), NEW n \in Nat, NEW k \in Nat,
         Cut(list, n, parts)
  PROVE  Cut(list, n + k, Append(parts, SubSeq(list, n + 1, n + k)))
<1> DEFINE p == SubSeq(list, n + 1, n + k)  more == Append(parts, p)  l == Len(parts)
<1>1. PICK cut \in [0..l -> 0..n] :
        /\ cut[0] = 0 /\ cut[l] = n
        /\ \A i \in 1..l : cut[i - 1] <= cut[i] /\ parts[i] = SubSeq(list, cut[i - 1] + 1, cut[i])
  BY DEF Cut
<1>2. l \in Nat /\ Len(more) = l + 1 /\ more[l + 1] = p /\ \A i \in 1..l : more[i] = parts[i]
  <2> HIDE DEF p
  <2>1. l \in Nat /\ Len(more) = l + 1 /\ more[l + 1] = p
    OBVIOUS
  <2>2. \A i \in 1..l : more[i] = parts[i]
    OBVIOUS
  <2> QED
    BY <2>1, <2>2
<1> DEFINE c == [i \in 0..(l + 1) |-> IF i = l + 1 THEN n + k ELSE cut[i]]
<1> HIDE DEF l, p, more
<1>3. c \in [0..(l + 1) -> 0..(n + k)]
  <2>1. \A i \in 0..(l + 1) : i # l + 1 => i \in 0..l
    BY <1>2
  <2>2. \A i \in 0..l : cut[i] \in 0..(n + k)
    BY <1>1
  <2>3. n + k \in 0..(n + k)
    OBVIOUS
  <2> QED BY <2>1, <2>2, <2>3
<1>4. c[0] = 0 /\ c[l + 1] = n + k /\ c[l] = n
  BY <1>1, <1>2
<1>5. ASSUME NEW i \in 1..(l + 1)
      PROVE  c[i - 1] <= c[i] /\ more[i] = SubSeq(list, c[i - 1] + 1, c[i])
  <2>1. CASE i = l + 1
    <3>1. i - 1 = l /\ more[i] = p
      BY <1>2, <2>1
    <3>2. c[i - 1] = n /\ c[i] = n + k
      BY <1>4, <2>1, <3>1
    <3> HIDE DEF c
    <3>3. n <= n + k
      OBVIOUS
    <3> QED BY <3>1, <3>2, <3>3 DEF p
  <2>2. CASE i # l + 1
    <3>1. i \in 1..l /\ i \in 0..(l + 1) /\ i - 1 \in 0..(l + 1) /\ i - 1 # l + 1
      BY <1>2, <2>2
    <3>2. c[i - 1] = cut[i - 1] /\ c[i] = cut[i]
      BY <2>2, <3>1
    <3> HIDE DEF c
    <3> QED BY <1>1, <1>2, <3>1, <3>2
  <2> QED BY <2>1, <2>2
<1> HIDE DEF c
<1>6. Cut(list, n + k, more)
  BY <1>2, <1>3, <1>4, <1>5 DEF Cut
<1> QED BY <1>6 DEF more, p

\* What is in preparation becomes a piece.
LEMMA UnderwayFlush ==
  ASSUME NEW S, NEW list \in Seq(S), NEW parts \in Seq(Seq(S)), NEW cur \in Seq(S), NEW rest \in Seq(S),
         Underway(list, parts, cur, rest)
  PROVE  Underway(list, Append(parts, cur), <<>>, rest)
<1>1. PICK n \in Nat : Cut(list, n, parts) /\ Continues(list, n, cur, rest)
  BY DEF Underway
<1> DEFINE k == Len(cur)
<1>2. /\ k \in Nat /\ Len(rest) \in Nat /\ Len(list) \in Nat /\ n + k + Len(rest) = Len(list)
      /\ \A i \in 1..k : cur[i] = list[n + i]
      /\ \A i \in 1..Len(rest) : rest[i] = list[n + k + i]
  BY <1>1 DEF Continues
<1>3. cur = SubSeq(list, n + 1, n + k)
  <2>1. /\ SubSeq(list, n + 1, n + k) \in Seq(S) /\ Len(SubSeq(list, n + 1, n + k)) = k
        /\ \A i \in 1..k : SubSeq(list, n + 1, n + k)[i] = list[n + i]
    BY <1>2
  <2> QED BY <1>2, <2>1
<1>4. Cut(list, n + k, Append(parts, cur))
  BY <1>1, <1>2, <1>3, CutMore
<1>5. Continues(list, n + k, <<>>, rest)
  <2> HIDE DEF k
  <2>1. Len(<<>>) = 0 /\ n + k + 0 = n + k
    BY <1>2
  <2> QED BY <1>2, <2>1 DEF Continues
<1>6. n + k \in Nat
  BY <1>2
<1> QED BY <1>4, <1>5, <1>6 DEF Underway

\* The next of the rest goes into preparation.
LEMMA UnderwayTake ==
  ASSUME NEW S, NEW list \in Seq(S), NEW parts, NEW cur \in Seq(S), NEW rest \in Seq(S),
         Underway(list, parts, cur, rest), rest # <<>>
  PROVE  Underway(list, parts, Append(cur, Head(rest)), Tail(rest))
<1>1. PICK n \in Nat : Cut(list, n, parts) /\ Continues(list, n, cur, rest)
  BY DEF Underway
<1> DEFINE k == Len(cur)  l == Len(rest)  c == Append(cur, Head(rest))  r == Tail(rest)
<1>2. /\ k \in Nat /\ l \in Nat /\ Len(list) \in Nat /\ n + k + l = Len(list)
      /\ \A i \in 1..k : cur[i] = list[n + i]
      /\ \A i \in 1..l : rest[i] = list[n + k + i]
  BY <1>1 DEF Continues
<1>3. /\ l >= 1 /\ Len(c) = k + 1 /\ Len(r) = l - 1 /\ c[k + 1] = rest[1]
      /\ \A i \in 1..k : c[i] = cur[i]
      /\ \A i \in 1..(l - 1) : r[i] = rest[i + 1]
  OBVIOUS
<1> HIDE DEF k, l, c, r
<1>4. \A i \in 1..(k + 1) : c[i] = list[n + i]
  <2> SUFFICES ASSUME NEW i \in 1..(k + 1) PROVE c[i] = list[n + i]
    OBVIOUS
  <2>1. CASE i = k + 1
    <3>1. 1 \in 1..l /\ n + k + 1 = n + i
      BY <1>2, <1>3, <2>1
    <3> QED BY <1>2, <1>3, <2>1, <3>1
  <2>2. CASE i # k + 1
    <3>1. i \in 1..k
      BY <1>2, <2>2
    <3> QED BY <1>2, <1>3, <3>1
  <2> QED BY <2>1, <2>2
<1>5. \A i \in 1..(l - 1) : r[i] = list[n + (k + 1) + i]
  <2> SUFFICES ASSUME NEW i \in 1..(l - 1) PROVE r[i] = list[n + (k + 1) + i]
    OBVIOUS
  <2>1. i + 1 \in 1..l /\ n + k + (i + 1) = n + (k + 1) + i
    BY <1>2
  <2> QED BY <1>2, <1>3, <2>1
<1>6. n + (k + 1) + (l - 1) = Len(list)
  BY <1>2
<1>7. Continues(list, n, c, r)
  BY <1>3, <1>4, <1>5, <1>6 DEF Continues
<1>8. Underway(list, parts, c, r)
  BY <1>1, <1>7 DEF Underway
<1> QED BY <1>8 DEF c, r

\* When nothing is left, the pieces are the list.
LEMMA UnderwayDone ==
  ASSUME NEW S, NEW list \in Seq(S), NEW parts, Underway(list, parts, <<>>, <<>>)
  PROVE  Pieces(list, parts)
<1>1. PICK n \in Nat : Cut(list, n, parts) /\ Continues(list, n, <<>>, <<>>)
  BY DEF Underway
<1>2. n = Len(list)
  BY <1>1 DEF Continues
<1>3. Cut(list, Len(list), parts)
  BY <1>1, <1>2
<1> QED BY <1>3 DEF Cut, Pieces

LEMMA UnderwayInit ==
  ASSUME NEW S, NEW list \in Seq(S)
  PROVE  Underway(list, <<>>, <<>>, list)
<1>1. [i \in {0} |-> 0] \in [0..0 -> 0..0] /\ [i \in {0} |-> 0][0] = 0 /\ 0..0 = {0}
  OBVIOUS
<1>2. Len(<<>>) = 0 /\ 1..0 = {}
  OBVIOUS
<1>3. Cut(list, 0, <<>>)
  BY <1>1, <1>2 DEF Cut
<1>4. Continues(list, 0, <<>>, list)
  BY <1>2 DEF Continues
<1> QED BY <1>3, <1>4 DEF Underway

\* The lists of the frames.
ChangedOf(fs) == [i \in DOMAIN fs |-> fs[i].changed]
RemovedOf(fs) == [i \in DOMAIN fs |-> fs[i].removed]

NoneEmpty == \A i \in DOMAIN frames : frames[i].changed # <<>> \/ frames[i].removed # <<>>

BothUnderway ==
  /\ Underway(event.changed, ChangedOf(frames), changed, left.changed)
  /\ Underway(event.removed, RemovedOf(frames), removed, left.removed)

LossInv ==
  /\ event \in Lists
  /\ verdict = "running" => BothUnderway
  /\ verdict = "ok" => /\ Pieces(event.changed, ChangedOf(frames))
                       /\ Pieces(event.removed, RemovedOf(frames))
  /\ NoneEmpty

LEMMA PartsAre ==
  ASSUME FitInv
  PROVE  /\ changed \in Seq(Row) /\ removed \in Seq(HashLen)
         /\ left.changed \in Seq(Row) /\ left.removed \in Seq(HashLen)
         /\ ChangedOf(frames) \in Seq(Seq(Row)) /\ RemovedOf(frames) \in Seq(Seq(HashLen))
<1>1. /\ frames \in Seq(Frame) /\ left \in Lists /\ changed \in Seq(Row) /\ removed \in Seq(HashLen)
  BY DEF FitInv, ListsInv, Made
<1>2. \A i \in 1..Len(frames) : frames[i].changed \in Seq(Row) /\ frames[i].removed \in Seq(HashLen)
  <2>1. \A i \in 1..Len(frames) : frames[i] \in Frame
    BY <1>1
  <2> QED BY <2>1 DEF Frame
<1>3. DOMAIN frames = 1..Len(frames) /\ Len(frames) \in Nat
  BY <1>1
<1>4. ChangedOf(frames) \in Seq(Seq(Row)) /\ RemovedOf(frames) \in Seq(Seq(HashLen))
  BY <1>2, <1>3 DEF ChangedOf, RemovedOf
<1> QED BY <1>1, <1>4 DEF Lists

\* A flush makes a piece of either list, and is of something.
LEMMA FlushParts ==
  ASSUME FitInv, NoneEmpty, Buffered, frames' = Append(frames, Flushed)
  PROVE  /\ ChangedOf(frames') = Append(ChangedOf(frames), changed)
         /\ RemovedOf(frames') = Append(RemovedOf(frames), removed)
         /\ NoneEmpty'
<1>1. frames \in Seq(Frame) /\ wire \in Int
  BY DEF FitInv, ListsInv, SizeInv, Made
<1>2. Flushed \in Frame /\ Flushed.changed = changed /\ Flushed.removed = removed
  BY <1>1 DEF FitInv, ListsInv, Flushed, Frame
<1> DEFINE f == Flushed
<1> HIDE DEF f
<1>3. /\ frames' = Append(frames, f) /\ f \in Frame /\ f.changed = changed /\ f.removed = removed
  BY <1>2 DEF f
<1>4. /\ DOMAIN frames = 1..Len(frames) /\ Len(frames) \in Nat
      /\ DOMAIN frames' = 1..(Len(frames) + 1)
      /\ frames'[Len(frames) + 1] = f
      /\ \A i \in 1..Len(frames) : frames'[i] = frames[i]
  BY <1>1, <1>3
<1>5. ChangedOf(frames') = Append(ChangedOf(frames), changed)
  BY <1>3, <1>4 DEF ChangedOf
<1>6. RemovedOf(frames') = Append(RemovedOf(frames), removed)
  BY <1>3, <1>4 DEF RemovedOf
<1>7. NoneEmpty'
  BY <1>3, <1>4 DEF NoneEmpty, Buffered
<1> QED BY <1>5, <1>6, <1>7

\* So either list goes on.
LEMMA FlushGoesOn ==
  ASSUME FitInv, LossInv, verdict = "running", Buffered, frames' = Append(frames, Flushed)
  PROVE  /\ Underway(event.changed, ChangedOf(frames'), <<>>, left.changed)
         /\ Underway(event.removed, RemovedOf(frames'), <<>>, left.removed)
         /\ NoneEmpty'
<1>1. event.changed \in Seq(Row) /\ event.removed \in Seq(HashLen) /\ BothUnderway /\ NoneEmpty
  BY DEF LossInv, Lists
<1>2. Underway(event.changed, Append(ChangedOf(frames), changed), <<>>, left.changed)
  BY <1>1, PartsAre, UnderwayFlush DEF BothUnderway
<1>3. Underway(event.removed, Append(RemovedOf(frames), removed), <<>>, left.removed)
  BY <1>1, PartsAre, UnderwayFlush DEF BothUnderway
<1> QED BY <1>1, <1>2, <1>3, FlushParts

LEMMA InitLoses == DeltasInit => LossInv
<1> SUFFICES ASSUME DeltasInit PROVE LossInv
  OBVIOUS
<1>1. FitInv /\ left = event /\ changed = <<>> /\ removed = <<>> /\ frames = <<>> /\ verdict = "running"
  BY InitFits DEF DeltasInit
<1>2. event \in Lists
  BY <1>1 DEF FitInv, ListsInv
<1>3. event.changed \in Seq(Row) /\ event.removed \in Seq(HashLen)
  BY <1>2 DEF Lists
<1>4. ChangedOf(frames) = <<>> /\ RemovedOf(frames) = <<>>
  BY <1>1 DEF ChangedOf, RemovedOf
<1>5. BothUnderway
  BY <1>1, <1>3, <1>4, UnderwayInit DEF BothUnderway
<1>6. NoneEmpty
  BY <1>1 DEF NoneEmpty
<1> QED BY <1>1, <1>2, <1>5, <1>6 DEF LossInv

LEMMA StillLoses ==
  ASSUME LossInv, UNCHANGED <<event, left, changed, removed, frames>>,
         verdict' = verdict \/ verdict' = "failed"
  PROVE  LossInv'
  BY DEF LossInv, BothUnderway, NoneEmpty

LEMMA SplitChangedLoses == FitInv /\ LossInv /\ SplitChanged => LossInv'
<1> SUFFICES ASSUME FitInv, LossInv, SplitChanged PROVE LossInv'
  OBVIOUS
<1> DEFINE row == Head(left.changed)  rest == Tail(left.changed)
           len == RowBytes(row)
           flush == Full(len) /\ Buffered
<1>1. CASE len > Budget
  BY <1>1, StillLoses DEF SplitChanged
<1>2. CASE ~(len > Budget)
  <2>1. /\ frames'  = IF flush THEN Append(frames, Flushed) ELSE frames
        /\ changed' = IF flush THEN <<row>> ELSE Append(changed, row)
        /\ removed' = IF flush THEN <<>> ELSE removed
        /\ left'    = [left EXCEPT !.changed = Tail(@)]
        /\ verdict' = verdict /\ event' = event
    BY <1>2 DEF SplitChanged
  <2>2. verdict = "running" /\ left.changed # <<>> /\ left \in Lists
    BY DEF SplitChanged, FitInv, ListsInv
  <2>3. left'.changed = rest /\ left'.removed = left.removed
    BY <2>1, <2>2 DEF Lists
  <2>4. event.changed \in Seq(Row) /\ BothUnderway /\ NoneEmpty
    BY <2>2 DEF LossInv, Lists
  <2> HIDE DEF len
  <2>5. CASE flush
    <3>1. frames' = Append(frames, Flushed) /\ changed' = <<row>> /\ removed' = <<>>
      BY <2>1, <2>5
    <3>2. /\ Underway(event.changed, ChangedOf(frames'), <<>>, left.changed)
          /\ Underway(event.removed, RemovedOf(frames'), <<>>, left.removed)
          /\ NoneEmpty'
      BY <2>2, <2>5, <3>1, FlushGoesOn
    <3>3. <<>> \in Seq(Row) /\ Append(<<>>, row) = <<row>> /\ left.changed \in Seq(Row)
      BY PartsAre
    <3>4. Underway(event.changed, ChangedOf(frames'), Append(<<>>, row), rest)
      <4>1. <<>> \in Seq(Row) /\ left.changed \in Seq(Row)
        BY <3>3
      <4> QED BY <2>2, <2>4, <3>2, <4>1, UnderwayTake
    <3>5. Underway(event.changed, ChangedOf(frames'), changed', rest)
      BY <3>1, <3>3, <3>4
    <3> HIDE DEF rest
    <3> QED BY <2>1, <2>2, <2>3, <3>1, <3>2, <3>5 DEF LossInv, BothUnderway
  <2>6. CASE ~flush
    <3>1. frames' = frames /\ changed' = Append(changed, row) /\ removed' = removed
      BY <2>1, <2>6
    <3>2. Underway(event.changed, ChangedOf(frames), Append(changed, row), rest)
      <4>1. changed \in Seq(Row) /\ left.changed \in Seq(Row)
        BY PartsAre
      <4> QED BY <2>2, <2>4, <4>1, UnderwayTake DEF BothUnderway
    <3>3. NoneEmpty'
      BY <2>4, <3>1 DEF NoneEmpty
    <3> HIDE DEF rest
    <3> QED BY <2>1, <2>2, <2>3, <2>4, <3>1, <3>2, <3>3 DEF LossInv, BothUnderway
  <2> QED BY <2>5, <2>6
<1> QED BY <1>1, <1>2

LEMMA SplitRemovedLoses == FitInv /\ LossInv /\ SplitRemoved => LossInv'
<1> SUFFICES ASSUME FitInv, LossInv, SplitRemoved PROVE LossInv'
  OBVIOUS
<1> DEFINE len == Head(left.removed)  rest == Tail(left.removed)
           flush == Full(len + 16) /\ Buffered
<1>1. CASE len > LongestHash
  BY <1>1, StillLoses DEF SplitRemoved
<1>2. CASE ~(len > LongestHash)
  <2>1. /\ frames'  = IF flush THEN Append(frames, Flushed) ELSE frames
        /\ changed' = IF flush THEN <<>> ELSE changed
        /\ removed' = IF flush THEN <<len>> ELSE Append(removed, len)
        /\ left'    = [left EXCEPT !.removed = Tail(@)]
        /\ verdict' = verdict /\ event' = event
    BY <1>2 DEF SplitRemoved
  <2>2. verdict = "running" /\ left.removed # <<>> /\ left \in Lists
    BY DEF SplitRemoved, FitInv, ListsInv
  <2>3. left'.removed = rest /\ left'.changed = left.changed
    BY <2>1, <2>2 DEF Lists
  <2>4. event.removed \in Seq(HashLen) /\ BothUnderway /\ NoneEmpty
    BY <2>2 DEF LossInv, Lists
  <2>5. CASE flush
    <3>1. frames' = Append(frames, Flushed) /\ removed' = <<len>> /\ changed' = <<>>
      BY <2>1, <2>5
    <3>2. /\ Underway(event.changed, ChangedOf(frames'), <<>>, left.changed)
          /\ Underway(event.removed, RemovedOf(frames'), <<>>, left.removed)
          /\ NoneEmpty'
      BY <2>2, <2>5, <3>1, FlushGoesOn
    <3>3. <<>> \in Seq(HashLen) /\ Append(<<>>, len) = <<len>> /\ left.removed \in Seq(HashLen)
      BY PartsAre
    <3>4. Underway(event.removed, RemovedOf(frames'), Append(<<>>, len), rest)
      <4>1. <<>> \in Seq(HashLen) /\ left.removed \in Seq(HashLen)
        BY <3>3
      <4> QED BY <2>2, <2>4, <3>2, <4>1, UnderwayTake
    <3>5. Underway(event.removed, RemovedOf(frames'), removed', rest)
      BY <3>1, <3>3, <3>4
    <3> HIDE DEF rest
    <3> QED BY <2>1, <2>2, <2>3, <3>1, <3>2, <3>5 DEF LossInv, BothUnderway
  <2>6. CASE ~flush
    <3>1. frames' = frames /\ removed' = Append(removed, len) /\ changed' = changed
      BY <2>1, <2>6
    <3>2. Underway(event.removed, RemovedOf(frames), Append(removed, len), rest)
      <4>1. removed \in Seq(HashLen) /\ left.removed \in Seq(HashLen)
        BY PartsAre
      <4> QED BY <2>2, <2>4, <4>1, UnderwayTake DEF BothUnderway
    <3>3. NoneEmpty'
      BY <2>4, <3>1 DEF NoneEmpty
    <3> HIDE DEF rest
    <3> QED BY <2>1, <2>2, <2>3, <2>4, <3>1, <3>2, <3>3 DEF LossInv, BothUnderway
  <2> QED BY <2>5, <2>6
<1> QED BY <1>1, <1>2

LEMMA LastFlushLoses == FitInv /\ LossInv /\ LastFlush => LossInv'
<1> SUFFICES ASSUME FitInv, LossInv, LastFlush PROVE LossInv'
  OBVIOUS
<1>1. /\ verdict = "running" /\ left.changed = <<>> /\ left.removed = <<>>
      /\ frames' = IF Buffered THEN Append(frames, Flushed) ELSE frames
      /\ verdict' = "ok" /\ event' = event
  BY DEF LastFlush
<1>2. /\ event \in Lists /\ event.changed \in Seq(Row) /\ event.removed \in Seq(HashLen)
      /\ BothUnderway /\ NoneEmpty
  BY <1>1 DEF LossInv, Lists
<1>3. /\ Underway(event.changed, ChangedOf(frames'), <<>>, <<>>)
      /\ Underway(event.removed, RemovedOf(frames'), <<>>, <<>>)
      /\ NoneEmpty'
  <2>1. CASE Buffered
    BY <1>1, <2>1, FlushGoesOn
  <2>2. CASE ~Buffered
    BY <1>1, <1>2, <2>2 DEF Buffered, BothUnderway, NoneEmpty
  <2> QED BY <2>1, <2>2
<1>4. Pieces(event.changed, ChangedOf(frames')) /\ Pieces(event.removed, RemovedOf(frames'))
  BY <1>2, <1>3, UnderwayDone
<1> QED BY <1>1, <1>2, <1>3, <1>4 DEF LossInv

\* "A committed update must never silently disappear" (EncodeDeltas): a change
\* that is encoded at all is in the frames, all of it, in its order, and no
\* frame is empty.
THEOREM FramesHoldAll == DeltasSpec => []NothingIsLost
<1>1. DeltasInit => FitInv /\ LossInv
  BY InitFits, InitLoses
<1>2. FitInv /\ LossInv /\ [DeltasNext]_deltasVars => (FitInv /\ LossInv)'
  <2> SUFFICES ASSUME FitInv, LossInv, [DeltasNext]_deltasVars PROVE FitInv' /\ LossInv'
    OBVIOUS
  <2>1. FitInv'
    BY FitNext
  <2>2. CASE SplitChanged
    BY <2>1, <2>2, SplitChangedLoses
  <2>3. CASE SplitRemoved
    BY <2>1, <2>3, SplitRemovedLoses
  <2>4. CASE LastFlush
    BY <2>1, <2>4, LastFlushLoses
  <2>5. CASE FrameItem
    BY <2>1, <2>5, StillLoses DEF FrameItem
  <2>6. CASE UNCHANGED deltasVars
    BY <2>1, <2>6, StillLoses DEF deltasVars
  <2> QED
    BY <2>1, <2>2, <2>3, <2>4, <2>5, <2>6 DEF DeltasNext
<1>3. LossInv => NothingIsLost
  BY DEF LossInv, NothingIsLost, ChangedOf, RemovedOf, NoneEmpty
<1> QED
  BY <1>1, <1>2, <1>3, PTL DEF DeltasSpec

-----------------------------------------------------------------------------
(* Saturating sums.                                                        *)

\* Without negative numbers satAdd cuts at the top; with them at both ends.
LEMMA SatAddNat ==
  ASSUME NEW a \in 0..Top, NEW b \in 0..Top
  PROVE  satAdd(a, b) = AtMost(a + b) /\ satAdd(a, b) \in 0..Top
<1>1. Top \in Nat /\ a \in Nat /\ b \in Nat /\ a <= Top /\ b <= Top
  BY DashboardAssumption
<1>2. CASE b > 0 /\ a > Top - b
  BY <1>1, <1>2 DEF satAdd, AtMost
<1>3. CASE ~(b > 0 /\ a > Top - b)
  <2>1. a + b <= Top /\ ~(b < 0)
    BY <1>1, <1>3
  <2> QED
    BY <1>1, <1>3, <2>1 DEF satAdd, AtMost
<1> QED BY <1>2, <1>3

LEMMA SatAddInt ==
  ASSUME NEW a \in Int64, NEW b \in Int64
  PROVE  satAdd(a, b) = Clamped(a + b) /\ Clamped(a + b) \in Int
<1>1. Top \in Nat /\ a \in Int /\ b \in Int /\ a <= Top /\ b <= Top /\ a >= -Top - 1 /\ b >= -Top - 1
  BY DashboardAssumption DEF Int64
<1>2. CASE b > 0 /\ a > Top - b
  BY <1>1, <1>2 DEF satAdd, Clamped, AtMost
<1>3. CASE b < 0 /\ a < -Top - 1 - b
  BY <1>1, <1>3 DEF satAdd, Clamped, AtMost
<1>4. CASE ~(b > 0 /\ a > Top - b) /\ ~(b < 0 /\ a < -Top - 1 - b)
  <2>1. a + b <= Top /\ a + b >= -Top - 1
    BY <1>1, <1>4
  <2> QED
    BY <1>1, <1>4, <2>1 DEF satAdd, Clamped, AtMost
<1> QED BY <1>2, <1>3, <1>4

\* A sum that was cut and goes on is the sum, cut.
LEMMA CutTwice ==
  ASSUME NEW n \in Nat, NEW b \in 0..Top
  PROVE  satAdd(AtMost(n), b) = AtMost(n + b) /\ satAdd(AtMost(n), b) \in 0..Top
<1>1. Top \in Nat /\ b \in Nat
  BY DashboardAssumption
<1>2. AtMost(n) \in 0..Top
  BY <1>1 DEF AtMost
<1>3. AtMost(AtMost(n) + b) = AtMost(n + b)
  BY <1>1 DEF AtMost
<1> QED BY <1>2, <1>3, SatAddNat

\* A cut of a sum that is underway never leaves the two bounds: those that cut
\* the gains p or the losses n alone.
LEMMA BoundsHold ==
  ASSUME NEW a \in Int64, NEW b \in Int64, NEW p \in Nat, NEW n \in Nat, NEW q \in Nat, NEW m \in Nat,
         AtMost(p) - n <= a, a <= p - (IF n > Top + 1 THEN Top + 1 ELSE n),
         q = p + (IF b > 0 THEN b ELSE 0), m = n + (IF b < 0 THEN -b ELSE 0)
  PROVE  /\ satAdd(a, b) \in Int64
         /\ AtMost(q) - m <= satAdd(a, b)
         /\ satAdd(a, b) <= q - (IF m > Top + 1 THEN Top + 1 ELSE m)
<1>1. Top \in Nat /\ a \in Int /\ b \in Int /\ a <= Top /\ b <= Top /\ a >= -Top - 1 /\ b >= -Top - 1
  BY DashboardAssumption DEF Int64
<1>2. CASE b > 0
  <2>1. q = p + b /\ m = n
    BY <1>1, <1>2
  <2>2. satAdd(a, b) = IF a > Top - b THEN Top ELSE a + b
    BY <1>1, <1>2 DEF satAdd
  <2>3. satAdd(a, b) \in Int /\ -Top - 1 <= satAdd(a, b) /\ satAdd(a, b) <= Top
    BY <1>1, <1>2, <2>2
  <2>4. AtMost(q) - m <= satAdd(a, b)
    BY <1>1, <1>2, <2>1, <2>2 DEF AtMost
  <2>5. satAdd(a, b) <= q - (IF m > Top + 1 THEN Top + 1 ELSE m)
    BY <1>1, <1>2, <2>1, <2>2
  <2> QED BY <1>1, <2>3, <2>4, <2>5 DEF Int64
<1>3. CASE b < 0
  <2>1. q = p /\ m = n - b
    BY <1>1, <1>3
  <2>2. satAdd(a, b) = IF a < -Top - 1 - b THEN -Top - 1 ELSE a + b
    BY <1>1, <1>3 DEF satAdd
  <2>3. satAdd(a, b) \in Int /\ -Top - 1 <= satAdd(a, b) /\ satAdd(a, b) <= Top
    BY <1>1, <1>3, <2>2
  <2>4. AtMost(q) - m <= satAdd(a, b)
    BY <1>1, <1>3, <2>1, <2>2 DEF AtMost
  <2>5. satAdd(a, b) <= q - (IF m > Top + 1 THEN Top + 1 ELSE m)
    BY <1>1, <1>3, <2>1, <2>2
  <2> QED BY <1>1, <2>3, <2>4, <2>5 DEF Int64
<1>4. CASE b = 0
  <2>1. q = p /\ m = n /\ satAdd(a, b) = a
    BY <1>1, <1>4 DEF satAdd
  <2> QED BY <2>1
<1> QED BY <1>1, <1>2, <1>3, <1>4

-----------------------------------------------------------------------------
(* Sums of functions.                                                      *)

LEMMA SumOfNothing ==
  ASSUME NEW f, DOMAIN f = {}
  PROVE  IsFiniteSet(Units(f)) /\ SumOf(f) = 0
<1>1. Units(f) = {}
  BY DEF Units
<1> QED BY <1>1, FS_EmptySet DEF SumOf

\* One more element adds its value.
LEMMA SumOfOneMore ==
  ASSUME NEW S, NEW x, x \notin S, NEW f \in [S -> Nat], NEW g \in [S \cup {x} -> Nat],
         \A h \in S : g[h] = f[h], IsFiniteSet(Units(f))
  PROVE  IsFiniteSet(Units(g)) /\ SumOf(g) = SumOf(f) + g[x] /\ SumOf(f) \in Nat
<1> DEFINE U == {x} \X (1..g[x])
<1>1. Units(g) = Units(f) \cup U
  <2>1. Units(g) \subseteq Units(f) \cup U
    BY DEF Units
  <2>2. Units(f) \subseteq Units(g)
    <3> SUFFICES ASSUME NEW u \in Units(f) PROVE u \in Units(g)
      OBVIOUS
    <3>1. PICK h \in S : u \in {h} \X (1..f[h])
      BY DEF Units
    <3>2. u \in {h} \X (1..g[h]) /\ h \in DOMAIN g
      BY <3>1
    <3> QED BY <3>2 DEF Units
  <2>3. U \subseteq Units(g)
    BY DEF Units
  <2> QED BY <2>1, <2>2, <2>3
<1>2. Units(f) \cap U = {}
  <2>1. \A u \in Units(f) : u[1] \in S
    BY DEF Units
  <2>2. \A u \in U : u[1] = x
    OBVIOUS
  <2> QED BY <2>1, <2>2
<1>3. IsFiniteSet(U) /\ Cardinality(U) = g[x]
  <2>1. g[x] \in Nat
    OBVIOUS
  <2>2. IsFiniteSet(1..g[x]) /\ Cardinality(1..g[x]) = g[x]
    BY <2>1, FS_Interval
  <2>3. IsFiniteSet({x}) /\ Cardinality({x}) = 1
    BY FS_Singleton
  <2>4. ASSUME NEW A, NEW B, IsFiniteSet(A), IsFiniteSet(B)
        PROVE  IsFiniteSet(A \X B) /\ Cardinality(A \X B) = Cardinality(A) * Cardinality(B)
    BY <2>4, FS_Product
  <2>5. IsFiniteSet(U) /\ Cardinality(U) = Cardinality({x}) * Cardinality(1..g[x])
    BY <2>2, <2>3, <2>4
  <2> HIDE DEF U
  <2> QED BY <2>1, <2>2, <2>3, <2>5
<1>4. IsFiniteSet(Units(g)) /\ Cardinality(Units(g)) = Cardinality(Units(f)) + Cardinality(U) - Cardinality({})
  BY <1>1, <1>2, <1>3, FS_Union
<1>5. Cardinality({}) = 0 /\ Cardinality(Units(f)) \in Nat
  BY FS_EmptySet, FS_CardinalityType
<1>6. g[x] \in Nat
  OBVIOUS
<1> QED BY <1>3, <1>4, <1>5, <1>6 DEF SumOf

FiniteSums(f) == IsFiniteSet(Units(Gains(f))) /\ IsFiniteSet(Units(Losses(f)))

\* One more value, added with a cut, keeps a sum within its bounds.
LEMMA SaturatedOneMore ==
  ASSUME NEW S, NEW x, x \notin S, NEW f \in [S -> Int64], NEW g \in [S \cup {x} -> Int64],
         \A h \in S : g[h] = f[h], FiniteSums(f), NEW a, SaturatedSum(a, f)
  PROVE  FiniteSums(g) /\ SaturatedSum(satAdd(a, g[x]), g)
<1>1. /\ Top \in Nat /\ \A n \in Int64 : n \in Int
      /\ g[x] \in Int64 /\ g[x] \in Int
  BY DashboardAssumption DEF Int64
<1>2. /\ Gains(f) \in [S -> Nat] /\ Gains(g) \in [S \cup {x} -> Nat]
      /\ \A h \in S : Gains(g)[h] = Gains(f)[h]
      /\ Gains(g)[x] = IF g[x] > 0 THEN g[x] ELSE 0
  BY <1>1 DEF Gains
<1>3. /\ Losses(f) \in [S -> Nat] /\ Losses(g) \in [S \cup {x} -> Nat]
      /\ \A h \in S : Losses(g)[h] = Losses(f)[h]
      /\ Losses(g)[x] = IF g[x] < 0 THEN -g[x] ELSE 0
  BY <1>1 DEF Losses
<1>4. /\ IsFiniteSet(Units(Gains(g))) /\ SumOf(Gains(f)) \in Nat
      /\ SumOf(Gains(g)) = SumOf(Gains(f)) + Gains(g)[x]
  BY <1>2, SumOfOneMore DEF FiniteSums
<1>5. /\ IsFiniteSet(Units(Losses(g))) /\ SumOf(Losses(f)) \in Nat
      /\ SumOf(Losses(g)) = SumOf(Losses(f)) + Losses(g)[x]
  BY <1>3, SumOfOneMore DEF FiniteSums
<1>6. SumOf(Gains(g)) \in Nat /\ SumOf(Losses(g)) \in Nat
  BY <1>1, <1>2, <1>3, <1>4, <1>5
<1>7. SaturatedSum(satAdd(a, g[x]), g)
  <2>1. /\ a \in Int64 /\ AtMost(SumOf(Gains(f))) - SumOf(Losses(f)) <= a
        /\ a <= SumOf(Gains(f)) - (IF SumOf(Losses(f)) > Top + 1 THEN Top + 1 ELSE SumOf(Losses(f)))
    BY DEF SaturatedSum
  <2> QED BY <1>1, <1>2, <1>3, <1>4, <1>5, <1>6, <2>1, BoundsHold DEF SaturatedSum
<1> QED BY <1>4, <1>5, <1>7 DEF FiniteSums

\* One more element adds one to a count if it belongs.
LEMMA CountOneMore ==
  ASSUME NEW S, NEW T, NEW x, IsFiniteSet(S), x \notin S, NEW b \in BOOLEAN,
         T = IF b THEN S \cup {x} ELSE S
  PROVE  IsFiniteSet(T) /\ Cardinality(T) = Cardinality(S) + One(b) /\ Cardinality(S) \in Nat
<1>1. Cardinality(S) \in Nat
  BY FS_CardinalityType
<1>2. IsFiniteSet(S \cup {x}) /\ Cardinality(S \cup {x}) = Cardinality(S) + 1
  BY FS_AddElement
<1>3. CASE b
  BY <1>1, <1>2, <1>3 DEF One
<1>4. CASE ~b
  BY <1>1, <1>4 DEF One
<1> QED BY <1>3, <1>4

-----------------------------------------------------------------------------
(* The order of the list.                                                  *)

LEMMA SpeedIs ==
  ASSUME NEW h \in DOMAIN torrents, torrents[h] \in Torrent
  PROVE  /\ Speed(h) = Clamped(torrents[h].dl + torrents[h].up) /\ Speed(h) \in Int
         /\ torrents[h].name \in Nat
<1>1. torrents[h].dl \in Int64 /\ torrents[h].up \in Int64 /\ torrents[h].name \in Nat
  BY DashboardAssumption
<1> QED BY <1>1, SatAddInt DEF Speed

LEMMA FirstIsBefore ==
  ASSUME NEW g \in DOMAIN torrents, NEW h \in DOMAIN torrents,
         torrents[g] \in Torrent, torrents[h] \in Torrent
  PROVE  Before(g, h) => First(g, h)
<1>1. /\ Key(g)[1] = -Speed(g) /\ Key(h)[1] = -Speed(h)
      /\ Key(g)[2] = torrents[g].name /\ Key(h)[2] = torrents[h].name
      /\ Key(g)[3] = g /\ Key(h)[3] = h
  BY SpeedIs DEF Key
<1>2. Speed(g) \in Int /\ Speed(h) \in Int
  BY SpeedIs
<1>3. 1..(1 - 1) = {} /\ 1..(2 - 1) = {1} /\ 1..(3 - 1) = {1, 2} /\ 1..3 = {1, 2, 3}
  OBVIOUS
<1>4. CASE Speed(g) > Speed(h)
  <2>1. Key(g)[1] < Key(h)[1]
    BY <1>1, <1>2, <1>4
  <2> QED BY <1>3, <2>1 DEF First
<1>5. CASE Speed(g) = Speed(h) /\ torrents[g].name < torrents[h].name
  <2>1. Key(g)[1] = Key(h)[1] /\ Key(g)[2] < Key(h)[2]
    BY <1>1, <1>5
  <2> QED BY <1>3, <2>1 DEF First
<1>6. CASE Speed(g) = Speed(h) /\ torrents[g].name = torrents[h].name /\ g < h
  <2>1. Key(g)[1] = Key(h)[1] /\ Key(g)[2] = Key(h)[2] /\ Key(g)[3] < Key(h)[3]
    BY <1>1, <1>6
  <2> QED BY <1>3, <2>1 DEF First
<1> QED BY <1>4, <1>5, <1>6 DEF Before

\* Of two torrents one comes before the other.
LEMMA BeforeIsTotal ==
  ASSUME NEW g \in DOMAIN torrents, NEW h \in DOMAIN torrents, g # h, DOMAIN torrents \subseteq Hash,
         torrents[g] \in Torrent, torrents[h] \in Torrent
  PROVE  Before(g, h) \/ Before(h, g)
<1>1. /\ Speed(g) \in Int /\ Speed(h) \in Int /\ g \in Nat /\ h \in Nat
      /\ torrents[g].name \in Nat /\ torrents[h].name \in Nat
  BY SpeedIs, DashboardAssumption
<1> QED BY <1>1 DEF Before

-----------------------------------------------------------------------------
(* The pass. What has been computed is true of the torrents read so far.   *)

Read == DOMAIN torrents \ unread

DashTypeOK ==
  /\ torrents \in [DOMAIN torrents -> Torrent] /\ DOMAIN torrents \subseteq Hash
  /\ IsFiniteSet(DOMAIN torrents) /\ unread \subseteq DOMAIN torrents
  /\ counts \in [Counts -> Nat]
  /\ totals \in [size : Int64, completed : Int64, remaining : Int64]
  /\ cands \in Seq(Hash)

FiniteUnits ==
  /\ FiniteSums(Sizes(Read)) /\ FiniteSums(Completeds(Read))
  /\ IsFiniteSet(Units(Remainings(Read)))

\* The candidates are the transfers read so far, each once.
Enumerates ==
  /\ Len(cands) = Cardinality(Transferring(Read))
  /\ \A h \in Transferring(Read) : \E i \in DOMAIN cands : cands[i] = h
  /\ \A i \in DOMAIN cands : cands[i] \in Transferring(Read)
  /\ \A i, j \in DOMAIN cands : cands[i] = cands[j] => i = j

ListInv ==
  \/ Enumerates /\ active = <<>>
  \/ Ranked /\ Fastest(DOMAIN torrents)

DashInv == DashTypeOK /\ TotalsOf(Read) /\ FiniteUnits /\ CountsOf(Read) /\ ListInv

LEMMA DashInvInit == DashboardInit => DashInv
<1> SUFFICES ASSUME DashboardInit PROVE DashInv
  OBVIOUS
<1>1. PICK known \in SUBSET Hash : IsFiniteSet(known) /\ torrents \in [known -> Torrent]
  BY DEF DashboardInit
<1>2. Read = {} /\ Top \in Nat /\ 0 \in 0..Top
  BY DashboardAssumption DEF Read, DashboardInit
<1> USE DEF Int64
<1>3. DashTypeOK
  <2>1. /\ torrents \in [DOMAIN torrents -> Torrent] /\ DOMAIN torrents \subseteq Hash
        /\ IsFiniteSet(DOMAIN torrents)
    BY <1>1
  <2>2. counts \in [Counts -> Nat] /\ cands \in Seq(Hash) /\ unread = DOMAIN torrents
    BY DEF DashboardInit
  <2>3. totals \in [size : Int64, completed : Int64, remaining : Int64]
    BY <1>2 DEF DashboardInit
  <2> QED BY <2>1, <2>2, <2>3 DEF DashTypeOK
<1>4. TotalsOf(Read) /\ FiniteUnits
  <2>1. /\ DOMAIN Gains(Sizes({})) = {} /\ DOMAIN Losses(Sizes({})) = {}
        /\ DOMAIN Gains(Completeds({})) = {} /\ DOMAIN Losses(Completeds({})) = {}
        /\ DOMAIN Remainings({}) = {}
    BY DEF Sizes, Completeds, Remainings, Gains, Losses
  <2>2. AtMost(0) = 0 /\ 0 \in Int64
    BY <1>2 DEF AtMost
  <2>3. totals.size = 0 /\ totals.completed = 0 /\ totals.remaining = 0
    BY DEF DashboardInit
  <2>4. FiniteUnits
    BY <1>2, <2>1, SumOfNothing DEF FiniteUnits, FiniteSums
  <2>5. /\ SumOf(Gains(Sizes({}))) = 0 /\ SumOf(Losses(Sizes({}))) = 0
        /\ SumOf(Gains(Completeds({}))) = 0 /\ SumOf(Losses(Completeds({}))) = 0
        /\ SumOf(Remainings({})) = 0
    BY <2>1, SumOfNothing
  <2>6. SaturatedSum(0, Sizes({})) /\ SaturatedSum(0, Completeds({}))
    BY <1>2, <2>2, <2>5 DEF SaturatedSum
  <2> QED BY <1>2, <2>2, <2>3, <2>4, <2>5, <2>6 DEF TotalsOf
<1>5. CountsOf(Read)
  <2>1. Transferring({}) = {} /\ Cardinality({}) = 0
    BY FS_EmptySet DEF Transferring
  <2>2. {h \in {} : torrents[h].done} = {} /\ \A s : {h \in {} : torrents[h].state = s} = {}
    OBVIOUS
  <2>3. \A c \in Counts : counts[c] = 0
    BY DEF DashboardInit
  <2> QED BY <1>2, <2>1, <2>2, <2>3 DEF CountsOf, Counts
<1>6. ListInv
  <2>1. cands = <<>> /\ Len(cands) = 0 /\ DOMAIN cands = {} /\ active = <<>>
    BY DEF DashboardInit
  <2>2. Transferring(Read) = {} /\ Cardinality({}) = 0
    BY <1>2, FS_EmptySet DEF Transferring
  <2> QED BY <2>1, <2>2 DEF ListInv, Enumerates
<1> QED BY <1>3, <1>4, <1>5, <1>6 DEF DashInv

\* One torrent that is read.
LEMMA ReadOne ==
  ASSUME DashInv, NEW h \in unread, unread' = unread \ {h}, torrents' = torrents
  PROVE  /\ Read' = Read \cup {h} /\ h \notin Read /\ h \in DOMAIN torrents
         /\ torrents[h] \in Torrent /\ IsFiniteSet(Read)
         /\ Read \subseteq DOMAIN torrents
<1>1. Read' = Read \cup {h} /\ h \notin Read /\ h \in DOMAIN torrents /\ Read \subseteq DOMAIN torrents
  BY DEF DashInv, DashTypeOK, Read
<1>2. torrents[h] \in Torrent /\ IsFiniteSet(Read)
  BY <1>1, FS_Subset DEF DashInv, DashTypeOK
<1> QED BY <1>1, <1>2

\* What Count does, for the torrent it takes.
Counted(h) ==
  LET t == torrents[h] IN
  /\ unread' = unread \ {h}
  /\ counts' = [c \in Counts |-> counts[c] +
                  One(c = "total" \/ c = t.state \/ (c = "completed" /\ t.done)
                        \/ (c = "active" /\ Transfers(t)))]
  /\ totals' = [size      |-> satAdd(totals.size, t.size),
                completed |-> satAdd(totals.completed, t.completed),
                remaining |-> IF t.size > t.completed
                                THEN satAdd(totals.remaining, satAdd(t.size, Negated(t.completed)))
                                ELSE totals.remaining]
  /\ cands' = IF Transfers(t) THEN Append(cands, h) ELSE cands
  /\ UNCHANGED <<torrents, active>>

\* What a torrent adds to what remains: its bytes that are missing, cut.
LEMMA RemainingOfOne ==
  ASSUME NEW sz \in Int64, NEW got \in Int64
  PROVE  /\ satAdd(sz, Negated(got)) \in Int64
         /\ got # -Top - 1 /\ sz > got =>
              satAdd(sz, Negated(got)) = AtMost(sz - got) /\ sz - got \in Nat
<1>1. /\ Top \in Nat /\ sz \in Int /\ got \in Int
      /\ sz <= Top /\ got <= Top /\ sz >= -Top - 1 /\ got >= -Top - 1
  BY DashboardAssumption DEF Int64
<1>2. Negated(got) \in Int64
  BY <1>1 DEF Negated, Int64
<1>3. satAdd(sz, Negated(got)) = Clamped(sz + Negated(got))
  BY <1>2, SatAddInt
<1>4. Negated(got) \in Int
  BY <1>1 DEF Negated
<1>5. satAdd(sz, Negated(got)) \in Int64
  BY <1>1, <1>3, <1>4 DEF Clamped, AtMost, Int64
<1>6. ASSUME got # -Top - 1, sz > got
      PROVE  satAdd(sz, Negated(got)) = AtMost(sz - got) /\ sz - got \in Nat
  <2>1. sz + Negated(got) = sz - got /\ sz - got > 0
    BY <1>1, <1>6 DEF Negated
  <2> QED BY <1>1, <1>3, <2>1 DEF Clamped, AtMost
<1> QED BY <1>5, <1>6

LEMMA CountTotals ==
  ASSUME DashInv, NEW h \in unread, Counted(h)
  PROVE  /\ TotalsOf(Read)' /\ FiniteUnits'
         /\ totals' \in [size : Int64, completed : Int64, remaining : Int64]
<1> DEFINE t == torrents[h]
<1>1. /\ Read' = Read \cup {h} /\ h \notin Read /\ t \in Torrent /\ Read \subseteq DOMAIN torrents
      /\ torrents' = torrents
  BY ReadOne DEF Counted
<1>2. /\ Top \in Nat /\ t.size \in Int64 /\ t.completed \in Int64
      /\ \A x \in Read : torrents[x].size \in Int64 /\ torrents[x].completed \in Int64
  BY <1>1, DashboardAssumption DEF DashInv, DashTypeOK
<1>3. /\ Sizes(Read) \in [Read -> Int64] /\ Completeds(Read) \in [Read -> Int64]
      /\ Sizes(Read)' \in [Read \cup {h} -> Int64] /\ Completeds(Read)' \in [Read \cup {h} -> Int64]
      /\ Sizes(Read)'[h] = t.size /\ Completeds(Read)'[h] = t.completed
      /\ \A x \in Read : /\ Sizes(Read)'[x] = Sizes(Read)[x]
                         /\ Completeds(Read)'[x] = Completeds(Read)[x]
  BY <1>1, <1>2 DEF Sizes, Completeds
<1>4. totals'.size = satAdd(totals.size, t.size) /\ totals'.completed = satAdd(totals.completed, t.completed)
  BY DEF Counted
<1>5. /\ SaturatedSum(totals.size, Sizes(Read)) /\ SaturatedSum(totals.completed, Completeds(Read))
      /\ FiniteSums(Sizes(Read)) /\ FiniteSums(Completeds(Read))
      /\ IsFiniteSet(Units(Remainings(Read)))
      /\ Ordinary(Read) => totals.remaining = AtMost(SumOf(Remainings(Read)))
      /\ totals.remaining \in Int64
  BY DEF DashInv, TotalsOf, FiniteUnits
<1>6. FiniteSums(Sizes(Read)') /\ SaturatedSum(totals'.size, Sizes(Read)')
  BY <1>1, <1>3, <1>4, <1>5, SaturatedOneMore
<1>7. FiniteSums(Completeds(Read)') /\ SaturatedSum(totals'.completed, Completeds(Read)')
  BY <1>1, <1>3, <1>4, <1>5, SaturatedOneMore
<1>8. /\ Remainings(Read) \in [Read -> Nat] /\ Remainings(Read)' \in [Read \cup {h} -> Nat]
      /\ Remainings(Read)'[h] = IF t.size > t.completed THEN t.size - t.completed ELSE 0
      /\ \A x \in Read : Remainings(Read)'[x] = Remainings(Read)[x]
  <2>1. \A n \in Int64 : n \in Int
    BY <1>2 DEF Int64
  <2>2. \A x \in Read \cup {h} : torrents[x].size \in Int /\ torrents[x].completed \in Int
    BY <1>2, <2>1
  <2> QED BY <1>1, <2>2 DEF Remainings
<1>9. /\ IsFiniteSet(Units(Remainings(Read)')) /\ SumOf(Remainings(Read)) \in Nat
      /\ SumOf(Remainings(Read)') = SumOf(Remainings(Read)) + Remainings(Read)'[h]
  <2>1. ASSUME NEW f \in [Read -> Nat], NEW g \in [Read \cup {h} -> Nat],
               \A x \in Read : g[x] = f[x], IsFiniteSet(Units(f))
        PROVE  /\ IsFiniteSet(Units(g)) /\ SumOf(f) \in Nat
               /\ SumOf(g) = SumOf(f) + g[h]
    BY <1>1, <2>1, SumOfOneMore
  <2> QED BY <1>5, <1>8, <2>1
<1>10. totals'.remaining \in Int64
  <2>1. ASSUME NEW b \in Int64 PROVE satAdd(totals.remaining, b) \in Int64
    <3>1. satAdd(totals.remaining, b) = Clamped(totals.remaining + b) /\ totals.remaining + b \in Int
      BY <1>2, <1>5, <2>1, SatAddInt DEF Int64
    <3> QED BY <1>2, <3>1 DEF Clamped, AtMost, Int64
  <2> QED BY <1>2, <1>5, <2>1, RemainingOfOne DEF Counted
<1>11. ASSUME Ordinary(Read)' PROVE totals'.remaining = AtMost(SumOf(Remainings(Read)'))
  <2>1. t.completed # -Top - 1 /\ Ordinary(Read)
    BY <1>1, <1>11 DEF Ordinary
  <2>2. totals.remaining = AtMost(SumOf(Remainings(Read)))
    BY <1>5, <2>1
  <2>3. CASE t.size > t.completed
    <3> DEFINE b == t.size - t.completed
               n == SumOf(Remainings(Read))
    <3>1. satAdd(t.size, Negated(t.completed)) = AtMost(b) /\ b \in Nat
      BY <1>2, <2>1, <2>3, RemainingOfOne
    <3>2. totals'.remaining = satAdd(AtMost(n), AtMost(b))
      BY <2>2, <2>3, <3>1 DEF Counted
    <3>3. SumOf(Remainings(Read)') = n + b
      BY <1>8, <1>9, <2>3
    <3>4. n \in Nat
      BY <1>9
    <3> HIDE DEF b, n
    <3>5. AtMost(b) \in 0..Top /\ AtMost(n + AtMost(b)) = AtMost(n + b)
      BY <1>2, <3>1, <3>4 DEF AtMost
    <3> QED BY <3>2, <3>3, <3>4, <3>5, CutTwice
  <2>4. CASE ~(t.size > t.completed)
    <3>1. SumOf(Remainings(Read)') = SumOf(Remainings(Read))
      BY <1>8, <1>9, <2>4
    <3> QED BY <2>2, <2>4, <3>1 DEF Counted
  <2> QED BY <2>3, <2>4
<1>12. totals' = [size |-> totals'.size, completed |-> totals'.completed, remaining |-> totals'.remaining]
  BY DEF Counted
<1>13. totals'.size \in Int64 /\ totals'.completed \in Int64
  BY <1>6, <1>7 DEF SaturatedSum
<1>14. totals' \in [size : Int64, completed : Int64, remaining : Int64]
  BY <1>10, <1>12, <1>13
<1>15. FiniteUnits'
  BY <1>6, <1>7, <1>9 DEF FiniteUnits, FiniteSums, Units, Gains, Losses
<1>16. TotalsOf(Read)'
  <2>1. SaturatedSum(totals.size, Sizes(Read))' /\ SaturatedSum(totals.completed, Completeds(Read))'
    BY <1>6, <1>7 DEF SaturatedSum, SumOf, Units, Gains, Losses, AtMost, Int64
  <2>2. (totals.remaining \in Int64)'
    BY <1>10 DEF Int64
  <2>3. (Ordinary(Read) => totals.remaining = AtMost(SumOf(Remainings(Read))))'
    BY <1>11 DEF Ordinary, AtMost, SumOf, Units
  <2> QED BY <2>1, <2>2, <2>3 DEF TotalsOf
<1> QED BY <1>14, <1>15, <1>16

LEMMA CountCounts ==
  ASSUME DashInv, NEW h \in unread, Counted(h)
  PROVE  CountsOf(Read)' /\ counts' \in [Counts -> Nat]
<1> DEFINE t == torrents[h]
<1>1. /\ Read' = Read \cup {h} /\ h \notin Read /\ IsFiniteSet(Read) /\ t \in Torrent
      /\ torrents' = torrents
  BY ReadOne DEF Counted
<1>2. t.state \in Shown \cup {"other"} /\ t.done \in BOOLEAN /\ Transfers(t) \in BOOLEAN
  BY <1>1, DashboardAssumption DEF Transfers
<1>3. \A c \in Counts : counts'[c] = counts[c] +
         One(c = "total" \/ c = t.state \/ (c = "completed" /\ t.done) \/ (c = "active" /\ Transfers(t)))
  BY DEF Counted
<1>4. counts' \in [Counts -> Nat]
  <2>1. counts \in [Counts -> Nat] /\ \A b : One(b) \in {0, 1}
    BY DEF DashInv, DashTypeOK, One
  <2> QED BY <2>1 DEF Counted
<1>5. ASSUME NEW S \in SUBSET Read, NEW b \in BOOLEAN
      PROVE  /\ IsFiniteSet(S) /\ h \notin S
             /\ Cardinality(IF b THEN S \cup {h} ELSE S) = Cardinality(S) + One(b)
  <2>1. IsFiniteSet(S) /\ h \notin S
    BY <1>1, FS_Subset
  <2> QED BY <2>1, CountOneMore
<1>6. counts'["total"] = Cardinality(Read)'
  <2>1. counts'["total"] = counts["total"] + One(TRUE)
    BY <1>3 DEF Counts
  <2> QED BY <1>1, <1>5, <2>1 DEF DashInv, CountsOf
<1>7. counts'["active"] = Cardinality(Transferring(Read))'
  <2>1. counts'["active"] = counts["active"] + One(Transfers(t))
    <3>1. "active" \in Counts /\ "active" # "total" /\ "active" # "completed" /\ t.state # "active"
      BY <1>2 DEF Counts, Shown
    <3>2. (\/ "active" = "total" \/ "active" = t.state \/ ("active" = "completed" /\ t.done)
           \/ ("active" = "active" /\ Transfers(t))) = Transfers(t)
      BY <1>2, <3>1
    <3> QED BY <1>3, <3>1, <3>2
  <2>2. Transferring(Read)' = IF Transfers(t) THEN Transferring(Read) \cup {h} ELSE Transferring(Read)
    BY <1>1 DEF Transferring, Transfers
  <2>3. Transferring(Read) \subseteq Read
    BY DEF Transferring
  <2>4. Cardinality(IF Transfers(t) THEN Transferring(Read) \cup {h} ELSE Transferring(Read)) = Cardinality(Transferring(Read)) + One(Transfers(t))
    BY <1>2, <1>5, <2>3
  <2> QED BY <2>1, <2>2, <2>4 DEF DashInv, CountsOf
<1>8. counts'["completed"] = Cardinality({x \in Read : torrents[x].done})'
  <2> DEFINE D == {x \in Read : torrents[x].done}
  <2>1. counts'["completed"] = counts["completed"] + One(t.done)
    <3>1. "completed" \in Counts /\ "completed" # "total" /\ "active" # "completed" /\ t.state # "completed"
      BY <1>2 DEF Counts, Shown
    <3> QED BY <1>2, <1>3, <3>1
  <2>2. D' = IF t.done THEN D \cup {h} ELSE D
    BY <1>1
  <2>3. Cardinality(IF t.done THEN D \cup {h} ELSE D) = Cardinality(D) + One(t.done)
    BY <1>2, <1>5
  <2> QED BY <2>1, <2>2, <2>3 DEF DashInv, CountsOf
<1>9. ASSUME NEW s \in Shown
      PROVE  counts'[s] = Cardinality({x \in Read' : torrents'[x].state = s})
  <2> DEFINE D == {x \in Read : torrents[x].state = s}
  <2>1. counts'[s] = counts[s] + One(t.state = s)
    <3>1. s \in Counts /\ s # "total" /\ s # "completed" /\ s # "active"
      BY DEF Counts, Shown
    <3> QED BY <1>3, <3>1
  <2>2. {x \in Read' : torrents'[x].state = s} = IF t.state = s THEN D \cup {h} ELSE D
    BY <1>1
  <2>3. Cardinality(IF t.state = s THEN D \cup {h} ELSE D) = Cardinality(D) + One(t.state = s)
    BY <1>5
  <2> QED BY <2>1, <2>2, <2>3 DEF DashInv, CountsOf
<1> QED BY <1>4, <1>6, <1>7, <1>8, <1>9 DEF CountsOf

LEMMA CountList ==
  ASSUME DashInv, NEW h \in unread, Counted(h)
  PROVE  ListInv' /\ cands' \in Seq(Hash)
<1> DEFINE t == torrents[h]
<1>1. /\ Read' = Read \cup {h} /\ h \notin Read /\ IsFiniteSet(Read) /\ h \in DOMAIN torrents
      /\ torrents' = torrents
  BY ReadOne DEF Counted
<1>2. Enumerates /\ active = <<>> /\ active' = <<>> /\ cands \in Seq(Hash) /\ h \in Hash
  BY <1>1 DEF DashInv, DashTypeOK, ListInv, Ranked, Counted
<1>3. Transferring(Read)' = IF Transfers(t) THEN Transferring(Read) \cup {h} ELSE Transferring(Read)
  BY <1>1 DEF Transferring, Transfers
<1>4. CASE ~Transfers(t)
  <2>1. cands' = cands /\ Transferring(Read)' = Transferring(Read)
    BY <1>3, <1>4 DEF Counted
  <2> QED BY <1>2, <2>1 DEF ListInv, Enumerates
<1>5. CASE Transfers(t)
  <2>1. cands' = Append(cands, h)
    BY <1>5 DEF Counted
  <2>2. /\ cands' \in Seq(Hash) /\ Len(cands') = Len(cands) + 1 /\ Len(cands) \in Nat
        /\ DOMAIN cands = 1..Len(cands) /\ DOMAIN cands' = 1..(Len(cands) + 1)
        /\ \A i \in DOMAIN cands : cands'[i] = cands[i]
        /\ cands'[Len(cands) + 1] = h
    BY <1>2, <2>1
  <2>3. h \notin Transferring(Read) /\ IsFiniteSet(Transferring(Read))
    <3>1. Transferring(Read) \subseteq Read
      BY DEF Transferring
    <3> QED BY <1>1, <3>1, FS_Subset
  <2>4. Cardinality(Transferring(Read) \cup {h}) = Cardinality(Transferring(Read)) + 1
    BY <2>3, FS_AddElement
  <2>5. Len(cands') = Cardinality(Transferring(Read)')
    BY <1>2, <1>3, <1>5, <2>2, <2>4 DEF Enumerates
  <2>6. \A i \in DOMAIN cands' : i \in DOMAIN cands \/ i = Len(cands) + 1
    BY <2>2
  <2>7. \A x \in Transferring(Read)' : \E i \in DOMAIN cands' : cands'[i] = x
    <3>1. ASSUME NEW x \in Transferring(Read) PROVE \E i \in DOMAIN cands' : cands'[i] = x
      <4>1. PICK i \in DOMAIN cands : cands[i] = x
        BY <1>2, <3>1 DEF Enumerates
      <4> QED BY <2>2, <4>1
    <3>2. Len(cands) + 1 \in DOMAIN cands'
      BY <2>2
    <3> QED BY <1>3, <1>5, <2>2, <3>1, <3>2
  <2>8. \A i \in DOMAIN cands' : cands'[i] \in Transferring(Read)'
    BY <1>2, <1>3, <1>5, <2>2, <2>6 DEF Enumerates
  <2>9. \A i, j \in DOMAIN cands' : cands'[i] = cands'[j] => i = j
    <3>1. \A i \in DOMAIN cands : cands[i] # h
      BY <1>2, <2>3 DEF Enumerates
    <3> QED BY <1>2, <2>2, <2>6, <3>1 DEF Enumerates
  <2>10. Enumerates'
    BY <2>5, <2>7, <2>8, <2>9 DEF Enumerates
  <2> QED BY <1>2, <2>2, <2>10 DEF ListInv
<1> QED BY <1>4, <1>5

-----------------------------------------------------------------------------
(* The list. Whoever stands before another in the sorted candidates comes  *)
(* first, so the list is the beginning of the order.                       *)

\* The library's promise, of a permutation p of the candidates.
Sorts(p) ==
  /\ p \in Bijection(DOMAIN cands, DOMAIN cands)
  /\ \A i, j \in DOMAIN cands : i < j => ~Before(cands[p[j]], cands[p[i]])

LEMMA SortedIsFirst ==
  ASSUME DashInv, Enumerates, NEW p, Sorts(p), NEW i \in DOMAIN cands, NEW j \in DOMAIN cands, i < j
  PROVE  First(cands[p[i]], cands[p[j]])
<1>1. /\ p \in [DOMAIN cands -> DOMAIN cands] /\ \A x, y \in DOMAIN cands : p[x] = p[y] => x = y
  BY DEF Sorts, Bijection, Injection, IsInjective
<1>2. p[i] \in DOMAIN cands /\ p[j] \in DOMAIN cands /\ i # j /\ p[i] # p[j]
  <2>1. DOMAIN cands \subseteq Int
    BY DEF DashInv, DashTypeOK
  <2>2. i # j
    BY <2>1
  <2> QED BY <1>1, <2>2
<1>3. cands[p[i]] # cands[p[j]]
  BY <1>2 DEF Enumerates
<1>4. \A x \in DOMAIN cands : cands[x] \in DOMAIN torrents /\ torrents[cands[x]] \in Torrent
  BY DEF DashInv, DashTypeOK, Enumerates, Transferring, Read
<1>5. ~Before(cands[p[j]], cands[p[i]]) /\ DOMAIN torrents \subseteq Hash
  BY DEF Sorts, DashInv, DashTypeOK
<1>6. Before(cands[p[i]], cands[p[j]])
  BY <1>2, <1>3, <1>4, <1>5, BeforeIsTotal
<1> QED BY <1>2, <1>4, <1>6, FirstIsBefore

LEMMA RankList ==
  ASSUME DashInv, Rank
  PROVE  Fastest(DOMAIN torrents)'
<1> DEFINE n == Len(cands)  m == IF n > ActiveListCap THEN ActiveListCap ELSE n
<1>1. Enumerates /\ Read = DOMAIN torrents /\ torrents' = torrents
  BY DEF DashInv, ListInv, Ranked, Rank, Read
<1>2. PICK p \in Bijection(DOMAIN cands, DOMAIN cands) :
        /\ Sorts(p)
        /\ active' = IF n > ActiveListCap
                       THEN SubSeq([i \in DOMAIN cands |-> cands[p[i]]], 1, ActiveListCap)
                       ELSE [i \in DOMAIN cands |-> cands[p[i]]]
  <2>1. PICK p \in Bijection(DOMAIN cands, DOMAIN cands) :
          LET sorted == [i \in DOMAIN cands |-> cands[p[i]]] IN
          /\ \A i, j \in DOMAIN cands : i < j => ~Before(sorted[j], sorted[i])
          /\ active' = IF n > ActiveListCap THEN SubSeq(sorted, 1, ActiveListCap) ELSE sorted
    BY DEF Rank
  <2> QED BY <2>1 DEF Sorts
<1>3. /\ n \in Nat /\ DOMAIN cands = 1..n /\ ActiveListCap \in Nat /\ m \in Nat /\ m <= n
      /\ cands \in Seq(Hash)
  BY DashboardAssumption DEF DashInv, DashTypeOK
<1>4. /\ p \in [1..n -> 1..n] /\ \A y \in 1..n : \E x \in 1..n : p[x] = y
  BY <1>3 DEF Bijection, Surjection, Injection
<1>5. DOMAIN active' = 1..m /\ Len(active') = m /\ \A i \in 1..m : active'[i] = cands[p[i]]
  <2> DEFINE sorted == [i \in 1..n |-> cands[p[i]]]
  <2>1. sorted \in Seq(Hash) /\ Len(sorted) = n
    <3>1. \A i \in 1..n : cands[p[i]] \in Hash
      BY <1>3, <1>4
    <3> QED BY <1>3, <3>1
  <2>2. CASE n > ActiveListCap
    <3>1. active' = SubSeq(sorted, 1, m)
      BY <1>2, <1>3, <2>2
    <3>2. Len(SubSeq(sorted, 1, m)) = m /\ \A i \in 1..m : SubSeq(sorted, 1, m)[i] = sorted[i]
      BY <1>3, <2>1
    <3>3. DOMAIN SubSeq(sorted, 1, m) = 1..m
      BY <1>3, <2>1
    <3> QED BY <1>3, <3>1, <3>2, <3>3
  <2>3. CASE ~(n > ActiveListCap)
    BY <1>2, <1>3, <2>1, <2>3
  <2> QED BY <2>2, <2>3
<1>6. /\ Transferring(DOMAIN torrents)' = Transferring(DOMAIN torrents) /\ Len(cands) = Cardinality(Transferring(DOMAIN torrents))
  BY <1>1 DEF Transferring, Enumerates
<1>7. \A i \in 1..m : i \in 1..n /\ p[i] \in 1..n
  <2>1. \A i \in 1..m : i \in 1..n
    BY <1>3
  <2> QED BY <1>4, <2>1
<1> DEFINE listed == {active'[i] : i \in DOMAIN active'}
<1>8. listed \subseteq Transferring(DOMAIN torrents)
  BY <1>1, <1>3, <1>5, <1>7 DEF Enumerates
<1>9. \A i, j \in DOMAIN active' : i < j => First(active'[i], active'[j])
  BY <1>1, <1>2, <1>3, <1>5, <1>7, SortedIsFirst
<1>10. \A g \in listed, h \in Transferring(DOMAIN torrents) \ listed : First(g, h)
  <2> SUFFICES ASSUME NEW g \in listed, NEW h \in Transferring(DOMAIN torrents), h \notin listed
               PROVE  First(g, h)
    OBVIOUS
  <2>1. PICK i \in 1..m : g = cands[p[i]]
    BY <1>5
  <2>2. PICK y \in 1..n : cands[y] = h
    BY <1>1, <1>3 DEF Enumerates
  <2>3. PICK j \in 1..n : p[j] = y
    BY <1>4, <2>2
  <2>4. j \notin 1..m
    BY <1>5, <2>2, <2>3
  <2>5. i < j
    BY <1>3, <2>1, <2>3, <2>4
  <2> QED BY <1>1, <1>2, <1>3, <1>7, <2>1, <2>2, <2>3, <2>5, SortedIsFirst
<1>11. \A g, h : First(g, h)' <=> First(g, h)
  BY <1>1 DEF First, Key, Clamped, AtMost
<1> QED BY <1>5, <1>6, <1>8, <1>9, <1>10, <1>11 DEF Fastest

LEMMA DashInvNext == DashInv /\ [DashboardNext]_dashVars => DashInv'
<1> SUFFICES ASSUME DashInv, [DashboardNext]_dashVars PROVE DashInv'
  OBVIOUS
<1>1. CASE Count
  <2>1. PICK h \in unread : Counted(h)
    BY <1>1 DEF Count, Counted
  <2>2. torrents' = torrents /\ unread' \subseteq unread
    BY <2>1 DEF Counted
  <2>3. DashTypeOK'
    BY <2>1, <2>2, CountTotals, CountCounts, CountList DEF DashInv, DashTypeOK
  <2> QED BY <2>1, <2>3, CountTotals, CountCounts, CountList DEF DashInv
<1>2. CASE Rank
  <2>1. UNCHANGED <<torrents, unread, counts, totals>> /\ cands' = <<>> /\ unread = {}
    BY <1>2 DEF Rank
  <2>2. DashTypeOK'
    BY <2>1 DEF DashInv, DashTypeOK
  <2>3. TotalsOf(Read)' /\ FiniteUnits' /\ CountsOf(Read)'
    BY <2>1 DEF DashInv, TotalsOf, FiniteUnits, CountsOf, Read, Sizes, Completeds, Remainings, Transferring, FiniteSums, Ordinary
  <2>4. ListInv'
    BY <1>2, <2>1, RankList DEF ListInv, Ranked
  <2> QED BY <2>2, <2>3, <2>4 DEF DashInv
<1>3. CASE UNCHANGED dashVars
  <2>1. UNCHANGED <<torrents, unread, counts, totals, cands, active>>
    BY <1>3 DEF dashVars
  <2>2. DashTypeOK' /\ Read' = Read
    BY <2>1 DEF DashInv, DashTypeOK, Read
  <2>3. TotalsOf(Read)' /\ FiniteUnits' /\ CountsOf(Read)'
    BY <2>1 DEF DashInv, TotalsOf, FiniteUnits, CountsOf, Read, Sizes, Completeds, Remainings, Transferring, FiniteSums, Ordinary
  <2>4. Enumerates' <=> Enumerates
    BY <2>1, <2>2 DEF Enumerates, Transferring
  <2>5. Fastest(DOMAIN torrents)' <=> Fastest(DOMAIN torrents)
    BY <2>1 DEF Fastest, First, Key, Transferring
  <2>6. ListInv'
    BY <2>1, <2>4, <2>5 DEF DashInv, ListInv, Ranked
  <2> QED BY <2>2, <2>3, <2>6 DEF DashInv
<1> QED BY <1>1, <1>2, <1>3 DEF DashboardNext

\* The numbers of the dashboard are those of the committed state, for any
\* number of torrents, in whatever order the map yields them, whatever int64
\* the backend reported of each and however far their sums exceed one
\* (dashboard.go:68-129).
THEOREM TheDashboardIsTrue == DashboardSpec => []AggregateIsTrue
<1>1. DashInv => AggregateIsTrue
  <2> SUFFICES ASSUME DashInv, Ranked
               PROVE  TotalsOf(DOMAIN torrents) /\ CountsOf(DOMAIN torrents) /\ Fastest(DOMAIN torrents)
    BY DEF AggregateIsTrue
  <2>1. Read = DOMAIN torrents
    BY DEF Read, Ranked
  <2>2. CASE Enumerates /\ active = <<>>
    <3>1. Len(cands) = 0 /\ DOMAIN cands = {}
      BY DEF Ranked
    <3>2. Transferring(DOMAIN torrents) = {} /\ Cardinality({}) = 0
      BY <2>1, <2>2, <3>1, FS_EmptySet DEF Enumerates
    <3>3. DOMAIN active = {} /\ Len(active) = 0 /\ ActiveListCap \in Nat
      BY <2>2, DashboardAssumption
    <3>4. {active[i] : i \in DOMAIN active} = {} /\ ~(0 > ActiveListCap)
      BY <3>3
    <3>5. Fastest(DOMAIN torrents)
      BY <3>2, <3>3, <3>4 DEF Fastest
    <3> QED BY <2>1, <3>5 DEF DashInv
  <2>3. CASE Ranked /\ Fastest(DOMAIN torrents)
    BY <2>1, <2>3 DEF DashInv
  <2> QED BY <2>2, <2>3 DEF DashInv, ListInv
<1> QED BY <1>1, DashInvInit, DashInvNext, PTL DEF DashboardSpec

-----------------------------------------------------------------------------
(* The candidates can be sorted: put each behind as many as are less.      *)

LEMMA BeforeIsStrict ==
  ASSUME NEW f \in DOMAIN torrents, NEW g \in DOMAIN torrents, NEW h \in DOMAIN torrents,
         DOMAIN torrents \subseteq Hash, \A x \in DOMAIN torrents : torrents[x] \in Torrent
  PROVE  ~Before(f, f) /\ (Before(f, g) /\ Before(g, h) => Before(f, h))
<1>1. \A x \in DOMAIN torrents : Speed(x) \in Int /\ torrents[x].name \in Nat /\ x \in Nat
  BY SpeedIs, DashboardAssumption
<1> QED BY <1>1 DEF Before

LEMMA SomeOrderSorts ==
  ASSUME DashInv, Enumerates
  PROVE  \E p : Sorts(p)
<1> DEFINE D == DOMAIN cands
           Below(i) == {j \in D : Before(cands[j], cands[i])}
           r == [i \in D |-> Cardinality(Below(i)) + 1]
<1>1. D = 1..Len(cands) /\ Len(cands) \in Nat
  BY DEF DashInv, DashTypeOK
<1>2. IsFiniteSet(D) /\ Cardinality(D) = Len(cands)
  <2> DEFINE n == Len(cands)
  <2>1. n \in Nat /\ D = 1..n
    BY <1>1
  <2> HIDE DEF n, D
  <2>2. IsFiniteSet(1..n) /\ Cardinality(1..n) = IF 1 > n THEN 0 ELSE n - 1 + 1
    BY <2>1, FS_Interval
  <2>3. IsFiniteSet(D) /\ Cardinality(D) = n
    BY <2>1, <2>2
  <2> QED BY <2>3 DEF n
<1>3. /\ \A i \in D : cands[i] \in DOMAIN torrents
      /\ DOMAIN torrents \subseteq Hash /\ \A x \in DOMAIN torrents : torrents[x] \in Torrent
  BY DEF DashInv, DashTypeOK, Enumerates, Transferring, Read
<1>4. ASSUME NEW i \in D
      PROVE  IsFiniteSet(Below(i)) /\ Cardinality(Below(i)) \in Nat /\ i \notin Below(i)
  <2>1. Below(i) \in SUBSET D
    OBVIOUS
  <2>2. i \notin Below(i)
    BY <1>3, BeforeIsStrict
  <2> QED BY <1>2, <2>1, <2>2, FS_Subset, FS_CardinalityType
<1>5. ASSUME NEW i \in D, NEW j \in D, Before(cands[i], cands[j])
      PROVE  r[i] < r[j]
  <2>1. Below(i) \subseteq Below(j)
    BY <1>3, <1>5, BeforeIsStrict
  <2>2. i \in Below(j) /\ i \notin Below(i)
    BY <1>4, <1>5
  <2>3. Below(i) \in SUBSET Below(j) /\ Below(i) # Below(j) /\ IsFiniteSet(Below(j))
    BY <1>4, <2>1, <2>2
  <2>4. Cardinality(Below(i)) <= Cardinality(Below(j)) /\ Cardinality(Below(i)) # Cardinality(Below(j))
    BY <2>3, FS_Subset
  <2> HIDE DEF Below
  <2> QED BY <1>4, <2>4
<1>6. r \in Injection(D, D)
  <2>1. \A i \in D : r[i] \in D
    <3> SUFFICES ASSUME NEW i \in D PROVE r[i] \in D
      OBVIOUS
    <3>1. Below(i) \in SUBSET (D \ {i})
      BY <1>4
    <3>2. IsFiniteSet(D \ {i}) /\ Cardinality(D \ {i}) = Len(cands) - 1
      BY <1>2, FS_RemoveElement
    <3>3. Cardinality(Below(i)) <= Len(cands) - 1
      BY <3>1, <3>2, FS_Subset
    <3> HIDE DEF Below
    <3> QED BY <1>1, <1>4, <3>3
  <2>2. \A i, j \in D : r[i] = r[j] => i = j
    <3> SUFFICES ASSUME NEW i \in D, NEW j \in D, r[i] = r[j], i # j PROVE FALSE
      OBVIOUS
    <3>1. cands[i] # cands[j]
      BY DEF Enumerates
    <3>2. Before(cands[i], cands[j]) \/ Before(cands[j], cands[i])
      BY <1>3, <3>1, BeforeIsTotal
    <3>3. r[i] \in Nat /\ r[j] \in Nat
      BY <1>1, <2>1
    <3> HIDE DEF r
    <3> QED BY <1>5, <3>2, <3>3
  <2> HIDE DEF Below
  <2> QED BY <2>1, <2>2 DEF Injection, IsInjective
<1>7. r \in Surjection(D, D)
  BY <1>2, <1>6, FS_Injection
<1> HIDE DEF r
<1> DEFINE p == [y \in D |-> CHOOSE x \in D : r[x] = y]
<1>8. \A y \in D : p[y] \in D /\ r[p[y]] = y
  BY <1>7 DEF Surjection
<1>9. \A x \in D : r[x] \in D
  BY <1>6 DEF Injection
<1>10. \A x \in D : p[r[x]] = x
  BY <1>6, <1>8, <1>9 DEF Injection, IsInjective
<1>11. DOMAIN p = D
  OBVIOUS
<1> HIDE DEF p
<1>12. p \in [D -> D]
  <2>1. p = [y \in D |-> p[y]]
    BY <1>11 DEF p
  <2> QED BY <1>8, <2>1
<1>13. p \in Bijection(D, D)
  BY <1>8, <1>9, <1>10, <1>12 DEF Bijection, Injection, Surjection, IsInjective
<1>14. \A i, j \in D : i < j => ~Before(cands[p[j]], cands[p[i]])
  <2> SUFFICES ASSUME NEW i \in D, NEW j \in D, i < j, Before(cands[p[j]], cands[p[i]]) PROVE FALSE
    OBVIOUS
  <2>1. r[p[j]] < r[p[i]]
    BY <1>5, <1>8
  <2>2. j < i
    BY <1>8, <2>1
  <2> QED BY <1>1, <2>2
<1> QED BY <1>13, <1>14 DEF Sorts

\* The sort always has a result, for any number of transfers: the pass ends
\* with a list (dashboard.go:111-127).
THEOREM SortEnds == DashboardSpec => [](unread = {} => Ranked \/ \E p : Sorts(p))
<1>1. DashInv => (unread = {} => Ranked \/ \E p : Sorts(p))
  BY SomeOrderSorts DEF DashInv, ListInv
<1> QED BY <1>1, DashInvInit, DashInvNext, PTL DEF DashboardSpec

-----------------------------------------------------------------------------
(* The grammar of requests.                                                *)

AnyFrame == [type : Types, keys : SUBSET Keys, url : Urls, tls_mode : {"system", "pin"},
             secret_action : {"keep", "replace", "delete"}, ack : BOOLEAN, flaw : BOOLEAN]

\* Of every frame, also of those the runs do not try: parseFrame refuses
\* exactly what docs/IPC.md does not allow.
THEOREM RefusesTheRest ==
  ASSUME NEW f \in AnyFrame
  PROVE  f.flaw \/ Invalid(f) <=> ~WellFormed(f)
<1> DEFINE K == f.keys
<1>1. /\ f.type \in Types /\ K \subseteq Keys /\ f.flaw \in BOOLEAN
      /\ f.tls_mode \in {"system", "pin"} /\ f.secret_action \in {"keep", "replace", "delete"}
  BY DEF AnyFrame
<1>3. CASE f.type = "hello"
  <2>1. Invalid(f) <=> ~Has(f, "protocol") \/ HasAny(f, Keys \ {"protocol"})
    BY <1>3 DEF Invalid
  <2>2. Required(f.type) = {"protocol"} /\ Optional(f.type) = {}
    BY <1>3 DEF Required, Optional
  <2>3. HasAny(f, Keys \ {"protocol"}) <=> ~(K \subseteq {"protocol"})
    BY <1>1 DEF HasAny
  <2> QED
    BY <1>1, <1>3, <2>1, <2>2, <2>3 DEF WellFormed, Has
<1>4. CASE f.type \in {"health", "torrent.subscribe"}
  <2>1. Invalid(f) <=> ~Has(f, "id") \/ HasAny(f, Keys \ {"id"})
    BY <1>4 DEF Invalid
  <2>2. Required(f.type) = {"id"} /\ Optional(f.type) = {}
    BY <1>4 DEF Required, Optional
  <2>3. HasAny(f, Keys \ {"id"}) <=> ~(K \subseteq {"id"})
    BY <1>1 DEF HasAny
  <2> QED
    BY <1>1, <1>4, <2>1, <2>2, <2>3 DEF WellFormed, Has
<1>5. CASE f.type = "torrent.pause"
  <2>1. Invalid(f) <=> \/ ~Has(f, "id") \/ ~Has(f, "hash") \/ ~Has(f, "ref")
                       \/ HasAny(f, {"protocol", "url", "delete_files"} \cup ConnKeys)
    BY <1>5 DEF Invalid
  <2>2. Required(f.type) = {"id", "hash", "ref"} /\ Optional(f.type) = {}
    BY <1>5 DEF Required, Optional
  <2>3. HasAny(f, {"protocol", "url", "delete_files"} \cup ConnKeys) <=> ~(K \subseteq {"id", "hash", "ref"})
    BY <1>1 DEF HasAny, Keys, ConnKeys
  <2> QED
    BY <1>1, <1>5, <2>1, <2>2, <2>3 DEF WellFormed, Has
<1>6. CASE f.type = "torrent.add"
  <2>1. Invalid(f) <=> \/ ~Has(f, "id") \/ ~Has(f, "url") \/ ~Has(f, "ref")
                       \/ HasAny(f, {"protocol", "hash", "delete_files"} \cup ConnKeys)
                       \/ f.url.scheme # "magnet"
    BY <1>6 DEF Invalid
  <2>2. Required(f.type) = {"id", "url", "ref"} /\ Optional(f.type) = {}
    BY <1>6 DEF Required, Optional
  <2>3. HasAny(f, {"protocol", "hash", "delete_files"} \cup ConnKeys) <=> ~(K \subseteq {"id", "url", "ref"})
    BY <1>1 DEF HasAny, Keys, ConnKeys
  <2> QED
    BY <1>1, <1>6, <2>1, <2>2, <2>3 DEF WellFormed, Has
<1>7. CASE f.type = "torrent.remove"
  <2>1. Invalid(f) <=> \/ ~Has(f, "id") \/ ~Has(f, "hash") \/ ~Has(f, "ref") \/ ~Has(f, "delete_files")
                       \/ HasAny(f, {"protocol", "url"} \cup ConnKeys)
    BY <1>7 DEF Invalid
  <2>2. Required(f.type) = {"id", "hash", "ref", "delete_files"} /\ Optional(f.type) = {}
    BY <1>7 DEF Required, Optional
  <2>3. HasAny(f, {"protocol", "url"} \cup ConnKeys) <=> ~(K \subseteq {"id", "hash", "ref", "delete_files"})
    BY <1>1 DEF HasAny, Keys, ConnKeys
  <2> QED
    BY <1>1, <1>7, <2>1, <2>2, <2>3 DEF WellFormed, Has
<1>8. CASE f.type = "other"
  <2>1. Invalid(f) <=> K # {}
    BY <1>8 DEF Invalid
  <2>2. Required(f.type) = {} /\ Optional(f.type) = {}
    BY <1>8 DEF Required, Optional
  <2> QED
    BY <1>1, <1>8, <2>1, <2>2 DEF WellFormed
<1>9. CASE f.type = "connection.test"
  <2>1. Invalid(f) <=> ConnInvalid(f)
    BY <1>9 DEF Invalid
  <2>2. /\ Required(f.type) = {"id", "url", "tls_mode"}
        /\ Optional(f.type) = {"username", "password", "use_stored_password", "pin"}
    BY <1>9 DEF Required, Optional
  <2>3. HasAny(f, {"protocol", "hash", "delete_files", "ref"}) \/ Has(f, "secret_action")
          <=> ~(K \subseteq Required(f.type) \cup Optional(f.type))
    BY <1>1, <2>2 DEF HasAny, Has, Keys
  <2>4. Required(f.type) \subseteq K <=> Has(f, "id") /\ Has(f, "url") /\ Has(f, "tls_mode")
    BY <2>2 DEF Has
  <2>5. WellFormed(f) <=>
          /\ ~f.flaw /\ Has(f, "id") /\ Has(f, "url") /\ Has(f, "tls_mode")
          /\ ~(HasAny(f, {"protocol", "hash", "delete_files", "ref"}) \/ Has(f, "secret_action"))
          /\ f.url.extra # "control"
          /\ Has(f, "pin") <=> f.tls_mode = "pin"
          /\ ~(Has(f, "password") /\ Has(f, "use_stored_password"))
    BY <1>9, <2>2, <2>3, <2>4 DEF WellFormed, Has
  <2> QED
    BY <1>1, <1>9, <2>1, <2>5 DEF ConnInvalid
<1>10. CASE f.type = "connection.configure"
  <2>1. Invalid(f) <=> ConnInvalid(f)
    BY <1>10 DEF Invalid
  <2>2. /\ Required(f.type) = {"id", "url", "tls_mode", "secret_action"}
        /\ Optional(f.type) = {"username", "password", "use_stored_password", "pin"}
    BY <1>10 DEF Required, Optional
  <2>3. HasAny(f, {"protocol", "hash", "delete_files", "ref"})
          <=> ~(K \subseteq Required(f.type) \cup Optional(f.type))
    BY <1>1, <2>2 DEF HasAny, Keys
  <2>4. Required(f.type) \subseteq K
          <=> Has(f, "id") /\ Has(f, "url") /\ Has(f, "tls_mode") /\ Has(f, "secret_action")
    BY <2>2 DEF Has
  <2>5. WellFormed(f) <=>
          /\ ~f.flaw
          /\ Has(f, "id") /\ Has(f, "url") /\ Has(f, "tls_mode") /\ Has(f, "secret_action")
          /\ ~HasAny(f, {"protocol", "hash", "delete_files", "ref"})
          /\ f.url.extra # "control"
          /\ Has(f, "pin") <=> f.tls_mode = "pin"
          /\ ~(Has(f, "password") /\ Has(f, "use_stored_password"))
          /\ Has(f, "password") <=> f.secret_action = "replace"
    BY <1>10, <2>2, <2>3, <2>4 DEF WellFormed, Has
  <2> QED
    BY <1>1, <1>10, <2>1, <2>5 DEF ConnInvalid
<1> QED
  BY <1>1, <1>3, <1>4, <1>5, <1>6, <1>7, <1>8, <1>9, <1>10 DEF Types

\* A frame that is parsed passes the checks of Configure that repeat the
\* parser's.
LEMMA NothingLeftToRefuse ==
  ASSUME NEW f \in AnyFrame, WellFormed(f), f.type = "connection.configure"
  PROVE  ~Misshapen(f)
<1>1. Optional(f.type) # {}
  BY DEF Optional
<1> QED
  BY <1>1 DEF WellFormed, Misshapen, Has

-----------------------------------------------------------------------------
(* URLs.                                                                   *)

Port(port) == IF port \in {"none", "bare"} THEN "default" ELSE port
Path(path) == CASE path = "/" -> "" [] path = "/a/" -> "/a" [] OTHER -> path

LEMMA NormalizedIs ==
  ASSUME NEW u \in Urls
  PROVE  NormalizedURL(u) =
           [scheme |-> u.scheme, host |-> ToLower(u.host), colon |-> u.colon \/ u.port = "bare",
            port |-> Port(u.port), path |-> Path(u.path), extra |-> u.extra]
<1>1. u = [scheme |-> u.scheme, host |-> u.host, colon |-> u.colon, port |-> u.port,
           path |-> u.path, extra |-> u.extra]
  BY DEF Urls
<1>2. ASSUME NEW ho, NEW co, NEW po, NEW pa
      PROVE  [u EXCEPT !.host = ho, !.colon = co, !.port = po, !.path = pa] =
               [scheme |-> u.scheme, host |-> ho, colon |-> co, port |-> po,
                path |-> pa, extra |-> u.extra]
  <2> DEFINE v == [u EXCEPT !.host = ho, !.colon = co, !.port = po, !.path = pa]
  <2>1. DOMAIN u = {"scheme", "host", "colon", "port", "path", "extra"}
    BY <1>1
  <2>2. v = [k \in DOMAIN u |-> v[k]]
    OBVIOUS
  <2>3. /\ v["scheme"] = u.scheme /\ v["host"] = ho /\ v["colon"] = co
        /\ v["port"] = po /\ v["path"] = pa /\ v["extra"] = u.extra
    BY <2>1
  <2> DEFINE r == [scheme |-> u.scheme, host |-> ho, colon |-> co, port |-> po,
                   path |-> pa, extra |-> u.extra]
  <2>4. DOMAIN r = DOMAIN u /\ r = [k \in DOMAIN r |-> r[k]]
    BY <2>1
  <2>5. \A k \in DOMAIN u : v[k] = r[k]
    <3>1. /\ r["scheme"] = u.scheme /\ r["host"] = ho /\ r["colon"] = co
          /\ r["port"] = po /\ r["path"] = pa /\ r["extra"] = u.extra
      OBVIOUS
    <3> HIDE DEF v, r
    <3> QED
      BY <2>1, <2>3, <3>1
  <2> HIDE DEF v, r
  <2>6. v = r
    BY <2>2, <2>4, <2>5
  <2> QED
    BY <2>6 DEF v, r
<1>3. NormalizedURL(u) =
        [u EXCEPT !.host = ToLower(u.host), !.colon = u.colon \/ u.port = "bare",
                  !.port = Port(u.port), !.path = Path(u.path)]
  BY <1>1 DEF NormalizedURL, Port, Path
<1> QED
  BY <1>2, <1>3

\* To normalize a second time changes nothing, whatever the URL: after a bare
\* port the first time has already appended one.
LEMMA NormalizedOnce ==
  ASSUME NEW u \in Urls
  PROVE  /\ NormalizedURL(u) \in Urls
         /\ NormalizedURL(NormalizedURL(u)) = NormalizedURL(u)
<1> DEFINE v == NormalizedURL(u)
<1>1. /\ u.scheme \in {"http", "https", "magnet"} /\ u.host \in {"localhost", "Localhost", "remote"}
      /\ u.colon \in BOOLEAN /\ u.port \in {"none", "bare", "default", "other", "invalid"}
      /\ u.path \in {"", "/", "/a", "/a/", "/../a"} /\ u.extra \in {"none", "control", "query"}
  BY DEF Urls
<1>2. /\ v.scheme = u.scheme /\ v.host = ToLower(u.host)
      /\ v.colon = (u.colon \/ u.port = "bare") /\ v.port = Port(u.port)
      /\ v.path = Path(u.path) /\ v.extra = u.extra
  BY NormalizedIs
<1>3. /\ v.host \in {"localhost", "remote"} /\ v.port \in {"default", "other", "invalid"}
      /\ v.path \in {"", "/a", "/../a"} /\ v.colon \in BOOLEAN
  BY <1>1, <1>2 DEF ToLower, Port, Path
<1>4. v \in Urls
  <2>1. v = [scheme |-> v.scheme, host |-> v.host, colon |-> v.colon, port |-> v.port,
             path |-> v.path, extra |-> v.extra]
    BY <1>2, NormalizedIs
  <2> HIDE DEF v
  <2> QED
    BY <1>1, <1>2, <1>3, <2>1 DEF Urls
<1>5. NormalizedURL(v) =
        [scheme |-> v.scheme, host |-> ToLower(v.host), colon |-> v.colon \/ v.port = "bare",
         port |-> Port(v.port), path |-> Path(v.path), extra |-> v.extra]
  BY <1>4, NormalizedIs
<1>6. /\ ToLower(v.host) = v.host /\ (v.colon \/ v.port = "bare") = v.colon
      /\ Port(v.port) = v.port /\ Path(v.path) = v.path
  <2> HIDE DEF v
  <2> QED
    BY <1>3 DEF ToLower, Port, Path
<1>7. v = [scheme |-> v.scheme, host |-> v.host, colon |-> v.colon, port |-> v.port,
           path |-> v.path, extra |-> v.extra]
  BY <1>2, NormalizedIs
<1> QED
  BY <1>4, <1>5, <1>6, <1>7

\* But it may change which host that is: ``localhost:'' and ``localhost''.
LEMMA JudgedOnce ==
  ASSUME NEW u \in Urls, u.port # "bare"
  PROVE  EndpointOf(NormalizedURL(u)) = EndpointOf(u)
<1>1. u.host \in {"localhost", "Localhost", "remote"} /\ u.colon \in BOOLEAN
  BY DEF Urls
<1>2. NormalizedURL(u).host = ToLower(u.host) /\ NormalizedURL(u).colon = u.colon
  BY <1>1, NormalizedIs
<1>3. ToLower(ToLower(u.host)) = ToLower(u.host)
  BY <1>1 DEF ToLower
<1>4. IsLoopbackHost(NormalizedURL(u)) <=> IsLoopbackHost(u)
  BY <1>2, <1>3 DEF IsLoopbackHost
<1> QED
  BY <1>4, NormalizedOnce DEF EndpointOf, IsLoopbackHost

-----------------------------------------------------------------------------
(* From the request to the endpoint, in force and loaded again.            *)

\* What Configure can answer without a change of state.
Answers == {"invalid_url", "insecure_http", "rejected", "storage_error"}

ParsedInv ==
  /\ stage \in {"received", "invalid", "parsed", "active", "off", "loaded", "failed"} \cup Answers
  /\ stage \in {"received", "invalid", "parsed", "active"} \cup Answers => frame \in AnyFrame
  /\ stage = "invalid" => ~WellFormed(frame)
  /\ stage \in {"parsed", "active"} \cup Answers => WellFormed(frame)

\* What Configure puts in force was judged before it was written, what it
\* writes is valid at the next start, and the next start finds it as judged.
JudgedInv ==
  /\ InsecureTransport(endpoint) => consent
  /\ judged # NoEndpoint =>
       /\ frame \in AnyFrame /\ stage \in {"active", "loaded"}
       /\ judged = EndpointOf(frame.url)
       /\ profile.url = NormalizedURL(frame.url) /\ Valid(profile)
       /\ frame.url.port # "bare" => endpoint = judged

RequestsInv == ParsedInv /\ JudgedInv

LEMMA RequestsInvInit == RequestsInit => RequestsInv
<1> SUFFICES ASSUME RequestsInit
             PROVE  RequestsInv
  OBVIOUS
<1>1. judged = NoEndpoint /\ endpoint = NoEndpoint /\ stage \in {"received", "off"}
  BY DEF RequestsInit
<1>2. ~InsecureTransport(NoEndpoint)
  BY DEF NoEndpoint, Plain, InsecureTransport
<1>3. stage = "received" => frame \in AnyFrame
  <2>1. \A s \in {"http", "magnet"} : Plain(s) \in Urls /\ [Plain(s) EXCEPT !.extra = "control"] \in Urls
    BY DEF Plain, Urls
  <2>2. FormFrames \subseteq AnyFrame
    BY <2>1 DEF FormFrames, AnyFrame
  <2>3. FlawedFrames \subseteq AnyFrame
    BY <2>1 DEF FlawedFrames, AnyFrame
  <2>4. UrlFrames \subseteq AnyFrame
    BY DEF UrlFrames, AnyFrame, Types, Keys
  <2> QED
    BY <2>2, <2>3, <2>4 DEF RequestsInit
<1> QED
  BY <1>1, <1>2, <1>3 DEF RequestsInv, ParsedInv, JudgedInv, Answers

LEMMA ParsePreserves == RequestsInv /\ Parse => RequestsInv'
<1> SUFFICES ASSUME RequestsInv, Parse
             PROVE  RequestsInv'
  OBVIOUS
<1>1. /\ stage = "received" /\ frame \in AnyFrame /\ judged = NoEndpoint
      /\ InsecureTransport(endpoint) => consent
  BY DEF RequestsInv, ParsedInv, JudgedInv, Parse
<1>2. /\ stage' = IF frame.flaw \/ Invalid(frame) THEN "invalid" ELSE "parsed"
      /\ UNCHANGED <<frame, profile, judged, endpoint, consent>>
  BY DEF Parse
<1>3. stage' = IF WellFormed(frame) THEN "parsed" ELSE "invalid"
  BY <1>1, <1>2, RefusesTheRest
<1>4. WellFormed(frame)' <=> WellFormed(frame)
  BY <1>2 DEF WellFormed, Has
<1>5. ParsedInv'
  BY <1>1, <1>2, <1>3, <1>4 DEF ParsedInv, Answers
<1>6. JudgedInv'
  BY <1>1, <1>2 DEF JudgedInv, InsecureTransport
<1> QED
  BY <1>5, <1>6 DEF RequestsInv

LEMMA ConfigurePreserves == RequestsInv /\ Configure => RequestsInv'
<1> SUFFICES ASSUME RequestsInv, Configure
             PROVE  RequestsInv'
  OBVIOUS
<1> DEFINE u    == frame.url
           ep   == EndpointOf(u)
           next == [url |-> ep.url, ack |-> frame.ack]
<1>1. /\ stage = "parsed" /\ frame.type = "connection.configure" /\ frame' = frame
      /\ frame \in AnyFrame /\ WellFormed(frame) /\ judged = NoEndpoint
      /\ InsecureTransport(endpoint) => consent
  BY DEF RequestsInv, ParsedInv, JudgedInv, Configure, Answers
<1>2. ~Misshapen(frame)
  BY <1>1, NothingLeftToRefuse
<1>3. WellFormed(frame)'
  BY <1>1 DEF WellFormed, Has
<1>4. \/ stage' \in Answers /\ UNCHANGED <<profile, judged, endpoint, consent>>
      \/ /\ stage' = "active" /\ ~httpPolicyError(ep, frame.ack) /\ Valid(next)
         /\ profile' = next /\ judged' = ep /\ endpoint' = ep /\ consent' = frame.ack
  BY <1>2 DEF Configure, Answers
<1>5. ParsedInv'
  BY <1>1, <1>3, <1>4 DEF ParsedInv, Answers
<1>6. JudgedInv'
  <2>1. CASE stage' \in Answers /\ UNCHANGED <<profile, judged, endpoint, consent>>
    BY <1>1, <2>1 DEF JudgedInv, InsecureTransport
  <2>2. CASE /\ stage' = "active" /\ ~httpPolicyError(ep, frame.ack) /\ Valid(next)
             /\ profile' = next /\ judged' = ep /\ endpoint' = ep /\ consent' = frame.ack
    <3>1. (InsecureTransport(endpoint) => consent)'
      BY <2>2 DEF httpPolicyError, InsecureTransport
    <3>2. Valid(profile)'
      BY <2>2 DEF Valid
    <3>3. (profile.url)' = NormalizedURL(u)
      BY <2>2 DEF EndpointOf
    <3> QED
      BY <1>1, <2>2, <3>1, <3>2, <3>3 DEF JudgedInv
  <2> QED
    BY <1>4, <2>1, <2>2
<1> QED
  BY <1>5, <1>6 DEF RequestsInv

LEMMA LoadPreserves == RequestsInv /\ Load => RequestsInv'
<1> SUFFICES ASSUME RequestsInv, Load
             PROVE  RequestsInv'
  OBVIOUS
<1>1. /\ stage \in {"off", "active"} /\ UNCHANGED <<frame, profile, judged>>
      /\ stage' \in {"loaded", "failed"}
  BY DEF Load
<1>2. ParsedInv'
  BY <1>1 DEF ParsedInv, Answers
<1>3. CASE Valid(profile)
  <2>1. /\ stage' = "loaded" /\ endpoint' = EndpointOf(profile.url) /\ consent' = profile.ack
        /\ ~httpPolicyError(EndpointOf(profile.url), profile.ack)
    BY <1>3 DEF Load, Valid
  <2>2. (InsecureTransport(endpoint) => consent)'
    BY <2>1 DEF httpPolicyError, InsecureTransport
  <2>3. Valid(profile)'
    BY <1>1, <1>3 DEF Valid
  <2>4. ASSUME judged # NoEndpoint, frame.url.port # "bare"
        PROVE  endpoint' = judged
    <3>1. frame.url \in Urls /\ judged = EndpointOf(frame.url) /\ profile.url = NormalizedURL(frame.url)
      BY <2>4 DEF RequestsInv, JudgedInv, AnyFrame
    <3> QED
      BY <2>1, <2>4, <3>1, JudgedOnce
  <2> QED
    BY <1>1, <1>2, <2>1, <2>2, <2>3, <2>4 DEF RequestsInv, JudgedInv
<1>4. CASE ~Valid(profile)
  <2>1. judged = NoEndpoint
    BY <1>4 DEF RequestsInv, JudgedInv
  <2>2. UNCHANGED <<endpoint, consent>>
    BY <1>4 DEF Load
  <2> QED
    BY <1>1, <1>2, <2>1, <2>2 DEF RequestsInv, JudgedInv, InsecureTransport
<1> QED
  BY <1>3, <1>4

LEMMA RequestsInvNext == RequestsInv /\ [RequestsNext]_requestVars => RequestsInv'
<1>1. RequestsInv /\ UNCHANGED requestVars => RequestsInv'
  BY DEF RequestsInv, ParsedInv, JudgedInv, requestVars, WellFormed, Has, InsecureTransport, Valid
<1> QED
  BY <1>1, ParsePreserves, ConfigurePreserves, LoadPreserves DEF RequestsNext

LEMMA RequestsInvHolds == RequestsSpec => []RequestsInv
<1> QED
  BY RequestsInvInit, RequestsInvNext, PTL DEF RequestsSpec

\* docs/IPC.md is the grammar: parseFrame refuses a frame exactly when the
\* document does, for every type, every set of keys and every value that
\* matters, and Configure has nothing left to refuse for its shape.
THEOREM TheGrammarIsExact == RequestsSpec => []GrammarIsExact
<1>1. RequestsInv => GrammarIsExact
  BY DEF RequestsInv, ParsedInv, GrammarIsExact, Answers
<1> QED
  BY <1>1, RequestsInvHolds, PTL

\* What is in force is what Configure has judged, also after a restart, but
\* for a bare port; and plain HTTP leaves the machine only with consent,
\* whatever the URL and whichever file the profile comes from.
THEOREM TheEndpointIsJudged == RequestsSpec => []EndpointIsJudged
<1>1. RequestsInv => EndpointIsJudged
  BY DEF RequestsInv, JudgedInv, EndpointIsJudged
<1> QED
  BY <1>1, RequestsInvHolds, PTL
\* The daemon starts on whatever Configure has saved: what Configure accepts,
\* Profile.Validate accepts when it loads the file, a bare port included.
THEOREM StartsOnWhatItSaved == RequestsSpec => [](judged # NoEndpoint => stage # "failed")
<1>1. RequestsInv => (judged # NoEndpoint => stage # "failed")
  BY DEF RequestsInv, JudgedInv
<1> QED
  BY <1>1, RequestsInvHolds, PTL
=============================================================================
