------------------------------- MODULE Deltas -------------------------------
(***************************************************************************)
(* How a committed change becomes frames (EncodeDeltas of                  *)
(* ipc/protocol.go), and a torrent an item of a snapshot                   *)
(* (EncodeSnapshotItem). A client reads frames of MaxFrame bytes at most,  *)
(* so a change is split by a budget that counts the rows only. A torrent   *)
(* is its name and the bytes of everything else; all lengths are those of  *)
(* the JSON text, in which a rune of a name takes up to six bytes.         *)
(***************************************************************************)
EXTENDS Integers, Sequences, SequencesExt

CONSTANTS
  Row,           \* torrents: [rest, name]
  HashLen,       \* lengths of hashes that are reported as removed
  MaxRows,       \* bound on the rows of a change, of either kind
  Budget,        \* 3800
  MaxFrame,      \* 4096, with the LF
  DeltaFrame,    \* bytes of a delta frame without rows (91 at most)
  ItemFrame,     \* bytes of a snapshot frame without the torrent (86 at most)
  LeastRow,      \* bytes of the shortest torrent (169)
  NameCap,       \* NameCapRunes, 512
  LongestHash    \* 64

Name == [runes : Nat, esc : 1..6, cut : BOOLEAN]

ASSUME DeltasAssumption ==
  /\ Row \subseteq [rest : Nat, name : Name]
  /\ \A r \in Row : r.rest >= LeastRow /\ ~r.name.cut
  /\ HashLen \subseteq Nat /\ MaxRows \in Nat
  /\ Budget \in Nat /\ MaxFrame \in Nat /\ DeltaFrame \in Nat /\ ItemFrame \in Nat
  /\ LeastRow \in Nat \ {0} /\ NameCap \in Nat \ {0} /\ LongestHash \in Nat
  /\ LongestHash + 16 <= Budget
  /\ DeltaFrame + Budget + Budget \div LeastRow <= MaxFrame

VARIABLES
  event,            \* the change: rows changed and lengths of hashes removed
  left,             \* what of it the loops have not seen
  changed, removed, \* the lists of the frame in preparation
  size,             \* what the budget counts of them
  wire,             \* history: bytes that json.Marshal would make of them
  frames,           \* the frames that are made
  verdict,          \* of EncodeDeltas: "running", "ok" or "failed"
  shown,            \* the name a snapshot shows of the first changed torrent
  snap              \* of EncodeSnapshotItem: "running", "ok" or "nil"

deltasVars == <<event, left, changed, removed, size, wire, frames, verdict, shown, snap>>

\* CapName, capString: a longer name ends in an ellipsis of three bytes.
Capped(name, max) ==
  IF name.runes <= max THEN name ELSE [name EXCEPT !.runes = max, !.cut = TRUE]

Bytes(name) == IF name.cut THEN (name.runes - 1) * name.esc + 3 ELSE name.runes * name.esc

RowBytes(row) == row.rest + Bytes(Capped(row.name, NameCap))

Events == [changed : BoundedSeq(Row, MaxRows), removed : BoundedSeq(HashLen, MaxRows)]

DeltasInit ==
  /\ event \in Events /\ left = event
  /\ changed = <<>> /\ removed = <<>> /\ size = 0 /\ wire = DeltaFrame
  /\ frames = <<>> /\ verdict = "running"
  /\ IF event.changed = <<>>
       THEN shown = [runes |-> 0, esc |-> 1, cut |-> FALSE] /\ snap = "ok"
       ELSE shown = Capped(Head(event.changed).name, NameCap) /\ snap = "running"

-----------------------------------------------------------------------------
\* Mutant of Buffered: a change of removals only is not flushed.
BufferedRows == changed # <<>>
Buffered == changed # <<>> \/ removed # <<>>

\* Mutant of Full: the budget is looked at without the next row.
FullAlready(cost) == size > Budget
Full(cost) == size + cost > Budget

Flushed == [changed |-> changed, removed |-> removed, bytes |-> wire]
Comma(list) == IF list = <<>> THEN 0 ELSE 1

\* One row of the first loop, after a flush if it does not fit.
SplitChanged ==
  /\ verdict = "running" /\ left.changed # <<>>
  /\ LET row == Head(left.changed)  len == RowBytes(row)
         flush == Full(len) /\ Buffered IN
     IF len > Budget
       THEN verdict' = "failed"
            /\ UNCHANGED <<left, changed, removed, size, wire, frames>>
       ELSE /\ frames'  = IF flush THEN Append(frames, Flushed) ELSE frames
            /\ changed' = IF flush THEN <<row>> ELSE Append(changed, row)
            /\ removed' = IF flush THEN <<>> ELSE removed
            /\ size'    = IF flush THEN len ELSE size + len
            /\ wire'    = IF flush THEN DeltaFrame + len ELSE wire + Comma(changed) + len
            /\ left'    = [left EXCEPT !.changed = Tail(@)]
            /\ UNCHANGED verdict
  /\ UNCHANGED <<event, shown, snap>>

\* One hash of the second loop: three bytes of JSON, sixteen in the budget.
SplitRemoved ==
  /\ verdict = "running" /\ left.changed = <<>> /\ left.removed # <<>>
  /\ LET len == Head(left.removed)
         flush == Full(len + 16) /\ Buffered IN
     IF len > LongestHash
       THEN verdict' = "failed"
            /\ UNCHANGED <<left, changed, removed, size, wire, frames>>
       ELSE /\ frames'  = IF flush THEN Append(frames, Flushed) ELSE frames
            /\ changed' = IF flush THEN <<>> ELSE changed
            /\ removed' = IF flush THEN <<len>> ELSE Append(removed, len)
            /\ size'    = IF flush THEN len + 16 ELSE size + len + 16
            /\ wire'    = (IF flush THEN DeltaFrame ELSE wire + Comma(removed)) + len + 2
            /\ left'    = [left EXCEPT !.removed = Tail(@)]
            /\ UNCHANGED verdict
  /\ UNCHANGED <<event, shown, snap>>

\* The last flush.
LastFlush ==
  /\ verdict = "running" /\ left = [changed |-> <<>>, removed |-> <<>>]
  /\ frames' = IF Buffered THEN Append(frames, Flushed) ELSE frames
  /\ verdict' = "ok"
  /\ UNCHANGED <<event, left, changed, removed, size, wire, shown, snap>>

\* The snapshot item: the name is halved while the frame is too long.
ShownBytes == ItemFrame + Head(event.changed).rest + Bytes(shown)

FrameItem ==
  /\ snap = "running"
  /\ CASE ShownBytes <= MaxFrame -> snap' = "ok" /\ UNCHANGED shown
       [] ShownBytes > MaxFrame /\ shown.runes > 32 ->
            shown' = Capped(shown, shown.runes \div 2) /\ UNCHANGED snap
       [] OTHER -> snap' = "nil" /\ UNCHANGED shown
  /\ UNCHANGED <<event, left, changed, removed, size, wire, frames, verdict>>

DeltasNext == SplitChanged \/ SplitRemoved \/ LastFlush \/ FrameItem

DeltasSpec == DeltasInit /\ [][DeltasNext]_deltasVars

-----------------------------------------------------------------------------
\* No frame is longer than what every reader of this protocol takes, though
\* the budget counts neither the commas nor the frame around the rows.
FramesFit == \A i \in 1..Len(frames) : frames[i].bytes <= MaxFrame

\* The parts are the list, cut into pieces that follow one another.
Pieces(list, parts) ==
  \E cut \in [0..Len(parts) -> 0..Len(list)] :
    /\ cut[0] = 0 /\ cut[Len(parts)] = Len(list)
    /\ \A i \in 1..Len(parts) :
         cut[i - 1] <= cut[i] /\ parts[i] = SubSeq(list, cut[i - 1] + 1, cut[i])

\* "A committed update must never silently disappear" (EncodeDeltas): either
\* the change fails as a whole, or the frames hold all of it, in its order,
\* and none of them is empty.
NothingIsLost ==
  verdict = "ok" =>
    /\ Pieces(event.changed, [i \in DOMAIN frames |-> frames[i].changed])
    /\ Pieces(event.removed, [i \in DOMAIN frames |-> frames[i].removed])
    /\ \A i \in DOMAIN frames : frames[i].changed # <<>> \/ frames[i].removed # <<>>

\* "with syncer-validated hashes the worst case fits the budget, and the
\* halving guard below is pure defense" (EncodeSnapshotItem), and what it
\* means for a subscriber: a torrent a snapshot shows can also be a delta.
DeltaLikeSnapshot ==
  Len(event.changed) = 1 /\ event.removed = <<>> /\ snap = "ok" => verdict # "failed"
=============================================================================
