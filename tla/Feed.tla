-------------------------------- MODULE Feed ---------------------------------
(***************************************************************************)
(* What a torrent.subscribe promises a client (docs/IPC.md, lifecycle and  *)
(* flow control): a whole snapshot, item by item, then every change after  *)
(* it in all its parts - each once, in order, until the feed ends.         *)
(***************************************************************************)
EXTENDS Integers

CONSTANT Items  \* torrents in a snapshot

VARIABLES
  committed,  \* changes committed so far
  got,        \* frames of the feed that the client has received
  latest,     \* the last of them
  live        \* the feed has not ended

vars == <<committed, got, latest, live>>

\* Before the first frame.
Nothing == [kind |-> "none", n |-> 0, part |-> 1, last |-> TRUE]

\* The client is at a change: the one of the snapshot, or one it has in full.
Settled(f) == f.kind = "end" \/ (f.kind = "delta" /\ f.last)

\* Frame g is what comes after f when c changes are committed: the answer, the
\* snapshot, which is of one of them, the next part of a change or the next
\* change.
Follows(f, g, c) ==
  \/ f.kind = "none" /\ g.kind = "subscribed"
  \/ f.kind = "subscribed" /\ g.kind = "begin" /\ g.n = 0
  \/ f.kind \in {"begin", "item"} /\ f.n < Items /\ g.kind = "item" /\ g.n = f.n + 1
  \/ f.kind \in {"begin", "item"} /\ f.n = Items /\ g.kind = "end" /\ g.n \in 0..c
  \/ Settled(f) /\ f.n < c /\ g.kind = "delta" /\ g.n = f.n + 1 /\ g.part = 1
  \/ f.kind = "delta" /\ ~f.last /\ g.kind = "delta" /\ g.n = f.n /\ g.part = f.part + 1

Init == committed = 0 /\ got = 0 /\ latest = Nothing /\ live = TRUE

Commit == committed' = committed + 1 /\ UNCHANGED <<got, latest, live>>

Receive == live /\ got' = got + 1 /\ Follows(latest, latest', committed) /\ UNCHANGED <<committed, live>>

End == live' = FALSE /\ UNCHANGED <<committed, got, latest>>

Next == Commit \/ Receive \/ End

Spec == Init /\ [][Next]_vars
=============================================================================
