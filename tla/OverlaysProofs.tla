--------------------------- MODULE OverlaysProofs ----------------------------
(***************************************************************************)
(* An overlay follows its own mutation, for any number of torrents, of     *)
(* attempts of any client, of results lost and connections lost, and any   *)
(* size of the buffer.                                                     *)
(*                                                                         *)
(* An overlay without an id is that of the request in flight (OverlayInv), *)
(* and a mutation is told once to a session (OnceInv), so what is told     *)
(* before its answer is in the buffer or has been pushed out of it: the    *)
(* entries behind one in the buffer were all told later (BufferInv).  So   *)
(* whoever is tied to an id has not been told of it (MemoryInv).           *)
(***************************************************************************)
EXTENDS Overlays, TLAPS

-----------------------------------------------------------------------------
(* Types.                                                                  *)

Attempt == [action : Action, hash : Hash, status : {"sent", "open", "done", "refused"},
            mine : BOOLEAN]
Overlay == [ref : Nat, action : Action, mut : Nat, old : BOOLEAN, queried : BOOLEAN]

PendingOK(p) == DOMAIN p \subseteq Hash /\ \A h \in DOMAIN p : p[h] \in Overlay

TypeOK ==
  /\ PendingOK(pending) /\ early \in Seq(Nat)
  /\ rq \in [mut : Nat, query : BOOLEAN]
  /\ muts \in Seq(Attempt)
  /\ answer \in {"none", "accepted", "result", "rejected"}
  /\ pushes \in Seq(Nat) /\ told \in Seq(Nat) /\ resets \in Nat

\* Every mutation a session knows of is an attempt that was made, what is told
\* or about to be is done, and what is answered has reached the daemon.
MutInv ==
  /\ rq.mut # 0 => rq.mut \in DOMAIN muts
  /\ rq.mut = 0 => rq = NoRequest /\ answer = "none"
  /\ answer = "result" => muts[rq.mut].status = "done"
  /\ answer = "accepted" \/ rq.query => muts[rq.mut].status # "sent"
  /\ \A i \in DOMAIN early : early[i] \in DOMAIN muts /\ muts[early[i]].status = "done"
  /\ \A i \in DOMAIN pushes : pushes[i] \in DOMAIN muts /\ muts[pushes[i]].status = "done"
  /\ \A i \in DOMAIN told : told[i] \in DOMAIN muts /\ muts[told[i]].status = "done"

\* A mutation is told once.
OnceInv ==
  /\ \A i, j \in DOMAIN told : told[i] = told[j] => i = j
  /\ \A i, j \in DOMAIN pushes : pushes[i] = pushes[j] => i = j
  /\ \A i \in DOMAIN told, j \in DOMAIN pushes : told[i] # pushes[j]

\* An overlay is for an attempt on its torrent, and tied to no other; the one
\* that is not tied is that of the request in flight.
OverlayInv ==
  /\ \A h \in DOMAIN pending :
       /\ pending[h].ref \in DOMAIN muts
       /\ muts[pending[h].ref].hash = h /\ muts[pending[h].ref].action = pending[h].action
       /\ pending[h].mut \in {Unknown, pending[h].ref}
       /\ pending[h].mut = Unknown => rq.mut = pending[h].ref /\ pending[h].action # "add"
       /\ pending[h].mut # Unknown => muts[pending[h].mut].status # "sent"
  /\ rq.mut # 0 /\ muts[rq.mut].action # "add" =>
       /\ muts[rq.mut].hash \in DOMAIN pending
       /\ pending[muts[rq.mut].hash].ref = rq.mut
       /\ pending[muts[rq.mut].hash].mut = Unknown
  /\ rq.mut # 0 /\ ~rq.query => \A h \in DOMAIN pending : pending[h].mut # rq.mut

\* The buffer holds what was told, and what is behind was told later.
BufferInv ==
  /\ Len(early) <= MaxEarly
  /\ \A i \in DOMAIN early : \E p \in DOMAIN told : told[p] = early[i]
  /\ \A i, j \in DOMAIN early : early[i] = early[j] => i = j
  /\ \A i \in DOMAIN early, p \in DOMAIN told :
       told[p] = early[i] => Len(told) - p >= Len(early) - i

Buffered(m) == \E i \in DOMAIN early : early[i] = m

\* What is told of the request in flight before its answer is in the buffer,
\* and nobody is tied to what is told, except in an add that was asked about.
MemoryInv ==
  /\ rq.mut # 0 /\ (~rq.query \/ muts[rq.mut].action # "add") /\ Remembers(rq.mut) =>
       Buffered(rq.mut)
  /\ \A h \in DOMAIN pending :
       pending[h].mut # Unknown /\ pending[h].action # "add" => ~Remembers(pending[h].mut)

PanelInv == MutInv /\ OnceInv /\ OverlayInv /\ BufferInv /\ MemoryInv

-----------------------------------------------------------------------------
(* The state bag.                                                          *)

LEMMA WithIs ==
  ASSUME TypeOK, NEW h \in Hash, NEW e \in Overlay
  PROVE  /\ PendingOK(With(h, e)) /\ DOMAIN With(h, e) = DOMAIN pending \cup {h}
         /\ With(h, e)[h] = e
         /\ \A x \in DOMAIN pending : x # h => With(h, e)[x] = pending[x]
  BY DEF TypeOK, PendingOK, With

LEMMA RestrictIs ==
  ASSUME NEW p, PendingOK(p), NEW S, S \subseteq DOMAIN p
  PROVE  /\ PendingOK(Restrict(p, S)) /\ DOMAIN Restrict(p, S) = S
         /\ \A x \in S : Restrict(p, S)[x] = p[x]
  BY DEF PendingOK, Restrict

LEMMA WithoutIs ==
  ASSUME TypeOK, NEW h
  PROVE  /\ PendingOK(Without(h)) /\ DOMAIN Without(h) = DOMAIN pending \ {h}
         /\ \A x \in DOMAIN pending : x # h => Without(h)[x] = pending[x]
<1>1. PendingOK(pending) /\ DOMAIN pending \ {h} \subseteq DOMAIN pending
  BY DEF TypeOK
<1>2. Without(h) = Restrict(pending, DOMAIN pending \ {h})
  BY DEF Without
<1> QED BY <1>1, <1>2, RestrictIs

LEMMA EntryIs ==
  ASSUME NEW m \in Nat, NEW a \in Action, NEW mut \in Nat
  PROVE  \A q \in BOOLEAN :
           /\ Entry(m, a, mut, q) \in Overlay
           /\ Entry(m, a, mut, q).ref = m /\ Entry(m, a, mut, q).action = a
           /\ Entry(m, a, mut, q).mut = mut
  BY DEF Entry, Overlay

\* The two entries a request may put up.
LEMMA FreshEntry ==
  ASSUME NEW m \in Nat, NEW a \in Action
  PROVE  /\ Entry(m, a, Unknown, TRUE) \in Overlay /\ Entry(m, a, Unknown, FALSE) \in Overlay
         /\ Entry(m, a, Unknown, TRUE).ref = m /\ Entry(m, a, Unknown, FALSE).ref = m
         /\ Entry(m, a, Unknown, TRUE).action = a /\ Entry(m, a, Unknown, FALSE).action = a
         /\ Entry(m, a, Unknown, TRUE).mut = Unknown /\ Entry(m, a, Unknown, FALSE).mut = Unknown
  BY DEF Entry, Overlay, Unknown

LEMMA TerminalIs ==
  ASSUME TypeOK, NEW m \in DOMAIN muts
  PROVE  \/ Terminal(m) = pending
         \/ /\ Terminal(m) = Without(muts[m].hash) /\ muts[m].hash \in DOMAIN pending
            /\ pending[muts[m].hash].mut \in {Unknown, m}
  BY DEF Terminal, Of

LEMMA MutFields ==
  ASSUME TypeOK, NEW m \in DOMAIN muts
  PROVE  /\ m \in Nat /\ m # 0 /\ muts[m].action \in Action /\ muts[m].hash \in Hash
         /\ muts[m].status \in {"sent", "open", "done", "refused"}
<1>1. m \in 1..Len(muts) /\ Len(muts) \in Nat /\ muts[m] \in Attempt
  BY DEF TypeOK
<1> QED BY <1>1 DEF Attempt

\* An attempt is added, or changes its status.
LEMMA AppendIs ==
  ASSUME TypeOK, NEW m \in Attempt
  PROVE  /\ Append(muts, m) \in Seq(Attempt) /\ Len(Append(muts, m)) = Len(muts) + 1
         /\ DOMAIN Append(muts, m) = DOMAIN muts \cup {Len(muts) + 1}
         /\ Len(muts) \in Nat /\ Len(muts) + 1 \notin DOMAIN muts
         /\ Append(muts, m)[Len(muts) + 1] = m
         /\ \A k \in DOMAIN muts : Append(muts, m)[k] = muts[k]
  BY DEF TypeOK

LEMMA StatusIs ==
  ASSUME TypeOK, NEW m \in DOMAIN muts, NEW s \in {"sent", "open", "done", "refused"}
  PROVE  LET n == [muts EXCEPT ![m].status = s]
         IN  /\ n \in Seq(Attempt) /\ DOMAIN n = DOMAIN muts
             /\ \A k \in DOMAIN muts :
                  /\ n[k].action = muts[k].action /\ n[k].hash = muts[k].hash
                  /\ n[k].status = IF k = m THEN s ELSE muts[k].status
<1> DEFINE n == [muts EXCEPT ![m].status = s]
<1>1. muts \in Seq(Attempt) /\ \A k \in DOMAIN muts : muts[k] \in Attempt
  BY DEF TypeOK
<1>2. [muts[m] EXCEPT !.status = s] \in Attempt
  BY <1>1 DEF Attempt
<1>3. n \in Seq(Attempt) /\ DOMAIN n = DOMAIN muts
  BY <1>1, <1>2
<1>4. \A k \in DOMAIN muts :
        /\ n[k].action = muts[k].action /\ n[k].hash = muts[k].hash
        /\ n[k].status = IF k = m THEN s ELSE muts[k].status
  BY <1>1 DEF Attempt
<1> QED BY <1>3, <1>4

LEMMA SubSeqIs ==
  ASSUME NEW s \in Seq(Nat), NEW i \in 1..(Len(s) + 1), NEW j \in (i - 1)..Len(s)
  PROVE  /\ SubSeq(s, i, j) \in Seq(Nat) /\ Len(SubSeq(s, i, j)) = j - i + 1
         /\ \A k \in 1..(j - i + 1) : SubSeq(s, i, j)[k] = s[k + (i - 1)]
  OBVIOUS

LEMMA ConcatIs ==
  ASSUME NEW s \in Seq(Nat), NEW t \in Seq(Nat)
  PROVE  /\ s \o t \in Seq(Nat) /\ Len(s \o t) = Len(s) + Len(t)
         /\ \A k \in 1..(Len(s) + Len(t)) :
              (s \o t)[k] = IF k <= Len(s) THEN s[k] ELSE t[k - Len(s)]
  OBVIOUS

\* What the buffer is without a mutation: the others keep their order.
LEMMA UnbufferedIs ==
  ASSUME TypeOK, NEW m
  PROVE  /\ Unbuffered(m) \in Seq(Nat)
         /\ \/ Unbuffered(m) = early
            \/ \E i \in DOMAIN early :
                 /\ Len(Unbuffered(m)) = Len(early) - 1
                 /\ \A k \in DOMAIN Unbuffered(m) :
                      Unbuffered(m)[k] = IF k < i THEN early[k] ELSE early[k + 1]
         /\ Len(Unbuffered(m)) \in Nat
<1> DEFINE i == CHOOSE j \in DOMAIN early : early[j] = m
<1>0. early \in Seq(Nat) /\ DOMAIN early = 1..Len(early) /\ Len(early) \in Nat
  BY DEF TypeOK
<1>1. CASE m \notin Range(early)
  BY <1>0, <1>1 DEF Unbuffered
<1>2. CASE m \in Range(early)
  <2>1. i \in 1..Len(early)
    BY <1>0, <1>2 DEF Range
  <2>2. Unbuffered(m) = SubSeq(early, 1, i - 1) \o SubSeq(early, i + 1, Len(early))
    BY <1>2 DEF Unbuffered, RemoveAt
  <2> HIDE DEF i
  <2> DEFINE a == SubSeq(early, 1, i - 1)  b == SubSeq(early, i + 1, Len(early))
  <2>a. a \in Seq(Nat) /\ Len(a) = i - 1 /\ \A k \in 1..(i - 1) : a[k] = early[k]
    BY <1>0, <2>1, SubSeqIs
  <2>b. /\ b \in Seq(Nat) /\ Len(b) = Len(early) - i
        /\ \A k \in 1..(Len(early) - i) : b[k] = early[k + i]
    <3>1. i + 1 \in 1..(Len(early) + 1) /\ Len(early) \in ((i + 1) - 1)..Len(early)
      BY <1>0, <2>1
    <3>2. (i + 1) - 1 = i /\ Len(early) - (i + 1) + 1 = Len(early) - i
      BY <1>0, <2>1
    <3>3. /\ b \in Seq(Nat) /\ Len(b) = Len(early) - (i + 1) + 1
          /\ \A k \in 1..(Len(early) - (i + 1) + 1) : b[k] = early[k + ((i + 1) - 1)]
      BY <1>0, <3>1, SubSeqIs
    <3> HIDE DEF b
    <3> QED BY <3>2, <3>3
  <2>3. /\ a \in Seq(Nat) /\ Len(a) = i - 1 /\ \A k \in 1..(i - 1) : a[k] = early[k]
        /\ b \in Seq(Nat) /\ Len(b) = Len(early) - i
        /\ \A k \in 1..(Len(early) - i) : b[k] = early[k + i]
    BY <2>a, <2>b
  <2> HIDE DEF a, b
  <2>4. /\ a \o b \in Seq(Nat) /\ Len(a \o b) = Len(early) - 1
        /\ \A k \in 1..(Len(early) - 1) : (a \o b)[k] = IF k < i THEN a[k] ELSE b[k - (i - 1)]
    <3>1. Len(a) + Len(b) = Len(early) - 1 /\ \A k \in Nat : k <= Len(a) <=> k < i
      BY <1>0, <2>1, <2>3
    <3>2. /\ a \o b \in Seq(Nat) /\ Len(a \o b) = Len(a) + Len(b)
          /\ \A k \in 1..(Len(a) + Len(b)) :
               (a \o b)[k] = IF k <= Len(a) THEN a[k] ELSE b[k - Len(a)]
      BY <2>3, ConcatIs
    <3> QED BY <2>3, <3>1, <3>2
  <2>5. \A k \in 1..(Len(early) - 1) : (a \o b)[k] = IF k < i THEN early[k] ELSE early[k + 1]
    <3> SUFFICES ASSUME NEW k \in 1..(Len(early) - 1)
                 PROVE  (a \o b)[k] = IF k < i THEN early[k] ELSE early[k + 1]
      OBVIOUS
    <3>1. CASE k < i
      BY <1>0, <2>1, <2>3, <2>4, <3>1
    <3>2. CASE ~(k < i)
      <4>1. k - (i - 1) \in 1..(Len(early) - i) /\ (k - (i - 1)) + i = k + 1
        BY <1>0, <2>1, <3>2
      <4> QED BY <2>3, <2>4, <3>2, <4>1
    <3> QED BY <3>1, <3>2
  <2>6. DOMAIN (a \o b) = 1..(Len(early) - 1)
    BY <2>4
  <2>7. Unbuffered(m) = a \o b
    BY <2>2 DEF a, b
  <2>8. /\ Len(Unbuffered(m)) = Len(early) - 1
        /\ \A k \in DOMAIN Unbuffered(m) :
             Unbuffered(m)[k] = IF k < i THEN early[k] ELSE early[k + 1]
    BY <2>4, <2>5, <2>6, <2>7
  <2>9. i \in DOMAIN early /\ Len(early) - 1 \in Nat
    BY <1>0, <2>1
  <2> QED BY <2>4, <2>7, <2>8, <2>9
<1> QED BY <1>1, <1>2

\* A request puts up an overlay, the watchdog asks about one.
Put(m, a, h) == Begun(m, a, h, FALSE)
Ask(m, a, h) == Begun(m, a, h, TRUE)

LEMMA PutIs ==
  ASSUME TypeOK, NEW m \in Nat, NEW a \in Action, NEW h \in Hash
  PROVE  a # "add" =>
           /\ PendingOK(Put(m, a, h)) /\ DOMAIN Put(m, a, h) = DOMAIN pending \cup {h}
           /\ Put(m, a, h)[h].ref = m /\ Put(m, a, h)[h].action = a
           /\ Put(m, a, h)[h].mut = Unknown
           /\ \A x \in DOMAIN pending : x # h => Put(m, a, h)[x] = pending[x]
<1> DEFINE e == Entry(m, a, Unknown, FALSE)
<1>1. a # "add" => Put(m, a, h) = With(h, e)
  BY DEF Put, Begun
<1>2. e \in Overlay /\ e.ref = m /\ e.action = a /\ e.mut = Unknown
  BY FreshEntry
<1> HIDE DEF e
<1>3. /\ PendingOK(With(h, e)) /\ DOMAIN With(h, e) = DOMAIN pending \cup {h} /\ With(h, e)[h] = e
      /\ \A x \in DOMAIN pending : x # h => With(h, e)[x] = pending[x]
  BY <1>2, WithIs
<1> QED BY <1>1, <1>2, <1>3

LEMMA AskIs ==
  ASSUME TypeOK, NEW m \in Nat, NEW a \in Action, NEW h \in DOMAIN pending
  PROVE  /\ PendingOK(Ask(m, a, h)) /\ DOMAIN Ask(m, a, h) = DOMAIN pending
         /\ a # "add" => /\ Ask(m, a, h)[h].ref = m /\ Ask(m, a, h)[h].action = a
                         /\ Ask(m, a, h)[h].mut = Unknown
         /\ a = "add" => /\ Ask(m, a, h)[h].ref = pending[h].ref
                         /\ Ask(m, a, h)[h].action = pending[h].action
                         /\ Ask(m, a, h)[h].mut = pending[h].mut
         /\ \A x \in DOMAIN pending : x # h => Ask(m, a, h)[x] = pending[x]
<1>0. h \in Hash /\ pending[h] \in Overlay /\ DOMAIN pending \cup {h} = DOMAIN pending
  BY DEF TypeOK, PendingOK
<1>1. ASSUME NEW e \in Overlay
      PROVE  /\ PendingOK(With(h, e)) /\ DOMAIN With(h, e) = DOMAIN pending /\ With(h, e)[h] = e
             /\ \A x \in DOMAIN pending : x # h => With(h, e)[x] = pending[x]
  BY <1>0, WithIs
<1>2. CASE a # "add"
  <2> DEFINE e == Entry(m, a, Unknown, TRUE)
  <2>1. Ask(m, a, h) = With(h, e)
    BY <1>2 DEF Ask, Begun
  <2>2. e \in Overlay /\ e.ref = m /\ e.action = a /\ e.mut = Unknown
    BY FreshEntry
  <2> HIDE DEF e
  <2> QED BY <1>1, <1>2, <2>1, <2>2
<1>3. CASE a = "add"
  <2> DEFINE e == [pending[h] EXCEPT !.queried = TRUE]
  <2>1. Ask(m, a, h) = With(h, e)
    BY <1>3 DEF Ask, Begun
  <2>2. /\ e \in Overlay /\ e.ref = pending[h].ref /\ e.action = pending[h].action
        /\ e.mut = pending[h].mut
    BY <1>0 DEF Overlay
  <2> HIDE DEF e
  <2> QED BY <1>1, <1>3, <2>1, <2>2
<1> QED BY <1>2, <1>3

\* What OnAccepted does with the overlays when nothing is in the buffer.
AcceptedBag(m) ==
  /\ DOMAIN pending' = DOMAIN pending \cup {muts[m].hash}
  /\ pending'[muts[m].hash].ref = m /\ pending'[muts[m].hash].mut = m
  /\ pending'[muts[m].hash].action = muts[m].action
  /\ \A x \in DOMAIN pending : x # muts[m].hash => pending'[x] = pending[x]

LEMMA AcceptedDoes ==
  ASSUME TypeOK, MutInv, OverlayInv, OnAccepted
  PROVE  LET m == rq.mut IN
         /\ m \in DOMAIN muts /\ rq' = NoRequest /\ answer' = "none"
         /\ UNCHANGED <<muts, pushes, lost, told, resets>> /\ PendingOK(pending')
         /\ \/ Buffered(m) /\ early' = Unbuffered(m) /\ pending' = Terminal(m)
            \/ ~Buffered(m) /\ UNCHANGED early /\ AcceptedBag(m)
<1> DEFINE m == rq.mut  h == muts[m].hash  a == muts[m].action  has == h \in DOMAIN pending
<1>1. answer = "accepted" /\ m # 0 /\ m \in DOMAIN muts
  BY DEF OnAccepted, MutInv
<1>2. rq' = NoRequest /\ answer' = "none" /\ UNCHANGED <<muts, pushes, lost, told, resets>>
  BY DEF OnAccepted, Take
<1>3. m \in Range(early) <=> Buffered(m)
  BY DEF Range, Buffered
<1>4. m \in Nat /\ a \in Action /\ h \in Hash
  BY <1>1, MutFields
<1>5. ASSUME m \in Range(early)
      PROVE  early' = Unbuffered(m) /\ pending' = Terminal(m) /\ PendingOK(pending')
  <2>1. early' = Unbuffered(m) /\ pending' = Terminal(m)
    BY <1>5 DEF OnAccepted
  <2>2. Terminal(m) = pending \/ Terminal(m) = Without(h)
    BY <1>1, TerminalIs
  <2> QED BY <2>1, <2>2, WithoutIs DEF TypeOK
<1>6. ASSUME m \notin Range(early) PROVE UNCHANGED early /\ AcceptedBag(m) /\ PendingOK(pending')
  <2>1. /\ UNCHANGED early
        /\ pending' = CASE a = "add" -> With(h, Entry(m, a, m, has /\ pending[h].queried))
                        [] a # "add" /\ has /\ pending[h].action = a ->
                             With(h, [pending[h] EXCEPT !.mut = m])
                        [] OTHER -> With(h, Entry(m, a, m, FALSE))
    BY <1>6 DEF OnAccepted, Of
  <2>2. has => pending[h] \in Overlay
    BY DEF TypeOK, PendingOK
  <2>3. CASE a = "add"
    <3>1. (has /\ pending[h].queried) \in BOOLEAN
      OBVIOUS
    <3>2. PICK q \in BOOLEAN : pending' = With(h, Entry(m, a, m, q))
      BY <2>1, <2>3, <3>1
    <3> DEFINE e == Entry(m, a, m, q)
    <3>3. e \in Overlay /\ e.ref = m /\ e.mut = m /\ e.action = a
      BY <1>4, EntryIs
    <3> HIDE DEF e
    <3>4. /\ PendingOK(With(h, e)) /\ DOMAIN With(h, e) = DOMAIN pending \cup {h} /\ With(h, e)[h] = e
          /\ \A x \in DOMAIN pending : x # h => With(h, e)[x] = pending[x]
      BY <1>4, <3>3, WithIs
    <3>5. pending' = With(h, e)
      BY <3>2 DEF e
    <3> QED BY <2>1, <3>3, <3>4, <3>5 DEF AcceptedBag
  <2>4. CASE a # "add"
    <3>1. has /\ pending[h].action = a /\ pending[h].ref = m
      BY <1>1, <2>4 DEF OverlayInv
    <3> DEFINE e == [pending[h] EXCEPT !.mut = m]
    <3>2. pending' = With(h, e)
      BY <2>1, <2>4, <3>1
    <3>3. e \in Overlay /\ e.ref = m /\ e.mut = m /\ e.action = a
      BY <1>4, <2>2, <3>1 DEF Overlay
    <3> HIDE DEF e
    <3>4. /\ PendingOK(With(h, e)) /\ DOMAIN With(h, e) = DOMAIN pending \cup {h} /\ With(h, e)[h] = e
          /\ \A x \in DOMAIN pending : x # h => With(h, e)[x] = pending[x]
      BY <1>4, <3>3, WithIs
    <3> QED BY <2>1, <3>2, <3>3, <3>4 DEF AcceptedBag
  <2> QED BY <2>3, <2>4
<1> QED BY <1>1, <1>2, <1>3, <1>5, <1>6

LEMMA ResponseDoes ==
  ASSUME TypeOK, MutInv, OnResultResponse
  PROVE  LET m == rq.mut IN
         /\ m \in DOMAIN muts /\ muts[m].status = "done" /\ rq' = NoRequest /\ answer' = "none"
         /\ UNCHANGED <<muts, pushes, lost, told, resets>> /\ PendingOK(pending')
         /\ early' = Unbuffered(m) /\ pending' = Terminal(m)
<1>1. answer = "result" /\ rq.mut # 0 /\ rq.mut \in DOMAIN muts /\ muts[rq.mut].status = "done"
  BY DEF OnResultResponse, MutInv
<1>2. Terminal(rq.mut) = pending \/ Terminal(rq.mut) = Without(muts[rq.mut].hash)
  BY <1>1, TerminalIs
<1> QED BY <1>1, <1>2, WithoutIs DEF OnResultResponse, Take, TypeOK

LEMMA RejectedDoes ==
  ASSUME TypeOK, MutInv, OverlayInv, OnRejected
  PROVE  LET m == rq.mut IN
         /\ m \in DOMAIN muts /\ rq' = NoRequest /\ answer' = "none"
         /\ UNCHANGED <<early, muts, pushes, lost, told, resets>> /\ PendingOK(pending')
         /\ \/ pending' = pending /\ muts[m].action = "add"
            \/ /\ pending' = Without(muts[m].hash) /\ muts[m].action # "add"
               /\ muts[m].hash \in DOMAIN pending
               /\ pending[muts[m].hash].mut = Unknown
<1>1. answer = "rejected" /\ rq.mut # 0 /\ rq.mut \in DOMAIN muts
  BY DEF OnRejected, MutInv
<1>2. muts[rq.mut].action # "add" =>
        /\ muts[rq.mut].hash \in DOMAIN pending /\ pending[muts[rq.mut].hash].mut = Unknown
        /\ pending[muts[rq.mut].hash].action = muts[rq.mut].action
  BY <1>1 DEF OverlayInv
<1>3. \/ pending' = pending /\ muts[rq.mut].action = "add"
      \/ pending' = Without(muts[rq.mut].hash) /\ muts[rq.mut].action # "add"
  BY <1>2 DEF OnRejected, Of
<1> QED BY <1>1, <1>2, <1>3, WithoutIs DEF OnRejected, Take, TypeOK

\* A result that is pushed ends the overlay tied to it or goes to the end of
\* the buffer.
LEMMA PushDoes ==
  ASSUME TypeOK, MutInv, OnceInv, OverlayInv, BufferInv, OnResultPush
  PROVE  LET m == Head(pushes) IN
         /\ m \in DOMAIN muts /\ muts[m].status = "done"
         /\ \A i \in DOMAIN told : told[i] # m
         /\ told' = Append(told, m) /\ pushes' = Tail(pushes) /\ PendingOK(pending')
         /\ UNCHANGED <<rq, muts, answer, lost, resets>>
         /\ \/ /\ pending' = Without(muts[m].hash) /\ muts[m].hash \in DOMAIN pending
               /\ pending[muts[m].hash].mut = m /\ UNCHANGED early
            \/ /\ \A h \in DOMAIN pending : pending[h].mut # m
               /\ UNCHANGED pending
               /\ early' = IF Len(early) + 1 > MaxEarly THEN Tail(Append(early, m))
                                                         ELSE Append(early, m)
<1> DEFINE m == Head(pushes)
<1>1. pushes # <<>> /\ pushes \in Seq(Nat) /\ early \in Seq(Nat)
  BY DEF OnResultPush, TypeOK
<1>2. 1 \in DOMAIN pushes /\ m = pushes[1]
  BY <1>1
<1>3. m \in DOMAIN muts /\ muts[m].status = "done" /\ \A i \in DOMAIN told : told[i] # m
  BY <1>2 DEF MutInv, OnceInv
<1>4. m # Unknown
  BY <1>3, MutFields DEF Unknown
<1>5. \A i \in DOMAIN early : early[i] # m
  BY <1>3 DEF BufferInv
<1>6. m \notin Range(early)
  BY <1>5 DEF Range
<1>7. /\ told' = Append(told, m) /\ pushes' = Tail(pushes)
      /\ UNCHANGED <<rq, muts, answer, lost, resets>>
      /\ IF Matches(m) THEN pending' = Without(muts[m].hash) /\ UNCHANGED early
                       ELSE early' = BufferEarly(m) /\ UNCHANGED pending
  BY DEF OnResultPush, Of
<1> HIDE DEF m
<1>8. CASE Matches(m)
  <2>1. muts[m].hash \in DOMAIN pending /\ pending[muts[m].hash].mut = m
    BY <1>8 DEF Matches, Of
  <2>2. PendingOK(pending')
    BY <1>7, <1>8, WithoutIs
  <2> QED BY <1>3, <1>7, <1>8, <2>1, <2>2 DEF m
<1>9. CASE ~Matches(m)
  <2>1. \A h \in DOMAIN pending : pending[h].mut # m
    BY <1>4, <1>9 DEF OverlayInv, Matches, Of
  <2>2. Len(Append(early, m)) = Len(early) + 1
    BY <1>1
  <2>3. BufferEarly(m) = IF Len(early) + 1 > MaxEarly THEN Tail(Append(early, m))
                                                       ELSE Append(early, m)
    BY <1>6, <2>2 DEF BufferEarly
  <2> QED BY <1>3, <1>7, <1>9, <2>1, <2>3 DEF m, TypeOK
<1> QED BY <1>8, <1>9

LEMMA RequestDoes ==
  ASSUME TypeOK, NEW a \in Action, NEW h \in Hash, Request(a, h)
  PROVE  LET m == Len(muts) + 1 IN
         /\ rq = NoRequest /\ rq' = [mut |-> m, query |-> FALSE]
         /\ m \in Nat /\ m # 0 /\ m \notin DOMAIN muts /\ DOMAIN muts' = DOMAIN muts \cup {m}
         /\ muts' \in Seq(Attempt) /\ muts'[m].action = a /\ muts'[m].hash = h
         /\ \A k \in DOMAIN muts : muts'[k] = muts[k]
         /\ PendingOK(pending') /\ UNCHANGED <<early, answer, pushes, lost, told, resets>>
         /\ a # "add" => /\ DOMAIN pending' = DOMAIN pending \cup {h}
                         /\ pending'[h].ref = m /\ pending'[h].action = a
                         /\ pending'[h].mut = Unknown
         /\ a = "add" => DOMAIN pending' = DOMAIN pending
         /\ \A x \in DOMAIN pending : (a = "add" \/ x # h) => pending'[x] = pending[x]
<1> DEFINE m == Len(muts) + 1  n == [action |-> a, hash |-> h, status |-> "sent", mine |-> TRUE]
<1>1. n \in Attempt
  BY DEF Attempt
<1>2. muts' = Append(muts, n) /\ rq = NoRequest
  BY DEF Request
<1>3. n.action = a /\ n.hash = h
  OBVIOUS
<1> HIDE DEF n
<1>4. /\ m \in Nat /\ m # 0 /\ m \notin DOMAIN muts /\ DOMAIN muts' = DOMAIN muts \cup {m}
      /\ muts' \in Seq(Attempt) /\ muts'[m] = n /\ Len(muts') = m
      /\ \A k \in DOMAIN muts : muts'[k] = muts[k]
  BY <1>1, <1>2, AppendIs
<1>5. rq' = [mut |-> m, query |-> FALSE]
  BY <1>4 DEF Request
<1>6. rq'.mut = m /\ pending' = Put(m, a, h)
  BY <1>5 DEF Request, Put
<1> HIDE DEF m
<1>7. CASE a = "add"
  <2>1. pending' = pending
    BY <1>6, <1>7 DEF Put, Begun
  <2> QED BY <1>2, <1>3, <1>4, <1>5, <1>7, <2>1 DEF Request, TypeOK, m
<1>8. CASE a # "add"
  <2>n. m \in Nat
    BY <1>4
  <2>0. m \in Nat /\ pending' = Put(m, a, h)
    BY <2>n, <1>6
  <2>p. /\ PendingOK(Put(m, a, h)) /\ DOMAIN Put(m, a, h) = DOMAIN pending \cup {h}
        /\ Put(m, a, h)[h].ref = m /\ Put(m, a, h)[h].action = a
        /\ Put(m, a, h)[h].mut = Unknown
        /\ \A x \in DOMAIN pending : x # h => Put(m, a, h)[x] = pending[x]
    <3> HIDE DEF m
    <3>1. TypeOK /\ m \in Nat /\ a \in Action /\ h \in Hash /\ a # "add"
      BY <2>n, <1>8
    <3> QED BY ONLY <3>1, PutIs
  <2>1. /\ PendingOK(pending') /\ DOMAIN pending' = DOMAIN pending \cup {h}
        /\ pending'[h].ref = m /\ pending'[h].action = a /\ pending'[h].mut = Unknown
        /\ \A x \in DOMAIN pending : x # h => pending'[x] = pending[x]
    BY <2>0, <2>p
  <2> QED BY <1>2, <1>3, <1>4, <1>5, <1>8, <2>1 DEF Request, m
<1> QED BY <1>7, <1>8

LEMMA GrowsDoes ==
  ASSUME TypeOK, NEW h \in Hash, GrowsOld(h)
  PROVE  /\ UNCHANGED <<early, rq, muts, answer, pushes, lost, told, resets>>
         /\ PendingOK(pending') /\ DOMAIN pending' = DOMAIN pending
         /\ \A x \in DOMAIN pending :
              /\ pending'[x].ref = pending[x].ref /\ pending'[x].action = pending[x].action
              /\ pending'[x].mut = pending[x].mut
<1>1. /\ h \in DOMAIN pending /\ pending' = [pending EXCEPT ![h].old = TRUE]
      /\ UNCHANGED <<early, rq, muts, answer, pushes, lost, told, resets>>
  BY DEF GrowsOld
<1>2. DOMAIN pending \subseteq Hash /\ \A x \in DOMAIN pending : pending[x] \in Overlay
  BY DEF TypeOK, PendingOK
<1>3. DOMAIN pending' = DOMAIN pending
  BY <1>1
<1>4. ASSUME NEW x \in DOMAIN pending
      PROVE  /\ pending'[x] \in Overlay /\ pending'[x].ref = pending[x].ref
             /\ pending'[x].action = pending[x].action /\ pending'[x].mut = pending[x].mut
  <2>1. pending'[x] = IF x = h THEN [pending[x] EXCEPT !.old = TRUE] ELSE pending[x]
    BY <1>1
  <2> QED BY <1>2, <2>1 DEF Overlay
<1> QED BY <1>1, <1>2, <1>3, <1>4 DEF PendingOK

\* What the watchdog leaves: without some old removals.
Spared ==
  /\ DOMAIN pending' \subseteq DOMAIN pending
  /\ \A x \in DOMAIN pending \ DOMAIN pending' : x \in DueRemovals

\* The overlay at h is asked about.
Asked(h) ==
  /\ h \in DOMAIN pending /\ h \in DOMAIN pending'
  /\ pending[h].mut = pending[h].ref /\ rq' = [mut |-> pending[h].ref, query |-> TRUE]
  /\ pending'[h].ref = pending[h].ref /\ pending'[h].action = pending[h].action
  /\ pending'[h].mut = IF pending[h].action = "add" THEN pending[h].mut ELSE Unknown
  /\ \A x \in DOMAIN pending' : x # h => pending'[x] = pending[x]

LEMMA WatchdogDoes ==
  ASSUME TypeOK, MutInv, OverlayInv, Watchdog
  PROVE  /\ rq = NoRequest /\ UNCHANGED <<early, muts, answer, pushes, lost, told, resets>>
         /\ PendingOK(pending') /\ Spared
         /\ \/ UNCHANGED rq /\ \A x \in DOMAIN pending' : pending'[x] = pending[x]
            \/ \E h \in DOMAIN pending : Asked(h)
<1>1. rq = NoRequest /\ UNCHANGED <<early, muts, answer, pushes, lost, told, resets>>
  BY DEF Watchdog
<1>2. PendingOK(pending) /\ Due \subseteq DOMAIN pending /\ DueRemovals \subseteq Due
  BY DEF TypeOK, Due, DueRemovals
<1>3. CASE /\ Due = DueRemovals /\ pending' = Restrict(pending, DOMAIN pending \ Due)
           /\ UNCHANGED rq
  <2>1. DOMAIN pending \ Due \subseteq DOMAIN pending
    OBVIOUS
  <2>2. /\ PendingOK(pending') /\ DOMAIN pending' = DOMAIN pending \ Due
        /\ \A x \in DOMAIN pending' : pending'[x] = pending[x]
    BY <1>2, <1>3, <2>1, RestrictIs
  <2> QED BY <1>1, <1>3, <2>2 DEF Spared
<1>4. ASSUME NEW h \in Due \ DueRemovals, NEW R \in SUBSET DueRemovals,
             LET e == pending[h]  asked == Ask(e.ref, e.action, h)
             IN  /\ rq' = [mut |-> e.ref, query |-> TRUE]
                 /\ pending' = Restrict(asked, DOMAIN asked \ R)
      PROVE  PendingOK(pending') /\ Spared /\ Asked(h)
  <2> DEFINE e == pending[h]  asked == Ask(e.ref, e.action, h)
  <2>1. h \in DOMAIN pending /\ h \in Hash /\ e \in Overlay
    BY <1>2 DEF PendingOK
  <2>2. e.ref \in Nat /\ e.action \in Action /\ e.mut \in Nat
    BY <2>1 DEF Overlay
  <2>3. e.ref \in DOMAIN muts /\ e.mut = e.ref
    <3>1. e.ref \in DOMAIN muts /\ e.mut \in {Unknown, e.ref} /\ (e.mut = Unknown => rq.mut = e.ref)
      BY <2>1 DEF OverlayInv
    <3>2. e.ref # 0 /\ rq.mut = 0
      BY <1>1, <3>1, MutFields DEF NoRequest
    <3> QED BY <3>1, <3>2
  <2>4. /\ PendingOK(asked) /\ DOMAIN asked = DOMAIN pending
        /\ asked[h].ref = e.ref /\ asked[h].action = e.action
        /\ asked[h].mut = IF e.action = "add" THEN e.mut ELSE Unknown
        /\ \A x \in DOMAIN pending : x # h => asked[x] = pending[x]
    BY <2>1, <2>2, AskIs
  <2>5. rq' = [mut |-> e.ref, query |-> TRUE] /\ pending' = Restrict(asked, DOMAIN asked \ R)
    BY <1>4
  <2> HIDE DEF asked
  <2>6. /\ PendingOK(pending') /\ DOMAIN pending' = DOMAIN asked \ R
        /\ \A x \in DOMAIN pending' : pending'[x] = asked[x]
    BY <2>4, <2>5, RestrictIs
  <2>7. h \in DOMAIN pending' /\ Spared
    BY <2>1, <2>4, <2>6 DEF Spared
  <2> QED BY <2>1, <2>3, <2>4, <2>5, <2>6, <2>7 DEF Asked
<1>5. \/ /\ Due = DueRemovals /\ pending' = Restrict(pending, DOMAIN pending \ Due)
         /\ UNCHANGED rq
      \/ \E h \in Due \ DueRemovals, R \in SUBSET DueRemovals :
           LET e == pending[h]  asked == Ask(e.ref, e.action, h)
           IN  /\ rq' = [mut |-> e.ref, query |-> TRUE]
               /\ pending' = Restrict(asked, DOMAIN asked \ R)
  BY DEF Watchdog, Ask
<1>6. CASE \E h \in Due \ DueRemovals, R \in SUBSET DueRemovals :
             LET e == pending[h]  asked == Ask(e.ref, e.action, h)
             IN  /\ rq' = [mut |-> e.ref, query |-> TRUE]
                 /\ pending' = Restrict(asked, DOMAIN asked \ R)
  BY <1>1, <1>2, <1>4, <1>6
<1>7. CASE /\ Due = DueRemovals /\ pending' = Restrict(pending, DOMAIN pending \ Due)
           /\ UNCHANGED rq
  BY <1>1, <1>2, <1>3, <1>7
<1> QED BY <1>5, <1>6, <1>7

-----------------------------------------------------------------------------
(* The attempts.                                                           *)

\* An attempt stays what it is; what has reached the daemon and what is done
\* stays so.
Kept(n) ==
  /\ n \in Seq(Attempt) /\ DOMAIN muts \subseteq DOMAIN n
  /\ \A k \in DOMAIN muts :
       /\ n[k].action = muts[k].action /\ n[k].hash = muts[k].hash
       /\ muts[k].status = "done" => n[k].status = "done"
       /\ muts[k].status # "sent" => n[k].status # "sent"

LEMMA KeptStatus ==
  ASSUME TypeOK, NEW m \in DOMAIN muts, NEW s \in {"open", "done", "refused"},
         muts[m].status = "done" => s = "done", muts' = [muts EXCEPT ![m].status = s]
  PROVE  Kept(muts') /\ DOMAIN muts' = DOMAIN muts /\ muts'[m].status = s
<1>1. s \in {"sent", "open", "done", "refused"}
  OBVIOUS
<1> DEFINE n == [muts EXCEPT ![m].status = s]
<1>2. /\ n \in Seq(Attempt) /\ DOMAIN n = DOMAIN muts
      /\ \A k \in DOMAIN muts :
           /\ n[k].action = muts[k].action /\ n[k].hash = muts[k].hash
           /\ n[k].status = IF k = m THEN s ELSE muts[k].status
  BY <1>1, StatusIs
<1>3. muts' = n
  OBVIOUS
<1> HIDE DEF n
<1> QED BY <1>1, <1>2, <1>3 DEF Kept

LEMMA KeptSame ==
  ASSUME TypeOK, UNCHANGED muts
  PROVE  Kept(muts')
  BY DEF TypeOK, Kept

\* What the daemon does leaves the panel alone.
LEMMA RegisterDoes ==
  ASSUME TypeOK, NEW m \in DOMAIN muts, Register(m)
  PROVE  /\ Kept(muts') /\ UNCHANGED <<panelVars, answer, pushes, lost, told, resets>>
  BY KeptStatus DEF Register, Of

LEMMA SettleDoes ==
  ASSUME TypeOK, NEW m \in DOMAIN muts, Settle(m)
  PROVE  /\ Kept(muts') /\ muts[m].status = "open" /\ muts'[m].status = "done"
         /\ pushes' = Append(pushes, m) \/ UNCHANGED pushes
         /\ UNCHANGED <<panelVars, answer, told, resets>>
  BY KeptStatus DEF Settle, Of

LEMMA RefuseDoes ==
  ASSUME TypeOK, MutInv, Refuse
  PROVE  /\ Kept(muts') /\ rq.mut # 0 /\ answer' = "rejected"
         /\ UNCHANGED <<panelVars, pushes, lost, told, resets>>
<1>1. rq # NoRequest /\ rq.mut \in DOMAIN muts /\ rq.mut # 0
  BY DEF Refuse, Fresh, MutInv
<1> DEFINE s == IF muts[rq.mut].status = "done" THEN "done" ELSE "refused"
<1>2. muts' = [muts EXCEPT ![rq.mut].status = s]
  BY <1>1 DEF Refuse
<1>3. s \in {"open", "done", "refused"} /\ (muts[rq.mut].status = "done" => s = "done")
  OBVIOUS
<1> HIDE DEF s
<1>4. Kept(muts')
  BY <1>1, <1>2, <1>3, KeptStatus
<1> QED BY <1>1, <1>4 DEF Refuse

LEMMA AcceptDoes ==
  ASSUME TypeOK, MutInv, Accept
  PROVE  /\ rq.mut # 0 /\ answer' = "accepted" /\ muts[rq.mut].status # "sent"
         /\ UNCHANGED <<panelVars, muts, pushes, lost, told, resets>>
  BY DEF Accept, Fresh, MutInv, Of

LEMMA ReplayDoes ==
  ASSUME TypeOK, MutInv, Replay
  PROVE  /\ rq.mut # 0 /\ rq.query /\ muts[rq.mut].status # "sent"
         /\ answer' \in {"accepted", "result", "rejected"}
         /\ answer' = "result" => muts[rq.mut].status = "done"
         /\ UNCHANGED <<panelVars, muts, pushes, lost, told, resets>>
<1>1. rq.query
  BY DEF Replay
<1>2. rq.mut # 0
  <2>1. NoRequest.query = FALSE
    BY DEF NoRequest
  <2> QED BY <1>1, <2>1 DEF MutInv
<1>3. rq.mut \in DOMAIN muts /\ muts[rq.mut].status # "sent"
  BY <1>1, <1>2 DEF MutInv
<1>4. muts[rq.mut].status \in {"open", "done", "refused"}
  BY <1>3, MutFields
<1>5. answer' = [open |-> "accepted", done |-> "result", refused |-> "rejected"][muts[rq.mut].status]
  BY DEF Replay, Of
<1>6. /\ answer' \in {"accepted", "result", "rejected"}
      /\ answer' = "result" => muts[rq.mut].status = "done"
  BY <1>4, <1>5
<1> QED BY <1>1, <1>2, <1>3, <1>6 DEF Replay

LEMMA ForeignDoes ==
  ASSUME TypeOK, NEW a \in Action, NEW h \in Hash, Foreign(a, h)
  PROVE  LET m == Len(muts) + 1 IN
         /\ Kept(muts') /\ m \notin DOMAIN muts /\ m \in Nat
         /\ m \in DOMAIN muts' /\ muts'[m].status = "done"
         /\ pushes' = Append(pushes, m)
         /\ UNCHANGED <<panelVars, answer, lost, told, resets>>
<1> DEFINE n == [action |-> a, hash |-> h, status |-> "done", mine |-> FALSE]
<1>1. n \in Attempt /\ n.status = "done"
  BY DEF Attempt
<1>2. muts' = Append(muts, n) /\ pushes' = Append(pushes, Len(muts'))
  BY DEF Foreign
<1> HIDE DEF n
<1>3. /\ Append(muts, n) \in Seq(Attempt) /\ Len(Append(muts, n)) = Len(muts) + 1
      /\ DOMAIN Append(muts, n) = DOMAIN muts \cup {Len(muts) + 1}
      /\ Len(muts) \in Nat /\ Len(muts) + 1 \notin DOMAIN muts
      /\ Append(muts, n)[Len(muts) + 1] = n
      /\ \A k \in DOMAIN muts : Append(muts, n)[k] = muts[k]
  BY <1>1, AppendIs
<1>4. Kept(muts')
  BY <1>2, <1>3 DEF Kept
<1> QED BY <1>1, <1>2, <1>3, <1>4 DEF Foreign

LEMMA RequestKeeps ==
  ASSUME TypeOK, NEW a \in Action, NEW h \in Hash, Request(a, h)
  PROVE  Kept(muts')
  BY RequestDoes DEF Kept

LEMMA ResetDoes ==
  ASSUME Reset
  PROVE  /\ pending' = <<>> /\ early' = <<>> /\ rq' = NoRequest /\ answer' = "none"
         /\ pushes' = <<>> /\ told' = <<>> /\ resets' = resets + 1 /\ UNCHANGED muts
  BY DEF Reset

LEMMA NothingPending == PendingOK(<<>>) /\ DOMAIN <<>> = {}
  BY DEF PendingOK

-----------------------------------------------------------------------------
(* The invariants hold at first.                                           *)

LEMMA PanelInit == Init => TypeOK /\ PanelInv
<1> SUFFICES ASSUME Init PROVE TypeOK /\ PanelInv
  OBVIOUS
<1>1. /\ pending = <<>> /\ early = <<>> /\ rq = NoRequest /\ muts = <<>> /\ answer = "none"
      /\ pushes = <<>> /\ told = <<>> /\ resets = 0
  BY DEF Init
<1>2. TypeOK
  BY <1>1, NothingPending DEF TypeOK, NoRequest
<1>3. rq.mut = 0 /\ ~rq.query
  BY <1>1 DEF NoRequest
<1>4. DOMAIN pending = {} /\ DOMAIN early = {} /\ DOMAIN told = {} /\ DOMAIN pushes = {}
  BY <1>1
<1>5. Len(early) <= MaxEarly
  BY <1>1, OverlaysAssumption
<1> QED
  BY <1>1, <1>2, <1>3, <1>4, <1>5
  DEF PanelInv, MutInv, OnceInv, OverlayInv, BufferInv, MemoryInv

-----------------------------------------------------------------------------
(* Every step keeps the types.                                             *)

\* A result is added, or added while the oldest goes.
LEMMA AddedIs ==
  ASSUME NEW s \in Seq(Nat), NEW m \in Nat
  PROVE  /\ Append(s, m) \in Seq(Nat) /\ Len(Append(s, m)) = Len(s) + 1
         /\ DOMAIN Append(s, m) = 1..(Len(s) + 1) /\ DOMAIN s = 1..Len(s) /\ Len(s) \in Nat
         /\ \A k \in DOMAIN s : Append(s, m)[k] = s[k]
         /\ Append(s, m)[Len(s) + 1] = m
  OBVIOUS

LEMMA RestIs ==
  ASSUME NEW s \in Seq(Nat), Len(s) > 0
  PROVE  /\ Tail(s) \in Seq(Nat) /\ Len(Tail(s)) = Len(s) - 1 /\ Len(s) \in Nat
         /\ DOMAIN Tail(s) = 1..(Len(s) - 1) /\ DOMAIN s = 1..Len(s)
         /\ \A k \in 1..(Len(s) - 1) : Tail(s)[k] = s[k + 1]
  OBVIOUS

LEMMA UnqueriedIs == NoRequest \in [mut : Nat, query : BOOLEAN] /\ NoRequest.mut = 0 /\ ~NoRequest.query
  BY DEF NoRequest

LEMMA TypeNext == TypeOK /\ PanelInv /\ [Next]_vars => TypeOK'
<1> SUFFICES ASSUME TypeOK, MutInv, OnceInv, OverlayInv, BufferInv, [Next]_vars
             PROVE  TypeOK'
  BY DEF PanelInv
<1>0. /\ PendingOK(pending) /\ early \in Seq(Nat) /\ rq \in [mut : Nat, query : BOOLEAN]
      /\ muts \in Seq(Attempt) /\ answer \in {"none", "accepted", "result", "rejected"}
      /\ pushes \in Seq(Nat) /\ told \in Seq(Nat) /\ resets \in Nat
  BY DEF TypeOK
<1>1. ASSUME NEW a \in Action, NEW h \in Hash, Request(a, h) PROVE TypeOK'
  <2>1. Len(muts) + 1 \in Nat /\ rq' = [mut |-> Len(muts) + 1, query |-> FALSE]
    BY <1>1, RequestDoes
  <2>2. rq' \in [mut : Nat, query : BOOLEAN]
    BY <2>1
  <2>3. /\ PendingOK(pending') /\ muts' \in Seq(Attempt)
        /\ UNCHANGED <<early, answer, pushes, lost, told, resets>>
    BY <1>1, RequestDoes
  <2> QED BY <1>0, <2>2, <2>3 DEF TypeOK
<1>2. ASSUME NEW a \in Action, NEW h \in Hash, Foreign(a, h) PROVE TypeOK'
  <2>1. /\ Kept(muts') /\ Len(muts) + 1 \in Nat /\ pushes' = Append(pushes, Len(muts) + 1)
        /\ UNCHANGED <<panelVars, answer, lost, told, resets>>
    BY <1>2, ForeignDoes
  <2>2. pushes' \in Seq(Nat)
    BY <1>0, <2>1
  <2> QED BY <1>0, <2>1, <2>2 DEF TypeOK, Kept, panelVars
<1>3. CASE OnAccepted
  <2>1. /\ rq' = NoRequest /\ answer' = "none" /\ PendingOK(pending')
        /\ UNCHANGED <<muts, pushes, lost, told, resets>>
        /\ early' = Unbuffered(rq.mut) \/ UNCHANGED early
    BY <1>3, AcceptedDoes
  <2> QED BY <1>0, <2>1, UnbufferedIs, UnqueriedIs DEF TypeOK
<1>4. CASE OnResultResponse
  <2>1. /\ rq' = NoRequest /\ answer' = "none" /\ PendingOK(pending')
        /\ UNCHANGED <<muts, pushes, lost, told, resets>> /\ early' = Unbuffered(rq.mut)
    BY <1>4, ResponseDoes
  <2> QED BY <1>0, <2>1, UnbufferedIs, UnqueriedIs DEF TypeOK
<1>5. CASE OnRejected
  <2>1. /\ rq' = NoRequest /\ answer' = "none" /\ PendingOK(pending')
        /\ UNCHANGED <<early, muts, pushes, lost, told, resets>>
    BY <1>5, RejectedDoes
  <2> QED BY <1>0, <2>1, UnqueriedIs DEF TypeOK
<1>6. CASE OnResultPush
  <2> DEFINE m == Head(pushes)
  <2>1. /\ m \in DOMAIN muts /\ told' = Append(told, m) /\ pushes' = Tail(pushes)
        /\ PendingOK(pending') /\ UNCHANGED <<rq, muts, answer, lost, resets>>
        /\ \/ UNCHANGED early \/ early' = Tail(Append(early, m)) \/ early' = Append(early, m)
    BY <1>6, PushDoes
  <2>2. m \in Nat
    BY <2>1, MutFields
  <2>3. pushes # <<>>
    BY <1>6 DEF OnResultPush
  <2> HIDE DEF m
  <2>4. told' \in Seq(Nat) /\ pushes' \in Seq(Nat)
    BY <1>0, <2>1, <2>2, <2>3
  <2>5. Append(early, m) \in Seq(Nat) /\ Tail(Append(early, m)) \in Seq(Nat)
    <3>1. Append(early, m) \in Seq(Nat) /\ Len(Append(early, m)) > 0
      BY <1>0, <2>2, AddedIs
    <3> QED BY <3>1, RestIs
  <2>6. early' \in Seq(Nat)
    BY <1>0, <2>1, <2>5
  <2> QED BY <1>0, <2>1, <2>4, <2>6 DEF TypeOK
<1>7. ASSUME NEW h \in Hash, GrowsOld(h) PROVE TypeOK'
  BY <1>0, <1>7, GrowsDoes DEF TypeOK
<1>8. CASE Watchdog
  <2>1. /\ UNCHANGED <<early, muts, answer, pushes, lost, told, resets>> /\ PendingOK(pending')
        /\ UNCHANGED rq \/ \E h \in DOMAIN pending : Asked(h)
    BY <1>8, WatchdogDoes
  <2>2. ASSUME NEW h \in DOMAIN pending, Asked(h) PROVE rq' \in [mut : Nat, query : BOOLEAN]
    <3>1. pending[h].ref \in Nat
      BY <1>0 DEF PendingOK, Overlay
    <3> QED BY <2>2, <3>1 DEF Asked
  <2> QED BY <1>0, <2>1, <2>2 DEF TypeOK
<1>9. CASE Reset
  BY <1>0, <1>9, ResetDoes, NothingPending, UnqueriedIs DEF TypeOK
<1>10. ASSUME NEW m \in DOMAIN muts, Register(m) PROVE TypeOK'
  BY <1>0, <1>10, RegisterDoes DEF TypeOK, Kept, panelVars
<1>11. ASSUME NEW m \in DOMAIN muts, Settle(m) PROVE TypeOK'
  <2>1. m \in Nat
    BY MutFields
  <2>2. pushes' = Append(pushes, m) \/ pushes' = pushes
    BY <1>11, SettleDoes
  <2>3. pushes' \in Seq(Nat)
    <3>1. Append(pushes, m) \in Seq(Nat)
      BY <1>0, <2>1, AddedIs
    <3> QED BY <1>0, <2>2, <3>1
  <2> QED BY <1>0, <1>11, <2>3, SettleDoes DEF TypeOK, Kept, panelVars
<1>12. CASE Accept
  BY <1>0, <1>12, AcceptDoes DEF TypeOK, panelVars
<1>13. CASE Refuse
  BY <1>0, <1>13, RefuseDoes DEF TypeOK, Kept, panelVars
<1>14. CASE Replay
  BY <1>0, <1>14, ReplayDoes DEF TypeOK, panelVars
<1>15. CASE UNCHANGED vars
  BY <1>0, <1>15 DEF TypeOK, vars
<1> QED
  BY <1>1, <1>2, <1>3, <1>4, <1>5, <1>6, <1>7, <1>8, <1>9, <1>10, <1>11, <1>12, <1>13, <1>14, <1>15
  DEF Next

-----------------------------------------------------------------------------
(* Every step keeps MutInv.                                                *)

\* The two halves of MutInv: the request, and the results on their way.
RequestInv ==
  /\ rq.mut # 0 => rq.mut \in DOMAIN muts
  /\ rq.mut = 0 => rq = NoRequest /\ answer = "none"
  /\ answer = "result" => muts[rq.mut].status = "done"
  /\ answer = "accepted" \/ rq.query => muts[rq.mut].status # "sent"

Done(s, n) == \A i \in DOMAIN s : s[i] \in DOMAIN n /\ n[s[i]].status = "done"

LEMMA MutParts ==
  /\ MutInv <=> RequestInv /\ Done(early, muts) /\ Done(pushes, muts) /\ Done(told, muts)
  /\ MutInv' <=> RequestInv' /\ Done(early', muts') /\ Done(pushes', muts') /\ Done(told', muts')
  BY DEF MutInv, RequestInv, Done

LEMMA DoneKept ==
  ASSUME NEW s, Done(s, muts), Kept(muts') PROVE Done(s, muts')
  BY DEF Done, Kept

LEMMA DoneAdded ==
  ASSUME NEW s \in Seq(Nat), NEW m \in Nat, NEW n, Done(s, n), m \in DOMAIN n, n[m].status = "done"
  PROVE  Done(Append(s, m), n)
<1>1. /\ DOMAIN Append(s, m) = 1..(Len(s) + 1) /\ DOMAIN s = 1..Len(s) /\ Len(s) \in Nat
      /\ \A k \in DOMAIN s : Append(s, m)[k] = s[k]
      /\ Append(s, m)[Len(s) + 1] = m
  BY AddedIs
<1>2. \A k \in 1..(Len(s) + 1) : k \in DOMAIN s \/ k = Len(s) + 1
  BY <1>1
<1> QED BY <1>1, <1>2 DEF Done

LEMMA DoneRest ==
  ASSUME NEW s \in Seq(Nat), Len(s) > 0, NEW n, Done(s, n)
  PROVE  Done(Tail(s), n)
<1>1. /\ DOMAIN Tail(s) = 1..(Len(s) - 1) /\ DOMAIN s = 1..Len(s) /\ Len(s) \in Nat
      /\ \A k \in 1..(Len(s) - 1) : Tail(s)[k] = s[k + 1]
  BY RestIs
<1>2. \A k \in 1..(Len(s) - 1) : k + 1 \in 1..Len(s)
  BY <1>1
<1> QED BY <1>1, <1>2 DEF Done

LEMMA DoneUnbuffered ==
  ASSUME TypeOK, Done(early, muts), NEW m
  PROVE  Done(Unbuffered(m), muts)
<1>1. CASE Unbuffered(m) = early
  BY <1>1
<1>2. ASSUME NEW i \in DOMAIN early, Len(Unbuffered(m)) = Len(early) - 1,
             \A k \in DOMAIN Unbuffered(m) :
               Unbuffered(m)[k] = IF k < i THEN early[k] ELSE early[k + 1]
      PROVE  Done(Unbuffered(m), muts)
  <2>1. Unbuffered(m) \in Seq(Nat) /\ early \in Seq(Nat)
    BY UnbufferedIs DEF TypeOK
  <2>2. \A k \in DOMAIN Unbuffered(m) : k \in DOMAIN early /\ k + 1 \in DOMAIN early
    BY <1>2, <2>1
  <2>3. \A k \in DOMAIN Unbuffered(m) : \E j \in DOMAIN early : Unbuffered(m)[k] = early[j]
    BY <1>2, <2>2
  <2> QED BY <2>3 DEF Done
<1> QED BY <1>1, <1>2, UnbufferedIs

LEMMA MutNext == TypeOK /\ PanelInv /\ [Next]_vars => MutInv'
<1> SUFFICES ASSUME TypeOK, MutInv, OnceInv, OverlayInv, BufferInv, [Next]_vars
             PROVE  MutInv'
  BY DEF PanelInv
<1>0. RequestInv /\ Done(early, muts) /\ Done(pushes, muts) /\ Done(told, muts)
  BY MutParts
<1>k. /\ early \in Seq(Nat) /\ pushes \in Seq(Nat) /\ told \in Seq(Nat)
      /\ Kept(muts') => Done(early, muts') /\ Done(pushes, muts') /\ Done(told, muts')
  BY <1>0, DoneKept DEF TypeOK
<1>n. rq' = NoRequest /\ answer' = "none" => RequestInv'
  BY UnqueriedIs DEF RequestInv
<1>s. Kept(muts') /\ UNCHANGED <<rq, answer>> => RequestInv'
  <2> SUFFICES ASSUME Kept(muts'), UNCHANGED <<rq, answer>> PROVE RequestInv'
    OBVIOUS
  <2>1. answer = "result" \/ answer = "accepted" \/ rq.query => rq.mut \in DOMAIN muts
    BY <1>0, UnqueriedIs DEF RequestInv
  <2> QED BY <1>0, <2>1 DEF RequestInv, Kept
<1>1. ASSUME NEW a \in Action, NEW h \in Hash, Request(a, h) PROVE MutInv'
  <2> DEFINE m == Len(muts) + 1
  <2>1. /\ rq = NoRequest /\ rq' = [mut |-> m, query |-> FALSE] /\ m # 0 /\ m \in DOMAIN muts'
        /\ UNCHANGED <<early, answer, pushes, lost, told, resets>>
    BY <1>1, RequestDoes
  <2>2. Kept(muts')
    BY <1>1, RequestKeeps
  <2> HIDE DEF m
  <2>3. rq'.mut = m /\ ~rq'.query /\ answer' = "none"
    BY <1>0, <2>1, UnqueriedIs DEF RequestInv
  <2>4. RequestInv'
    BY <2>1, <2>3 DEF RequestInv
  <2> QED BY <1>k, <2>1, <2>2, <2>4, MutParts
<1>2. ASSUME NEW a \in Action, NEW h \in Hash, Foreign(a, h) PROVE MutInv'
  <2> DEFINE m == Len(muts) + 1
  <2>1. /\ Kept(muts') /\ m \in Nat /\ m \in DOMAIN muts' /\ muts'[m].status = "done"
        /\ pushes' = Append(pushes, m) /\ UNCHANGED <<panelVars, answer, lost, told, resets>>
    BY <1>2, ForeignDoes
  <2> HIDE DEF m
  <2>2. Done(pushes', muts')
    BY <1>k, <2>1, DoneAdded
  <2> QED BY <1>k, <1>s, <2>1, <2>2, MutParts DEF panelVars
<1>3. CASE OnAccepted
  <2>1. /\ rq' = NoRequest /\ answer' = "none" /\ UNCHANGED <<muts, pushes, lost, told, resets>>
        /\ early' = Unbuffered(rq.mut) \/ UNCHANGED early
    BY <1>3, AcceptedDoes
  <2>2. Done(Unbuffered(rq.mut), muts)
    BY <1>0, DoneUnbuffered
  <2> QED BY <1>0, <1>n, <2>1, <2>2, MutParts
<1>4. CASE OnResultResponse
  <2>1. /\ rq' = NoRequest /\ answer' = "none" /\ UNCHANGED <<muts, pushes, lost, told, resets>>
        /\ early' = Unbuffered(rq.mut)
    BY <1>4, ResponseDoes
  <2>2. Done(Unbuffered(rq.mut), muts)
    BY <1>0, DoneUnbuffered
  <2> QED BY <1>0, <1>n, <2>1, <2>2, MutParts
<1>5. CASE OnRejected
  <2>1. /\ rq' = NoRequest /\ answer' = "none"
        /\ UNCHANGED <<early, muts, pushes, lost, told, resets>>
    BY <1>5, RejectedDoes
  <2> QED BY <1>0, <1>n, <2>1, MutParts
<1>6. CASE OnResultPush
  <2> DEFINE m == Head(pushes)
  <2>1. /\ m \in DOMAIN muts /\ muts[m].status = "done"
        /\ told' = Append(told, m) /\ pushes' = Tail(pushes)
        /\ UNCHANGED <<rq, muts, answer, lost, resets>>
        /\ \/ UNCHANGED early \/ early' = Tail(Append(early, m)) \/ early' = Append(early, m)
    BY <1>6, PushDoes
  <2>2. m \in Nat
    BY <2>1, MutFields
  <2>3. Len(pushes) > 0
    BY <1>6, <1>k DEF OnResultPush
  <2> HIDE DEF m
  <2>4. Done(told', muts')
    BY <1>0, <1>k, <2>1, <2>2, DoneAdded
  <2>5. Done(pushes', muts')
    BY <1>0, <1>k, <2>1, <2>3, DoneRest
  <2>6. Done(Append(early, m), muts)
    BY <1>0, <1>k, <2>1, <2>2, DoneAdded
  <2>7. Done(Tail(Append(early, m)), muts)
    <3>1. Append(early, m) \in Seq(Nat) /\ Len(Append(early, m)) > 0
      BY <1>k, <2>2, AddedIs
    <3> QED BY <2>6, <3>1, DoneRest
  <2>8. Done(early', muts')
    BY <1>0, <2>1, <2>6, <2>7
  <2>9. Kept(muts')
    BY <2>1, KeptSame
  <2> QED BY <1>s, <2>1, <2>4, <2>5, <2>8, <2>9, MutParts
<1>7. ASSUME NEW h \in Hash, GrowsOld(h) PROVE MutInv'
  BY <1>k, <1>s, <1>7, GrowsDoes, KeptSame, MutParts
<1>8. CASE Watchdog
  <2>1. /\ UNCHANGED <<early, muts, answer, pushes, lost, told, resets>> /\ rq = NoRequest
        /\ UNCHANGED rq \/ \E h \in DOMAIN pending : Asked(h)
    BY <1>8, WatchdogDoes
  <2>2. ASSUME NEW h \in DOMAIN pending, Asked(h) PROVE RequestInv'
    <3>1. rq' = [mut |-> pending[h].ref, query |-> TRUE] /\ pending[h].mut = pending[h].ref
      BY <2>2 DEF Asked
    <3>2. pending[h].ref \in DOMAIN muts
      BY DEF OverlayInv
    <3>3. pending[h].ref # 0
      BY <3>2, MutFields
    <3>4. muts[pending[h].ref].status # "sent"
      BY <3>1, <3>3 DEF OverlayInv, Unknown
    <3>5. answer' = "none"
      BY <1>0, <2>1, UnqueriedIs DEF RequestInv
    <3> QED BY <2>1, <3>1, <3>2, <3>3, <3>4, <3>5 DEF RequestInv
  <2>3. RequestInv'
    BY <1>s, <2>1, <2>2, KeptSame
  <2> QED BY <1>0, <2>1, <2>3, MutParts
<1>9. CASE Reset
  <2>1. Done(<<>>, muts)
    BY DEF Done
  <2> QED BY <1>n, <1>9, <2>1, ResetDoes, MutParts
<1>10. ASSUME NEW m \in DOMAIN muts, Register(m) PROVE MutInv'
  BY <1>k, <1>s, <1>10, RegisterDoes, MutParts DEF panelVars
<1>11. ASSUME NEW m \in DOMAIN muts, Settle(m) PROVE MutInv'
  <2>1. /\ Kept(muts') /\ muts'[m].status = "done" /\ UNCHANGED <<panelVars, answer, told, resets>>
        /\ pushes' = Append(pushes, m) \/ UNCHANGED pushes
    BY <1>11, SettleDoes
  <2>2. m \in Nat /\ m \in DOMAIN muts'
    BY <2>1, MutFields DEF Kept
  <2>3. Done(Append(pushes, m), muts')
    BY <1>k, <2>1, <2>2, DoneAdded
  <2> QED BY <1>k, <1>s, <2>1, <2>3, MutParts DEF panelVars
<1>12. CASE Accept
  <2>1. /\ rq.mut # 0 /\ answer' = "accepted" /\ muts[rq.mut].status # "sent"
        /\ UNCHANGED <<panelVars, muts, pushes, lost, told, resets>>
    BY <1>12, AcceptDoes
  <2>2. RequestInv'
    BY <1>0, <2>1 DEF RequestInv, panelVars
  <2> QED BY <1>0, <2>1, <2>2, MutParts DEF panelVars
<1>13. CASE Refuse
  <2>1. /\ Kept(muts') /\ rq.mut # 0 /\ answer' = "rejected"
        /\ UNCHANGED <<panelVars, pushes, lost, told, resets>>
    BY <1>13, RefuseDoes
  <2>2. RequestInv'
    BY <1>0, <2>1 DEF RequestInv, Kept, panelVars
  <2> QED BY <1>k, <2>1, <2>2, MutParts DEF panelVars
<1>14. CASE Replay
  <2>1. /\ rq.mut # 0 /\ rq.query /\ muts[rq.mut].status # "sent"
        /\ answer' = "result" => muts[rq.mut].status = "done"
        /\ UNCHANGED <<panelVars, muts, pushes, lost, told, resets>>
    BY <1>14, ReplayDoes
  <2>2. RequestInv'
    BY <1>0, <2>1 DEF RequestInv, panelVars
  <2> QED BY <1>0, <2>1, <2>2, MutParts DEF panelVars
<1>15. CASE UNCHANGED vars
  BY <1>k, <1>s, <1>15, KeptSame, MutParts DEF vars
<1> QED
  BY <1>1, <1>2, <1>3, <1>4, <1>5, <1>6, <1>7, <1>8, <1>9, <1>10, <1>11, <1>12, <1>13, <1>14, <1>15
  DEF Next

-----------------------------------------------------------------------------
(* A mutation is told once.                                                *)

LEMMA OnceAdded ==
  ASSUME TypeOK, OnceInv, NEW m \in Nat,
         \A i \in DOMAIN told : told[i] # m, \A i \in DOMAIN pushes : pushes[i] # m,
         UNCHANGED told, pushes' = Append(pushes, m)
  PROVE  OnceInv'
<1>1. /\ DOMAIN pushes' = 1..(Len(pushes) + 1) /\ DOMAIN pushes = 1..Len(pushes)
      /\ Len(pushes) \in Nat /\ \A k \in DOMAIN pushes : pushes'[k] = pushes[k]
      /\ pushes'[Len(pushes) + 1] = m
  BY AddedIs DEF TypeOK
<1>2. \A k \in DOMAIN pushes' : k \in DOMAIN pushes \/ k = Len(pushes) + 1
  BY <1>1
<1> QED BY <1>1, <1>2 DEF OnceInv

LEMMA OncePushed ==
  ASSUME TypeOK, OnceInv, Len(pushes) > 0, told' = Append(told, Head(pushes)), pushes' = Tail(pushes)
  PROVE  OnceInv'
<1> DEFINE m == Head(pushes)
<1>1. pushes \in Seq(Nat) /\ told \in Seq(Nat) /\ 1 \in DOMAIN pushes /\ m = pushes[1] /\ m \in Nat
  BY DEF TypeOK
<1>2. /\ DOMAIN told' = 1..(Len(told) + 1) /\ DOMAIN told = 1..Len(told) /\ Len(told) \in Nat
      /\ \A k \in DOMAIN told : told'[k] = told[k]
      /\ told'[Len(told) + 1] = m
  BY <1>1, AddedIs
<1>3. /\ DOMAIN pushes' = 1..(Len(pushes) - 1) /\ DOMAIN pushes = 1..Len(pushes)
      /\ Len(pushes) \in Nat /\ \A k \in 1..(Len(pushes) - 1) : pushes'[k] = pushes[k + 1]
  BY <1>1, RestIs
<1> HIDE DEF m
<1>4. \A k \in DOMAIN told' : k \in DOMAIN told \/ k = Len(told) + 1
  BY <1>2
<1>5. \A k \in DOMAIN pushes' : k + 1 \in DOMAIN pushes /\ k + 1 # 1 /\ k \in Nat
  BY <1>3
<1>6. \A i, j \in DOMAIN pushes' : pushes'[i] = pushes'[j] => i = j
  <2> SUFFICES ASSUME NEW i \in DOMAIN pushes', NEW j \in DOMAIN pushes', pushes'[i] = pushes'[j]
               PROVE  i = j
    OBVIOUS
  <2>1. pushes[i + 1] = pushes[j + 1]
    BY <1>3
  <2>2. i + 1 = j + 1
    BY <1>5, <2>1 DEF OnceInv
  <2> QED BY <1>5, <2>2
<1>7. \A k \in DOMAIN pushes' : pushes'[k] # m /\ \A i \in DOMAIN told : told[i] # pushes'[k]
  <2> SUFFICES ASSUME NEW k \in DOMAIN pushes'
               PROVE  pushes'[k] # m /\ \A i \in DOMAIN told : told[i] # pushes'[k]
    OBVIOUS
  <2>1. k + 1 \in DOMAIN pushes /\ k + 1 # 1 /\ pushes'[k] = pushes[k + 1]
    BY <1>3, <1>5
  <2>2. pushes[k + 1] # pushes[1]
    BY <1>1, <2>1 DEF OnceInv
  <2>3. \A i \in DOMAIN told : told[i] # pushes[k + 1]
    BY <2>1 DEF OnceInv
  <2> QED BY <1>1, <2>1, <2>2, <2>3
<1>8. \A i \in DOMAIN told : told[i] # m
  BY <1>1 DEF OnceInv
<1>9. \A i, j \in DOMAIN told' : told'[i] = told'[j] => i = j
  BY <1>2, <1>4, <1>8 DEF OnceInv
<1>10. \A i \in DOMAIN told', j \in DOMAIN pushes' : told'[i] # pushes'[j]
  BY <1>2, <1>4, <1>7
<1> QED BY <1>6, <1>9, <1>10 DEF OnceInv

LEMMA OnceNext == TypeOK /\ PanelInv /\ [Next]_vars => OnceInv'
<1> SUFFICES ASSUME TypeOK, MutInv, OnceInv, OverlayInv, BufferInv, [Next]_vars
             PROVE  OnceInv'
  BY DEF PanelInv
<1>0. UNCHANGED <<told, pushes>> => OnceInv'
  BY DEF OnceInv
<1>1. ASSUME NEW a \in Action, NEW h \in Hash, Request(a, h) PROVE OnceInv'
  BY <1>0, <1>1, RequestDoes
<1>2. ASSUME NEW a \in Action, NEW h \in Hash, Foreign(a, h) PROVE OnceInv'
  <2> DEFINE m == Len(muts) + 1
  <2>1. m \notin DOMAIN muts /\ m \in Nat /\ pushes' = Append(pushes, m) /\ UNCHANGED told
    BY <1>2, ForeignDoes
  <2> HIDE DEF m
  <2>2. /\ \A i \in DOMAIN told : told[i] # m
        /\ \A i \in DOMAIN pushes : pushes[i] # m
    BY <2>1 DEF MutInv
  <2> QED BY <2>1, <2>2, OnceAdded
<1>3. CASE OnAccepted
  BY <1>0, <1>3, AcceptedDoes
<1>4. CASE OnResultResponse
  BY <1>0, <1>4, ResponseDoes
<1>5. CASE OnRejected
  BY <1>0, <1>5, RejectedDoes
<1>6. CASE OnResultPush
  <2>1. told' = Append(told, Head(pushes)) /\ pushes' = Tail(pushes)
    BY <1>6, PushDoes
  <2>2. Len(pushes) > 0
    BY <1>6 DEF OnResultPush, TypeOK
  <2> QED BY <2>1, <2>2, OncePushed
<1>7. ASSUME NEW h \in Hash, GrowsOld(h) PROVE OnceInv'
  BY <1>0, <1>7, GrowsDoes
<1>8. CASE Watchdog
  BY <1>0, <1>8, WatchdogDoes
<1>9. CASE Reset
  BY <1>9, ResetDoes DEF OnceInv
<1>10. ASSUME NEW m \in DOMAIN muts, Register(m) PROVE OnceInv'
  BY <1>0, <1>10, RegisterDoes
<1>11. ASSUME NEW m \in DOMAIN muts, Settle(m) PROVE OnceInv'
  <2>1. /\ muts[m].status = "open" /\ UNCHANGED told
        /\ pushes' = Append(pushes, m) \/ UNCHANGED pushes
    BY <1>11, SettleDoes
  <2>2. m \in Nat
    BY MutFields
  <2>3. /\ \A i \in DOMAIN told : told[i] # m
        /\ \A i \in DOMAIN pushes : pushes[i] # m
    BY <2>1 DEF MutInv
  <2> QED BY <1>0, <2>1, <2>2, <2>3, OnceAdded
<1>12. CASE Accept
  BY <1>0, <1>12, AcceptDoes
<1>13. CASE Refuse
  BY <1>0, <1>13, RefuseDoes
<1>14. CASE Replay
  BY <1>0, <1>14, ReplayDoes
<1>15. CASE UNCHANGED vars
  BY <1>0, <1>15 DEF vars
<1> QED
  BY <1>1, <1>2, <1>3, <1>4, <1>5, <1>6, <1>7, <1>8, <1>9, <1>10, <1>11, <1>12, <1>13, <1>14, <1>15
  DEF Next

-----------------------------------------------------------------------------
(* Every step keeps OverlayInv.                                            *)

\* The parts of OverlayInv.
OverlayOK(h) ==
  /\ pending[h].ref \in DOMAIN muts
  /\ muts[pending[h].ref].hash = h /\ muts[pending[h].ref].action = pending[h].action
  /\ pending[h].mut \in {Unknown, pending[h].ref}
  /\ pending[h].mut = Unknown => rq.mut = pending[h].ref /\ pending[h].action # "add"
  /\ pending[h].mut # Unknown => muts[pending[h].mut].status # "sent"

RequestHas ==
  rq.mut # 0 /\ muts[rq.mut].action # "add" =>
    /\ muts[rq.mut].hash \in DOMAIN pending
    /\ pending[muts[rq.mut].hash].ref = rq.mut
    /\ pending[muts[rq.mut].hash].mut = Unknown

RequestFree == rq.mut # 0 /\ ~rq.query => \A h \in DOMAIN pending : pending[h].mut # rq.mut

LEMMA OverlayParts ==
  /\ OverlayInv <=> (\A h \in DOMAIN pending : OverlayOK(h)) /\ RequestHas /\ RequestFree
  /\ OverlayInv' <=> (\A h \in DOMAIN pending' : OverlayOK(h)') /\ RequestHas' /\ RequestFree'
  BY DEF OverlayInv, OverlayOK, RequestHas, RequestFree

LEMMA OverlayKept ==
  ASSUME Kept(muts'), NEW h \in DOMAIN pending, OverlayOK(h),
         pending'[h].ref = pending[h].ref, pending'[h].action = pending[h].action,
         pending'[h].mut = pending[h].mut, UNCHANGED rq \/ pending[h].mut # Unknown
  PROVE  OverlayOK(h)'
  BY DEF OverlayOK, Kept

\* Only the request in flight has an overlay that is not tied.
LEMMA UntiedIs ==
  ASSUME TypeOK, OverlayInv, NEW h \in DOMAIN pending
  PROVE  pending[h].mut = Unknown =>
           /\ rq.mut # 0 /\ h = muts[rq.mut].hash
           /\ pending[h].action = muts[rq.mut].action /\ muts[rq.mut].action # "add"
  BY MutFields DEF OverlayInv

\* What is left by a result that settles the request in flight is tied.
LEMMA TerminalEnds ==
  ASSUME TypeOK, OverlayInv, rq.mut \in DOMAIN muts
  PROVE  LET p == Terminal(rq.mut) IN
         /\ DOMAIN p \subseteq DOMAIN pending
         /\ \A x \in DOMAIN p : p[x] = pending[x] /\ pending[x].mut # Unknown
<1> DEFINE m == rq.mut  h == muts[rq.mut].hash
<1>1. CASE h \in DOMAIN pending /\ pending[h].action = muts[m].action
           /\ pending[h].mut \in {Unknown, m}
  <2>1. Terminal(m) = Without(h)
    BY <1>1 DEF Terminal, Of
  <2>2. /\ DOMAIN Without(h) = DOMAIN pending \ {h}
        /\ \A x \in DOMAIN pending : x # h => Without(h)[x] = pending[x]
    BY WithoutIs
  <2>3. \A x \in DOMAIN pending : x # h => pending[x].mut # Unknown
    BY UntiedIs
  <2> QED BY <2>1, <2>2, <2>3
<1>2. CASE ~(h \in DOMAIN pending /\ pending[h].action = muts[m].action
             /\ pending[h].mut \in {Unknown, m})
  <2>1. Terminal(m) = pending
    BY <1>2 DEF Terminal, Of
  <2> QED BY <1>2, <2>1, UntiedIs
<1> QED BY <1>1, <1>2

LEMMA OverlayStays ==
  ASSUME TypeOK, MutInv, OverlayInv, Kept(muts'), UNCHANGED <<pending, rq>>
  PROVE  OverlayInv'
<1>1. (\A h \in DOMAIN pending : OverlayOK(h)) /\ RequestHas /\ RequestFree
  BY OverlayParts
<1>2. \A h \in DOMAIN pending' : OverlayOK(h)'
  BY <1>1, OverlayKept
<1>3. RequestHas' /\ RequestFree'
  BY <1>1 DEF RequestHas, RequestFree, MutInv, Kept
<1> QED BY <1>2, <1>3, OverlayParts

\* The request in flight is over, and what is left is tied.
LEMMA OverlayAnswered ==
  ASSUME TypeOK, MutInv, OverlayInv, Kept(muts'), rq' = NoRequest,
         DOMAIN pending' \subseteq DOMAIN pending,
         \A x \in DOMAIN pending' : pending'[x] = pending[x] /\ pending[x].mut # Unknown
  PROVE  OverlayInv'
<1>1. \A h \in DOMAIN pending' : OverlayOK(h)'
  BY OverlayKept, OverlayParts
<1>2. RequestHas' /\ RequestFree'
  BY UnqueriedIs DEF RequestHas, RequestFree
<1> QED BY <1>1, <1>2, OverlayParts

LEMMA OverlayNext == TypeOK /\ PanelInv /\ [Next]_vars => OverlayInv'
<1> SUFFICES ASSUME TypeOK, MutInv, OnceInv, OverlayInv, BufferInv, [Next]_vars
             PROVE  OverlayInv'
  BY DEF PanelInv
<1>0. /\ \A h \in DOMAIN pending : OverlayOK(h)
      /\ RequestHas /\ RequestFree
  BY OverlayParts
<1>1. ASSUME NEW a \in Action, NEW h \in Hash, Request(a, h) PROVE OverlayInv'
  <2> DEFINE m == Len(muts) + 1
  <2>1. /\ rq = NoRequest /\ rq' = [mut |-> m, query |-> FALSE]
        /\ m \in Nat /\ m # 0 /\ m \notin DOMAIN muts /\ DOMAIN muts' = DOMAIN muts \cup {m}
        /\ muts' \in Seq(Attempt) /\ muts'[m].action = a /\ muts'[m].hash = h
        /\ \A k \in DOMAIN muts : muts'[k] = muts[k]
        /\ a # "add" => /\ DOMAIN pending' = DOMAIN pending \cup {h}
                        /\ pending'[h].ref = m /\ pending'[h].action = a
                        /\ pending'[h].mut = Unknown
        /\ a = "add" => DOMAIN pending' = DOMAIN pending
        /\ \A x \in DOMAIN pending : (a = "add" \/ x # h) => pending'[x] = pending[x]
    BY <1>1, RequestDoes
  <2>2. Kept(muts')
    BY <1>1, RequestKeeps
  <2> HIDE DEF m
  <2>3. \A x \in DOMAIN pending : pending[x].mut # Unknown /\ pending[x].mut \in DOMAIN muts
    BY <1>0, <2>1, UntiedIs, UnqueriedIs DEF OverlayOK
  <2>4. rq'.mut = m /\ ~rq'.query
    BY <2>1
  <2>5. ASSUME NEW x \in DOMAIN pending' PROVE OverlayOK(x)' /\ pending'[x].mut # m
    <3>1. CASE a # "add" /\ x = h
      BY <2>1, <2>4, <3>1 DEF OverlayOK, Unknown
    <3>2. CASE a = "add" \/ x # h
      <4>1. x \in DOMAIN pending /\ pending'[x] = pending[x]
        BY <2>1, <3>2
      <4> QED BY <1>0, <2>1, <2>2, <2>3, <4>1, OverlayKept
    <3> QED BY <3>1, <3>2
  <2>6. RequestHas'
    BY <2>1, <2>4 DEF RequestHas
  <2>7. RequestFree'
    BY <2>4, <2>5 DEF RequestFree
  <2> QED BY <2>5, <2>6, <2>7, OverlayParts
<1>2. ASSUME NEW a \in Action, NEW h \in Hash, Foreign(a, h) PROVE OverlayInv'
  BY <1>2, ForeignDoes, OverlayStays DEF panelVars
<1>3. CASE OnAccepted
  <2> DEFINE m == rq.mut  h == muts[rq.mut].hash
  <2>1. /\ m \in DOMAIN muts /\ rq' = NoRequest /\ UNCHANGED muts
        /\ \/ pending' = Terminal(m)
           \/ AcceptedBag(m)
    BY <1>3, AcceptedDoes
  <2>2. Kept(muts')
    BY <2>1, KeptSame
  <2>3. CASE pending' = Terminal(m)
    BY <2>1, <2>2, <2>3, TerminalEnds, OverlayAnswered
  <2>4. CASE AcceptedBag(m)
    <3>1. m # 0 /\ muts[m].status # "sent"
      BY <1>3, <2>1, MutFields DEF OnAccepted, MutInv
    <3>2. ASSUME NEW x \in DOMAIN pending' PROVE OverlayOK(x)'
      <4>1. CASE x = h
        BY <2>1, <2>4, <3>1, <4>1 DEF AcceptedBag, OverlayOK, Unknown
      <4>2. CASE x # h
        <5>1. x \in DOMAIN pending /\ pending'[x] = pending[x] /\ pending[x].mut # Unknown
          BY <2>4, <4>2, UntiedIs DEF AcceptedBag
        <5> QED BY <1>0, <2>2, <5>1, OverlayKept
      <4> QED BY <4>1, <4>2
    <3>3. RequestHas' /\ RequestFree'
      BY <2>1, UnqueriedIs DEF RequestHas, RequestFree
    <3> QED BY <3>2, <3>3, OverlayParts
  <2> QED BY <2>1, <2>3, <2>4
<1>4. CASE OnResultResponse
  <2>1. rq.mut \in DOMAIN muts /\ rq' = NoRequest /\ UNCHANGED muts /\ pending' = Terminal(rq.mut)
    BY <1>4, ResponseDoes
  <2> QED BY <2>1, KeptSame, TerminalEnds, OverlayAnswered
<1>5. CASE OnRejected
  <2>1. /\ rq' = NoRequest /\ UNCHANGED muts
        /\ \/ pending' = pending /\ muts[rq.mut].action = "add"
           \/ pending' = Without(muts[rq.mut].hash)
    BY <1>5, RejectedDoes
  <2>2. /\ DOMAIN pending' \subseteq DOMAIN pending
        /\ \A x \in DOMAIN pending' : pending'[x] = pending[x] /\ pending[x].mut # Unknown
    <3>1. CASE pending' = pending /\ muts[rq.mut].action = "add"
      BY <3>1, UntiedIs
    <3>2. CASE pending' = Without(muts[rq.mut].hash)
      <4>1. \A x \in DOMAIN pending : x # muts[rq.mut].hash => pending[x].mut # Unknown
        BY UntiedIs
      <4> QED BY <3>2, <4>1, WithoutIs
    <3> QED BY <2>1, <3>1, <3>2
  <2> QED BY <2>1, <2>2, KeptSame, OverlayAnswered
<1>6. CASE OnResultPush
  <2> DEFINE m == Head(pushes)  h == muts[m].hash
  <2>1. /\ m \in DOMAIN muts /\ UNCHANGED <<rq, muts>>
        /\ \/ pending' = Without(h) /\ h \in DOMAIN pending /\ pending[h].mut = m
           \/ UNCHANGED pending
    BY <1>6, PushDoes
  <2>2. Kept(muts') /\ m # Unknown
    BY <2>1, KeptSame, MutFields DEF Unknown
  <2> HIDE DEF m
  <2>3. CASE UNCHANGED pending
    BY <2>1, <2>2, <2>3, OverlayStays
  <2>4. CASE pending' = Without(h) /\ h \in DOMAIN pending /\ pending[h].mut = m
    <3>1. /\ DOMAIN pending' = DOMAIN pending \ {h}
          /\ \A x \in DOMAIN pending' : pending'[x] = pending[x]
      BY <2>4, WithoutIs
    <3>2. \A x \in DOMAIN pending' : OverlayOK(x)'
      BY <1>0, <2>1, <2>2, <3>1, OverlayKept
    <3>3. RequestHas' /\ RequestFree'
      BY <1>0, <2>1, <2>2, <2>4, <3>1 DEF RequestHas, RequestFree
    <3> QED BY <3>2, <3>3, OverlayParts
  <2> QED BY <2>1, <2>3, <2>4
<1>7. ASSUME NEW h \in Hash, GrowsOld(h) PROVE OverlayInv'
  <2>1. /\ UNCHANGED <<rq, muts>> /\ DOMAIN pending' = DOMAIN pending
        /\ \A x \in DOMAIN pending :
             /\ pending'[x].ref = pending[x].ref /\ pending'[x].action = pending[x].action
             /\ pending'[x].mut = pending[x].mut
    BY <1>7, GrowsDoes
  <2>2. \A x \in DOMAIN pending' : OverlayOK(x)'
    BY <1>0, <2>1, KeptSame, OverlayKept
  <2>3. RequestHas' /\ RequestFree'
    BY <1>0, <2>1 DEF RequestHas, RequestFree
  <2> QED BY <2>2, <2>3, OverlayParts
<1>8. CASE Watchdog
  <2>1. /\ rq = NoRequest /\ UNCHANGED muts /\ Spared
        /\ \/ UNCHANGED rq /\ \A x \in DOMAIN pending' : pending'[x] = pending[x]
           \/ \E h \in DOMAIN pending : Asked(h)
    BY <1>8, WatchdogDoes
  <2>2. Kept(muts') /\ \A x \in DOMAIN pending : pending[x].mut # Unknown
    BY <2>1, KeptSame, UntiedIs, UnqueriedIs
  <2>3. CASE UNCHANGED rq /\ \A x \in DOMAIN pending' : pending'[x] = pending[x]
    BY <2>1, <2>2, <2>3, OverlayAnswered DEF Spared
  <2>4. ASSUME NEW h \in DOMAIN pending, Asked(h) PROVE OverlayInv'
    <3>1. /\ h \in DOMAIN pending' /\ pending[h].mut = pending[h].ref
          /\ rq' = [mut |-> pending[h].ref, query |-> TRUE]
          /\ pending'[h].ref = pending[h].ref /\ pending'[h].action = pending[h].action
          /\ pending'[h].mut = IF pending[h].action = "add" THEN pending[h].mut ELSE Unknown
          /\ \A x \in DOMAIN pending' : x # h => pending'[x] = pending[x]
      BY <2>4 DEF Asked
    <3>2. rq'.mut = pending[h].ref /\ rq'.query
      BY <3>1
    <3>3. OverlayOK(h)
      BY <1>0
    <3>4. ASSUME NEW x \in DOMAIN pending' PROVE OverlayOK(x)'
      <4>1. CASE x = h
        BY <2>1, <2>2, <3>1, <3>2, <3>3, <4>1 DEF OverlayOK
      <4>2. CASE x # h
        BY <1>0, <2>1, <2>2, <3>1, <4>2, OverlayKept DEF Spared
      <4> QED BY <4>1, <4>2
    <3>5. RequestHas'
      BY <2>1, <3>1, <3>2, <3>3 DEF RequestHas, OverlayOK
    <3>6. RequestFree'
      BY <3>2 DEF RequestFree
    <3> QED BY <3>4, <3>5, <3>6, OverlayParts
  <2> QED BY <2>1, <2>3, <2>4
<1>9. CASE Reset
  <2>1. rq' = NoRequest /\ UNCHANGED muts /\ DOMAIN pending' = {}
    BY <1>9, ResetDoes, NothingPending
  <2> QED BY <2>1, KeptSame, OverlayAnswered
<1>10. ASSUME NEW m \in DOMAIN muts, Register(m) PROVE OverlayInv'
  BY <1>10, RegisterDoes, OverlayStays DEF panelVars
<1>11. ASSUME NEW m \in DOMAIN muts, Settle(m) PROVE OverlayInv'
  BY <1>11, SettleDoes, OverlayStays DEF panelVars
<1>12. CASE Accept
  BY <1>12, AcceptDoes, KeptSame, OverlayStays DEF panelVars
<1>13. CASE Refuse
  BY <1>13, RefuseDoes, OverlayStays DEF panelVars
<1>14. CASE Replay
  BY <1>14, ReplayDoes, KeptSame, OverlayStays DEF panelVars
<1>15. CASE UNCHANGED vars
  BY <1>15, KeptSame, OverlayStays DEF vars
<1> QED
  BY <1>1, <1>2, <1>3, <1>4, <1>5, <1>6, <1>7, <1>8, <1>9, <1>10, <1>11, <1>12, <1>13, <1>14, <1>15
  DEF Next

-----------------------------------------------------------------------------
(* Every step keeps BufferInv.                                             *)

BufferOK(e, t) ==
  /\ \A i \in DOMAIN e : \E p \in DOMAIN t : t[p] = e[i]
  /\ \A i, j \in DOMAIN e : e[i] = e[j] => i = j
  /\ \A i \in DOMAIN e, p \in DOMAIN t : t[p] = e[i] => Len(t) - p >= Len(e) - i

LEMMA BufferParts ==
  /\ BufferInv <=> Len(early) <= MaxEarly /\ BufferOK(early, told)
  /\ BufferInv' <=> Len(early') <= MaxEarly /\ BufferOK(early', told')
  BY DEF BufferInv, BufferOK

\* What is told and matched: the buffer stays, and everything in it is older.
LEMMA BufferAged ==
  ASSUME NEW e \in Seq(Nat), NEW t \in Seq(Nat), BufferOK(e, t),
         NEW m \in Nat, \A i \in DOMAIN t : t[i] # m
  PROVE  BufferOK(e, Append(t, m))
<1> DEFINE u == Append(t, m)
<1>1. /\ u \in Seq(Nat) /\ Len(u) = Len(t) + 1 /\ DOMAIN u = 1..(Len(t) + 1)
      /\ DOMAIN t = 1..Len(t) /\ Len(t) \in Nat
      /\ \A k \in DOMAIN t : u[k] = t[k]
      /\ u[Len(t) + 1] = m
  BY AddedIs
<1> HIDE DEF u
<1>2. DOMAIN e = 1..Len(e) /\ Len(e) \in Nat
  OBVIOUS
<1>3. \A i \in DOMAIN e : e[i] # m /\ \E p \in DOMAIN u : u[p] = e[i]
  <2> SUFFICES ASSUME NEW i \in DOMAIN e PROVE e[i] # m /\ \E p \in DOMAIN u : u[p] = e[i]
    OBVIOUS
  <2>1. PICK p \in DOMAIN t : t[p] = e[i]
    BY DEF BufferOK
  <2>2. p \in DOMAIN u /\ u[p] = e[i]
    BY <1>1, <2>1
  <2> QED BY <2>1, <2>2
<1>4. ASSUME NEW i \in DOMAIN e, NEW p \in DOMAIN u, u[p] = e[i]
      PROVE  Len(u) - p >= Len(e) - i
  <2>1. p # Len(t) + 1
    BY <1>1, <1>3, <1>4
  <2>2. p \in DOMAIN t /\ t[p] = e[i]
    BY <1>1, <1>4, <2>1
  <2>3. Len(t) - p >= Len(e) - i
    BY <2>2 DEF BufferOK
  <2> QED BY <1>1, <1>2, <2>2, <2>3
<1> QED BY <1>3, <1>4 DEF BufferOK, u

\* What is told and not matched goes to the end of the buffer.
LEMMA BufferAdded ==
  ASSUME NEW e \in Seq(Nat), NEW t \in Seq(Nat), BufferOK(e, t),
         NEW m \in Nat, \A i \in DOMAIN t : t[i] # m
  PROVE  BufferOK(Append(e, m), Append(t, m))
<1> DEFINE u == Append(t, m)  f == Append(e, m)
<1>1. /\ u \in Seq(Nat) /\ Len(u) = Len(t) + 1 /\ DOMAIN u = 1..(Len(t) + 1)
      /\ DOMAIN t = 1..Len(t) /\ Len(t) \in Nat
      /\ \A k \in DOMAIN t : u[k] = t[k]
      /\ u[Len(t) + 1] = m
  BY AddedIs
<1>2. /\ f \in Seq(Nat) /\ Len(f) = Len(e) + 1 /\ DOMAIN f = 1..(Len(e) + 1)
      /\ DOMAIN e = 1..Len(e) /\ Len(e) \in Nat
      /\ \A k \in DOMAIN e : f[k] = e[k]
      /\ f[Len(e) + 1] = m
  BY AddedIs
<1> HIDE DEF u, f
<1>3. \A i \in DOMAIN e : e[i] # m /\ \E p \in DOMAIN u : u[p] = e[i]
  <2> SUFFICES ASSUME NEW i \in DOMAIN e PROVE e[i] # m /\ \E p \in DOMAIN u : u[p] = e[i]
    OBVIOUS
  <2>1. PICK p \in DOMAIN t : t[p] = e[i]
    BY DEF BufferOK
  <2>2. p \in DOMAIN u /\ u[p] = e[i]
    BY <1>1, <2>1
  <2> QED BY <2>1, <2>2
<1>4. \A i \in DOMAIN f : i \in DOMAIN e \/ i = Len(e) + 1
  BY <1>2
<1>5. \A i \in DOMAIN f : \E p \in DOMAIN u : u[p] = f[i]
  <2>1. Len(t) + 1 \in DOMAIN u
    BY <1>1
  <2> QED BY <1>1, <1>2, <1>3, <1>4, <2>1
<1>6. \A i, j \in DOMAIN f : f[i] = f[j] => i = j
  BY <1>2, <1>3, <1>4 DEF BufferOK
<1>7. ASSUME NEW i \in DOMAIN f, NEW p \in DOMAIN u, u[p] = f[i]
      PROVE  Len(u) - p >= Len(f) - i
  <2>1. CASE i = Len(e) + 1
    BY <1>1, <1>2, <2>1
  <2>2. CASE i \in DOMAIN e
    <3>1. f[i] = e[i] /\ e[i] # m
      BY <1>2, <1>3, <2>2
    <3>2. p # Len(t) + 1
      BY <1>1, <1>7, <3>1
    <3>3. p \in DOMAIN t /\ t[p] = e[i]
      BY <1>1, <1>7, <3>1, <3>2
    <3>4. Len(t) - p >= Len(e) - i
      BY <2>2, <3>3 DEF BufferOK
    <3> QED BY <1>1, <1>2, <2>2, <3>3, <3>4
  <2> QED BY <1>4, <2>1, <2>2
<1> QED BY <1>5, <1>6, <1>7 DEF BufferOK, u, f

\* An entry of a buffer s is an entry of the buffer e, in the same order and no
\* closer to the end.
LEMMA BufferPart ==
  ASSUME NEW e \in Seq(Nat), NEW t \in Seq(Nat), BufferOK(e, t), NEW s \in Seq(Nat),
         NEW src, \A k \in DOMAIN s : /\ src[k] \in DOMAIN e /\ s[k] = e[src[k]]
                                      /\ Len(s) - k <= Len(e) - src[k],
         \A k, l \in DOMAIN s : src[k] = src[l] => k = l
  PROVE  BufferOK(s, t)
<1>0. \A i \in DOMAIN e : \E p \in DOMAIN t : t[p] = e[i]
  BY DEF BufferOK
<1>1. ASSUME NEW i \in DOMAIN s PROVE \E p \in DOMAIN t : t[p] = s[i]
  <2>1. src[i] \in DOMAIN e /\ s[i] = e[src[i]]
    OBVIOUS
  <2> QED BY <1>0, <2>1
<1>2. ASSUME NEW i \in DOMAIN s, NEW j \in DOMAIN s, s[i] = s[j] PROVE i = j
  <2>1. src[i] \in DOMAIN e /\ src[j] \in DOMAIN e /\ e[src[i]] = e[src[j]]
    BY <1>2
  <2>2. src[i] = src[j]
    BY <2>1 DEF BufferOK
  <2> QED BY <2>2
<1>3. ASSUME NEW i \in DOMAIN s, NEW p \in DOMAIN t, t[p] = s[i]
      PROVE  Len(t) - p >= Len(s) - i
  <2> DEFINE k == src[i]
  <2>1. k \in DOMAIN e /\ t[p] = e[k] /\ Len(s) - i <= Len(e) - k
    BY <1>3
  <2> HIDE DEF k
  <2>2. Len(t) - p >= Len(e) - k
    BY <2>1 DEF BufferOK
  <2>3. i \in Nat /\ p \in Nat /\ Len(s) \in Nat /\ Len(e) \in Nat /\ Len(t) \in Nat
    OBVIOUS
  <2>4. k \in Nat
    BY <2>1
  <2> QED BY <2>1, <2>2, <2>3, <2>4
<1> QED BY <1>1, <1>2, <1>3 DEF BufferOK

LEMMA BufferRest ==
  ASSUME NEW e \in Seq(Nat), NEW t \in Seq(Nat), BufferOK(e, t), Len(e) > 0
  PROVE  BufferOK(Tail(e), t)
<1> DEFINE s == Tail(e)  src == [k \in DOMAIN s |-> k + 1]
<1>1. /\ s \in Seq(Nat) /\ Len(s) = Len(e) - 1 /\ Len(e) \in Nat
      /\ DOMAIN s = 1..(Len(e) - 1) /\ DOMAIN e = 1..Len(e)
      /\ \A k \in 1..(Len(e) - 1) : s[k] = e[k + 1]
  BY RestIs
<1> HIDE DEF s
<1>2. \A k \in DOMAIN s : /\ src[k] \in DOMAIN e /\ s[k] = e[src[k]]
                          /\ Len(s) - k <= Len(e) - src[k]
  BY <1>1
<1>3. \A k, l \in DOMAIN s : src[k] = src[l] => k = l
  BY <1>1
<1> HIDE DEF src
<1>4. s \in Seq(Nat)
  BY <1>1
<1>5. BufferOK(s, t)
  BY <1>2, <1>3, <1>4, BufferPart
<1> QED BY <1>5 DEF s

LEMMA BufferTaken ==
  ASSUME TypeOK, BufferInv, NEW m
  PROVE  BufferOK(Unbuffered(m), told) /\ Len(Unbuffered(m)) <= MaxEarly
<1>0. BufferOK(early, told) /\ Len(early) <= MaxEarly /\ early \in Seq(Nat) /\ told \in Seq(Nat)
  BY BufferParts DEF TypeOK
<1>1. CASE Unbuffered(m) = early
  BY <1>0, <1>1
<1>2. ASSUME NEW i \in DOMAIN early, Len(Unbuffered(m)) = Len(early) - 1,
             \A k \in DOMAIN Unbuffered(m) :
               Unbuffered(m)[k] = IF k < i THEN early[k] ELSE early[k + 1]
      PROVE  BufferOK(Unbuffered(m), told) /\ Len(Unbuffered(m)) <= MaxEarly
  <2> DEFINE s == Unbuffered(m)  src == [k \in DOMAIN s |-> IF k < i THEN k ELSE k + 1]
  <2>1. /\ s \in Seq(Nat) /\ Len(s) = Len(early) - 1
        /\ \A k \in DOMAIN s : s[k] = IF k < i THEN early[k] ELSE early[k + 1]
    BY <1>2, UnbufferedIs
  <2> HIDE DEF s
  <2>2. /\ DOMAIN s = 1..(Len(early) - 1) /\ DOMAIN early = 1..Len(early) /\ Len(early) \in Nat
        /\ i \in 1..Len(early)
    BY <1>0, <2>1
  <2>3. \A k \in DOMAIN s : /\ src[k] \in DOMAIN early /\ s[k] = early[src[k]]
                            /\ Len(s) - k <= Len(early) - src[k]
    <3> SUFFICES ASSUME NEW k \in DOMAIN s
                 PROVE  /\ src[k] \in DOMAIN early /\ s[k] = early[src[k]]
                        /\ Len(s) - k <= Len(early) - src[k]
      OBVIOUS
    <3>1. CASE k < i
      BY <2>1, <2>2, <3>1
    <3>2. CASE ~(k < i)
      BY <2>1, <2>2, <3>2
    <3> QED BY <3>1, <3>2
  <2>4. \A k, l \in DOMAIN s : src[k] = src[l] => k = l
    BY <2>2
  <2> HIDE DEF src
  <2>5. BufferOK(s, told)
    BY <1>0, <2>1, <2>3, <2>4, BufferPart
  <2>6. Len(s) <= MaxEarly
    BY <1>0, <2>1, <2>2, OverlaysAssumption
  <2> QED BY <2>5, <2>6 DEF s
<1> QED BY <1>1, <1>2, UnbufferedIs

LEMMA BufferNext == TypeOK /\ PanelInv /\ [Next]_vars => BufferInv'
<1> SUFFICES ASSUME TypeOK, MutInv, OnceInv, OverlayInv, BufferInv, [Next]_vars
             PROVE  BufferInv'
  BY DEF PanelInv
<1>0. UNCHANGED <<early, told>> => BufferInv'
  BY DEF BufferInv
<1>t. UNCHANGED told /\ early' = Unbuffered(rq.mut) => BufferInv'
  BY BufferTaken, BufferParts
<1>1. ASSUME NEW a \in Action, NEW h \in Hash, Request(a, h) PROVE BufferInv'
  BY <1>0, <1>1, RequestDoes
<1>2. ASSUME NEW a \in Action, NEW h \in Hash, Foreign(a, h) PROVE BufferInv'
  BY <1>0, <1>2, ForeignDoes DEF panelVars
<1>3. CASE OnAccepted
  BY <1>0, <1>t, <1>3, AcceptedDoes
<1>4. CASE OnResultResponse
  BY <1>t, <1>4, ResponseDoes
<1>5. CASE OnRejected
  BY <1>0, <1>5, RejectedDoes
<1>6. CASE OnResultPush
  <2> DEFINE m == Head(pushes)
  <2>1. /\ m \in DOMAIN muts /\ \A i \in DOMAIN told : told[i] # m
        /\ told' = Append(told, m)
        /\ \/ UNCHANGED early
           \/ early' = IF Len(early) + 1 > MaxEarly THEN Tail(Append(early, m))
                                                    ELSE Append(early, m)
    BY <1>6, PushDoes
  <2>2. m \in Nat
    BY <2>1, MutFields
  <2>3. early \in Seq(Nat) /\ told \in Seq(Nat) /\ Len(early) <= MaxEarly /\ BufferOK(early, told)
    BY BufferParts DEF TypeOK
  <2> HIDE DEF m
  <2>4. CASE UNCHANGED early
    BY <2>1, <2>2, <2>3, <2>4, BufferAged, BufferParts
  <2>5. CASE early' = IF Len(early) + 1 > MaxEarly THEN Tail(Append(early, m))
                                                   ELSE Append(early, m)
    <3> DEFINE e == Append(early, m)
    <3>1. e \in Seq(Nat) /\ Len(e) = Len(early) + 1 /\ Len(early) \in Nat
      BY <2>2, <2>3, AddedIs
    <3>2. BufferOK(e, told')
      BY <2>1, <2>2, <2>3, BufferAdded
    <3>3. told' \in Seq(Nat)
      BY <2>1, <2>2, <2>3, AddedIs
    <3>4. early' = IF Len(early) + 1 > MaxEarly THEN Tail(e) ELSE e
      BY <2>5
    <3> HIDE DEF e
    <3>5. Len(e) > 0
      BY <3>1
    <3>6. BufferOK(Tail(e), told') /\ Len(Tail(e)) = Len(e) - 1
      BY <3>1, <3>2, <3>3, <3>5, BufferRest, RestIs
    <3>7. Len(early') <= MaxEarly
      BY <2>3, <3>1, <3>4, <3>6, OverlaysAssumption
    <3> QED BY <3>2, <3>4, <3>6, <3>7, BufferParts
  <2> QED BY <2>1, <2>4, <2>5
<1>7. ASSUME NEW h \in Hash, GrowsOld(h) PROVE BufferInv'
  BY <1>0, <1>7, GrowsDoes
<1>8. CASE Watchdog
  BY <1>0, <1>8, WatchdogDoes
<1>9. CASE Reset
  <2>1. early' = <<>> /\ told' = <<>>
    BY <1>9, ResetDoes
  <2> QED BY <2>1, OverlaysAssumption DEF BufferInv
<1>10. ASSUME NEW m \in DOMAIN muts, Register(m) PROVE BufferInv'
  BY <1>0, <1>10, RegisterDoes DEF panelVars
<1>11. ASSUME NEW m \in DOMAIN muts, Settle(m) PROVE BufferInv'
  BY <1>0, <1>11, SettleDoes DEF panelVars
<1>12. CASE Accept
  BY <1>0, <1>12, AcceptDoes DEF panelVars
<1>13. CASE Refuse
  BY <1>0, <1>13, RefuseDoes DEF panelVars
<1>14. CASE Replay
  BY <1>0, <1>14, ReplayDoes DEF panelVars
<1>15. CASE UNCHANGED vars
  BY <1>0, <1>15 DEF vars
<1> QED
  BY <1>1, <1>2, <1>3, <1>4, <1>5, <1>6, <1>7, <1>8, <1>9, <1>10, <1>11, <1>12, <1>13, <1>14, <1>15
  DEF Next

-----------------------------------------------------------------------------
(* Every step keeps MemoryInv.                                             *)

RequestKnows ==
  rq.mut # 0 /\ (~rq.query \/ muts[rq.mut].action # "add") /\ Remembers(rq.mut) => Buffered(rq.mut)

TiedUntold ==
  \A h \in DOMAIN pending :
    pending[h].mut # Unknown /\ pending[h].action # "add" => ~Remembers(pending[h].mut)

LEMMA MemoryParts ==
  /\ MemoryInv <=> RequestKnows /\ TiedUntold
  /\ MemoryInv' <=> RequestKnows' /\ TiedUntold'
  BY DEF MemoryInv, RequestKnows, TiedUntold

\* Remembers and Buffered, of any sequences.
Recalls(t, m) == \E i \in DOMAIN t : t[i] = m /\ Len(t) - i < MaxEarly
Has(s, m) == \E i \in DOMAIN s : s[i] = m

LEMMA MemoryFacts ==
  /\ RequestKnows' <=>
       (rq'.mut # 0 /\ (~rq'.query \/ muts'[rq'.mut].action # "add") /\ Recalls(told', rq'.mut)
          => Has(early', rq'.mut))
  /\ TiedUntold' <=>
       \A h \in DOMAIN pending' :
         pending'[h].mut # Unknown /\ pending'[h].action # "add" => ~Recalls(told', pending'[h].mut)
  /\ RequestKnows <=>
       (rq.mut # 0 /\ (~rq.query \/ muts[rq.mut].action # "add") /\ Recalls(told, rq.mut)
          => Has(early, rq.mut))
  /\ TiedUntold <=>
       \A h \in DOMAIN pending :
         pending[h].mut # Unknown /\ pending[h].action # "add" => ~Recalls(told, pending[h].mut)
  BY DEF RequestKnows, TiedUntold, Remembers, Buffered, Recalls, Has

LEMMA RequestKnowsSame ==
  ASSUME MutInv, MemoryInv, Kept(muts'), UNCHANGED <<rq, early, told>>
  PROVE  RequestKnows'
  BY MemoryParts, MemoryFacts DEF MutInv, Kept

LEMMA TiedUntoldSame ==
  ASSUME MemoryInv, UNCHANGED told, DOMAIN pending' \subseteq DOMAIN pending,
         \A x \in DOMAIN pending' : /\ pending'[x].mut \in {Unknown, pending[x].mut}
                                    /\ pending'[x].action = pending[x].action
  PROVE  TiedUntold'
  BY MemoryParts, MemoryFacts DEF Unknown

\* The request in flight is over.
LEMMA RequestKnowsNone ==
  ASSUME rq' = NoRequest PROVE RequestKnows'
  BY UnqueriedIs, MemoryFacts

\* What is remembered after one more is told was remembered before.
LEMMA RemembersMore ==
  ASSUME TypeOK, NEW m \in Nat, told' = Append(told, m), NEW k, k # m, Recalls(told', k)
  PROVE  \E p \in DOMAIN told : told[p] = k /\ Len(told) + 1 - p < MaxEarly
<1>1. /\ DOMAIN told' = 1..(Len(told) + 1) /\ DOMAIN told = 1..Len(told) /\ Len(told) \in Nat
      /\ \A j \in DOMAIN told : told'[j] = told[j]
      /\ told'[Len(told) + 1] = m /\ Len(told') = Len(told) + 1
  BY AddedIs DEF TypeOK
<1>2. PICK p \in DOMAIN told' : told'[p] = k /\ Len(told') - p < MaxEarly
  BY DEF Recalls
<1>3. p # Len(told) + 1
  BY <1>1, <1>2
<1>4. p \in DOMAIN told
  BY <1>1, <1>3
<1> QED BY <1>1, <1>2, <1>4

LEMMA RemembersBefore ==
  ASSUME TypeOK, NEW m \in Nat, told' = Append(told, m), NEW k, k # m, Recalls(told', k)
  PROVE  Recalls(told, k)
<1>1. PICK p \in DOMAIN told : told[p] = k /\ Len(told) + 1 - p < MaxEarly
  BY RemembersMore
<1>2. p \in Nat /\ Len(told) \in Nat
  BY DEF TypeOK
<1>3. Len(told) - p < MaxEarly
  BY <1>1, <1>2, OverlaysAssumption
<1> QED BY <1>1, <1>3 DEF Recalls

\* Of the results that were in the buffer, one that is remembered stays.
LEMMA BufferRemembers ==
  ASSUME TypeOK, BufferInv, NEW m \in Nat, told' = Append(told, m),
         early' = IF Len(early) + 1 > MaxEarly THEN Tail(Append(early, m)) ELSE Append(early, m),
         NEW k, Recalls(told', k), k = m \/ Has(early, k)
  PROVE  Has(early', k)
<1> DEFINE e == Append(early, m)
<1>1. /\ e \in Seq(Nat) /\ Len(e) = Len(early) + 1 /\ DOMAIN e = 1..(Len(early) + 1)
      /\ DOMAIN early = 1..Len(early) /\ Len(early) \in Nat
      /\ \A j \in DOMAIN early : e[j] = early[j]
      /\ e[Len(early) + 1] = m
  BY AddedIs DEF TypeOK
<1>2. early' = IF Len(early) + 1 > MaxEarly THEN Tail(e) ELSE e
  OBVIOUS
<1> HIDE DEF e
<1>3. Len(e) > 0
  BY <1>1
<1>4. /\ DOMAIN Tail(e) = 1..Len(early)
      /\ \A j \in 1..Len(early) : Tail(e)[j] = e[j + 1]
  <2>1. /\ DOMAIN Tail(e) = 1..(Len(e) - 1) /\ \A j \in 1..(Len(e) - 1) : Tail(e)[j] = e[j + 1]
    BY <1>1, <1>3, RestIs
  <2> QED BY <1>1, <2>1
<1>5. CASE ~(Len(early) + 1 > MaxEarly)
  <2>1. early' = e
    BY <1>2, <1>5
  <2>2. \E j \in DOMAIN e : e[j] = k
    <3>1. Len(early) + 1 \in DOMAIN e /\ DOMAIN early \subseteq DOMAIN e
      BY <1>1
    <3> QED BY <1>1, <3>1 DEF Has
  <2> QED BY <2>1, <2>2 DEF Has
<1>6. CASE Len(early) + 1 > MaxEarly
  <2>1. early' = Tail(e)
    BY <1>2, <1>6
  <2>2. Len(early) \in 1..Len(early)
    BY <1>1, <1>6, OverlaysAssumption
  <2>3. CASE k = m
    <3>1. Tail(e)[Len(early)] = k
      BY <1>1, <1>4, <2>2, <2>3
    <3> QED BY <1>4, <2>1, <2>2, <3>1 DEF Has
  <2>4. CASE k # m
    <3>1. PICK i \in DOMAIN early : early[i] = k
      BY <2>4 DEF Has
    <3>2. PICK p \in DOMAIN told : told[p] = k /\ Len(told) + 1 - p < MaxEarly
      BY <2>4, RemembersMore
    <3>3. Len(told) - p >= Len(early) - i
      BY <3>1, <3>2 DEF BufferInv
    <3>a. p \in Nat /\ Len(told) \in Nat
      <4>1. told \in Seq(Nat)
        BY DEF TypeOK
      <4> QED BY <4>1
    <3>b. i \in 1..Len(early)
      BY <1>1
    <3>4. p \in Nat /\ Len(told) \in Nat /\ i \in 1..Len(early) /\ MaxEarly \in Nat
      BY <3>a, <3>b, OverlaysAssumption
    <3>5. i # 1
      <4> DEFINE t == Len(told)  l == Len(early)
      <4>1. t \in Nat /\ l \in Nat /\ p \in Nat /\ i \in Nat /\ MaxEarly \in Nat
        BY <1>1, <3>4
      <4>2. t + 1 - p < MaxEarly /\ l + 1 > MaxEarly /\ t - p >= l - i
        BY <1>6, <3>2, <3>3
      <4> HIDE DEF t, l
      <4> QED BY ONLY <4>1, <4>2
    <3>6. i - 1 \in 1..Len(early) /\ (i - 1) + 1 = i
      BY <1>1, <3>4, <3>5
    <3>7. Tail(e)[i - 1] = k
      BY <1>1, <1>4, <3>1, <3>6
    <3> QED BY <1>4, <2>1, <3>6, <3>7 DEF Has
  <2> QED BY <2>3, <2>4
<1> QED BY <1>5, <1>6

LEMMA MemoryNext == TypeOK /\ PanelInv /\ [Next]_vars => MemoryInv'
<1> SUFFICES ASSUME TypeOK, MutInv, OnceInv, OverlayInv, BufferInv, MemoryInv, [Next]_vars
             PROVE  MemoryInv'
  BY DEF PanelInv
<1>0. RequestKnows /\ TiedUntold /\ RequestHas /\ RequestFree
      /\ \A h \in DOMAIN pending : OverlayOK(h)
  BY MemoryParts, OverlayParts
<1>s. Kept(muts') /\ UNCHANGED <<pending, early, rq, told>> => MemoryInv'
  <2> SUFFICES ASSUME Kept(muts'), UNCHANGED <<pending, early, rq, told>> PROVE MemoryInv'
    OBVIOUS
  <2>1. RequestKnows'
    BY RequestKnowsSame
  <2>2. TiedUntold'
    BY TiedUntoldSame
  <2> QED BY <2>1, <2>2, MemoryParts
<1>1. ASSUME NEW a \in Action, NEW h \in Hash, Request(a, h) PROVE MemoryInv'
  <2> DEFINE m == Len(muts) + 1
  <2>1. /\ rq' = [mut |-> m, query |-> FALSE] /\ m \notin DOMAIN muts /\ UNCHANGED told
        /\ a # "add" => /\ DOMAIN pending' = DOMAIN pending \cup {h}
                        /\ pending'[h].mut = Unknown
        /\ a = "add" => DOMAIN pending' = DOMAIN pending
        /\ \A x \in DOMAIN pending : (a = "add" \/ x # h) => pending'[x] = pending[x]
    BY <1>1, RequestDoes
  <2> HIDE DEF m
  <2>2. rq'.mut = m /\ ~Recalls(told, m)
    BY <2>1 DEF MutInv, Recalls
  <2>3. RequestKnows'
    BY <2>1, <2>2, MemoryFacts
  <2>4. ASSUME NEW x \in DOMAIN pending'
        PROVE  pending'[x].mut = Unknown \/ (x \in DOMAIN pending /\ pending'[x] = pending[x])
    BY <2>1
  <2>5. TiedUntold'
    BY <1>0, <2>1, <2>4, MemoryFacts
  <2> QED BY <2>3, <2>5, MemoryParts
<1>2. ASSUME NEW a \in Action, NEW h \in Hash, Foreign(a, h) PROVE MemoryInv'
  BY <1>2, <1>s, ForeignDoes DEF panelVars
<1>3. CASE OnAccepted
  <2> DEFINE m == rq.mut  h == muts[rq.mut].hash
  <2>1. /\ m \in DOMAIN muts /\ rq' = NoRequest /\ UNCHANGED told
        /\ \/ pending' = Terminal(m)
           \/ ~Buffered(m) /\ AcceptedBag(m)
    BY <1>3, AcceptedDoes
  <2>2. CASE pending' = Terminal(m)
    <3>1. /\ DOMAIN pending' \subseteq DOMAIN pending
          /\ \A x \in DOMAIN pending' : pending'[x] = pending[x]
      BY <2>1, <2>2, TerminalEnds
    <3>2. TiedUntold'
      BY <2>1, <3>1, TiedUntoldSame
    <3> QED BY <2>1, <3>2, RequestKnowsNone, MemoryParts
  <2>3. CASE ~Buffered(m) /\ AcceptedBag(m)
    <3>1. muts[m].action # "add" => ~Recalls(told, m)
      BY <1>0, <2>1, <2>3, MutFields, MemoryFacts DEF Buffered, Has
    <3>2. ASSUME NEW x \in DOMAIN pending', pending'[x].mut # Unknown, pending'[x].action # "add"
          PROVE  ~Recalls(told, pending'[x].mut)
      <4>1. CASE x = h
        BY <2>3, <3>1, <3>2, <4>1 DEF AcceptedBag
      <4>2. CASE x # h
        BY <1>0, <2>3, <3>2, <4>2, MemoryFacts DEF AcceptedBag
      <4> QED BY <4>1, <4>2
    <3>3. TiedUntold'
      BY <2>1, <3>2, MemoryFacts
    <3> QED BY <2>1, <3>3, RequestKnowsNone, MemoryParts
  <2> QED BY <2>1, <2>2, <2>3
<1>4. CASE OnResultResponse
  <2>1. rq.mut \in DOMAIN muts /\ rq' = NoRequest /\ UNCHANGED told /\ pending' = Terminal(rq.mut)
    BY <1>4, ResponseDoes
  <2>2. /\ DOMAIN pending' \subseteq DOMAIN pending
        /\ \A x \in DOMAIN pending' : pending'[x] = pending[x]
    BY <2>1, TerminalEnds
  <2>3. TiedUntold'
    BY <2>1, <2>2, TiedUntoldSame
  <2> QED BY <2>1, <2>3, RequestKnowsNone, MemoryParts
<1>5. CASE OnRejected
  <2>1. /\ rq' = NoRequest /\ UNCHANGED told
        /\ pending' = pending \/ pending' = Without(muts[rq.mut].hash)
    BY <1>5, RejectedDoes
  <2>2. /\ DOMAIN pending' \subseteq DOMAIN pending
        /\ \A x \in DOMAIN pending' : pending'[x] = pending[x]
    BY <2>1, WithoutIs
  <2>3. TiedUntold'
    BY <2>1, <2>2, TiedUntoldSame
  <2> QED BY <2>1, <2>3, RequestKnowsNone, MemoryParts
<1>6. CASE OnResultPush
  <2> DEFINE m == Head(pushes)  h == muts[m].hash
  <2>1. /\ m \in DOMAIN muts /\ told' = Append(told, m) /\ UNCHANGED <<rq, muts>>
        /\ \/ /\ pending' = Without(h) /\ h \in DOMAIN pending
              /\ pending[h].mut = m /\ UNCHANGED early
           \/ /\ \A x \in DOMAIN pending : pending[x].mut # m
              /\ UNCHANGED pending
              /\ early' = IF Len(early) + 1 > MaxEarly THEN Tail(Append(early, m))
                                                        ELSE Append(early, m)
    BY <1>6, PushDoes
  <2>2. m \in Nat /\ m # 0
    BY <2>1, MutFields
  <2> HIDE DEF m
  <2>3. /\ DOMAIN pending' \subseteq DOMAIN pending
        /\ \A x \in DOMAIN pending' : pending'[x] = pending[x] /\ pending[x].mut # m
    <3>1. CASE UNCHANGED pending /\ \A x \in DOMAIN pending : pending[x].mut # m
      BY <3>1
    <3>2. CASE pending' = Without(h) /\ h \in DOMAIN pending /\ pending[h].mut = m
      <4>1. DOMAIN pending' = DOMAIN pending \ {h} /\ \A x \in DOMAIN pending' : pending'[x] = pending[x]
        BY <3>2, WithoutIs
      <4>2. \A x \in DOMAIN pending : pending[x].mut = m => x = h
        BY <1>0, <2>2 DEF OverlayOK, Unknown
      <4> QED BY <4>1, <4>2
    <3> QED BY <2>1, <3>1, <3>2
  <2>4. TiedUntold'
    <3> SUFFICES ASSUME NEW x \in DOMAIN pending', pending'[x].mut # Unknown,
                        pending'[x].action # "add", Recalls(told', pending'[x].mut)
                 PROVE  FALSE
      BY MemoryFacts
    <3>1. /\ x \in DOMAIN pending /\ pending[x].mut # m /\ pending[x].mut # Unknown
          /\ pending[x].action # "add" /\ Recalls(told', pending[x].mut)
      BY <2>3
    <3>2. Recalls(told, pending[x].mut)
      BY <2>1, <2>2, <3>1, RemembersBefore
    <3> QED BY <1>0, <3>1, <3>2, MemoryFacts
  <2>5. RequestKnows'
    <3> DEFINE k == rq.mut
    <3> SUFFICES ASSUME k # 0, ~rq.query \/ muts[k].action # "add", Recalls(told', k)
                 PROVE  Has(early', k)
      BY <2>1, MemoryFacts
    <3>1. CASE k = m
      <4>1. \A x \in DOMAIN pending : pending[x].mut # m
        <5> SUFFICES ASSUME NEW x \in DOMAIN pending, pending[x].mut = m PROVE FALSE
          OBVIOUS
        <5>1. rq.query /\ muts[m].action # "add"
          BY <1>0, <2>2, <3>1 DEF RequestFree
        <5>2. pending[x].ref = m /\ muts[m].hash = x
          BY <1>0, <2>2 DEF OverlayOK, Unknown
        <5>3. pending[x].mut = Unknown
          BY <1>0, <2>2, <3>1, <5>1, <5>2 DEF RequestHas
        <5> QED BY <2>2, <5>3 DEF Unknown
      <4> QED BY <2>1, <2>2, <3>1, <4>1, BufferRemembers
    <3>2. CASE k # m
      <4>1. Has(early, k)
        BY <1>0, <2>1, <2>2, <3>2, RemembersBefore, MemoryFacts
      <4> QED BY <2>1, <2>2, <4>1, BufferRemembers
    <3> QED BY <3>1, <3>2
  <2> QED BY <2>4, <2>5, MemoryParts
<1>7. ASSUME NEW h \in Hash, GrowsOld(h) PROVE MemoryInv'
  <2>1. /\ UNCHANGED <<rq, muts, early, told>> /\ DOMAIN pending' = DOMAIN pending
        /\ \A x \in DOMAIN pending :
             /\ pending'[x].action = pending[x].action /\ pending'[x].mut = pending[x].mut
    BY <1>7, GrowsDoes
  <2>2. RequestKnows'
    BY <2>1, KeptSame, RequestKnowsSame
  <2>3. TiedUntold'
    BY <2>1, TiedUntoldSame
  <2> QED BY <2>2, <2>3, MemoryParts
<1>8. CASE Watchdog
  <2>1. /\ rq = NoRequest /\ UNCHANGED <<early, muts, told>> /\ Spared
        /\ \/ UNCHANGED rq /\ \A x \in DOMAIN pending' : pending'[x] = pending[x]
           \/ \E h \in DOMAIN pending : Asked(h)
    BY <1>8, WatchdogDoes
  <2>2. CASE UNCHANGED rq /\ \A x \in DOMAIN pending' : pending'[x] = pending[x]
    <3>1. TiedUntold'
      BY <2>1, <2>2, TiedUntoldSame DEF Spared
    <3> QED BY <2>1, <2>2, <3>1, KeptSame, RequestKnowsSame, MemoryParts
  <2>3. ASSUME NEW h \in DOMAIN pending, Asked(h) PROVE MemoryInv'
    <3>1. /\ pending[h].mut = pending[h].ref
          /\ rq' = [mut |-> pending[h].ref, query |-> TRUE]
          /\ pending'[h].action = pending[h].action
          /\ pending'[h].mut \in {Unknown, pending[h].mut}
          /\ \A x \in DOMAIN pending' : x # h => pending'[x] = pending[x]
      BY <2>3 DEF Asked
    <3>2. TiedUntold'
      BY <2>1, <3>1, TiedUntoldSame DEF Spared
    <3>3. rq'.mut = pending[h].mut /\ rq'.query /\ muts[pending[h].mut].action = pending[h].action
      BY <1>0, <3>1 DEF OverlayOK
    <3>4. CASE pending[h].mut # 0 /\ pending[h].action # "add"
      <4>1. ~Recalls(told, pending[h].mut)
        BY <1>0, <3>4, MemoryFacts DEF Unknown
      <4> QED BY <2>1, <3>2, <3>3, <4>1, MemoryParts, MemoryFacts
    <3>5. CASE pending[h].mut = 0 \/ pending[h].action = "add"
      BY <2>1, <3>2, <3>3, <3>5, MemoryParts, MemoryFacts
    <3> QED BY <3>4, <3>5
  <2> QED BY <2>1, <2>2, <2>3
<1>9. CASE Reset
  <2>1. rq' = NoRequest /\ DOMAIN pending' = {}
    BY <1>9, ResetDoes, NothingPending
  <2> QED BY <2>1, RequestKnowsNone, MemoryParts, MemoryFacts
<1>10. ASSUME NEW m \in DOMAIN muts, Register(m) PROVE MemoryInv'
  BY <1>10, <1>s, RegisterDoes DEF panelVars
<1>11. ASSUME NEW m \in DOMAIN muts, Settle(m) PROVE MemoryInv'
  BY <1>11, <1>s, SettleDoes DEF panelVars
<1>12. CASE Accept
  BY <1>12, <1>s, AcceptDoes, KeptSame DEF panelVars
<1>13. CASE Refuse
  BY <1>13, <1>s, RefuseDoes DEF panelVars
<1>14. CASE Replay
  BY <1>14, <1>s, ReplayDoes, KeptSame DEF panelVars
<1>15. CASE UNCHANGED vars
  BY <1>15, <1>s, KeptSame DEF vars
<1> QED
  BY <1>1, <1>2, <1>3, <1>4, <1>5, <1>6, <1>7, <1>8, <1>9, <1>10, <1>11, <1>12, <1>13, <1>14, <1>15
  DEF Next

-----------------------------------------------------------------------------
(* The theorems.                                                           *)

LEMMA PanelNext == TypeOK /\ PanelInv /\ [Next]_vars => TypeOK' /\ PanelInv'
  BY TypeNext, MutNext, OnceNext, OverlayNext, BufferNext, MemoryNext DEF PanelInv

\* The panel's variables keep their types: at most one overlay per torrent, of
\* an attempt that was made (MutationClient.js).
THEOREM TypeCorrect == Spec => []TypeOK
<1>1. TypeOK /\ PanelInv /\ [Next]_vars => (TypeOK /\ PanelInv)'
  BY PanelNext
<1>2. Spec => [](TypeOK /\ PanelInv)
  BY PanelInit, <1>1, PTL DEF Spec
<1> QED BY <1>2, PTL

\* The two halves of OverlaysFollowTheirOwn, of one step.
EndsWithItsOwn(h) ==
  Tied(h) /\ ~Tied(h)' =>
    \/ Of(pending[h].mut).status = "done"
    \/ h \in DueRemovals
    \/ rq # rq' /\ rq' # NoRequest /\ muts'[rq'.mut].hash = h
    \/ resets' # resets

TiedToTheUntold(h) ==
  Tied(h)' /\ ~(Tied(h) /\ pending[h].mut = pending'[h].mut) =>
    LET m == pending'[h].mut
    IN  m = rq.mut /\ (Remembers(m) => rq.query /\ Of(m).action = "add")

\* An overlay that stays what it was is of no concern.
LEMMA TiedStays ==
  ASSUME NEW h,
         \/ h \notin DOMAIN pending /\ h \notin DOMAIN pending'
         \/ h \in DOMAIN pending /\ h \in DOMAIN pending' /\ pending'[h].mut = pending[h].mut
  PROVE  EndsWithItsOwn(h) /\ TiedToTheUntold(h)
  BY DEF EndsWithItsOwn, TiedToTheUntold, Tied

\* One that goes is not tied to anything new.
LEMMA TiedGoes ==
  ASSUME NEW h, h \notin DOMAIN pending' \/ pending'[h].mut = Unknown
  PROVE  ~Tied(h)' /\ TiedToTheUntold(h)
  BY DEF TiedToTheUntold, Tied

\* What a result that settles m does to the overlays.
LEMMA TerminalFollows ==
  ASSUME TypeOK, NEW m \in DOMAIN muts, muts[m].status = "done", pending' = Terminal(m), NEW h
  PROVE  EndsWithItsOwn(h) /\ TiedToTheUntold(h)
<1>1. \/ pending' = pending
      \/ /\ pending' = Without(muts[m].hash) /\ muts[m].hash \in DOMAIN pending
         /\ pending[muts[m].hash].mut \in {Unknown, m}
  BY TerminalIs
<1>2. CASE pending' = pending
  BY <1>2, TiedStays
<1>3. CASE /\ pending' = Without(muts[m].hash) /\ muts[m].hash \in DOMAIN pending
           /\ pending[muts[m].hash].mut \in {Unknown, m}
  <2>1. /\ DOMAIN pending' = DOMAIN pending \ {muts[m].hash}
        /\ \A x \in DOMAIN pending : x # muts[m].hash => pending'[x] = pending[x]
    <3> DEFINE g == muts[m].hash
    <3>1. /\ DOMAIN Without(g) = DOMAIN pending \ {g}
          /\ \A x \in DOMAIN pending : x # g => Without(g)[x] = pending[x]
      BY WithoutIs
    <3>2. pending' = Without(g)
      BY <1>3
    <3> HIDE DEF g
    <3>3. /\ DOMAIN pending' = DOMAIN pending \ {g}
          /\ \A x \in DOMAIN pending : x # g => pending'[x] = pending[x]
      BY <3>1, <3>2
    <3> QED BY <3>3 DEF g
  <2>2. CASE h # muts[m].hash
    BY <2>1, <2>2, TiedStays
  <2>3. CASE h = muts[m].hash
    <3>1. TiedToTheUntold(h)
      BY <2>1, <2>3, TiedGoes
    <3>2. EndsWithItsOwn(h)
      BY <1>3, <2>3 DEF EndsWithItsOwn, Tied, Of
    <3> QED BY <3>1, <3>2
  <2> QED BY <2>2, <2>3
<1> QED BY <1>1, <1>2, <1>3

LEMMA PanelFollows ==
  TypeOK /\ PanelInv /\ [Next]_vars => \A h \in Hash : EndsWithItsOwn(h) /\ TiedToTheUntold(h)
<1> SUFFICES ASSUME TypeOK, MutInv, OnceInv, OverlayInv, BufferInv, MemoryInv, [Next]_vars,
                    NEW h \in Hash
             PROVE  EndsWithItsOwn(h) /\ TiedToTheUntold(h)
  BY DEF PanelInv
<1> DEFINE Goal == EndsWithItsOwn(h) /\ TiedToTheUntold(h)
<1>0. UNCHANGED pending => Goal
  BY TiedStays
<1> HIDE DEF Goal
<1>1. ASSUME NEW a \in Action, NEW g \in Hash, Request(a, g) PROVE Goal
  <2> DEFINE m == Len(muts) + 1
  <2>1. /\ rq = NoRequest /\ rq' = [mut |-> m, query |-> FALSE] /\ m # 0 /\ muts'[m].hash = g
        /\ a # "add" => /\ DOMAIN pending' = DOMAIN pending \cup {g}
                        /\ pending'[g].mut = Unknown
        /\ a = "add" => DOMAIN pending' = DOMAIN pending
        /\ \A x \in DOMAIN pending : (a = "add" \/ x # g) => pending'[x] = pending[x]
    BY <1>1, RequestDoes
  <2> HIDE DEF m
  <2>2. CASE a = "add" \/ h # g
    <3>1. \/ h \notin DOMAIN pending /\ h \notin DOMAIN pending'
          \/ h \in DOMAIN pending /\ h \in DOMAIN pending' /\ pending'[h].mut = pending[h].mut
      BY <2>1, <2>2
    <3> QED BY <3>1, TiedStays DEF Goal
  <2>3. CASE a # "add" /\ h = g
    <3>1. TiedToTheUntold(h)
      BY <2>1, <2>3, TiedGoes
    <3>2. rq'.mut = m /\ rq' # rq /\ rq' # NoRequest
      BY <2>1, UnqueriedIs
    <3>3. EndsWithItsOwn(h)
      BY <2>1, <2>3, <3>2 DEF EndsWithItsOwn
    <3> QED BY <3>1, <3>3 DEF Goal
  <2> QED BY <2>2, <2>3
<1>2. ASSUME NEW a \in Action, NEW g \in Hash, Foreign(a, g) PROVE Goal
  BY <1>0, <1>2, ForeignDoes DEF panelVars
<1>3. CASE OnAccepted
  <2> DEFINE m == rq.mut  g == muts[m].hash
  <2>1. /\ m \in DOMAIN muts
        /\ \/ Buffered(m) /\ pending' = Terminal(m)
           \/ ~Buffered(m) /\ AcceptedBag(m)
    BY <1>3, AcceptedDoes
  <2>2. CASE Buffered(m) /\ pending' = Terminal(m)
    <3>1. muts[m].status = "done"
      BY <2>2 DEF Buffered, MutInv
    <3> QED BY <2>1, <2>2, <3>1, TerminalFollows DEF Goal
  <2>3. CASE ~Buffered(m) /\ AcceptedBag(m)
    <3>1. /\ DOMAIN pending' = DOMAIN pending \cup {g} /\ pending'[g].mut = m
          /\ \A x \in DOMAIN pending : x # g => pending'[x] = pending[x]
      BY <2>3 DEF AcceptedBag
    <3>2. CASE h # g
      <4>1. \/ h \notin DOMAIN pending /\ h \notin DOMAIN pending'
            \/ h \in DOMAIN pending /\ h \in DOMAIN pending' /\ pending'[h].mut = pending[h].mut
        BY <3>1, <3>2
      <4> QED BY <4>1, TiedStays DEF Goal
    <3>3. CASE h = g
      <4>1. m # 0
        BY <2>1, MutFields
      <4>2. Tied(h)'
        BY <3>1, <3>3, <4>1 DEF Tied, Unknown
      <4>3. Remembers(m) => rq.query /\ muts[m].action = "add"
        BY <2>3, <4>1 DEF MemoryInv
      <4>4. EndsWithItsOwn(h)
        BY <4>2 DEF EndsWithItsOwn
      <4>5. TiedToTheUntold(h)
        BY <3>1, <3>3, <4>3 DEF TiedToTheUntold, Of
      <4> QED BY <4>4, <4>5 DEF Goal
    <3> QED BY <3>2, <3>3
  <2> QED BY <2>1, <2>2, <2>3
<1>4. CASE OnResultResponse
  <2>1. rq.mut \in DOMAIN muts /\ muts[rq.mut].status = "done" /\ pending' = Terminal(rq.mut)
    BY <1>4, ResponseDoes
  <2> QED BY <2>1, TerminalFollows DEF Goal
<1>5. CASE OnRejected
  <2> DEFINE g == muts[rq.mut].hash
  <2>1. \/ pending' = pending
        \/ pending' = Without(g) /\ g \in DOMAIN pending /\ pending[g].mut = Unknown
    BY <1>5, RejectedDoes
  <2>2. CASE pending' = Without(g) /\ g \in DOMAIN pending /\ pending[g].mut = Unknown
    <3>1. /\ DOMAIN pending' = DOMAIN pending \ {g}
          /\ \A x \in DOMAIN pending : x # g => pending'[x] = pending[x]
      BY <2>2, WithoutIs
    <3>2. CASE h # g
      BY <3>1, <3>2, TiedStays DEF Goal
    <3>3. CASE h = g
      <4>1. TiedToTheUntold(h) /\ ~Tied(h)
        BY <2>2, <3>1, <3>3, TiedGoes DEF Tied
      <4> QED BY <4>1 DEF Goal, EndsWithItsOwn
    <3> QED BY <3>2, <3>3
  <2> QED BY <1>0, <2>1, <2>2 DEF Goal
<1>6. CASE OnResultPush
  <2> DEFINE m == Head(pushes)  g == muts[m].hash
  <2>1. /\ muts[m].status = "done"
        /\ \/ pending' = Without(g) /\ g \in DOMAIN pending /\ pending[g].mut = m
           \/ UNCHANGED pending
    BY <1>6, PushDoes
  <2>2. CASE pending' = Without(g) /\ g \in DOMAIN pending /\ pending[g].mut = m
    <3>1. /\ DOMAIN pending' = DOMAIN pending \ {g}
          /\ \A x \in DOMAIN pending : x # g => pending'[x] = pending[x]
      BY <2>2, WithoutIs
    <3>2. CASE h # g
      BY <3>1, <3>2, TiedStays DEF Goal
    <3>3. CASE h = g
      <4>1. TiedToTheUntold(h)
        BY <3>1, <3>3, TiedGoes
      <4>2. EndsWithItsOwn(h)
        BY <2>1, <2>2, <3>3 DEF EndsWithItsOwn, Of
      <4> QED BY <4>1, <4>2 DEF Goal
    <3> QED BY <3>2, <3>3
  <2> QED BY <1>0, <2>1, <2>2 DEF Goal
<1>7. ASSUME NEW g \in Hash, GrowsOld(g) PROVE Goal
  <2>1. /\ DOMAIN pending' = DOMAIN pending
        /\ \A x \in DOMAIN pending : pending'[x].mut = pending[x].mut
    BY <1>7, GrowsDoes
  <2> QED BY <2>1, TiedStays DEF Goal
<1>8. CASE Watchdog
  <2>1. /\ rq = NoRequest /\ UNCHANGED muts /\ Spared
        /\ \/ UNCHANGED rq /\ \A x \in DOMAIN pending' : pending'[x] = pending[x]
           \/ \E g \in DOMAIN pending : Asked(g)
    BY <1>8, WatchdogDoes
  <2>2. CASE h \notin DOMAIN pending'
    <3>1. TiedToTheUntold(h)
      BY <2>2, TiedGoes
    <3>2. EndsWithItsOwn(h)
      BY <2>1, <2>2 DEF EndsWithItsOwn, Spared, Tied
    <3> QED BY <3>1, <3>2 DEF Goal
  <2>3. CASE h \in DOMAIN pending' /\ pending'[h] = pending[h]
    BY <2>1, <2>3, TiedStays DEF Goal, Spared
  <2>4. CASE h \in DOMAIN pending' /\ Asked(h)
    <3>1. /\ rq' = [mut |-> pending[h].ref, query |-> TRUE] /\ h \in DOMAIN pending
          /\ pending'[h].mut = IF pending[h].action = "add" THEN pending[h].mut ELSE Unknown
      BY <2>4 DEF Asked
    <3>2. CASE pending'[h].mut = pending[h].mut
      BY <2>4, <3>1, <3>2, TiedStays DEF Goal
    <3>3. CASE pending'[h].mut = Unknown
      <4>1. TiedToTheUntold(h)
        BY <3>3, TiedGoes
      <4>2. rq'.mut = pending[h].ref /\ rq'.query
        BY <3>1
      <4>3. muts'[rq'.mut].hash = h /\ rq # rq' /\ rq' # NoRequest
        BY <2>1, <3>1, <4>2, UnqueriedIs DEF OverlayInv
      <4>4. EndsWithItsOwn(h)
        BY <4>3 DEF EndsWithItsOwn
      <4> QED BY <4>1, <4>4 DEF Goal
    <3> QED BY <3>1, <3>2, <3>3
  <2>5. h \in DOMAIN pending' => pending'[h] = pending[h] \/ Asked(h)
    BY <2>1 DEF Asked
  <2> QED BY <2>2, <2>3, <2>4, <2>5
<1>9. CASE Reset
  <2>1. DOMAIN pending' = {} /\ resets' = resets + 1 /\ resets \in Nat
    BY <1>9, ResetDoes, NothingPending DEF TypeOK
  <2>2. resets' # resets
    BY <2>1
  <2> QED BY <2>1, <2>2, TiedGoes DEF Goal, EndsWithItsOwn
<1>10. ASSUME NEW m \in DOMAIN muts, Register(m) PROVE Goal
  BY <1>0, <1>10, RegisterDoes DEF panelVars
<1>11. ASSUME NEW m \in DOMAIN muts, Settle(m) PROVE Goal
  BY <1>0, <1>11, SettleDoes DEF panelVars
<1>12. CASE Accept
  BY <1>0, <1>12, AcceptDoes DEF panelVars, Goal
<1>13. CASE Refuse
  BY <1>0, <1>13, RefuseDoes DEF panelVars, Goal
<1>14. CASE Replay
  BY <1>0, <1>14, ReplayDoes DEF panelVars, Goal
<1>15. CASE UNCHANGED vars
  BY <1>0, <1>15 DEF vars, Goal
<1>16. Goal
  BY <1>1, <1>2, <1>3, <1>4, <1>5, <1>6, <1>7, <1>8, <1>9, <1>10, <1>11, <1>12, <1>13, <1>14, <1>15
  DEF Next, Goal
<1> QED BY <1>16 DEF Goal

\* An overlay tied to a mutation ends with the outcome of that mutation, and
\* none is tied to a mutation whose result the session was already told, within
\* what the buffer holds (MutationClient.js onResultPush, onAccepted,
\* applyTerminal; Panel.qml mutationWatchdog).
THEOREM OverlaysFollow == Spec => OverlaysFollowTheirOwn
<1> DEFINE Follows ==
      \A h \in Hash :
        /\ Tied(h) /\ ~Tied(h)' =>
             \/ Of(pending[h].mut).status = "done"
             \/ h \in DueRemovals
             \/ rq # rq' /\ rq' # NoRequest /\ muts'[rq'.mut].hash = h
             \/ resets' # resets
        /\ Tied(h)' /\ ~(Tied(h) /\ pending[h].mut = pending'[h].mut) =>
             LET m == pending'[h].mut
             IN  m = rq.mut /\ (Remembers(m) => rq.query /\ Of(m).action = "add")
<1>1. TypeOK /\ PanelInv /\ [Next]_vars => Follows
  <2>1. (\A h \in Hash : EndsWithItsOwn(h) /\ TiedToTheUntold(h)) => Follows
    BY DEF EndsWithItsOwn, TiedToTheUntold
  <2> HIDE DEF Follows
  <2> QED BY <2>1, PanelFollows
<1>2. TypeOK /\ PanelInv /\ [Next]_vars => [Follows]_vars
  BY <1>1
<1>3. TypeOK /\ PanelInv /\ [Next]_vars => (TypeOK /\ PanelInv)'
  BY PanelNext
<1>4. Spec => [][Follows]_vars
  BY PanelInit, <1>2, <1>3, PTL DEF Spec
<1> QED BY <1>4 DEF OverlaysFollowTheirOwn
=============================================================================
