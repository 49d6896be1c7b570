---------------------------- MODULE MutatorProofs ----------------------------
(***************************************************************************)
(* Theorems about Mutator, for any number of handlers, refs, torrents and  *)
(* requests, every cap, every ring size and every bound.                   *)
(***************************************************************************)
EXTENDS Mutator, TLAPS, FiniteSetTheorems, SequenceTheorems, WellFoundedInduction

-----------------------------------------------------------------------------
(* The ring.                                                               *)

\* Truncation keeps the last RingSize records.
LEMMA BoundedRing ==
  ASSUME NEW S, NEW s \in Seq(S)
  PROVE  /\ Bounded(s) \in Seq(S)
         /\ Len(Bounded(s)) = IF Len(s) > RingSize THEN RingSize ELSE Len(s)
         /\ \A i \in 1..Len(s) : i > Len(s) - RingSize =>
              /\ i - (Len(s) - Len(Bounded(s))) \in 1..Len(Bounded(s))
              /\ Bounded(s)[i - (Len(s) - Len(Bounded(s)))] = s[i]
<1>1. RingSize \in Nat \ {0} /\ Len(s) \in Nat
  BY MutatorAssumption
<1>2. CASE Len(s) <= RingSize
  <2>1. Bounded(s) = s
    BY <1>1, <1>2 DEF Bounded
  <2> QED
    BY <1>1, <1>2, <2>1
<1>3. CASE Len(s) > RingSize
  <2> DEFINE m == Len(s) - RingSize + 1
  <2>1. Bounded(s) = SubSeq(s, m, Len(s))
    BY <1>3 DEF Bounded
  <2>2. m \in Int /\ Len(s) \in Int /\ \A i \in m..Len(s) : s[i] \in S
    BY <1>1, <1>3
  <2>3. /\ SubSeq(s, m, Len(s)) \in Seq(S)
        /\ Len(SubSeq(s, m, Len(s))) = IF m <= Len(s) THEN Len(s) - m + 1 ELSE 0
        /\ \A i \in 1..(Len(s) - m + 1) : SubSeq(s, m, Len(s))[i] = s[m + i - 1]
    BY <2>2, SubSeqProperties
  <2>4. Len(Bounded(s)) = RingSize
    BY <1>1, <1>3, <2>1, <2>3
  <2>5. ASSUME NEW i \in 1..Len(s), i > Len(s) - RingSize
        PROVE  /\ i - (Len(s) - RingSize) \in 1..RingSize
               /\ Bounded(s)[i - (Len(s) - RingSize)] = s[i]
    <3>1. i - (Len(s) - RingSize) \in 1..RingSize
      BY <1>1, <1>3, <2>5
    <3>2. m + (i - (Len(s) - RingSize)) - 1 = i
      BY <1>1
    <3> QED
      BY <1>1, <2>1, <2>3, <3>1, <3>2
  <2> QED
    BY <1>3, <2>1, <2>3, <2>4, <2>5
<1> QED
  BY <1>1, <1>2, <1>3

\* A set of positions has a least one: of the segments T \cap (1..k) that
\* end in T, a minimal one ends there.
LEMMA LeastPosition ==
  ASSUME NEW n \in Nat, NEW T \in SUBSET (1..n), T # {}
  PROVE  \E x \in T : \A y \in T : x <= y
<1> DEFINE S    == 1..n
           Seg(k) == T \cap (1..k)
           Segs == {Seg(k) : k \in T}
<1>1. IsFiniteSet(S) /\ FiniteSubsetsOf(S) = SUBSET S
  BY FS_Interval, FS_FiniteSubsetsOfFinite
<1>2. IsWellFoundedOn(StrictSubsetOrdering(S), SUBSET S)
  BY <1>1, FS_StrictSubsetOrderingWellFounded
<1>3. Segs \subseteq SUBSET S /\ Segs # {}
  OBVIOUS
<1>4. PICK X \in Segs : \A Y \in Segs : <<Y, X>> \notin StrictSubsetOrdering(S)
  BY <1>2, <1>3, WFMin
<1>5. PICK x \in T : X = Seg(x)
  BY <1>4
<1>6. ASSUME NEW y \in T, y < x PROVE FALSE
  <2>1. Seg(y) \in Segs /\ Seg(y) \subseteq X /\ x \in X /\ x \notin Seg(y)
    BY <1>5, <1>6
  <2>2. <<Seg(y), X>> \in StrictSubsetOrdering(S)
    BY <1>3, <1>4, <2>1 DEF StrictSubsetOrdering
  <2> QED
    BY <1>4, <2>1, <2>2
<1>7. \A y \in T : x <= y
  BY <1>6
<1> QED
  BY <1>7

\* A recorded ref has an oldest record.
LEMMA OldestRecord ==
  ASSUME ring \in Seq(Records), NEW r, Recorded(r)
  PROVE  \E i \in 1..Len(ring) : ring[i].ref = r /\ Oldest(r) = ring[i]
<1> DEFINE T == {i \in 1..Len(ring) : ring[i].ref = r}
<1>1. Len(ring) \in Nat /\ T # {} /\ T \in SUBSET (1..Len(ring))
  BY DEF Recorded
<1>2. PICK x \in T : \A y \in T : x <= y
  BY <1>1, LeastPosition
<1>3. \A j \in 1..(x - 1) : ring[j].ref # r
  BY <1>1, <1>2
<1> QED
  BY <1>2, <1>3 DEF Oldest

\* Appending records keeps the ring, and the ages, well formed.
LEMMA RememberType ==
  ASSUME TypeOK, NEW recs \in Seq(Records), Remember(recs)
  PROVE  /\ ring' \in Seq(Records) /\ Len(ring') <= RingSize
         /\ age' \in [Ref -> 0..(RingSize + 1)]
<1>1. RingSize \in Nat \ {0} /\ ring \in Seq(Records) /\ age \in [Ref -> 0..(RingSize + 1)]
  BY MutatorAssumption DEF TypeOK
<1>2. ring \o recs \in Seq(Records) /\ Len(ring \o recs) \in Nat /\ Len(recs) \in Nat
  BY <1>1, ConcatProperties
<1>3. ring' \in Seq(Records) /\ Len(ring') <= RingSize
  <2>1. /\ Bounded(ring \o recs) \in Seq(Records)
        /\ Len(Bounded(ring \o recs)) = IF Len(ring \o recs) > RingSize THEN RingSize
                                                                       ELSE Len(ring \o recs)
    BY <1>2, BoundedRing, Zenon
  <2>2. Len(Bounded(ring \o recs)) <= RingSize
    BY <1>1, <1>2, <2>1
  <2> QED
    BY <2>1, <2>2 DEF Remember
<1>4. age' \in [Ref -> 0..(RingSize + 1)]
  <2>1. ASSUME NEW r \in Ref
        PROVE  (IF age[r] + Len(recs) > RingSize THEN RingSize + 1
                  ELSE age[r] + Len(recs)) \in 0..(RingSize + 1)
    BY <1>1, <1>2
  <2> QED
    BY <2>1 DEF Remember
<1> QED
  BY <1>3, <1>4

-----------------------------------------------------------------------------
(* Type correctness, with the finiteness of the in-flight map.             *)

\* With it: the code a refusal is about to record is a refusal.
CodeInv ==
  /\ IsFiniteSet(DOMAIN inflight)
  /\ \A t \in Thread : th[t].pc = "reject" => th[t].ans.outcome \in Refusals

Stage1s == [outcome : Outcomes, mut : Nat]

\* A handler that is in Submit has its locals.
LEMMA BusyLocals ==
  ASSUME TypeOK, NEW t \in Thread, th[t].pc # "idle"
  PROVE  th[t] \in Locals
BY DEF TypeOK, Idle

\* Lookup answers with a Stage1.
LEMMA LookupType ==
  ASSUME TypeOK, NEW r \in Ref, Known(r), NEW q
  PROVE  Lookup(r, q) \in Stage1s
<1>1. CASE r \in DOMAIN inflight
  <2>1. inflight[r] \in Pendings
    BY <1>1 DEF TypeOK
  <2> QED
    BY <1>1, <2>1 DEF Lookup, Answer, Stage1s, Outcomes, Pendings
<1>2. CASE r \notin DOMAIN inflight
  <2>1. ring \in Seq(Records) /\ Recorded(r)
    BY <1>2 DEF Known, TypeOK
  <2>2. Oldest(r) \in Records
    BY <2>1, OldestRecord
  <2>3. Oldest(r).outcome \in Outcomes /\ Oldest(r).mut \in Nat
    BY <2>2 DEF Records, Outcomes
  <2> QED
    BY <1>2, <2>3 DEF Lookup, Answer, Stage1s, Outcomes
<1> QED
  BY <1>1, <1>2

\* An answer leaves the handler with its locals.
LEMMA AnsweredType ==
  ASSUME TypeOK, NEW t \in Thread, th[t].pc # "idle", NEW a \in Stage1s, Answered(t, a)
  PROVE  th' \in [Thread -> Locals \cup {Idle}]
<1>1. th[t] \in Locals
  BY BusyLocals
<1>2. [th[t] EXCEPT !.pc = "answered", !.ans = a, !.src = 0, !.backend = 0, !.mut = 0] \in Locals
  BY <1>1 DEF Locals, Stage1s
<1>3. th' = [th EXCEPT ![t] = [th[t] EXCEPT !.pc = "answered", !.ans = a, !.src = 0,
                                            !.backend = 0, !.mut = 0]]
  BY <1>1 DEF Answered, Locals, TypeOK
<1> QED
  BY <1>2, <1>3 DEF TypeOK

LEMMA SubmitType ==
  ASSUME TypeOK, CodeInv, NEW t \in Thread, NEW r \in Ref, NEW q \in Request, Submit(t, r, q)
  PROVE  TypeOK' /\ CodeInv'
<1> DEFINE new == [pc |-> IF Known(r) \/ Full THEN "answered" ELSE "validate",
                   ref |-> r, req |-> q, src |-> 0, backend |-> 0, mut |-> 0,
                   ans |-> IF Known(r) THEN Lookup(r, q)
                           ELSE IF Full THEN Answer("busy", 0) ELSE NoAnswer]
<1>1. Known(r) => Lookup(r, q) \in Stage1s
  BY LookupType
<1>2. Answer("busy", 0) \in Stage1s /\ NoAnswer \in Stage1s
  BY DEF Answer, NoAnswer, Stage1s, Outcomes
<1>3. new \in Locals /\ new.pc # "reject"
  BY <1>1, <1>2 DEF Locals, Stage1s
<1>4. th' = [th EXCEPT ![t] = new]
  BY DEF Submit
<1> HIDE DEF new
<1>5. th' \in [Thread -> Locals \cup {Idle}]
  BY <1>3, <1>4 DEF TypeOK
<1>6. \A x \in Thread : th'[x].pc = "reject" => th'[x] = th[x]
  BY <1>3, <1>4 DEF TypeOK
<1> QED
  BY <1>5, <1>6 DEF Submit, TypeOK, CodeInv, muVars, recVars

LEMMA ValidateType ==
  ASSUME TypeOK, CodeInv, NEW t \in Thread, Validate(t)
  PROVE  TypeOK' /\ CodeInv'
<1>1. th[t] \in Locals /\ st \in States
  BY BusyLocals DEF Validate, TypeOK
<1>2. Refusal(th[t].req, st) \in Refusals \cup {"none"}
  BY DEF Refusal, Refusals
<1> DEFINE code == Refusal(th[t].req, st)
           new == [th[t] EXCEPT !.pc = IF code = "none" THEN "register" ELSE "reject",
                                !.src = st.src, !.ans = Answer(code, 0)]
<1>3. new \in Locals
  BY <1>1, <1>2 DEF Locals, Answer, Outcomes, States
<1>4. th' = [th EXCEPT ![t] = new]
  BY <1>1 DEF Validate, TypeOK, Locals
<1>5. new.pc = "reject" => new.ans.outcome \in Refusals
  BY <1>1, <1>2 DEF Locals, Answer
<1> HIDE DEF new
<1>6. th' \in [Thread -> Locals \cup {Idle}]
  BY <1>3, <1>4 DEF TypeOK
<1>7. \A x \in Thread : th'[x].pc = "reject" => th'[x].ans.outcome \in Refusals
  BY <1>4, <1>5 DEF TypeOK, CodeInv
<1> QED
  BY <1>6, <1>7 DEF Validate, TypeOK, CodeInv, muVars, recVars

\* An answer brings no handler to the recording of a refusal.
LEMMA AnsweredCode ==
  ASSUME TypeOK, CodeInv, NEW t \in Thread, th[t].pc # "idle", NEW a, Answered(t, a)
  PROVE  \A x \in Thread : th'[x].pc = "reject" => th'[x].ans.outcome \in Refusals
<1>1. th[t] \in Locals
  BY BusyLocals
<1>2. th'[t].pc = "answered"
  BY <1>1 DEF Answered, TypeOK, Locals
<1>3. \A x \in Thread \ {t} : th'[x] = th[x]
  BY DEF Answered, TypeOK
<1> QED
  BY <1>2, <1>3 DEF CodeInv

LEMMA RejectType ==
  ASSUME TypeOK, CodeInv, NEW t \in Thread, Reject(t)
  PROVE  TypeOK' /\ CodeInv'
<1> DEFINE rec == Record(th[t].ref, th[t].req, th[t].ans.outcome, 0)
<1>1. th[t] \in Locals /\ th[t].ans.outcome \in Refusals
  BY BusyLocals DEF Reject, CodeInv
<1>2. rec \in Records
  BY <1>1 DEF Record, Records, Locals
<1>3. <<rec>> \in Seq(Records)
  BY <1>2
<1>4. /\ ring' \in Seq(Records) /\ Len(ring') <= RingSize
      /\ age' \in [Ref -> 0..(RingSize + 1)]
  BY <1>3, RememberType DEF Reject
<1>5. th[t].ans \in Stage1s
  BY <1>1 DEF Locals, Stage1s
<1>6. th' \in [Thread -> Locals \cup {Idle}]
  BY <1>5, AnsweredType DEF Reject
<1>7. \A x \in Thread : th'[x].pc = "reject" => th'[x].ans.outcome \in Refusals
  BY AnsweredCode DEF Reject
<1> QED
  BY <1>4, <1>6, <1>7 DEF Reject, TypeOK, CodeInv, recVars

LEMMA RegisterType ==
  ASSUME TypeOK, CodeInv, NEW t \in Thread, Register(t)
  PROVE  TypeOK' /\ CodeInv'
<1> DEFINE r == th[t].ref
           q == th[t].req
           p == [mut |-> nextMut', req |-> q, epoch |-> epoch, due |-> FALSE, held |-> Holds(q, st)]
           new == [th[t] EXCEPT !.pc = "call", !.backend = backend, !.mut = nextMut']
<1>1. th[t] \in Locals /\ r \in Ref /\ q \in Request
  BY BusyLocals DEF Register, Locals
<1>2. nextMut' \in Nat /\ epoch \in Nat /\ backend \in Nat
  BY DEF Register, TypeOK
<1>3. Holds(q, st) \in BOOLEAN
  BY DEF Holds
<1>4. p \in Pendings
  BY <1>1, <1>2, <1>3 DEF Pendings
<1>5. /\ DOMAIN inflight' = DOMAIN inflight \cup {r}
      /\ inflight' = [x \in DOMAIN inflight \cup {r} |-> IF x = r THEN p ELSE inflight[x]]
  BY DEF Register
<1> HIDE DEF p
<1>6. DOMAIN inflight' \subseteq Ref /\ inflight' \in [DOMAIN inflight' -> Pendings]
  BY <1>1, <1>4, <1>5 DEF TypeOK
<1>7. IsFiniteSet(DOMAIN inflight')
  BY <1>5, FS_AddElement DEF CodeInv
<1>8. new \in Locals /\ new.pc # "reject"
  BY <1>1, <1>2 DEF Locals
<1>9. th' = [th EXCEPT ![t] = new]
  BY <1>1 DEF Register, TypeOK, Locals
<1> HIDE DEF new
<1>10. th' \in [Thread -> Locals \cup {Idle}]
  BY <1>8, <1>9 DEF TypeOK
<1>11. \A x \in Thread : th'[x].pc = "reject" => th'[x].ans.outcome \in Refusals
  BY <1>8, <1>9 DEF TypeOK, CodeInv
<1>12. reg' \in Seq([ref : Ref, req : Request])
  BY <1>1 DEF Register, TypeOK
<1>13. age' \in [Ref -> 0..(RingSize + 1)]
  BY <1>1, MutatorAssumption DEF Register, TypeOK
<1> QED
  BY <1>2, <1>6, <1>7, <1>10, <1>11, <1>12, <1>13 DEF Register, TypeOK, CodeInv, recVars

LEMMA TurnAwayType ==
  ASSUME TypeOK, CodeInv, NEW t \in Thread, TurnAway(t)
  PROVE  TypeOK' /\ CodeInv'
<1> DEFINE a == IF ~draining /\ Known(th[t].ref) THEN Lookup(th[t].ref, th[t].req)
                                                ELSE Answer("busy", 0)
<1>1. th[t].ref \in Ref
  BY BusyLocals DEF TurnAway, Locals
<1>2. a \in Stage1s
  BY <1>1, LookupType DEF Answer, Stage1s, Outcomes
<1>3. th' \in [Thread -> Locals \cup {Idle}]
  BY <1>2, AnsweredType DEF TurnAway
<1>4. \A x \in Thread : th'[x].pc = "reject" => th'[x].ans.outcome \in Refusals
  BY AnsweredCode DEF TurnAway
<1> QED
  BY <1>3, <1>4 DEF TurnAway, TypeOK, CodeInv, muVars, recVars

LEMMA CallOKType ==
  ASSUME TypeOK, CodeInv, NEW t \in Thread, CallOK(t)
  PROVE  TypeOK' /\ CodeInv'
<1>1. Answer("accepted", th[t].mut) \in Stage1s
  BY BusyLocals DEF CallOK, Locals, Answer, Stage1s, Outcomes
<1>2. th' \in [Thread -> Locals \cup {Idle}]
  BY <1>1, AnsweredType DEF CallOK
<1>3. \A x \in Thread : th'[x].pc = "reject" => th'[x].ans.outcome \in Refusals
  BY AnsweredCode DEF CallOK
<1> QED
  BY <1>2, <1>3 DEF CallOK, TypeOK, CodeInv, muVars, recVars

LEMMA CallFailType ==
  ASSUME TypeOK, CodeInv, NEW t \in Thread, CallFail(t)
  PROVE  TypeOK' /\ CodeInv'
<1> DEFINE rec == Record(th[t].ref, th[t].req, "failed", 0)
<1>1. th[t] \in Locals
  BY BusyLocals DEF CallFail
<1>2. <<rec>> \in Seq(Records)
  BY <1>1 DEF Record, Records, Locals
<1>3. /\ ring' \in Seq(Records) /\ Len(ring') <= RingSize
      /\ age' \in [Ref -> 0..(RingSize + 1)]
  BY <1>2, RememberType DEF CallFail
<1>4. Answer("failed", 0) \in Stage1s
  BY DEF Answer, Stage1s, Outcomes
<1>5. th' \in [Thread -> Locals \cup {Idle}]
  BY <1>4, AnsweredType DEF CallFail
<1>6. \A x \in Thread : th'[x].pc = "reject" => th'[x].ans.outcome \in Refusals
  BY AnsweredCode DEF CallFail
<1>7. /\ DOMAIN inflight' = DOMAIN inflight \ {th[t].ref}
      /\ DOMAIN inflight' \subseteq Ref /\ inflight' \in [DOMAIN inflight' -> Pendings]
  BY DEF CallFail, TypeOK
<1>8. IsFiniteSet(DOMAIN inflight')
  BY <1>7, FS_Subset DEF CodeInv
<1> QED
  BY <1>3, <1>5, <1>6, <1>7, <1>8 DEF CallFail, TypeOK, CodeInv, recVars

LEMMA ReturnType ==
  ASSUME TypeOK, CodeInv, NEW t \in Thread, Return(t)
  PROVE  TypeOK' /\ CodeInv'
BY DEF Return, Idle, TypeOK, CodeInv, muVars, recVars

\* An order enumerates the settled refs without repetition.
LEMMA OrderOfSettled ==
  ASSUME CodeInv, NEW order \in Orders(Settled)
  PROVE  /\ IsFiniteSet(Settled) /\ Cardinality(Settled) \in Nat
         /\ order \in [1..Cardinality(Settled) -> Settled]
         /\ \A r \in Settled : \E i \in 1..Cardinality(Settled) : order[i] = r
<1>1. IsFiniteSet(Settled) /\ Cardinality(Settled) \in Nat
  BY FS_Subset, FS_CardinalityType DEF CodeInv, Settled
<1> DEFINE n == Cardinality(Settled)
<1>2. order \in [1..n -> Settled] /\ \A i, j \in 1..n : order[i] = order[j] => i = j
  BY DEF Orders
<1>3. IsFiniteSet(1..n) /\ Cardinality(1..n) = n
  BY <1>1, FS_Interval
<1>4. order \in Injection(1..n, Settled)
  BY <1>2 DEF Injection, IsInjective
<1>5. order \in Surjection(1..n, Settled)
  BY <1>1, <1>3, <1>4, FS_Injection
<1> QED
  BY <1>1, <1>2, <1>5 DEF Surjection

\* The records Settle appends.
Settlement(order) ==
  [i \in DOMAIN order |-> LET p == inflight[order[i]]
                          IN  Record(order[i], p.req, Verdict(p), p.mut)]

LEMMA SettlementType ==
  ASSUME TypeOK, CodeInv, NEW order \in Orders(Settled)
  PROVE  /\ Settlement(order) \in Seq(Records)
         /\ Len(Settlement(order)) = Cardinality(Settled)
<1> DEFINE n == Cardinality(Settled)
<1>1. n \in Nat /\ order \in [1..n -> Settled]
  BY OrderOfSettled
<1>2. ASSUME NEW i \in 1..n
      PROVE  Record(order[i], inflight[order[i]].req, Verdict(inflight[order[i]]),
                    inflight[order[i]].mut) \in Records
  <2>1. order[i] \in DOMAIN inflight /\ Verdict(inflight[order[i]]) # "open"
    BY <1>1 DEF Settled
  <2>2. inflight[order[i]] \in Pendings /\ order[i] \in Ref
    BY <2>1 DEF TypeOK
  <2>3. Verdict(inflight[order[i]]) \in Verdicts
    BY <2>1 DEF Verdict, Verdicts
  <2> QED
    BY <2>2, <2>3 DEF Record, Records, Pendings
<1>3. Settlement(order) \in [1..n -> Records]
  BY <1>1, <1>2 DEF Settlement
<1> QED
  BY <1>1, <1>3

LEMMA SettleType ==
  ASSUME TypeOK, CodeInv, Settle
  PROVE  TypeOK' /\ CodeInv'
<1>1. PICK order \in Orders(Settled) : Remember(Settlement(order))
  BY DEF Settle, Settlement
<1>2. /\ ring' \in Seq(Records) /\ Len(ring') <= RingSize
      /\ age' \in [Ref -> 0..(RingSize + 1)]
  BY <1>1, SettlementType, RememberType
<1>3. finished' \subseteq Results
  <2>1. ASSUME NEW r \in Settled
        PROVE  [mut |-> inflight[r].mut, status |-> Verdict(inflight[r])] \in Results
    <3>1. r \in DOMAIN inflight /\ Verdict(inflight[r]) \in Verdicts
      BY DEF Settled, Verdict, Verdicts
    <3>2. inflight[r].mut \in Nat
      BY <3>1 DEF TypeOK, Pendings
    <3> QED
      BY <3>1, <3>2 DEF Results
  <2> QED
    BY <2>1 DEF Settle, ResultsOf
<1>4. /\ DOMAIN inflight' = Open /\ Open \subseteq DOMAIN inflight
      /\ inflight' \in [DOMAIN inflight' -> Pendings]
  BY DEF Settle, Open, TypeOK
<1>5. IsFiniteSet(DOMAIN inflight')
  BY <1>4, FS_Subset DEF CodeInv
<1>6. snap' \in States
  <2>1. "absent" \in Row
    BY MutatorAssumption
  <2> QED
    BY <2>1 DEF Settle, Blank, BlankOf, States
<1> QED
  BY <1>2, <1>3, <1>4, <1>5, <1>6 DEF Settle, TypeOK, CodeInv

\* The other steps of reconcile, and the deadline.
LEMMA ReconcileType ==
  ASSUME TypeOK, CodeInv, \/ ReadState
                          \/ \E f \in finished : Publish(f)
                          \/ \E r \in Ref : Deadline(r)
  PROVE  TypeOK' /\ CodeInv'
<1>1. CASE ReadState
  BY <1>1 DEF ReadState, TypeOK, CodeInv, muVars
<1>2. ASSUME NEW f \in finished, Publish(f) PROVE TypeOK' /\ CodeInv'
  BY <1>2 DEF Publish, TypeOK, CodeInv, muVars
<1>3. ASSUME NEW r \in Ref, Deadline(r) PROVE TypeOK' /\ CodeInv'
  <2>1. inflight[r] \in Pendings
    BY <1>3 DEF Deadline, TypeOK
  <2>2. [inflight[r] EXCEPT !.due = TRUE] \in Pendings
    BY <2>1 DEF Pendings
  <2>3. inflight' = [inflight EXCEPT ![r] = [inflight[r] EXCEPT !.due = TRUE]]
    BY <1>3 DEF Deadline
  <2>4. DOMAIN inflight' = DOMAIN inflight /\ inflight' \in [DOMAIN inflight -> Pendings]
    BY <2>2, <2>3 DEF TypeOK
  <2> QED
    BY <1>3, <2>4 DEF Deadline, TypeOK, CodeInv, recVars
<1> QED
  BY <1>1, <1>2, <1>3

\* What a commit of the syncer does to the pending mutations.
LEMMA CommittedType ==
  ASSUME TypeOK, NEW s, Committed(s)
  PROVE  /\ DOMAIN inflight' = DOMAIN inflight
         /\ inflight' \in [DOMAIN inflight -> Pendings]
         /\ \A r \in DOMAIN inflight :
              /\ inflight'[r].mut = inflight[r].mut
              /\ inflight'[r].req = inflight[r].req
              /\ inflight'[r].epoch = inflight[r].epoch
<1>1. ASSUME NEW r \in DOMAIN inflight
      PROVE  /\ [inflight[r] EXCEPT !.held = @ \/ Holds(inflight[r].req, s)] \in Pendings
             /\ inflight'[r] = [inflight[r] EXCEPT !.held = @ \/ Holds(inflight[r].req, s)]
             /\ inflight[r] \in Pendings
  <2>1. inflight[r] \in Pendings
    BY DEF TypeOK
  <2>2. (inflight[r].held \/ Holds(inflight[r].req, s)) \in BOOLEAN
    OBVIOUS
  <2> QED
    BY <2>1, <2>2 DEF Pendings, Committed
<1> QED
  BY <1>1 DEF Committed, Pendings

LEMMA SwitchType ==
  ASSUME TypeOK, CodeInv,
         \/ \E s \in [ok : BOOLEAN, torrents : [Hash -> Row], src : {st.src}] : StateChange(s)
         \/ BeginSwitch \/ SwitchSyncer \/ CommitSwap \/ AbortSwitch
  PROVE  TypeOK' /\ CodeInv'
<1>0. "absent" \in Row /\ st.src \in Nat /\ epoch \in Nat
  BY MutatorAssumption DEF TypeOK, States
<1>1. ASSUME NEW s \in [ok : BOOLEAN, torrents : [Hash -> Row], src : {st.src}], StateChange(s)
      PROVE  TypeOK' /\ CodeInv'
  <2>1. s \in States
    BY <1>0 DEF States
  <2>2. DOMAIN inflight' = DOMAIN inflight /\ inflight' \in [DOMAIN inflight -> Pendings]
    BY <1>1, CommittedType DEF StateChange
  <2> QED
    BY <1>1, <2>1, <2>2 DEF StateChange, Committed, TypeOK, CodeInv, recVars
<1>2. CASE SwitchSyncer
  <2>1. BlankOf(st.src + 1) \in States
    BY <1>0 DEF BlankOf, States
  <2>2. DOMAIN inflight' = DOMAIN inflight /\ inflight' \in [DOMAIN inflight -> Pendings]
    BY <1>2, CommittedType DEF SwitchSyncer
  <2> QED
    BY <1>2, <2>1, <2>2 DEF SwitchSyncer, Committed, TypeOK, CodeInv, recVars
<1>3. CASE BeginSwitch \/ AbortSwitch
  BY <1>3 DEF BeginSwitch, AbortSwitch, TypeOK, CodeInv, recVars
<1>4. CASE CommitSwap
  <2>1. backend' \in Nat /\ epoch' = epoch + 1 /\ draining' \in BOOLEAN
    BY <1>0, <1>4, Zenon DEF CommitSwap
  <2>3. epoch' \in Nat
    BY <1>0, <2>1
  <2>2. UNCHANGED <<nextMut, inflight, ring, st, th, recVars, reg, age>>
    BY <1>4 DEF CommitSwap
  <2> QED
    BY <2>1, <2>2, <2>3 DEF TypeOK, CodeInv, recVars
<1> QED
  BY <1>1, <1>2, <1>3, <1>4

LEMMA InitType == Init => TypeOK /\ CodeInv
<1> SUFFICES ASSUME Init PROVE TypeOK /\ CodeInv
  OBVIOUS
<1>1. RingSize \in Nat /\ "absent" \in Row
  BY MutatorAssumption
<1>2. Blank \in States
  BY <1>1 DEF Blank, BlankOf, States
<1>3. DOMAIN inflight = {} /\ IsFiniteSet({})
  BY FS_EmptySet DEF Init
<1>4. th \in [Thread -> Locals \cup {Idle}] /\ \A t \in Thread : th[t].pc # "reject"
  BY DEF Init, Idle
<1>5. age \in [Ref -> 0..(RingSize + 1)]
  BY <1>1 DEF Init
<1>6. ring \in Seq(Records) /\ Len(ring) <= RingSize /\ reg \in Seq([ref : Ref, req : Request])
  BY <1>1 DEF Init
<1> QED
  BY <1>2, <1>3, <1>4, <1>5, <1>6 DEF Init, TypeOK, CodeInv

LEMMA NextType == TypeOK /\ CodeInv /\ [Next]_vars => TypeOK' /\ CodeInv'
<1> SUFFICES ASSUME TypeOK, CodeInv, [Next]_vars PROVE TypeOK' /\ CodeInv'
  OBVIOUS
<1>1. ASSUME NEW t \in Thread, SubmitStep(t) PROVE TypeOK' /\ CodeInv'
  BY <1>1, SubmitType, ValidateType, RejectType, RegisterType, TurnAwayType, CallOKType,
     CallFailType, ReturnType DEF SubmitStep
<1>2. CASE UNCHANGED vars
  BY <1>2 DEF vars, muVars, recVars, TypeOK, CodeInv
<1> QED
  BY <1>1, <1>2, SettleType, ReconcileType, SwitchType DEF Next, Reconcile

\* Type correctness; in particular the ring never outgrows its size.
THEOREM TypeCorrect == Spec => []TypeOK
<1>1. Spec => [](TypeOK /\ CodeInv)
  BY InitType, NextType, PTL DEF Spec
<1> QED
  BY <1>1, PTL

-----------------------------------------------------------------------------
(* The in-flight map. Only a registration adds to it.                      *)

Registers == \E t \in Thread : Register(t)

\* Every other step leaves it as it is, or takes mutations out of it.
LEMMA OnlyRegisterAdds ==
  ASSUME TypeOK, CodeInv, [Next]_vars, ~Registers
  PROVE  /\ DOMAIN inflight' \subseteq DOMAIN inflight
         /\ \A r \in DOMAIN inflight' : /\ inflight'[r].mut = inflight[r].mut
                                        /\ inflight'[r].req = inflight[r].req
                                        /\ inflight'[r].epoch = inflight[r].epoch
         /\ UNCHANGED <<nextMut, reg>>
<1> DEFINE Goal == /\ DOMAIN inflight' \subseteq DOMAIN inflight
                   /\ \A r \in DOMAIN inflight' : /\ inflight'[r].mut = inflight[r].mut
                                                  /\ inflight'[r].req = inflight[r].req
                                                  /\ inflight'[r].epoch = inflight[r].epoch
                   /\ UNCHANGED <<nextMut, reg>>
<1>1. ASSUME UNCHANGED <<inflight, nextMut, reg>> PROVE Goal
  BY <1>1
<1>2. ASSUME NEW t \in Thread, SubmitStep(t) PROVE Goal
  <2>1. CASE CallFail(t)
    BY <2>1 DEF CallFail
  <2>2. CASE ~CallFail(t)
    BY <1>1, <1>2, <2>2 DEF SubmitStep, Registers, Submit, Validate, Reject, TurnAway, CallOK,
                            Return, muVars
  <2> QED
    BY <2>1, <2>2
<1>3. CASE Settle
  BY <1>3 DEF Settle, Open
<1>4. CASE ReadState \/ \E f \in finished : Publish(f)
  BY <1>1, <1>4 DEF ReadState, Publish, muVars
<1>5. ASSUME NEW r \in Ref, Deadline(r) PROVE Goal
  <2>1. inflight[r] \in Pendings
    BY <1>5 DEF Deadline, TypeOK
  <2>2. inflight' = [inflight EXCEPT ![r] = [inflight[r] EXCEPT !.due = TRUE]]
    BY <1>5 DEF Deadline
  <2>3. UNCHANGED <<nextMut, reg>>
    BY <1>5 DEF Deadline
  <2>4. inflight \in [DOMAIN inflight -> Pendings]
    BY DEF TypeOK
  <2> QED
    BY <2>1, <2>2, <2>3, <2>4 DEF Pendings
<1>6. ASSUME NEW s, Committed(s), UNCHANGED <<nextMut, reg>> PROVE Goal
  BY <1>6, CommittedType
<1>7. CASE BeginSwitch \/ CommitSwap \/ AbortSwitch
  BY <1>1, <1>7 DEF BeginSwitch, CommitSwap, AbortSwitch
<1>8. CASE UNCHANGED vars
  BY <1>1, <1>8 DEF vars, muVars
<1> QED
  BY <1>2, <1>3, <1>4, <1>5, <1>6, <1>7, <1>8 DEF Next, Reconcile, StateChange, SwitchSyncer

\* A registration adds one mutation, with the next id, in the current
\* epoch, when nothing drains.
LEMMA RegisterAdds ==
  ASSUME TypeOK, CodeInv, NEW t \in Thread, Register(t)
  PROVE  /\ th[t] \in Locals /\ ~draining /\ ~Known(th[t].ref) /\ ~Full
         /\ nextMut \in Nat /\ nextMut' = nextMut + 1
         /\ DOMAIN inflight' = DOMAIN inflight \cup {th[t].ref}
         /\ inflight'[th[t].ref].mut = nextMut + 1
         /\ inflight'[th[t].ref].req = th[t].req
         /\ inflight'[th[t].ref].epoch = epoch
         /\ \A r \in DOMAIN inflight : r # th[t].ref /\ inflight'[r] = inflight[r]
         /\ UNCHANGED <<epoch, draining>>
<1>1. th[t] \in Locals /\ nextMut \in Nat
  BY BusyLocals DEF Register, TypeOK
<1>2. ~draining /\ ~Known(th[t].ref) /\ ~Full
  BY DEF Register, MayRegister
<1>3. th[t].ref \notin DOMAIN inflight
  BY <1>2 DEF Known
<1> QED
  BY <1>1, <1>2, <1>3 DEF Register

\* Nothing is in flight during a drain or across a switch.
LEMMA NextOrphan == TypeOK /\ CodeInv /\ NeverOrphaned /\ [Next]_vars => NeverOrphaned'
<1> SUFFICES ASSUME TypeOK, CodeInv, NeverOrphaned, [Next]_vars PROVE NeverOrphaned'
  OBVIOUS
<1>1. ASSUME NEW t \in Thread, Register(t) PROVE NeverOrphaned'
  <2>1. ~draining'
    <3>1. ~draining /\ draining' = draining
      BY <1>1, RegisterAdds
    <3> QED
      BY <3>1, Zenon
  <2>2. ASSUME NEW r \in DOMAIN inflight' PROVE inflight'[r].epoch = epoch'
    <3>1. /\ DOMAIN inflight' = DOMAIN inflight \cup {th[t].ref} /\ epoch' = epoch
          /\ inflight'[th[t].ref].epoch = epoch
          /\ \A x \in DOMAIN inflight : inflight'[x] = inflight[x]
      BY <1>1, RegisterAdds
    <3>2. \A x \in DOMAIN inflight : inflight[x].epoch = epoch
      BY DEF NeverOrphaned
    <3> QED
      BY <3>1, <3>2
  <2> QED
    BY <2>1, <2>2 DEF NeverOrphaned
<1>2. CASE ~Registers
  <2>1. /\ DOMAIN inflight' \subseteq DOMAIN inflight
        /\ \A r \in DOMAIN inflight' : inflight'[r].epoch = inflight[r].epoch
    BY <1>2, OnlyRegisterAdds
  <2>2. CASE BeginSwitch
    BY <2>1, <2>2 DEF BeginSwitch, NeverOrphaned
  <2>3. CASE CommitSwap \/ AbortSwitch
    BY <2>1, <2>3 DEF CommitSwap, AbortSwitch, NeverOrphaned
  <2>4. CASE ~(BeginSwitch \/ CommitSwap \/ AbortSwitch)
    <3>1. UNCHANGED <<epoch, draining>>
      BY <1>2, <2>4 DEF Next, SubmitStep, Registers, Submit, Validate, Reject, TurnAway, CallOK,
           CallFail, Return, Reconcile, ReadState, Settle, Publish, Deadline, StateChange,
           SwitchSyncer, vars, muVars
    <3> QED
      BY <2>1, <3>1 DEF NeverOrphaned
  <2> QED
    BY <2>2, <2>3, <2>4
<1> QED
  BY <1>1, <1>2 DEF Registers

\* The cap is checked where mutations are added.
LEMMA NextCap == TypeOK /\ CodeInv /\ CapOnPendings /\ [Next]_vars => CapOnPendings'
<1> SUFFICES ASSUME TypeOK, CodeInv, CapOnPendings, [Next]_vars PROVE CapOnPendings'
  OBVIOUS
<1>1. IsFiniteSet(DOMAIN inflight) /\ Cardinality(DOMAIN inflight) \in Nat /\ MaxInFlight \in Nat
  BY FS_CardinalityType, MutatorAssumption DEF CodeInv
<1>2. ASSUME NEW t \in Thread, Register(t) PROVE CapOnPendings'
  <2>1. DOMAIN inflight' = DOMAIN inflight \cup {th[t].ref} /\ ~Full
    BY <1>2, RegisterAdds
  <2>2. Cardinality(DOMAIN inflight') <= Cardinality(DOMAIN inflight) + 1
    BY <1>1, <2>1, FS_AddElement
  <2>3. Cardinality(DOMAIN inflight') \in Nat
    BY <1>1, <2>1, FS_AddElement, FS_CardinalityType
  <2> QED
    BY <1>1, <2>1, <2>2, <2>3 DEF Full, CapOnPendings
<1>3. CASE ~Registers
  <2>1. DOMAIN inflight' \subseteq DOMAIN inflight
    BY <1>3, OnlyRegisterAdds
  <2>2. Cardinality(DOMAIN inflight') <= Cardinality(DOMAIN inflight)
        /\ Cardinality(DOMAIN inflight') \in Nat
    BY <1>1, <2>1, FS_Subset, FS_CardinalityType
  <2> QED
    BY <1>1, <2>2 DEF CapOnPendings
<1> QED
  BY <1>2, <1>3 DEF Registers

IInv == TypeOK /\ CodeInv /\ NeverOrphaned /\ CapOnPendings

LEMMA InductiveInvariant == Spec => []IInv
<1>1. Init => IInv
  <2> SUFFICES ASSUME Init PROVE NeverOrphaned /\ CapOnPendings
    BY InitType DEF IInv
  <2>1. DOMAIN inflight = {} /\ Cardinality({}) = 0 /\ MaxInFlight \in Nat \ {0}
    BY FS_EmptySet, MutatorAssumption DEF Init
  <2> QED
    BY <2>1 DEF NeverOrphaned, CapOnPendings
<1>2. IInv /\ [Next]_vars => IInv'
  BY NextType, NextOrphan, NextCap DEF IInv
<1> QED
  BY <1>1, <1>2, PTL DEF Spec

\* For any number of handlers, no mutation is in flight during a drain or
\* left over from an older epoch.
THEOREM NoOrphans == Spec => []NeverOrphaned
<1>1. IInv => NeverOrphaned
  BY DEF IInv
<1> QED
  BY <1>1, InductiveInvariant, PTL

\* For any number of handlers, at most MaxInFlight mutations are pending.
THEOREM Capped == Spec => []CapOnPendings
<1>1. IInv => CapOnPendings
  BY DEF IInv
<1> QED
  BY <1>1, InductiveInvariant, PTL

-----------------------------------------------------------------------------
(* One result per mutation.                                                *)

\* Ids are given once, and only ids that were given are pending or have a
\* result.
IdInv ==
  /\ \A r \in DOMAIN inflight : inflight[r].mut <= nextMut
  /\ \A r, s \in DOMAIN inflight : inflight[r].mut = inflight[s].mut => r = s
  /\ \A f \in finished \cup results : f.mut <= nextMut
  /\ rpc # "publish" => finished = {}
  /\ OneResult

LEMMA NextId == IInv /\ IdInv /\ [Next]_vars => IdInv'
<1> SUFFICES ASSUME IInv, IdInv, [Next]_vars PROVE IdInv'
  OBVIOUS
<1>0. /\ TypeOK /\ CodeInv /\ nextMut \in Nat
      /\ \A r \in DOMAIN inflight : inflight[r].mut \in Nat
      /\ \A f \in finished \cup results : f.mut \in Nat
  BY DEF IInv, TypeOK, Pendings, Results
<1>1. ASSUME NEW t \in Thread, Register(t) PROVE IdInv'
  <2> DEFINE r0 == th[t].ref
  <2>1. /\ nextMut' = nextMut + 1 /\ inflight'[r0].mut = nextMut + 1
        /\ DOMAIN inflight' = DOMAIN inflight \cup {r0}
        /\ \A r \in DOMAIN inflight : r # r0 /\ inflight'[r] = inflight[r]
    BY <1>0, <1>1, RegisterAdds
  <2>2. UNCHANGED <<rpc, finished, results>>
    BY <1>1 DEF Register, recVars
  <2> HIDE DEF r0
  <2>3. \A r \in DOMAIN inflight' : r # r0 => r \in DOMAIN inflight /\ inflight'[r].mut = inflight[r].mut
    BY <2>1
  <2>4. \A r \in DOMAIN inflight' : inflight'[r].mut <= nextMut'
    BY <1>0, <2>1, <2>3 DEF IdInv
  <2>5. \A r, s \in DOMAIN inflight' : inflight'[r].mut = inflight'[s].mut => r = s
    BY <1>0, <2>1, <2>3 DEF IdInv
  <2>6. \A f \in finished' \cup results' : f.mut <= nextMut'
    BY <1>0, <2>1, <2>2 DEF IdInv
  <2>7. \A f \in finished' \cup results', r \in DOMAIN inflight' : f.mut # inflight'[r].mut
    BY <1>0, <2>1, <2>2, <2>3 DEF IdInv, OneResult
  <2> QED
    BY <2>2, <2>4, <2>5, <2>6, <2>7 DEF IdInv, OneResult
<1>2. CASE ~Registers
  <2>1. /\ DOMAIN inflight' \subseteq DOMAIN inflight /\ nextMut' = nextMut
        /\ \A r \in DOMAIN inflight' : inflight'[r].mut = inflight[r].mut
    BY <1>0, <1>2, OnlyRegisterAdds
  <2>2. /\ \A r \in DOMAIN inflight' : inflight'[r].mut <= nextMut'
        /\ \A r, s \in DOMAIN inflight' : inflight'[r].mut = inflight'[s].mut => r = s
    BY <2>1 DEF IdInv
  <2>3. CASE Settle
    <3>1. /\ finished' = ResultsOf /\ results' = results /\ DOMAIN inflight' = Open
          /\ rpc' = IF finished' = {} THEN "idle" ELSE "publish"
      BY <2>3 DEF Settle
    <3>2. \A f \in ResultsOf : \E r \in Settled : f.mut = inflight[r].mut
                                               /\ f.status = Verdict(inflight[r])
                                               /\ f = [mut |-> inflight[r].mut,
                                                       status |-> Verdict(inflight[r])]
      BY DEF ResultsOf
    <3>3. Settled \subseteq DOMAIN inflight /\ Open = DOMAIN inflight \ Settled
      BY DEF Settled, Open
    <3>4. \A f \in finished' \cup results' : f.mut <= nextMut'
      BY <2>1, <3>1, <3>2, <3>3 DEF IdInv
    <3>5. \A f, g \in finished' \cup results' : f.mut = g.mut => f = g
      BY <3>1, <3>2, <3>3 DEF IdInv, OneResult
    <3>6. finished' \cap results' = {}
      BY <3>1, <3>2, <3>3 DEF IdInv, OneResult
    <3>7. \A f \in finished' \cup results', r \in DOMAIN inflight' : f.mut # inflight'[r].mut
      BY <2>1, <3>1, <3>2, <3>3 DEF IdInv, OneResult
    <3> QED
      BY <2>2, <3>1, <3>4, <3>5, <3>6, <3>7 DEF IdInv, OneResult
  <2>4. ASSUME NEW f \in finished, Publish(f) PROVE IdInv'
    <3>1. /\ finished' = finished \ {f} /\ results' = results \cup {f}
          /\ rpc' = IF finished' = {} THEN "idle" ELSE "publish"
      BY <2>4 DEF Publish
    <3> QED
      BY <2>1, <2>2, <3>1 DEF IdInv, OneResult
  <2>5. CASE ReadState
    BY <2>1, <2>2, <2>5 DEF ReadState, IdInv, OneResult
  <2>6. CASE ~Settle /\ ~ReadState /\ ~(\E f \in finished : Publish(f))
    <3>1. UNCHANGED <<rpc, finished, results>>
      BY <1>2, <2>6 DEF Next, SubmitStep, Registers, Submit, Validate, Reject, TurnAway, CallOK,
         CallFail, Return, Reconcile, Deadline, StateChange, BeginSwitch, SwitchSyncer,
         CommitSwap, AbortSwitch, vars, recVars
    <3> QED
      BY <2>1, <2>2, <3>1 DEF IdInv, OneResult
  <2> QED
    BY <2>3, <2>4, <2>5, <2>6
<1> QED
  BY <1>1, <1>2 DEF Registers

\* However handlers, reconcile and switches interleave, a mutation gets at
\* most one result, and none while it is pending.
THEOREM SingleResult == Spec => []OneResult
<1>1. Init => IdInv
  BY DEF Init, IdInv, OneResult
<1>2. Spec => []IdInv
  BY <1>1, NextId, InductiveInvariant, PTL DEF Spec
<1>3. IdInv => OneResult
  BY DEF IdInv
<1> QED
  BY <1>2, <1>3, PTL

-----------------------------------------------------------------------------
(* Answers name the attempt they answer.                                   *)

\* The attempt a mutation id was registered for.
IsFor(m, r, q) == m \in 1..nextMut /\ reg[m] = [ref |-> r, req |-> q]

\* Wherever an id is kept, it is kept with its attempt.
OwnInv ==
  /\ Len(reg) = nextMut
  /\ \A r \in DOMAIN inflight : IsFor(inflight[r].mut, r, inflight[r].req)
  /\ \A i \in 1..Len(ring) : ring[i].mut # 0 => IsFor(ring[i].mut, ring[i].ref, ring[i].req)
  /\ \A t \in Thread :
       /\ th[t].pc = "call" => IsFor(th[t].mut, th[t].ref, th[t].req)
       /\ th[t].pc = "reject" => th[t].ans.mut = 0
       /\ th[t].pc = "answered" /\ th[t].ans.mut # 0
            => IsFor(th[t].ans.mut, th[t].ref, th[t].req)

\* A registration does not change what the earlier ids stand for.
LEMMA IsForStable ==
  ASSUME IInv, OwnInv, [Next]_vars, NEW m, NEW r, NEW q, IsFor(m, r, q)
  PROVE  IsFor(m, r, q)'
<1>0. TypeOK /\ CodeInv /\ nextMut \in Nat /\ reg \in Seq([ref : Ref, req : Request])
  BY DEF IInv, TypeOK
<1>1. ASSUME NEW t \in Thread, Register(t) PROVE IsFor(m, r, q)'
  <2>1. nextMut' = nextMut + 1 /\ th[t] \in Locals
    BY <1>0, <1>1, RegisterAdds
  <2>2. reg' = Append(reg, [ref |-> th[t].ref, req |-> th[t].req])
        /\ [ref |-> th[t].ref, req |-> th[t].req] \in [ref : Ref, req : Request]
    BY <1>1, <2>1 DEF Register, Locals
  <2>3. m \in 1..Len(reg)
    BY DEF IsFor, OwnInv
  <2>4. reg'[m] = reg[m]
    BY <1>0, <2>2, <2>3
  <2> QED
    BY <1>0, <2>1, <2>4 DEF IsFor
<1>2. CASE ~Registers
  BY <1>0, <1>2, OnlyRegisterAdds DEF IsFor
<1> QED
  BY <1>1, <1>2 DEF Registers

\* What lookupRefLocked answers is about the attempt asked for.
LEMMA LookupOwn ==
  ASSUME IInv, OwnInv, NEW r \in Ref, Known(r), NEW q, Lookup(r, q).mut # 0
  PROVE  IsFor(Lookup(r, q).mut, r, q)
<1>0. TypeOK
  BY DEF IInv
<1>1. CASE r \in DOMAIN inflight
  <2>1. inflight[r].req = q /\ Lookup(r, q).mut = inflight[r].mut
    BY <1>1 DEF Lookup, Answer, SameAttempt
  <2> QED
    BY <1>1, <2>1 DEF OwnInv
<1>2. CASE r \notin DOMAIN inflight
  <2>1. ring \in Seq(Records) /\ Recorded(r)
    BY <1>0, <1>2 DEF Known, TypeOK
  <2>2. PICK i \in 1..Len(ring) : ring[i].ref = r /\ Oldest(r) = ring[i]
    BY <2>1, OldestRecord
  <2>3. Oldest(r).req = q /\ Lookup(r, q).mut = Oldest(r).mut
    BY <1>2 DEF Lookup, Answer, SameAttempt
  <2> QED
    BY <2>2, <2>3 DEF OwnInv
<1> QED
  BY <1>1, <1>2

\* A handler's part of the invariant.
Own(t) ==
  /\ th[t].pc = "call" => IsFor(th[t].mut, th[t].ref, th[t].req)
  /\ th[t].pc = "reject" => th[t].ans.mut = 0
  /\ th[t].pc = "answered" /\ th[t].ans.mut # 0 => IsFor(th[t].ans.mut, th[t].ref, th[t].req)

\* An answer about the own attempt, or about none, preserves it.
LEMMA AnsweredOwn ==
  ASSUME IInv, OwnInv, [Next]_vars, NEW t \in Thread, th[t].pc # "idle", NEW a \in Stage1s,
         Answered(t, a), a.mut # 0 => IsFor(a.mut, th[t].ref, th[t].req)
  PROVE  Own(t)'
<1>1. th[t] \in Locals /\ th \in [Thread -> Locals \cup {Idle}]
  BY BusyLocals DEF IInv, TypeOK
<1>2. /\ th'[t].pc = "answered" /\ th'[t].ans = a
      /\ th'[t].ref = th[t].ref /\ th'[t].req = th[t].req
  BY <1>1 DEF Answered, Locals
<1>3. a.mut # 0 => IsFor(a.mut, th[t].ref, th[t].req)'
  <2>1. ASSUME a.mut # 0 PROVE IsFor(a.mut, th[t].ref, th[t].req)'
    <3> DEFINE r == th[t].ref
               q == th[t].req
    <3>1. IsFor(a.mut, r, q)
      BY <2>1
    <3>2. a.mut \in 1..nextMut /\ reg[a.mut] = [ref |-> r, req |-> q]
      BY <3>1 DEF IsFor
    <3> QED
      BY <1>2, <3>1, <3>2, IsForStable DEF IsFor
  <2> QED
    BY <2>1
<1> QED
  BY <1>2, <1>3 DEF Own

\* A handler that does not move keeps it.
LEMMA OthersOwn ==
  ASSUME IInv, OwnInv, [Next]_vars, NEW t \in Thread, th'[t] = th[t]
  PROVE  Own(t)'
<1>1. Own(t)
  BY DEF OwnInv, Own
<1>2. \A m, r, q : IsFor(m, r, q) => (m \in 1..nextMut' /\ reg'[m] = [ref |-> r, req |-> q])
  BY IsForStable DEF IsFor
<1> QED
  BY <1>1, <1>2 DEF Own, IsFor

\* What the ring keeps was in it, or has been appended.
LEMMA RingElements ==
  ASSUME IInv, NEW recs \in Seq(Records), Remember(recs), NEW i \in 1..Len(ring')
  PROVE  \/ \E j \in 1..Len(ring) : ring'[i] = ring[j]
         \/ \E k \in 1..Len(recs) : ring'[i] = recs[k]
<1> DEFINE all == ring \o recs
           n   == Len(ring) + Len(recs)
<1>1. ring \in Seq(Records) /\ RingSize \in Nat \ {0}
  BY MutatorAssumption DEF IInv, TypeOK
<1>2. /\ all \in Seq(Records) /\ Len(all) = n /\ Len(ring) \in Nat /\ Len(recs) \in Nat
      /\ \A j \in 1..n : all[j] = IF j <= Len(ring) THEN ring[j] ELSE recs[j - Len(ring)]
  BY <1>1, ConcatProperties
<1> HIDE DEF all
<1>3. ring' = Bounded(all)
  BY DEF Remember, all
<1>4. \E j \in 1..n : ring'[i] = all[j]
  <2>1. CASE n <= RingSize
    BY <1>1, <1>2, <1>3, <2>1 DEF Bounded
  <2>2. CASE n > RingSize
    <3> DEFINE m == n - RingSize + 1
    <3>1. ring' = SubSeq(all, m, n)
      BY <1>2, <1>3, <2>2 DEF Bounded
    <3>2. m \in Int /\ n \in Int /\ \A j \in m..n : all[j] \in Records
      BY <1>1, <1>2, <2>2
    <3>3. /\ Len(SubSeq(all, m, n)) = IF m <= n THEN n - m + 1 ELSE 0
          /\ \A j \in 1..(n - m + 1) : SubSeq(all, m, n)[j] = all[m + j - 1]
      BY <3>2, SubSeqProperties
    <3>4. i \in 1..(n - m + 1) /\ m + i - 1 \in 1..n
      BY <1>1, <1>2, <2>2, <3>1, <3>3
    <3> QED
      BY <3>1, <3>3, <3>4
  <2> QED
    BY <1>1, <1>2, <2>1, <2>2
<1>5. PICK j \in 1..n : ring'[i] = all[j]
  BY <1>4
<1>6. CASE j <= Len(ring)
  BY <1>2, <1>5, <1>6
<1>7. CASE j > Len(ring)
  <2>1. j - Len(ring) \in 1..Len(recs)
    BY <1>2, <1>7
  <2> QED
    BY <1>2, <1>5, <1>7, <2>1
<1>8. j <= Len(ring) \/ j > Len(ring)
  <2>1. Len(ring) \in Int /\ j \in Int
    BY <1>2
  <2> QED
    BY <2>1
<1> QED
  BY <1>6, <1>7, <1>8

RingOwn == \A i \in 1..Len(ring) : ring[i].mut # 0 => IsFor(ring[i].mut, ring[i].ref, ring[i].req)

LEMMA RememberOwn ==
  ASSUME IInv, OwnInv, [Next]_vars, NEW recs \in Seq(Records), Remember(recs),
         \A k \in 1..Len(recs) : recs[k].mut # 0 => IsFor(recs[k].mut, recs[k].ref, recs[k].req)
  PROVE  RingOwn'
<1>1. \A m, r, q : IsFor(m, r, q) => (m \in 1..nextMut' /\ reg'[m] = [ref |-> r, req |-> q])
  BY IsForStable DEF IsFor
<1>2. SUFFICES ASSUME NEW i \in 1..Len(ring'), ring'[i].mut # 0
               PROVE  IsFor(ring'[i].mut, ring'[i].ref, ring'[i].req)
  <2>1. \A i \in 1..Len(ring') : ring'[i].mut # 0 => IsFor(ring'[i].mut, ring'[i].ref, ring'[i].req)
    BY <1>2
  <2> QED
    BY <1>1, <2>1 DEF RingOwn, IsFor
<1>3. CASE \E j \in 1..Len(ring) : ring'[i] = ring[j]
  BY <1>2, <1>3 DEF OwnInv
<1>4. CASE \E k \in 1..Len(recs) : ring'[i] = recs[k]
  BY <1>2, <1>4
<1> QED
  BY <1>3, <1>4, RingElements

\* What is in flight and in the ring.
StoreOwn ==
  /\ Len(reg) = nextMut
  /\ \A r \in DOMAIN inflight : IsFor(inflight[r].mut, r, inflight[r].req)
  /\ RingOwn

LEMMA OwnParts == OwnInv <=> StoreOwn /\ \A t \in Thread : Own(t)
BY DEF OwnInv, StoreOwn, RingOwn, Own

LEMMA NextStoreOwn == IInv /\ OwnInv /\ [Next]_vars => StoreOwn'
<1> SUFFICES ASSUME IInv, OwnInv, [Next]_vars PROVE StoreOwn'
  OBVIOUS
<1>0. /\ TypeOK /\ CodeInv /\ nextMut \in Nat /\ reg \in Seq([ref : Ref, req : Request])
      /\ \A m, r, q : IsFor(m, r, q) => (m \in 1..nextMut' /\ reg'[m] = [ref |-> r, req |-> q])
  BY IsForStable DEF IInv, TypeOK, IsFor
<1>1. Len(reg') = nextMut' /\ \A r \in DOMAIN inflight' :
        inflight'[r].mut \in 1..nextMut'
        /\ reg'[inflight'[r].mut] = [ref |-> r, req |-> inflight'[r].req]
  <2>1. ASSUME NEW t \in Thread, Register(t)
        PROVE  Len(reg') = nextMut' /\ \A r \in DOMAIN inflight' :
                 inflight'[r].mut \in 1..nextMut'
                 /\ reg'[inflight'[r].mut] = [ref |-> r, req |-> inflight'[r].req]
    <3> DEFINE r0 == th[t].ref
               e  == [ref |-> th[t].ref, req |-> th[t].req]
    <3>1. /\ nextMut' = nextMut + 1 /\ th[t] \in Locals
          /\ inflight'[r0].mut = nextMut + 1 /\ inflight'[r0].req = th[t].req
          /\ DOMAIN inflight' = DOMAIN inflight \cup {r0}
          /\ \A r \in DOMAIN inflight : r # r0 /\ inflight'[r] = inflight[r]
      BY <1>0, <2>1, RegisterAdds
    <3>2. reg' = Append(reg, e) /\ e \in [ref : Ref, req : Request]
      BY <2>1, <3>1 DEF Register, Locals
    <3>3. Len(reg) = nextMut
      BY DEF OwnInv
    <3>4. Len(reg') = nextMut + 1 /\ reg'[nextMut + 1] = e
      BY <1>0, <3>2, <3>3
    <3>5. \A r \in DOMAIN inflight : IsFor(inflight[r].mut, r, inflight[r].req)
      BY DEF OwnInv
    <3> HIDE DEF r0
    <3>6. ASSUME NEW r \in DOMAIN inflight'
          PROVE  inflight'[r].mut \in 1..nextMut'
                 /\ reg'[inflight'[r].mut] = [ref |-> r, req |-> inflight'[r].req]
      <4>1. CASE r = r0
        <5>1. inflight'[r].mut = nextMut + 1 /\ inflight'[r].req = th[t].req /\ r = th[t].ref
          BY <3>1, <4>1 DEF r0
        <5> QED
          BY <1>0, <3>1, <3>4, <5>1
      <4>2. CASE r # r0
        BY <1>0, <3>1, <3>5, <4>2
      <4> QED
        BY <4>1, <4>2
    <3> QED
      BY <3>1, <3>4, <3>6
  <2>2. CASE ~Registers
    <3>1. /\ DOMAIN inflight' \subseteq DOMAIN inflight /\ UNCHANGED <<nextMut, reg>>
          /\ \A r \in DOMAIN inflight' : inflight'[r].mut = inflight[r].mut
                                         /\ inflight'[r].req = inflight[r].req
      BY <1>0, <2>2, OnlyRegisterAdds
    <3> QED
      BY <3>1 DEF OwnInv, IsFor
  <2> QED
    BY <2>1, <2>2 DEF Registers
<1>2. RingOwn'
  <2>1. ASSUME NEW t \in Thread, Reject(t) PROVE RingOwn'
    <3> DEFINE rec == Record(th[t].ref, th[t].req, th[t].ans.outcome, 0)
    <3>1. th[t] \in Locals /\ th[t].ans.outcome \in Refusals
      BY <1>0, <2>1, BusyLocals DEF Reject, CodeInv
    <3>2. rec \in Records /\ rec.mut = 0
      BY <3>1 DEF Record, Records, Locals
    <3> HIDE DEF rec
    <3>3. <<rec>> \in Seq(Records) /\ \A k \in 1..Len(<<rec>>) : <<rec>>[k].mut = 0
      BY <3>2
    <3>4. Remember(<<rec>>)
      BY <2>1 DEF Reject, rec
    <3> QED
      BY <3>3, <3>4, RememberOwn
  <2>2. ASSUME NEW t \in Thread, CallFail(t) PROVE RingOwn'
    <3> DEFINE rec == Record(th[t].ref, th[t].req, "failed", 0)
    <3>1. th[t] \in Locals
      BY <1>0, <2>2, BusyLocals DEF CallFail
    <3>2. rec \in Records /\ rec.mut = 0
      BY <3>1 DEF Record, Records, Locals
    <3> HIDE DEF rec
    <3>3. <<rec>> \in Seq(Records) /\ \A k \in 1..Len(<<rec>>) : <<rec>>[k].mut = 0
      BY <3>2
    <3>4. Remember(<<rec>>)
      BY <2>2 DEF CallFail, rec
    <3> QED
      BY <3>3, <3>4, RememberOwn
  <2>3. CASE Settle
    <3>1. PICK order \in Orders(Settled) : Remember(Settlement(order))
      BY <2>3 DEF Settle, Settlement
    <3>2. /\ Settlement(order) \in Seq(Records) /\ Len(Settlement(order)) = Cardinality(Settled)
          /\ order \in [1..Cardinality(Settled) -> Settled]
      BY <1>0, SettlementType, OrderOfSettled
    <3>3. ASSUME NEW k \in 1..Len(Settlement(order))
          PROVE  IsFor(Settlement(order)[k].mut, Settlement(order)[k].ref, Settlement(order)[k].req)
      <4>1. k \in DOMAIN order /\ order[k] \in DOMAIN inflight
        BY <3>2 DEF Settled
      <4>2. /\ Settlement(order)[k].mut = inflight[order[k]].mut
            /\ Settlement(order)[k].ref = order[k]
            /\ Settlement(order)[k].req = inflight[order[k]].req
        BY <4>1 DEF Settlement, Record
      <4> QED
        BY <4>1, <4>2 DEF OwnInv
    <3> QED
      BY <3>1, <3>2, <3>3, RememberOwn
  <2>4. CASE ~Settle /\ \A t \in Thread : ~Reject(t) /\ ~CallFail(t)
    <3>1. ring' = ring
      BY <2>4 DEF Next, SubmitStep, Submit, Validate, Register, TurnAway, CallOK, Return, Reconcile,
         ReadState, Publish, Deadline, StateChange, BeginSwitch, SwitchSyncer, CommitSwap,
         AbortSwitch, vars, muVars
    <3> QED
      BY <1>0, <3>1 DEF RingOwn, OwnInv, IsFor
  <2> QED
    BY <2>1, <2>2, <2>3, <2>4
<1> QED
  BY <1>1, <1>2 DEF StoreOwn, IsFor

LEMMA NextHandlerOwn ==
  IInv /\ OwnInv /\ [Next]_vars => \A t \in Thread : Own(t)'
<1> SUFFICES ASSUME IInv, OwnInv, [Next]_vars, NEW t \in Thread PROVE Own(t)'
  OBVIOUS
<1>0. TypeOK /\ CodeInv /\ Own(t) /\ th \in [Thread -> Locals \cup {Idle}]
  BY OwnParts DEF IInv, TypeOK
<1>1. CASE th'[t] = th[t]
  BY <1>1, OthersOwn
<1>2. ASSUME NEW r \in Ref, NEW q \in Request, Submit(t, r, q) PROVE Own(t)'
  <2>1. /\ th'[t].pc \in {"answered", "validate"} /\ th'[t].ref = r /\ th'[t].req = q
        /\ th'[t].ans = IF Known(r) THEN Lookup(r, q)
                        ELSE IF Full THEN Answer("busy", 0) ELSE NoAnswer
    BY <1>0, <1>2 DEF Submit
  <2>2. UNCHANGED <<nextMut, reg>>
    BY <1>2 DEF Submit, muVars
  <2>3. th'[t].ans.mut # 0 => IsFor(th'[t].ans.mut, r, q)
    <3>1. CASE Known(r)
      BY <2>1, <3>1, LookupOwn
    <3>2. CASE ~Known(r)
      BY <2>1, <3>2 DEF Answer, NoAnswer
    <3> QED
      BY <3>1, <3>2
  <2> QED
    BY <2>1, <2>2, <2>3 DEF Own, IsFor
<1>3. CASE Validate(t)
  <2>1. th[t] \in Locals
    BY <1>0, <1>3, BusyLocals DEF Validate
  <2>2. th'[t].pc \in {"register", "reject"} /\ th'[t].ans.mut = 0
    BY <1>0, <1>3, <2>1 DEF Validate, Answer, Locals
  <2> QED
    BY <2>2 DEF Own
<1>4. CASE Reject(t)
  <2>1. th[t] \in Locals /\ th[t].ans.mut = 0 /\ th[t].ans \in Stage1s
    BY <1>0, <1>4, BusyLocals DEF Reject, Own, Locals, Stage1s
  <2> QED
    BY <1>4, <2>1, AnsweredOwn DEF Reject
<1>5. CASE Register(t)
  <2>1. th[t] \in Locals /\ nextMut' = nextMut + 1 /\ nextMut \in Nat
    BY <1>0, <1>5, RegisterAdds
  <2>2. th'[t].pc = "call" /\ th'[t].mut = nextMut + 1 /\ th'[t].ref = th[t].ref
        /\ th'[t].req = th[t].req
    BY <1>0, <1>5, <2>1 DEF Register, Locals
  <2>3. reg' = Append(reg, [ref |-> th[t].ref, req |-> th[t].req]) /\ Len(reg) = nextMut
        /\ reg \in Seq([ref : Ref, req : Request])
    BY <1>0, <1>5 DEF Register, OwnInv, TypeOK
  <2>4. reg'[nextMut + 1] = [ref |-> th[t].ref, req |-> th[t].req]
    BY <2>1, <2>3
  <2> QED
    BY <2>1, <2>2, <2>4 DEF Own, IsFor
<1>6. CASE TurnAway(t)
  <2> DEFINE a == IF ~draining /\ Known(th[t].ref) THEN Lookup(th[t].ref, th[t].req)
                                                  ELSE Answer("busy", 0)
  <2>1. th[t].ref \in Ref /\ th[t].pc # "idle"
    BY <1>0, <1>6, BusyLocals DEF TurnAway, Locals
  <2>2. a \in Stage1s
    BY <1>0, <2>1, LookupType DEF Answer, Stage1s, Outcomes
  <2>3. a.mut # 0 => IsFor(a.mut, th[t].ref, th[t].req)
    <3>1. CASE ~draining /\ Known(th[t].ref)
      BY <2>1, <3>1, LookupOwn
    <3>2. CASE ~(~draining /\ Known(th[t].ref))
      BY <3>2 DEF Answer
    <3> QED
      BY <3>1, <3>2
  <2>4. Answered(t, a)
    BY <1>6 DEF TurnAway
  <2> HIDE DEF a
  <2> QED
    BY <2>1, <2>2, <2>3, <2>4, AnsweredOwn
<1>7. CASE CallOK(t)
  <2> DEFINE a == Answer("accepted", th[t].mut)
  <2>1. a \in Stage1s /\ IsFor(a.mut, th[t].ref, th[t].req)
    BY <1>0, <1>7, BusyLocals DEF CallOK, Locals, Answer, Stage1s, Outcomes, Own
  <2>2. Answered(t, a) /\ th[t].pc # "idle"
    BY <1>7 DEF CallOK
  <2> HIDE DEF a
  <2> QED
    BY <2>1, <2>2, AnsweredOwn
<1>8. CASE CallFail(t)
  <2> DEFINE a == Answer("failed", 0)
  <2>1. a \in Stage1s /\ a.mut = 0
    BY DEF Answer, Stage1s, Outcomes
  <2>2. Answered(t, a) /\ th[t].pc # "idle"
    BY <1>8 DEF CallFail
  <2> HIDE DEF a
  <2> QED
    BY <2>1, <2>2, AnsweredOwn
<1>9. CASE Return(t)
  BY <1>0, <1>9 DEF Return, Own, Idle
<1>10. ASSUME NEW x \in Thread, SubmitStep(x), x # t PROVE th'[t] = th[t]
  BY <1>0, <1>10 DEF SubmitStep, Submit, Validate, Reject, Register, TurnAway, CallOK, CallFail,
     Return, Answered
<1>11. CASE ~(\E x \in Thread : SubmitStep(x))
  <2>1. th' = th
    BY <1>11 DEF Next, Reconcile, ReadState, Settle, Publish, Deadline, StateChange,
       BeginSwitch, SwitchSyncer, CommitSwap, AbortSwitch, vars
  <2> QED
    BY <1>1, <2>1
<1> QED
  BY <1>1, <1>2, <1>3, <1>4, <1>5, <1>6, <1>7, <1>8, <1>9, <1>10, <1>11 DEF SubmitStep

LEMMA OwnInvariant == Spec => []OwnInv
<1>1. Init => OwnInv
  BY DEF Init, OwnInv, Idle
<1>2. IInv /\ OwnInv /\ [Next]_vars => OwnInv'
  <2> SUFFICES ASSUME IInv, OwnInv, [Next]_vars PROVE OwnInv'
    OBVIOUS
  <2>1. StoreOwn' /\ \A t \in Thread : Own(t)'
    BY NextStoreOwn, NextHandlerOwn
  <2> QED
    BY <2>1 DEF OwnInv, StoreOwn, RingOwn, Own
<1> QED
  BY <1>1, <1>2, InductiveInvariant, PTL DEF Spec

\* For any requests, refs and handlers, an id in an answer is that of the
\* attempt answered.
THEOREM OwnAnswers == Spec => []AnswersOwnAttempt
<1>1. OwnInv => AnswersOwnAttempt
  BY DEF OwnInv, IsFor, AnswersOwnAttempt
<1> QED
  BY <1>1, OwnInvariant, PTL

-----------------------------------------------------------------------------
(* A remembered ref does not run twice.                                    *)

\* The ring holds a record of r among the last age[r] ones.
RecordedRecently(r) == \E i \in 1..Len(ring) : ring[i].ref = r /\ Len(ring) - i < age[r]

\* A ref that ran recently is in flight or recorded.
RecentInv ==
  \A r \in Ref : age[r] <= RingSize => r \in DOMAIN inflight \/ RecordedRecently(r)

\* A record of r among the last ones before the ring is cut survives the
\* cut, as long as r is within its age.
LEMMA SurvivesTheCut ==
  ASSUME IInv, NEW recs \in Seq(Records), Remember(recs), NEW r \in Ref, age'[r] <= RingSize,
         NEW j \in 1..Len(ring \o recs), (ring \o recs)[j].ref = r,
         Len(ring \o recs) - j < age'[r]
  PROVE  RecordedRecently(r)'
<1> DEFINE all == ring \o recs
           i == j - (Len(all) - Len(Bounded(all)))
<1>1. /\ ring \in Seq(Records) /\ RingSize \in Nat \ {0}
      /\ age' \in [Ref -> 0..(RingSize + 1)]
  BY RememberType, MutatorAssumption DEF IInv, TypeOK
<1>2. all \in Seq(Records) /\ Len(all) \in Nat
  BY <1>1, ConcatProperties
<1>3. age'[r] \in Nat /\ j > Len(all) - RingSize
  BY <1>1, <1>2
<1> HIDE DEF all
<1>4. i \in 1..Len(Bounded(all)) /\ Bounded(all)[i] = all[j]
  BY <1>2, <1>3, BoundedRing DEF all
<1>5. ring' = Bounded(all)
  BY DEF Remember, all
<1>6. Len(Bounded(all)) \in Nat
  BY <1>1, <1>2, BoundedRing
<1>7. Len(ring') - i < age'[r]
  BY <1>2, <1>3, <1>4, <1>5, <1>6 DEF all
<1>8. ring'[i].ref = r
  BY <1>4, <1>5 DEF all
<1> QED
  BY <1>4, <1>5, <1>7, <1>8 DEF RecordedRecently

\* So appending records keeps what was recorded recently...
LEMMA OldRecordsStay ==
  ASSUME IInv, NEW recs \in Seq(Records), Remember(recs), NEW r \in Ref, age'[r] <= RingSize,
         RecordedRecently(r)
  PROVE  RecordedRecently(r)'
<1>1. ring \in Seq(Records) /\ RingSize \in Nat \ {0} /\ age \in [Ref -> 0..(RingSize + 1)]
  BY MutatorAssumption DEF IInv, TypeOK
<1>2. /\ Len(ring \o recs) = Len(ring) + Len(recs) /\ Len(recs) \in Nat /\ Len(ring) \in Nat
      /\ \A j \in 1..Len(ring) + Len(recs) :
           (ring \o recs)[j] = IF j <= Len(ring) THEN ring[j] ELSE recs[j - Len(ring)]
  BY <1>1, ConcatProperties
<1>3. PICK j \in 1..Len(ring) : ring[j].ref = r /\ Len(ring) - j < age[r]
  BY DEF RecordedRecently
<1>4. age'[r] = age[r] + Len(recs) /\ age[r] \in Nat
  BY <1>1, <1>2 DEF Remember
<1>5. /\ j \in 1..Len(ring \o recs) /\ (ring \o recs)[j].ref = r
      /\ Len(ring \o recs) - j < age'[r]
  BY <1>2, <1>3, <1>4
<1> QED
  BY <1>5, SurvivesTheCut

\* ... and records what is appended.
LEMMA NewRecordsCount ==
  ASSUME IInv, NEW recs \in Seq(Records), Remember(recs), NEW r \in Ref, age'[r] <= RingSize,
         NEW k \in 1..Len(recs), recs[k].ref = r
  PROVE  RecordedRecently(r)'
<1>1. ring \in Seq(Records) /\ RingSize \in Nat \ {0} /\ age \in [Ref -> 0..(RingSize + 1)]
  BY MutatorAssumption DEF IInv, TypeOK
<1>2. /\ Len(ring \o recs) = Len(ring) + Len(recs) /\ Len(recs) \in Nat /\ Len(ring) \in Nat
      /\ \A j \in 1..Len(ring) + Len(recs) :
           (ring \o recs)[j] = IF j <= Len(ring) THEN ring[j] ELSE recs[j - Len(ring)]
  BY <1>1, ConcatProperties
<1>3. age'[r] = age[r] + Len(recs) /\ age[r] \in Nat
  BY <1>1, <1>2 DEF Remember
<1> DEFINE j == Len(ring) + k
<1>4. /\ j \in 1..Len(ring \o recs) /\ (ring \o recs)[j] = recs[k]
      /\ Len(ring \o recs) - j < age'[r]
  BY <1>2, <1>3
<1> HIDE DEF j
<1> QED
  BY <1>4, SurvivesTheCut

LEMMA NextRecent == IInv /\ RecentInv /\ [Next]_vars => RecentInv'
<1> SUFFICES ASSUME IInv, RecentInv, [Next]_vars,
                    NEW r \in Ref, age'[r] <= RingSize
             PROVE  r \in DOMAIN inflight' \/ RecordedRecently(r)'
  BY DEF RecentInv
<1>0. /\ TypeOK /\ CodeInv /\ RingSize \in Nat /\ age \in [Ref -> 0..(RingSize + 1)]
      /\ ring \in Seq(Records)
  BY MutatorAssumption DEF IInv, TypeOK
<1>1. ASSUME NEW recs \in Seq(Records), Remember(recs) PROVE age[r] <= RingSize
  <2>1. Len(recs) \in Nat /\ age[r] \in Nat
    BY <1>0
  <2> QED
    BY <1>0, <1>1, <2>1 DEF Remember
<1>2. ASSUME NEW t \in Thread, Reject(t) PROVE r \in DOMAIN inflight' \/ RecordedRecently(r)'
  <2> DEFINE recs == <<Record(th[t].ref, th[t].req, th[t].ans.outcome, 0)>>
  <2>1. th[t] \in Locals /\ th[t].ans.outcome \in Refusals
    BY <1>0, <1>2, BusyLocals DEF Reject, CodeInv
  <2>2. Record(th[t].ref, th[t].req, th[t].ans.outcome, 0) \in Records
    BY <2>1 DEF Record, Records, Locals
  <2>3. recs \in Seq(Records) /\ Remember(recs) /\ inflight' = inflight
    BY <1>2, <2>2 DEF Reject
  <2> HIDE DEF recs
  <2> QED
    BY <1>1, <2>3, OldRecordsStay DEF RecentInv
<1>3. ASSUME NEW t \in Thread, CallFail(t) PROVE r \in DOMAIN inflight' \/ RecordedRecently(r)'
  <2> DEFINE recs == <<Record(th[t].ref, th[t].req, "failed", 0)>>
  <2>1. th[t] \in Locals
    BY <1>0, <1>3, BusyLocals DEF CallFail
  <2>2. Record(th[t].ref, th[t].req, "failed", 0) \in Records
    BY <2>1 DEF Record, Records, Locals
  <2>3. /\ recs \in Seq(Records) /\ Remember(recs) /\ DOMAIN inflight' = DOMAIN inflight \ {th[t].ref}
        /\ 1 \in 1..Len(recs) /\ recs[1].ref = th[t].ref
    BY <1>3, <2>2 DEF CallFail, Record
  <2> HIDE DEF recs
  <2>4. CASE r = th[t].ref
    BY <2>3, <2>4, NewRecordsCount
  <2>5. CASE r # th[t].ref
    BY <1>1, <2>3, <2>5, OldRecordsStay DEF RecentInv
  <2> QED
    BY <2>4, <2>5
<1>4. CASE Settle
  <2>1. PICK order \in Orders(Settled) : Remember(Settlement(order))
    BY <1>4 DEF Settle, Settlement
  <2> DEFINE recs == Settlement(order)
  <2>2. recs \in Seq(Records) /\ Len(recs) = Cardinality(Settled)
    BY <1>0, SettlementType
  <2>3. CASE r \in Settled
    <3>1. PICK i \in 1..Cardinality(Settled) : order[i] = r
      BY <1>0, <2>3, OrderOfSettled
    <3>2. i \in DOMAIN order
      BY <1>0, <3>1, OrderOfSettled
    <3>3. recs[i].ref = r
      BY <3>1, <3>2 DEF Settlement, Record
    <3> QED
      BY <2>1, <2>2, <3>1, <3>3, NewRecordsCount
  <2>4. CASE r \notin Settled
    <3>1. r \in DOMAIN inflight => r \in DOMAIN inflight'
      BY <1>4, <2>4 DEF Settle, Open
    <3> QED
      BY <1>1, <2>1, <2>2, <3>1, OldRecordsStay DEF RecentInv
  <2> QED
    BY <2>3, <2>4
<1>5. ASSUME NEW t \in Thread, Register(t) PROVE r \in DOMAIN inflight' \/ RecordedRecently(r)'
  <2>1. th[t] \in Locals /\ DOMAIN inflight' = DOMAIN inflight \cup {th[t].ref}
    BY <1>0, <1>5, RegisterAdds
  <2>2. r # th[t].ref => age'[r] = age[r] /\ ring' = ring
    BY <1>0, <1>5 DEF Register
  <2> QED
    BY <2>1, <2>2 DEF RecentInv, RecordedRecently
<1>6. CASE ~Registers /\ ~Settle /\ \A t \in Thread : ~Reject(t) /\ ~CallFail(t)
  <2>1. UNCHANGED <<ring, age>>
    BY <1>6 DEF Next, SubmitStep, Registers, Submit, Validate, TurnAway, CallOK, Return, Reconcile,
       ReadState, Publish, Deadline, StateChange, BeginSwitch, SwitchSyncer, CommitSwap,
       AbortSwitch, vars, muVars
  <2>2. DOMAIN inflight' = DOMAIN inflight
    BY <1>6 DEF Next, SubmitStep, Registers, Submit, Validate, TurnAway, CallOK, Return, Reconcile,
       ReadState, Publish, Deadline, StateChange, BeginSwitch, SwitchSyncer, CommitSwap,
       AbortSwitch, Committed, vars, muVars
  <2> QED
    BY <2>1, <2>2 DEF RecentInv, RecordedRecently
<1> QED
  BY <1>2, <1>3, <1>4, <1>5, <1>6 DEF Registers

\* For any number of handlers and refs and every ring size, a ref runs
\* again only after RingSize other records have pushed it out of the ring.
THEOREM NoSecondRun == Spec => ExecutesOnce
<1> DEFINE A == nextMut' > nextMut => age[reg'[nextMut'].ref] > RingSize
<1>1. Init => RecentInv
  <2>1. RingSize \in Nat
    BY MutatorAssumption
  <2> QED
    BY <2>1 DEF Init, RecentInv
<1>2. Spec => []RecentInv
  BY <1>1, NextRecent, InductiveInvariant, PTL DEF Spec
<1>3. ASSUME IInv, OwnInv, RecentInv, [Next]_vars PROVE [A]_vars
  <2>0. TypeOK /\ CodeInv /\ nextMut \in Nat /\ RingSize \in Nat
    BY <1>3, MutatorAssumption DEF IInv, TypeOK
  <2>1. CASE ~Registers
    BY <1>3, <2>0, <2>1, OnlyRegisterAdds
  <2>2. ASSUME NEW t \in Thread, Register(t) PROVE A
    <3>1. th[t] \in Locals /\ ~Known(th[t].ref)
      BY <2>0, <2>2, RegisterAdds
    <3>2. ~(age[th[t].ref] <= RingSize)
      BY <1>3, <3>1 DEF RecentInv, Known, Recorded, RecordedRecently, Locals
    <3>3. age[th[t].ref] > RingSize
      BY <2>0, <3>1, <3>2 DEF TypeOK, Locals
    <3>4. /\ reg' = Append(reg, [ref |-> th[t].ref, req |-> th[t].req]) /\ Len(reg) = nextMut
          /\ reg \in Seq([ref : Ref, req : Request]) /\ nextMut' = nextMut + 1
      BY <1>3, <2>0, <2>2 DEF Register, OwnInv, TypeOK
    <3>5. reg'[nextMut'] = [ref |-> th[t].ref, req |-> th[t].req]
      BY <2>0, <3>4
    <3> QED
      BY <3>3, <3>5
  <2> QED
    BY <2>1, <2>2 DEF Registers
<1> QED
  BY <1>2, <1>3, InductiveInvariant, OwnInvariant, PTL DEF Spec, ExecutesOnce

-----------------------------------------------------------------------------
(* No mutation vanishes.                                                   *)

\* A mutation leaves the in-flight map with a result, or because a call for
\* its ref has failed.
THEOREM NothingVanishes == Spec => LeavesWithAnOutcome
<1> DEFINE A == \A r \in DOMAIN inflight : r \notin DOMAIN inflight' =>
                  \/ \E f \in finished' : f.mut = inflight[r].mut
                  \/ \E t \in Thread : /\ th[t].pc = "call" /\ th[t].ref = r
                                       /\ th'[t].pc = "answered" /\ th'[t].ans.outcome = "failed"
<1>1. ASSUME IInv, [Next]_vars PROVE [A]_vars
  <2> SUFFICES ASSUME Next, NEW r \in DOMAIN inflight, r \notin DOMAIN inflight'
               PROVE  \/ \E f \in finished' : f.mut = inflight[r].mut
                      \/ \E t \in Thread :
                           /\ th[t].pc = "call" /\ th[t].ref = r
                           /\ th'[t].pc = "answered" /\ th'[t].ans.outcome = "failed"
    BY <1>1
  <2>1. Settle \/ \E t \in Thread : CallFail(t)
    BY DEF Next, SubmitStep, Submit, Validate, Reject, Register, TurnAway, CallOK, Return,
       Reconcile, ReadState, Publish, Deadline, StateChange, Committed, BeginSwitch,
       SwitchSyncer, CommitSwap, AbortSwitch, muVars
  <2>2. CASE Settle
    <3>1. r \in Settled
      BY <2>2 DEF Settle, Open
    <3> DEFINE f == [mut |-> inflight[r].mut, status |-> Verdict(inflight[r])]
    <3>2. f \in finished' /\ f.mut = inflight[r].mut
      BY <2>2, <3>1 DEF Settle, ResultsOf
    <3> QED
      BY <3>2
  <2>3. ASSUME NEW t \in Thread, CallFail(t)
        PROVE  /\ th[t].pc = "call" /\ th[t].ref = r
               /\ th'[t].pc = "answered" /\ th'[t].ans.outcome = "failed"
    <3>1. th[t] \in Locals /\ th \in [Thread -> Locals \cup {Idle}]
      BY <1>1, <2>3, BusyLocals DEF IInv, TypeOK, CallFail
    <3>2. th[t].ref = r
      BY <2>3 DEF CallFail
    <3> QED
      BY <2>3, <3>1, <3>2 DEF CallFail, Answered, Answer, Locals
  <2> QED
    BY <2>1, <2>2, <2>3
<1> QED
  BY <1>1, InductiveInvariant, PTL DEF Spec, LeavesWithAnOutcome
=============================================================================
