------------------------------- MODULE Mutator -------------------------------
(***************************************************************************)
(* The mutation orchestrator (internal/mutate/mutator.go).  Connection     *)
(* handlers call Submit; one goroutine (Run) reconciles the mutations in   *)
(* flight with the committed state of the syncer; the connection manager   *)
(* drains it around a switch of the backend.                               *)
(*                                                                         *)
(* Submit takes the lock, releases it to read the committed state, takes   *)
(* it again to register, and holds no lock during the backend call.        *)
(* reconcile reads the committed state before it takes the lock.  Each of  *)
(* these sections is an action of its own.                                 *)
(*                                                                         *)
(* Abstractions: clients are numbered in the order they are built (every   *)
(* reconfiguration builds a new one); the committed state is whatever the  *)
(* syncer may have committed from its current client; the codes of a       *)
(* failed backend call are one value; the endpoint generation chosen by    *)
(* submitBackend only affects whether the call fails, which is arbitrary.  *)
(***************************************************************************)
EXTENDS Integers, FiniteSets, Sequences

CONSTANTS
  Thread,       \* connection handlers: each submits one request at a time
  Ref,          \* idempotency keys of the clients
  Hash,         \* torrent hashes
  NoHash,       \* what a malformed magnet parses to
  Row,          \* what a torrent can be in the committed state
  Par,          \* what else identifies an attempt: delete_files, the link
  Request,      \* the requests clients send
  MaxInFlight,  \* pending mutations (4)
  RingSize,     \* completed refs remembered for replay (64)
  MaxMut,       \* bound: mutations registered in a behaviour
  MaxEpoch      \* bound: switches in a behaviour

Actions == {"pause", "resume", "add", "remove"}

ASSUME MutatorAssumption ==
  /\ NoHash \notin Hash
  /\ {"absent"} \subseteq Row /\ Row \subseteq {"absent", "active", "paused"}
  /\ Request \subseteq [action : Actions, hash : Hash \cup {NoHash}, par : Par]
  /\ MaxInFlight \in Nat \ {0}
  /\ RingSize \in Nat \ {0}
  /\ MaxMut \in Nat
  /\ MaxEpoch \in Nat

VARIABLES
  backend, epoch, draining,  \* the client, its generation, a switch under way
  nextMut, inflight, ring,   \* the last id; pending mutations; completed refs
  st,                        \* external: the committed state of the syncer
  th,                        \* each handler's progress through Submit
  rpc, snap, finished,       \* reconcile: where it is, what it read, its results
  results,                   \* the results published so far
  reg, age                   \* history: the attempt behind each id; records
                             \* appended since a ref was last registered

muVars  == <<backend, epoch, draining, nextMut, inflight, ring>>
recVars == <<rpc, snap, finished, results>>
vars    == <<muVars, st, th, recVars, reg, age>>

-----------------------------------------------------------------------------
(* Data.                                                                   *)

\* What the mutator reads of state.State, and the client it came from.
States == [ok : BOOLEAN, torrents : [Hash -> Row], src : Nat]

\* No torrents: the state before the first commit and after a switch.
BlankOf(b) == [ok |-> FALSE, torrents |-> [h \in Hash |-> "absent"], src |-> b]
Blank      == BlankOf(0)

Has(s, h) == h \in Hash /\ s.torrents[h] # "absent"

\* pending. `due' says the window is over; `held' is a history field: the
\* intent held in some committed state since the registration.
Pendings == [mut : Nat, req : Request, epoch : Nat, due : BOOLEAN, held : BOOLEAN]

Refusals == {"stale_torrent", "invalid_url", "duplicate", "backend_unavailable"}
Verdicts == {"confirmed", "timeout"}

\* refRecord: a rejection code, or the status of a result.
Records == [ref : Ref, req : Request, outcome : Refusals \cup Verdicts \cup {"failed"}, mut : Nat]

\* The answers of Submit: a Stage1.
Answer(o, m) == [outcome |-> o, mut |-> m]
NoAnswer     == Answer("none", 0)
Outcomes     == {"none", "accepted", "ref_conflict", "busy", "failed"} \cup Refusals \cup Verdicts

\* The locals of Submit: the client whose state it validated against, and
\* the client and the id it registered with.
Locals == [pc : {"idle", "validate", "reject", "register", "call", "answered"},
           ref : Ref, req : Request, src : Nat, backend : Nat, mut : Nat,
           ans : [outcome : Outcomes, mut : Nat]]
Idle   == [pc |-> "idle"]

Results == [mut : Nat, status : Verdicts]

-----------------------------------------------------------------------------
(* The ring of completed refs.                                             *)

\* appendRingLocked overwrites the oldest record beyond RingSize.
Bounded(s) == IF Len(s) > RingSize THEN SubSeq(s, Len(s) - RingSize + 1, Len(s)) ELSE s

\* The records are appended one after the other.
Remember(recs) ==
  /\ ring' = Bounded(ring \o recs)
  /\ age' = [r \in Ref |-> IF age[r] + Len(recs) > RingSize THEN RingSize + 1
                                                            ELSE age[r] + Len(recs)]

Record(r, q, o, m) == [ref |-> r, req |-> q, outcome |-> o, mut |-> m]

\* The oldest record of a ref, which lookupRefLocked finds.
Recorded(r) == \E i \in 1..Len(ring) : ring[i].ref = r
Oldest(r)   == ring[CHOOSE i \in 1..Len(ring) :
                      ring[i].ref = r /\ \A j \in 1..(i - 1) : ring[j].ref # r]

Known(r) == r \in DOMAIN inflight \/ Recorded(r)

\* Mutant of SameAttempt: the parameters are not compared.
SameAction(p, q) == p.action = q.action

\* matches: the same attempt as the recorded one.
SameAttempt(p, q) == p = q

\* lookupRefLocked for a known ref. A result is replayed with its id, a
\* rejection with its code alone.
Lookup(r, q) ==
  LET known == IF r \in DOMAIN inflight THEN inflight[r] ELSE Oldest(r)
  IN  CASE ~SameAttempt(known.req, q) -> Answer("ref_conflict", 0)
        [] SameAttempt(known.req, q) /\ r \in DOMAIN inflight -> Answer("accepted", known.mut)
        [] OTHER -> Answer(known.outcome, IF known.outcome \in Verdicts THEN known.mut ELSE 0)

-----------------------------------------------------------------------------
(* Submit.                                                                 *)

Full == Cardinality(DOMAIN inflight) >= MaxInFlight

\* The locals an answer leaves behind are dead.
Answered(t, a) ==
  th' = [th EXCEPT ![t].pc = "answered", ![t].ans = a,
                   ![t].src = 0, ![t].backend = 0, ![t].mut = 0]

\* The first critical section: replay handling and the advisory cap check.
Submit(t, r, q) ==
  /\ th[t].pc = "idle"
  /\ th' = [th EXCEPT ![t] =
       [pc |-> IF Known(r) \/ Full THEN "answered" ELSE "validate",
        ref |-> r, req |-> q, src |-> 0, backend |-> 0, mut |-> 0,
        ans |-> IF Known(r) THEN Lookup(r, q)
                ELSE IF Full THEN Answer("busy", 0) ELSE NoAnswer]]
  /\ UNCHANGED <<muVars, st, recVars, reg, age>>

\* The code a request is refused with, or "none".
Refusal(q, s) ==
  CASE q.action # "add" /\ ~Has(s, q.hash)        -> "stale_torrent"
    [] q.action = "add" /\ q.hash = NoHash        -> "invalid_url"
    [] q.action = "add" /\ Has(s, q.hash)         -> "duplicate"
    [] OTHER -> IF s.ok THEN "none" ELSE "backend_unavailable"

\* Validation reads the committed state without the mutation lock.
Validate(t) ==
  /\ th[t].pc = "validate"
  /\ LET code == Refusal(th[t].req, st)
     IN  th' = [th EXCEPT ![t].pc  = IF code = "none" THEN "register" ELSE "reject",
                          ![t].src = st.src,
                          ![t].ans = Answer(code, 0)]
  /\ UNCHANGED <<muVars, st, recVars, reg, age>>

\* reject records the refusal under the lock, whatever has become of the
\* ref in the meantime.
Reject(t) ==
  /\ th[t].pc = "reject"
  /\ Remember(<<Record(th[t].ref, th[t].req, th[t].ans.outcome, 0)>>)
  /\ Answered(t, th[t].ans)
  /\ UNCHANGED <<backend, epoch, draining, nextMut, inflight, st, recVars, reg>>

\* Whether the committed state satisfies the intent of a mutation; a
\* degraded state never does.
Holds(q, s) ==
  /\ s.ok
  /\ CASE q.action = "pause"  -> s.torrents[q.hash] = "paused"
       [] q.action = "resume" -> s.torrents[q.hash] = "active"
       [] q.action = "add"    -> s.torrents[q.hash] # "absent"
       [] q.action = "remove" -> s.torrents[q.hash] = "absent"

\* Mutants of the guards of a registration: no drain check, no second
\* lookup.
DrainUnchecked(r)  == ~Known(r) /\ ~Full
RefUnchecked(r)    == ~draining /\ r \notin DOMAIN inflight /\ ~Full

\* What the second critical section checks again before it registers.
MayRegister(r) == ~draining /\ ~Known(r) /\ ~Full

\* The second critical section: the mutation is registered and the client
\* for its backend call captured.
Register(t) ==
  /\ th[t].pc = "register"
  /\ MayRegister(th[t].ref)
  /\ nextMut < MaxMut
  /\ LET r == th[t].ref  q == th[t].req
     IN  /\ nextMut' = nextMut + 1
         /\ inflight' = [x \in DOMAIN inflight \cup {r} |->
              IF x = r THEN [mut |-> nextMut', req |-> q, epoch |-> epoch,
                             due |-> FALSE, held |-> Holds(q, st)]
                       ELSE inflight[x]]
         /\ reg' = Append(reg, [ref |-> r, req |-> q])
         /\ age' = [age EXCEPT ![r] = 0]
         /\ th' = [th EXCEPT ![t].pc = "call", ![t].backend = backend, ![t].mut = nextMut']
  /\ UNCHANGED <<backend, epoch, draining, ring, st, recVars>>

\* The second critical section does not register: a switch drains, the ref
\* has become known, or the cap has been reached.
TurnAway(t) ==
  /\ th[t].pc = "register"
  /\ ~MayRegister(th[t].ref)
  /\ Answered(t, IF ~draining /\ Known(th[t].ref) THEN Lookup(th[t].ref, th[t].req)
                                                  ELSE Answer("busy", 0))
  /\ UNCHANGED <<muVars, st, recVars, reg, age>>

\* The backend call succeeds. Nothing is looked at again.
CallOK(t) ==
  /\ th[t].pc = "call"
  /\ Answered(t, Answer("accepted", th[t].mut))
  /\ UNCHANGED <<muVars, st, recVars, reg, age>>

\* The backend call fails or times out: the ref is taken out of flight and
\* the failure recorded, even if reconcile has settled the mutation.
CallFail(t) ==
  /\ th[t].pc = "call"
  /\ inflight' = [r \in DOMAIN inflight \ {th[t].ref} |-> inflight[r]]
  /\ Remember(<<Record(th[t].ref, th[t].req, "failed", 0)>>)
  /\ Answered(t, Answer("failed", 0))
  /\ UNCHANGED <<backend, epoch, draining, nextMut, st, recVars, reg>>

\* The handler writes the answer and is free for the next request.
Return(t) ==
  /\ th[t].pc = "answered"
  /\ th' = [th EXCEPT ![t] = Idle]
  /\ UNCHANGED <<muVars, st, recVars, reg, age>>

-----------------------------------------------------------------------------
(* reconcile.                                                              *)

\* The state is read before the lock is taken.
ReadState ==
  /\ rpc = "idle"
  /\ rpc' = "settle"
  /\ snap' = st
  /\ UNCHANGED <<muVars, st, th, finished, results, reg, age>>

\* Mutant of Verdict: the window is not looked at while degraded.
PatientVerdict(p) ==
  CASE p.epoch # epoch    -> "timeout"
    [] Holds(p.req, snap) -> "confirmed"
    [] OTHER -> IF p.due /\ snap.ok THEN "timeout" ELSE "open"

\* checkIntent and the deadline. A mutation of an older epoch is never
\* confirmed.
Verdict(p) ==
  CASE p.epoch # epoch                       -> "timeout"
    [] p.epoch = epoch /\ Holds(p.req, snap) -> "confirmed"
    [] OTHER -> IF p.due THEN "timeout" ELSE "open"

Settled == {r \in DOMAIN inflight : Verdict(inflight[r]) # "open"}

\* Mutants of Open: only confirmed mutations are deleted; and of ResultsOf:
\* only confirmed mutations have a result.
Unconfirmed   == {r \in DOMAIN inflight : Verdict(inflight[r]) # "confirmed"}
Confirmations == {[mut |-> inflight[r].mut, status |-> "confirmed"] :
                    r \in {x \in Settled : Verdict(inflight[x]) = "confirmed"}}

\* The refs that stay in flight.
Open == DOMAIN inflight \ Settled

\* The results of the settled mutations.
ResultsOf == {[mut |-> inflight[r].mut, status |-> Verdict(inflight[r])] : r \in Settled}

\* The orders in which a map may be iterated.
Orders(S) == {f \in [1..Cardinality(S) -> S] : \A i, j \in DOMAIN f : f[i] = f[j] => i = j}

\* One critical section settles every pending mutation it can.
Settle ==
  /\ rpc = "settle"
  /\ \E order \in Orders(Settled) :
       Remember([i \in DOMAIN order |->
         LET p == inflight[order[i]] IN Record(order[i], p.req, Verdict(p), p.mut)])
  /\ finished' = ResultsOf
  /\ inflight' = [r \in Open |-> inflight[r]]
  /\ rpc' = IF finished' = {} THEN "idle" ELSE "publish"
  /\ snap' = Blank
  /\ UNCHANGED <<backend, epoch, draining, nextMut, st, th, results, reg>>

\* The results are published one by one after the lock is released.
Publish(f) ==
  /\ rpc = "publish"
  /\ f \in finished
  /\ results' = results \cup {f}
  /\ finished' = finished \ {f}
  /\ rpc' = IF finished' = {} THEN "idle" ELSE "publish"
  /\ UNCHANGED <<muVars, st, th, snap, reg, age>>

\* The window of a mutation (10 s) ends; its backend call (5 s) is over.
Deadline(r) ==
  /\ r \in DOMAIN inflight
  /\ ~inflight[r].due
  /\ \A t \in Thread : th[t].pc = "call" => th[t].mut # inflight[r].mut
  /\ inflight' = [inflight EXCEPT ![r].due = TRUE]
  /\ UNCHANGED <<backend, epoch, draining, nextMut, ring, st, th, recVars, reg, age>>

-----------------------------------------------------------------------------
(* The committed state, and the switch of the backend.                     *)

\* External: the syncer commits; the window of every pending sees it.
Committed(s) ==
  /\ st' = s
  /\ inflight' = [r \in DOMAIN inflight |->
       [inflight[r] EXCEPT !.held = @ \/ Holds(inflight[r].req, s)]]

\* External: a cycle of the current client commits or degrades.
StateChange(s) ==
  /\ s.src = st.src
  /\ Committed(s)
  /\ UNCHANGED <<backend, epoch, draining, nextMut, ring, th, recVars, reg, age>>

\* BeginSwitch refuses while a mutation is in flight, then drains.
BeginSwitch ==
  /\ ~draining
  /\ DOMAIN inflight = {}
  /\ draining' = TRUE
  /\ UNCHANGED <<backend, epoch, nextMut, inflight, ring, st, th, recVars, reg, age>>

\* External: the manager switches the syncer to a new client, which clears
\* the committed state.
SwitchSyncer ==
  /\ draining
  /\ st.src = backend /\ st.src < MaxEpoch
  /\ Committed(BlankOf(st.src + 1))
  /\ UNCHANGED <<backend, epoch, draining, nextMut, ring, th, recVars, reg, age>>

\* CommitSwap ends the drain with the new client.
CommitSwap ==
  /\ draining
  /\ st.src # backend
  /\ draining' = FALSE
  /\ backend' = st.src
  /\ epoch' = epoch + 1
  /\ UNCHANGED <<nextMut, inflight, ring, st, th, recVars, reg, age>>

\* AbortSwitch ends the drain of a reconfiguration that failed.
AbortSwitch ==
  /\ draining
  /\ st.src = backend
  /\ draining' = FALSE
  /\ UNCHANGED <<backend, epoch, nextMut, inflight, ring, st, th, recVars, reg, age>>

-----------------------------------------------------------------------------
(* The specification.                                                      *)

Init ==
  /\ backend = 0 /\ epoch = 0 /\ draining = FALSE
  /\ nextMut = 0 /\ inflight = [r \in {} |-> 0] /\ ring = <<>>
  /\ st = Blank
  /\ th = [t \in Thread |-> Idle]
  /\ rpc = "idle" /\ snap = Blank /\ finished = {} /\ results = {}
  /\ reg = <<>>
  /\ age = [r \in Ref |-> RingSize + 1]

SubmitStep(t) ==
  \/ \E r \in Ref, q \in Request : Submit(t, r, q)
  \/ Validate(t) \/ Reject(t) \/ Register(t) \/ TurnAway(t)
  \/ CallOK(t) \/ CallFail(t) \/ Return(t)

Reconcile == ReadState \/ Settle \/ \E f \in finished : Publish(f)

Next ==
  \/ \E t \in Thread : SubmitStep(t)
  \/ Reconcile
  \/ \E r \in Ref : Deadline(r)
  \/ \E s \in [ok : BOOLEAN, torrents : [Hash -> Row], src : {st.src}] :
       StateChange(s)
  \/ BeginSwitch \/ SwitchSyncer \/ CommitSwap \/ AbortSwitch

Spec == Init /\ [][Next]_vars

\* Run's ticker keeps reconciling, backend calls end by their timeout and
\* windows by the clock.
FairSpec ==
  /\ Spec
  /\ WF_vars(Reconcile)
  /\ \A t \in Thread : WF_vars(CallOK(t) \/ CallFail(t))
  /\ \A r \in Ref : WF_vars(Deadline(r))

-----------------------------------------------------------------------------
(* Properties.                                                             *)

TypeOK ==
  /\ backend \in Nat /\ epoch \in Nat /\ draining \in BOOLEAN
  /\ nextMut \in Nat
  /\ DOMAIN inflight \subseteq Ref /\ inflight \in [DOMAIN inflight -> Pendings]
  /\ ring \in Seq(Records) /\ Len(ring) <= RingSize
  /\ st \in States
  /\ th \in [Thread -> Locals \cup {Idle}]
  /\ rpc \in {"idle", "settle", "publish"}
  /\ snap \in States
  /\ finished \subseteq Results /\ results \subseteq Results
  /\ reg \in Seq([ref : Ref, req : Request])
  /\ age \in [Ref -> 0..(RingSize + 1)]

\* A drain that has begun keeps every later registration out until the
\* switch is over, so no mutation is ever in flight during a drain or left
\* over from an older epoch: the branch of reconcile for orphaned mutations
\* (mutator.go:520) is a second line of defence that is never needed.
NeverOrphaned ==
  \A r \in DOMAIN inflight : ~draining /\ inflight[r].epoch = epoch

\* Handlers that all passed the advisory cap check still register at most
\* MaxInFlight mutations (the check at registration, mutator.go:398).
CapOnPendings == Cardinality(DOMAIN inflight) <= MaxInFlight

\* A ref is not executed a second time before RingSize other records have
\* been appended, whatever the first attempt came to and whoever submits it
\* (lookups at mutator.go:341 and 394, every exit of a mutation recorded).
ExecutesOnce ==
  [][nextMut' > nextMut => age[reg'[nextMut'].ref] > RingSize]_vars

\* An answer that carries a mutation id carries the id of the very attempt
\* it answers: a ref reused for another request never converges on it
\* (matches and lookupRefLocked).
AnswersOwnAttempt ==
  \A t \in Thread : th[t].pc = "answered" =>
    LET m == th[t].ans.mut
    IN  m # 0 => reg[m] = [ref |-> th[t].ref, req |-> th[t].req]

\* A mutation gets one result at most, and none while it is still pending
\* (reconcile deletes what it settles in the critical section that decides).
OneResult ==
  /\ finished \cap results = {}
  /\ \A f, g \in finished \cup results : f.mut = g.mut => f = g
  /\ \A f \in finished \cup results, r \in DOMAIN inflight : f.mut # inflight[r].mut

\* A mutation leaves the in-flight map in two ways only: with a result to
\* publish, or because a backend call made for its ref has just failed
\* (mutator.go:425, 535, 540).
LeavesWithAnOutcome ==
  [][\A r \in DOMAIN inflight : r \notin DOMAIN inflight' =>
       \/ \E f \in finished' : f.mut = inflight[r].mut
       \/ \E t \in Thread : /\ th[t].pc = "call" /\ th[t].ref = r
                            /\ th'[t].pc = "answered" /\ th'[t].ans.outcome = "failed"]_vars

\* Every mutation stops being pending, in particular when the backend stays
\* degraded for ever (the window of reconcile).
Settles ==
  \A m \in 1..MaxMut :
    (\E r \in DOMAIN inflight : inflight[r].mut = m)
      ~> ~(\E r \in DOMAIN inflight : inflight[r].mut = m)

-----------------------------------------------------------------------------
(* What the documentation says, and the code does not do.                  *)

Calls == {t \in Thread : th[t].pc = "call"}

\* "validation-against-old-state + registration-on-new-backend can never
\* interleave" (mutator.go:221).
RunsWhereValidated == \A t \in Calls : th[t].backend = th[t].src

\* "a concurrent SwitchBackend refuses while we are in flight"
\* (mutator.go:417).
NoSwitchDuringCall == draining => Calls = {}

\* "A daemon-wide semaphore caps concurrent submissions at 4"
\* (docs/adr/0006-ipc-v1-2-mutations.md).
CapOnCalls == Cardinality(Calls) <= MaxInFlight

\* "confirmed - the committed sync state observed the intent within the
\* window" (docs/adr/0006-ipc-v1-2-mutations.md).
ConfirmedWithinWindow ==
  [][\A r \in DOMAIN inflight :
       [mut |-> inflight[r].mut, status |-> "confirmed"] \in finished' \ finished
         => inflight[r].held]_vars

\* "Replayed ref already completed => ... the recorded mutation.result
\* status" (docs/adr/0006-ipc-v1-2-mutations.md).
ReplayAnswersTheResult ==
  \A i \in DOMAIN ring :
    ring[i].outcome \in Verdicts /\ ring[i].ref \notin DOMAIN inflight
      => Oldest(ring[i].ref).outcome \in Verdicts
=============================================================================
