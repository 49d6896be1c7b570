------------------------------ MODULE Overlays ------------------------------
(***************************************************************************)
(* The mutation client of the panel (local.omatorrent/MutationClient.js)   *)
(* and the handlers of Panel.qml that drive it: one request in flight, an  *)
(* overlay per torrent until its mutation is settled, a bounded buffer for *)
(* results that arrive before the answer that tells their id, and a        *)
(* watchdog that asks once more about an overlay that lasts.               *)
(*                                                                         *)
(* The daemon is external here, and does what Mutator.tla and Delivery.tla *)
(* say of it: it answers the requests of a connection in turn, pushes the  *)
(* result of every mutation, of this panel or of another client, before or *)
(* after the answer, and may lose a push while its pump resubscribes.      *)
(*                                                                         *)
(* Abstractions: a mutation and its ref are one number, that of the        *)
(* attempt; the early map and the order of its keys are one sequence; an   *)
(* overlay is old once the watchdog's delay is over, which may be at any   *)
(* time; the daemon forgets no ref within a session.                       *)
(***************************************************************************)
EXTENDS Integers, Sequences, FiniteSets, SequencesExt

CONSTANTS
  Hash,         \* torrents
  Action,       \* the actions of the requests: "pause", "resume", "add", "remove"
  MaxEarly,     \* results buffered for mutations not known yet (16)
  MaxMine,      \* bound: attempts of this panel
  MaxForeign,   \* bound: mutations of other clients
  MaxLost,      \* bound: pushes lost
  MaxResets     \* bound: connections lost

ASSUME OverlaysAssumption ==
  /\ Action \subseteq {"pause", "resume", "add", "remove"}
  /\ MaxEarly \in Nat \ {0}
  /\ {MaxMine, MaxForeign, MaxLost, MaxResets} \subseteq Nat

VARIABLES
  pending,      \* the overlays: an entry per torrent that has one
  early,        \* results of mutations not known yet, the oldest first
  rq,           \* the request in flight
  muts,         \* external: the attempts the daemon was or will be asked for
  answer,       \* the answer on its way to the panel
  pushes,       \* the results on their way to the panel
  lost,         \* history: the mutations whose push was lost
  told,         \* history: the results pushed to this session, in order
  resets        \* history: connections lost

panelVars == <<pending, early, rq>>
vars      == <<pending, early, rq, muts, answer, pushes, lost, told, resets>>

Unknown == 0
NoRequest == [mut |-> 0, query |-> FALSE]

Of(m) == muts[m]
Mine  == {m \in DOMAIN muts : muts[m].mine}

-----------------------------------------------------------------------------
(* The state bag.                                                          *)

Without(h) == Restrict(pending, DOMAIN pending \ {h})
With(h, e) == [x \in DOMAIN pending \cup {h} |-> IF x = h THEN e ELSE pending[x]]

Entry(m, a, mut, q) == [ref |-> m, action |-> a, mut |-> mut, old |-> FALSE, queried |-> q]

\* begin: a request that names a torrent replaces its overlay at once; an
\* add has none before it is accepted. A query of the watchdog latches the
\* overlay it is about.
Begun(m, a, h, q) ==
  IF a = "add" THEN IF q THEN With(h, [pending[h] EXCEPT !.queried = TRUE]) ELSE pending
  ELSE With(h, Entry(m, a, Unknown, q))

\* bufferEarly: a known id keeps its place, the oldest is evicted.
BufferEarly(m) ==
  LET s == Append(early, m)
  IN  IF m \in Range(early) THEN early
      ELSE IF Len(s) > MaxEarly THEN Tail(s) ELSE s

\* indexOf and splice; the buffer holds a mutation once.
Unbuffered(m) ==
  IF m \in Range(early) THEN RemoveAt(early, CHOOSE i \in DOMAIN early : early[i] = m)
                        ELSE early

\* Mutant of Terminal: an overlay not tied to a mutation yet is left alone.
TerminalOfTied(m) ==
  LET h == Of(m).hash
  IN  IF h \in DOMAIN pending /\ pending[h].action = Of(m).action /\ pending[h].mut = m
      THEN Without(h) ELSE pending

\* applyTerminal: the overlay ends if it is for this action, and for this
\* mutation or for none yet.
Terminal(m) ==
  LET h == Of(m).hash
  IN  IF h \in DOMAIN pending /\ pending[h].action = Of(m).action /\ pending[h].mut \in {Unknown, m}
      THEN Without(h) ELSE pending

-----------------------------------------------------------------------------
(* The panel.                                                              *)

\* A click or a link: a fresh attempt, only with nothing in flight.
Request(a, h) ==
  /\ rq = NoRequest
  /\ Cardinality(Mine) < MaxMine
  /\ muts' = Append(muts, [action |-> a, hash |-> h, status |-> "sent", mine |-> TRUE])
  /\ rq' = [mut |-> Len(muts'), query |-> FALSE]
  /\ pending' = Begun(rq'.mut, a, h, FALSE)
  /\ UNCHANGED <<early, answer, pushes, lost, told, resets>>

\* The request in flight is answered.
Take == rq' = NoRequest /\ answer' = "none"

\* onAccepted: an early result settles the mutation here; otherwise its
\* overlay is tied to its id.
OnAccepted ==
  LET m == rq.mut  h == Of(m).hash  a == Of(m).action
      has == h \in DOMAIN pending
  IN  /\ answer = "accepted"
      /\ Take
      /\ IF m \in Range(early)
         THEN early' = Unbuffered(m) /\ pending' = Terminal(m)
         ELSE /\ pending' = CASE a = "add" -> With(h, Entry(m, a, m, has /\ pending[h].queried))
                              [] a # "add" /\ has /\ pending[h].action = a ->
                                   With(h, [pending[h] EXCEPT !.mut = m])
                              [] OTHER -> With(h, Entry(m, a, m, FALSE))
              /\ UNCHANGED early
      /\ UNCHANGED <<muts, pushes, lost, told, resets>>

\* onResultResponse: the recorded outcome, the answer to a query.
OnResultResponse ==
  /\ answer = "result"
  /\ Take
  /\ pending' = Terminal(rq.mut)
  /\ early' = Unbuffered(rq.mut)
  /\ UNCHANGED <<muts, pushes, lost, told, resets>>

\* onRejected: the overlay the request had put up goes.
OnRejected ==
  LET h == Of(rq.mut).hash  a == Of(rq.mut).action
  IN  /\ answer = "rejected"
      /\ Take
      /\ pending' = IF a # "add" /\ h \in DOMAIN pending /\ pending[h].action = a
                    THEN Without(h) ELSE pending
      /\ UNCHANGED <<early, muts, pushes, lost, told, resets>>

\* Mutant of Matches: correlation by torrent and action.
MatchesByAction(m) ==
  LET h == Of(m).hash
  IN  h \in DOMAIN pending /\ pending[h].action = Of(m).action /\ pending[h].mut # Unknown

\* A pushed result matches an overlay tied to its mutation, and no other.
Matches(m) ==
  LET h == Of(m).hash
  IN  h \in DOMAIN pending /\ pending[h].action = Of(m).action /\ pending[h].mut = m

OnResultPush ==
  /\ pushes # <<>>
  /\ LET m == Head(pushes)
     IN  /\ told' = Append(told, m)
         /\ IF Matches(m) THEN pending' = Without(Of(m).hash) /\ UNCHANGED early
                          ELSE early' = BufferEarly(m) /\ UNCHANGED pending
  /\ pushes' = Tail(pushes)
  /\ UNCHANGED <<rq, muts, answer, lost, resets>>

\* Twelve seconds have passed since the overlay was put up.
GrowsOld(h) ==
  /\ h \in DOMAIN pending /\ ~pending[h].old
  /\ pending' = [pending EXCEPT ![h].old = TRUE]
  /\ UNCHANGED <<early, rq, muts, answer, pushes, lost, told, resets>>

Due == {h \in DOMAIN pending : pending[h].old /\ ~pending[h].queried}
DueRemovals == {h \in Due : pending[h].action = "remove"}

\* mutationWatchdog, with nothing in flight: old removals are given up, and
\* the first other old overlay it meets is asked about, which ends the pass.
Watchdog ==
  /\ rq = NoRequest /\ Due # {}
  /\ \/ /\ Due = DueRemovals
        /\ pending' = Restrict(pending, DOMAIN pending \ Due)
        /\ UNCHANGED rq
     \/ \E h \in Due \ DueRemovals, R \in SUBSET DueRemovals :
          LET e == pending[h]  asked == Begun(e.ref, e.action, h, TRUE)
          IN  /\ rq' = [mut |-> e.ref, query |-> TRUE]
              /\ pending' = Restrict(asked, DOMAIN asked \ R)
  /\ UNCHANGED <<early, muts, answer, pushes, lost, told, resets>>

\* resetSession: the connection is lost, or a request took six seconds.
Reset ==
  /\ resets < MaxResets
  /\ resets' = resets + 1
  /\ pending' = <<>> /\ early' = <<>> /\ rq' = NoRequest
  /\ answer' = "none" /\ pushes' = <<>> /\ told' = <<>>
  /\ UNCHANGED <<muts, lost>>

-----------------------------------------------------------------------------
(* The daemon, as it is seen from the connection.                          *)

\* Submit registers the mutation, also after the panel has gone.
Register(m) ==
  /\ Of(m).status = "sent"
  /\ muts' = [muts EXCEPT ![m].status = "open"]
  /\ UNCHANGED <<panelVars, answer, pushes, lost, told, resets>>

\* Another client's mutation, of which this connection sees the result.
Foreign(a, h) ==
  /\ Len(muts) - Cardinality(Mine) < MaxForeign
  /\ muts' = Append(muts, [action |-> a, hash |-> h, status |-> "done", mine |-> FALSE])
  /\ pushes' = Append(pushes, Len(muts'))
  /\ UNCHANGED <<panelVars, answer, lost, told, resets>>

Fresh == rq # NoRequest /\ ~rq.query /\ answer = "none"

\* Submit returns: the backend call succeeded, settled or not.
Accept ==
  /\ Fresh /\ Of(rq.mut).status \in {"open", "done"}
  /\ answer' = "accepted"
  /\ UNCHANGED <<panelVars, muts, pushes, lost, told, resets>>

\* Submit refuses, or the backend call fails, settled or not.
Refuse ==
  /\ Fresh
  /\ answer' = "rejected"
  /\ muts' = [muts EXCEPT ![rq.mut].status = IF @ = "done" THEN "done" ELSE "refused"]
  /\ UNCHANGED <<panelVars, pushes, lost, told, resets>>

\* A ref that is known is answered from the record.
Replay ==
  /\ rq.query /\ answer = "none"
  /\ answer' = [open |-> "accepted", done |-> "result", refused |-> "rejected"][Of(rq.mut).status]
  /\ UNCHANGED <<panelVars, muts, pushes, lost, told, resets>>

\* reconcile settles a mutation, and its result is pushed or lost.
Settle(m) ==
  /\ Of(m).status = "open"
  /\ muts' = [muts EXCEPT ![m].status = "done"]
  /\ \/ pushes' = Append(pushes, m) /\ UNCHANGED lost
     \/ Cardinality(lost) < MaxLost /\ lost' = lost \cup {m} /\ UNCHANGED pushes
  /\ UNCHANGED <<panelVars, answer, told, resets>>

-----------------------------------------------------------------------------
Init ==
  /\ pending = <<>> /\ early = <<>> /\ rq = NoRequest
  /\ muts = <<>> /\ answer = "none" /\ pushes = <<>>
  /\ lost = {} /\ told = <<>> /\ resets = 0

Next ==
  \/ \E a \in Action, h \in Hash : Request(a, h) \/ Foreign(a, h)
  \/ OnAccepted \/ OnResultResponse \/ OnRejected \/ OnResultPush
  \/ \E h \in Hash : GrowsOld(h)
  \/ Watchdog \/ Reset
  \/ \E m \in DOMAIN muts : Register(m) \/ Settle(m)
  \/ Accept \/ Refuse \/ Replay

Spec == Init /\ [][Next]_vars

\* The daemon answers and settles, frames arrive, and the timers run.
FairSpec ==
  /\ Spec
  /\ WF_vars(rq # NoRequest /\ Register(rq.mut)) /\ WF_vars(Accept \/ Refuse) /\ WF_vars(Replay)
  /\ \A m \in 1..(MaxMine + MaxForeign) : WF_vars(m \in DOMAIN muts /\ Settle(m))
  /\ WF_vars(OnAccepted) /\ WF_vars(OnResultResponse) /\ WF_vars(OnRejected)
  /\ WF_vars(OnResultPush)
  /\ \A h \in Hash : WF_vars(GrowsOld(h))
  /\ WF_vars(Watchdog)

-----------------------------------------------------------------------------
(* Properties.                                                             *)

Tied(h) == h \in DOMAIN pending /\ pending[h].mut # Unknown

\* The result of m was pushed to this session, and is not among those the
\* buffer may have evicted since.
Remembers(m) ==
  \E i \in DOMAIN told : told[i] = m /\ Len(told) - i < MaxEarly

\* An overlay tied to a mutation ends with the outcome of that mutation and
\* not of another one, unless a later request takes its place, the watchdog
\* gives up a removal, or the session ends; and no overlay is tied to a
\* mutation whose result this session was already told (MutationClient.js
\* onResultPush, onAccepted, applyTerminal). Excepted are a result that
\* MaxEarly others followed, and an add that the daemon accepts once more
\* when it is asked about.
OverlaysFollowTheirOwn ==
  [][\A h \in Hash :
       /\ Tied(h) /\ ~Tied(h)' =>
            \/ Of(pending[h].mut).status = "done"
            \/ h \in DueRemovals
            \/ rq # rq' /\ rq' # NoRequest /\ muts'[rq'.mut].hash = h
            \/ resets' # resets
       /\ Tied(h)' /\ ~(Tied(h) /\ pending[h].mut = pending'[h].mut) =>
            LET m == pending'[h].mut
            IN  m = rq.mut /\ (Remembers(m) => rq.query /\ Of(m).action = "add")]_vars

\* Every overlay ends, whatever order answers and results arrive in and
\* whichever push is lost, except one that was asked about and whose result
\* was then lost, or evicted by others before the answer to the query: it is
\* asked about once (Panel.qml mutationWatchdog).
OverlaysSettle ==
  <>[](\A h \in DOMAIN pending :
         LET e == pending[h]
         IN  e.queried /\ (e.mut \in lost \/ (e.mut \in Range(told) /\ ~Remembers(e.mut))))

\* What the watchdog is for, without the exception: refuted.
EveryOverlayEnds == <>[](pending = <<>>)
=============================================================================
