------------------------------- MODULE Syncer -------------------------------
(***************************************************************************)
(* The state syncer (internal/state/syncer.go): one goroutine (Run) keeps  *)
(* a committed copy of the torrents of one qBittorrent backend by polling  *)
(* /sync/maindata, while other goroutines replace the backend              *)
(* (SwitchBackend) and subscribe to the committed changes (Subscribe).     *)
(*                                                                         *)
(* A cycle holds no lock while it talks to the backend, so every request   *)
(* and every critical section of a cycle is an action of its own, and a    *)
(* switch or a subscription can fall between any two of them.              *)
(*                                                                         *)
(* Abstractions: a torrent row is a value tagged with the backend it came  *)
(* from; the transfer speeds and the free space, which follow `ok', are    *)
(* left out; the back-off timer of Run may fire at any time.               *)
(***************************************************************************)
EXTENDS Integers, FiniteSets, Sequences

CONSTANTS
  Backend,          \* the qBittorrent servers a client can be built for
  Hash,             \* torrent hashes
  Val,              \* what a row can say of a torrent
  None,             \* "no version probed"
  Sub,              \* subscribers
  StickyAuthFails,  \* authentication failures after which the syncer parks (3)
  ChanCap,          \* buffered changes per subscriber (64)
  MaxGen,           \* bound: successful syncs and switches in a behaviour
  RidSpan           \* response ids a session cycles through

ASSUME SyncerAssumption ==
  /\ Backend # {}
  /\ None \notin Backend
  /\ StickyAuthFails \in Nat \ {0}
  /\ ChanCap \in Nat \ {0}
  /\ MaxGen \in Nat
  /\ RidSpan \in Nat \ {0, 1}   \* two responses in a row never have the same id

VARIABLES
  backend, epoch,     \* the client in use and its generation
  cur,                \* the committed State
  rid, ver,           \* next request's rid; versions probed
  authFails, sticky,  \* consecutive authentication failures; parked
  kick,               \* the one-slot wake-up channel of Run
  pc, loc,            \* the cycle in progress: where it is, its locals
  phase, chan,        \* each subscription and its buffered changes
  view, seen,         \* what a subscriber has made of them; the last seq
  sess,               \* external: the session the server keeps
  failed              \* history: cycles of this epoch that failed to
                      \* authenticate since a login was last accepted

muVars   == <<backend, epoch, cur, rid, ver, authFails, sticky>>
subVars  == <<phase, chan, view, seen>>
vars     == <<muVars, kick, pc, loc, subVars, sess, failed>>

-----------------------------------------------------------------------------
(* Data.                                                                   *)

\* Torrent: a row, tagged with the backend that reported it.
Row(b)  == [src : {b}, val : Val]
RowAny  == [src : Backend, val : Val]

\* map[string]Torrent: functions from some of the hashes.
RowMaps(R) == UNION {[D -> R] : D \in SUBSET Hash}
NoRows     == [h \in {} |-> None]

\* How a request can fail: the backend refuses the login (bad credentials,
\* a ban); the secret cannot be read, so that nothing is sent at all; or
\* anything else.
AuthClass == {"rejected", "nosecret"}
Failures  == AuthClass \cup {"other"}
Errors    == Failures \cup {"none", "loading"}

\* State (the fields the properties tell apart).
States   == [ok : BOOLEAN, torrents : RowMaps(RowAny), api : Backend \cup {None},
             err : Errors, gen : Nat]

\* The state New starts from.
Fresh == [ok |-> FALSE, torrents |-> NoRows, api |-> None,
          err |-> "loading", gen |-> 0]

\* Change: the delta of one committed cycle. `post' is a history field:
\* the committed rows the change leads to.
Changes  == [seq : Nat, changed : RowMaps(RowAny), removed : SUBSET Hash,
             post : RowMaps(RowAny)]

\* Apply the changed rows, then delete the removed ones.
Patch(t, changed, removed) ==
  [h \in (DOMAIN t \cup DOMAIN changed) \ removed |->
     IF h \in DOMAIN changed THEN changed[h] ELSE t[h]]

\* The rows of `new' that `old' does not have as they are.
Differing(old, new) ==
  [h \in {g \in DOMAIN new : g \notin DOMAIN old \/ old[g] # new[g]} |-> new[h]]

\* The locals of cycle.
Locals == [epoch : Nat, backend : Backend \cup {None}, rid : Nat, ver : BOOLEAN,
           prev : States, torrents : RowMaps(RowAny), api : Backend \cup {None},
           changed : RowMaps(RowAny), removed : SUBSET Hash,
           nextRid : Nat, err : Failures]

\* Between two cycles the locals are dead.
NoLocals == [epoch |-> 0, backend |-> None, rid |-> 0, ver |-> FALSE,
             prev |-> Fresh, torrents |-> NoRows, api |-> None,
             changed |-> NoRows, removed |-> {}, nextRid |-> 0, err |-> "other"]

PCs == {"idle", "login", "sync", "probe", "commit", "degrade"}

-----------------------------------------------------------------------------
(* Subscriptions.                                                          *)

\* Mutant of Publish: a full channel loses the change but stays open.
PublishSkipping(ch) ==
  /\ chan' = [s \in Sub |-> IF phase[s] = "open" /\ Len(chan[s]) < ChanCap
                              THEN Append(chan[s], ch) ELSE chan[s]]
  /\ UNCHANGED <<phase, view, seen>>

\* publishToSubs: a non-blocking send to every registered subscriber; one
\* whose channel is full is dropped and its channel closed.
Publish(ch) ==
  /\ chan'  = [s \in Sub |-> IF phase[s] = "open" /\ Len(chan[s]) < ChanCap
                               THEN Append(chan[s], ch) ELSE chan[s]]
  /\ phase' = [s \in Sub |-> IF phase[s] = "open" /\ Len(chan[s]) >= ChanCap
                               THEN "dropped" ELSE phase[s]]
  /\ UNCHANGED <<view, seen>>

\* Subscribe: snapshot and registration in one critical section.
Subscribe(s) ==
  /\ phase[s] = "none"
  /\ phase' = [phase EXCEPT ![s] = "open"]
  /\ view'  = [view  EXCEPT ![s] = cur.torrents]
  /\ seen'  = [seen  EXCEPT ![s] = cur.gen]
  /\ UNCHANGED <<chan, muVars, kick, pc, loc, sess, failed>>

\* A subscriber takes the oldest change off its channel.
Deliver(s) ==
  /\ chan[s] # <<>>
  /\ chan' = [chan EXCEPT ![s] = Tail(@)]
  /\ view' = [view EXCEPT ![s] = Patch(@, Head(chan[s]).changed, Head(chan[s]).removed)]
  /\ seen' = [seen EXCEPT ![s] = Head(chan[s]).seq]
  /\ UNCHANGED <<phase, muVars, kick, pc, loc, sess, failed>>

\* The subscription ends: cancelled by its owner at any time, or found
\* closed once a dropped subscriber has read what was buffered.
Unsubscribe(s) ==
  /\ \/ phase[s] = "open"
     \/ phase[s] = "dropped" /\ chan[s] = <<>>
  /\ phase' = [phase EXCEPT ![s] = "none"]
  /\ chan'  = [chan  EXCEPT ![s] = <<>>]
  /\ view'  = [view  EXCEPT ![s] = NoRows]
  /\ seen'  = [seen  EXCEPT ![s] = 0]
  /\ UNCHANGED <<muVars, kick, pc, loc, sess, failed>>

-----------------------------------------------------------------------------
(* SwitchBackend.                                                          *)

\* Mutant of Cleared: the rows survive.
ClearedKeepsRows == [cur EXCEPT !.ok = FALSE, !.err = "loading", !.gen = @ + 1]

\* The state a switch commits: no rows, no versions, "loading".
Cleared == [Fresh EXCEPT !.gen = cur.gen + 1]

\* Every row is removed from every subscriber's view.
Removals == DOMAIN cur.torrents

\* Mutant of Kicked: the channel has no slot, Run must be waiting.
KickedIfIdle == kick \/ pc = "idle"

\* The non-blocking send on the one-slot channel kick: the token stays
\* until Run takes it.
Kicked == TRUE

\* The client is replaced, the epoch bumped and everything that belonged
\* to the old backend dropped, in one critical section with the removals
\* it publishes; Run is woken without blocking.
SwitchBackend(b) ==
  /\ cur.gen < MaxGen
  /\ backend' = b
  /\ epoch' = epoch + 1
  /\ rid' = 0
  /\ ver' = FALSE
  /\ authFails' = 0
  /\ sticky' = FALSE
  /\ cur' = Cleared
  /\ IF DOMAIN cur.torrents # {}
       THEN Publish([seq |-> cur'.gen, changed |-> NoRows,
                     removed |-> Removals, post |-> NoRows])
       ELSE UNCHANGED subVars
  /\ kick' = Kicked
  /\ failed' = 0
  /\ UNCHANGED <<pc, loc, sess>>

-----------------------------------------------------------------------------
(* The cycle.                                                              *)

\* The locals of a cycle that has only captured the shared state.
Captured == [NoLocals EXCEPT !.epoch = epoch, !.backend = backend, !.rid = rid,
                             !.ver = ver, !.prev = cur]

\* Mutant of SameEpoch: the epoch is not looked at again.
NoEpochCheck == TRUE

\* The guard under which a cycle may touch the shared state again.
SameEpoch == epoch = loc.epoch

\* cycle captures backend, epoch and state together. A parked syncer goes
\* straight to the degraded commit, with an error of its own making which
\* classify does not recognise (syncer.go:379, 720); a cycle after a failure
\* or a switch logs in first.
BeginCycle ==
  /\ pc = "idle"
  /\ loc' = Captured
  /\ pc' = CASE sticky -> "degrade"
             [] ~sticky /\ ~cur.ok -> "login"
             [] OTHER -> "sync"
  /\ UNCHANGED <<muVars, subVars, sess, failed>>

\* Run waits for a kick or for its back-off timer.
WakeOnKick  == kick /\ kick' = FALSE /\ BeginCycle
WakeOnTimer == UNCHANGED kick /\ BeginCycle

\* errClass: the failures that count. Mutant: a locked keyring does not.
CountsRefusals(e) == e = "rejected"
Counts(e)         == e \in AuthClass

\* The threshold of the latch.
Parks(n) == n >= StickyAuthFails

\* noteAuthFailure: counts authentication-class failures and parks the
\* syncer at the threshold. It does not look at the epoch.
NoteAuthFailure(e) ==
  /\ authFails' = IF Counts(e) THEN authFails + 1 ELSE authFails
  /\ sticky' = (sticky \/ (Counts(e) /\ Parks(authFails + 1)))
  /\ failed' = IF e \in AuthClass /\ epoch = loc.epoch THEN failed + 1 ELSE failed

\* Login accepted: the counter restarts, unless a switch has happened.
LoginOK ==
  /\ pc = "login"
  /\ pc' = "sync"
  /\ authFails' = IF SameEpoch THEN 0 ELSE authFails
  /\ failed' = IF epoch = loc.epoch THEN 0 ELSE failed
  /\ UNCHANGED <<backend, epoch, cur, rid, ver, sticky, kick, loc, subVars, sess>>

\* Login refused, not attempted for want of a secret, or not answered.
LoginFail(e) ==
  /\ pc = "login"
  /\ pc' = "degrade"
  /\ loc' = [loc EXCEPT !.err = e]
  /\ NoteAuthFailure(e)
  /\ UNCHANGED <<backend, epoch, cur, rid, ver, kick, subVars, sess>>

\* External: the server's session after a response that reported `rows'.
\* A client of another epoch has a session of its own.
Served(rows) ==
  [client |-> loc.epoch, rows |-> rows,
   rid |-> IF sess.client = loc.epoch THEN (sess.rid % RidSpan) + 1 ELSE 1]

\* External: the server may answer with a delta only against the response
\* the request's rid names; any other rid gets a full update.
DeltaAllowed == loc.rid # 0 /\ sess.client = loc.epoch /\ sess.rid = loc.rid

\* Mutant of BuildFull: rows the full update does not mention survive.
BuildFullMerging(rows) ==
  [loc EXCEPT !.torrents = Patch(loc.prev.torrents, rows, {}),
              !.changed  = Differing(loc.prev.torrents, rows),
              !.api      = loc.prev.api,
              !.nextRid  = Served(rows).rid]

\* A full update replaces the rows and is diffed against the previous
\* ones.
BuildFull(rows) ==
  [loc EXCEPT !.torrents = rows,
              !.changed  = Differing(loc.prev.torrents, rows),
              !.removed  = DOMAIN loc.prev.torrents \ DOMAIN rows,
              !.api      = loc.prev.api,
              !.nextRid  = Served(rows).rid]

\* Mutant of BuildDelta: torrents_removed is not applied.
BuildDeltaKeeping(rows, changed, removed) ==
  [loc EXCEPT !.torrents = Patch(loc.prev.torrents, changed, {}),
              !.changed  = changed,
              !.api      = loc.prev.api,
              !.nextRid  = Served(rows).rid]

\* A delta is applied to the previous rows; removals of unknown hashes are
\* ignored.
BuildDelta(rows, changed, removed) ==
  LET base == Patch(loc.prev.torrents, changed, {})
  IN  [loc EXCEPT !.torrents = Patch(base, NoRows, removed),
                  !.changed  = changed,
                  !.removed  = removed \cap DOMAIN base,
                  !.api      = loc.prev.api,
                  !.nextRid  = Served(rows).rid]

\* Versions are probed once per backend epoch.
NeedsProbe == ~loc.ver \/ ~loc.prev.ok \/ loc.prev.api = None

\* SyncMaindata answers. `rows' is whatever the server has at this moment.
SyncOK(rows) ==
  /\ pc = "sync"
  /\ loc.prev.gen < MaxGen
  /\ \/ loc' = BuildFull(rows)
     \/ /\ DeltaAllowed
        /\ loc' = BuildDelta(rows, Differing(sess.rows, rows),
                             DOMAIN sess.rows \ DOMAIN rows)
  /\ sess' = Served(rows)
  /\ pc' = IF NeedsProbe THEN "probe" ELSE "commit"
  /\ UNCHANGED <<muVars, kick, subVars, failed>>

\* SyncMaindata fails, or its payload does not decode. A re-login inside
\* the request may have failed; the server may have counted a response that
\* was lost or malformed ("other").
SyncFail(e, rows) ==
  /\ pc = "sync"
  /\ pc' = "degrade"
  /\ loc' = [loc EXCEPT !.err = e]
  /\ NoteAuthFailure(e)
  /\ sess' \in {sess} \cup (IF e = "other" THEN {Served(rows)} ELSE {})
  /\ UNCHANGED <<backend, epoch, cur, rid, ver, kick, subVars>>

\* AppVersion and WebAPIVersion. The field s.backend is read here without
\* the lock, so a switch may or may not be visible; failure is not fatal. A
\* re-login that fails inside either request is such a failure: nothing here
\* counts it (what the backend counts of it is the subject of Logins).
Probe ==
  /\ pc = "probe"
  /\ pc' = "commit"
  /\ \/ /\ \E b \in {loc.backend, backend} : loc' = [loc EXCEPT !.api = b]
        /\ ver' = TRUE
     \/ UNCHANGED <<loc, ver>>
  /\ UNCHANGED <<backend, epoch, cur, rid, authFails, sticky, kick, subVars, sess, failed>>

\* The commit, discarded if a switch has happened since the capture.
Commit ==
  /\ pc = "commit"
  /\ pc' = "idle" /\ loc' = NoLocals
  /\ IF SameEpoch
       THEN /\ cur' = [ok |-> TRUE, torrents |-> loc.torrents, api |-> loc.api,
                       err |-> "none", gen |-> loc.prev.gen + 1]
            /\ rid' = loc.nextRid
            /\ IF DOMAIN loc.changed # {} \/ loc.removed # {} \/ ~loc.prev.ok
                 THEN Publish([seq |-> loc.prev.gen + 1, changed |-> loc.changed,
                               removed |-> loc.removed, post |-> loc.torrents])
                 ELSE UNCHANGED subVars
       ELSE UNCHANGED <<cur, rid, subVars>>
  /\ UNCHANGED <<backend, epoch, ver, authFails, sticky, kick, sess, failed>>

\* What a failure leaves of the state. Mutant: the rows go, too.
DegradedToNothing == [cur EXCEPT !.ok = FALSE, !.err = loc.err, !.torrents = NoRows]
Degraded          == [cur EXCEPT !.ok = FALSE, !.err = loc.err]

\* commitDegradedEpoch: the rows stay (last known good), the flag drops,
\* the next success must be a full rebuild. Nothing is published.
Degrade ==
  /\ pc = "degrade"
  /\ pc' = "idle" /\ loc' = NoLocals
  /\ IF SameEpoch
       THEN /\ cur' = Degraded
            /\ rid' = 0
            /\ ver' = FALSE
       ELSE UNCHANGED <<cur, rid, ver>>
  /\ UNCHANGED <<backend, epoch, authFails, sticky, kick, subVars, sess, failed>>

-----------------------------------------------------------------------------
(* The specification.                                                      *)

Init ==
  /\ backend \in Backend
  /\ epoch = 0
  /\ cur = Fresh
  /\ rid = 0 /\ ver = FALSE
  /\ authFails = 0 /\ sticky = FALSE
  /\ kick = FALSE
  /\ pc = "idle" /\ loc = NoLocals
  /\ phase = [s \in Sub |-> "none"]
  /\ chan = [s \in Sub |-> <<>>]
  /\ view = [s \in Sub |-> NoRows]
  /\ seen = [s \in Sub |-> 0]
  /\ sess = [client |-> 0, rows |-> NoRows, rid |-> 0]
  /\ failed = 0

SyncAnswered == \E rows \in RowMaps(Row(loc.backend)) : SyncOK(rows)
SyncRefused  == \E e \in Failures :
                  \E rows \in RowMaps(Row(loc.backend)) : SyncFail(e, rows)

\* What a cycle does once it has begun.
CycleStep ==
  \/ LoginOK
  \/ \E e \in Failures : LoginFail(e)
  \/ SyncAnswered
  \/ SyncRefused
  \/ Probe
  \/ Commit
  \/ Degrade

Next ==
  \/ WakeOnKick
  \/ WakeOnTimer
  \/ CycleStep
  \/ \E b \in Backend : SwitchBackend(b)
  \/ \E s \in Sub : Subscribe(s) \/ Deliver(s) \/ Unsubscribe(s)

Spec == Init /\ [][Next]_vars

-----------------------------------------------------------------------------
(* Properties.                                                             *)

TypeOK ==
  /\ backend \in Backend /\ epoch \in Nat
  /\ cur \in States
  /\ rid \in Nat /\ ver \in BOOLEAN
  /\ authFails \in 0..StickyAuthFails /\ sticky \in BOOLEAN
  /\ kick \in BOOLEAN
  /\ pc \in PCs /\ loc \in Locals
  /\ phase \in [Sub -> {"none", "open", "dropped"}]
  /\ chan \in [Sub -> Seq(Changes)]
  /\ view \in [Sub -> RowMaps(RowAny)]
  /\ seen \in [Sub -> Nat]
  /\ sess \in [client : Nat, rows : RowMaps(RowAny), rid : Nat]
  /\ failed \in Nat

From(b, t) == \A h \in DOMAIN t : t[h].src = b

\* Whatever is committed - rows and the version that picks the mutation
\* endpoints - was reported by the backend in use, even while cycles of
\* older epochs are still in flight (SwitchBackend, the commit's epoch check).
CurrentBackendOnly ==
  /\ From(backend, cur.torrents)
  /\ cur.api \in {None, backend}

\* A subscription that is still open has not lost a change: its view with
\* the buffered changes applied in order is the committed state, and each
\* step on the way is a state that was committed. No subscriber, not even one
\* that was dropped, ever holds rows of two backends: removals of a switch and
\* deltas of a cycle cannot overtake each other (both publish under s.mu).
Leads(t, ch) == Patch(t, ch.changed, ch.removed) = ch.post
SubscribersFollow ==
  \A s \in Sub :
    /\ \E b \in Backend : From(b, view[s])
    /\ \A i \in 1..Len(chan[s]) :
         Leads(IF i = 1 THEN view[s] ELSE chan[s][i-1].post, chan[s][i])
    /\ phase[s] = "open" =>
         cur.torrents = IF chan[s] = <<>> THEN view[s] ELSE chan[s][Len(chan[s])].post

\* A rid is only sent while the committed rows are those the server will
\* compute the delta against.
DeltaHasItsBase ==
  rid # 0 /\ sess.client = epoch /\ sess.rid = rid => cur.torrents = sess.rows

\* What a cycle commits is exactly what the backend reported last, whether
\* it came as a full update or as a delta.
CommitsWhatWasReported ==
  [][cur'.ok /\ cur' # cur => cur'.torrents = sess.rows]_vars

\* A cycle captured before a switch changes neither the committed state nor
\* the rid, nor what subscribers are sent, once the switch has happened.
StaleCycleIsInert ==
  [][pc # "idle" /\ loc.epoch # epoch /\ pc' = "idle"
       => UNCHANGED <<cur, rid, ver, subVars>>]_vars

\* Last known good: within an epoch the rows change only together with a
\* successful, published commit; a failure leaves them alone.
LastKnownGood ==
  [][epoch' = epoch /\ cur'.torrents # cur.torrents => cur'.ok /\ pc = "commit"]_vars

\* The latch (noteAuthFailure) closes in time and not before. With no accepted
\* login between them, at most StickyAuthFails cycles of an epoch fail to
\* authenticate - refused, or without a secret to send -, whatever switches
\* and stale cycles fall between. And nothing but such failures parks the
\* syncer; one of them may be a cycle of the epoch before (ParkingIsEarned).
ParksInTime ==
  /\ failed <= StickyAuthFails
  /\ sticky => failed >= StickyAuthFails - 1

\* "Counters are epoch-scoped" (noteAuthFailure's comment): the syncer is
\* parked only after StickyAuthFails failures of cycles of its own epoch.
ParkingIsEarned == sticky => failed >= StickyAuthFails

\* "The syncer stops contacting the backend entirely and reports `auth_failed'
\* until the connection is reconfigured" (docs/adr/0008, section 6).
SaysWhyItParked ==
  [][sticky /\ cur.err \in AuthClass /\ epoch' = epoch => cur'.err = cur.err]_vars

-----------------------------------------------------------------------------
(* Fairness: a cycle that has begun goes on (its requests have a timeout)  *)
(* and a pending kick is received. Nothing is assumed of the timer, which  *)
(* may be ten minutes away, of the server's answers, of the callers of     *)
(* SwitchBackend or of the subscribers.                                    *)
FairSpec == Spec /\ WF_vars(WakeOnKick \/ CycleStep)

\* "The next cycle runs immediately" (SwitchBackend): without waiting for
\* the back-off timer, a switch is followed by an outcome of the new epoch,
\* even if it fell into a cycle of the old one, unless another comes first.
SwitchIsServed ==
  \A e \in 1..MaxGen :
    (epoch = e /\ cur.err = "loading") ~> (epoch # e \/ cur.err # "loading")
=============================================================================
