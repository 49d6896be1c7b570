# OmaTorrent service: specification, model checking and proofs

This directory specifies `omatorrent-service`, the daemon between qBittorrent and
the OmaTorrent panel, in TLA+, and the mutation client of the panel that talks to
it. Nine components are modelled from their code: the state syncer, the mutation
orchestrator, the connection manager's activation transaction, a connection of
the IPC server with everything that feeds it, the logins of all clients of the
backend, the life of the socket file, the computations with the most corner
cases (frames, dashboard, requests and URLs) and the panel's overlays. TLC checks
them on small instances; TLAPS proves the safety of every one of them, two
refinements included, for every value of their constants.

Run everything from this directory: `tlc -config MCSyncer.cfg MCSyncer` checks a
run, `tlapm SyncerProofs.tla` a proof. `PROJECT.json` lists every run, the
theorems, the mutants that each property catches, and the source lines that each
definition stands for.

## 1. The system

```
 qBittorrent <---- client ---- syncer --changes--> server --frames--> panel, bar,
     ^                            ^ state              |              dashboard
     |                            |                    | requests
     +----------- client ---- mutator <----------------+
     |                            ^ drain, swap        |
     +---- test clients ----- manager <----------------+
                               |    |
                      connection.json  keyring
```

| Component | Its state | Its operations | What is hard |
|---|---|---|---|
| State syncer (`internal/state/syncer.go`) | client, epoch, committed state, rid, failure counter and latch, subscribers | `Run`/`cycle`, `SwitchBackend`, `Subscribe`, `State` | requests run without the lock while a switch may come; deltas need their base; subscribers have bounded channels; failed logins must stop |
| Mutation orchestrator (`internal/mutate/mutator.go`) | client, epoch, drain, pending mutations, ring of completed refs, result subscribers | `Submit`, `reconcile`, `BeginSwitch`/`CommitSwap`/`AbortSwitch`, `Results` | lock released between look-up, validation, registration and call; retries with the same ref; reconcile judges by a copy of the state |
| Connection manager (`internal/connection/manager.go`, `store.go`) | active profile, epoch, client, `hasSecret`, offered certificates, stamp of the last test; on disk `connection.json`; in the keyring the secret | `Configure`, `Status`, `Test`, startup look-up of the secret | a transaction over five stores, any step of which may fail or be the last before a crash; tests from several handlers share one gate |
| Profile and URLs (`internal/connection/profile.go`) | none | validation, normalisation, policy on plain HTTP | what is judged, what is stored and what the next start loads must agree |
| IPC server (`internal/ipc/server.go`) | clients, per-connection queue and subscription, socket file | recovery, listen, accept, handshake, requests, snapshot, delta pump, result pump, shutdown | one writer, four senders, bounded queue; close races with all of them; several daemons and one path |
| IPC frames (`internal/ipc/protocol.go`) | none | parse, encode, split deltas | frame bound of 4096 bytes; keys that depend on other values |
| qBittorrent client (`internal/qbittorrent/client.go`) | cookie jar | login, sync, versions, mutations | one re-login after a 403, for requests of several goroutines on one jar; a ban after five rejections |
| Secret store (`internal/secrets/secrets.go`) | external keyring | store, get, delete through `secret-tool` | slow, may fail, may be locked; one item for all profiles |
| Dashboard aggregation (`internal/state/dashboard.go`) | none | `Aggregate` | saturating sums, an order that does not depend on the map's |
| Wiring (`cmd/omatorrent-service/main.go`) | none | builds the parts; forwards changes and results through bounded channels | slow consumers |
| Mutation client (`plugins/local.omatorrent/MutationClient.js`, `Panel.qml`) | overlays, early results, request in flight | correlates answers and pushes; watchdog | results before answers; foreign results; lost results |

How they interact: handlers of the server call `Submit`, `Test` and `Configure` on
their own goroutines; the syncer and the mutator have one goroutine each; the mutator
and the manager read the syncer's committed state by copy; the manager calls
the other two in a switch, `BeginSwitch`, `SwitchBackend`, `CommitSwap`;
subscribers receive changes over channels that are closed when they are full.
The panel has one connection for everything it mutates, and receives on it the
results of all clients.

What makes each correct: *syncer*: what is committed comes from the backend in
use; open subscriptions lose nothing; views never mix backends. *Mutator*: a ref
runs once; every pending gets one outcome; no pending one is left
to another backend. *Manager*:
all or nothing; the three parts agree; what was judged is what is in force.
*Client*: answers are true, whatever re-login came between; the address is not
banned. *Server*: frames in order, of bounded length, in bounded memory; every
connection ends; a live socket is not removed. *Panel*: an overlay disappears
with the outcome of its own mutation, and does disappear.

`PROJECT.json` lists the hazards at their lines, with the properties that watch
them, or the reason why none does.

## 2. Modules

| Module | Models | Checked by |
|---|---|---|
| `Syncer` | `syncer.go` | `MCSyncer` |
| `SyncerProofs` | theorems about `Syncer` | TLAPS |
| `Mutator` | `mutator.go` | `MCMutator` |
| `MutatorProofs` | theorems about `Mutator` | TLAPS |
| `Configure` | `manager.go` (`Configure`, `Status`), `store.go` | `MCConfigure` |
| `ConfigureProofs` | theorems about `Configure`, and that it implements `Activation` | TLAPS |
| `Activation` | what `Configure` promises its callers (abstract) | implemented by `Configure` |
| `Delivery` | `server.go` (one connection, result pump, shutdown), the forwarders of `main.go` | `MCDelivery` |
| `DeliveryProofs` | theorems about `Delivery`, and that it implements `Feed` | TLAPS |
| `Feed` | what a subscription promises a client (abstract) | implemented by `Delivery` |
| `Logins` | `client.go` (login, re-login), with the syncer, the mutator and `Test` as its callers | `MCLogins` |
| `LoginsProofs` | theorems about `Logins` | TLAPS |
| `Socket` | `server.go` (recovery, `Serve`, `Close`) | `MCServer` |
| `SocketProofs` | theorems about `Socket` | TLAPS |
| `Deltas` | `protocol.go` (`EncodeDeltas`, `EncodeSnapshotItem`) | `MCServer` |
| `Dashboard` | `dashboard.go` | `MCServer` |
| `Requests` | `protocol.go` (`parseFrame`), `profile.go`, the checks of `Configure` and of the start | `MCServer` |
| `ComputationProofs` | theorems about `Deltas`, `Dashboard` and `Requests` | TLAPS |
| `Overlays` | `MutationClient.js`, the handlers of `Panel.qml` | `MCOverlays` |
| `OverlaysProofs` | theorems about `Overlays` | TLAPS |

### Syncer

One action per section of `cycle` between two releases of the lock:
`WakeOnKick`/`WakeOnTimer` (capture of backend, epoch, rid), `LoginOK`/
`LoginFail`, `SyncOK`/`SyncFail` (the response and the building of the next
state), `Probe`, `Commit`, `Degrade`. `SwitchBackend`, `Subscribe`, `Deliver`
and `Unsubscribe` interleave with them. Rows carry the backend they came from
(`src`), and changes the state they lead to (`post`): history, not data. The
server is external: `sess` is what it has reported last, and it may answer with a
delta only when the request's rid names that report. A request fails because the
backend refuses a login (`rejected`), because the keyring gives no secret and
nothing is sent (`nosecret`), or otherwise; the first two count towards parking.
The variable `failed` counts the cycles of the epoch that failed so, independently
of the syncer's own counter. A re-login that fails inside a version probe is
counted by nobody here; how often the backend may refuse one in all is a question
for `Logins`. Timing is abstracted: the back-off timer may fire at once or not for
long.

### Mutator

`Submit`, `Validate`, `Register`/`TurnAway`/`Reject`, `CallOK`/`CallFail`,
`Return` are the critical sections of `Submit` and the backend call between
them; `ReadState`, `Settle`, `Publish` those of `reconcile`. `Deadline` ends a
window. The committed state is external: whatever the syncer may have
committed from its current client, or none. `BeginSwitch`, `SwitchSyncer`,
`CommitSwap`, `AbortSwitch` are the manager's calls. `reg` (which attempt each id
was given to) and `age` (records since a ref last ran) are history.

### Configure and Activation

Each call of the keyring, each step of the file system and each critical section
of `Configure` is an action: `BeginSwitch`/`Refused`, `ReadStore`, `ReadSecret`,
`Resolve`, `ApplySecret`, `CreateTemp`, `Rename`, `Build`, then `SwitchSyncer`,
`CommitManager`, `CommitSwap`; a failure goes through `UndoSecret`,
`UndoPresence`, `RemoveStore` or `RecreateTemp` and `RestoreStore`, to
`AbortSwitch`. Every external step may fail. `Crash` keeps the keyring, the
file and the temporary file; `Restart` is `main`. Around them run the startup
look-up of the secret (`RefreshGet`, `RefreshSet`), a reader of `Status` in its
two halves, the certificates that tests remember, and mutations.

`base` and `goal` (what the transaction started from and leads to) and `spoiled`
(what a failed rollback left wrong) are history. `Activation` says that each
request takes effect at one instant, as a whole, or not at all; the refinement
mapping `InForce` takes what a transaction has changed for unchanged until
`CommitManager`. The equality of `base` and the current values at `AbortSwitch`,
which makes the mapping work, is the invariant `RejectedIsInert`.

### Delivery and Feed

One connection and the goroutines that share it: `handle` (`Handshake`, `Query`,
`BadRequest`, `Subscribe` to `StartPump`, `Mutate`/`Submitted`, `Leave`), the delta
pump (`PumpTake`, `PumpSend`, `PumpEnds`, ...), the writer (`Write`, `WriteFails`,
`WriterEnds`), the pump of results (`PushResult`, `Drained`, `Rearm`) and the
two forwarders (`Forward`, `GiveUp`). A feed is the source's subscription channel,
the forwarder and its channel; each of the three bounded buffers of the chain may
overflow, with what the code then does. `sent` holds every frame ever enqueued
and `written` how many the writer took off, so the queue is what lies between;
`base`, `since` and `missed` are history, and so are the `part` and `last` of a
frame, which say where in its change it stands; the frame itself has no number.
`Feed` is about single frames: `Follows` says which frame may come after which, the
answer, each item of the snapshot, its end, each part of a change, the first part of
the next change. A client has received `Latest` as the `got`-th of its frames, so a
frame that is repeated, or left out in the middle of a snapshot or of a split
change, is no step of `Feed`.

### Logins

A process is the syncer's cycle, a mutation or a test; `job` says how far its
requests have come: the keyring (`GetSecret`), the login (`Login`, `Judge` is the
server's part of it), the request (`Request`, with the one retry in `Attempted`),
and what its caller makes of the end (`CycleFails`, `Degrade`, `CycleCommits`).
The daemon's clients fetch the password at each login and share one session per
client; a test has a client and a password of its own. `BeginTest` is the gate
of `Test`, looked at and stamped in one critical section, and the choice of the
password, including what the handler makes of an absent one (`AsBytes`) and what
`resolveSecret` would make of the stored one (`Resolved`).
`WriteSecret`, `Switch` and `Undo` are what a `Configure` does to the others. The
server is external: sessions expire, the password changes, it goes away with or
without having done what it was asked, and it counts rejections in a row.
`foreign` counts those that are not of this epoch's cycle, `runs` how often a
mutation was executed: both are history.

### Socket

Each system call of `recoverStaleSocket`, `Serve` and `Close` is a step of a
daemon; several daemons run on one path, may be killed anywhere and leave their
file behind. The accept loop holds one connection between `accept` and its entry
among the clients (`Accept`, `Admit`, `Handle`: the last one is the `wg.Add`
after the lock). A file is an inode number and its permissions, which decide
what a recovery may touch: a socket that is bound but not yet usable has others.

### Deltas

`EncodeDeltas` one row at a time: `SplitChanged`, `SplitRemoved`, `LastFlush`, at the
real numbers. `size` is what the code's budget counts, `wire` what
`json.Marshal` would make of the buffered rows: the two differ by the frame, the
commas and the quotes. `FrameItem` is the halving of a name in a snapshot item.

### Dashboard

`Aggregate` is a pass over a map in an order nobody chooses (`Count` takes any
unread torrent), and a sort (`Rank`). The sort is taken by its contract: some
rearrangement in which nobody stands before one that is less. `Top` is the largest
integer, so that the sums of a few rows exceed it. Sizes, completed bytes and speeds
are any of the integers, since nothing checks what the backend sends; `Negated` is
the negation of Go, which leaves the least integer as it is. The reference,
`AggregateIsTrue`, says what a sum over a set is without an order to add in, as the
size of the set of all units (`SumOf`). What remains is such a sum, cut once. A sum of
positive and negative numbers that is cut underway depends on the order of the
pass; `SaturatedSum` bounds it by what its gains and its losses alone would be cut
to, which makes it exact whenever neither exceeds an integer or there is only one
of the two. The list holds the first of the torrents with traffic, as many as the
cap allows and in their order.

### Requests

A frame is its type, its set of keys and the values the rules look at. `Parse` is
the grammar, `Configure` the checks between the request and the transaction,
what comes into force and what is stored, `Load` the start from the stored profile
or from `service.json`. `GrammarIsExact` compares the parser's refusals with the
table of `docs/IPC.md`; `EndpointIsJudged` relates what was judged, what is in
force and what a restart loads.

### MCServer

`Socket`, `Deltas`, `Dashboard` and `Requests` share no state. `MCServer` puts them
side by side: its variable `part` picks one at the start, which then runs alone,
so that the states of the run are their sum and not their product.

### Overlays

`pending` has an overlay per torrent, `early` the results of mutations not known
yet, `rq` the one request in flight. The handlers are those of the panel:
`Request` (a click), `OnAccepted`, `OnRejected`, `OnResultResponse`, `OnResultPush`,
`Watchdog`, `Reset`. The daemon is external and does what `Mutator` and
`Delivery` say of it: it registers and answers in turn (`Register`, `Accept`,
`Refuse`, `Replay`), settles in any order, before or after the answer, tells the
results of other clients too (`Foreign`), and may lose a push (`Settle`) while the
result pump resubscribes.

## 3. The runs

| Run | Bounds | Shows |
|---|---|---|
| `syncer_safety` | 2 backends, 2 hashes, 2 values, 1 subscriber with 2 slots, 3 generations | the safety of the syncer |
| `syncer_switch_served` | 2 backends, 1 row, 3 generations | a switch gets an outcome without the timer |
| `mutator` | 2 handlers, 1 ref, 2 attempts, ring of 1, 2 mutations, 1 switch | nothing is pending across a switch; replay and reuse of a ref; single results; every pending settles, with an outcome |
| `mutator_retarget` (violation) | 2 handlers, 2 refs, 1 switch | see section 6 |
| `configure_race` | 2 handlers, the 2 intents that write the secret, 2 activations | the three parts agree between transactions; every call returns; `Configure` implements `Activation` |
| `configure_crash` | 1 handler, 4 intents, 2 secrets, 1 pin and a cache of 1, 2 activations, 1 crash, failing rollbacks | rejection is inert, restart resumes |
| `delivery_feed` | channels of 1, a queue of 1, 2 changes in up to 2 frames, 2 results, 2 requests | `Delivery` implements `Feed`, frame by frame; no result is lost inside the server |
| `delivery_ends` | a queue of 2, 2 changes, 1 result, 2 requests | changes arrive or the connection ends; no goroutine or subscription leaks; the client sees the end unless a write failed; `Close` returns |
| `logins` | the cycle, 1 mutation, 2 tests, 2 passwords, 1 tick, 1 switch, 1 trouble, latch after 2, ban after 5 | answers are true, the syncer stays below the ban, tests are paced |
| `stored_password` (violation) | the same with 1 test, latch after 3 | see section 6 |
| `server` | sockets: 2 daemons, 3 files, 2 connections of which 1 may be served; frames: up to 3 rows and 3 removals, the real budget; dashboard: 3 torrents of 8 kinds, integers from -8 to 7, a list of 2; requests: every set of 12 keys, 1350 URLs | recovery and `Close`; frames fit and hold everything; sums and order; what is judged is in force |
| `panel` | 2 torrents, 3 actions, 2 attempts, 1 foreign mutation, 1 early result, 1 lost push, 1 lost connection | overlays end with their own outcome, and do end |

Why these bounds are enough to be interesting. Syncer: three generations hold a
commit, a switch and a commit of the next backend, with a subscriber whose
channel overflows in between; the latch threshold is the code's own. Mutator:
two handlers are what a duplicate needs; a ring of one turns over with two
outcomes; one switch is enough for a handler to sleep over a whole
one, and to leave a pending behind if the drain let it.
Configure: two handlers are a winner and a loser; two activations let a second
transaction run after the first, from its profile; the intents of the race
are those whose failure has everything to undo, the other run has all four.
Delivery: buffers of one element overflow with two
changes, and two requests put a subscription and a mutation on one connection,
in either order. Logins: the ban after five is the server's, the latch closes
after two failures in the safety run and after the code's three in the other (the
proofs hold for every threshold); the cycle alone reaches the latch, and with the
mutation's re-login and the tests the ban; two tests race for the gate in one
window and in two.
Server: two daemons are a victim and a recoverer, three files are the stale one,
the next and the one after; rows just below and above the budget, with
names that are cut at 512 runes, and removals that fill the rest of a
frame; torrents whose sums pass the largest integer in two steps, and sizes and
completed counts that are negative, the least integer among them. Panel: two attempts on one torrent with a foreign result between them
turn a buffer of one over; a push can be lost before or after the query.
Symmetry is used in safety runs only, on sets whose members no definition singles
out.

Bounds that do not exist in the code are constants of their own, named
in the modules and looked at only by guards: `MaxGen`, `RidSpan` (the rids of one
session), `MaxMut`, `MaxEpoch`, `MaxCrash`, `MaxSeq`, `MaxRes`, `MaxReq`, `MaxParts`,
`MaxNow`, `MaxEnv`, `MaxFile`, `MaxRows`, `MaxMine`, `MaxForeign`, `MaxLost` and
`MaxResets`. `UndoFails` says whether best-effort
rollbacks may fail; it is false only in the run that checks the refinement, whose
statement needs them to succeed.

Deadlock is checked for the syncer, the mutator and the manager, which never stop.
It is not for `Delivery`, which stops after `Close` or when a connection has
ended and nothing is published any more; for `Logins`, once the handlers have
been served, time is used up and the syncer is parked; for `MCServer`, whose
computations end and whose daemons run out of files; and for `Overlays`, at rest
when its attempts are used up.

### Fairness

*Syncer* (`FairSpec`): a cycle that has begun continues, because each request has a
timeout, and a pending kick is received, because `Run` waits for nothing else
for ever. Nothing is assumed of the timer, whose back-off reaches ten minutes.
*Mutator*: the ticker of `Run` keeps reconciling; a backend call ends by its
timeout; the clock ends windows. *Configure*: a handler's steps come back, since
`opTimeout` and the file system bound them; they may come back with errors.
Nobody is assumed to start a request, to make a mutation end, to succeed or to
crash. The run has `MaxCrash = 0`: a crashed daemon answers nobody.
*Delivery*: goroutines run, writes end by their deadline of 5 s, a snapshot by
its 30 s, `Submit` by its timeout. A client may stay connected for ever, and is
only assumed to be read from (a request, or the idle timeout of 30 s) once its
connection is torn down or its socket closed. Writes may fail or succeed.
*Overlays*: the daemon answers (its own timeouts) and settles what it has accepted
(`Settles` of `Mutator`), frames that were written arrive, the delay of the
watchdog passes and the watchdog runs (a repeating `Timer`). Nothing is assumed
of clicks, of other clients, of lost pushes or of lost connections.
`Logins`, `Socket`, `Deltas`, `Dashboard` and `Requests` are checked for safety only.

## 4. What is proved

Each `...Proofs` module holds for every value of the constants that satisfies the
assumption of its module: every set of backends, hashes, handlers, refs, requests,
daemons, connections or torrents, every capacity, ring size, budget and threshold,
and every bound that only keeps the runs finite. The assumptions
(`SyncerAssumption`, `MutatorAssumption`, ...) ask for distinct markers, sizes that
are numbers, and positive ones where the code has a capacity or a threshold. Two
say a little more: two responses in a row have different rids (`RidSpan` is not 1),
and the budget of a frame leaves room for what it does not count (see *Deltas*).
`Socket` wants one daemon. TLC evaluates the assumptions in every run.

Each proof has the same shape: the properties follow from an invariant that every
action keeps, with a step for each action. What makes the invariants longer than
the properties is what the code relies on between two sections.

**Syncer.** `TypeCorrect`, `OnlyCurrentBackend`, `Parking`,
`StaleInert`, `KeepsLastKnownGood`, `DeltasHaveTheirBase`, `CommitsTheReport`,
`NoChangeIsLost`. The inductive invariant is
`TypeOK /\ AuthInv /\ CycleInv /\ CurrentBackendOnly`. `CurrentBackendOnly` is not
inductive by itself, since a commit publishes what a cycle has in its locals:
`CycleInv` says that while the cycle's epoch is the current one its client is the
current client and what it holds came from it. `AuthInv` relates the latch to the
counter, and `CountInv` the counter to the failures of the epoch's own cycles: it is
never behind them and ahead by at most one, a cycle of the old epoch. On them build
`ReplayInv` and `FollowInv`. `ReplayInv` compares the committed rows with those the
server will compute the next delta against: they are the same when a request is
sent with a rid; an answer that waits for its commit is what the server keeps, and
when one is lost the server is a response ahead, so that the rid no longer names
its last report. `FollowInv` adds to `SubscribersFollow` that every change in a
channel was made of rows of one backend, and that a subscription starts empty.

**Mutator.** `TypeCorrect`, `NoOrphans`, `Capped`, `SingleResult`, `OwnAnswers`,
`NoSecondRun`, `NothingVanishes`. The first invariant is
`TypeOK /\ CodeInv /\ NeverOrphaned /\ CapOnPendings`, where `CodeInv` says which
locals a handler has at each of its steps. On it build: `IdInv`, that the ids of
pendings and results are distinct and were given out (for `SingleResult`);
`OwnInv`, that every id in a pending, a record, a result or a handler belongs to
the attempt it was given to (for `OwnAnswers`); and `RecentInv`, that a ref
which ran less than `RingSize` records ago is pending, about to be recorded, or
still in the ring (for `NoSecondRun`: the ring cannot have lost it).

**Configure.** `TypeCorrect`, `ClientsAgree`, `FileIsActive`, `FailureUndoesAll`,
`NothingComesBetween`, `FlagIsTrue`, `RestartTakesUp`, from one invariant. Its
centre is `DrainInv`: the drain is held exactly while some handler is between
`BeginSwitch` and the end, by that one, and without a mutation in flight. Because it
is alone, `TxnInv` can say what a handler knows and has done at each step:
what it has read is what the transaction started from, the keyring and the file
are still that or are already what the transaction leads to, according to the
code's own flags (`secretMutated`, `storeMutated`), but for a rollback that failed.
`PartsInv` says who of manager, syncer and mutator is ahead at which step; `DiskInv`
that the disk is never without the profile in force; `PresenceInv` and `TempInv`
the same of `has_secret` and the temporary file. `Crash` can then come at any step.
`ConfigureIsAtomic` is the refinement of `Activation`: under `MaxCrash = 0` and
rollbacks that succeed, each action is a step of `Activation` on
`InForce` and the calls, or none. Both hypotheses are needed: after a crash nobody
answers the caller, and a failed rollback leaves half of a request in force, which
the code accepts (section 5).

**Delivery.** `TypeCorrect`, `FeedRefined`, `ResultsArrive`. `FeedRefined` is the
refinement of `Feed`. Its invariant follows a change from the source to the socket,
in terms of `Follows` throughout. `SentInv` says that each frame of the feed that was
enqueued follows the one enqueued before it; `HandInv` that what the pump has in
hand follows the last of these, part by part, and `StageInv` the same of the rest of
the snapshot that `handle` is sending. `ChainInv` says that the two channels before
them go on with the next change and, while nobody was dropped, reach to the last
one. Since a write takes the next frame off the queue, the frames written follow each
other, too, whatever the writer's pace, and their number grows by one
(`FeedStep`). `ResultsArrive` has the same
chain for results: `OrderInv` orders queue and channels, `ForwarderInv` says that a
forwarder that gave up has left nothing behind, and `AccountInv` that each result
since the first mutation request is in the chain, in `sent`, or among the `missed`.

**Logins.** `TypeCorrect`, `OutcomesAreTrue`, `BudgetKept`, `OneRejectionPerWindow`.
`LatchInv` says that a cycle under way has found the latch open, which is why the
counter stops at the threshold. `CallsInv` says that a mutation that has no
answer yet has not been executed. `BudgetInv` bounds the cycles' share of the rejections
in a row by the counter, the rejection about to be counted, and two in probes of the
versions, whose failures do not count: a probe begins with a session, so the second one
is possible only after someone has opened a session in between. `PaceInv` charges each
test that may yet be rejected to the window of its stamp.

**Socket.** `NoneIsLeftBehind`, `OnlyTheDeadIsRemoved`, `ServerIsReached`,
`OneServes`. The first needs only that the sets of clients are finite. For the
second, `BinderInv` says that a socket is bound by one daemon and gets its
permissions from that one, unless a `chmod` by path went `astray`, and `DeadInv`
that a file with permissions on which nobody was heard stays dead, since whoever
is about to listen has bound another. The last two hold while starts and stops do
not overlap: then at most one daemon is between probe and publication, and it is
alone (`AloneInv`), with its own file at the path (`PlaceInv`).

**Deltas.** `EveryFrameFits`: no frame is longer than `MaxFrame`, however many rows
a change has. The budget counts neither the frame around the rows nor the
commas between them, so the invariant bounds those by the rows themselves:
`LeastRow * (wire - DeltaFrame - size) <= size <= Budget`. Each comma follows a row
that cost at least `LeastRow`, and a removal is counted with more than it takes. The
assumption `DeltaFrame + Budget + Budget \div LeastRow <= MaxFrame` is then what is
needed, and at the code's numbers it holds with 183 bytes to spare.
`FramesHoldAll`: what was encoded is all there, in its order. The frames are stated
to be the list cut into pieces (`Pieces`: each frame holds what lies between two
cuts) and not as a concatenation, which would be a recursion; `LossInv` says that at
every row the frames made are the first rows cut into pieces, then come those in
preparation, then those `left`.

**Dashboard.** `TheDashboardIsTrue`, `SortEnds`. `DashInv` says of the torrents
read so far what `AggregateIsTrue` says of all: totals, counts, and candidates that
are each busy torrent once. A step adds one torrent to either side, so the proof
needs no induction over the set: that a sum grows by the units of one more
(`SumOfOneMore`), that a sum of what is not negative cut at every step is the sum cut
once (`CutTwice`, for what remains), that a sum with either sign stays between its
two bounds under a cut at either end (`BoundsHold`), and that a speed cut at either
end still orders as the speeds do. At the end, an element of the sorted list has as many before it as
its place says, by the bijection between places and hashes. `SortEnds` says that the
contract of the sort can always be met, that is that the model never stops there: the
order is total and strict, so the number of those that come before a candidate
is a place of its own.

**Requests.** `RefusesTheRest`, `TheGrammarIsExact`, `TheEndpointIsJudged`,
`StartsOnWhatItSaved`. `RefusesTheRest` is about any frame (`AnyFrame`), while
the run takes only part of the product of keys, URLs and values; the proof goes type
by type, and turns each list of forbidden keys into the list of those allowed.
`JudgedInv` says that what is in force has consent if it needs it, and that what
`Configure` has written is the normalized URL of what it has judged and valid. What
remains is that normalising twice is normalising once (`NormalizedOnce`, for
every URL) and, but for a bare port, does not change what is loopback (`JudgedOnce`).
That the file is valid holds for a bare port too, so the daemon always starts on
what it saved.

**Overlays.** `TypeCorrect`, `OverlaysFollow`. The difficulty is a result that comes
before its answer. `OverlayInv` says that an overlay without an id is that of the
request in flight, `OnceInv` that a mutation is told once to a session, and
`BufferInv` that what lies behind in the buffer was told later; so what is told
before its answer is in the buffer or has been pushed out by others told later, and
nobody is tied to a result the session could still remember (`MemoryInv`). An
`add` the watchdog has asked about is the exception, and has no torrent to mark.

The type invariants and `CapOnPendings` are proved and in no run's list.

Only model-checked is liveness (`SwitchIsServed`, `Settles`, `Answered`,
`ReachesOrEnds`, `NothingLeaks`, `EndIsSeen`, `OverlaysSettle`), since fairness and `ENABLED` are
outside what TLAPS proves. Every other property of a run is a theorem.

## 5. Abstractions, and what is not modelled

* Names, sizes, speeds and progress of torrents are one value per row (except in
  `Deltas` and `Dashboard`, which are about them). Wording,
  logging, HTTP and JSON are left out; a request or a payload that does not
  decode is one way for an operation to fail.
* Failures have the classes the control depends on: in the syncer those that
  count towards the latch and the others; in `Logins` those that are retried, that
  count, or that leave the outcome open; elsewhere success and failure.
* A `Store` or `Delete` of the secret that fails has changed nothing: the code
  documents this assumption (`manager.go:675`) and does not undo such a call.
* A rollback of the file that fails (`manager.go:812`) leaves the rejected profile
  for the next start. `spoiled` records it, and `PersistedIsActive` and
  `RestartResumes` except it.
* The removal of a temporary file and the fsync of its directory succeed.
* `Configure` requests that phase A refuses change nothing and are not received by
  the transaction; `Requests` has them.
* In `Delivery` what a goroutine holds between a receive and a non-blocking send
  counts as still in the channel, and both kinds of source have channels of one
  capacity; other connections are left out, since each has a queue of its own.
* In `Socket` no other program touches the path, and an inode number is not used
  again. In `Overlays` the daemon forgets no ref; the ring is in `Mutator`.
* Not modelled, since nothing changes state there: the choice of the endpoint by
  the API version and the parsing of magnet links (mutator), the TLS probe and the
  codes of its errors (manager), the characters of host names and paths and the
  parsing of certificates (profile), the JSON reader and the layout of
  responses (frames), the HTTP requests and the decoding of maindata (client),
  the decoding of `service.json`. They are pure functions on text, which the
  repository's unit tests and fixtures reach better than a model checker.
* Not modelled at all: the looks of panel, bar and dashboard, `ot-probe`, tools,
  assets and packaging, which have no behaviour over time of their own. The
  read-only sides of panel and bar rely on what `Feed` promises.

## 6. Where the documents and the code differ

Two runs end with a counterexample:

* `mutator_retarget`: `Submit` checks only that no drain is under way *now*, so a
  request validated before a whole switch registers after it and runs against
  the new backend.
* `stored_password`: the server's handler turns an absent password into an empty
  one (`server.go:570`), which is not nil, and `resolveSecret` never comes to
  the stored one. The client refuses the empty one itself (`client.go:302-304`,
  `NoSecret`): nothing is sent, and the test is answered as one whose credentials
  are unavailable. Were the case of the stored secret reached, it would not work
  either: `resolveSecret` wipes the secret when it returns (`manager.go:521`), and
  its fetcher copies what is left of it only later. `Resolved` says so (`Wiped`);
  the test that covers the case (`manager_test.go:324`) stores a wrong password
  and expects the refusal it would get anyway.

The last sections of the modules state more sentences of the documents and the
comments. No run of the project asks for them, but TLC refutes each one on an
instance of the same module (those of `Mutator` on `MCMutatorRetarget.cfg`, those
of `Configure` on `MCConfigureCrash.cfg`):

* `ParkingIsEarned` (`Syncer`): `noteAuthFailure` counts a failure without
  looking at the epoch (`syncer.go:533`), although its comment says the counters
  are epoch-scoped; so the latch may hold after one failure less of the new
  epoch, which is what `ParksInTime` allows for.
* `SaysWhyItParked` (`Syncer`): the parked state carries
  `errors.New(ErrClassBadCredentials)` (`syncer.go:379`), which classifies as an
  unexpected error, whatever had failed, where ADR-0008 (lines 158-161) promises `auth_failed`.
* `ClosesTheSocket` (`Delivery`): after a failed write nobody closes the socket
  (`server.go:871`): the writer returns, `teardown` leaves the socket to it, and
  `Close` no longer finds the connection. `docs/IPC.md:163` says that the
  connection is closed. `EndIsSeen` has this one exception.
* `NoSwitchDuringCall`, `CapOnCalls` (`Mutator`): `reconcile` may settle a mutation
  whose call is still running; then a switch can begin during the call, and more
  calls than the cap allows can run.
* `ConfirmedWithinWindow` (`Mutator`): `reconcile` may confirm a mutation from a
  state older than its registration.
* `ReplayAnswersTheResult` (`Mutator`): the recorded refusal of a concurrent
  duplicate shadows the recorded result in replays.
* `HasSecretIsTrue` (`Configure`): the startup look-up can overwrite `has_secret`
  with what it read before a transaction.
* `NeverHalfApplied` (`Configure`): a crash between the write of the secret and the
  write of the profile leaves one of each.
* `DeltaLikeSnapshot` (`Deltas`): a torrent whose name makes its row longer than
  the budget is shown by a snapshot, which halves the name, and fails as a delta,
  which does not.
* `SwappedSocketStays` (`Socket`): a recovery removes by path, after the second
  look; a socket that another daemon has put there since goes.
* `CrashIsRecovered` (`Socket`): a crash between bind and chmod leaves a socket of
  mode 0700, which no start recovers. Also, chmod goes by path, and may set the
  permissions of another daemon's socket (`astray`).
* `CloseWaits` (`Socket`): the accept loop adds to the wait group after it has let
  go of the lock, so `Close` may return before a handler it did not see begin;
  its client is closed all the same (`NoClientAfterClose`).
* `RemainingIsNeverNegative` (`Dashboard`): `Aggregate` compares before it subtracts,
  so that a completed count above the size, or a negative size, never makes the
  remaining bytes negative, as `dashboard.go:91-94` and its test promise; but a
  completed count of `math.MinInt64` is negated to itself (line 96), passes the
  comparison if the size is larger, and takes bytes away from the total.
  `TotalsOf` excepts that count from what it says of the remaining bytes.
* `EveryEndpointIsJudged` (`Requests`): a URL with a bare port (`http://localhost:`)
  gets a second colon when it is normalised; it is judged as a loopback one, the
  stored text is another endpoint, which the next start judges again.
* `EveryOverlayEnds` (`Overlays`): the watchdog asks once. If the result is lost or
  evicted after that, the overlay stays until the connection ends.

`RejectionBudget` is what remains of "below five attempts" (`docs/SECURITY.md:59`):
the cycles of an epoch add at most `StickyAuthFails` rejections that count, and two
in probes of the versions that do not, the second one if a mutation's re-login has
opened the session again in between. With the code's numbers that is five, exactly
the ban. It takes more troubles than the run's one to get there; the proof covers
every number of them. Besides, the re-logins of mutations are counted nowhere, and
five tests fit into 25 seconds, so the address can be banned by others than
the cycle.

Two totals of the dashboard, of sizes and of completed bytes, may depend on the
order of the map where numbers of both signs are so large that a sum underway is
cut (`SaturatedSum`). No document says otherwise: "deterministic" is said of the
list.

## 7. Plan

Done: all modules of section 2, with the proofs of section 4. Left is

* `Switch`: the composition of `Syncer`, `Mutator` and `Configure` at the calls they
  make, which would discharge the assumption each of the three makes of the others
  (the mutator's committed state, the manager's drain). `Logins` has its most
  interesting part, the requests of the old client during a transaction.
