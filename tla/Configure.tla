------------------------------ MODULE Configure ------------------------------
(***************************************************************************)
(* The connection manager (internal/connection/manager.go, store.go): the  *)
(* transaction by which a handler activates a profile.  It changes, one    *)
(* after the other, the keyring, the profile on disk, the syncer, the      *)
(* manager and the mutator; it may fail at any of them; the daemon may     *)
(* crash between any two.                                                  *)
(*                                                                         *)
(* Each call of the keyring, each step of the file system and each         *)
(* critical section is an action.  Around the transactions run the startup *)
(* goroutine that looks whether a secret is stored, a reader of the        *)
(* status, the tests that fill the cache of offered certificates, and the  *)
(* mutations that forbid a switch.                                         *)
(*                                                                         *)
(* Abstractions: a request that fails phase A (pure validation) changes    *)
(* nothing and is not received at all; a profile is its origin and its pin *)
(* (NoPin: the system's roots), and the client built for it is named by    *)
(* it; of the mutations in flight only whether there is one.               *)
(***************************************************************************)
EXTENDS Naturals, Sequences, FiniteSets

CONSTANTS
  Handler,     \* connection handlers: each has one Configure under way
  Origin,      \* backend URLs
  Pin, NoPin,  \* certificate fingerprints
  Secret, NoSecret,
  NoFile,      \* connection.json does not exist
  Fallback,    \* the profile without connection.json
  Request,     \* what the settings form sends, past phase A
  OfferedCap,  \* certificates remembered (offeredCacheCap)
  MaxEpoch,    \* bound: activations in one life of the daemon
  MaxCrash,    \* bound: crashes in a behaviour
  UndoFails    \* whether the best-effort rollbacks may fail

Profile == [origin : Origin, pin : Pin \cup {NoPin}]
Actions == {"keep", "replace", "delete"}

ASSUME ConfigureAssumption ==
  /\ NoPin \notin Pin /\ NoSecret \notin Secret /\ NoFile \notin Profile
  /\ Fallback \in Profile
  /\ Request \subseteq {r \in [origin : Origin, pin : Pin \cup {NoPin},
                                action : Actions, secret : Secret \cup {NoSecret}] :
                          r.action = "replace" => r.secret \in Secret}
  /\ OfferedCap \in Nat \ {0} /\ MaxEpoch \in Nat /\ MaxCrash \in Nat
  /\ UndoFails \in BOOLEAN

VARIABLES
  up, crashes,      \* whether the daemon runs; how often it has crashed
  ring, file, tmp,  \* the stored secret, connection.json, the temporary file
  mgr,              \* Manager: profile, epoch, client, hasSecret
  offered,          \* Manager: the cached certificates, oldest first
  syn,              \* the syncer: its client and epoch
  mut,              \* the mutator: its client, draining, and whether a
                    \* mutation is in flight
  txn,              \* each handler's progress through Configure
  refresh,          \* the startup goroutine, what it has read, and (history)
                    \* whether the secret was written before it used it
  view,             \* a reader of the status and what it has read
  base,             \* history: what the transaction under way started from
  goal,             \* history: and what it is to lead to
  spoiled           \* history: what a failed rollback has left wrong

disk  == <<ring, file, tmp>>
hist  == <<base, goal, spoiled>>
vars  == <<up, crashes, disk, mgr, offered, syn, mut, txn, refresh, view, hist>>

-----------------------------------------------------------------------------
(* Data.                                                                   *)

Steps == {"begin", "file", "snapshot", "resolve", "secret", "create", "rename", "build",
          "syncer", "manager", "swap", "undo", "presence", "recreate", "restore", "abort",
          "answer"}

Codes == {"ok", "mutations_pending", "storage_error", "secrets_unavailable", "pin_unknown",
          "invalid_url"}

\* The locals of Configure: prevSecret, beforeBytes, secretMutated,
\* storeMutated, and the code fail was called with.
Locals == [pc : Steps, req : Request, prev : Secret \cup {NoSecret},
           before : Profile \cup {NoFile}, secretMutated : BOOLEAN,
           storeMutated : BOOLEAN, code : Codes]
Idle   == [pc |-> "idle"]

\* What a connection is: the active profile, the file it survives a
\* restart in, and the stored secret.
Conns == [profile : Profile, file : Profile \cup {NoFile}, secret : Secret \cup {NoSecret}]

ProfileOf(r) == [origin |-> r.origin, pin |-> r.pin]

\* What a request makes of the stored secret, and of the connection.
SecretAfter(old, r) == CASE r.action = "keep" -> old
                         [] r.action = "replace" -> r.secret
                         [] r.action = "delete" -> NoSecret
Outcome(c, r) == [profile |-> ProfileOf(r), file |-> ProfileOf(r),
                  secret |-> SecretAfter(c.secret, r)]

Current == [profile |-> mgr.profile, file |-> file, secret |-> ring]

\* Mutant of LoadActive: service.json has precedence.
FallbackFirst == Fallback

\* LoadActive: the persisted profile, or the fallback.
LoadActive == IF file = NoFile THEN Fallback ELSE file

\* The manager, the syncer and the mutator as main builds them.
NewManager(p) == [profile |-> p, epoch |-> 0, client |-> p, hasSecret |-> FALSE]
NewSyncer(p)  == [client |-> p, epoch |-> 0]
NewMutator(p) == [client |-> p, draining |-> FALSE, busy |-> FALSE]
Unread        == [half |-> FALSE, epoch |-> 0, of |-> 0]
Starting      == [pc |-> "get", found |-> FALSE, raced |-> FALSE]

At(h, pc) == up /\ txn[h].pc = pc

\* The handler goes to another step, or changes its locals and goes there.
To(h, pc)       == txn' = [txn EXCEPT ![h].pc = pc]
With(h, l)      == txn' = [txn EXCEPT ![h] = l]

-----------------------------------------------------------------------------
(* Failure: what `fail' undoes, in its order, before the deferred          *)
(* AbortSwitch.                                                            *)

\* Mutant of AfterSecretUndo: the file stays as it is.
FileForgotten(l) == "abort"

\* The step after the rollback of the secret.
AfterSecretUndo(l) == IF l.storeMutated THEN "recreate" ELSE "abort"

\* Mutant of Undoing: the secret stays as it is.
SecretForgotten(l, code) == [l EXCEPT !.pc = AfterSecretUndo(l), !.code = code]

\* Where a failure leads: rollbackSecret first, if the secret has changed.
Undoing(l, code) ==
  [l EXCEPT !.pc = IF l.secretMutated THEN "undo" ELSE AfterSecretUndo(l), !.code = code]

\* fail(code), for a handler whose locals are l.
Fail(h, l, code) == With(h, Undoing(l, code))

-----------------------------------------------------------------------------
(* Phases A to D.                                                          *)

\* A request arrives and passes phase A. The bound on the epochs is here.
Receive(h) ==
  /\ up /\ txn[h] = Idle
  /\ mgr.epoch + Cardinality({g \in Handler : txn[g] # Idle}) < MaxEpoch
  /\ \E r \in Request :
       With(h, [pc |-> "begin", req |-> r, prev |-> NoSecret, before |-> NoFile,
                secretMutated |-> FALSE, storeMutated |-> FALSE, code |-> "ok"])
  /\ UNCHANGED <<up, crashes, disk, mgr, offered, syn, mut, refresh, view, hist>>

\* Mutant of MaySwitch: another switch under way is not looked at.
Unserialized == ~mut.busy

\* BeginSwitch refuses during another switch or while a mutation is pending.
MaySwitch == ~mut.draining /\ ~mut.busy

BeginSwitch(h) ==
  /\ At(h, "begin") /\ MaySwitch
  /\ mut' = [mut EXCEPT !.draining = TRUE]
  /\ To(h, "file")
  /\ base' = Current
  /\ goal' = Outcome(Current, txn[h].req)
  /\ UNCHANGED <<up, crashes, disk, mgr, offered, syn, refresh, view, spoiled>>

\* The loser of a race, and a switch during a mutation, leave no trace.
Refused(h) ==
  /\ At(h, "begin") /\ ~MaySwitch
  /\ With(h, [txn[h] EXCEPT !.pc = "answer", !.code = "mutations_pending"])
  /\ UNCHANGED <<up, crashes, disk, mgr, offered, syn, mut, refresh, view, hist>>

\* The raw bytes of the persisted profile: the rollback target.
ReadStore(h) ==
  /\ At(h, "file")
  /\ \/ With(h, [txn[h] EXCEPT !.pc = "snapshot", !.before = file])
     \/ Fail(h, txn[h], "storage_error")
  /\ UNCHANGED <<up, crashes, disk, mgr, offered, syn, mut, refresh, view, hist>>

\* `keep' never touches the keyring.
ReadSecret(h) ==
  /\ At(h, "snapshot")
  /\ \/ txn[h].req.action = "keep" /\ To(h, "resolve")
     \/ txn[h].req.action # "keep" /\ With(h, [txn[h] EXCEPT !.pc = "resolve", !.prev = ring])
     \/ txn[h].req.action # "keep" /\ Fail(h, txn[h], "secrets_unavailable")
  /\ UNCHANGED <<up, crashes, disk, mgr, offered, syn, mut, refresh, view, hist>>

\* A pin needs its certificate: cached by a test, or that of the active profile.
Trusted(pin) ==
  \/ pin = NoPin
  \/ pin \in {offered[i] : i \in 1..Len(offered)}
  \/ pin = mgr.profile.pin

Resolve(h) ==
  /\ At(h, "resolve")
  /\ IF Trusted(txn[h].req.pin) THEN To(h, "secret") ELSE Fail(h, txn[h], "pin_unknown")
  /\ UNCHANGED <<up, crashes, disk, mgr, offered, syn, mut, refresh, view, hist>>

-----------------------------------------------------------------------------
(* Phase E: the keyring and the file.                                      *)

\* History: what the startup goroutine has read is out of date.
Outdates == refresh' = [refresh EXCEPT !.raced = @ \/ refresh.pc = "set"]

\* A Store or Delete that fails is taken to have changed nothing.
ApplySecret(h) ==
  /\ At(h, "secret")
  /\ \/ txn[h].req.action = "keep" /\ To(h, "create") /\ UNCHANGED <<ring, refresh>>
     \/ /\ txn[h].req.action # "keep"
        /\ ring' = SecretAfter(ring, txn[h].req)
        /\ With(h, [txn[h] EXCEPT !.pc = "create", !.secretMutated = TRUE])
        /\ Outdates
     \/ /\ txn[h].req.action # "keep"
        /\ Fail(h, txn[h], "secrets_unavailable")
        /\ UNCHANGED <<ring, refresh>>
  /\ UNCHANGED <<up, crashes, file, tmp, mgr, offered, syn, mut, view, hist>>

\* SaveStoreRaw creates its temporary file exclusively: one that is there
\* already is an error, and is left there.
CreateTemp(h) ==
  /\ At(h, "create")
  /\ \/ ~tmp /\ tmp' = TRUE /\ To(h, "rename")
     \/ Fail(h, txn[h], "storage_error") /\ UNCHANGED tmp
  /\ UNCHANGED <<up, crashes, ring, file, mgr, offered, syn, mut, refresh, view, hist>>

\* Mutant of Cleanup: an error leaves the temporary file behind.
LeftBehind == TRUE

\* What an error after the creation leaves of the temporary file.
Cleanup == FALSE

\* It writes, syncs and renames, or cleans up after an error.
Rename(h) ==
  /\ At(h, "rename")
  /\ \/ /\ file' = ProfileOf(txn[h].req)
        /\ tmp' = FALSE
        /\ With(h, [txn[h] EXCEPT !.pc = "build", !.storeMutated = TRUE])
     \/ tmp' = Cleanup /\ Fail(h, txn[h], "storage_error") /\ UNCHANGED file
  /\ UNCHANGED <<up, crashes, ring, mgr, offered, syn, mut, refresh, view, hist>>

\* Mutant of Order: the manager is ahead of the syncer.
ManagerFirst == <<"manager", "syncer", "swap", "answer">>

\* The order of the activation: the release of the drain is its last step.
Order == <<"syncer", "manager", "swap", "answer">>

After(pc) == Order[1 + CHOOSE i \in 1..3 : Order[i] = pc]

\* A client whose trust material does not parse cannot be built.
Build(h) ==
  /\ At(h, "build")
  /\ To(h, Order[1]) \/ Fail(h, txn[h], "invalid_url")
  /\ UNCHANGED <<up, crashes, disk, mgr, offered, syn, mut, refresh, view, hist>>

-----------------------------------------------------------------------------
(* Phase E: activation.                                                    *)

SwitchSyncer(h) ==
  /\ At(h, "syncer")
  /\ syn' = [client |-> ProfileOf(txn[h].req), epoch |-> syn.epoch + 1]
  /\ To(h, After("syncer"))
  /\ UNCHANGED <<up, crashes, disk, mgr, offered, mut, refresh, view, hist>>

\* Mutant of Presence: the flag is not updated with the activation.
PresenceForgotten(r) == mgr.hasSecret

\* hasSecret after the activation of r.
Presence(r) == CASE r.action = "replace" -> TRUE
                 [] r.action = "delete" -> FALSE
                 [] r.action = "keep" -> mgr.hasSecret

CommitManager(h) ==
  /\ At(h, "manager")
  /\ mgr' = [profile |-> ProfileOf(txn[h].req), epoch |-> mgr.epoch + 1,
             client |-> ProfileOf(txn[h].req), hasSecret |-> Presence(txn[h].req)]
  /\ To(h, After("manager"))
  /\ spoiled' = IF txn[h].req.action = "keep" THEN spoiled \ {"file"} ELSE {}
  /\ UNCHANGED <<up, crashes, disk, offered, syn, mut, refresh, view, base, goal>>

CommitSwap(h) ==
  /\ At(h, "swap")
  /\ mut' = [mut EXCEPT !.client = ProfileOf(txn[h].req), !.draining = FALSE]
  /\ To(h, After("swap"))
  /\ UNCHANGED <<up, crashes, disk, mgr, offered, syn, refresh, view, hist>>

-----------------------------------------------------------------------------
(* Rollback, best effort: an error is logged, and the rest goes on.        *)

\* rollbackSecret: the keyring first.
UndoSecret(h) ==
  /\ At(h, "undo")
  /\ \/ ring' = txn[h].prev /\ To(h, "presence") /\ Outdates /\ UNCHANGED spoiled
     \/ /\ UndoFails
        /\ spoiled' = spoiled \cup {"secret"}
        /\ To(h, AfterSecretUndo(txn[h]))
        /\ UNCHANGED <<ring, refresh>>
  /\ UNCHANGED <<up, crashes, file, tmp, mgr, offered, syn, mut, view, base, goal>>

\* And then, under the lock, the flag.
UndoPresence(h) ==
  /\ At(h, "presence")
  /\ mgr' = [mgr EXCEPT !.hasSecret = txn[h].prev # NoSecret]
  /\ To(h, AfterSecretUndo(txn[h]))
  /\ UNCHANGED <<up, crashes, disk, offered, syn, mut, refresh, view, hist>>

\* rollbackStoreBytes: the file is removed when there was none.
RemoveStore(h) ==
  /\ At(h, "recreate") /\ txn[h].before = NoFile
  /\ \/ file' = NoFile /\ UNCHANGED spoiled
     \/ UndoFails /\ spoiled' = spoiled \cup {"file"} /\ UNCHANGED file
  /\ To(h, "abort")
  /\ UNCHANGED <<up, crashes, ring, tmp, mgr, offered, syn, mut, refresh, view, base, goal>>

\* Otherwise it is written again, the way it was written before.
RecreateTemp(h) ==
  /\ At(h, "recreate") /\ txn[h].before # NoFile
  /\ \/ ~tmp /\ tmp' = TRUE /\ To(h, "restore") /\ UNCHANGED spoiled
     \/ /\ UndoFails \/ tmp
        /\ spoiled' = spoiled \cup {"file"}
        /\ To(h, "abort")
        /\ UNCHANGED tmp
  /\ UNCHANGED <<up, crashes, ring, file, mgr, offered, syn, mut, refresh, view, base, goal>>

RestoreStore(h) ==
  /\ At(h, "restore")
  /\ \/ file' = txn[h].before /\ tmp' = FALSE /\ UNCHANGED spoiled
     \/ UndoFails /\ spoiled' = spoiled \cup {"file"} /\ tmp' = Cleanup /\ UNCHANGED file
  /\ To(h, "abort")
  /\ UNCHANGED <<up, crashes, ring, mgr, offered, syn, mut, refresh, view, base, goal>>

\* Mutant of Released: the drain outlives a failed transaction.
Held == TRUE

\* The deferred guard of Configure.
Released == FALSE

AbortSwitch(h) ==
  /\ At(h, "abort")
  /\ mut' = [mut EXCEPT !.draining = Released]
  /\ To(h, "answer")
  /\ UNCHANGED <<up, crashes, disk, mgr, offered, syn, refresh, view, hist>>

\* The result goes to the caller.
Return(h) ==
  /\ At(h, "answer")
  /\ With(h, Idle)
  /\ UNCHANGED <<up, crashes, disk, mgr, offered, syn, mut, refresh, view, hist>>

-----------------------------------------------------------------------------
(* Around the transactions.                                                *)

\* refreshSecretPresence looks the secret up without the lock ...
RefreshGet ==
  /\ up /\ refresh.pc = "get"
  /\ \/ refresh' = [refresh EXCEPT !.pc = "set", !.found = ring # NoSecret]
     \/ refresh' = [refresh EXCEPT !.pc = "fail"]
  /\ UNCHANGED <<up, crashes, disk, mgr, offered, syn, mut, txn, view, hist>>

\* ... and takes it to set the flag; an error counts as no secret.
RefreshSet ==
  /\ up /\ refresh.pc \in {"set", "fail"}
  /\ mgr' = [mgr EXCEPT !.hasSecret = refresh.pc = "set" /\ refresh.found]
  /\ refresh' = [refresh EXCEPT !.pc = IF refresh.pc = "set" THEN "done" ELSE "unknown"]
  /\ UNCHANGED <<up, crashes, disk, offered, syn, mut, txn, view, hist>>

\* Status copies the fields of the manager under its lock ...
StatusProfile ==
  /\ up /\ ~view.half
  /\ view' = [half |-> TRUE, epoch |-> mgr.epoch, of |-> 0]
  /\ UNCHANGED <<up, crashes, disk, mgr, offered, syn, mut, txn, refresh, hist>>

\* ... and adds what the syncer says of its current backend.
StatusState ==
  /\ up /\ view.half
  /\ view' = [view EXCEPT !.half = FALSE, !.of = syn.epoch]
  /\ UNCHANGED <<up, crashes, disk, mgr, offered, syn, mut, txn, refresh, hist>>

\* The oldest certificate makes room for a new one.
Cached(pin) ==
  CASE pin \in {offered[i] : i \in 1..Len(offered)} -> offered
    [] Len(offered) >= OfferedCap -> Append(Tail(offered), pin)
    [] OTHER -> Append(offered, pin)

\* A Test that meets an unknown certificate remembers it (cacheOffered).
CacheOffered(pin) ==
  /\ up
  /\ offered' = Cached(pin)
  /\ UNCHANGED <<up, crashes, disk, mgr, syn, mut, txn, refresh, view, hist>>

\* Submit registers a mutation unless the mutator drains.
MutationStarts ==
  /\ up /\ ~mut.draining /\ ~mut.busy
  /\ mut' = [mut EXCEPT !.busy = TRUE]
  /\ UNCHANGED <<up, crashes, disk, mgr, offered, syn, txn, refresh, view, hist>>

MutationEnds ==
  /\ up /\ mut.busy
  /\ mut' = [mut EXCEPT !.busy = FALSE]
  /\ UNCHANGED <<up, crashes, disk, mgr, offered, syn, txn, refresh, view, hist>>

-----------------------------------------------------------------------------
(* Crash and restart. The memory of the daemon keeps its last value, for   *)
(* comparison, until the restart replaces it.                              *)

Crash ==
  /\ up /\ crashes < MaxCrash
  /\ up' = FALSE
  /\ crashes' = crashes + 1
  /\ UNCHANGED <<disk, mgr, offered, syn, mut, txn, refresh, view, hist>>

\* main: everything is built from the persisted profile.
Restart ==
  /\ ~up
  /\ up' = TRUE
  /\ mgr' = NewManager(LoadActive)
  /\ syn' = NewSyncer(LoadActive)
  /\ mut' = NewMutator(LoadActive)
  /\ offered' = <<>>
  /\ txn' = [h \in Handler |-> Idle]
  /\ refresh' = Starting
  /\ view' = Unread
  /\ spoiled' = {}
  /\ UNCHANGED <<crashes, disk, base, goal>>

-----------------------------------------------------------------------------
Init ==
  /\ up = TRUE /\ crashes = 0
  /\ ring \in Secret \cup {NoSecret}
  /\ file \in {NoFile, Fallback}
  /\ tmp = FALSE
  /\ mgr = NewManager(LoadActive)
  /\ syn = NewSyncer(LoadActive)
  /\ mut = NewMutator(LoadActive)
  /\ offered = <<>>
  /\ txn = [h \in Handler |-> Idle]
  /\ refresh = Starting
  /\ view = Unread
  /\ base = Current /\ goal = Current
  /\ spoiled = {}

\* The steps of a Configure that has been received.
Step(h) ==
  \/ BeginSwitch(h) \/ Refused(h)
  \/ ReadStore(h) \/ ReadSecret(h) \/ Resolve(h)
  \/ ApplySecret(h) \/ CreateTemp(h) \/ Rename(h) \/ Build(h)
  \/ SwitchSyncer(h) \/ CommitManager(h) \/ CommitSwap(h)
  \/ UndoSecret(h) \/ UndoPresence(h)
  \/ RemoveStore(h) \/ RecreateTemp(h) \/ RestoreStore(h)
  \/ AbortSwitch(h) \/ Return(h)

Next ==
  \/ \E h \in Handler : Receive(h) \/ Step(h)
  \/ RefreshGet \/ RefreshSet
  \/ StatusProfile \/ StatusState
  \/ \E pin \in Pin : CacheOffered(pin)
  \/ MutationStarts \/ MutationEnds
  \/ Crash \/ Restart

Spec == Init /\ [][Next]_vars

\* The handler runs on: every call of the keyring and of the file system
\* comes back (opTimeout), with a result or an error.
FairSpec == Spec /\ \A h \in Handler : WF_vars(Step(h))

-----------------------------------------------------------------------------
(* Properties.                                                             *)

TypeOK ==
  /\ up \in BOOLEAN /\ crashes \in 0..MaxCrash
  /\ ring \in Secret \cup {NoSecret} /\ file \in Profile \cup {NoFile} /\ tmp \in BOOLEAN
  /\ mgr \in [profile : Profile, epoch : Nat, client : Profile, hasSecret : BOOLEAN]
  /\ syn \in [client : Profile, epoch : Nat]
  /\ mut \in [client : Profile, draining : BOOLEAN, busy : BOOLEAN]
  /\ offered \in Seq(Pin) /\ Len(offered) <= OfferedCap
  /\ txn \in [Handler -> Locals \cup {Idle}]
  /\ refresh \in [pc : {"get", "set", "fail", "done", "unknown"}, found : BOOLEAN,
                  raced : BOOLEAN]
  /\ view \in [half : BOOLEAN, epoch : Nat, of : Nat]
  /\ base \in Conns /\ goal \in Conns /\ spoiled \subseteq {"secret", "file"}

\* No handler is in the middle of a transaction.
Quiet == up /\ ~mut.draining

\* Whoever is past BeginSwitch and has not yet activated its profile.
Undecided == {"file", "snapshot", "resolve", "secret", "create", "rename", "build", "syncer",
              "manager", "undo", "presence", "recreate", "restore", "abort"}

\* Between transactions, and whenever a mutation is in flight, the manager,
\* the syncer and the mutator have the same client, and the manager and the
\* syncer the same epoch: no step of a switch is left out, and none is seen by
\* a mutation in flight. (What a handler of the mutator validated earlier may
\* still be of the epoch before: RunsWhereValidated in Mutator.) And a status never shows a profile with what the syncer
\* said of an earlier backend: a profile is not `connected' because the one
\* before it was (ADR-0008 section 8; manager.go:213-256, 713-738).
OneBackend ==
  up => /\ ~mut.draining \/ mut.busy =>
             /\ mgr.client = mgr.profile /\ syn.client = mgr.client /\ mut.client = mgr.client
             /\ syn.epoch = mgr.epoch
        /\ ~view.half => view.of >= view.epoch

\* Between transactions the profile on disk is the active one, unless the
\* best-effort rollback of the last failure did not succeed: a restart
\* would activate nothing else. And a temporary file that nobody is writing is
\* the work of a crash: no error path leaves one to block the saves that
\* follow (manager.go:693-697, 804-814; store.go:137-166).
PersistedIsActive ==
  /\ Quiet /\ "file" \notin spoiled => LoadActive = mgr.profile
  /\ tmp /\ (\A h \in Handler : txn[h].pc \notin {"rename", "restore"}) => crashes > 0

\* A rejection leaves profile, file and secret as they were when the
\* transaction began, wherever it failed (manager.go:604-612, 777-814;
\* docs/SECURITY.md:66).
RejectedIsInert ==
  spoiled = {} => \A h \in Handler : At(h, "abort") => Current = base

\* The profile that a transaction replaces, and whose pin it may reuse, is
\* the one that was active when it began: nothing is derived from a profile
\* another transaction has superseded (manager.go:469-474, 649-656).
ReplacesWhatItSaw ==
  \A h \in Handler : up /\ txn[h].pc \in Undecided => mgr.profile = base.profile

\* has_secret is right between transactions, if the startup lookup neither
\* failed nor was overtaken by a write of the secret (manager.go:163-177,
\* 728-733, 777-798).
PresenceKnown ==
  Quiet /\ "secret" \notin spoiled /\ refresh.pc = "done" /\ ~refresh.raced =>
    mgr.hasSecret = (ring # NoSecret)

\* A daemon that restarts takes up the profile that was active, or that of
\* the transaction the crash interrupted, and the secret is that of the one
\* or the other (store.go:130-166, manager.go:113-132).
RestartResumes ==
  [][~up /\ up' /\ "file" \notin spoiled =>
       /\ \/ mgr'.profile = mgr.profile
          \/ mut.draining /\ mgr'.profile = goal.profile
       /\ ring' \in {base.secret, goal.secret}]_vars

\* Every Configure is answered, and the drain ends with it: mutations are
\* not refused for ever (manager.go:590-593).
Answered ==
  /\ \A h \in Handler : txn[h].pc = "begin" ~> txn[h] = Idle
  /\ mut.draining ~> ~mut.draining

-----------------------------------------------------------------------------
(* The promise to the callers: with no crash and rollbacks that succeed,   *)
(* Configure implements Activation.                                        *)

\* The connection in force: what a transaction has changed does not count
\* before the manager has committed it.
InForce ==
  IF \E h \in Handler : txn[h].pc \in Undecided THEN base ELSE Current

CallOf(h) ==
  IF txn[h] = Idle THEN Idle
  ELSE [pc  |-> CASE txn[h].pc \in Undecided \cup {"begin"} -> "asked"
                  [] txn[h].pc = "answer" /\ txn[h].code # "ok" -> "rejected"
                  [] OTHER -> "done",
        req |-> txn[h].req]

Promise == INSTANCE Activation WITH
  Conn <- Conns, conn <- InForce, epoch <- mgr.epoch,
  call <- [h \in Handler |-> CallOf(h)]

\* Every Configure takes effect as a whole at one instant, or not at all
\* (manager.go:550-758; docs/adr/0008, transactional activation).
ActsAtOnce == Promise!Spec

-----------------------------------------------------------------------------
(* What the documents say and the code does not do.                        *)

\* "`has_secret` -- stored credential exists" (docs/IPC.md:406): between
\* transactions, when no call of the keyring has failed.
HasSecretIsTrue ==
  Quiet /\ "secret" \notin spoiled /\ refresh.pc = "done" => mgr.hasSecret = (ring # NoSecret)

\* "Half-applied reconfiguration: Configure is transactional"
\* (docs/SECURITY.md:66): after a restart the profile and the secret are
\* those from before the transaction or those from after it.
NeverHalfApplied ==
  [][~up /\ up' => \E c \in {base, goal} : mgr'.profile = c.profile /\ ring' = c.secret]_vars
=============================================================================
