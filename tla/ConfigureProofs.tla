--------------------------- MODULE ConfigureProofs ---------------------------
(***************************************************************************)
(* Theorems about Configure, for any number of handlers, every set of      *)
(* profiles, secrets and requests, and every bound.                        *)
(***************************************************************************)
EXTENDS Configure, TLAPS

-----------------------------------------------------------------------------
(* Types.                                                                  *)

\* A handler with a request has its locals.
LEMMA BusyLocals ==
  ASSUME TypeOK, NEW h \in Handler, txn[h].pc # "idle"
  PROVE  txn[h] \in Locals
BY DEF TypeOK, Idle

\* The order of the activation, step by step.
LEMMA Activating ==
  /\ Order[1] = "syncer" /\ After("syncer") = "manager"
  /\ After("manager") = "swap" /\ After("swap") = "answer"
<1>1. Order[1] = "syncer" /\ Order[2] = "manager" /\ Order[3] = "swap" /\ Order[4] = "answer"
  BY DEF Order
<1>2. (CHOOSE i \in 1..3 : Order[i] = "syncer") = 1
  BY <1>1
<1>3. (CHOOSE i \in 1..3 : Order[i] = "manager") = 2
  BY <1>1
<1>4. (CHOOSE i \in 1..3 : Order[i] = "swap") = 3
  BY <1>1
<1> QED
  BY <1>1, <1>2, <1>3, <1>4 DEF After

LEMMA ProfileType ==
  ASSUME NEW r \in Request
  PROVE  ProfileOf(r) \in Profile /\ r.action \in Actions
BY ConfigureAssumption DEF ProfileOf, Profile

LEMMA SecretType ==
  ASSUME NEW r \in Request, NEW old \in Secret \cup {NoSecret}
  PROVE  SecretAfter(old, r) \in Secret \cup {NoSecret}
BY ConfigureAssumption DEF SecretAfter, Actions

\* A handler's next locals.
LEMMA ToType ==
  ASSUME TypeOK, NEW h \in Handler, txn[h].pc # "idle", NEW pc \in Steps, To(h, pc)
  PROVE  /\ txn' \in [Handler -> Locals \cup {Idle}]
         /\ txn' = [txn EXCEPT ![h] = [txn[h] EXCEPT !.pc = pc]]
<1>1. txn[h] \in Locals
  BY BusyLocals
<1>2. [txn[h] EXCEPT !.pc = pc] \in Locals
  BY <1>1 DEF Locals
<1> QED
  BY <1>1, <1>2 DEF To, TypeOK

LEMMA FailType ==
  ASSUME TypeOK, NEW l \in Locals, NEW code \in Codes
  PROVE  Undoing(l, code) \in Locals
BY DEF Undoing, AfterSecretUndo, Locals, Steps

\* The cache of certificates keeps within its capacity.
LEMMA CachedType ==
  ASSUME TypeOK, NEW pin \in Pin
  PROVE  Cached(pin) \in Seq(Pin) /\ Len(Cached(pin)) <= OfferedCap
<1>1. offered \in Seq(Pin) /\ Len(offered) \in Nat /\ Len(offered) <= OfferedCap /\ OfferedCap \in Nat \ {0}
  BY ConfigureAssumption DEF TypeOK
<1>2. CASE Len(offered) >= OfferedCap
  <2>1. Tail(offered) \in Seq(Pin) /\ Len(Tail(offered)) = Len(offered) - 1
    BY <1>1, <1>2
  <2>2. Append(Tail(offered), pin) \in Seq(Pin) /\ Len(Append(Tail(offered), pin)) = Len(offered)
    BY <1>1, <2>1
  <2> QED
    BY <1>1, <1>2, <2>2 DEF Cached
<1>3. CASE ~(Len(offered) >= OfferedCap)
  <2>1. Append(offered, pin) \in Seq(Pin) /\ Len(Append(offered, pin)) = Len(offered) + 1
    BY <1>1
  <2> QED
    BY <1>1, <1>3, <2>1 DEF Cached
<1> QED
  BY <1>2, <1>3

LEMMA StepType ==
  ASSUME TypeOK, NEW h \in Handler, Step(h)
  PROVE  TypeOK'
<1> USE DEF disk, hist
<1>l. txn[h].pc # "idle" /\ txn[h] \in Locals /\ txn[h].req \in Request
  <2>1. txn[h].pc # "idle"
    BY DEF Step, BeginSwitch, Refused, ReadStore, ReadSecret, Resolve, ApplySecret, CreateTemp, Rename,
           Build, SwitchSyncer, CommitManager, CommitSwap, UndoSecret, UndoPresence, RemoveStore, 
           RecreateTemp, RestoreStore, AbortSwitch, Return, At
  <2> QED
    BY <2>1, BusyLocals DEF Locals
<1>1. CASE BeginSwitch(h)
  <2>1. txn' \in [Handler -> Locals \cup {Idle}]
    BY <1>1, <1>l, ToType DEF BeginSwitch, Steps
  <2>2. base' \in Conns /\ goal' \in Conns
    BY <1>1, <1>l, ProfileType, SecretType DEF BeginSwitch, TypeOK, Current, Outcome, Conns
  <2> QED
    BY <1>1, <2>1, <2>2 DEF BeginSwitch, TypeOK
<1>2. CASE Refused(h)
  <2>1. [txn[h] EXCEPT !.pc = "answer", !.code = "mutations_pending"] \in Locals
    BY <1>l DEF Locals, Steps, Codes
  <2> QED
    BY <1>2, <2>1 DEF Refused, With, TypeOK
<1>3. CASE ReadStore(h)
  <2>1. [txn[h] EXCEPT !.pc = "snapshot", !.before = file] \in Locals
    BY <1>l DEF Locals, Steps, TypeOK
  <2>2. Undoing(txn[h], "storage_error") \in Locals
    BY <1>l, FailType DEF Codes
  <2> QED
    BY <1>3, <2>1, <2>2 DEF ReadStore, Fail, With, TypeOK
<1>4. CASE ReadSecret(h)
  <2>1. [txn[h] EXCEPT !.pc = "resolve", !.prev = ring] \in Locals
    BY <1>l DEF Locals, Steps, TypeOK
  <2>2. Undoing(txn[h], "secrets_unavailable") \in Locals
    BY <1>l, FailType DEF Codes
  <2>3. To(h, "resolve") => txn' \in [Handler -> Locals \cup {Idle}]
    BY <1>l, ToType DEF Steps
  <2> QED
    BY <1>4, <2>1, <2>2, <2>3 DEF ReadSecret, Fail, With, TypeOK
<1>5. CASE Resolve(h)
  <2>2. Undoing(txn[h], "pin_unknown") \in Locals
    BY <1>l, FailType DEF Codes
  <2>3. To(h, "secret") => txn' \in [Handler -> Locals \cup {Idle}]
    BY <1>l, ToType DEF Steps
  <2> QED
    BY <1>5, <2>2, <2>3 DEF Resolve, Fail, With, TypeOK
<1>6. CASE ApplySecret(h)
  <2>1. [txn[h] EXCEPT !.pc = "create", !.secretMutated = TRUE] \in Locals
    BY <1>l DEF Locals, Steps
  <2>2. Undoing(txn[h], "secrets_unavailable") \in Locals
    BY <1>l, FailType DEF Codes
  <2>3. To(h, "create") => txn' \in [Handler -> Locals \cup {Idle}]
    BY <1>l, ToType DEF Steps
  <2>4. SecretAfter(ring, txn[h].req) \in Secret \cup {NoSecret}
    BY <1>l, SecretType DEF TypeOK
  <2>5. Outdates => refresh' \in [pc : {"get", "set", "fail", "done", "unknown"}, found : BOOLEAN, raced : BOOLEAN]
    BY DEF Outdates, TypeOK
  <2> QED
    BY <1>6, <2>1, <2>2, <2>3, <2>4, <2>5 DEF ApplySecret, Fail, With, TypeOK
<1>7. CASE CreateTemp(h)
  <2>2. Undoing(txn[h], "storage_error") \in Locals
    BY <1>l, FailType DEF Codes
  <2>3. To(h, "rename") => txn' \in [Handler -> Locals \cup {Idle}]
    BY <1>l, ToType DEF Steps
  <2>4. txn' \in [Handler -> Locals \cup {Idle}]
    BY <1>7, <2>2, <2>3 DEF CreateTemp, Fail, With, TypeOK
  <2>5. tmp' \in BOOLEAN
    BY <1>7 DEF CreateTemp, TypeOK
  <2> QED
    BY <1>7, <2>4, <2>5 DEF CreateTemp, TypeOK
<1>8. CASE Rename(h)
  <2>1. [txn[h] EXCEPT !.pc = "build", !.storeMutated = TRUE] \in Locals
    BY <1>l DEF Locals, Steps
  <2>2. Undoing(txn[h], "storage_error") \in Locals
    BY <1>l, FailType DEF Codes
  <2>4. txn' \in [Handler -> Locals \cup {Idle}]
    BY <1>8, <2>1, <2>2 DEF Rename, Fail, With, TypeOK
  <2>5. tmp' \in BOOLEAN /\ file' \in Profile \cup {NoFile}
    <3>1. ProfileOf(txn[h].req) \in Profile /\ file \in Profile \cup {NoFile}
      BY <1>l, ProfileType DEF TypeOK
    <3>2. tmp' = FALSE /\ (file' = ProfileOf(txn[h].req) \/ file' = file)
      BY <1>8 DEF Rename, Cleanup
    <3> QED
      BY <3>1, <3>2
  <2> QED
    BY <1>8, <2>4, <2>5 DEF Rename, TypeOK
<1>9. CASE Build(h)
  <2>2. Undoing(txn[h], "invalid_url") \in Locals
    BY <1>l, FailType DEF Codes
  <2>3. To(h, Order[1]) => txn' \in [Handler -> Locals \cup {Idle}]
    BY <1>l, ToType, Activating DEF Steps
  <2> QED
    BY <1>9, <2>2, <2>3 DEF Build, Fail, With, TypeOK
<1>10. CASE SwitchSyncer(h)
  <2>3. txn' \in [Handler -> Locals \cup {Idle}]
    BY <1>10, <1>l, ToType, Activating DEF SwitchSyncer, Steps
  <2> QED
    BY <1>10, <1>l, <2>3, ProfileType DEF SwitchSyncer, TypeOK
<1>11. CASE CommitManager(h)
  <2>3. txn' \in [Handler -> Locals \cup {Idle}]
    BY <1>11, <1>l, ToType, Activating DEF CommitManager, Steps
  <2>4. Presence(txn[h].req) \in BOOLEAN
    BY <1>l, ProfileType DEF Presence, Actions, TypeOK
  <2>5. spoiled' \subseteq {"secret", "file"}
    BY <1>11 DEF CommitManager, TypeOK
  <2>6. mgr' \in [profile : Profile, epoch : Nat, client : Profile, hasSecret : BOOLEAN]
    BY <1>11, <1>l, <2>4, ProfileType DEF CommitManager, TypeOK
  <2> QED
    BY <1>11, <2>3, <2>5, <2>6 DEF CommitManager, TypeOK
<1>12. CASE CommitSwap(h)
  <2>3. txn' \in [Handler -> Locals \cup {Idle}]
    BY <1>12, <1>l, ToType, Activating DEF CommitSwap, Steps
  <2> QED
    BY <1>12, <1>l, <2>3, ProfileType DEF CommitSwap, TypeOK
<1>13. CASE UndoSecret(h)
  <2>1. AfterSecretUndo(txn[h]) \in Steps /\ "presence" \in Steps
    BY DEF AfterSecretUndo, Steps
  <2>2. txn' \in [Handler -> Locals \cup {Idle}]
    BY <1>13, <1>l, <2>1, ToType DEF UndoSecret
  <2>3. ring' \in Secret \cup {NoSecret}
    BY <1>13, <1>l DEF UndoSecret, TypeOK, Locals
  <2>4. refresh' \in [pc : {"get", "set", "fail", "done", "unknown"}, found : BOOLEAN, raced : BOOLEAN]
    BY <1>13 DEF UndoSecret, Outdates, TypeOK
  <2>5. spoiled' \subseteq {"secret", "file"}
    BY <1>13 DEF UndoSecret, TypeOK
  <2> QED
    BY <1>13, <2>2, <2>3, <2>4, <2>5 DEF UndoSecret, TypeOK
<1>14. CASE UndoPresence(h)
  <2>1. AfterSecretUndo(txn[h]) \in Steps
    BY DEF AfterSecretUndo, Steps
  <2>2. txn' \in [Handler -> Locals \cup {Idle}]
    BY <1>14, <1>l, <2>1, ToType DEF UndoPresence
  <2>3. mgr' \in [profile : Profile, epoch : Nat, client : Profile, hasSecret : BOOLEAN]
    BY <1>14 DEF UndoPresence, TypeOK
  <2> QED
    BY <1>14, <2>2, <2>3 DEF UndoPresence, TypeOK
<1>15. CASE RemoveStore(h)
  <2>2. txn' \in [Handler -> Locals \cup {Idle}]
    BY <1>15, <1>l, ToType DEF RemoveStore, Steps
  <2>3. file' \in Profile \cup {NoFile}
    BY <1>15 DEF RemoveStore, TypeOK
  <2>4. spoiled' \subseteq {"secret", "file"}
    BY <1>15 DEF RemoveStore, TypeOK
  <2> QED
    BY <1>15, <2>2, <2>3, <2>4 DEF RemoveStore, TypeOK
<1>16. CASE RecreateTemp(h)
  <2>2. txn' \in [Handler -> Locals \cup {Idle}]
    BY <1>16, <1>l, ToType DEF RecreateTemp, Steps
  <2>3. tmp' \in BOOLEAN
    BY <1>16 DEF RecreateTemp, TypeOK
  <2>4. spoiled' \subseteq {"secret", "file"}
    BY <1>16 DEF RecreateTemp, TypeOK
  <2> QED
    BY <1>16, <2>2, <2>3, <2>4 DEF RecreateTemp, TypeOK
<1>17. CASE RestoreStore(h)
  <2>2. txn' \in [Handler -> Locals \cup {Idle}]
    BY <1>17, <1>l, ToType DEF RestoreStore, Steps
  <2>3. file' \in Profile \cup {NoFile} /\ tmp' \in BOOLEAN
    BY <1>17, <1>l DEF RestoreStore, Cleanup, Locals, TypeOK
  <2>4. spoiled' \subseteq {"secret", "file"}
    BY <1>17 DEF RestoreStore, TypeOK
  <2> QED
    BY <1>17, <2>2, <2>3, <2>4 DEF RestoreStore, TypeOK
<1>18. CASE AbortSwitch(h)
  <2>2. txn' \in [Handler -> Locals \cup {Idle}]
    BY <1>18, <1>l, ToType DEF AbortSwitch, Steps
  <2> QED
    BY <1>18, <2>2 DEF AbortSwitch, Released, TypeOK
<1>19. CASE Return(h)
  BY <1>19 DEF Return, With, TypeOK
<1> QED
  BY <1>1, <1>2, <1>3, <1>4, <1>5, <1>6, <1>7, <1>8, <1>9, <1>10, <1>11, <1>12, <1>13, <1>14,
     <1>15, <1>16, <1>17, <1>18, <1>19 DEF Step
-----------------------------------------------------------------------------
(* The invariants.                                                         *)

Advancing == {"file", "snapshot", "resolve", "secret", "create", "rename", "build", "syncer",
              "manager"}
Undone    == {"undo", "presence", "recreate", "restore", "abort"}

\* From BeginSwitch to the end of the drain.
Inside == Undecided \cup {"swap"}
In(h)  == txn[h].pc \in Inside

\* The drain is held by the one handler that is in a transaction, and no
\* mutation is in flight while it is held.
DrainInv ==
  /\ \A g, h \in Handler : In(g) /\ In(h) => g = h
  /\ mut.draining = \E h \in Handler : In(h)
  /\ mut.busy => ~mut.draining

\* What the manager, the syncer and the mutator have of the client: the syncer
\* is ahead between its switch and the manager's, the mutator behind until its
\* own.
PartsInv ==
  /\ mgr.client = mgr.profile
  /\ (\A h \in Handler : txn[h].pc # "manager") => syn.client = mgr.client /\ syn.epoch = mgr.epoch
  /\ (\A h \in Handler : txn[h].pc # "swap") => mut.client = mgr.client
  /\ \A h \in Handler :
       /\ txn[h].pc = "manager" =>
            syn.client = ProfileOf(txn[h].req) /\ syn.epoch = mgr.epoch + 1
       /\ txn[h].pc = "swap" => mgr.profile = ProfileOf(txn[h].req)
  /\ syn.epoch >= mgr.epoch
  /\ IF view.half THEN mgr.epoch >= view.epoch ELSE view.of >= view.epoch

\* What would be loaded from a file.
Loaded(f) == IF f = NoFile THEN Fallback ELSE f

\* What a transaction knows of where it started, by the steps it has done.
Knows(l) ==
  /\ l.pc \in Advancing \cup {"swap"} <=> l.code = "ok"
  /\ l.pc \in {"file", "snapshot", "resolve", "secret"} => ~l.secretMutated
  /\ l.pc \in {"file", "snapshot", "resolve", "secret", "create", "rename"} => ~l.storeMutated
  /\ l.pc \in {"create", "rename", "build", "syncer", "manager", "swap"} =>
       (l.secretMutated <=> l.req.action # "keep")
  /\ l.pc \in {"build", "syncer", "manager", "swap", "recreate", "restore"} => l.storeMutated
  /\ l.pc \in {"undo", "presence"} => l.secretMutated
  /\ l.secretMutated => l.req.action # "keep"
  /\ l.secretMutated \/ (l.pc \in {"resolve", "secret"} /\ l.req.action # "keep") =>
       l.prev = base.secret
  /\ l.pc \in {"snapshot", "resolve", "secret", "create", "rename"} \/ l.storeMutated =>
       l.before = base.file

\* What it has made of the keyring and of the file.
Ring(l) ==
  IF l.secretMutated /\ l.pc \notin {"presence", "recreate", "restore", "abort"}
    THEN ring = goal.secret
    ELSE \/ ring = base.secret
         \/ l.secretMutated /\ l.pc # "presence" /\ "secret" \in spoiled
File(l) ==
  IF l.storeMutated /\ l.pc # "abort"
    THEN file = goal.file
    ELSE file = base.file \/ (l.storeMutated /\ "file" \in spoiled)

InTxn(l) ==
  /\ goal = Outcome(base, l.req)
  /\ l.pc # "swap" => mgr.profile = base.profile
  /\ Knows(l) /\ Ring(l) /\ File(l)

\* The disk holds the connection a transaction started from, or parts of the
\* one it leads to; and but for a failed rollback it is never without the
\* profile that is active.
DiskInv ==
  /\ ring \in {base.secret, goal.secret} /\ file \in {base.file, goal.file}
  /\ "file" \in spoiled \/
       IF \E h \in Handler : txn[h].pc \in Undecided
         THEN Loaded(base.file) = mgr.profile ELSE Loaded(file) = mgr.profile

TxnInv ==
  \A h \in Handler :
    /\ In(h) => InTxn(txn[h])
    /\ txn[h].pc = "begin" =>
         txn[h].code = "ok" /\ ~txn[h].secretMutated /\ ~txn[h].storeMutated

\* A temporary file is being written, or was when the daemon crashed.
TempInv ==
  /\ tmp => crashes > 0 \/ \E h \in Handler : txn[h].pc \in {"rename", "restore"}
  /\ up \/ crashes > 0

\* The flag is what the keyring says, or is yet to be set by the transaction
\* that has changed the keyring.
PresenceInv ==
  ~refresh.raced =>
    /\ refresh.pc = "set" => refresh.found = (ring # NoSecret)
    /\ refresh.pc = "done" =>
         \/ "secret" \in spoiled
         \/ mgr.hasSecret = (ring # NoSecret)
         \/ \E h \in Handler :
              \/ txn[h].pc = "presence"
              \/ /\ txn[h].pc \in {"create", "rename", "build", "syncer", "manager", "undo"}
                 /\ txn[h].secretMutated

IInv == TypeOK /\ DrainInv /\ TxnInv /\ PartsInv /\ DiskInv /\ TempInv /\ PresenceInv

-----------------------------------------------------------------------------
(* How a step changes the locals.                                          *)

Rest(h) == \A g \in Handler \ {h} : txn'[g] = txn[g]
Same(h) == /\ txn'[h].req = txn[h].req /\ txn'[h].prev = txn[h].prev
           /\ txn'[h].before = txn[h].before
           /\ txn'[h].secretMutated = txn[h].secretMutated
           /\ txn'[h].storeMutated = txn[h].storeMutated

LEMMA ToFields ==
  ASSUME TypeOK, NEW h \in Handler, txn[h].pc # "idle", NEW pc, To(h, pc)
  PROVE  /\ txn'[h].pc = pc /\ txn'[h].code = txn[h].code
         /\ Same(h) /\ Rest(h)
<1>1. txn[h] \in Locals
  BY BusyLocals
<1>2. txn' = [txn EXCEPT ![h] = [txn[h] EXCEPT !.pc = pc]]
  BY DEF To
<1>3. txn'[h] = [txn[h] EXCEPT !.pc = pc]
  BY <1>2 DEF TypeOK
<1>4. Same(h) /\ txn'[h].pc = pc /\ txn'[h].code = txn[h].code
  BY <1>1, <1>3 DEF Same, Locals
<1>5. Rest(h)
  BY <1>2 DEF Rest, TypeOK
<1> QED
  BY <1>4, <1>5

LEMMA FailFields ==
  ASSUME TypeOK, NEW h \in Handler, txn[h].pc # "idle", NEW code, Fail(h, txn[h], code)
  PROVE  /\ txn'[h].pc = IF txn[h].secretMutated THEN "undo" ELSE AfterSecretUndo(txn[h])
         /\ txn'[h].code = code
         /\ Same(h) /\ Rest(h)
<1>1. txn[h] \in Locals
  BY BusyLocals
<1>2. txn'[h] = Undoing(txn[h], code) /\ Rest(h)
  BY DEF Fail, With, Rest, TypeOK
<1> QED
  BY <1>1, <1>2 DEF Undoing, Same, Locals

\* What the steps of a handler do to its control, its code and its drain.
LEMMA StepFlow ==
  ASSUME TypeOK, NEW h \in Handler, Step(h)
  PROVE  /\ Rest(h) /\ txn'[h].pc # "begin"
         /\ txn'[h].pc = "manager" => SwitchSyncer(h)
         /\ txn'[h].pc = "swap" => CommitManager(h)
         /\ \/ BeginSwitch(h) /\ ~In(h) /\ In(h)'
            \/ (CommitSwap(h) \/ AbortSwitch(h)) /\ In(h) /\ ~In(h)'
            \/ (Refused(h) \/ Return(h)) /\ ~In(h) /\ ~In(h)'
            \/ mut' = mut /\ In(h) /\ In(h)'
<1> USE DEF In, Inside, Undecided
<1>a. ASSUME NEW pc, NEW new, txn[h].pc = pc, pc # "idle", To(h, new)
      PROVE  txn'[h].pc = new /\ Rest(h)
  BY <1>a, ToFields
<1>b. ASSUME NEW pc, NEW code, txn[h].pc = pc, pc # "idle", Fail(h, txn[h], code)
      PROVE  txn'[h].pc \in Undone /\ Rest(h)
  BY <1>b, FailFields DEF AfterSecretUndo, Undone
<1>c. ASSUME NEW l, With(h, l)
      PROVE  txn'[h] = l /\ Rest(h)
  BY <1>c DEF With, Rest, TypeOK
<1>l. txn[h].pc # "idle" => txn[h] \in Locals
  BY BusyLocals
<1>1. CASE BeginSwitch(h)
  BY <1>1, <1>a DEF BeginSwitch, At
<1>2. CASE Refused(h)
  <2>1. [txn[h] EXCEPT !.pc = "answer", !.code = "mutations_pending"].pc = "answer"
    BY <1>2, <1>l DEF Refused, At, Locals
  <2> QED
    BY <1>2, <1>c, <2>1 DEF Refused, At
<1>3. CASE ReadStore(h)
  <2>1. [txn[h] EXCEPT !.pc = "snapshot", !.before = file].pc = "snapshot"
    BY <1>3, <1>l DEF ReadStore, At, Locals
  <2> QED
    BY <1>3, <1>b, <1>c, <2>1 DEF ReadStore, At, Undone
<1>4. CASE ReadSecret(h)
  <2>1. [txn[h] EXCEPT !.pc = "resolve", !.prev = ring].pc = "resolve"
    BY <1>4, <1>l DEF ReadSecret, At, Locals
  <2> QED
    BY <1>4, <1>a, <1>b, <1>c, <2>1 DEF ReadSecret, At, Undone
<1>5. CASE Resolve(h)
  BY <1>5, <1>a, <1>b DEF Resolve, At, Undone
<1>6. CASE ApplySecret(h)
  <2>1. [txn[h] EXCEPT !.pc = "create", !.secretMutated = TRUE].pc = "create"
    BY <1>6, <1>l DEF ApplySecret, At, Locals
  <2> QED
    BY <1>6, <1>a, <1>b, <1>c, <2>1 DEF ApplySecret, At, Undone
<1>7. CASE CreateTemp(h)
  BY <1>7, <1>a, <1>b DEF CreateTemp, At, Undone
<1>8. CASE Rename(h)
  <2>1. [txn[h] EXCEPT !.pc = "build", !.storeMutated = TRUE].pc = "build"
    BY <1>8, <1>l DEF Rename, At, Locals
  <2> QED
    BY <1>8, <1>b, <1>c, <2>1 DEF Rename, At, Undone
<1>9. CASE Build(h)
  BY <1>9, <1>a, <1>b, Activating DEF Build, At, Undone
<1>10. CASE SwitchSyncer(h)
  BY <1>10, <1>a, Activating DEF SwitchSyncer, At
<1>11. CASE CommitManager(h)
  BY <1>11, <1>a, Activating DEF CommitManager, At
<1>12. CASE CommitSwap(h)
  BY <1>12, <1>a, Activating DEF CommitSwap, At
<1>13. CASE UndoSecret(h)
  BY <1>13, <1>a DEF UndoSecret, At, AfterSecretUndo
<1>14. CASE UndoPresence(h)
  BY <1>14, <1>a DEF UndoPresence, At, AfterSecretUndo
<1>15. CASE RemoveStore(h)
  BY <1>15, <1>a DEF RemoveStore, At
<1>16. CASE RecreateTemp(h)
  BY <1>16, <1>a DEF RecreateTemp, At
<1>17. CASE RestoreStore(h)
  BY <1>17, <1>a DEF RestoreStore, At
<1>18. CASE AbortSwitch(h)
  BY <1>18, <1>a DEF AbortSwitch, At
<1>19. CASE Return(h)
  BY <1>19, <1>c DEF Return, At, Idle
<1> QED
  BY <1>1, <1>2, <1>3, <1>4, <1>5, <1>6, <1>7, <1>8, <1>9, <1>10, <1>11, <1>12, <1>13, <1>14,
     <1>15, <1>16, <1>17, <1>18, <1>19 DEF Step

\* A handler keeps its request to the end.
LEMMA RequestKept ==
  ASSUME TypeOK, NEW h \in Handler, Step(h), ~Return(h)
  PROVE  txn'[h].req = txn[h].req
<1>a. ASSUME NEW pc, NEW new, txn[h].pc = pc, pc # "idle", To(h, new)
      PROVE  txn'[h].req = txn[h].req
  BY <1>a, ToFields DEF Same
<1>b. ASSUME NEW pc, NEW code, txn[h].pc = pc, pc # "idle", Fail(h, txn[h], code)
      PROVE  txn'[h].req = txn[h].req
  BY <1>b, FailFields DEF Same
<1>l. txn[h].pc # "idle" => txn[h] \in Locals
  BY BusyLocals
<1>1. CASE Refused(h) \/ ReadStore(h) \/ ReadSecret(h) \/ ApplySecret(h) \/ Rename(h)
  <2>1. txn[h].pc # "idle"
    BY <1>1 DEF Refused, ReadStore, ReadSecret, ApplySecret, Rename, At
  <2>2. ASSUME NEW l, With(h, l), l.req = txn[h].req
        PROVE  txn'[h].req = txn[h].req
    BY <2>2 DEF With, TypeOK
  <2>3. /\ [txn[h] EXCEPT !.pc = "answer", !.code = "mutations_pending"].req = txn[h].req
        /\ [txn[h] EXCEPT !.pc = "snapshot", !.before = file].req = txn[h].req
        /\ [txn[h] EXCEPT !.pc = "resolve", !.prev = ring].req = txn[h].req
        /\ [txn[h] EXCEPT !.pc = "create", !.secretMutated = TRUE].req = txn[h].req
        /\ [txn[h] EXCEPT !.pc = "build", !.storeMutated = TRUE].req = txn[h].req
    BY <1>l, <2>1 DEF Locals
  <2>4. CASE Refused(h)
    BY <2>2, <2>3, <2>4 DEF Refused
  <2>5. CASE ReadStore(h)
    BY <1>b, <2>1, <2>2, <2>3, <2>5 DEF ReadStore
  <2>6. CASE ReadSecret(h)
    <3>1. CASE To(h, "resolve")
      BY <1>a, <2>1, <3>1
    <3>2. CASE With(h, [txn[h] EXCEPT !.pc = "resolve", !.prev = ring])
      BY <2>2, <2>3, <3>2
    <3>3. CASE Fail(h, txn[h], "secrets_unavailable")
      BY <1>b, <2>1, <3>3
    <3> QED
      BY <2>6, <3>1, <3>2, <3>3 DEF ReadSecret
  <2>7. CASE ApplySecret(h)
    <3>1. CASE To(h, "create")
      BY <1>a, <2>1, <3>1
    <3>2. CASE With(h, [txn[h] EXCEPT !.pc = "create", !.secretMutated = TRUE])
      BY <2>2, <2>3, <3>2
    <3>3. CASE Fail(h, txn[h], "secrets_unavailable")
      BY <1>b, <2>1, <3>3
    <3> QED
      BY <2>7, <3>1, <3>2, <3>3 DEF ApplySecret
  <2>8. CASE Rename(h)
    BY <1>b, <2>1, <2>2, <2>3, <2>8 DEF Rename
  <2> QED
    BY <1>1, <2>4, <2>5, <2>6, <2>7, <2>8
<1> QED
  BY <1>1, <1>a, <1>b DEF Step, At, BeginSwitch, Resolve, CreateTemp, Build, SwitchSyncer,
     CommitManager, CommitSwap, UndoSecret, UndoPresence, RemoveStore, RecreateTemp,
     RestoreStore, AbortSwitch

-----------------------------------------------------------------------------
(* The drain.                                                              *)

LEMMA StepDrain ==
  ASSUME TypeOK, DrainInv, NEW h \in Handler, Step(h)
  PROVE  DrainInv'
<1>1. Rest(h)
  BY StepFlow
<1>o. \A g \in Handler : g # h => (In(g)' <=> In(g))
  BY <1>1 DEF Rest, In
<1>2. CASE BeginSwitch(h) /\ ~In(h) /\ In(h)'
  <2>1. /\ ~mut.draining /\ ~mut.busy
        /\ mut'.draining = TRUE /\ mut'.busy = mut.busy
    BY <1>2 DEF BeginSwitch, MaySwitch, TypeOK
  <2>2. \A g \in Handler : ~In(g)
    BY <2>1 DEF DrainInv
  <2> QED
    BY <1>2, <1>o, <2>1, <2>2 DEF DrainInv
<1>3. CASE (CommitSwap(h) \/ AbortSwitch(h)) /\ In(h) /\ ~In(h)'
  <2>1. mut'.draining = FALSE /\ mut'.busy = mut.busy
    BY <1>3 DEF CommitSwap, AbortSwitch, Released, TypeOK
  <2>2. \A g \in Handler : ~In(g)'
    BY <1>3, <1>o DEF DrainInv
  <2> QED
    BY <2>1, <2>2 DEF DrainInv
<1>4. CASE (Refused(h) \/ Return(h)) /\ ~In(h) /\ ~In(h)'
  <2>1. mut' = mut
    BY <1>4 DEF Refused, Return
  <2>2. \A g \in Handler : In(g)' <=> In(g)
    BY <1>4, <1>o
  <2> QED
    BY <2>1, <2>2 DEF DrainInv
<1>5. CASE mut' = mut /\ In(h) /\ In(h)'
  <2>2. \A g \in Handler : In(g)' <=> In(g)
    BY <1>5, <1>o
  <2> QED
    BY <1>5, <2>2 DEF DrainInv
<1> QED
  BY <1>2, <1>3, <1>4, <1>5, StepFlow

-----------------------------------------------------------------------------
(* The transaction.                                                        *)

\* fail leads to the undoing of what has been done so far, from any step.
LEMMA FailTxn ==
  ASSUME TypeOK, NEW h \in Handler, InTxn(txn[h]), txn[h].pc \in Advancing,
         NEW code, code # "ok", Fail(h, txn[h], code),
         UNCHANGED <<ring, file, mgr, base, goal, spoiled>>
  PROVE  InTxn(txn[h])'
<1>1. /\ txn'[h].pc = IF txn[h].secretMutated THEN "undo" ELSE AfterSecretUndo(txn[h])
      /\ txn'[h].code = code /\ Same(h)
  BY FailFields DEF Advancing
<1>2. txn'[h].pc = IF txn[h].secretMutated THEN "undo"
                   ELSE IF txn[h].storeMutated THEN "recreate" ELSE "abort"
  BY <1>1 DEF AfterSecretUndo
<1>3. Knows(txn[h])'
  BY <1>1, <1>2 DEF InTxn, Knows, Same, Advancing
<1>4. Ring(txn[h])' /\ File(txn[h])'
  BY <1>1, <1>2 DEF InTxn, Ring, File, Same, Advancing
<1> QED
  BY <1>1, <1>2, <1>3, <1>4 DEF InTxn, Same, Advancing

LEMMA StepTxn ==
  ASSUME TypeOK, DrainInv, TxnInv, DiskInv, TempInv, NEW h \in Handler, Step(h)
  PROVE  TxnInv'
<1> USE DEF disk, hist
<1>f. Rest(h) /\ txn'[h].pc # "begin"
  BY StepFlow
<1>l. txn[h].pc # "idle" => txn[h] \in Locals
  BY BusyLocals
<1>a. ASSUME NEW pc, NEW new, txn[h].pc = pc, pc # "idle", To(h, new)
      PROVE  txn'[h].pc = new /\ txn'[h].code = txn[h].code /\ Same(h)
  BY <1>a, ToFields
<1>t. ASSUME In(h) \/ BeginSwitch(h), In(h)' => InTxn(txn[h])'
      PROVE  TxnInv'
  <2>1. \A g \in Handler \ {h} : ~In(g)
    BY <1>t DEF DrainInv, BeginSwitch, MaySwitch, TypeOK
  <2>2. \A g \in Handler \ {h} : ~In(g)'
    BY <1>f, <2>1 DEF Rest, In
  <2>3. \A g \in Handler : txn'[g].pc = "begin" => txn'[g] = txn[g]
    BY <1>f DEF Rest
  <2> QED
    BY <1>t, <2>2, <2>3 DEF TxnInv
<1>b. ASSUME NEW code, code # "ok", In(h), txn[h].pc \in Advancing, Fail(h, txn[h], code),
             UNCHANGED <<ring, file, mgr, base, goal, spoiled>>
      PROVE  InTxn(txn[h])'
  BY <1>b, FailTxn DEF TxnInv
<1>i. In(h) => InTxn(txn[h])
  BY DEF TxnInv
<1>1. CASE BeginSwitch(h)
  <2>1. /\ base' = Current /\ goal' = Outcome(Current, txn[h].req)
        /\ txn'[h].pc = "file" /\ txn'[h].code = txn[h].code /\ Same(h)
        /\ UNCHANGED <<mgr, file, ring>>
    BY <1>1, <1>a DEF BeginSwitch, At
  <2>2. txn[h].code = "ok" /\ ~txn[h].secretMutated /\ ~txn[h].storeMutated
    BY <1>1 DEF BeginSwitch, At, TxnInv
  <2> QED
    BY <1>1, <1>t, <2>1, <2>2 DEF InTxn, Knows, Ring, File, Same, Current, Advancing
<1>2. CASE Refused(h) \/ Return(h)
  <2>1. UNCHANGED <<ring, file, mgr, base, goal, spoiled>>
    BY <1>2 DEF Refused, Return
  <2>2. ~In(h)'
    BY <1>2, StepFlow DEF Refused, Return, BeginSwitch, CommitSwap, AbortSwitch, At, In, Inside, Undecided
  <2>3. \A g \in Handler : In(g)' => In(g) /\ txn'[g] = txn[g]
    BY <1>f, <2>2 DEF Rest, In
  <2>4. \A g \in Handler : txn'[g].pc = "begin" => txn'[g] = txn[g]
    BY <1>f DEF Rest
  <2> QED
    BY <2>1, <2>3, <2>4 DEF TxnInv, InTxn, Knows, Ring, File
<1> USE DEF Inside, Undecided, Advancing
<1>3. CASE ReadStore(h)
  <2>1. UNCHANGED <<ring, file, mgr, base, goal, spoiled>> /\ In(h) /\ txn[h].pc = "file"
    BY <1>3 DEF ReadStore, At, In
  <2>2. CASE With(h, [txn[h] EXCEPT !.pc = "snapshot", !.before = file])
    <3>1. txn'[h] = [txn[h] EXCEPT !.pc = "snapshot", !.before = file]
      BY <2>2 DEF With, TypeOK
    <3>2. /\ txn'[h].pc = "snapshot" /\ txn'[h].before = file
          /\ txn'[h].code = txn[h].code /\ txn'[h].req = txn[h].req /\ txn'[h].prev = txn[h].prev
          /\ txn'[h].secretMutated = txn[h].secretMutated
          /\ txn'[h].storeMutated = txn[h].storeMutated
      BY <1>l, <2>1, <3>1 DEF Locals
    <3> QED
      BY <1>i, <1>t, <2>1, <3>2 DEF InTxn, Knows, Ring, File
  <2>3. CASE Fail(h, txn[h], "storage_error")
    BY <1>b, <1>t, <2>1, <2>3
  <2> QED
    BY <1>3, <2>2, <2>3 DEF ReadStore
<1>4. CASE ReadSecret(h)
  <2>1. UNCHANGED <<ring, file, mgr, base, goal, spoiled>> /\ In(h) /\ txn[h].pc = "snapshot"
    BY <1>4 DEF ReadSecret, At, In
  <2>2. CASE txn[h].req.action = "keep" /\ To(h, "resolve")
    BY <1>a, <1>i, <1>t, <2>1, <2>2 DEF InTxn, Knows, Ring, File, Same
  <2>3. CASE With(h, [txn[h] EXCEPT !.pc = "resolve", !.prev = ring])
    <3>1. txn'[h] = [txn[h] EXCEPT !.pc = "resolve", !.prev = ring]
      BY <2>3 DEF With, TypeOK
    <3>2. /\ txn'[h].pc = "resolve" /\ txn'[h].before = txn[h].before
          /\ txn'[h].code = txn[h].code /\ txn'[h].req = txn[h].req /\ txn'[h].prev = ring
          /\ txn'[h].secretMutated = txn[h].secretMutated
          /\ txn'[h].storeMutated = txn[h].storeMutated
      BY <1>l, <2>1, <3>1 DEF Locals
    <3> QED
      BY <1>i, <1>t, <2>1, <3>2 DEF InTxn, Knows, Ring, File
  <2>4. CASE Fail(h, txn[h], "secrets_unavailable")
    BY <1>b, <1>t, <2>1, <2>4
  <2> QED
    BY <1>4, <2>2, <2>3, <2>4 DEF ReadSecret
<1>5. CASE Resolve(h)
  <2>1. UNCHANGED <<ring, file, mgr, base, goal, spoiled>> /\ In(h) /\ txn[h].pc = "resolve"
    BY <1>5 DEF Resolve, At, In
  <2>2. CASE To(h, "secret")
    BY <1>a, <1>i, <1>t, <2>1, <2>2 DEF InTxn, Knows, Ring, File, Same
  <2>3. CASE Fail(h, txn[h], "pin_unknown")
    BY <1>b, <1>t, <2>1, <2>3
  <2> QED
    BY <1>5, <2>2, <2>3 DEF Resolve
<1>6. CASE ApplySecret(h)
  <2>1. UNCHANGED <<file, mgr, base, goal, spoiled>> /\ In(h) /\ txn[h].pc = "secret"
    BY <1>6 DEF ApplySecret, At, In
  <2>2. CASE txn[h].req.action = "keep" /\ To(h, "create") /\ UNCHANGED ring
    BY <1>a, <1>i, <1>t, <2>1, <2>2 DEF InTxn, Knows, Ring, File, Same
  <2>3. CASE /\ txn[h].req.action # "keep" /\ ring' = SecretAfter(ring, txn[h].req)
             /\ With(h, [txn[h] EXCEPT !.pc = "create", !.secretMutated = TRUE])
    <3>1. txn'[h] = [txn[h] EXCEPT !.pc = "create", !.secretMutated = TRUE]
      BY <2>3 DEF With, TypeOK
    <3>2. /\ txn'[h].pc = "create" /\ txn'[h].before = txn[h].before
          /\ txn'[h].code = txn[h].code /\ txn'[h].req = txn[h].req /\ txn'[h].prev = txn[h].prev
          /\ txn'[h].secretMutated = TRUE
          /\ txn'[h].storeMutated = txn[h].storeMutated
      BY <1>l, <2>1, <3>1 DEF Locals
    <3>3. ring' = goal.secret
      BY <1>i, <2>1, <2>3 DEF InTxn, Knows, Ring, Outcome
    <3> QED
      BY <1>i, <1>t, <2>1, <2>3, <3>2, <3>3 DEF InTxn, Knows, Ring, File
  <2>4. CASE Fail(h, txn[h], "secrets_unavailable") /\ UNCHANGED ring
    BY <1>b, <1>t, <2>1, <2>4
  <2> QED
    BY <1>6, <2>2, <2>3, <2>4 DEF ApplySecret
<1>7. CASE CreateTemp(h)
  <2>1. UNCHANGED <<ring, file, mgr, base, goal, spoiled>> /\ In(h) /\ txn[h].pc = "create"
    BY <1>7 DEF CreateTemp, At, In
  <2>2. CASE To(h, "rename")
    BY <1>a, <1>i, <1>t, <2>1, <2>2 DEF InTxn, Knows, Ring, File, Same
  <2>3. CASE Fail(h, txn[h], "storage_error")
    BY <1>b, <1>t, <2>1, <2>3
  <2> QED
    BY <1>7, <2>2, <2>3 DEF CreateTemp
<1>8. CASE Rename(h)
  <2>1. UNCHANGED <<ring, mgr, base, goal, spoiled>> /\ In(h) /\ txn[h].pc = "rename"
    BY <1>8 DEF Rename, At, In
  <2>2. CASE /\ file' = ProfileOf(txn[h].req)
             /\ With(h, [txn[h] EXCEPT !.pc = "build", !.storeMutated = TRUE])
    <3>1. txn'[h] = [txn[h] EXCEPT !.pc = "build", !.storeMutated = TRUE]
      BY <2>2 DEF With, TypeOK
    <3>2. /\ txn'[h].pc = "build" /\ txn'[h].before = txn[h].before
          /\ txn'[h].code = txn[h].code /\ txn'[h].req = txn[h].req /\ txn'[h].prev = txn[h].prev
          /\ txn'[h].secretMutated = txn[h].secretMutated
          /\ txn'[h].storeMutated = TRUE
      BY <1>l, <2>1, <3>1 DEF Locals
    <3>3. file' = goal.file
      BY <1>i, <2>1, <2>2 DEF InTxn, Outcome
    <3> QED
      BY <1>i, <1>t, <2>1, <3>2, <3>3 DEF InTxn, Knows, Ring, File
  <2>3. CASE Fail(h, txn[h], "storage_error") /\ UNCHANGED file
    BY <1>b, <1>t, <2>1, <2>3
  <2> QED
    BY <1>8, <2>2, <2>3 DEF Rename
<1>9. CASE Build(h)
  <2>1. UNCHANGED <<ring, file, mgr, base, goal, spoiled>> /\ In(h) /\ txn[h].pc = "build"
    BY <1>9 DEF Build, At, In
  <2>2. CASE To(h, "syncer")
    BY <1>a, <1>i, <1>t, <2>1, <2>2 DEF InTxn, Knows, Ring, File, Same
  <2>3. CASE Fail(h, txn[h], "invalid_url")
    BY <1>b, <1>t, <2>1, <2>3
  <2> QED
    BY <1>9, <2>2, <2>3, Activating DEF Build
<1>10. CASE SwitchSyncer(h)
  <2>1. /\ UNCHANGED <<ring, file, mgr, base, goal, spoiled>> /\ In(h) /\ txn[h].pc = "syncer"
        /\ To(h, "manager")
    BY <1>10, Activating DEF SwitchSyncer, At, In
  <2> QED
    BY <1>a, <1>i, <1>t, <2>1 DEF InTxn, Knows, Ring, File, Same
<1>11. CASE CommitManager(h)
  <2>1. /\ UNCHANGED <<ring, file, base, goal>> /\ In(h) /\ txn[h].pc = "manager"
        /\ To(h, "swap")
    BY <1>11, Activating DEF CommitManager, At, In
  <2> QED
    BY <1>a, <1>i, <1>t, <2>1 DEF InTxn, Knows, Ring, File, Same
<1>12. CASE CommitSwap(h) \/ AbortSwitch(h)
  <2>1. In(h) /\ txn[h].pc \in {"swap", "abort"} /\ To(h, "answer")
    BY <1>12, Activating DEF CommitSwap, AbortSwitch, At, In
  <2>2. ~In(h)'
    BY <1>a, <2>1 DEF In
  <2> QED
    BY <1>t, <2>1, <2>2
<1>13. CASE UndoSecret(h)
  <2>1. UNCHANGED <<file, mgr, base, goal>> /\ In(h) /\ txn[h].pc = "undo"
    BY <1>13 DEF UndoSecret, At, In
  <2>2. CASE ring' = txn[h].prev /\ To(h, "presence") /\ UNCHANGED spoiled
    BY <1>a, <1>i, <1>t, <2>1, <2>2 DEF InTxn, Knows, Ring, File, Same
  <2>3. CASE /\ spoiled' = spoiled \cup {"secret"} /\ UNCHANGED ring
             /\ To(h, AfterSecretUndo(txn[h]))
    BY <1>a, <1>i, <1>t, <2>1, <2>3 DEF AfterSecretUndo, InTxn, Knows, Ring, File, Same
  <2> QED
    BY <1>13, <2>2, <2>3 DEF UndoSecret
<1>14. CASE UndoPresence(h)
  <2>1. /\ UNCHANGED <<ring, file, base, goal, spoiled>> /\ In(h) /\ txn[h].pc = "presence"
        /\ mgr'.profile = mgr.profile /\ To(h, AfterSecretUndo(txn[h]))
    BY <1>14 DEF UndoPresence, At, In, TypeOK
  <2> QED
    BY <1>a, <1>i, <1>t, <2>1 DEF AfterSecretUndo, InTxn, Knows, Ring, File, Same
<1>15. CASE RemoveStore(h)
  <2>1. /\ UNCHANGED <<ring, mgr, base, goal>> /\ In(h) /\ txn[h].pc = "recreate"
        /\ txn[h].before = NoFile /\ To(h, "abort")
    BY <1>15 DEF RemoveStore, At, In
  <2>2. \/ file' = NoFile /\ UNCHANGED spoiled
        \/ spoiled' = spoiled \cup {"file"} /\ UNCHANGED file
    BY <1>15 DEF RemoveStore
  <2> QED
    BY <1>a, <1>i, <1>t, <2>1, <2>2 DEF InTxn, Knows, Ring, File, Same
<1>16. CASE RecreateTemp(h)
  <2>1. UNCHANGED <<ring, file, mgr, base, goal>> /\ In(h) /\ txn[h].pc = "recreate"
    BY <1>16 DEF RecreateTemp, At, In
  <2>2. CASE To(h, "restore") /\ UNCHANGED spoiled
    BY <1>a, <1>i, <1>t, <2>1, <2>2 DEF InTxn, Knows, Ring, File, Same
  <2>3. CASE spoiled' = spoiled \cup {"file"} /\ To(h, "abort")
    BY <1>a, <1>i, <1>t, <2>1, <2>3 DEF InTxn, Knows, Ring, File, Same
  <2> QED
    BY <1>16, <2>2, <2>3 DEF RecreateTemp
<1>17. CASE RestoreStore(h)
  <2>1. /\ UNCHANGED <<ring, mgr, base, goal>> /\ In(h) /\ txn[h].pc = "restore"
        /\ To(h, "abort")
    BY <1>17 DEF RestoreStore, At, In
  <2>2. \/ file' = txn[h].before /\ UNCHANGED spoiled
        \/ spoiled' = spoiled \cup {"file"} /\ UNCHANGED file
    BY <1>17 DEF RestoreStore
  <2> QED
    BY <1>a, <1>i, <1>t, <2>1, <2>2 DEF InTxn, Knows, Ring, File, Same
<1> QED
  BY <1>1, <1>2, <1>3, <1>4, <1>5, <1>6, <1>7, <1>8, <1>9, <1>10, <1>11, <1>12, <1>13, <1>14,
     <1>15, <1>16, <1>17 DEF Step

-----------------------------------------------------------------------------
(* The parts.                                                              *)

\* Only the steps of the activation change a client, an epoch or the backend
\* a profile names, or come to them.
LEMMA StepParts ==
  ASSUME TypeOK, DrainInv, PartsInv, NEW h \in Handler, Step(h)
  PROVE  PartsInv'
<1> USE DEF disk, hist
<1>f. Rest(h)
  BY StepFlow
<1>a. ASSUME NEW pc, NEW new, txn[h].pc = pc, pc # "idle", To(h, new)
      PROVE  txn'[h].pc = new /\ txn'[h].req = txn[h].req
  BY <1>a, ToFields DEF Same
<1>o. In(h) => \A g \in Handler \ {h} : txn[g].pc \notin {"manager", "swap"}
  BY DEF DrainInv, In, Inside, Undecided
<1>s. ASSUME txn[h].pc \notin {"manager", "swap"}, txn'[h].pc \notin {"manager", "swap"},
             UNCHANGED <<syn, view>>, mut'.client = mut.client,
             mgr'.profile = mgr.profile, mgr'.client = mgr.client, mgr'.epoch = mgr.epoch
      PROVE  PartsInv'
  <2>1. \A g \in Handler :
          /\ txn'[g].pc = "manager" <=> txn[g].pc = "manager"
          /\ txn'[g].pc = "swap" <=> txn[g].pc = "swap"
          /\ txn[g].pc \in {"manager", "swap"} => txn'[g] = txn[g]
    BY <1>f, <1>s DEF Rest
  <2> QED
    BY <1>s, <2>1 DEF PartsInv
<1>1. CASE \/ BeginSwitch(h) \/ Refused(h) \/ ReadStore(h) \/ ReadSecret(h) \/ Resolve(h)
           \/ ApplySecret(h) \/ CreateTemp(h) \/ Rename(h) \/ Build(h) \/ UndoSecret(h)
           \/ UndoPresence(h) \/ RemoveStore(h) \/ RecreateTemp(h) \/ RestoreStore(h)
           \/ AbortSwitch(h) \/ Return(h)
  <2>1. txn[h].pc \notin {"syncer", "manager", "swap"} /\ UNCHANGED <<syn, view>>
    BY <1>1 DEF BeginSwitch, Refused, ReadStore, ReadSecret, Resolve, ApplySecret, CreateTemp,
       Rename, Build, UndoSecret, UndoPresence, RemoveStore, RecreateTemp, RestoreStore,
       AbortSwitch, Return, At
  <2>2. txn'[h].pc \notin {"manager", "swap"}
    BY <2>1, StepFlow DEF SwitchSyncer, CommitManager, At
  <2>3. mut'.client = mut.client
    BY <1>1 DEF BeginSwitch, Refused, ReadStore, ReadSecret, Resolve, ApplySecret, CreateTemp,
       Rename, Build, UndoSecret, UndoPresence, RemoveStore, RecreateTemp, RestoreStore,
       AbortSwitch, Return, TypeOK
  <2>4. mgr'.profile = mgr.profile /\ mgr'.client = mgr.client /\ mgr'.epoch = mgr.epoch
    BY <1>1 DEF BeginSwitch, Refused, ReadStore, ReadSecret, Resolve, ApplySecret, CreateTemp,
       Rename, Build, UndoSecret, UndoPresence, RemoveStore, RecreateTemp, RestoreStore,
       AbortSwitch, Return, TypeOK
  <2> QED
    BY <1>s, <2>1, <2>2, <2>3, <2>4
<1>2. CASE SwitchSyncer(h)
  <2>1. /\ txn[h].pc = "syncer" /\ In(h) /\ To(h, "manager") /\ UNCHANGED <<mgr, mut, view>>
        /\ syn'.client = ProfileOf(txn[h].req) /\ syn'.epoch = syn.epoch + 1
    BY <1>2, Activating DEF SwitchSyncer, At, In, Inside, Undecided
  <2>2. txn'[h].pc = "manager" /\ txn'[h].req = txn[h].req
    BY <1>a, <2>1
  <2>3. \A g \in Handler : txn[g].pc \notin {"manager", "swap"}
    BY <1>o, <2>1
  <2>4. \A g \in Handler \ {h} : txn'[g].pc \notin {"manager", "swap"}
    BY <1>f, <2>3 DEF Rest
  <2>5. syn.epoch = mgr.epoch /\ syn.epoch \in Nat /\ mgr.epoch \in Nat
    BY <2>3 DEF PartsInv, TypeOK
  <2> QED
    BY <2>1, <2>2, <2>3, <2>4, <2>5 DEF PartsInv
<1>3. CASE CommitManager(h)
  <2>1. /\ txn[h].pc = "manager" /\ In(h) /\ To(h, "swap") /\ UNCHANGED <<syn, mut, view>>
        /\ mgr'.client = ProfileOf(txn[h].req) /\ mgr'.profile = ProfileOf(txn[h].req)
        /\ mgr'.epoch = mgr.epoch + 1
    BY <1>3, Activating DEF CommitManager, At, In, Inside, Undecided
  <2>2. txn'[h].pc = "swap" /\ txn'[h].req = txn[h].req
    BY <1>a, <2>1
  <2>4. \A g \in Handler \ {h} : txn'[g].pc \notin {"manager", "swap"}
    BY <1>f, <1>o, <2>1 DEF Rest
  <2>5. /\ syn.client = ProfileOf(txn[h].req) /\ syn.epoch = mgr.epoch + 1
        /\ mgr.epoch \in Nat /\ view.epoch \in Nat
    BY <2>1 DEF PartsInv, TypeOK
  <2> QED
    BY <2>1, <2>2, <2>4, <2>5 DEF PartsInv
<1>4. CASE CommitSwap(h)
  <2>1. /\ txn[h].pc = "swap" /\ In(h) /\ To(h, "answer") /\ UNCHANGED <<syn, mgr, view>>
        /\ mut'.client = ProfileOf(txn[h].req)
    BY <1>4, Activating DEF CommitSwap, At, In, Inside, TypeOK
  <2>2. txn'[h].pc = "answer"
    BY <1>a, <2>1
  <2>4. \A g \in Handler : txn'[g].pc \notin {"manager", "swap"}
    BY <1>f, <1>o, <2>1, <2>2 DEF Rest
  <2>5. /\ syn.client = mgr.client /\ syn.epoch = mgr.epoch
        /\ mgr.client = mgr.profile /\ mgr.profile = ProfileOf(txn[h].req)
    BY <1>o, <2>1 DEF PartsInv
  <2> QED
    BY <2>1, <2>4, <2>5 DEF PartsInv
<1> QED
  BY <1>1, <1>2, <1>3, <1>4 DEF Step

-----------------------------------------------------------------------------
(* The disk and the temporary file.                                        *)

LEMMA StepDisk ==
  ASSUME TypeOK, DrainInv, TxnInv, DiskInv, TxnInv', NEW h \in Handler, Step(h)
  PROVE  DiskInv'
<1> USE DEF disk, hist
<1>f. Rest(h)
  BY StepFlow
<1>a. ASSUME NEW pc, NEW new, txn[h].pc = pc, pc # "idle", To(h, new)
      PROVE  txn'[h].pc = new /\ Same(h)
  BY <1>a, ToFields
<1>i. In(h) => InTxn(txn[h])
  BY DEF TxnInv
<1>n. (In(h)' => InTxn(txn[h])')
  BY DEF TxnInv
<1>o. In(h) => \A g \in Handler \ {h} : ~In(g) /\ ~In(g)'
  BY <1>f DEF DrainInv, Rest, In
<1>1. CASE BeginSwitch(h)
  <2>1. /\ base'.secret = ring /\ base'.file = file
        /\ UNCHANGED <<ring, file, mgr, spoiled>> /\ txn'[h].pc = "file"
    BY <1>1, <1>a DEF BeginSwitch, Current, At
  <2>2. \A g \in Handler : ~In(g)
    BY <1>1 DEF BeginSwitch, MaySwitch, DrainInv, TypeOK
  <2>3. ~(\E g \in Handler : txn[g].pc \in Undecided)
    BY <2>2 DEF In, Inside
  <2>4. txn'[h].pc \in Undecided
    BY <2>1 DEF Undecided
  <2> QED
    BY <2>1, <2>3, <2>4 DEF DiskInv
<1>2. CASE Refused(h) \/ Return(h)
  <2>1. UNCHANGED <<ring, file, mgr, base, goal, spoiled>>
    BY <1>2 DEF Refused, Return
  <2>2. ~In(h) /\ ~In(h)'
    BY <1>2, StepFlow DEF Refused, Return, BeginSwitch, CommitSwap, AbortSwitch, At, In, Inside, Undecided
  <2>3. \A g \in Handler : txn'[g].pc \in Undecided <=> txn[g].pc \in Undecided
    BY <1>f, <2>2 DEF Rest, In, Inside
  <2> QED
    BY <2>1, <2>3 DEF DiskInv
<1>3. CASE CommitManager(h)
  <2>1. /\ UNCHANGED <<ring, file, base, goal>> /\ In(h) /\ txn[h].pc = "manager"
        /\ To(h, "swap") /\ mgr'.profile = ProfileOf(txn[h].req)
    BY <1>3, Activating DEF CommitManager, At, In, Inside, Undecided
  <2>2. txn'[h].pc = "swap"
    BY <1>a, <2>1
  <2>3. ~(\E g \in Handler : txn'[g].pc \in Undecided)
    BY <1>o, <2>1, <2>2 DEF In, Inside, Undecided
  <2>4. file = goal.file /\ goal.file = ProfileOf(txn[h].req)
    BY <1>i, <2>1 DEF InTxn, Knows, File, Outcome
  <2>5. txn[h].req \in Request
    BY <2>1, BusyLocals DEF Locals
  <2>6. Loaded(file) = ProfileOf(txn[h].req)
    BY <2>4, <2>5, ProfileType, ConfigureAssumption DEF Loaded
  <2> QED
    BY <2>1, <2>3, <2>6 DEF DiskInv, Loaded
<1>4. CASE CommitSwap(h)
  <2>1. /\ UNCHANGED <<ring, file, base, goal, mgr, spoiled>> /\ In(h) /\ txn[h].pc = "swap"
        /\ To(h, "answer")
    BY <1>4, Activating DEF CommitSwap, At, In, Inside
  <2>2. txn'[h].pc = "answer"
    BY <1>a, <2>1
  <2>3. ~(\E g \in Handler : txn[g].pc \in Undecided) /\ ~(\E g \in Handler : txn'[g].pc \in Undecided)
    BY <1>o, <2>1, <2>2 DEF In, Inside, Undecided
  <2> QED
    BY <2>1, <2>3 DEF DiskInv, Loaded
<1>5. CASE AbortSwitch(h)
  <2>1. /\ UNCHANGED <<ring, file, base, goal, mgr, spoiled>> /\ In(h) /\ txn[h].pc = "abort"
        /\ To(h, "answer")
    BY <1>5 DEF AbortSwitch, At, In, Inside, Undecided
  <2>2. txn'[h].pc = "answer"
    BY <1>a, <2>1
  <2>3. (\E g \in Handler : txn[g].pc \in Undecided) /\ ~(\E g \in Handler : txn'[g].pc \in Undecided)
    BY <1>o, <2>1, <2>2 DEF In, Inside, Undecided
  <2>4. file = base.file \/ "file" \in spoiled
    BY <1>i, <2>1 DEF InTxn, File
  <2> QED
    BY <2>1, <2>3, <2>4 DEF DiskInv, Loaded
<1>6. ASSUME In(h), txn[h].pc # "swap", In(h)', txn'[h].pc # "swap",
             UNCHANGED <<base, goal>>, mgr'.profile = mgr.profile,
             ring' \in {ring, base.secret, goal.secret}, file' \in {file, base.file, goal.file},
             spoiled \subseteq spoiled'
      PROVE  DiskInv'
  <2>1. (\E g \in Handler : txn[g].pc \in Undecided) /\ (\E g \in Handler : txn'[g].pc \in Undecided)
    BY <1>6 DEF In, Inside
  <2> QED
    BY <1>6, <2>1 DEF DiskInv
<1>7. CASE ReadStore(h) \/ ReadSecret(h) \/ Resolve(h) \/ Build(h) \/ SwitchSyncer(h) \/ CreateTemp(h)
  <2>1. UNCHANGED <<ring, file, mgr, base, goal, spoiled>> /\ txn[h].pc # "swap"
    BY <1>7 DEF ReadStore, ReadSecret, Resolve, Build, SwitchSyncer, CreateTemp, At
  <2>2. In(h) /\ In(h)'
    BY <1>7, StepFlow DEF ReadStore, ReadSecret, Resolve, Build, SwitchSyncer, CreateTemp,
       BeginSwitch, Refused, Return, CommitSwap, AbortSwitch, At
  <2>3. txn'[h].pc # "swap"
    BY <1>7, StepFlow DEF ReadStore, ReadSecret, Resolve, Build, SwitchSyncer, CreateTemp, CommitManager, At
  <2> QED
    BY <1>6, <2>1, <2>2, <2>3
<1>8. CASE ApplySecret(h) \/ Rename(h) \/ UndoSecret(h) \/ UndoPresence(h) \/ RemoveStore(h)
           \/ RecreateTemp(h) \/ RestoreStore(h)
  <2>1. /\ UNCHANGED <<base, goal>> /\ txn[h].pc # "swap" /\ mgr'.profile = mgr.profile
        /\ spoiled \subseteq spoiled'
    BY <1>8 DEF ApplySecret, Rename, UndoSecret, UndoPresence, RemoveStore, RecreateTemp,
       RestoreStore, At, TypeOK
  <2>2. In(h) /\ In(h)'
    BY <1>8, StepFlow DEF ApplySecret, Rename, UndoSecret, UndoPresence, RemoveStore, RecreateTemp,
       RestoreStore, BeginSwitch, Refused, Return, CommitSwap, AbortSwitch, At
  <2>3. txn'[h].pc # "swap"
    BY <1>8, StepFlow DEF ApplySecret, Rename, UndoSecret, UndoPresence, RemoveStore, RecreateTemp,
       RestoreStore, CommitManager, At
  <2>4. ring' \in {ring, base.secret, goal.secret}
    <3>1. CASE ApplySecret(h)
      BY <1>i, <2>2, <3>1 DEF ApplySecret, At, InTxn, Knows, Ring, Outcome
    <3>2. CASE UndoSecret(h)
      BY <1>i, <2>2, <3>2 DEF UndoSecret, At, InTxn, Knows
    <3> QED
      BY <1>8, <3>1, <3>2 DEF Rename, UndoPresence, RemoveStore, RecreateTemp, RestoreStore
  <2>5. file' \in {file, base.file, goal.file}
    <3>1. CASE Rename(h)
      BY <1>i, <2>2, <3>1 DEF Rename, At, InTxn, Outcome
    <3>2. CASE RemoveStore(h) \/ RestoreStore(h)
      BY <1>i, <2>2, <3>2 DEF RemoveStore, RestoreStore, At, InTxn, Knows
    <3> QED
      BY <1>8, <3>1, <3>2 DEF ApplySecret, UndoSecret, UndoPresence, RecreateTemp
  <2> QED
    BY <1>6, <2>1, <2>2, <2>3, <2>4, <2>5
<1> QED
  BY <1>1, <1>2, <1>3, <1>4, <1>5, <1>7, <1>8 DEF Step

LEMMA StepTemp ==
  ASSUME TypeOK, TempInv, NEW h \in Handler, Step(h)
  PROVE  TempInv'
<1>f. Rest(h)
  BY StepFlow
<1>u. up' = up /\ crashes' = crashes
  BY DEF Step, BeginSwitch, Refused, ReadStore, ReadSecret, Resolve, ApplySecret, CreateTemp,
     Rename, Build, SwitchSyncer, CommitManager, CommitSwap, UndoSecret, UndoPresence,
     RemoveStore, RecreateTemp, RestoreStore, AbortSwitch, Return
<1>a. ASSUME NEW pc, NEW new, txn[h].pc = pc, pc # "idle", To(h, new)
      PROVE  txn'[h].pc = new
  BY <1>a, ToFields
<1>1. CASE tmp' = tmp /\ txn[h].pc \notin {"rename", "restore"}
  <2>1. \A g \in Handler : txn[g].pc \in {"rename", "restore"} => txn'[g] = txn[g]
    BY <1>f, <1>1 DEF Rest
  <2> QED
    BY <1>1, <1>u, <2>1 DEF TempInv
<1>2. CASE tmp' = FALSE
  BY <1>2, <1>u DEF TempInv
<1>3. CASE txn'[h].pc \in {"rename", "restore"}
  BY <1>3, <1>u DEF TempInv
<1>4. CASE CreateTemp(h)
  BY <1>1, <1>3, <1>4, <1>a DEF CreateTemp, At
<1>5. CASE RecreateTemp(h)
  BY <1>1, <1>3, <1>5, <1>a DEF RecreateTemp, At
<1>6. CASE RestoreStore(h)
  <2>1. CASE tmp' = FALSE
    BY <1>2, <2>1
  <2> QED
    BY <1>6, <2>1 DEF RestoreStore, Cleanup
<1>7. CASE Rename(h)
  BY <1>2, <1>7 DEF Rename, Cleanup
<1> QED
  BY <1>1, <1>4, <1>5, <1>6, <1>7 DEF Step, disk, BeginSwitch, Refused, ReadStore, ReadSecret,
     Resolve, ApplySecret, Build, SwitchSyncer, CommitManager, CommitSwap, UndoSecret,
     UndoPresence, RemoveStore, AbortSwitch, Return, At

-----------------------------------------------------------------------------
(* The flag of the secret.                                                 *)

\* A transaction that has changed the keyring and has not answered for it yet.
Owes(l) ==
  \/ l.pc = "presence"
  \/ l.pc \in {"create", "rename", "build", "syncer", "manager", "undo"} /\ l.secretMutated

\* Which steps make good what is owed.
LEMMA StepOwes ==
  ASSUME TypeOK, NEW h \in Handler, Step(h)
  PROVE  \/ Owes(txn[h]) => Owes(txn[h])'
         \/ CommitManager(h) \/ UndoPresence(h) \/ "secret" \in spoiled'
<1>a. ASSUME NEW pc, NEW new, txn[h].pc = pc, pc # "idle", To(h, new)
      PROVE  txn'[h].pc = new /\ txn'[h].secretMutated = txn[h].secretMutated
  BY <1>a, ToFields DEF Same
<1>b. ASSUME NEW code, txn[h].pc # "idle", Fail(h, txn[h], code), Owes(txn[h])
      PROVE  Owes(txn[h])' \/ txn[h].pc = "presence"
  BY <1>b, FailFields DEF Owes, Same
<1>l. txn[h].pc # "idle" => txn[h] \in Locals
  BY BusyLocals
<1>1. CASE CreateTemp(h)
  BY <1>1, <1>a, <1>b DEF CreateTemp, At, Owes
<1>2. CASE Rename(h)
  <2>1. CASE With(h, [txn[h] EXCEPT !.pc = "build", !.storeMutated = TRUE])
    <3>1. txn'[h] = [txn[h] EXCEPT !.pc = "build", !.storeMutated = TRUE]
      BY <2>1 DEF With, TypeOK
    <3>2. txn'[h].pc = "build" /\ txn'[h].secretMutated = txn[h].secretMutated
      BY <1>2, <1>l, <3>1 DEF Rename, At, Locals
    <3> QED
      BY <1>2, <3>2 DEF Owes, Rename, At
  <2> QED
    BY <1>2, <1>b, <2>1 DEF Rename, At
<1>3. CASE Build(h)
  BY <1>3, <1>a, <1>b, Activating DEF Build, At, Owes
<1>4. CASE SwitchSyncer(h)
  BY <1>4, <1>a, Activating DEF SwitchSyncer, At, Owes
<1>5. CASE UndoSecret(h)
  BY <1>5, <1>a DEF UndoSecret, At, Owes
<1>6. CASE \/ BeginSwitch(h) \/ Refused(h) \/ ReadStore(h) \/ ReadSecret(h) \/ Resolve(h)
           \/ ApplySecret(h) \/ CommitSwap(h) \/ RemoveStore(h) \/ RecreateTemp(h)
           \/ RestoreStore(h) \/ AbortSwitch(h) \/ Return(h)
  BY <1>6 DEF BeginSwitch, Refused, ReadStore, ReadSecret, Resolve, ApplySecret, CommitSwap,
     RemoveStore, RecreateTemp, RestoreStore, AbortSwitch, Return, At, Owes
<1> QED
  BY <1>1, <1>2, <1>3, <1>4, <1>5, <1>6 DEF Step

LEMMA StepPresence ==
  ASSUME TypeOK, DrainInv, TxnInv, PresenceInv, NEW h \in Handler, Step(h)
  PROVE  PresenceInv'
<1> USE DEF disk, hist
<1>f. Rest(h)
  BY StepFlow
<1>a. ASSUME NEW pc, NEW new, txn[h].pc = pc, pc # "idle", To(h, new)
      PROVE  txn'[h].pc = new /\ txn'[h].secretMutated = txn[h].secretMutated
  BY <1>a, ToFields DEF Same
<1>i. In(h) => InTxn(txn[h])
  BY DEF TxnInv
<1>o. \A g \in Handler : Owes(txn[g]) => In(g)
  BY DEF Owes, In, Inside, Undecided
<1>s. ASSUME UNCHANGED <<ring, refresh>>, mgr'.hasSecret = mgr.hasSecret,
             "secret" \in spoiled => "secret" \in spoiled',
             "secret" \in spoiled' \/ (Owes(txn[h]) => Owes(txn[h])')
      PROVE  PresenceInv'
  <2>1. \A g \in Handler : Owes(txn[g]) => "secret" \in spoiled' \/ Owes(txn[g])'
    BY <1>f, <1>s DEF Rest
  <2> QED
    BY <1>s, <2>1 DEF PresenceInv, Owes
<1>1. CASE ApplySecret(h)
  <2>1. CASE UNCHANGED <<ring, refresh>>
    <3>1. ~Owes(txn[h])
      BY <1>1 DEF ApplySecret, At, Owes
    <3> QED
      BY <1>1, <1>s, <2>1, <3>1 DEF ApplySecret
  <2>2. CASE Outdates /\ With(h, [txn[h] EXCEPT !.pc = "create", !.secretMutated = TRUE])
    <3>1. txn'[h] = [txn[h] EXCEPT !.pc = "create", !.secretMutated = TRUE]
      BY <2>2 DEF With, TypeOK
    <3>2. Owes(txn[h])'
      BY <1>1, <3>1, BusyLocals DEF Owes, ApplySecret, At, Locals
    <3>3. refresh'.pc = refresh.pc /\ (refresh.pc = "set" => refresh'.raced)
      BY <2>2 DEF Outdates, TypeOK
    <3> QED
      BY <3>2, <3>3 DEF PresenceInv, Owes
  <2> QED
    BY <1>1, <2>1, <2>2 DEF ApplySecret
<1>2. CASE UndoSecret(h)
  <2>1. CASE UNCHANGED <<ring, refresh>> /\ spoiled' = spoiled \cup {"secret"}
    BY <1>2, <1>s, <2>1 DEF UndoSecret
  <2>2. CASE Outdates /\ To(h, "presence")
    <3>1. Owes(txn[h])'
      BY <1>2, <1>a, <2>2 DEF Owes, UndoSecret, At
    <3>2. refresh'.pc = refresh.pc /\ (refresh.pc = "set" => refresh'.raced)
      BY <2>2 DEF Outdates, TypeOK
    <3> QED
      BY <3>1, <3>2 DEF PresenceInv, Owes
  <2> QED
    BY <1>2, <2>1, <2>2 DEF UndoSecret
<1>3. CASE UndoPresence(h)
  <2>1. mgr'.hasSecret = (txn[h].prev # NoSecret) /\ UNCHANGED <<ring, refresh>>
    BY <1>3 DEF UndoPresence, TypeOK
  <2>2. ring = txn[h].prev
    BY <1>3, <1>i DEF UndoPresence, At, In, Inside, Undecided, InTxn, Knows, Ring
  <2> QED
    BY <2>1, <2>2 DEF PresenceInv
<1>4. CASE CommitManager(h)
  <2>1. /\ mgr'.hasSecret = Presence(txn[h].req) /\ UNCHANGED <<ring, refresh>>
        /\ txn[h].pc = "manager" /\ In(h)
    BY <1>4 DEF CommitManager, At, In, Inside, Undecided
  <2>2. txn[h].req \in Request
    BY <2>1, BusyLocals DEF Locals
  <2>3. CASE txn[h].req.action = "keep"
    <3>1. ~Owes(txn[h])
      BY <1>i, <2>1, <2>3 DEF InTxn, Knows, Owes
    <3>2. mgr'.hasSecret = mgr.hasSecret /\ ("secret" \in spoiled => "secret" \in spoiled')
      BY <1>4, <2>1, <2>3 DEF CommitManager, Presence
    <3> QED
      BY <1>s, <2>1, <3>1, <3>2
  <2>4. CASE txn[h].req.action # "keep"
    <3>1. ring = goal.secret /\ goal.secret = SecretAfter(base.secret, txn[h].req)
      BY <1>i, <2>1, <2>4 DEF InTxn, Knows, Ring, Outcome
    <3>2. mgr'.hasSecret = (ring # NoSecret)
      BY <2>1, <2>2, <2>4, <3>1, ConfigureAssumption DEF Presence, SecretAfter, Actions
    <3> QED
      BY <2>1, <3>2 DEF PresenceInv
  <2> QED
    BY <2>3, <2>4
<1>5. CASE \/ BeginSwitch(h) \/ Refused(h) \/ ReadStore(h) \/ ReadSecret(h) \/ Resolve(h)
           \/ CreateTemp(h) \/ Rename(h) \/ Build(h) \/ SwitchSyncer(h) \/ CommitSwap(h)
           \/ RemoveStore(h) \/ RecreateTemp(h) \/ RestoreStore(h) \/ AbortSwitch(h) \/ Return(h)
  <2>1. UNCHANGED <<ring, refresh, mgr>> /\ ("secret" \in spoiled => "secret" \in spoiled')
    BY <1>5 DEF BeginSwitch, Refused, ReadStore, ReadSecret, Resolve, CreateTemp, Rename, Build,
       SwitchSyncer, CommitSwap, RemoveStore, RecreateTemp, RestoreStore, AbortSwitch, Return
  <2>2. ~CommitManager(h) /\ ~UndoPresence(h)
    BY <1>5 DEF BeginSwitch, Refused, ReadStore, ReadSecret, Resolve, CreateTemp, Rename, Build,
       SwitchSyncer, CommitSwap, RemoveStore, RecreateTemp, RestoreStore, AbortSwitch, Return,
       CommitManager, UndoPresence, At
  <2> QED
    BY <1>s, <2>1, <2>2, StepOwes
<1> QED
  BY <1>1, <1>2, <1>3, <1>4, <1>5 DEF Step

-----------------------------------------------------------------------------
(* Every step.                                                             *)

LEMMA Initially == Init => IInv
<1> SUFFICES ASSUME Init PROVE IInv
  OBVIOUS
<1>1. LoadActive \in Profile /\ Loaded(file) = LoadActive
  BY ConfigureAssumption DEF Init, LoadActive, Loaded
<1>2. \A h \in Handler : txn[h].pc = "idle"
  BY DEF Init, Idle
<1>3. TypeOK
  <2>1. mgr \in [profile : Profile, epoch : Nat, client : Profile, hasSecret : BOOLEAN]
    BY <1>1 DEF Init, NewManager
  <2>2. syn \in [client : Profile, epoch : Nat] /\ mut \in [client : Profile, draining : BOOLEAN, busy : BOOLEAN]
    BY <1>1 DEF Init, NewSyncer, NewMutator
  <2>3. file \in Profile \cup {NoFile} /\ ring \in Secret \cup {NoSecret}
    BY ConfigureAssumption DEF Init
  <2>4. base \in Conns /\ goal \in Conns
    BY <2>1, <2>3 DEF Init, Current, Conns
  <2>5. offered \in Seq(Pin) /\ Len(offered) <= OfferedCap
    BY ConfigureAssumption DEF Init
  <2>6. view \in [half : BOOLEAN, epoch : Nat, of : Nat]
    BY DEF Init, Unread
  <2>7. refresh \in [pc : {"get", "set", "fail", "done", "unknown"}, found : BOOLEAN, raced : BOOLEAN]
    BY DEF Init, Starting
  <2>8. /\ txn \in [Handler -> Locals \cup {Idle}] /\ spoiled \subseteq {"secret", "file"}
        /\ up \in BOOLEAN /\ crashes \in 0..MaxCrash /\ tmp \in BOOLEAN
    <3>1. txn \in [Handler -> Locals \cup {Idle}] /\ spoiled \subseteq {"secret", "file"}
      BY DEF Init
    <3>2. crashes \in 0..MaxCrash
      BY ConfigureAssumption DEF Init
    <3> QED
      BY <3>1, <3>2 DEF Init
  <2> QED
    BY <2>1, <2>2, <2>3, <2>4, <2>5, <2>6, <2>7, <2>8 DEF TypeOK
<1>4. \A h \in Handler : ~In(h)
  BY <1>2 DEF In, Inside, Undecided
<1>5. DrainInv
  BY <1>4 DEF DrainInv, Init, NewMutator
<1>6. TxnInv
  BY <1>2, <1>4 DEF TxnInv
<1>7. PartsInv
  BY <1>2 DEF PartsInv, Init, NewManager, NewSyncer, NewMutator, Unread
<1>8. DiskInv
  BY <1>1, <1>2 DEF DiskInv, Init, Undecided, Current, NewManager
<1>9. TempInv /\ PresenceInv
  BY DEF TempInv, PresenceInv, Init, Starting
<1> QED
  BY <1>3, <1>5, <1>6, <1>7, <1>8, <1>9 DEF IInv

\* What each invariant is about.
LEMMA Frame ==
  ASSUME UNCHANGED txn
  PROVE  /\ DrainInv /\ mut'.draining = mut.draining /\ (mut'.busy => ~mut.draining) => DrainInv'
         /\ TxnInv /\ UNCHANGED <<ring, file, base, goal, spoiled>> /\ mgr'.profile = mgr.profile => TxnInv'
         /\ PartsInv /\ UNCHANGED <<syn, view>> /\ mgr'.profile = mgr.profile
              /\ mgr'.client = mgr.client /\ mgr'.epoch = mgr.epoch /\ mut'.client = mut.client => PartsInv'
         /\ DiskInv /\ UNCHANGED <<ring, file, base, goal, spoiled>> /\ mgr'.profile = mgr.profile => DiskInv'
         /\ TempInv /\ UNCHANGED <<tmp, up, crashes>> => TempInv'
         /\ PresenceInv /\ UNCHANGED <<ring, refresh, mgr, spoiled>> => PresenceInv'
<1>1. DrainInv /\ mut'.draining = mut.draining /\ (mut'.busy => ~mut.draining) => DrainInv'
  BY DEF DrainInv, In
<1>2. TxnInv /\ UNCHANGED <<ring, file, base, goal, spoiled>> /\ mgr'.profile = mgr.profile => TxnInv'
  BY DEF TxnInv, In, InTxn, Knows, Ring, File
<1>3. PartsInv /\ UNCHANGED <<syn, view>> /\ mgr'.profile = mgr.profile
        /\ mgr'.client = mgr.client /\ mgr'.epoch = mgr.epoch /\ mut'.client = mut.client => PartsInv'
  BY DEF PartsInv
<1>4. DiskInv /\ UNCHANGED <<ring, file, base, goal, spoiled>> /\ mgr'.profile = mgr.profile => DiskInv'
  BY DEF DiskInv
<1>5. TempInv /\ UNCHANGED <<tmp, up, crashes>> => TempInv'
  BY DEF TempInv
<1>6. PresenceInv /\ UNCHANGED <<ring, refresh, mgr, spoiled>> => PresenceInv'
  BY DEF PresenceInv
<1> QED
  BY <1>1, <1>2, <1>3, <1>4, <1>5, <1>6

\* Steps beside the transactions leave the handlers alone.
LEMMA Inductive == IInv /\ [Next]_vars => IInv'
<1> SUFFICES ASSUME IInv, [Next]_vars PROVE IInv'
  OBVIOUS
<1> USE DEF disk, hist
<1>i. TypeOK /\ DrainInv /\ TxnInv /\ PartsInv /\ DiskInv /\ TempInv /\ PresenceInv
  BY DEF IInv
<1>1. ASSUME NEW h \in Handler, Receive(h)
      PROVE  IInv'
  <2>1. PICK r \in Request :
          txn' = [txn EXCEPT ![h] = [pc |-> "begin", req |-> r, prev |-> NoSecret,
                                     before |-> NoFile, secretMutated |-> FALSE,
                                     storeMutated |-> FALSE, code |-> "ok"]]
    BY <1>1 DEF Receive, With
  <2>2. UNCHANGED <<up, crashes, disk, mgr, offered, syn, mut, refresh, view, hist>>
    BY <1>1 DEF Receive
  <2>3. txn[h].pc = "idle"
    BY <1>1 DEF Receive, Idle
  <2>4. /\ txn'[h].pc = "begin" /\ txn'[h].code = "ok"
        /\ ~txn'[h].secretMutated /\ ~txn'[h].storeMutated
        /\ \A g \in Handler \ {h} : txn'[g] = txn[g]
    BY <1>i, <2>1 DEF TypeOK
  <2>5. TypeOK'
    <3>1. txn'[h] \in Locals
      BY <1>i, <2>1 DEF TypeOK, Locals, Steps, Codes
    <3>2. txn' \in [Handler -> Locals \cup {Idle}]
      BY <1>i, <2>1, <3>1 DEF TypeOK
    <3> QED
      BY <1>i, <2>2, <3>2 DEF TypeOK
  <2>6. \A g \in Handler :
          /\ In(g)' <=> In(g)
          /\ In(g) => txn'[g] = txn[g]
          /\ txn'[g].pc \in Undecided <=> txn[g].pc \in Undecided
          /\ txn'[g].pc = "manager" <=> txn[g].pc = "manager"
          /\ txn'[g].pc = "swap" <=> txn[g].pc = "swap"
          /\ txn'[g].pc \in {"rename", "restore"} <=> txn[g].pc \in {"rename", "restore"}
          /\ txn'[g].pc = "begin" => g = h \/ txn'[g] = txn[g]
    BY <2>3, <2>4 DEF In, Inside, Undecided
  <2>7. DrainInv'
    BY <1>i, <2>2, <2>6 DEF DrainInv
  <2>8. TxnInv'
    BY <1>i, <2>2, <2>4, <2>6 DEF TxnInv, InTxn, Knows, Ring, File
  <2>9. PartsInv'
    <3>1. \A g \in Handler : txn'[g].pc \in {"manager", "swap"} => txn'[g] = txn[g]
      BY <2>6 DEF In, Inside, Undecided
    <3> QED
      BY <1>i, <2>2, <2>6, <3>1 DEF PartsInv
  <2>10. DiskInv' /\ TempInv'
    BY <1>i, <2>2, <2>6 DEF DiskInv, TempInv
  <2>11. PresenceInv'
    <3>1. \A g \in Handler : txn[g].pc # "idle" => txn'[g] = txn[g]
      BY <2>3, <2>4
    <3> QED
      BY <1>i, <2>2, <3>1 DEF PresenceInv
  <2> QED
    BY <2>5, <2>7, <2>8, <2>9, <2>10, <2>11 DEF IInv
<1>2. ASSUME NEW h \in Handler, Step(h)
      PROVE  IInv'
  BY <1>2, <1>i, StepType, StepDrain, StepTxn, StepParts, StepDisk, StepTemp, StepPresence DEF IInv
<1>d. DrainInv => (mut.busy => ~mut.draining)
  BY DEF DrainInv
<1>3. CASE RefreshGet
  <2>1. TypeOK'
    BY <1>3, <1>i DEF RefreshGet, TypeOK
  <2>2. PresenceInv'
    BY <1>3, <1>i DEF RefreshGet, TypeOK, PresenceInv
  <2> QED
    BY <1>3, <1>i, <1>d, <2>1, <2>2, Frame DEF RefreshGet, IInv
<1>4. CASE RefreshSet
  <2>1. TypeOK'
    BY <1>4, <1>i DEF RefreshSet, TypeOK
  <2>2. PresenceInv'
    BY <1>4, <1>i DEF RefreshSet, TypeOK, PresenceInv
  <2>3. mgr'.profile = mgr.profile /\ mgr'.client = mgr.client /\ mgr'.epoch = mgr.epoch
    BY <1>4, <1>i DEF RefreshSet, TypeOK
  <2> QED
    BY <1>4, <1>i, <1>d, <2>1, <2>2, <2>3, Frame DEF RefreshSet, IInv
<1>5. CASE StatusProfile \/ StatusState
  <2>1. /\ view' \in [half : BOOLEAN, epoch : Nat, of : Nat]
        /\ IF view'.half THEN mgr.epoch >= view'.epoch ELSE view'.of >= view'.epoch
    <3>1. CASE StatusProfile
      BY <1>i, <3>1 DEF StatusProfile, TypeOK
    <3>2. CASE StatusState
      <4>1. view' = [view EXCEPT !.half = FALSE, !.of = syn.epoch] /\ view.half
        BY <3>2 DEF StatusState
      <4>2. view \in [half : BOOLEAN, epoch : Nat, of : Nat] /\ syn.epoch \in Nat /\ mgr.epoch \in Nat
        BY <1>i DEF TypeOK
      <4>3. view'.half = FALSE /\ view'.epoch = view.epoch /\ view'.of = syn.epoch
        BY <4>1, <4>2
      <4>4. mgr.epoch >= view.epoch /\ syn.epoch >= mgr.epoch
        BY <1>i, <4>1 DEF PartsInv
      <4>5. view.epoch \in Nat /\ syn.epoch >= view.epoch
        BY <4>2, <4>4
      <4>6. view' \in [half : BOOLEAN, epoch : Nat, of : Nat]
        BY <4>1, <4>2
      <4> QED
        BY <4>3, <4>5, <4>6
    <3> QED
      BY <1>5, <3>1, <3>2
  <2>2. UNCHANGED <<up, crashes, disk, mgr, offered, syn, mut, txn, refresh, hist>>
    BY <1>5 DEF StatusProfile, StatusState
  <2>3. TypeOK'
    BY <1>i, <2>1, <2>2 DEF TypeOK
  <2>4. PartsInv'
    BY <1>i, <2>1, <2>2 DEF PartsInv
  <2> QED
    BY <1>i, <1>d, <2>2, <2>3, <2>4, Frame DEF IInv
<1>6. ASSUME NEW pin \in Pin, CacheOffered(pin)
      PROVE  IInv'
  <2>1. offered' \in Seq(Pin) /\ Len(offered') <= OfferedCap
    BY <1>6, <1>i, CachedType DEF CacheOffered
  <2>2. UNCHANGED <<up, crashes, disk, mgr, syn, mut, txn, refresh, view, hist>>
    BY <1>6 DEF CacheOffered
  <2>3. TypeOK'
    BY <1>i, <2>1, <2>2 DEF TypeOK
  <2> QED
    BY <1>i, <1>d, <2>2, <2>3, Frame DEF IInv
<1>7. CASE MutationStarts \/ MutationEnds
  <2>0. mut \in [client : Profile, draining : BOOLEAN, busy : BOOLEAN]
    BY <1>i DEF TypeOK
  <2>2. /\ mut' \in [client : Profile, draining : BOOLEAN, busy : BOOLEAN]
        /\ mut'.client = mut.client /\ mut'.draining = mut.draining
        /\ mut'.busy => ~mut.draining
    BY <1>7, <2>0 DEF MutationStarts, MutationEnds
  <2>3. UNCHANGED <<up, crashes, disk, mgr, offered, syn, txn, refresh, view, hist>>
    BY <1>7 DEF MutationStarts, MutationEnds
  <2>1. TypeOK'
    BY <1>i, <2>2, <2>3 DEF TypeOK
  <2> QED
    BY <1>i, <2>1, <2>2, <2>3, Frame DEF IInv
<1>8. CASE Crash
  <2>1. /\ up' = FALSE /\ crashes' = crashes + 1 /\ crashes' \in 0..MaxCrash /\ crashes' > 0
        /\ UNCHANGED <<disk, mgr, offered, syn, mut, txn, refresh, view, hist>>
    BY <1>8, <1>i, ConfigureAssumption DEF Crash, TypeOK
  <2>2. TypeOK'
    BY <1>i, <2>1 DEF TypeOK
  <2>3. TempInv'
    BY <2>1 DEF TempInv
  <2> QED
    BY <1>i, <1>d, <2>1, <2>2, <2>3, Frame DEF IInv
<1>9. CASE Restart
  <2>1. LoadActive \in Profile /\ Loaded(file) = LoadActive
    BY <1>i, ConfigureAssumption DEF TypeOK, LoadActive, Loaded
  <2>2. \A h \in Handler : txn'[h] = Idle /\ txn'[h].pc = "idle"
    BY <1>9 DEF Restart, Idle
  <2>3. TypeOK'
    <3>1. /\ mgr' \in [profile : Profile, epoch : Nat, client : Profile, hasSecret : BOOLEAN]
          /\ syn' \in [client : Profile, epoch : Nat]
          /\ mut' \in [client : Profile, draining : BOOLEAN, busy : BOOLEAN]
      BY <1>9, <2>1 DEF Restart, NewManager, NewSyncer, NewMutator
    <3>2. /\ view' \in [half : BOOLEAN, epoch : Nat, of : Nat]
          /\ refresh' \in [pc : {"get", "set", "fail", "done", "unknown"}, found : BOOLEAN, raced : BOOLEAN]
      BY <1>9 DEF Restart, Unread, Starting
    <3>3. offered' \in Seq(Pin) /\ Len(offered') <= OfferedCap
      BY <1>9, ConfigureAssumption DEF Restart
    <3> QED
      BY <1>9, <1>i, <3>1, <3>2, <3>3 DEF Restart, TypeOK
  <2>4. \A h \in Handler : ~In(h)' /\ ~(txn'[h].pc \in Undecided)
    BY <2>2 DEF In, Inside, Undecided
  <2>5. DrainInv'
    BY <1>9, <2>4 DEF DrainInv, Restart, NewMutator
  <2>6. TxnInv'
    BY <2>2, <2>4 DEF TxnInv
  <2>7. PartsInv'
    BY <1>9, <2>2 DEF PartsInv, Restart, NewManager, NewSyncer, NewMutator, Unread
  <2>8. DiskInv'
    BY <1>9, <1>i, <2>1, <2>4 DEF DiskInv, Restart, NewManager, Loaded
  <2>9. TempInv' /\ PresenceInv'
    BY <1>9, <1>i DEF TempInv, PresenceInv, Restart, Starting
  <2> QED
    BY <2>3, <2>5, <2>6, <2>7, <2>8, <2>9 DEF IInv
<1>10. CASE UNCHANGED vars
  <2>1. TypeOK'
    BY <1>10, <1>i DEF vars, TypeOK
  <2> QED
    BY <1>10, <1>i, <1>d, <2>1, Frame DEF vars, IInv
<1> QED
  BY <1>1, <1>2, <1>3, <1>4, <1>5, <1>6, <1>7, <1>8, <1>9, <1>10 DEF Next

LEMMA Invariant == Spec => []IInv
BY Initially, Inductive, PTL DEF Spec

-----------------------------------------------------------------------------
(* The theorems.                                                           *)

\* Every variable keeps its type.
THEOREM TypeCorrect == Spec => []TypeOK
<1>1. IInv => TypeOK
  BY DEF IInv
<1> QED
  BY <1>1, Invariant, PTL

\* Whenever no switch is under way, or a mutation is in flight, manager, syncer
\* and mutator have the client of one profile and one epoch, and a status
\* never joins a profile with the report of an earlier backend
\* (manager.go:213-256, 713-738).
THEOREM ClientsAgree == Spec => []OneBackend
<1>1. IInv => OneBackend
  <2> SUFFICES ASSUME IInv PROVE OneBackend
    OBVIOUS
  <2>1. TypeOK /\ DrainInv /\ PartsInv
    BY DEF IInv
  <2>2. ASSUME ~mut.draining \/ mut.busy
        PROVE  /\ mgr.client = mgr.profile /\ syn.client = mgr.client /\ mut.client = mgr.client
               /\ syn.epoch = mgr.epoch
    <3>1. \A h \in Handler : ~In(h)
      BY <2>1, <2>2 DEF DrainInv
    <3>2. \A h \in Handler : txn[h].pc \notin {"manager", "swap"}
      BY <3>1 DEF In, Inside, Undecided
    <3> QED
      BY <2>1, <3>2 DEF PartsInv
  <2>3. ~view.half => view.of >= view.epoch
    BY <2>1 DEF PartsInv
  <2> QED
    BY <2>2, <2>3 DEF OneBackend
<1> QED
  BY <1>1, Invariant, PTL

\* Between transactions the file holds the active profile, but for a rollback
\* that failed, and only a crash leaves a temporary file behind
\* (manager.go:693-697, 804-814; store.go:137-166).
THEOREM FileIsActive == Spec => []PersistedIsActive
<1>1. IInv => PersistedIsActive
  <2> SUFFICES ASSUME IInv PROVE PersistedIsActive
    OBVIOUS
  <2>1. TypeOK /\ DrainInv /\ DiskInv /\ TempInv
    BY DEF IInv
  <2>2. ASSUME Quiet, "file" \notin spoiled
        PROVE  LoadActive = mgr.profile
    <3>1. ~(\E h \in Handler : txn[h].pc \in Undecided)
      BY <2>1, <2>2 DEF Quiet, DrainInv, In, Inside
    <3> QED
      BY <2>1, <2>2, <3>1 DEF DiskInv, Loaded, LoadActive
  <2>3. tmp /\ (\A h \in Handler : txn[h].pc \notin {"rename", "restore"}) => crashes > 0
    BY <2>1 DEF TempInv
  <2> QED
    BY <2>2, <2>3 DEF PersistedIsActive
<1> QED
  BY <1>1, Invariant, PTL

\* A transaction that fails, at whatever step, has put back the profile, the
\* file and the secret by the time it releases the drain, if no rollback
\* failed (manager.go:604-612, 777-814).
THEOREM FailureUndoesAll == Spec => []RejectedIsInert
<1>1. IInv => RejectedIsInert
  <2> SUFFICES ASSUME IInv, spoiled = {}, NEW h \in Handler, At(h, "abort")
               PROVE  Current = base
    BY DEF RejectedIsInert
  <2>1. txn[h].pc = "abort" /\ InTxn(txn[h])
    BY DEF At, IInv, TxnInv, In, Inside, Undecided
  <2>2. mgr.profile = base.profile /\ ring = base.secret /\ file = base.file
    BY <2>1 DEF InTxn, Ring, File
  <2>3. base \in Conns
    BY DEF IInv, TypeOK
  <2> QED
    BY <2>2, <2>3 DEF Current, Conns
<1> QED
  BY <1>1, Invariant, PTL

\* As long as a transaction is undecided the active profile is the one it
\* found: no other transaction has come between (manager.go:469-474, 649-656).
THEOREM NothingComesBetween == Spec => []ReplacesWhatItSaw
<1>1. IInv => ReplacesWhatItSaw
  <2> SUFFICES ASSUME IInv, NEW h \in Handler, txn[h].pc \in Undecided
               PROVE  mgr.profile = base.profile
    BY DEF ReplacesWhatItSaw
  <2>1. InTxn(txn[h]) /\ txn[h].pc # "swap"
    BY DEF IInv, TxnInv, In, Inside, Undecided
  <2> QED
    BY <2>1 DEF InTxn
<1> QED
  BY <1>1, Invariant, PTL

\* Between transactions the flag says whether a secret is stored, if the lookup
\* at startup neither failed nor was overtaken (manager.go:163-177, 728-733,
\* 777-798).
THEOREM FlagIsTrue == Spec => []PresenceKnown
<1>1. IInv => PresenceKnown
  <2> SUFFICES ASSUME IInv, Quiet, "secret" \notin spoiled, refresh.pc = "done", ~refresh.raced
               PROVE  mgr.hasSecret = (ring # NoSecret)
    BY DEF PresenceKnown
  <2>1. \A h \in Handler : ~In(h)
    BY DEF IInv, DrainInv, Quiet
  <2>2. \A h \in Handler : txn[h].pc \notin {"presence", "create", "rename", "build", "syncer",
                                            "manager", "undo"}
    BY <2>1 DEF In, Inside, Undecided
  <2> QED
    BY <2>2 DEF IInv, PresenceInv
<1> QED
  BY <1>1, Invariant, PTL

\* A daemon that restarts takes up the profile that was active, or the one the
\* interrupted transaction was to activate, and finds the secret of one of the
\* two (store.go:130-166, manager.go:113-132).
THEOREM RestartTakesUp == Spec => RestartResumes
<1>1. IInv /\ [Next]_vars =>
        [~up /\ up' /\ "file" \notin spoiled =>
           /\ \/ mgr'.profile = mgr.profile
              \/ mut.draining /\ mgr'.profile = goal.profile
           /\ ring' \in {base.secret, goal.secret}]_vars
  <2> SUFFICES ASSUME IInv, [Next]_vars, ~up, up', "file" \notin spoiled
               PROVE  /\ \/ mgr'.profile = mgr.profile
                         \/ mut.draining /\ mgr'.profile = goal.profile
                      /\ ring' \in {base.secret, goal.secret}
    OBVIOUS
  <2>1. Restart
    BY DEF Next, Step, Receive, BeginSwitch, Refused, ReadStore, ReadSecret, Resolve, ApplySecret,
       CreateTemp, Rename, Build, SwitchSyncer, CommitManager, CommitSwap, UndoSecret,
       UndoPresence, RemoveStore, RecreateTemp, RestoreStore, AbortSwitch, Return, At,
       RefreshGet, RefreshSet, StatusProfile, StatusState, CacheOffered, MutationStarts,
       MutationEnds, Crash, vars
  <2>2. mgr'.profile = Loaded(file) /\ ring' = ring
    BY <2>1 DEF Restart, NewManager, LoadActive, Loaded, disk
  <2>3. DrainInv /\ DiskInv /\ TxnInv /\ TypeOK
    BY DEF IInv
  <2>4. ring' \in {base.secret, goal.secret}
    BY <2>2, <2>3 DEF DiskInv
  <2>5. CASE \E h \in Handler : txn[h].pc \in Undecided
    <3>1. PICK h \in Handler : txn[h].pc \in Undecided
      BY <2>5
    <3>2. In(h) /\ mut.draining
      BY <2>3, <3>1 DEF DrainInv, In, Inside
    <3>3. goal = Outcome(base, txn[h].req) /\ txn[h].req \in Request
      BY <2>3, <3>1, <3>2, BusyLocals DEF TxnInv, InTxn, Locals, Undecided
    <3>4. Loaded(goal.file) = goal.profile
      BY <3>3, ProfileType, ConfigureAssumption DEF Outcome, Loaded
    <3> QED
      BY <2>2, <2>3, <2>4, <2>5, <3>2, <3>4 DEF DiskInv
  <2>6. CASE ~(\E h \in Handler : txn[h].pc \in Undecided)
    BY <2>2, <2>3, <2>4, <2>6 DEF DiskInv
  <2> QED
    BY <2>5, <2>6
<1> QED
  BY <1>1, Invariant, PTL DEF Spec, RestartResumes

-----------------------------------------------------------------------------
(* The promise to the callers.                                             *)

\* No crash, and no rollback has failed.
Plain == up /\ crashes = 0 /\ spoiled = {}

LEMMA PlainInitially == Init => Plain
BY DEF Init, Plain

LEMMA PlainKept ==
  ASSUME MaxCrash = 0, UndoFails = FALSE, IInv, Plain, [Next]_vars
  PROVE  Plain'
<1>1. ASSUME NEW h \in Handler, Step(h)
      PROVE  Plain'
  <2>1. UNCHANGED <<up, crashes>>
    BY <1>1 DEF Step, BeginSwitch, Refused, ReadStore, ReadSecret, Resolve, ApplySecret,
       CreateTemp, Rename, Build, SwitchSyncer, CommitManager, CommitSwap, UndoSecret,
       UndoPresence, RemoveStore, RecreateTemp, RestoreStore, AbortSwitch, Return
  <2>2. CASE RecreateTemp(h)
    <3>1. txn[h].pc = "recreate"
      BY <2>2 DEF RecreateTemp, At
    <3>2. \A g \in Handler : txn[g].pc \notin {"rename", "restore"}
      BY <3>1 DEF IInv, DrainInv, In, Inside, Undecided
    <3>3. ~tmp
      BY <3>2 DEF IInv, TempInv, Plain
    <3> QED
      BY <2>1, <2>2, <3>3 DEF RecreateTemp, Plain
  <2>3. CASE ~RecreateTemp(h)
    <3>1. spoiled' = {}
      BY <1>1, <2>3 DEF Plain, Step, BeginSwitch, Refused, ReadStore, ReadSecret, Resolve,
         ApplySecret, CreateTemp, Rename, Build, SwitchSyncer, CommitManager, CommitSwap,
         UndoSecret, UndoPresence, RemoveStore, RestoreStore, AbortSwitch, Return, hist
    <3> QED
      BY <2>1, <3>1 DEF Plain
  <2> QED
    BY <2>2, <2>3
<1>2. ~Crash /\ ~Restart
  BY DEF Crash, Restart, Plain
<1> QED
  BY <1>1, <1>2 DEF Next, Receive, RefreshGet, RefreshSet, StatusProfile, StatusState,
     CacheOffered, MutationStarts, MutationEnds, Plain, hist, vars

\* The calls, as the promise sees them.
Calls == [h \in Handler |-> CallOf(h)]

LEMMA CallsOf ==
  ASSUME NEW h \in Handler, Rest(h)
  PROVE  Calls' = [Calls EXCEPT ![h] = CallOf(h)']
<1>1. \A g \in Handler \ {h} : CallOf(g)' = CallOf(g)
  BY DEF Rest, CallOf
<1> QED
  BY <1>1 DEF Calls

\* A step that leaves the call and the connection in force as they are.
LEMMA Stutters ==
  ASSUME NEW h \in Handler, Rest(h), CallOf(h)' = CallOf(h),
         InForce' = InForce, mgr'.epoch = mgr.epoch
  PROVE  UNCHANGED Promise!vars
<1>1. Calls' = Calls
  BY CallsOf DEF Calls
<1> QED
  BY <1>1 DEF Promise!vars, Calls

LEMMA Implements ==
  ASSUME IInv, Plain, IInv', Plain', [Next]_vars
  PROVE  [Promise!Next]_(Promise!vars)
<1> USE DEF disk, hist
<1>i. /\ TypeOK /\ DrainInv /\ TxnInv /\ TypeOK' /\ DrainInv' /\ TxnInv'
      /\ spoiled = {} /\ spoiled' = {}
  BY DEF IInv, Plain
<1>u. \A h \in Handler :
        /\ In(h) => InTxn(txn[h])
        /\ In(h) => \A g \in Handler \ {h} : ~In(g)
        /\ (In(h) => \A g \in Handler \ {h} : ~In(g))'
  BY <1>i DEF DrainInv, TxnInv
<1>c. ASSUME NEW h \in Handler
      PROVE  /\ txn[h].pc = "idle" => CallOf(h) = Idle
             /\ txn[h].pc \in Undecided \cup {"begin"} =>
                  CallOf(h) = [pc |-> "asked", req |-> txn[h].req]
             /\ txn[h].pc = "swap" => CallOf(h) = [pc |-> "done", req |-> txn[h].req]
             /\ txn[h].pc = "answer" =>
                  CallOf(h) = [pc |-> IF txn[h].code # "ok" THEN "rejected" ELSE "done",
                               req |-> txn[h].req]
             /\ txn'[h].pc = "idle" => CallOf(h)' = Idle
             /\ txn'[h].pc \in Undecided \cup {"begin"} =>
                  CallOf(h)' = [pc |-> "asked", req |-> txn'[h].req]
             /\ txn'[h].pc = "swap" => CallOf(h)' = [pc |-> "done", req |-> txn'[h].req]
             /\ txn'[h].pc = "answer" =>
                  CallOf(h)' = [pc |-> IF txn'[h].code # "ok" THEN "rejected" ELSE "done",
                               req |-> txn'[h].req]
  <2>0. txn[h] \in Locals \cup {Idle} /\ txn'[h] \in Locals \cup {Idle}
    BY <1>i DEF TypeOK
  <2>1. \A l \in Locals \cup {Idle} : l = Idle <=> l.pc = "idle"
    BY DEF Locals, Steps, Idle
  <2>2. (txn[h] = Idle <=> txn[h].pc = "idle") /\ (txn'[h] = Idle <=> txn'[h].pc = "idle")
    BY <2>0, <2>1
  <2> QED
    BY <2>2 DEF CallOf, Undecided
<1>a. ASSUME NEW h \in Handler, NEW pc, NEW new, txn[h].pc = pc, pc # "idle", To(h, new)
      PROVE  txn'[h].pc = new /\ txn'[h].req = txn[h].req /\ txn'[h].code = txn[h].code
  BY <1>a, <1>i, ToFields DEF Same
<1>1. ASSUME NEW h \in Handler, Receive(h)
      PROVE  Promise!Next
  <2>1. PICK r \in Request :
          txn' = [txn EXCEPT ![h] = [pc |-> "begin", req |-> r, prev |-> NoSecret,
                                     before |-> NoFile, secretMutated |-> FALSE,
                                     storeMutated |-> FALSE, code |-> "ok"]]
    BY <1>1 DEF Receive, With
  <2>2. /\ txn'[h].pc = "begin" /\ txn'[h].req = r /\ Rest(h)
        /\ txn[h].pc = "idle" /\ UNCHANGED <<ring, file, mgr, base>>
    BY <1>1, <1>i, <2>1 DEF TypeOK, Rest, Receive, Idle
  <2>3. CallOf(h) = Idle /\ CallOf(h)' = [pc |-> "asked", req |-> r]
    BY <1>c, <2>2
  <2>4. Calls' = [Calls EXCEPT ![h] = [pc |-> "asked", req |-> r]] /\ Calls[h] = Idle
    BY <2>2, <2>3, CallsOf DEF Calls
  <2>5. \A g \in Handler : txn'[g].pc \in Undecided <=> txn[g].pc \in Undecided
    BY <2>2 DEF Rest, Undecided
  <2>6. InForce' = InForce
    BY <2>2, <2>5 DEF InForce, Current
  <2> QED
    BY <2>2, <2>4, <2>6 DEF Promise!Next, Promise!Ask, Promise!Nobody, Calls, Idle
<1>2. ASSUME NEW h \in Handler, Refused(h)
      PROVE  Promise!Next
  <2>1. txn[h].pc = "begin" /\ txn'[h] = [txn[h] EXCEPT !.pc = "answer", !.code = "mutations_pending"]
        /\ UNCHANGED <<ring, file, mgr, base>> /\ Rest(h)
    BY <1>2, <1>i DEF Refused, At, With, TypeOK, Rest
  <2>2. txn'[h].pc = "answer" /\ txn'[h].req = txn[h].req /\ txn'[h].code = "mutations_pending"
    BY <1>i, <2>1, BusyLocals DEF Locals
  <2>3. CallOf(h) = [pc |-> "asked", req |-> txn[h].req] /\ CallOf(h)' = [pc |-> "rejected", req |-> txn[h].req]
    BY <1>c, <2>1, <2>2
  <2>4. /\ Calls' = [Calls EXCEPT ![h] = [Calls[h] EXCEPT !.pc = "rejected"]]
        /\ Calls[h].pc = "asked"
    BY <2>1, <2>3, CallsOf DEF Calls
  <2>5. \A g \in Handler : txn'[g].pc \in Undecided <=> txn[g].pc \in Undecided
    BY <2>1, <2>2 DEF Rest, Undecided
  <2>6. InForce' = InForce
    BY <2>1, <2>5 DEF InForce, Current
  <2> QED
    BY <2>1, <2>4, <2>6 DEF Promise!Next, Promise!Reject, Calls
<1>3. ASSUME NEW h \in Handler, BeginSwitch(h)
      PROVE  UNCHANGED Promise!vars
  <2>1. /\ txn[h].pc = "begin" /\ To(h, "file") /\ base' = Current
        /\ UNCHANGED <<ring, file, mgr>>
    BY <1>3 DEF BeginSwitch, At
  <2>2. txn'[h].pc = "file" /\ txn'[h].req = txn[h].req /\ Rest(h)
    BY <1>a, <1>i, <2>1, ToFields
  <2>3. CallOf(h)' = CallOf(h)
    BY <1>c, <2>1, <2>2 DEF Undecided
  <2>4. ~(\E g \in Handler : txn[g].pc \in Undecided)
    BY <1>3, <1>i DEF BeginSwitch, MaySwitch, DrainInv, In, Inside
  <2>5. InForce = Current /\ InForce' = base'
    BY <2>2, <2>4 DEF InForce, Undecided
  <2> QED
    BY <2>1, <2>2, <2>3, <2>5, Stutters
<1>4. ASSUME NEW h \in Handler, CommitManager(h)
      PROVE  Promise!Next
  <2>1. /\ txn[h].pc = "manager" /\ To(h, "swap") /\ UNCHANGED <<ring, file, base, goal>>
        /\ mgr'.profile = ProfileOf(txn[h].req) /\ mgr'.epoch = mgr.epoch + 1 /\ In(h)
    BY <1>4, Activating DEF CommitManager, At, In, Inside, Undecided
  <2>2. txn'[h].pc = "swap" /\ txn'[h].req = txn[h].req /\ Rest(h)
    BY <1>a, <1>i, <2>1, ToFields
  <2>3. CallOf(h) = [pc |-> "asked", req |-> txn[h].req] /\ CallOf(h)' = [pc |-> "done", req |-> txn[h].req]
    BY <1>c, <2>1, <2>2 DEF Undecided
  <2>4. /\ Calls' = [Calls EXCEPT ![h] = [Calls[h] EXCEPT !.pc = "done"]]
        /\ Calls[h].pc = "asked" /\ Calls[h].req = txn[h].req
    BY <2>2, <2>3, CallsOf DEF Calls
  <2>5. ~(\E g \in Handler : txn'[g].pc \in Undecided)
    BY <1>u, <2>1, <2>2 DEF In, Inside, Undecided, Rest
  <2>6. InForce = base /\ InForce' = Current'
    BY <2>1, <2>5 DEF InForce, Undecided
  <2>7. goal = Outcome(base, txn[h].req) /\ file = goal.file /\ ring = goal.secret
    <3>1. goal = Outcome(base, txn[h].req) /\ file = goal.file
      BY <1>u, <2>1 DEF InTxn, Knows, File
    <3>2. CASE txn[h].req.action # "keep"
      BY <1>u, <2>1, <3>1, <3>2 DEF InTxn, Knows, Ring
    <3>3. CASE txn[h].req.action = "keep"
      <4>1. ring = base.secret
        BY <1>i, <1>u, <2>1, <3>3 DEF InTxn, Knows, Ring
      <4>2. goal.secret = SecretAfter(base.secret, txn[h].req)
        BY <3>1 DEF Outcome
      <4> QED
        BY <3>1, <3>3, <4>1, <4>2 DEF SecretAfter
    <3> QED
      BY <3>1, <3>2, <3>3
  <2>8. Current' = Outcome(base, txn[h].req)
    BY <2>1, <2>7 DEF Current, Outcome
  <2> QED
    BY <2>1, <2>4, <2>6, <2>8 DEF Promise!Next, Promise!Activate, Calls
<1>5. ASSUME NEW h \in Handler, CommitSwap(h)
      PROVE  UNCHANGED Promise!vars
  <2>1. txn[h].pc = "swap" /\ To(h, "answer") /\ UNCHANGED <<ring, file, base, mgr>> /\ In(h)
    BY <1>5, Activating DEF CommitSwap, At, In, Inside
  <2>2. txn'[h].pc = "answer" /\ txn'[h].req = txn[h].req /\ txn'[h].code = txn[h].code /\ Rest(h)
    BY <1>a, <1>i, <2>1, ToFields
  <2>3. txn[h].code = "ok"
    BY <1>u, <2>1 DEF InTxn, Knows
  <2>4. CallOf(h)' = CallOf(h)
    BY <1>c, <2>1, <2>2, <2>3
  <2>5. /\ ~(\E g \in Handler : txn[g].pc \in Undecided)
        /\ ~(\E g \in Handler : txn'[g].pc \in Undecided)
    BY <1>u, <2>1, <2>2 DEF In, Inside, Undecided, Rest
  <2>6. InForce' = InForce
    BY <2>1, <2>5 DEF InForce, Current
  <2> QED
    BY <2>1, <2>2, <2>4, <2>6, Stutters
<1>6. ASSUME NEW h \in Handler, AbortSwitch(h)
      PROVE  Promise!Next
  <2>1. /\ txn[h].pc = "abort" /\ To(h, "answer") /\ UNCHANGED <<ring, file, base, mgr>>
        /\ In(h)
    BY <1>6 DEF AbortSwitch, At, In, Inside, Undecided
  <2>2. txn'[h].pc = "answer" /\ txn'[h].req = txn[h].req /\ txn'[h].code = txn[h].code /\ Rest(h)
    BY <1>a, <1>i, <2>1, ToFields
  <2>3. txn[h].code # "ok"
    BY <1>u, <2>1 DEF InTxn, Knows, Advancing
  <2>4. CallOf(h) = [pc |-> "asked", req |-> txn[h].req] /\ CallOf(h)' = [pc |-> "rejected", req |-> txn[h].req]
    BY <1>c, <2>1, <2>2, <2>3 DEF Undecided
  <2>5. /\ Calls' = [Calls EXCEPT ![h] = [Calls[h] EXCEPT !.pc = "rejected"]]
        /\ Calls[h].pc = "asked"
    BY <2>2, <2>4, CallsOf DEF Calls
  <2>6. ~(\E g \in Handler : txn'[g].pc \in Undecided)
    BY <1>u, <2>1, <2>2 DEF In, Inside, Undecided, Rest
  <2>7. InForce = base /\ InForce' = Current
    BY <2>1, <2>6 DEF InForce, Undecided, Current
  <2>8. mgr.profile = base.profile /\ ring = base.secret /\ file = base.file /\ base \in Conns
    BY <1>i, <1>u, <2>1 DEF InTxn, Ring, File, TypeOK
  <2>9. Current = base
    BY <2>8 DEF Current, Conns
  <2> QED
    BY <2>1, <2>5, <2>7, <2>9 DEF Promise!Next, Promise!Reject, Calls
<1>7. ASSUME NEW h \in Handler, Return(h)
      PROVE  Promise!Next
  <2>1. txn[h].pc = "answer" /\ txn'[h] = Idle /\ UNCHANGED <<ring, file, base, mgr>> /\ Rest(h)
    BY <1>7, <1>i DEF Return, At, With, TypeOK, Rest
  <2>2. CallOf(h).pc \in {"done", "rejected"} /\ CallOf(h)' = Idle
    BY <1>c, <2>1 DEF Idle
  <2>3. Calls' = [Calls EXCEPT ![h] = Idle] /\ Calls[h].pc \in {"done", "rejected"}
    BY <2>1, <2>2, CallsOf DEF Calls
  <2>4. \A g \in Handler : txn'[g].pc \in Undecided <=> txn[g].pc \in Undecided
    BY <2>1 DEF Rest, Undecided, Idle
  <2>5. InForce' = InForce
    BY <2>1, <2>4 DEF InForce, Current
  <2> QED
    BY <2>1, <2>3, <2>5 DEF Promise!Next, Promise!Answer, Promise!Nobody, Calls, Idle
<1>8. ASSUME NEW h \in Handler,
             \/ ReadStore(h) \/ ReadSecret(h) \/ Resolve(h) \/ ApplySecret(h) \/ CreateTemp(h)
             \/ Rename(h) \/ Build(h) \/ SwitchSyncer(h) \/ UndoSecret(h) \/ UndoPresence(h)
             \/ RemoveStore(h) \/ RecreateTemp(h) \/ RestoreStore(h)
      PROVE  UNCHANGED Promise!vars
  <2>1. Step(h) /\ base' = base /\ mgr'.epoch = mgr.epoch /\ txn[h].pc # "swap" /\ txn[h].pc # "idle"
    BY <1>8, <1>i DEF Step, ReadStore, ReadSecret, Resolve, ApplySecret, CreateTemp, Rename, Build,
       SwitchSyncer, UndoSecret, UndoPresence, RemoveStore, RecreateTemp, RestoreStore, At, TypeOK
  <2>2. ~BeginSwitch(h) /\ ~Refused(h) /\ ~Return(h) /\ ~CommitSwap(h) /\ ~AbortSwitch(h)
        /\ ~CommitManager(h)
    BY <1>8 DEF ReadStore, ReadSecret, Resolve, ApplySecret, CreateTemp, Rename, Build,
       SwitchSyncer, UndoSecret, UndoPresence, RemoveStore, RecreateTemp, RestoreStore, At,
       BeginSwitch, Refused, Return, CommitSwap, AbortSwitch, CommitManager
  <2>3. In(h) /\ In(h)' /\ txn'[h].pc # "swap" /\ Rest(h)
    BY <1>i, <2>1, <2>2, StepFlow
  <2>4. txn'[h].req = txn[h].req
    BY <1>i, <2>1, RequestKept, <2>2
  <2>5. txn[h].pc \in Undecided /\ txn'[h].pc \in Undecided
    BY <2>1, <2>3 DEF In, Inside
  <2>6. CallOf(h)' = CallOf(h)
    BY <1>c, <2>4, <2>5
  <2>7. InForce' = InForce
    BY <2>1, <2>5 DEF InForce
  <2> QED
    BY <2>1, <2>3, <2>6, <2>7, Stutters
<1>9. CASE RefreshGet \/ RefreshSet \/ StatusProfile \/ StatusState \/ MutationStarts \/ MutationEnds
           \/ (\E pin \in Pin : CacheOffered(pin)) \/ UNCHANGED vars
  <2>1. /\ UNCHANGED <<txn, ring, file, base>>
        /\ mgr'.profile = mgr.profile /\ mgr'.epoch = mgr.epoch
    BY <1>9, <1>i DEF RefreshGet, RefreshSet, StatusProfile, StatusState, MutationStarts, MutationEnds,
       CacheOffered, vars, TypeOK
  <2>2. Calls' = Calls
    BY <2>1 DEF Calls, CallOf
  <2>3. InForce' = InForce
    BY <2>1 DEF InForce, Current
  <2> QED
    BY <2>1, <2>2, <2>3 DEF Promise!vars, Calls
<1>10. ~Crash /\ ~Restart
  BY DEF Crash, Restart, Plain
<1> QED
  BY <1>1, <1>2, <1>3, <1>4, <1>5, <1>6, <1>7, <1>8, <1>9, <1>10 DEF Next, Step

\* With no crash and no rollback that fails, every Configure takes effect as a
\* whole at one instant between its arrival and its answer, or, if it is
\* rejected, not at all (manager.go:550-758; docs/adr/0008, section 9).
THEOREM ConfigureIsAtomic ==
  ASSUME MaxCrash = 0, UndoFails = FALSE
  PROVE  Spec => ActsAtOnce
<1>1. Init => Promise!Init
  <2> SUFFICES ASSUME Init PROVE Promise!Init
    OBVIOUS
  <2>1. TypeOK
    BY Initially DEF IInv
  <2>2. InForce = base
    BY DEF Init, InForce
  <2>3. \A h \in Handler : CallOf(h) = Idle
    BY DEF Init, CallOf
  <2> QED
    BY <2>1, <2>2, <2>3 DEF Promise!Init, Promise!Nobody, Init, NewManager, TypeOK, Idle
<1>2. IInv /\ Plain /\ [Next]_vars => Plain'
  BY PlainKept
<1>3. IInv /\ Plain /\ IInv' /\ Plain' /\ [Next]_vars => [Promise!Next]_(Promise!vars)
  BY Implements
<1> QED
  BY <1>1, <1>2, <1>3, PlainInitially, Invariant, PTL DEF Spec, ActsAtOnce, Promise!Spec
=============================================================================
