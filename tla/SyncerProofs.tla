----------------------------- MODULE SyncerProofs -----------------------------
(***************************************************************************)
(* Theorems about Syncer, for every set of backends, hashes, values and    *)
(* subscribers, every channel capacity and every bound.                    *)
(***************************************************************************)
EXTENDS Syncer, TLAPS

-----------------------------------------------------------------------------
(* The helpers on rows.                                                    *)

\* Patching row maps yields a row map.
LEMMA PatchType ==
  ASSUME NEW R, NEW t \in RowMaps(R), NEW ch \in RowMaps(R), NEW rm
  PROVE  Patch(t, ch, rm) \in RowMaps(R)
<1>1. PICK D \in SUBSET Hash : t \in [D -> R]
  BY DEF RowMaps
<1>2. PICK E \in SUBSET Hash : ch \in [E -> R]
  BY DEF RowMaps
<1> DEFINE F == (D \cup E) \ rm
<1>3. Patch(t, ch, rm) \in [F -> R]
  BY <1>1, <1>2 DEF Patch
<1>4. F \in SUBSET Hash
  OBVIOUS
<1> QED
  BY <1>3, <1>4 DEF RowMaps

\* So does keeping the rows that differ.
LEMMA DifferingType ==
  ASSUME NEW R, NEW old, NEW new \in RowMaps(R)
  PROVE  Differing(old, new) \in RowMaps(R)
<1>1. PICK D \in SUBSET Hash : new \in [D -> R]
  BY DEF RowMaps
<1> DEFINE F == {g \in DOMAIN new : g \notin DOMAIN old \/ old[g] # new[g]}
<1>2. F \in SUBSET Hash
  BY <1>1
<1>3. Differing(old, new) \in [F -> R]
  BY <1>1 DEF Differing
<1> QED
  BY <1>2, <1>3 DEF RowMaps

\* The empty row map.
LEMMA NoRowsType ==
  ASSUME NEW R, NEW b
  PROVE  NoRows \in RowMaps(R) /\ From(b, NoRows)
<1>1. NoRows \in [{} -> R] /\ {} \in SUBSET Hash
  BY DEF NoRows
<1>2. NoRows \in RowMaps(R)
  BY <1>1 DEF RowMaps
<1> QED
  BY <1>2 DEF From, NoRows

\* What a backend reports are rows of that backend.
LEMMA ReportedRows ==
  ASSUME NEW b \in Backend, NEW rows \in RowMaps(Row(b))
  PROVE  rows \in RowMaps(RowAny) /\ From(b, rows)
<1>1. PICK D \in SUBSET Hash : rows \in [D -> Row(b)]
  BY DEF RowMaps
<1>2. rows \in [D -> RowAny]
  BY <1>1 DEF Row, RowAny
<1>3. rows \in RowMaps(RowAny)
  BY <1>2 DEF RowMaps
<1> QED
  BY <1>1, <1>3 DEF From, Row

\* Patching rows of one backend with rows of it yields rows of it.
LEMMA PatchFrom ==
  ASSUME NEW b, NEW t, NEW ch, NEW rm, From(b, t), From(b, ch)
  PROVE  From(b, Patch(t, ch, rm))
BY DEF From, Patch

LEMMA DifferingFrom ==
  ASSUME NEW b, NEW old, NEW new, From(b, new)
  PROVE  From(b, Differing(old, new))
BY DEF From, Differing

\* The hashes of a row map.
LEMMA RowMapDomain ==
  ASSUME NEW R, NEW t \in RowMaps(R)
  PROVE  DOMAIN t \in SUBSET Hash
BY DEF RowMaps

-----------------------------------------------------------------------------
(* The inductive invariant.                                                *)

\* Parking and counting: the latch is the counter at its threshold, and a
\* cycle that may still fail to log in was not parked when it began.
AuthInv ==
  /\ sticky <=> authFails = StickyAuthFails
  /\ pc \in {"login", "sync"} => ~sticky

\* A cycle of the current epoch works on the current backend and from what
\* it reported; a cycle can only be older than the epoch, never younger.
CycleInv ==
  /\ loc.epoch <= epoch
  /\ pc # "idle" => loc.backend \in Backend
  /\ pc # "idle" /\ loc.epoch = epoch =>
       /\ loc.backend = backend
       /\ From(backend, loc.prev.torrents)
       /\ loc.prev.api \in {None, backend}
       /\ pc \in {"probe", "commit"} =>
            From(backend, loc.torrents) /\ loc.api \in {None, backend}

IInv == TypeOK /\ AuthInv /\ CycleInv /\ CurrentBackendOnly

\* The initial state, and a cleared one, are well-formed.
LEMMA FreshType == Fresh \in States /\ NoLocals \in Locals
<1>1. NoRows \in RowMaps(RowAny)
  BY NoRowsType
<1>2. Fresh \in States
  BY <1>1 DEF Fresh, States, Errors
<1>3. {} \in SUBSET Hash
  OBVIOUS
<1> QED
  BY <1>1, <1>2, <1>3 DEF NoLocals, Locals, Failures

LEMMA InitIInv == Init => IInv
<1> SUFFICES ASSUME Init PROVE IInv
  OBVIOUS
<1>1. NoRows \in RowMaps(RowAny) /\ From(backend, NoRows)
  BY NoRowsType
<1>2. TypeOK
  <2>1. [s \in Sub |-> <<>>] \in [Sub -> Seq(Changes)]
    OBVIOUS
  <2>2. [s \in Sub |-> NoRows] \in [Sub -> RowMaps(RowAny)]
    BY <1>1
  <2>3. sess \in [client : Nat, rows : RowMaps(RowAny), rid : Nat]
    BY <1>1 DEF Init
  <2>4. cur \in States /\ loc \in Locals
    BY FreshType DEF Init
  <2>5. 0 \in 0..StickyAuthFails
    BY SyncerAssumption
  <2> QED
    BY <2>1, <2>2, <2>3, <2>4, <2>5 DEF Init, TypeOK, PCs
<1>3. AuthInv /\ CycleInv
  BY SyncerAssumption DEF Init, AuthInv, CycleInv, NoLocals
<1>4. CurrentBackendOnly
  BY <1>1 DEF Init, CurrentBackendOnly, Fresh
<1> QED
  BY <1>2, <1>3, <1>4 DEF IInv

-----------------------------------------------------------------------------
(* One lemma per action.                                                   *)

\* Publishing keeps the subscriptions well-formed.
LEMMA PublishType ==
  ASSUME TypeOK, NEW ch \in Changes, Publish(ch)
  PROVE  /\ phase' \in [Sub -> {"none", "open", "dropped"}]
         /\ chan' \in [Sub -> Seq(Changes)]
         /\ view' \in [Sub -> RowMaps(RowAny)]
         /\ seen' \in [Sub -> Nat]
<1>1. \A s \in Sub : chan[s] \in Seq(Changes) /\ Append(chan[s], ch) \in Seq(Changes)
  BY DEF TypeOK
<1> QED
  BY <1>1 DEF Publish, TypeOK

\* Actions of the subscribers.
LEMMA SubscriberStep ==
  ASSUME IInv, NEW s \in Sub, Subscribe(s) \/ Deliver(s) \/ Unsubscribe(s)
  PROVE  IInv'
<1> USE DEF IInv
<1>1. UNCHANGED <<muVars, kick, pc, loc, sess, failed>>
  BY DEF Subscribe, Deliver, Unsubscribe
<1>2. (AuthInv /\ CycleInv /\ CurrentBackendOnly)'
  BY <1>1 DEF AuthInv, CycleInv, CurrentBackendOnly, From, muVars
<1>3. /\ phase' \in [Sub -> {"none", "open", "dropped"}]
      /\ chan' \in [Sub -> Seq(Changes)]
      /\ view' \in [Sub -> RowMaps(RowAny)]
      /\ seen' \in [Sub -> Nat]
  <2>1. CASE Subscribe(s)
    BY <2>1 DEF Subscribe, TypeOK, States
  <2>2. CASE Deliver(s)
    <3>1. chan[s] \in Seq(Changes) /\ chan[s] # <<>>
      BY <2>2 DEF Deliver, TypeOK
    <3>2. Head(chan[s]) \in Changes /\ Tail(chan[s]) \in Seq(Changes)
      BY <3>1
    <3>3. Patch(view[s], Head(chan[s]).changed, Head(chan[s]).removed) \in RowMaps(RowAny)
      BY <3>2, PatchType DEF TypeOK, Changes
    <3>4. Head(chan[s]).seq \in Nat
      BY <3>2 DEF Changes
    <3> QED
      BY <2>2, <3>2, <3>3, <3>4 DEF Deliver, TypeOK
  <2>3. CASE Unsubscribe(s)
    <3>1. NoRows \in RowMaps(RowAny) /\ <<>> \in Seq(Changes)
      BY NoRowsType
    <3> QED
      BY <2>3, <3>1 DEF Unsubscribe, TypeOK
  <2> QED
    BY <2>1, <2>2, <2>3
<1>4. TypeOK'
  BY <1>1, <1>3 DEF TypeOK, muVars
<1> QED
  BY <1>2, <1>4

\* A switch installs a younger epoch, so the cycle in flight is no longer of
\* the current one.
LEMMA SwitchStep ==
  ASSUME IInv, NEW b \in Backend, SwitchBackend(b)
  PROVE  IInv'
<1> USE DEF IInv
<1>1. cur \in States /\ cur.gen \in Nat
  BY DEF TypeOK, States
<1>2. NoRows \in RowMaps(RowAny) /\ From(b, NoRows)
  BY NoRowsType
<1>3. cur' \in States /\ cur'.torrents = NoRows /\ cur'.api = None /\ cur'.gen \in Nat
  <2>1. cur' = [Fresh EXCEPT !.gen = cur.gen + 1]
    BY DEF SwitchBackend, Cleared
  <2>2. cur' = [ok |-> FALSE, torrents |-> NoRows, api |-> None,
                err |-> "loading", gen |-> cur.gen + 1]
    BY <2>1 DEF Fresh
  <2> QED
    BY <1>1, <1>2, <2>2 DEF States, Errors
<1>4. /\ phase' \in [Sub -> {"none", "open", "dropped"}]
      /\ chan' \in [Sub -> Seq(Changes)]
      /\ view' \in [Sub -> RowMaps(RowAny)]
      /\ seen' \in [Sub -> Nat]
  <2>1. CASE DOMAIN cur.torrents = {}
    BY <2>1 DEF SwitchBackend, subVars, TypeOK
  <2>2. CASE DOMAIN cur.torrents # {}
    <3> DEFINE ch == [seq |-> cur'.gen, changed |-> NoRows,
                      removed |-> Removals, post |-> NoRows]
    <3>1. Removals \in SUBSET Hash
      BY <1>1, RowMapDomain DEF Removals, States
    <3>2. ch \in Changes
      BY <1>2, <1>3, <3>1 DEF Changes
    <3>3. Publish(ch)
      BY <2>2 DEF SwitchBackend
    <3> HIDE DEF ch
    <3> QED
      BY <3>2, <3>3, PublishType
  <2> QED
    BY <2>1, <2>2
<1>5. TypeOK'
  <2>1. 0 \in 0..StickyAuthFails
    BY SyncerAssumption
  <2>2. backend' \in Backend /\ epoch' \in Nat /\ rid' \in Nat /\ failed' \in Nat
    BY DEF SwitchBackend, TypeOK
  <2>3. ver' \in BOOLEAN /\ sticky' \in BOOLEAN /\ kick' \in BOOLEAN /\ authFails' = 0
    BY DEF SwitchBackend, Kicked
  <2>4. pc' = pc /\ loc' = loc /\ sess' = sess
    BY DEF SwitchBackend
  <2> QED
    BY <1>3, <1>4, <2>1, <2>2, <2>3, <2>4 DEF TypeOK
<1>6. AuthInv'
  BY SyncerAssumption DEF SwitchBackend, AuthInv
<1>7. CycleInv'
  BY DEF SwitchBackend, CycleInv, TypeOK, Locals
<1>8. CurrentBackendOnly'
  BY <1>2, <1>3 DEF SwitchBackend, CurrentBackendOnly
<1> QED
  BY <1>5, <1>6, <1>7, <1>8

\* A cycle begins with what the current epoch has committed.
LEMMA BeginStep ==
  ASSUME IInv, BeginCycle, kick' \in BOOLEAN
  PROVE  IInv'
<1> USE DEF IInv
<1>1. UNCHANGED <<muVars, subVars, sess, failed>> /\ loc' = Captured
  BY DEF BeginCycle
<1>2. loc' \in Locals
  <2>1. /\ epoch \in Nat /\ backend \in Backend /\ rid \in Nat
        /\ ver \in BOOLEAN /\ cur \in States
    BY DEF TypeOK
  <2>2. loc' = [epoch |-> epoch, backend |-> backend, rid |-> rid, ver |-> ver,
                prev |-> cur, torrents |-> NoRows, api |-> None,
                changed |-> NoRows, removed |-> {}, nextRid |-> 0,
                err |-> "other"]
    BY <1>1 DEF Captured, NoLocals
  <2>3. NoRows \in RowMaps(RowAny)
    BY NoRowsType
  <2> QED
    BY <2>1, <2>2, <2>3 DEF Locals, Failures, AuthClass
<1>3. /\ pc' \in PCs \ {"probe", "commit"}
      /\ sticky => pc' = "degrade"
  BY DEF BeginCycle, PCs
<1>4. /\ loc'.epoch = epoch /\ loc'.backend = backend /\ loc'.prev = cur
  BY <1>1 DEF Captured, NoLocals
<1>5. TypeOK'
  BY <1>1, <1>2, <1>3 DEF TypeOK, muVars, subVars
<1>6. AuthInv'
  BY <1>1, <1>3 DEF AuthInv, muVars
<1>7. CycleInv' /\ CurrentBackendOnly'
  BY <1>1, <1>3, <1>4 DEF CycleInv, CurrentBackendOnly, From, muVars, TypeOK
<1> QED
  BY <1>5, <1>6, <1>7

\* Counting a failure reaches the threshold exactly when it parks.
LEMMA NoteStep ==
  ASSUME IInv, pc \in {"login", "sync"}, NEW e \in Failures, NoteAuthFailure(e)
  PROVE  /\ authFails' \in 0..StickyAuthFails
         /\ sticky' \in BOOLEAN
         /\ failed' \in Nat
         /\ sticky' <=> authFails' = StickyAuthFails
<1>1. /\ authFails \in 0..StickyAuthFails /\ sticky = FALSE
      /\ authFails # StickyAuthFails /\ failed \in Nat
      /\ StickyAuthFails \in Nat \ {0}
  BY SyncerAssumption DEF IInv, TypeOK, AuthInv
<1>2. CASE e \in AuthClass
  <2>1. authFails' = authFails + 1
    BY <1>2 DEF NoteAuthFailure, Counts
  <2>2. sticky' \in BOOLEAN /\ (sticky' <=> authFails + 1 >= StickyAuthFails)
    BY <1>1, <1>2 DEF NoteAuthFailure, Counts, Parks
  <2>3. failed' \in Nat
    BY <1>1 DEF NoteAuthFailure
  <2>4. (authFails + 1 >= StickyAuthFails) <=> authFails + 1 = StickyAuthFails
    BY <1>1
  <2>5. authFails + 1 \in 0..StickyAuthFails
    BY <1>1
  <2> QED
    BY <2>1, <2>2, <2>3, <2>4, <2>5
<1>3. CASE e \notin AuthClass
  <2>1. authFails' = authFails /\ sticky' = FALSE /\ failed' = failed
    BY <1>1, <1>3 DEF NoteAuthFailure, Counts
  <2> QED
    BY <1>1, <2>1
<1> QED
  BY <1>2, <1>3

LEMMA LoginOKStep ==
  ASSUME IInv, LoginOK
  PROVE  IInv'
<1> USE DEF IInv
<1>1. ~sticky /\ authFails # StickyAuthFails
  BY DEF LoginOK, AuthInv
<1>2. /\ authFails' \in 0..StickyAuthFails /\ authFails' # StickyAuthFails
      /\ failed' \in Nat
  BY <1>1, SyncerAssumption DEF LoginOK, TypeOK
<1>3. UNCHANGED <<backend, epoch, cur, rid, ver, sticky, kick, loc, subVars, sess>> /\ pc' = "sync"
  BY DEF LoginOK
<1>4. TypeOK'
  BY <1>2, <1>3 DEF TypeOK, subVars, PCs
<1>5. AuthInv'
  BY <1>1, <1>2, <1>3 DEF AuthInv
<1>6. CycleInv' /\ CurrentBackendOnly'
  BY <1>3 DEF LoginOK, CycleInv, CurrentBackendOnly, From
<1> QED
  BY <1>4, <1>5, <1>6

LEMMA LoginFailStep ==
  ASSUME IInv, NEW e \in Failures, LoginFail(e)
  PROVE  IInv'
<1> USE DEF IInv
<1>1. UNCHANGED <<backend, epoch, cur, rid, ver, kick, subVars, sess>> /\ pc' = "degrade"
  BY DEF LoginFail
<1>2. loc' = [loc EXCEPT !.err = e] /\ loc \in Locals
  BY DEF LoginFail, TypeOK
<1>3. /\ loc' \in Locals /\ loc'.epoch = loc.epoch /\ loc'.backend = loc.backend
      /\ loc'.prev = loc.prev
  BY <1>2 DEF Locals
<1>4. /\ authFails' \in 0..StickyAuthFails
      /\ sticky' \in BOOLEAN
      /\ failed' \in Nat
      /\ sticky' <=> authFails' = StickyAuthFails
  BY NoteStep DEF LoginFail
<1>5. TypeOK'
  BY <1>1, <1>3, <1>4 DEF TypeOK, subVars, PCs
<1>6. AuthInv'
  BY <1>1, <1>4 DEF AuthInv
<1>7. CycleInv' /\ CurrentBackendOnly'
  BY <1>1, <1>3 DEF LoginFail, CycleInv, CurrentBackendOnly, From
<1> QED
  BY <1>5, <1>6, <1>7

\* A session after a response is well-formed.
LEMMA ServedType ==
  ASSUME TypeOK, NEW rows \in RowMaps(RowAny)
  PROVE  Served(rows) \in [client : Nat, rows : RowMaps(RowAny), rid : Nat]
<1>1. /\ sess.rid \in Nat /\ loc.epoch \in Nat /\ RidSpan \in Nat \ {0}
  BY SyncerAssumption DEF TypeOK, Locals
<1>2. (sess.rid % RidSpan) + 1 \in Nat
  BY <1>1
<1> QED
  BY <1>1, <1>2 DEF Served

\* The next state of a full update or a delta is made of the rows of the
\* captured backend, when the previous one was.
LEMMA BuildStep ==
  ASSUME IInv, pc = "sync", NEW rows \in RowMaps(Row(loc.backend)),
         \/ loc' = BuildFull(rows)
         \/ loc' = BuildDelta(rows, Differing(sess.rows, rows),
                              DOMAIN sess.rows \ DOMAIN rows)
  PROVE  /\ loc' \in Locals
         /\ loc'.epoch = loc.epoch /\ loc'.backend = loc.backend /\ loc'.prev = loc.prev
         /\ loc'.api = loc.prev.api
         /\ From(loc.backend, loc.prev.torrents) => From(loc.backend, loc'.torrents)
<1> USE DEF IInv
<1>1. /\ loc \in Locals /\ loc.backend \in Backend
      /\ loc.prev.torrents \in RowMaps(RowAny)
      /\ loc.prev.api \in Backend \cup {None}
      /\ sess.rows \in RowMaps(RowAny)
  BY DEF TypeOK, CycleInv, Locals, States
<1>2. rows \in RowMaps(RowAny) /\ From(loc.backend, rows)
  BY <1>1, ReportedRows
<1>3. Served(rows).rid \in Nat
  BY <1>2, ServedType
<1>4. NoRows \in RowMaps(RowAny) /\ From(loc.backend, NoRows)
  BY NoRowsType
<1>5. CASE loc' = BuildFull(rows)
  <2>1. Differing(loc.prev.torrents, rows) \in RowMaps(RowAny)
    BY <1>2, DifferingType
  <2>2. DOMAIN loc.prev.torrents \ DOMAIN rows \in SUBSET Hash
    BY <1>1, RowMapDomain
  <2> QED
    BY <1>1, <1>2, <1>3, <1>5, <2>1, <2>2 DEF BuildFull, Locals
<1>6. CASE loc' = BuildDelta(rows, Differing(sess.rows, rows), DOMAIN sess.rows \ DOMAIN rows)
  <2> DEFINE ch == Differing(sess.rows, rows)
             rm == DOMAIN sess.rows \ DOMAIN rows
             base == Patch(loc.prev.torrents, ch, {})
             final == Patch(base, NoRows, rm)
  <2>1. ch \in RowMaps(RowAny) /\ From(loc.backend, ch)
    BY <1>2, DifferingType, DifferingFrom
  <2>2. base \in RowMaps(RowAny)
    BY <1>1, <2>1, PatchType
  <2>3. final \in RowMaps(RowAny)
    BY <1>4, <2>2, PatchType
  <2>4. rm \cap DOMAIN base \in SUBSET Hash
    BY <2>2, RowMapDomain
  <2>5. From(loc.backend, loc.prev.torrents) => From(loc.backend, final)
    <3>1. ASSUME From(loc.backend, loc.prev.torrents) PROVE From(loc.backend, base)
      BY <2>1, <3>1, PatchFrom
    <3>2. ASSUME From(loc.backend, base) PROVE From(loc.backend, final)
      BY <1>4, <3>2, PatchFrom
    <3> QED
      BY <3>1, <3>2
  <2>6. loc' = [loc EXCEPT !.torrents = final, !.changed = ch,
                           !.removed = rm \cap DOMAIN base,
                           !.api = loc.prev.api, !.nextRid = Served(rows).rid]
    BY <1>6 DEF BuildDelta
  <2> HIDE DEF ch, rm, base, final
  <2> QED
    BY <1>1, <1>3, <2>1, <2>3, <2>4, <2>5, <2>6 DEF Locals
<1> QED
  BY <1>5, <1>6

LEMMA SyncOKStep ==
  ASSUME IInv, NEW rows \in RowMaps(Row(loc.backend)), SyncOK(rows)
  PROVE  IInv'
<1> USE DEF IInv
<1>1. UNCHANGED <<muVars, kick, subVars, failed>> /\ pc' \in {"probe", "commit"} /\ pc = "sync"
  BY DEF SyncOK
<1>2. /\ loc' \in Locals
      /\ loc'.epoch = loc.epoch /\ loc'.backend = loc.backend /\ loc'.prev = loc.prev
      /\ loc'.api = loc.prev.api
      /\ From(loc.backend, loc.prev.torrents) => From(loc.backend, loc'.torrents)
  BY BuildStep DEF SyncOK
<1>3. sess' \in [client : Nat, rows : RowMaps(RowAny), rid : Nat]
  <2>1. loc.backend \in Backend
    BY <1>1 DEF CycleInv
  <2>2. rows \in RowMaps(RowAny)
    BY <2>1, ReportedRows
  <2> QED
    BY <2>2, ServedType DEF SyncOK
<1>4. TypeOK'
  BY <1>1, <1>2, <1>3 DEF TypeOK, muVars, subVars, PCs
<1>5. AuthInv'
  BY <1>1 DEF AuthInv, muVars
<1>6. CycleInv' /\ CurrentBackendOnly'
  BY <1>1, <1>2 DEF CycleInv, CurrentBackendOnly, From, muVars
<1> QED
  BY <1>4, <1>5, <1>6

LEMMA SyncFailStep ==
  ASSUME IInv, NEW e \in Failures,
         NEW rows \in RowMaps(Row(loc.backend)), SyncFail(e, rows)
  PROVE  IInv'
<1> USE DEF IInv
<1>1. UNCHANGED <<backend, epoch, cur, rid, ver, kick, subVars>> /\ pc' = "degrade" /\ pc = "sync"
  BY DEF SyncFail
<1>2. loc' = [loc EXCEPT !.err = e] /\ loc \in Locals
  BY DEF SyncFail, TypeOK
<1>3. /\ loc' \in Locals /\ loc'.epoch = loc.epoch /\ loc'.backend = loc.backend
      /\ loc'.prev = loc.prev
  BY <1>2 DEF Locals
<1>4. /\ authFails' \in 0..StickyAuthFails
      /\ sticky' \in BOOLEAN
      /\ failed' \in Nat
      /\ sticky' <=> authFails' = StickyAuthFails
  BY NoteStep DEF SyncFail
<1>5. sess' \in [client : Nat, rows : RowMaps(RowAny), rid : Nat]
  <2>1. rows \in RowMaps(RowAny)
    BY <1>1, ReportedRows DEF CycleInv
  <2>2. Served(rows) \in [client : Nat, rows : RowMaps(RowAny), rid : Nat]
    BY <2>1, ServedType
  <2>3. sess' = sess \/ sess' = Served(rows)
    BY DEF SyncFail
  <2> QED
    BY <2>2, <2>3 DEF TypeOK
<1>6. TypeOK'
  BY <1>1, <1>3, <1>4, <1>5 DEF TypeOK, subVars, PCs
<1>7. AuthInv'
  BY <1>1, <1>4 DEF AuthInv
<1>8. CycleInv' /\ CurrentBackendOnly'
  BY <1>1, <1>3 DEF CycleInv, CurrentBackendOnly, From
<1> QED
  BY <1>6, <1>7, <1>8

\* The probe may ask the backend of either epoch; only that of the current
\* one survives in a cycle of the current one.
LEMMA ProbeStep ==
  ASSUME IInv, Probe
  PROVE  IInv'
<1> USE DEF IInv
<1>1. /\ UNCHANGED <<backend, epoch, cur, rid, authFails, sticky, kick, subVars, sess, failed>>
      /\ pc = "probe" /\ pc' = "commit" /\ ver' \in BOOLEAN
  BY DEF Probe, TypeOK
<1>2. \/ loc' = loc
      \/ \E b \in {loc.backend, backend} : loc' = [loc EXCEPT !.api = b]
  BY DEF Probe
<1>3. loc \in Locals /\ loc.backend \in Backend /\ backend \in Backend
  BY <1>1 DEF TypeOK, CycleInv
<1>4. /\ loc' \in Locals /\ loc'.epoch = loc.epoch /\ loc'.backend = loc.backend
      /\ loc'.prev = loc.prev /\ loc'.torrents = loc.torrents
      /\ loc'.api \in {loc.api, loc.backend, backend}
  BY <1>2, <1>3 DEF Locals
<1>5. TypeOK'
  BY <1>1, <1>4 DEF TypeOK, subVars, PCs
<1>6. AuthInv'
  BY <1>1 DEF AuthInv
<1>7. CycleInv' /\ CurrentBackendOnly'
  BY <1>1, <1>4 DEF CycleInv, CurrentBackendOnly, From
<1> QED
  BY <1>5, <1>6, <1>7

\* Only a cycle of the current epoch commits.
LEMMA CommitStep ==
  ASSUME IInv, Commit
  PROVE  IInv'
<1> USE DEF IInv
<1>1. /\ UNCHANGED <<backend, epoch, ver, authFails, sticky, kick, sess, failed>>
      /\ pc = "commit" /\ pc' = "idle" /\ loc' = NoLocals
  BY DEF Commit
<1>2. loc' \in Locals /\ loc'.epoch = 0
  BY <1>1, FreshType DEF NoLocals
<1>3. AuthInv' /\ CycleInv'
  BY <1>1, <1>2 DEF AuthInv, CycleInv, TypeOK
<1>4. CASE ~SameEpoch
  <2>1. UNCHANGED <<cur, rid, subVars>>
    BY <1>4 DEF Commit
  <2> QED
    BY <1>1, <1>2, <1>3, <2>1 DEF TypeOK, CurrentBackendOnly, From, subVars, PCs
<1>5. CASE SameEpoch
  <2>1. /\ cur' = [ok |-> TRUE, torrents |-> loc.torrents, api |-> loc.api,
                   err |-> "none", gen |-> loc.prev.gen + 1]
        /\ rid' = loc.nextRid
    BY <1>5 DEF Commit
  <2>2. /\ loc.torrents \in RowMaps(RowAny) /\ loc.api \in Backend \cup {None}
        /\ loc.prev.gen \in Nat /\ loc.nextRid \in Nat
        /\ loc.changed \in RowMaps(RowAny) /\ loc.removed \in SUBSET Hash
    BY DEF TypeOK, Locals, States
  <2>3. cur' \in States /\ rid' \in Nat
    BY <2>1, <2>2 DEF States, Errors
  <2>4. /\ phase' \in [Sub -> {"none", "open", "dropped"}]
        /\ chan' \in [Sub -> Seq(Changes)]
        /\ view' \in [Sub -> RowMaps(RowAny)]
        /\ seen' \in [Sub -> Nat]
    <3> DEFINE ch == [seq |-> loc.prev.gen + 1, changed |-> loc.changed,
                      removed |-> loc.removed, post |-> loc.torrents]
    <3>1. ch \in Changes
      BY <2>2 DEF Changes
    <3>2. Publish(ch) \/ UNCHANGED subVars
      BY <1>5 DEF Commit
    <3> HIDE DEF ch
    <3>3. CASE Publish(ch)
      BY <3>1, <3>3, PublishType
    <3>4. CASE UNCHANGED subVars
      BY <3>4 DEF subVars, TypeOK
    <3> QED
      BY <3>2, <3>3, <3>4
  <2>5. TypeOK'
    BY <1>1, <1>2, <2>3, <2>4 DEF TypeOK, PCs
  <2>6. CurrentBackendOnly'
    BY <1>1, <1>5, <2>1 DEF SameEpoch, CycleInv, CurrentBackendOnly
  <2> QED
    BY <1>3, <2>5, <2>6
<1> QED
  BY <1>4, <1>5

LEMMA DegradeStep ==
  ASSUME IInv, Degrade
  PROVE  IInv'
<1> USE DEF IInv
<1>1. /\ UNCHANGED <<backend, epoch, authFails, sticky, kick, subVars, sess, failed>>
      /\ pc' = "idle" /\ loc' = NoLocals
  BY DEF Degrade
<1>2. loc' \in Locals /\ loc'.epoch = 0
  BY <1>1, FreshType DEF NoLocals
<1>3. /\ cur' \in States /\ cur'.torrents = cur.torrents /\ cur'.api = cur.api
      /\ rid' \in Nat /\ ver' \in BOOLEAN
  <2>1. cur \in States /\ loc.err \in Errors /\ rid \in Nat /\ ver \in BOOLEAN
    BY DEF TypeOK, Locals, Errors
  <2>2. \/ UNCHANGED <<cur, rid, ver>>
        \/ /\ cur' = [cur EXCEPT !.ok = FALSE, !.err = loc.err]
           /\ rid' = 0 /\ ver' = FALSE
    BY DEF Degrade, Degraded
  <2>3. CASE UNCHANGED <<cur, rid, ver>>
    BY <2>1, <2>3
  <2>4. CASE /\ cur' = [cur EXCEPT !.ok = FALSE, !.err = loc.err]
             /\ rid' = 0 /\ ver' = FALSE
    BY <2>1, <2>4 DEF States
  <2> QED
    BY <2>2, <2>3, <2>4
<1>4. TypeOK'
  BY <1>1, <1>2, <1>3 DEF TypeOK, subVars, PCs
<1>5. AuthInv' /\ CycleInv'
  BY <1>1, <1>2 DEF AuthInv, CycleInv, TypeOK
<1>6. CurrentBackendOnly'
  BY <1>1, <1>3 DEF CurrentBackendOnly, From
<1> QED
  BY <1>4, <1>5, <1>6

-----------------------------------------------------------------------------
(* Theorems.                                                               *)

LEMMA NextIInv == IInv /\ [Next]_vars => IInv'
<1> SUFFICES ASSUME IInv, [Next]_vars PROVE IInv'
  OBVIOUS
<1>1. CASE WakeOnKick \/ WakeOnTimer
  BY <1>1, BeginStep DEF WakeOnKick, WakeOnTimer, IInv, TypeOK
<1>2. CASE CycleStep
  <2>1. ASSUME NEW e \in Failures, LoginFail(e) PROVE IInv'
    BY <2>1, LoginFailStep
  <2>2. CASE SyncAnswered
    BY <2>2, SyncOKStep DEF SyncAnswered
  <2>3. CASE SyncRefused
    BY <2>3, SyncFailStep DEF SyncRefused
  <2> QED
    BY <1>2, <2>1, <2>2, <2>3, LoginOKStep, ProbeStep, CommitStep, DegradeStep DEF CycleStep
<1>3. ASSUME NEW b \in Backend, SwitchBackend(b) PROVE IInv'
  BY <1>3, SwitchStep
<1>4. ASSUME NEW s \in Sub, Subscribe(s) \/ Deliver(s) \/ Unsubscribe(s) PROVE IInv'
  BY <1>4, SubscriberStep
<1>5. CASE UNCHANGED vars
  BY <1>5 DEF vars, muVars, subVars, IInv, TypeOK, AuthInv, CycleInv, CurrentBackendOnly, From
<1> QED
  BY <1>1, <1>2, <1>3, <1>4, <1>5 DEF Next

\* The inductive invariant holds throughout.
THEOREM InductiveInvariant == Spec => []IInv
<1>1. Init => IInv
  BY InitIInv
<1>2. IInv /\ [Next]_vars => IInv'
  BY NextIInv
<1> QED
  BY <1>1, <1>2, PTL DEF Spec

\* Type correctness; in particular the counter of failed logins never
\* passes its threshold.
THEOREM TypeCorrect == Spec => []TypeOK
<1>1. IInv => TypeOK
  BY DEF IInv
<1> QED
  BY <1>1, InductiveInvariant, PTL

\* The committed rows and version always belong to the backend in use, for
\* any number of backends and switches.
THEOREM OnlyCurrentBackend == Spec => []CurrentBackendOnly
<1>1. IInv => CurrentBackendOnly
  BY DEF IInv
<1> QED
  BY <1>1, InductiveInvariant, PTL

-----------------------------------------------------------------------------
(* The latch. The counter the syncer keeps and the authentication failures *)
(* of the epoch's own cycles differ by at most one: a cycle of the old     *)
(* epoch in flight across the switch.                                      *)

CountInv ==
  /\ failed <= authFails
  /\ authFails <= failed + 1
  /\ pc \in {"login", "sync"} /\ loc.epoch # epoch => authFails = 0 /\ failed = 0

\* A counted failure keeps the two counters together, or moves the
\* syncer's ahead by the one stale failure.
LEMMA NoteCount ==
  ASSUME IInv, CountInv, NEW e \in Failures, NoteAuthFailure(e),
         pc \in {"login", "sync"}
  PROVE  failed' <= authFails' /\ authFails' <= failed' + 1
<1>1. authFails \in Nat /\ failed \in Nat
  BY SyncerAssumption DEF IInv, TypeOK
<1>2. CASE loc.epoch = epoch
  BY <1>1, <1>2 DEF CountInv, NoteAuthFailure, Counts
<1>3. CASE loc.epoch # epoch
  BY <1>1, <1>3 DEF CountInv, NoteAuthFailure, Counts
<1> QED
  BY <1>2, <1>3

LEMMA NextCount == IInv /\ CountInv /\ [Next]_vars => CountInv'
<1> SUFFICES ASSUME IInv, CountInv, [Next]_vars PROVE CountInv'
  OBVIOUS
<1>0. authFails \in Nat /\ failed \in Nat
  BY SyncerAssumption DEF IInv, TypeOK
<1>1. CASE BeginCycle
  <2>1. UNCHANGED <<authFails, failed, epoch>> /\ loc'.epoch = epoch
    BY <1>1 DEF BeginCycle, muVars, Captured, NoLocals
  <2> QED
    BY <2>1 DEF CountInv
<1>2. CASE LoginOK
  BY <1>0, <1>2 DEF LoginOK, CountInv, SameEpoch
<1>3. ASSUME NEW e \in Failures, LoginFail(e) PROVE CountInv'
  <2>1. failed' <= authFails' /\ authFails' <= failed' + 1
    BY <1>3, NoteCount DEF LoginFail
  <2> QED
    BY <1>3, <2>1 DEF LoginFail, CountInv
<1>4. ASSUME NEW rows, SyncOK(rows) PROVE CountInv'
  BY <1>4 DEF SyncOK, CountInv, muVars
<1>5. ASSUME NEW e \in Failures, NEW rows, SyncFail(e, rows) PROVE CountInv'
  <2>1. failed' <= authFails' /\ authFails' <= failed' + 1
    BY <1>5, NoteCount DEF SyncFail
  <2> QED
    BY <1>5, <2>1 DEF SyncFail, CountInv
<1>6. CASE Probe \/ Commit \/ Degrade
  BY <1>6 DEF Probe, Commit, Degrade, CountInv
<1>7. ASSUME NEW b \in Backend, SwitchBackend(b) PROVE CountInv'
  BY <1>7 DEF SwitchBackend, CountInv
<1>8. ASSUME NEW s \in Sub, Subscribe(s) \/ Deliver(s) \/ Unsubscribe(s) PROVE CountInv'
  BY <1>8 DEF Subscribe, Deliver, Unsubscribe, muVars, CountInv
<1>9. CASE UNCHANGED vars
  BY <1>9 DEF vars, muVars, CountInv
<1> QED
  BY <1>1, <1>2, <1>3, <1>4, <1>5, <1>6, <1>7, <1>8, <1>9
     DEF Next, WakeOnKick, WakeOnTimer, CycleStep, SyncAnswered, SyncRefused

LEMMA CountInvariant == Spec => []CountInv
<1>1. Init => CountInv
  BY DEF Init, CountInv
<1> QED
  BY <1>1, NextCount, InductiveInvariant, PTL DEF Spec

\* For every threshold and every interleaving of switches and cycles: an
\* epoch sees at most StickyAuthFails cycles fail to authenticate with no
\* accepted login between them, and the syncer is parked after no fewer,
\* of which all but at most one are the epoch's own.
THEOREM Parking == Spec => []ParksInTime
<1>1. IInv /\ CountInv => ParksInTime
  BY SyncerAssumption DEF IInv, TypeOK, AuthInv, CountInv, ParksInTime
<1> QED
  BY <1>1, InductiveInvariant, CountInvariant, PTL

-----------------------------------------------------------------------------
(* What a step may not do.                                                 *)

\* A cycle that a switch has overtaken ends without touching the committed
\* state or the subscribers.
THEOREM StaleInert == Spec => StaleCycleIsInert
<1> DEFINE A == pc # "idle" /\ loc.epoch # epoch /\ pc' = "idle"
                  => UNCHANGED <<cur, rid, ver, subVars>>
<1>1. ASSUME [Next]_vars PROVE [A]_vars
  <2> SUFFICES ASSUME Next, pc # "idle", loc.epoch # epoch, pc' = "idle"
               PROVE  UNCHANGED <<cur, rid, ver, subVars>>
    BY <1>1
  <2>1. Commit \/ Degrade
    BY DEF Next, WakeOnKick, WakeOnTimer, BeginCycle, CycleStep, LoginOK, LoginFail,
           SyncAnswered, SyncOK, SyncRefused, SyncFail, Probe, SwitchBackend,
           Subscribe, Deliver, Unsubscribe
  <2> QED
    BY <2>1 DEF Commit, Degrade, SameEpoch
<1> QED
  BY <1>1, PTL DEF Spec, StaleCycleIsInert

\* Within an epoch only a successful commit changes the rows.
THEOREM KeepsLastKnownGood == Spec => LastKnownGood
<1> DEFINE A == epoch' = epoch /\ cur'.torrents # cur.torrents => cur'.ok /\ pc = "commit"
<1>1. ASSUME IInv, [Next]_vars PROVE [A]_vars
  <2> SUFFICES ASSUME Next, epoch' = epoch, cur'.torrents # cur.torrents
               PROVE  cur'.ok /\ pc = "commit"
    BY <1>1
  <2>1. cur \in States /\ epoch \in Nat
    BY <1>1 DEF IInv, TypeOK
  <2>2. Commit
    <3>1. ~ \E b \in Backend : SwitchBackend(b)
      BY <2>1 DEF SwitchBackend
    <3>2. ~Degrade
      BY <2>1 DEF Degrade, Degraded, States
    <3>3. cur' # cur
      OBVIOUS
    <3> QED
      BY <3>1, <3>2, <3>3
         DEF Next, WakeOnKick, WakeOnTimer, BeginCycle, CycleStep, LoginOK, LoginFail,
             SyncAnswered, SyncOK, SyncRefused, SyncFail, Probe,
             Subscribe, Deliver, Unsubscribe, muVars
  <2> QED
    BY <2>2 DEF Commit
<1> QED
  BY <1>1, InductiveInvariant, PTL DEF Spec, LastKnownGood

-----------------------------------------------------------------------------
(* The algebra of changes.                                                 *)

\* Row maps are equal when they have the same rows.
LEMMA SameRows ==
  ASSUME NEW R, NEW t \in RowMaps(R), NEW u \in RowMaps(R),
         DOMAIN t = DOMAIN u, \A h \in DOMAIN t : t[h] = u[h]
  PROVE  t = u
<1>1. PICK D \in SUBSET Hash : t \in [D -> R]
  BY DEF RowMaps
<1>2. PICK E \in SUBSET Hash : u \in [E -> R]
  BY DEF RowMaps
<1>3. u \in [D -> R] /\ \A h \in D : t[h] = u[h]
  BY <1>1, <1>2
<1> QED
  BY <1>1, <1>3

\* A full update, diffed and applied, is the update.
LEMMA PatchFull ==
  ASSUME NEW R, NEW old \in RowMaps(R), NEW new \in RowMaps(R)
  PROVE  Patch(old, Differing(old, new), DOMAIN old \ DOMAIN new) = new
<1> DEFINE ch == Differing(old, new)
           rm == DOMAIN old \ DOMAIN new
           p  == Patch(old, ch, rm)
<1>1. p \in RowMaps(R)
  BY DifferingType, PatchType
<1>2. DOMAIN ch = {h \in DOMAIN new : h \notin DOMAIN old \/ old[h] # new[h]}
      /\ \A h \in DOMAIN ch : ch[h] = new[h]
  BY DEF Differing
<1> HIDE DEF ch
<1>3. DOMAIN p = (DOMAIN old \cup DOMAIN ch) \ rm
      /\ \A h \in DOMAIN p : p[h] = IF h \in DOMAIN ch THEN ch[h] ELSE old[h]
  BY DEF Patch
<1> HIDE DEF p
<1>4. DOMAIN p = DOMAIN new
  BY <1>2, <1>3
<1>5. \A h \in DOMAIN p : p[h] = new[h]
  BY <1>2, <1>3, <1>4
<1>6. p = new
  BY <1>1, <1>4, <1>5, SameRows
<1> QED
  BY <1>6 DEF p, ch

\* A delta applied in two steps, as the code does it, is the change that is
\* published; and it leads to what the server has if it was computed against
\* the rows it is applied to.
LEMMA PatchDelta ==
  ASSUME NEW R, NEW t \in RowMaps(R), NEW old \in RowMaps(R), NEW new \in RowMaps(R)
  PROVE  LET ch   == Differing(old, new)
             rm   == DOMAIN old \ DOMAIN new
             base == Patch(t, ch, {})
         IN  /\ Patch(t, ch, rm \cap DOMAIN base) = Patch(base, NoRows, rm)
             /\ t = old => Patch(base, NoRows, rm) = new
<1> DEFINE ch    == Differing(old, new)
           rm    == DOMAIN old \ DOMAIN new
           base  == Patch(t, ch, {})
           one   == Patch(t, ch, rm \cap DOMAIN base)
           final == Patch(base, NoRows, rm)
<1>1. ch \in RowMaps(R) /\ NoRows \in RowMaps(R) /\ DOMAIN NoRows = {}
  BY DifferingType, NoRowsType DEF NoRows
<1>2. base \in RowMaps(R)
  BY <1>1, PatchType
<1>3. one \in RowMaps(R) /\ final \in RowMaps(R)
  BY <1>1, <1>2, PatchType
<1>4. /\ DOMAIN base = DOMAIN t \cup DOMAIN ch
      /\ \A h \in DOMAIN base : base[h] = IF h \in DOMAIN ch THEN ch[h] ELSE t[h]
  BY DEF Patch
<1>5. /\ DOMAIN one = (DOMAIN t \cup DOMAIN ch) \ (rm \cap DOMAIN base)
      /\ \A h \in DOMAIN one : one[h] = IF h \in DOMAIN ch THEN ch[h] ELSE t[h]
  BY DEF Patch
<1>6. /\ DOMAIN final = DOMAIN base \ rm
      /\ \A h \in DOMAIN final : final[h] = base[h]
  BY <1>1 DEF Patch
<1>7. /\ DOMAIN ch = {h \in DOMAIN new : h \notin DOMAIN old \/ old[h] # new[h]}
      /\ \A h \in DOMAIN ch : ch[h] = new[h]
  BY DEF Differing
<1> HIDE DEF ch, base, one, final
<1>8. one = final
  <2>1. DOMAIN one = DOMAIN final
    BY <1>4, <1>5, <1>6
  <2>2. \A h \in DOMAIN one : one[h] = final[h]
    BY <1>4, <1>5, <1>6, <2>1
  <2> QED
    BY <1>3, <2>1, <2>2, SameRows
<1>9. ASSUME t = old PROVE final = new
  <2>1. DOMAIN final = DOMAIN new
    BY <1>4, <1>6, <1>7, <1>9
  <2>2. \A h \in DOMAIN final : final[h] = new[h]
    BY <1>4, <1>6, <1>7, <1>9, <2>1
  <2> QED
    BY <1>3, <2>1, <2>2, SameRows
<1> QED
  BY <1>8, <1>9 DEF ch, base, one, final

\* A change without rows leaves the rows, and one that removes all of them
\* none.
LEMMA PatchNothing ==
  ASSUME NEW R, NEW t \in RowMaps(R), NEW ch \in RowMaps(R), DOMAIN ch = {}
  PROVE  Patch(t, ch, {}) = t
<1>1. Patch(t, ch, {}) \in RowMaps(R)
  BY PatchType
<1>2. DOMAIN Patch(t, ch, {}) = DOMAIN t /\ \A h \in DOMAIN t : Patch(t, ch, {})[h] = t[h]
  BY DEF Patch
<1> QED
  BY <1>1, <1>2, SameRows

LEMMA EmptyRows ==
  ASSUME NEW R, NEW t \in RowMaps(R), DOMAIN t = {}
  PROVE  t = NoRows
<1>1. NoRows \in RowMaps(R) /\ DOMAIN NoRows = {}
  BY NoRowsType DEF NoRows
<1> QED
  BY <1>1, SameRows

LEMMA PatchAll ==
  ASSUME NEW R, NEW t \in RowMaps(R)
  PROVE  Patch(t, NoRows, DOMAIN t) = NoRows
<1>1. NoRows \in RowMaps(R) /\ DOMAIN NoRows = {}
  BY NoRowsType DEF NoRows
<1>2. Patch(t, NoRows, DOMAIN t) \in RowMaps(R)
  BY <1>1, PatchType
<1>3. DOMAIN Patch(t, NoRows, DOMAIN t) = {}
  BY <1>1 DEF Patch
<1> QED
  BY <1>2, <1>3, EmptyRows

\* The next response id is another one.
LEMMA NextRid ==
  ASSUME NEW n \in Nat \ {0, 1}, NEW r \in 0..n
  PROVE  (r % n) + 1 \in 1..n /\ (r % n) + 1 # r
<1>1. CASE r < n
  <2>1. r % n = r
    BY <1>1
  <2> QED
    BY <1>1, <2>1
<1>2. CASE r = n
  <2>1. n % n = 0
    OBVIOUS
  <2> QED
    BY <1>2, <2>1
<1> QED
  BY <1>1, <1>2

-----------------------------------------------------------------------------
(* The rid, and what is committed.                                         *)

\* The committed rows are those the server will compute the next delta
\* against.
Based == sess.client = epoch /\ sess.rid = rid /\ sess.rows = cur.torrents

\* A cycle of the current epoch started from what is still committed; what it
\* has made of an answer is what the server keeps, and its change leads there.
\* The rid is of use only outside the requests: while an answer waits for its
\* commit, or a failure for its, the server may be one response ahead.
ReplayInv ==
  /\ sess.rid <= RidSpan /\ rid <= RidSpan
  /\ pc # "idle" /\ loc.epoch = epoch => loc.prev = cur /\ loc.rid = rid
  /\ pc # "idle" /\ loc.epoch # epoch => rid = 0
  /\ pc \in {"probe", "commit"} =>
       /\ Patch(loc.prev.torrents, loc.changed, loc.removed) = loc.torrents
       /\ loc.nextRid <= RidSpan
       /\ loc.epoch = epoch =>
            sess.client = epoch /\ sess.rows = loc.torrents /\ sess.rid = loc.nextRid
  /\ rid # 0 =>
       /\ pc \in {"idle", "login", "sync"} => Based
       /\ pc \in {"probe", "commit"} => sess.rid # rid
       /\ pc = "degrade" => Based \/ sess.rid # rid

\* What an answer makes of the locals.
LEMMA BuildFields ==
  ASSUME IInv, pc = "sync", NEW rows \in RowMaps(Row(loc.backend)),
         \/ loc' = BuildFull(rows)
         \/ /\ DeltaAllowed
            /\ loc' = BuildDelta(rows, Differing(sess.rows, rows),
                                 DOMAIN sess.rows \ DOMAIN rows)
  PROVE  /\ loc'.epoch = loc.epoch /\ loc'.rid = loc.rid /\ loc'.prev = loc.prev
         /\ loc'.nextRid = Served(rows).rid
         /\ Patch(loc'.prev.torrents, loc'.changed, loc'.removed) = loc'.torrents
         /\ \/ loc'.torrents = rows
            \/ DeltaAllowed /\ (loc.prev.torrents = sess.rows => loc'.torrents = rows)
<1>1. /\ loc \in Locals /\ loc.backend \in Backend
      /\ loc.prev.torrents \in RowMaps(RowAny) /\ sess.rows \in RowMaps(RowAny)
  BY DEF IInv, TypeOK, CycleInv, Locals, States
<1>2. rows \in RowMaps(RowAny)
  BY <1>1, ReportedRows
<1>3. CASE loc' = BuildFull(rows)
  <2>1. /\ loc'.torrents = rows /\ loc'.changed = Differing(loc.prev.torrents, rows)
        /\ loc'.removed = DOMAIN loc.prev.torrents \ DOMAIN rows
        /\ loc'.epoch = loc.epoch /\ loc'.rid = loc.rid /\ loc'.prev = loc.prev
        /\ loc'.nextRid = Served(rows).rid
    BY <1>1, <1>3 DEF BuildFull, Locals
  <2>2. Patch(loc.prev.torrents, Differing(loc.prev.torrents, rows),
              DOMAIN loc.prev.torrents \ DOMAIN rows) = rows
    BY <1>1, <1>2, PatchFull
  <2> QED
    BY <2>1, <2>2
<1>4. CASE /\ DeltaAllowed
           /\ loc' = BuildDelta(rows, Differing(sess.rows, rows), DOMAIN sess.rows \ DOMAIN rows)
  <2> DEFINE ch    == Differing(sess.rows, rows)
             rm    == DOMAIN sess.rows \ DOMAIN rows
             base  == Patch(loc.prev.torrents, ch, {})
             final == Patch(base, NoRows, rm)
  <2>1. /\ Patch(loc.prev.torrents, ch, rm \cap DOMAIN base) = final
        /\ loc.prev.torrents = sess.rows => final = rows
    BY <1>1, <1>2, PatchDelta
  <2>2. loc' = [loc EXCEPT !.torrents = final, !.changed = ch, !.removed = rm \cap DOMAIN base,
                           !.api = loc.prev.api, !.nextRid = Served(rows).rid]
    BY <1>4 DEF BuildDelta
  <2> HIDE DEF ch, rm, base, final
  <2>3. /\ loc'.torrents = final /\ loc'.changed = ch /\ loc'.removed = rm \cap DOMAIN base
        /\ loc'.epoch = loc.epoch /\ loc'.rid = loc.rid /\ loc'.prev = loc.prev
        /\ loc'.nextRid = Served(rows).rid
    BY <1>1, <2>2 DEF Locals
  <2> QED
    BY <1>4, <2>1, <2>3
<1> QED
  BY <1>3, <1>4

\* What a response does to the session.
LEMMA ServedFields ==
  ASSUME IInv, ReplayInv, NEW rows
  PROVE  /\ Served(rows).client = loc.epoch /\ Served(rows).rows = rows
         /\ Served(rows).rid \in 1..RidSpan
         /\ sess.client = loc.epoch => Served(rows).rid # sess.rid
<1>1. sess.rid \in 0..RidSpan /\ RidSpan \in Nat \ {0, 1}
  BY SyncerAssumption DEF IInv, TypeOK, ReplayInv
<1>2. (sess.rid % RidSpan) + 1 \in 1..RidSpan /\ (sess.rid % RidSpan) + 1 # sess.rid
  BY <1>1, NextRid
<1>3. 1 \in 1..RidSpan
  BY <1>1
<1> QED
  BY <1>2, <1>3 DEF Served

LEMMA ReplayStep ==
  ASSUME IInv, ReplayInv, [Next]_vars
  PROVE  ReplayInv'
<1>t. /\ epoch \in Nat /\ rid \in Nat /\ loc.epoch \in Nat /\ loc.epoch <= epoch
      /\ RidSpan \in Nat /\ loc \in Locals /\ cur \in States /\ sess.rid \in Nat
  BY SyncerAssumption DEF IInv, TypeOK, CycleInv, Locals
<1>1. CASE BeginCycle
  <2>1. /\ UNCHANGED <<epoch, cur, rid, sess>> /\ pc = "idle"
        /\ loc'.epoch = epoch /\ loc'.rid = rid /\ loc'.prev = cur
        /\ pc' \in {"degrade", "login", "sync"}
    BY <1>1 DEF BeginCycle, muVars, Captured, NoLocals
  <2> QED
    BY <2>1 DEF ReplayInv, Based
<1>2. CASE LoginOK
  BY <1>2 DEF LoginOK, ReplayInv, Based
<1>3. ASSUME NEW e \in Failures, LoginFail(e)
      PROVE  ReplayInv'
  <2>1. /\ loc'.epoch = loc.epoch /\ loc'.rid = loc.rid /\ loc'.prev = loc.prev
        /\ UNCHANGED <<epoch, cur, rid, sess>> /\ pc = "login" /\ pc' = "degrade"
    BY <1>3, <1>t DEF LoginFail, Locals
  <2> QED
    BY <2>1 DEF ReplayInv, Based
<1>4. ASSUME NEW rows \in RowMaps(Row(loc.backend)), SyncOK(rows)
      PROVE  ReplayInv'
  <2>1. /\ loc'.epoch = loc.epoch /\ loc'.rid = loc.rid /\ loc'.prev = loc.prev
        /\ loc'.nextRid = Served(rows).rid
        /\ Patch(loc'.prev.torrents, loc'.changed, loc'.removed) = loc'.torrents
        /\ \/ loc'.torrents = rows
           \/ DeltaAllowed /\ (loc.prev.torrents = sess.rows => loc'.torrents = rows)
    BY <1>4, BuildFields DEF SyncOK
  <2>2. /\ sess'.client = loc.epoch /\ sess'.rows = rows /\ sess'.rid = loc'.nextRid
        /\ sess'.rid \in 1..RidSpan
        /\ sess.client = loc.epoch => sess'.rid # sess.rid
    BY <1>4, <2>1, ServedFields DEF SyncOK
  <2>3. UNCHANGED <<epoch, cur, rid>> /\ pc = "sync" /\ pc' \in {"probe", "commit"}
    BY <1>4 DEF SyncOK, muVars
  <2>4. ASSUME loc.epoch = epoch
        PROVE  loc'.torrents = rows
    <3>1. ASSUME DeltaAllowed
          PROVE  loc.prev.torrents = sess.rows
      BY <1>t, <2>3, <2>4, <3>1 DEF DeltaAllowed, ReplayInv, Based
    <3> QED
      BY <2>1, <3>1
  <2>5. rid # 0 => sess'.rid # rid
    BY <2>2, <2>3 DEF ReplayInv, Based
  <2> QED
    BY <1>t, <2>1, <2>2, <2>3, <2>4, <2>5 DEF ReplayInv
<1>5. ASSUME NEW e, NEW rows, SyncFail(e, rows)
      PROVE  ReplayInv'
  <2>1. /\ loc'.epoch = loc.epoch /\ loc'.rid = loc.rid /\ loc'.prev = loc.prev
        /\ UNCHANGED <<epoch, cur, rid>> /\ pc = "sync" /\ pc' = "degrade"
        /\ sess' = sess \/ sess' = Served(rows)
    BY <1>5, <1>t DEF SyncFail, Locals
  <2>2. CASE sess' = sess
    BY <2>1, <2>2 DEF ReplayInv, Based
  <2>3. CASE sess' = Served(rows)
    <3>1. /\ sess'.rid \in 1..RidSpan
          /\ sess.client = loc.epoch => sess'.rid # sess.rid
      BY <2>3, ServedFields
    <3>2. rid # 0 => sess'.rid # rid
      BY <2>1, <3>1 DEF ReplayInv, Based
    <3> QED
      BY <1>t, <2>1, <3>1, <3>2 DEF ReplayInv
  <2> QED
    BY <2>1, <2>2, <2>3
<1>6. CASE Probe
  <2>1. /\ loc'.epoch = loc.epoch /\ loc'.rid = loc.rid /\ loc'.prev = loc.prev
        /\ loc'.torrents = loc.torrents /\ loc'.changed = loc.changed
        /\ loc'.removed = loc.removed /\ loc'.nextRid = loc.nextRid
    BY <1>6, <1>t DEF Probe, Locals
  <2>2. UNCHANGED <<epoch, cur, rid, sess>> /\ pc = "probe" /\ pc' = "commit"
    BY <1>6 DEF Probe
  <2> QED
    BY <2>1, <2>2 DEF ReplayInv
<1>7. CASE Commit
  <2>1. pc = "commit" /\ pc' = "idle" /\ UNCHANGED <<epoch, sess>>
    BY <1>7 DEF Commit
  <2>2. CASE SameEpoch
    <3>1. cur'.torrents = loc.torrents /\ rid' = loc.nextRid
      BY <1>7, <2>2 DEF Commit
    <3> QED
      BY <2>1, <2>2, <3>1 DEF ReplayInv, Based, SameEpoch
  <2>3. CASE ~SameEpoch
    BY <1>7, <2>1, <2>3 DEF Commit, ReplayInv, SameEpoch
  <2> QED
    BY <2>2, <2>3
<1>8. CASE Degrade
  <2>1. pc = "degrade" /\ pc' = "idle" /\ UNCHANGED <<epoch, sess>> /\ rid' = 0
    BY <1>8 DEF Degrade, ReplayInv, SameEpoch
  <2> QED
    BY <1>t, <2>1 DEF ReplayInv
<1>9. ASSUME NEW b \in Backend, SwitchBackend(b)
      PROVE  ReplayInv'
  <2>1. rid' = 0 /\ epoch' = epoch + 1 /\ UNCHANGED <<pc, loc, sess>>
    BY <1>9 DEF SwitchBackend
  <2> QED
    BY <1>t, <2>1 DEF ReplayInv
<1>10. CASE UNCHANGED <<muVars, pc, loc, sess>>
  BY <1>10 DEF muVars, ReplayInv, Based
<1>11. ASSUME NEW s \in Sub, Subscribe(s) \/ Deliver(s) \/ Unsubscribe(s)
       PROVE  UNCHANGED <<muVars, pc, loc, sess>>
  BY <1>11 DEF Subscribe, Deliver, Unsubscribe
<1> QED
  BY <1>1, <1>2, <1>3, <1>4, <1>5, <1>6, <1>7, <1>8, <1>9, <1>10, <1>11
     DEF Next, WakeOnKick, WakeOnTimer, CycleStep, SyncAnswered, SyncRefused, vars

LEMMA ReplayInvariant == Spec => []ReplayInv
<1>1. Init => ReplayInv
  BY SyncerAssumption DEF Init, ReplayInv
<1> QED
  BY <1>1, ReplayStep, InductiveInvariant, PTL DEF Spec

\* However switches, failures and lost answers fall between the steps of a
\* cycle: a rid that the server would answer with a delta is only kept while
\* the committed rows are the ones it would compute that delta against.
THEOREM DeltasHaveTheirBase == Spec => []DeltaHasItsBase
<1>1. IInv /\ ReplayInv => DeltaHasItsBase
  BY DEF IInv, TypeOK, PCs, ReplayInv, Based, DeltaHasItsBase
<1> QED
  BY <1>1, InductiveInvariant, ReplayInvariant, PTL

\* What a cycle commits is what the backend reported last, for every order of
\* full updates, deltas, failures and switches (applyFull, applyDelta).
THEOREM CommitsTheReport == Spec => CommitsWhatWasReported
<1> DEFINE A == cur'.ok /\ cur' # cur => cur'.torrents = sess.rows
<1>1. ASSUME IInv, ReplayInv, [Next]_vars PROVE [A]_vars
  <2> SUFFICES ASSUME Next, cur'.ok, cur' # cur
               PROVE  cur'.torrents = sess.rows
    BY <1>1
  <2>1. cur \in States
    BY <1>1 DEF IInv, TypeOK
  <2>2. Commit /\ SameEpoch
    <3>1. ~ \E b \in Backend : SwitchBackend(b)
      BY DEF SwitchBackend, Cleared, Fresh
    <3>2. ~Degrade
      BY <2>1 DEF Degrade, Degraded, States
    <3> QED
      BY <3>1, <3>2
         DEF Next, WakeOnKick, WakeOnTimer, BeginCycle, CycleStep, LoginOK, LoginFail,
             SyncAnswered, SyncOK, SyncRefused, SyncFail, Probe, Commit,
             Subscribe, Deliver, Unsubscribe, muVars
  <2>3. cur'.torrents = loc.torrents /\ pc = "commit" /\ loc.epoch = epoch
    BY <2>2 DEF Commit, SameEpoch
  <2> QED
    BY <1>1, <2>3 DEF ReplayInv
<1> QED
  BY <1>1, InductiveInvariant, ReplayInvariant, PTL DEF Spec, CommitsWhatWasReported

-----------------------------------------------------------------------------
(* The subscribers.                                                        *)

\* Every change on its way was made of rows of one backend, and a subscription
\* begins with an empty channel.
FollowInv ==
  /\ \A s \in Sub :
       /\ phase[s] = "none" => chan[s] = <<>>
       /\ \A i \in 1..Len(chan[s]) : \E b \in Backend : From(b, chan[s][i].post)
  /\ SubscribersFollow

\* What FollowInv says of one subscription: p, v and c are its phase, view and
\* channel, t the committed rows.
Ends(v, c)  == IF c = <<>> THEN v ELSE c[Len(c)].post
Steps(v, c) == \A i \in 1..Len(c) : Leads(IF i = 1 THEN v ELSE c[i-1].post, c[i])
OfOne(t)    == \E b \in Backend : From(b, t)
Follows(p, v, c, t) ==
  /\ p = "none" => c = <<>>
  /\ OfOne(v) /\ \A i \in 1..Len(c) : OfOne(c[i].post)
  /\ Steps(v, c)
  /\ p = "open" => t = Ends(v, c)

LEMMA FollowOne ==
  /\ FollowInv <=> \A s \in Sub : Follows(phase[s], view[s], chan[s], cur.torrents)
  /\ FollowInv' <=> \A s \in Sub : Follows(phase'[s], view'[s], chan'[s], cur'.torrents)
BY DEF FollowInv, SubscribersFollow, Follows, Ends, Steps, OfOne

\* A change appended to a channel.
LEMMA AppendFollows ==
  ASSUME NEW v, NEW c \in Seq(Changes), NEW t, NEW ch \in Changes,
         Follows("open", v, c, t), Leads(t, ch), OfOne(ch.post)
  PROVE  Follows("open", v, Append(c, ch), ch.post)
<1> DEFINE d == Append(c, ch)
<1>1. /\ d \in Seq(Changes) /\ Len(d) = Len(c) + 1 /\ Len(c) \in Nat /\ d # <<>>
      /\ d[Len(c) + 1] = ch /\ \A i \in 1..Len(c) : d[i] = c[i]
  OBVIOUS
<1> HIDE DEF d
<1>2. \A i \in 1..Len(d) : OfOne(d[i].post)
  BY <1>1 DEF Follows
<1>3. Steps(v, d)
  <2> SUFFICES ASSUME NEW i \in 1..Len(d)
               PROVE  Leads(IF i = 1 THEN v ELSE d[i-1].post, d[i])
    BY DEF Steps
  <2>1. CASE i <= Len(c)
    <3>1. i \in 1..Len(c) /\ d[i] = c[i] /\ (i # 1 => d[i-1] = c[i-1])
      BY <1>1, <2>1
    <3> QED
      BY <3>1 DEF Follows, Steps
  <2>2. CASE i = Len(c) + 1
    <3>1. t = IF i = 1 THEN v ELSE c[i-1].post
      <4>1. c = <<>> <=> Len(c) = 0
        OBVIOUS
      <4> QED
        BY <1>1, <2>2, <4>1 DEF Follows, Ends
    <3>2. i # 1 => d[i-1] = c[i-1]
      BY <1>1, <2>2
    <3> QED
      BY <1>1, <2>2, <3>1, <3>2
  <2> QED
    BY <1>1, <2>1, <2>2
<1>4. ch.post = Ends(v, d)
  BY <1>1 DEF Ends
<1> QED
  BY <1>2, <1>3, <1>4 DEF Follows, d

\* The oldest change taken off a channel and applied.
LEMMA TailFollows ==
  ASSUME NEW p, p # "none", NEW v, NEW c \in Seq(Changes), c # <<>>, NEW t, Follows(p, v, c, t)
  PROVE  Follows(p, Patch(v, Head(c).changed, Head(c).removed), Tail(c), t)
<1> DEFINE w == Patch(v, Head(c).changed, Head(c).removed)
           d == Tail(c)
<1>1. /\ d \in Seq(Changes) /\ Len(d) = Len(c) - 1 /\ Len(c) \in Nat \ {0} /\ Len(d) \in Nat
      /\ \A i \in 1..Len(d) : d[i] = c[i+1]
      /\ Head(c) = c[1] /\ (d = <<>> <=> Len(d) = 0)
  <2>1. d \in Seq(Changes) /\ Len(c) \in Nat \ {0}
    OBVIOUS
  <2>2. Len(d) = Len(c) - 1 /\ Head(c) = c[1]
    OBVIOUS
  <2>3. \A i \in 1..Len(d) : d[i] = c[i+1]
    OBVIOUS
  <2> HIDE DEF d
  <2>4. d = <<>> <=> Len(d) = 0
    BY <2>1
  <2> QED
    BY <2>1, <2>2, <2>3, <2>4
<1>2. Leads(v, c[1]) /\ 1 \in 1..Len(c)
  BY <1>1 DEF Follows, Steps
<1>3. w = c[1].post
  BY <1>1, <1>2 DEF Leads
<1> HIDE DEF d, w
<1>4. OfOne(w)
  BY <1>2, <1>3 DEF Follows
<1>5. \A i \in 1..Len(d) : OfOne(d[i].post)
  <2> SUFFICES ASSUME NEW i \in 1..Len(d) PROVE OfOne(d[i].post)
    OBVIOUS
  <2>1. i + 1 \in 1..Len(c)
    BY <1>1
  <2> QED
    BY <1>1, <2>1 DEF Follows
<1>6. Steps(w, d)
  <2> SUFFICES ASSUME NEW i \in 1..Len(d)
               PROVE  Leads(IF i = 1 THEN w ELSE d[i-1].post, d[i])
    BY DEF Steps
  <2>1. i + 1 \in 1..Len(c) /\ i + 1 # 1 /\ (i + 1) - 1 = i /\ d[i] = c[i + 1]
    BY <1>1
  <2>2. Leads(c[i].post, d[i])
    BY <2>1 DEF Follows, Steps
  <2>3. CASE i = 1
    BY <1>3, <2>2, <2>3
  <2>4. CASE i # 1
    <3>1. i - 1 \in 1..Len(d) /\ (i - 1) + 1 = i
      BY <1>1, <2>4
    <3>2. d[i-1] = c[i]
      BY <1>1, <3>1
    <3> QED
      BY <2>2, <2>4, <3>2
  <2> QED
    BY <2>3, <2>4
<1>7. Ends(w, d) = Ends(v, c)
  <2>1. CASE Len(d) = 0
    <3>1. Len(c) = 1
      BY <1>1, <2>1
    <3> QED
      BY <1>1, <1>3, <2>1, <3>1 DEF Ends
  <2>2. CASE Len(d) # 0
    <3>1. Len(d) \in 1..Len(d) /\ Len(d) + 1 = Len(c)
      BY <1>1, <2>2
    <3> QED
      BY <1>1, <2>2, <3>1 DEF Ends
  <2> QED
    BY <2>1, <2>2
<1> QED
  BY <1>4, <1>5, <1>6, <1>7 DEF Follows, d, w

\* Publishing a change that leads to the next committed rows.
LEMMA PublishFollows ==
  ASSUME TypeOK, FollowInv, NEW ch \in Changes, Publish(ch), Leads(cur.torrents, ch),
         ch.post = cur'.torrents, OfOne(ch.post)
  PROVE  FollowInv'
<1> SUFFICES ASSUME NEW s \in Sub
             PROVE  Follows(phase'[s], view'[s], chan'[s], cur'.torrents)
  BY FollowOne
<1>1. /\ Follows(phase[s], view[s], chan[s], cur.torrents) /\ chan[s] \in Seq(Changes)
      /\ phase[s] \in {"none", "open", "dropped"} /\ Len(chan[s]) \in Nat /\ ChanCap \in Nat
  BY FollowOne, SyncerAssumption DEF TypeOK
<1>2. /\ view'[s] = view[s]
      /\ chan'[s] = IF phase[s] = "open" /\ Len(chan[s]) < ChanCap
                      THEN Append(chan[s], ch) ELSE chan[s]
      /\ phase'[s] = IF phase[s] = "open" /\ Len(chan[s]) >= ChanCap THEN "dropped" ELSE phase[s]
  BY DEF Publish
<1>3. CASE phase[s] = "open" /\ Len(chan[s]) < ChanCap
  <2>1. phase'[s] = "open" /\ chan'[s] = Append(chan[s], ch)
    BY <1>1, <1>2, <1>3
  <2> QED
    BY <1>1, <1>2, <1>3, <2>1, AppendFollows
<1>4. CASE ~(phase[s] = "open" /\ Len(chan[s]) < ChanCap)
  <2>1. /\ phase'[s] # "open" /\ chan'[s] = chan[s]
        /\ phase'[s] = "none" => phase[s] = "none"
    BY <1>1, <1>2, <1>4
  <2> QED
    BY <1>1, <1>2, <2>1 DEF Follows
<1> QED
  BY <1>3, <1>4

LEMMA FollowStep ==
  ASSUME IInv, ReplayInv, FollowInv, [Next]_vars
  PROVE  FollowInv'
<1>t. TypeOK /\ cur \in States /\ cur.torrents \in RowMaps(RowAny) /\ loc \in Locals
      /\ OfOne(cur.torrents) /\ OfOne(NoRows) /\ backend \in Backend
  BY NoRowsType, SyncerAssumption DEF IInv, TypeOK, States, OfOne, CurrentBackendOnly
<1>f. \A s \in Sub : Follows(phase[s], view[s], chan[s], cur.torrents)
  BY FollowOne
<1>o. ASSUME UNCHANGED subVars, cur'.torrents = cur.torrents
      PROVE  FollowInv'
  BY <1>o, <1>f, FollowOne DEF subVars
<1>1. CASE Commit
  <2>1. CASE ~SameEpoch
    BY <1>1, <1>o, <2>1 DEF Commit
  <2>2. CASE SameEpoch
    <3> DEFINE ch == [seq |-> loc.prev.gen + 1, changed |-> loc.changed,
                      removed |-> loc.removed, post |-> loc.torrents]
    <3>1. /\ pc = "commit" /\ loc.epoch = epoch /\ cur'.torrents = loc.torrents
          /\ IF DOMAIN loc.changed # {} \/ loc.removed # {} \/ ~loc.prev.ok
               THEN Publish(ch) ELSE UNCHANGED subVars
      BY <1>1, <2>2 DEF Commit, SameEpoch
    <3>2. Patch(cur.torrents, loc.changed, loc.removed) = loc.torrents
      BY <3>1 DEF ReplayInv
    <3>3. /\ loc.torrents \in RowMaps(RowAny) /\ loc.changed \in RowMaps(RowAny)
          /\ loc.removed \in SUBSET Hash /\ loc.prev.gen \in Nat
      BY <1>t DEF Locals, States
    <3>4. CASE Publish(ch)
      <4>1. ch \in Changes /\ ch.post = loc.torrents /\ Leads(cur.torrents, ch)
        BY <3>2, <3>3 DEF Changes, Leads
      <4>2. OfOne(loc.torrents)
        BY <1>t, <3>1 DEF OfOne, IInv, CycleInv
      <4> HIDE DEF ch
      <4> QED
        BY <1>t, <3>1, <3>4, <4>1, <4>2, PublishFollows
    <3>5. CASE DOMAIN loc.changed = {} /\ loc.removed = {} /\ UNCHANGED subVars
      <4>1. loc.torrents = cur.torrents
        BY <1>t, <3>2, <3>3, <3>5, PatchNothing
      <4> QED
        BY <1>o, <3>1, <3>5, <4>1
    <3> HIDE DEF ch
    <3> QED
      BY <3>1, <3>4, <3>5
  <2> QED
    BY <2>1, <2>2
<1>2. ASSUME NEW b \in Backend, SwitchBackend(b)
      PROVE  FollowInv'
  <2> DEFINE ch == [seq |-> cur'.gen, changed |-> NoRows, removed |-> Removals, post |-> NoRows]
  <2>1. cur' = [Fresh EXCEPT !.gen = cur.gen + 1] /\ cur.gen \in Nat
    BY <1>2, <1>t DEF SwitchBackend, Cleared, States
  <2>2. cur'.torrents = NoRows /\ cur'.gen \in Nat
    BY <2>1 DEF Fresh
  <2>3. CASE DOMAIN cur.torrents = {}
    <3>1. cur.torrents = NoRows
      BY <1>t, <2>3, EmptyRows
    <3> QED
      BY <1>2, <1>o, <2>2, <2>3, <3>1 DEF SwitchBackend
  <2>4. CASE DOMAIN cur.torrents # {}
    <3>1. Publish(ch)
      BY <1>2, <2>4 DEF SwitchBackend
    <3>2. NoRows \in RowMaps(RowAny) /\ Removals \in SUBSET Hash
      BY <1>t, NoRowsType, RowMapDomain DEF Removals
    <3>3. Patch(cur.torrents, NoRows, DOMAIN cur.torrents) = NoRows
      BY <1>t, PatchAll
    <3>4. ch \in Changes /\ ch.post = NoRows /\ Leads(cur.torrents, ch)
      BY <2>2, <3>2, <3>3 DEF Changes, Leads, Removals
    <3> HIDE DEF ch
    <3> QED
      BY <1>t, <2>2, <3>1, <3>4, PublishFollows
  <2> QED
    BY <2>3, <2>4
<1>3. CASE Degrade
  <2>1. UNCHANGED subVars /\ cur'.torrents = cur.torrents
    BY <1>3, <1>t DEF Degrade, Degraded, States
  <2> QED
    BY <1>o, <2>1
<1>4. CASE BeginCycle \/ LoginOK \/ Probe \/ UNCHANGED vars
  BY <1>4, <1>o DEF BeginCycle, LoginOK, Probe, vars, muVars
<1>5. ASSUME NEW e, NEW rows, LoginFail(e) \/ SyncOK(rows) \/ SyncFail(e, rows)
      PROVE  FollowInv'
  BY <1>5, <1>o DEF LoginFail, SyncOK, SyncFail, muVars
<1>6. ASSUME NEW s \in Sub, Follows(phase'[s], view'[s], chan'[s], cur'.torrents),
             UNCHANGED cur,
             \A r \in Sub \ {s} : phase'[r] = phase[r] /\ view'[r] = view[r] /\ chan'[r] = chan[r]
      PROVE  FollowInv'
  BY <1>6, <1>f, FollowOne
<1>7. ASSUME NEW s \in Sub, Subscribe(s)
      PROVE  FollowInv'
  <2>1. /\ UNCHANGED <<cur, chan>> /\ phase[s] = "none" /\ phase'[s] = "open"
        /\ view'[s] = cur.torrents
        /\ \A r \in Sub \ {s} : phase'[r] = phase[r] /\ view'[r] = view[r] /\ chan'[r] = chan[r]
    BY <1>7, <1>t DEF Subscribe, muVars, TypeOK
  <2>2. chan'[s] = <<>>
    BY <1>f, <2>1 DEF Follows
  <2>3. Follows("open", cur.torrents, <<>>, cur.torrents)
    BY <1>t DEF Follows, Steps, Ends
  <2> QED
    BY <1>6, <2>1, <2>2, <2>3
<1>8. ASSUME NEW s \in Sub, Deliver(s)
      PROVE  FollowInv'
  <2>1. /\ UNCHANGED <<cur, phase>> /\ chan[s] # <<>> /\ chan'[s] = Tail(chan[s])
        /\ view'[s] = Patch(view[s], Head(chan[s]).changed, Head(chan[s]).removed)
        /\ \A r \in Sub \ {s} : phase'[r] = phase[r] /\ view'[r] = view[r] /\ chan'[r] = chan[r]
    BY <1>8, <1>t DEF Deliver, muVars, TypeOK
  <2>2. phase[s] # "none" /\ chan[s] \in Seq(Changes)
    BY <1>f, <1>t, <2>1 DEF Follows, TypeOK
  <2>3. Follows(phase[s], view'[s], chan'[s], cur.torrents)
    BY <1>f, <2>1, <2>2, TailFollows
  <2> QED
    BY <1>6, <2>1, <2>3
<1>9. ASSUME NEW s \in Sub, Unsubscribe(s)
      PROVE  FollowInv'
  <2>1. /\ UNCHANGED cur /\ phase'[s] = "none" /\ chan'[s] = <<>> /\ view'[s] = NoRows
        /\ \A r \in Sub \ {s} : phase'[r] = phase[r] /\ view'[r] = view[r] /\ chan'[r] = chan[r]
    BY <1>9, <1>t DEF Unsubscribe, muVars, TypeOK
  <2>2. Follows("none", NoRows, <<>>, cur.torrents)
    BY <1>t DEF Follows, Steps
  <2> QED
    BY <1>6, <2>1, <2>2
<1> QED
  BY <1>1, <1>2, <1>3, <1>4, <1>5, <1>7, <1>8, <1>9
     DEF Next, WakeOnKick, WakeOnTimer, CycleStep, SyncAnswered, SyncRefused

\* For any number of subscribers, every capacity of their channels and every
\* order of commits, switches and receptions: a subscription that is open
\* replays to exactly what is committed, and none mixes two backends
\* (Subscribe, publishToSubs).
THEOREM NoChangeIsLost == Spec => []SubscribersFollow
<1>1. Init => FollowInv
  <2> SUFFICES ASSUME Init PROVE FollowInv
    OBVIOUS
  <2>1. OfOne(NoRows)
    BY NoRowsType, SyncerAssumption DEF OfOne
  <2>2. Follows("none", NoRows, <<>>, cur.torrents)
    BY <2>1 DEF Follows, Steps
  <2> QED
    BY <2>2, FollowOne DEF Init
<1>2. FollowInv => SubscribersFollow
  BY DEF FollowInv
<1> QED
  BY <1>1, <1>2, FollowStep, InductiveInvariant, ReplayInvariant, PTL DEF Spec
=============================================================================
