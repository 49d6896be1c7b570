---------------------------- MODULE SocketProofs -----------------------------
(***************************************************************************)
(* What holds of Socket for any number of daemons, of clients and of files *)
(* made: no handler keeps a client after Close, a daemon that serves is    *)
(* the one at the path, and the recovery removes no file somebody listens  *)
(* on.                                                                     *)
(*                                                                         *)
(* The second needs that starts and stops exclude each other (OneAtATime)  *)
(* and that whoever is past the probe is alone (AloneInv).  The third      *)
(* follows an inode from the probe to the removal (DeadInv): a socket gets *)
(* its permissions after its daemon listens, so one that has them and is   *)
(* not heard is never heard again.                                         *)
(***************************************************************************)
EXTENDS Socket, FiniteSetTheorems, TLAPS

-----------------------------------------------------------------------------
(* Types.                                                                  *)

Stages == Starting \cup {"off", "serving"}
Stops  == {"none", "listener", "wait", "compare", "unlink", "returned"}

FileTypeOK == file \in Files /\ made \in 0..MaxFile
ProcTypeOK ==
  /\ hears \in [Daemon -> 0..MaxFile] /\ serve \in [Daemon -> Stages]
  /\ stop \in [Daemon -> Stops] /\ ln \in [Daemon -> BOOLEAN]
NoteTypeOK ==
  /\ saw \in [Daemon -> Files] /\ looked \in [Daemon -> Files] /\ own \in [Daemon -> 0..MaxFile]
ConnTypeOK ==
  /\ conn \in [Client -> {"none", "queued", "accepted", "client", "handled", "over"}]
  /\ of \in [Client -> Daemon] /\ open \subseteq Client
HistoryTypeOK == overlap \in BOOLEAN /\ astray \subseteq 0..MaxFile

SocketTypeOK == FileTypeOK /\ ProcTypeOK /\ NoteTypeOK /\ ConnTypeOK /\ HistoryTypeOK

LEMMA FileFields ==
  ASSUME NEW f \in Files
  PROVE  /\ f.id \in 0..MaxFile /\ f.mode \in {"none", "0700", "0600"}
         /\ f = [id |-> f.id, mode |-> f.mode]
         /\ f # NoFile => f.id \in 1..MaxFile /\ f.mode \in {"0700", "0600"}
         /\ f = NoFile => f.id = 0 /\ f.mode = "none"
  BY SocketAssumption DEF Files, NoFile

LEMMA NoFileIs == NoFile \in Files /\ NoFile.id = 0 /\ 0 \in 0..MaxFile
  BY SocketAssumption DEF Files, NoFile

LEMMA SocketTypeInit == SocketInit => SocketTypeOK
<1> SUFFICES ASSUME SocketInit PROVE SocketTypeOK
  OBVIOUS
<1>1. FileTypeOK
  BY NoFileIs DEF SocketInit, FileTypeOK
<1>2. ProcTypeOK
  BY NoFileIs DEF SocketInit, ProcTypeOK, Stages, Stops
<1>3. NoteTypeOK
  BY NoFileIs DEF SocketInit, NoteTypeOK
<1>4. ConnTypeOK
  BY SocketAssumption DEF SocketInit, ConnTypeOK
<1>5. HistoryTypeOK
  BY DEF SocketInit, HistoryTypeOK
<1> QED BY <1>1, <1>2, <1>3, <1>4, <1>5 DEF SocketTypeOK

\* A process ends, as a step on its own.
EndStep(d) == Ends(d) /\ UNCHANGED <<fileVars, history>>

LEMMA EndTyped ==
  ASSUME SocketTypeOK, NEW d \in Daemon, Ends(d)
  PROVE  ProcTypeOK' /\ NoteTypeOK' /\ ConnTypeOK'
<1>1. ProcTypeOK'
  BY NoFileIs DEF SocketTypeOK, Ends, Serves, ProcTypeOK, Stages, Stops
<1>2. NoteTypeOK'
  BY NoFileIs DEF SocketTypeOK, Ends, NoteTypeOK
<1>3. ConnTypeOK'
  BY DEF SocketTypeOK, Ends, ConnTypeOK
<1> QED BY <1>1, <1>2, <1>3

\* The steps of a start, one for each way they may go.
LEMMA StartTyped ==
  ASSUME SocketTypeOK, NEW d \in Daemon, NEW pc \in Stages, Proceeds(d, pc),
         saw' \in [Daemon -> Files], looked' \in [Daemon -> Files]
  PROVE  ProcTypeOK' /\ NoteTypeOK' /\ ConnTypeOK'
  BY DEF SocketTypeOK, Proceeds, Serves, ProcTypeOK, NoteTypeOK, ConnTypeOK, connVars

LEMMA SocketTypeNext == SocketTypeOK /\ [SocketNext]_socketVars => SocketTypeOK'
<1> SUFFICES ASSUME SocketTypeOK, [SocketNext]_socketVars PROVE SocketTypeOK'
  OBVIOUS
<1>t. FileTypeOK /\ ProcTypeOK /\ NoteTypeOK /\ ConnTypeOK /\ HistoryTypeOK
  BY DEF SocketTypeOK
<1>e. ASSUME NEW d \in Daemon, EndStep(d)
      PROVE  SocketTypeOK'
  BY <1>e, <1>t, EndTyped DEF EndStep, SocketTypeOK, FileTypeOK, HistoryTypeOK, fileVars, history
<1>p. ASSUME NEW d \in Daemon, NEW pc \in Stages, Proceeds(d, pc),
             saw' \in [Daemon -> Files], looked' \in [Daemon -> Files], FileTypeOK', HistoryTypeOK'
      PROVE  SocketTypeOK'
  BY <1>p, StartTyped DEF SocketTypeOK
<1>f. UNCHANGED fileVars => FileTypeOK'
  BY <1>t DEF fileVars, FileTypeOK
<1>h. UNCHANGED history => HistoryTypeOK'
  BY <1>t DEF history, HistoryTypeOK
<1>n. UNCHANGED noteVars => NoteTypeOK'
  BY <1>t DEF noteVars, NoteTypeOK
<1>c. UNCHANGED connVars => ConnTypeOK'
  BY <1>t DEF connVars, ConnTypeOK
<1>r. UNCHANGED procVars => ProcTypeOK'
  BY <1>t DEF procVars, ProcTypeOK
<1>s. {"inspect", "probe", "gone", "stale", "remove", "bind", "listen", "chmod", "stat", "publish",
       "off", "serving"} \subseteq Stages
  BY DEF Stages, Starting
<1>0. CASE UNCHANGED socketVars
  BY <1>0, <1>f, <1>h, <1>n, <1>c, <1>r DEF socketVars, SocketTypeOK
<1>1. ASSUME NEW d \in Daemon, Start(d) PROVE SocketTypeOK'
  <2>1. ProcTypeOK'
    BY <1>1, <1>t, <1>s DEF Start, Serves, ProcTypeOK
  <2>2. HistoryTypeOK'
    BY <1>1, <1>t, Zenon DEF Start, Overlaps, HistoryTypeOK
  <2> QED BY <1>1, <2>1, <2>2, <1>f, <1>n, <1>c DEF Start, SocketTypeOK
<1>2. ASSUME NEW d \in Daemon, Inspect(d) PROVE SocketTypeOK'
  <2>1. \/ EndStep(d)
        \/ Proceeds(d, "bind") /\ UNCHANGED <<saw, looked>>
        \/ Proceeds(d, "probe") /\ saw' = [saw EXCEPT ![d] = file] /\ UNCHANGED looked
    BY <1>2 DEF Inspect, EndStep
  <2>2. FileTypeOK' /\ HistoryTypeOK'
    BY <1>2, <1>f, <1>h DEF Inspect
  <2>3. (saw' \in [Daemon -> Files] /\ looked' \in [Daemon -> Files]) \/ EndStep(d)
    BY <2>1, <1>t DEF NoteTypeOK, FileTypeOK
  <2> QED BY <2>1, <2>2, <2>3, <1>e, <1>p, <1>s
<1>3. ASSUME NEW d \in Daemon, Probe(d) \/ Gone(d) PROVE SocketTypeOK'
  <2>1. \/ EndStep(d)
        \/ \E pc \in {"gone", "stale", "bind"} : Proceeds(d, pc) /\ UNCHANGED <<saw, looked>>
    BY <1>3 DEF Probe, Gone, EndStep
  <2>2. FileTypeOK' /\ HistoryTypeOK'
    BY <1>3, <1>f, <1>h DEF Probe, Gone
  <2>3. (saw' \in [Daemon -> Files] /\ looked' \in [Daemon -> Files]) \/ EndStep(d)
    BY <2>1, <1>t DEF NoteTypeOK
  <2> QED BY <2>1, <2>2, <2>3, <1>e, <1>p, <1>s
<1>4. ASSUME NEW d \in Daemon, Recheck(d) PROVE SocketTypeOK'
  <2>1. \/ EndStep(d)
        \/ Proceeds(d, "remove") /\ looked' = [looked EXCEPT ![d] = file] /\ UNCHANGED saw
    BY <1>4 DEF Recheck, EndStep
  <2>2. FileTypeOK' /\ HistoryTypeOK'
    BY <1>4, <1>f, <1>h DEF Recheck
  <2>3. (saw' \in [Daemon -> Files] /\ looked' \in [Daemon -> Files]) \/ EndStep(d)
    BY <2>1, <1>t DEF NoteTypeOK, FileTypeOK
  <2> QED BY <2>1, <2>2, <2>3, <1>e, <1>p, <1>s
<1>5. ASSUME NEW d \in Daemon, RemoveStale(d) PROVE SocketTypeOK'
  <2>1. \/ EndStep(d)
        \/ Proceeds(d, "bind") /\ file' = NoFile /\ UNCHANGED <<made, history, saw, looked>>
    BY <1>5 DEF RemoveStale, EndStep, fileVars
  <2>2. CASE Proceeds(d, "bind") /\ file' = NoFile /\ UNCHANGED <<made, history, saw, looked>>
    <3>1. FileTypeOK' /\ saw' \in [Daemon -> Files] /\ looked' \in [Daemon -> Files]
      BY <2>2, <1>t, NoFileIs DEF FileTypeOK, NoteTypeOK
    <3> QED BY <2>2, <3>1, <1>h, <1>p, <1>s
  <2> QED BY <2>1, <2>2, <1>e
<1>6. ASSUME NEW d \in Daemon, Bind(d) PROVE SocketTypeOK'
  <2>1. CASE EndStep(d)
    BY <2>1, <1>e
  <2>2. CASE /\ made < MaxFile /\ made' = made + 1 /\ file' = [id |-> made + 1, mode |-> "0700"]
             /\ saw' = [saw EXCEPT ![d] = file'] /\ Proceeds(d, "listen")
             /\ UNCHANGED looked /\ UNCHANGED history
    <3>1. FileTypeOK'
      BY <2>2, <1>t, SocketAssumption DEF FileTypeOK, Files
    <3>2. file' \in Files
      BY <3>1 DEF FileTypeOK
    <3>3. saw' \in [Daemon -> Files] /\ looked' \in [Daemon -> Files]
      BY <2>2, <3>2, <1>t DEF NoteTypeOK
    <3> QED BY <2>2, <3>1, <3>3, <1>h, <1>p, <1>s
  <2> QED BY <1>6, <2>1, <2>2 DEF Bind, EndStep
<1>7. ASSUME NEW d \in Daemon, Listen(d) PROVE SocketTypeOK'
  <2>1. saw[d].id \in 0..MaxFile
    BY <1>t, FileFields DEF NoteTypeOK
  <2>2. ProcTypeOK'
    BY <1>7, <2>1, <1>t, <1>s DEF Listen, Serves, ProcTypeOK
  <2> QED BY <1>7, <2>2, <1>f, <1>h, <1>n, <1>c DEF Listen, SocketTypeOK
<1>8. ASSUME NEW d \in Daemon, Chmod(d) PROVE SocketTypeOK'
  <2>1. CASE EndStep(d)
    BY <2>1, <1>e
  <2>2. CASE /\ file # NoFile /\ file' = [file EXCEPT !.mode = "0600"] /\ Proceeds(d, "stat")
             /\ astray' = IF file.id = saw[d].id THEN astray ELSE astray \cup {file.id}
             /\ UNCHANGED <<saw, looked, made, overlap>>
    <3>0. file.id \in 1..MaxFile /\ file = [id |-> file.id, mode |-> file.mode]
      BY <2>2, <1>t, FileFields DEF FileTypeOK
    <3>1. file' = [id |-> file.id, mode |-> "0600"]
      BY <2>2, <3>0
    <3>2. FileTypeOK'
      BY <2>2, <3>0, <3>1, <1>t DEF FileTypeOK, Files
    <3>3. HistoryTypeOK'
      <4>1. file.id \in 0..MaxFile
        BY <3>0, SocketAssumption
      <4>2. astray' \subseteq astray \cup {file.id}
        BY <2>2
      <4> QED BY <2>2, <4>1, <4>2, <1>t DEF HistoryTypeOK
    <3>4. saw' \in [Daemon -> Files] /\ looked' \in [Daemon -> Files]
      BY <2>2, <1>t DEF NoteTypeOK
    <3> QED BY <2>2, <3>2, <3>3, <3>4, <1>p, <1>s
  <2> QED BY <1>8, <2>1, <2>2 DEF Chmod, EndStep, fileVars, history
<1>9. ASSUME NEW d \in Daemon, Stat(d) PROVE SocketTypeOK'
  <2>1. CASE EndStep(d)
    BY <2>1, <1>e
  <2>2. CASE /\ own' = [own EXCEPT ![d] = file.id] /\ Serves(d, "publish")
             /\ UNCHANGED <<hears, stop, ln, saw, looked, connVars>> /\ UNCHANGED <<fileVars, history>>
    <3>1. file.id \in 0..MaxFile
      BY <1>t, FileFields DEF FileTypeOK
    <3>2. NoteTypeOK'
      BY <2>2, <3>1, <1>t DEF NoteTypeOK
    <3>3. ProcTypeOK'
      BY <2>2, <1>t, <1>s DEF ProcTypeOK, Serves
    <3> QED BY <2>2, <3>2, <3>3, <1>f, <1>h, <1>c DEF SocketTypeOK
  <2> QED BY <1>9, <2>1, <2>2 DEF Stat, EndStep
<1>10. ASSUME NEW d \in Daemon, Publish(d) PROVE SocketTypeOK'
  <2>1. ProcTypeOK'
    <3>1. serve' \in [Daemon -> Stages]
      BY <1>10, <1>t, <1>s DEF Publish, Serves, ProcTypeOK
    <3>2. ln' \in [Daemon -> BOOLEAN]
      BY <1>10, <1>t, Zenon DEF Publish, ProcTypeOK
    <3> QED BY <1>10, <3>1, <3>2, <1>t DEF Publish, ProcTypeOK
  <2> QED BY <1>10, <2>1, <1>f, <1>h, <1>n, <1>c DEF Publish, SocketTypeOK
<1>11. ASSUME NEW d \in Daemon, BeginClose(d) PROVE SocketTypeOK'
  <2>1. ProcTypeOK' /\ ConnTypeOK'
    BY <1>11, <1>t DEF BeginClose, ProcTypeOK, ConnTypeOK, Stops
  <2>2. HistoryTypeOK'
    BY <1>11, <1>t, Zenon DEF BeginClose, Overlaps, HistoryTypeOK
  <2> QED BY <1>11, <2>1, <2>2, <1>f, <1>n DEF BeginClose, SocketTypeOK
<1>12. ASSUME NEW d \in Daemon, CloseListener(d) PROVE SocketTypeOK'
  <2>1. ProcTypeOK'
    BY <1>12, <1>t, NoFileIs DEF CloseListener, ProcTypeOK, Stops
  <2>2. ConnTypeOK'
    BY <1>12, <1>t DEF CloseListener, ConnTypeOK
  <2> QED BY <1>12, <2>1, <2>2, <1>f, <1>h, <1>n DEF CloseListener, SocketTypeOK
<1>13. ASSUME NEW d \in Daemon, Wait(d) \/ Compare(d) PROVE SocketTypeOK'
  <2>1. ProcTypeOK'
    BY <1>13, <1>t DEF Wait, Compare, ProcTypeOK, Stops
  <2> QED BY <1>13, <2>1, <1>f, <1>h, <1>n, <1>c DEF Wait, Compare, SocketTypeOK
<1>14. ASSUME NEW d \in Daemon, Unlink(d) PROVE SocketTypeOK'
  <2>1. ProcTypeOK' /\ FileTypeOK'
    BY <1>14, <1>t, NoFileIs DEF Unlink, ProcTypeOK, FileTypeOK, Stops
  <2> QED BY <1>14, <2>1, <1>h, <1>n, <1>c DEF Unlink, SocketTypeOK
<1>15. ASSUME NEW d \in Daemon, Exit(d) \/ Crash(d) PROVE SocketTypeOK'
  BY <1>15, <1>e DEF Exit, Crash, EndStep
<1>16. ASSUME NEW k \in Client, Dial(k) \/ Accept(k) \/ Admit(k) \/ Handle(k) \/ HandlerEnds(k)
       PROVE  SocketTypeOK'
  <2>1. ConnTypeOK'
    <3>1. CASE Dial(k)
      BY <3>1, <1>t DEF Dial, ConnTypeOK
    <3>2. CASE Accept(k)
      BY <3>2, <1>t DEF Accept, Moves, ConnTypeOK
    <3>3. CASE Admit(k)
      BY <3>3, <1>t DEF Admit, Moves, ConnTypeOK
    <3>4. CASE Handle(k) \/ HandlerEnds(k)
      BY <3>4, <1>t DEF Handle, HandlerEnds, Moves, ConnTypeOK
    <3> QED BY <1>16, <3>1, <3>2, <3>3, <3>4
  <2> QED BY <1>16, <2>1, <1>f, <1>r, <1>n, <1>h
          DEF Dial, Accept, Admit, Handle, HandlerEnds, SocketTypeOK
<1> QED
  BY <1>0, <1>1, <1>2, <1>3, <1>4, <1>5, <1>6, <1>7, <1>8, <1>9, <1>10, <1>11, <1>12, <1>13, <1>14,
     <1>15, <1>16
  DEF SocketNext, DaemonStep

\* Every variable keeps its type: in particular inode numbers stay in their
\* range, and what a daemon has looked at or made is a file or none (Serve and
\* recoverStaleSocket, server.go:213-362).
THEOREM TypeCorrect == SocketSpec => []SocketTypeOK
<1> QED BY SocketTypeInit, SocketTypeNext, PTL DEF SocketSpec


-----------------------------------------------------------------------------
(* NoClientAfterClose.  Only Admit adds a client, one at a time, so the    *)
(* clients of a daemon are finitely many however many there may be.        *)

ClientInv == NoClientAfterClose /\ \A d \in Daemon : IsFiniteSet(Clients(d))

LEMMA ClientInit == SocketInit => ClientInv
<1> SUFFICES ASSUME SocketInit, NEW d \in Daemon
             PROVE  ~Closing(d) /\ Cardinality(Clients(d)) <= MaxClients /\ IsFiniteSet(Clients(d))
  BY DEF ClientInv, NoClientAfterClose
<1>1. ~Closing(d)
  BY DEF SocketInit, Closing
<1>2. Clients(d) = {}
  BY DEF SocketInit, Clients
<1> QED BY <1>1, <1>2, FS_EmptySet, SocketAssumption

\* A step that adds no client and neither begins a Close nor opens again what
\* it had closed.
LEMMA ClientKept ==
  ASSUME ClientInv, NEW d \in Daemon, Clients(d)' \subseteq Clients(d),
         Closing(d)' => Clients(d)' \cap open' = {}
  PROVE  /\ Closing(d)' => Clients(d)' \cap open' = {}
         /\ Cardinality(Clients(d)') <= MaxClients /\ IsFiniteSet(Clients(d)')
<1>1. IsFiniteSet(Clients(d)) /\ Cardinality(Clients(d)) <= MaxClients
  BY DEF ClientInv, NoClientAfterClose
<1>2. /\ IsFiniteSet(Clients(d)') /\ Cardinality(Clients(d)') <= Cardinality(Clients(d))
      /\ Cardinality(Clients(d)) \in Nat /\ Cardinality(Clients(d)') \in Nat
  BY <1>1, FS_Subset, FS_CardinalityType
<1> QED BY <1>1, <1>2, SocketAssumption

LEMMA ClientNext == SocketTypeOK /\ ClientInv /\ [SocketNext]_socketVars => ClientInv'
<1> SUFFICES ASSUME SocketTypeOK, ClientInv, [SocketNext]_socketVars, NEW d \in Daemon
             PROVE  /\ Closing(d)' => Clients(d)' \cap open' = {}
                    /\ Cardinality(Clients(d)') <= MaxClients /\ IsFiniteSet(Clients(d)')
  BY DEF ClientInv, NoClientAfterClose
<1> DEFINE Goal == /\ Closing(d)' => Clients(d)' \cap open' = {}
                   /\ Cardinality(Clients(d)') <= MaxClients /\ IsFiniteSet(Clients(d)')
<1>t. ConnTypeOK /\ stop \in [Daemon -> Stops]
  BY DEF SocketTypeOK, ProcTypeOK
<1>i. Closing(d) => Clients(d) \cap open = {}
  BY DEF ClientInv, NoClientAfterClose
<1>k. ASSUME Clients(d)' \subseteq Clients(d), open' \subseteq open, Closing(d)' => Closing(d)
      PROVE  Goal
  BY <1>k, <1>i, ClientKept
<1>0. ASSUME UNCHANGED <<stop, connVars>> PROVE Goal
  BY <1>0, <1>k DEF connVars, Clients, Closing
<1>e. ASSUME NEW e \in Daemon, Ends(e) PROVE Goal
  <2>1. Clients(d)' \subseteq Clients(d) /\ open' \subseteq open
    BY <1>e, <1>t DEF Ends, Clients, ConnTypeOK
  <2>2. Closing(d)' => Closing(d)
    BY <1>e, <1>t DEF Ends, Closing
  <2> QED BY <2>1, <2>2, <1>k
<1>1. ASSUME NEW e \in Daemon, Start(e) \/ Listen(e) \/ Publish(e) PROVE Goal
  BY <1>1, <1>0 DEF Start, Listen, Publish
<1>2. ASSUME NEW e \in Daemon,
             \/ Inspect(e) \/ Probe(e) \/ Gone(e) \/ Recheck(e) \/ RemoveStale(e)
             \/ Bind(e) \/ Chmod(e) \/ Stat(e) \/ Exit(e) \/ Crash(e)
      PROVE  Goal
  <2>1. Ends(e) \/ UNCHANGED <<stop, connVars>>
    BY <1>2
    DEF Inspect, Probe, Gone, Recheck, RemoveStale, Bind, Chmod, Stat, Exit, Crash, Proceeds
  <2> QED BY <2>1, <1>0, <1>e
<1>3. ASSUME NEW e \in Daemon, BeginClose(e) PROVE Goal
  <2>1. Clients(d)' = Clients(d) /\ open' = open \ Clients(e)
    BY <1>3 DEF BeginClose, Clients
  <2>2. CASE e = d
    BY <2>1, <2>2, ClientKept
  <2>3. CASE e # d
    <3>1. Closing(d)' => Closing(d)
      BY <1>3, <2>3, <1>t DEF BeginClose, Closing
    <3> QED BY <2>1, <3>1, <1>k
  <2> QED BY <2>2, <2>3
<1>4. ASSUME NEW e \in Daemon, CloseListener(e) PROVE Goal
  <2>1. Clients(d)' \subseteq Clients(d) /\ open' \subseteq open
    BY <1>4, <1>t DEF CloseListener, Clients, ConnTypeOK
  <2>2. Closing(d)' => Closing(d)
    BY <1>4, <1>t DEF CloseListener, Closing
  <2> QED BY <2>1, <2>2, <1>k
<1>5. ASSUME NEW e \in Daemon, Wait(e) \/ Compare(e) \/ Unlink(e) PROVE Goal
  <2>1. Clients(d)' = Clients(d) /\ open' = open
    BY <1>5 DEF Wait, Compare, Unlink, connVars, Clients
  <2>2. Closing(d)' => Closing(d)
    BY <1>5, <1>t DEF Wait, Compare, Unlink, Closing
  <2> QED BY <2>1, <2>2, <1>k
<1>6. ASSUME NEW k \in Client, Dial(k) PROVE Goal
  <2>1. Clients(d)' \subseteq Clients(d) /\ k \notin Clients(d)'
    BY <1>6, <1>t DEF Dial, Clients, ConnTypeOK
  <2>2. open' = open \cup {k} /\ (Closing(d)' <=> Closing(d))
    BY <1>6 DEF Dial, procVars, Closing
  <2> QED BY <2>1, <2>2, <1>i, ClientKept
<1>7. ASSUME NEW k \in Client, Accept(k) \/ Handle(k) \/ HandlerEnds(k) PROVE Goal
  <2>1. Clients(d)' \subseteq Clients(d) /\ open' \subseteq open
    BY <1>7, <1>t DEF Accept, Handle, HandlerEnds, Moves, Clients, ConnTypeOK
  <2>2. Closing(d)' => Closing(d)
    BY <1>7 DEF Accept, Handle, HandlerEnds, procVars, Closing
  <2> QED BY <2>1, <2>2, <1>k
<1>8. ASSUME NEW k \in Client, Admit(k) PROVE Goal
  <2>1. Closing(d)' <=> Closing(d)
    BY <1>8 DEF Admit, procVars, Closing
  <2>2. CASE Admits(of[k]) /\ of[k] = d
    <3>1. Clients(d)' = Clients(d) \cup {k} /\ k \notin Clients(d)
      BY <1>8, <2>2, <1>t DEF Admit, Moves, Clients, ConnTypeOK
    <3>2. ~Closing(d) /\ Cardinality(Clients(d)) < MaxClients /\ IsFiniteSet(Clients(d))
      BY <2>2 DEF Admits, ClientInv
    <3>3. /\ IsFiniteSet(Clients(d)') /\ Cardinality(Clients(d)') = Cardinality(Clients(d)) + 1
          /\ Cardinality(Clients(d)) \in Nat
      BY <3>1, <3>2, FS_AddElement, FS_CardinalityType
    <3> QED BY <3>2, <3>3, <2>1, SocketAssumption
  <2>3. CASE ~(Admits(of[k]) /\ of[k] = d)
    <3>1. Clients(d)' \subseteq Clients(d) /\ open' \subseteq open
      BY <1>8, <2>3, <1>t DEF Admit, Moves, Clients, ConnTypeOK
    <3> QED BY <2>1, <3>1, <1>k
  <2> QED BY <2>2, <2>3
<1>9. CASE UNCHANGED socketVars
  BY <1>9, <1>0 DEF socketVars, procVars
<1> HIDE DEF Goal
<1> QED
  <2>1. ASSUME NEW e \in Daemon, DaemonStep(e) PROVE Goal
    BY <2>1, <1>1, <1>2, <1>3, <1>4, <1>5 DEF DaemonStep
  <2>2. ASSUME NEW k \in Client, Dial(k) \/ Accept(k) \/ Admit(k) \/ Handle(k) \/ HandlerEnds(k)
        PROVE  Goal
    BY <2>2, <1>6, <1>7, <1>8
  <2>3. SocketNext => Goal
    BY <2>1, <2>2 DEF SocketNext
  <2> QED BY <2>3, <1>9 DEF Goal

\* Whatever the order of the accept loop and of Close, no connection is left
\* with a handler after Close has begun: the two meet at the lock, where the
\* one closes what the other has entered or the other sees that Close has come
\* (server.go:378-390, 443-452); and the limit of clients is kept.
THEOREM NoneIsLeftBehind == SocketSpec => []NoClientAfterClose
<1>1. ClientInv => NoClientAfterClose
  BY DEF ClientInv
<1> QED BY <1>1, TypeCorrect, ClientInit, ClientNext, PTL DEF SocketSpec

-----------------------------------------------------------------------------
(* What a step of a daemon does to the fields of that daemon; those of the *)
(* others stay.                                                            *)

Becomes(d, h, pc, t, s, l, o) ==
  /\ hears'[d] = h /\ serve'[d] = pc /\ stop'[d] = t
  /\ saw'[d] = s /\ looked'[d] = l /\ own'[d] = o
  /\ \A e \in Daemon \ {d} :
       /\ hears'[e] = hears[e] /\ serve'[e] = serve[e] /\ stop'[e] = stop[e]
       /\ saw'[e] = saw[e] /\ looked'[e] = looked[e] /\ own'[e] = own[e]

Ended(d) ==
  Becomes(d, 0, "off", "none", NoFile, NoFile, 0) /\ UNCHANGED <<file, made, history>>

\* A step of Serve that leaves the file alone.
Advances(d, pc, s, l) ==
  Becomes(d, hears[d], pc, stop[d], s, l, own[d]) /\ UNCHANGED <<file, made, history>>

Started(d) ==
  /\ serve[d] = "off" /\ Overlaps(d) /\ UNCHANGED <<file, made, astray>>
  /\ Becomes(d, hears[d], "inspect", stop[d], saw[d], looked[d], own[d])

Examined(d) ==
  \/ serve[d] = "inspect" /\ file = NoFile /\ Advances(d, "bind", saw[d], looked[d])
  \/ /\ serve[d] = "inspect" /\ file # NoFile /\ file.mode = "0600"
     /\ Advances(d, "probe", file, looked[d])
  \/ serve[d] = "probe" /\ file = NoFile /\ Advances(d, "gone", saw[d], looked[d])
  \/ /\ serve[d] = "probe" /\ file # NoFile /\ file.id \notin Heard
     /\ Advances(d, "stale", saw[d], looked[d])
  \/ serve[d] = "gone" /\ file = NoFile /\ Advances(d, "bind", saw[d], looked[d])
  \/ serve[d] = "stale" /\ file = saw[d] /\ Advances(d, "remove", saw[d], file)

Removed(d) ==
  /\ serve[d] = "remove" /\ file' = NoFile /\ UNCHANGED <<made, history>>
  /\ Becomes(d, hears[d], "bind", stop[d], saw[d], looked[d], own[d])

Bound(d) ==
  /\ serve[d] = "bind" /\ file = NoFile /\ made' = made + 1 /\ UNCHANGED history
  /\ file' = [id |-> made + 1, mode |-> "0700"]
  /\ Becomes(d, hears[d], "listen", stop[d], file', looked[d], own[d])

Listened(d) ==
  /\ serve[d] = "listen" /\ UNCHANGED <<file, made, history>>
  /\ Becomes(d, saw[d].id, "chmod", stop[d], saw[d], looked[d], own[d])

Opened(d) ==
  /\ serve[d] = "chmod" /\ file # NoFile /\ file' = [id |-> file.id, mode |-> "0600"]
  /\ astray' = IF file.id = saw[d].id THEN astray ELSE astray \cup {file.id}
  /\ UNCHANGED <<made, overlap>>
  /\ Becomes(d, hears[d], "stat", stop[d], saw[d], looked[d], own[d])

Noted(d) ==
  /\ serve[d] = "stat" /\ file # NoFile /\ UNCHANGED <<file, made, history>>
  /\ Becomes(d, hears[d], "publish", stop[d], saw[d], looked[d], file.id)

Published(d) == serve[d] = "publish" /\ Advances(d, "serving", saw[d], looked[d])

\* Close, up to the removal of the file.
Closes(d) ==
  /\ UNCHANGED <<file, made, astray>>
  /\ \E h \in {hears[d], 0}, t \in {"listener", "wait", "compare", "unlink", "returned"} :
       /\ t = "unlink" => own[d] # 0
       /\ \/ stop[d] # "none" /\ UNCHANGED overlap
          \/ serve[d] # "off" /\ Overlaps(d)
       /\ Becomes(d, h, serve[d], t, saw[d], looked[d], own[d])

Unlinked(d) ==
  /\ stop[d] = "unlink" /\ file' = NoFile /\ UNCHANGED <<made, history>>
  /\ Becomes(d, hears[d], serve[d], "returned", saw[d], looked[d], own[d])

Rests == UNCHANGED <<fileVars, hears, serve, stop, noteVars, history>>

LEMMA EndDoes ==
  ASSUME SocketTypeOK, NEW d \in Daemon, EndStep(d)
  PROVE  Ended(d)
<1>1. UNCHANGED <<file, made, history>>
  BY DEF EndStep, fileVars
<1>2. /\ hears' = [hears EXCEPT ![d] = 0] /\ serve' = [serve EXCEPT ![d] = "off"]
      /\ stop' = [stop EXCEPT ![d] = "none"] /\ saw' = [saw EXCEPT ![d] = NoFile]
      /\ looked' = [looked EXCEPT ![d] = NoFile] /\ own' = [own EXCEPT ![d] = 0]
  BY DEF EndStep, Ends, Serves
<1>3. Becomes(d, 0, "off", "none", NoFile, NoFile, 0)
  BY <1>2 DEF SocketTypeOK, ProcTypeOK, NoteTypeOK, Becomes
<1> QED BY <1>1, <1>3 DEF Ended

\* A step of a start, whatever it does with the file.
LEMMA ProceedDoes ==
  ASSUME SocketTypeOK, NEW d \in Daemon, NEW pc \in Stages, Proceeds(d, pc)
  PROVE  /\ UNCHANGED <<saw, looked>> => Becomes(d, hears[d], pc, stop[d], saw[d], looked[d], own[d])
         /\ \A f \in Files : saw' = [saw EXCEPT ![d] = f] /\ UNCHANGED looked =>
              Becomes(d, hears[d], pc, stop[d], f, looked[d], own[d])
         /\ \A f \in Files : looked' = [looked EXCEPT ![d] = f] /\ UNCHANGED saw =>
              Becomes(d, hears[d], pc, stop[d], saw[d], f, own[d])
  BY DEF SocketTypeOK, ProcTypeOK, NoteTypeOK, Proceeds, Serves, Becomes

LEMMA ServeDoes ==
  ASSUME SocketTypeOK, NEW d \in Daemon
  PROVE  /\ Start(d) => Started(d)
         /\ Inspect(d) \/ Probe(d) \/ Gone(d) \/ Recheck(d) => Ended(d) \/ Examined(d)
         /\ RemoveStale(d) => Ended(d) \/ Removed(d)
         /\ Bind(d) => Ended(d) \/ Bound(d)
         /\ Listen(d) => Listened(d)
         /\ Chmod(d) => Ended(d) \/ Opened(d)
         /\ Stat(d) => Ended(d) \/ Noted(d)
         /\ Publish(d) => Published(d)
<1>s. {"inspect", "probe", "gone", "stale", "remove", "bind", "listen", "chmod", "stat", "publish",
       "off", "serving"} \subseteq Stages
  BY DEF Stages, Starting
<1>t. file \in Files /\ made \in 0..MaxFile /\ ProcTypeOK /\ NoteTypeOK
  BY DEF SocketTypeOK, FileTypeOK
<1>1. Start(d) => Started(d)
  BY <1>t DEF Start, Serves, Started, Becomes, ProcTypeOK, noteVars, fileVars
<1>2. Inspect(d) => Ended(d) \/ Examined(d)
  <2> SUFFICES ASSUME Inspect(d), ~EndStep(d) PROVE Examined(d)
    BY EndDoes
  <2>1. /\ serve[d] = "inspect" /\ UNCHANGED <<file, made, history>>
        /\ \/ file = NoFile /\ Proceeds(d, "bind") /\ UNCHANGED <<saw, looked>>
           \/ /\ file # NoFile /\ file.mode = "0600" /\ Proceeds(d, "probe")
              /\ saw' = [saw EXCEPT ![d] = file] /\ UNCHANGED looked
    BY DEF Inspect, EndStep, RightShape, fileVars
  <2> QED BY <2>1, <1>s, <1>t, ProceedDoes DEF Examined, Advances
<1>3. Probe(d) => Ended(d) \/ Examined(d)
  <2> SUFFICES ASSUME Probe(d), ~EndStep(d) PROVE Examined(d)
    BY EndDoes
  <2>1. /\ serve[d] = "probe" /\ UNCHANGED <<file, made, history, saw, looked>>
        /\ \/ file = NoFile /\ Proceeds(d, "gone")
           \/ file # NoFile /\ file.id \notin Heard /\ Proceeds(d, "stale")
    <3>1. CASE file = NoFile
      BY <3>1 DEF Probe, EndStep, fileVars
    <3>2. CASE file # NoFile
      <4>1. PICK answer \in IF file.id \in Heard THEN {"hello", "ambiguous"} ELSE {"refused"} :
              IF Stale(answer) THEN Proceeds(d, "stale") /\ UNCHANGED <<saw, looked>> ELSE Ends(d)
        BY <3>2 DEF Probe
      <4>2. answer = "refused" /\ Proceeds(d, "stale") /\ UNCHANGED <<saw, looked>>
        BY <4>1 DEF Stale, EndStep, Probe
      <4>3. file.id \notin Heard
        BY <4>1, <4>2
      <4> QED BY <3>2, <4>2, <4>3 DEF Probe, fileVars
    <3> QED BY <3>1, <3>2
  <2> QED BY <2>1, <1>s, ProceedDoes DEF Examined, Advances
<1>4. Gone(d) => Ended(d) \/ Examined(d)
  <2> SUFFICES ASSUME Gone(d), ~EndStep(d) PROVE Examined(d)
    BY EndDoes
  <2>1. /\ serve[d] = "gone" /\ file = NoFile /\ Proceeds(d, "bind")
        /\ UNCHANGED <<file, made, history, saw, looked>>
    BY DEF Gone, EndStep, fileVars
  <2> QED BY <2>1, <1>s, ProceedDoes DEF Examined, Advances
<1>5. Recheck(d) => Ended(d) \/ Examined(d)
  <2> SUFFICES ASSUME Recheck(d), ~EndStep(d) PROVE Examined(d)
    BY EndDoes
  <2>1. /\ serve[d] = "stale" /\ file = saw[d] /\ Proceeds(d, "remove")
        /\ looked' = [looked EXCEPT ![d] = file] /\ UNCHANGED <<file, made, history, saw>>
    BY DEF Recheck, EndStep, SameFile, fileVars
  <2> QED BY <2>1, <1>s, <1>t, ProceedDoes DEF Examined, Advances
<1>6. RemoveStale(d) => Ended(d) \/ Removed(d)
  <2> SUFFICES ASSUME RemoveStale(d), ~EndStep(d) PROVE Removed(d)
    BY EndDoes
  <2>1. /\ serve[d] = "remove" /\ file' = NoFile /\ Proceeds(d, "bind")
        /\ UNCHANGED <<made, history, saw, looked>>
    BY DEF RemoveStale, EndStep, fileVars
  <2> QED BY <2>1, <1>s, ProceedDoes DEF Removed
<1>7. Bind(d) => Ended(d) \/ Bound(d)
  <2> SUFFICES ASSUME Bind(d), ~EndStep(d) PROVE Bound(d)
    BY EndDoes
  <2>1. /\ serve[d] = "bind" /\ file = NoFile /\ made < MaxFile /\ made' = made + 1
        /\ file' = [id |-> made + 1, mode |-> "0700"] /\ Proceeds(d, "listen")
        /\ saw' = [saw EXCEPT ![d] = file'] /\ UNCHANGED <<looked, history>>
    BY DEF Bind, EndStep, fileVars
  <2>2. file' \in Files
    BY <2>1, <1>t, SocketAssumption DEF Files
  <2> QED BY <2>1, <2>2, <1>s, ProceedDoes DEF Bound
<1>8. Listen(d) => Listened(d)
  BY <1>t DEF Listen, Serves, Listened, Becomes, ProcTypeOK, noteVars, fileVars
<1>9. Chmod(d) => Ended(d) \/ Opened(d)
  <2> SUFFICES ASSUME Chmod(d), ~EndStep(d) PROVE Opened(d)
    BY EndDoes
  <2>1. /\ serve[d] = "chmod" /\ file # NoFile /\ file' = [file EXCEPT !.mode = "0600"]
        /\ astray' = IF file.id = saw[d].id THEN astray ELSE astray \cup {file.id}
        /\ Proceeds(d, "stat") /\ UNCHANGED <<made, overlap, saw, looked>>
    BY DEF Chmod, EndStep, fileVars, history
  <2>2. file' = [id |-> file.id, mode |-> "0600"]
    BY <2>1, <1>t, FileFields
  <2> QED BY <2>1, <2>2, <1>s, ProceedDoes DEF Opened
<1>10. Stat(d) => Ended(d) \/ Noted(d)
  <2> SUFFICES ASSUME Stat(d), ~EndStep(d) PROVE Noted(d)
    BY EndDoes
  <2>1. /\ serve[d] = "stat" /\ file # NoFile /\ own' = [own EXCEPT ![d] = file.id]
        /\ serve' = [serve EXCEPT ![d] = "publish"]
        /\ UNCHANGED <<hears, stop, saw, looked, file, made, history>>
    BY DEF Stat, Serves, EndStep, fileVars
  <2> QED BY <2>1, <1>t DEF Noted, Becomes, ProcTypeOK, NoteTypeOK
<1>11. Publish(d) => Published(d)
  BY <1>t DEF Publish, Serves, Published, Advances, Becomes, ProcTypeOK, noteVars, fileVars
<1> QED BY <1>1, <1>2, <1>3, <1>4, <1>5, <1>6, <1>7, <1>8, <1>9, <1>10, <1>11

LEMMA CloseDoes ==
  ASSUME SocketTypeOK, NEW d \in Daemon
  PROVE  /\ BeginClose(d) \/ CloseListener(d) \/ Wait(d) \/ Compare(d) => Closes(d)
         /\ Unlink(d) => Unlinked(d)
         /\ Exit(d) \/ Crash(d) => Ended(d)
<1>t. ProcTypeOK /\ NoteTypeOK
  BY DEF SocketTypeOK
<1>b. ASSUME NEW h \in {hears[d], 0}, NEW t \in {"listener", "wait", "compare", "unlink", "returned"},
             stop' = [stop EXCEPT ![d] = t], hears' = [hears EXCEPT ![d] = h],
             UNCHANGED <<serve, noteVars>>
      PROVE  Becomes(d, h, serve[d], t, saw[d], looked[d], own[d])
  BY <1>b, <1>t DEF Becomes, ProcTypeOK, noteVars
<1>h. hears = [hears EXCEPT ![d] = hears[d]]
  BY <1>t DEF ProcTypeOK
<1>1. ASSUME BeginClose(d) PROVE Closes(d)
  <2>1. Becomes(d, hears[d], serve[d], "listener", saw[d], looked[d], own[d])
    BY <1>1, <1>b, <1>h DEF BeginClose
  <2> QED BY <1>1, <2>1 DEF BeginClose, Closes, fileVars
<1>2. ASSUME CloseListener(d) PROVE Closes(d)
  <2>1. \E h \in {hears[d], 0} : hears' = [hears EXCEPT ![d] = h]
    BY <1>2, <1>h DEF CloseListener
  <2>2. \E h \in {hears[d], 0} : Becomes(d, h, serve[d], "wait", saw[d], looked[d], own[d])
    BY <1>2, <2>1, <1>b DEF CloseListener
  <2> QED BY <1>2, <2>2 DEF CloseListener, Closes, fileVars, history
<1>3. ASSUME Wait(d) PROVE Closes(d)
  <2>1. Becomes(d, hears[d], serve[d], "compare", saw[d], looked[d], own[d])
    BY <1>3, <1>b, <1>h DEF Wait
  <2> QED BY <1>3, <2>1 DEF Wait, Closes, fileVars, history
<1>4. ASSUME Compare(d) PROVE Closes(d)
  <2> DEFINE t == IF OwnFile(d) THEN "unlink" ELSE "returned"
  <2>1. t \in {"unlink", "returned"} /\ (t = "unlink" => own[d] # 0)
    BY DEF OwnFile
  <2>2. stop' = [stop EXCEPT ![d] = t]
    BY <1>4 DEF Compare
  <2> HIDE DEF t
  <2>3. Becomes(d, hears[d], serve[d], t, saw[d], looked[d], own[d])
    BY <1>4, <2>1, <2>2, <1>b, <1>h DEF Compare
  <2> QED BY <1>4, <2>1, <2>3 DEF Compare, Closes, fileVars, history
<1>5. ASSUME Unlink(d) PROVE Unlinked(d)
  <2>1. Becomes(d, hears[d], serve[d], "returned", saw[d], looked[d], own[d])
    BY <1>5, <1>b, <1>h DEF Unlink
  <2> QED BY <1>5, <2>1 DEF Unlink, Unlinked
<1>6. ASSUME Exit(d) \/ Crash(d) PROVE Ended(d)
  BY <1>6, EndDoes DEF Exit, Crash, EndStep
<1> QED BY <1>1, <1>2, <1>3, <1>4, <1>5, <1>6

LEMMA StepDoes ==
  ASSUME SocketTypeOK, [SocketNext]_socketVars
  PROVE  \/ Rests
         \/ \E d \in Daemon :
              \/ Ended(d) \/ Started(d) \/ Examined(d) \/ Removed(d) \/ Bound(d) \/ Listened(d)
              \/ Opened(d) \/ Noted(d) \/ Published(d) \/ Closes(d) \/ Unlinked(d)
<1>1. CASE UNCHANGED socketVars
  BY <1>1 DEF socketVars, procVars, Rests
<1>2. ASSUME NEW k \in Client, Dial(k) \/ Accept(k) \/ Admit(k) \/ Handle(k) \/ HandlerEnds(k)
      PROVE  Rests
  BY <1>2 DEF Dial, Accept, Admit, Handle, HandlerEnds, procVars, Rests
<1>3. ASSUME NEW d \in Daemon, DaemonStep(d)
      PROVE  \/ Ended(d) \/ Started(d) \/ Examined(d) \/ Removed(d) \/ Bound(d) \/ Listened(d)
             \/ Opened(d) \/ Noted(d) \/ Published(d) \/ Closes(d) \/ Unlinked(d)
  BY <1>3, ServeDoes, CloseDoes DEF DaemonStep
<1> QED BY <1>1, <1>2, <1>3 DEF SocketNext

-----------------------------------------------------------------------------
(* RecoveryTakesTheDead.                                                   *)

\* Inode numbers are not used again.
FreshInv == file.id <= made /\ \A d \in Daemon : saw[d].id <= made

\* Each socket is bound by one daemon, and before that one listens nobody but
\* another daemon has given it its permissions.
BinderInv ==
  /\ \A d \in Daemon : serve[d] \in {"listen", "chmod"} => saw[d].id # 0
  /\ \A d, e \in Daemon :
       serve[d] \in {"listen", "chmod"} /\ serve[e] \in {"listen", "chmod"} /\ saw[d].id = saw[e].id
         => d = e
  /\ \A d \in Daemon :
       serve[d] = "listen" /\ saw[d].id = file.id => file.mode = "0700" \/ file.id \in astray

\* Nobody listens on the inode i, and whoever is about to listen is on another.
Silent(i) == i \notin Heard /\ \A e \in Daemon : serve[e] = "listen" => saw[e].id # i

\* What the recovery has found with permissions and not heard is dead for as
\* long as it is there.
DeadInv ==
  \A d \in Daemon :
    /\ serve[d] \in {"probe", "stale", "remove"} =>
         /\ saw[d].id # 0 /\ saw[d].mode = "0600"
         /\ file.id = saw[d].id => file = saw[d]
    /\ serve[d] \in {"stale", "remove"} /\ file.id = saw[d].id =>
         file.id \in astray \/ Silent(file.id)
    /\ serve[d] = "remove" => looked[d] = saw[d]

RecoveryInv == FreshInv /\ BinderInv /\ DeadInv

LEMMA RecoveryInit == SocketInit => RecoveryInv
<1> SUFFICES ASSUME SocketInit PROVE RecoveryInv
  OBVIOUS
<1>1. /\ file = NoFile /\ made = 0
      /\ \A d \in Daemon : saw[d] = NoFile /\ serve[d] = "off"
  BY DEF SocketInit
<1>2. FreshInv
  BY <1>1, NoFileIs DEF FreshInv
<1>3. BinderInv /\ DeadInv
  BY <1>1 DEF BinderInv, DeadInv
<1> QED BY <1>2, <1>3 DEF RecoveryInv

LEMMA FreshNext ==
  ASSUME SocketTypeOK, FreshInv, [SocketNext]_socketVars
  PROVE  FreshInv'
<1>t. /\ file.id \in Nat /\ made \in Nat /\ NoFile.id = 0
      /\ \A d \in Daemon : saw[d].id \in Nat
  BY FileFields, SocketAssumption DEF SocketTypeOK, FileTypeOK, NoteTypeOK, NoFile
<1>i. file.id <= made /\ \A d \in Daemon : saw[d].id <= made
  BY DEF FreshInv
<1>0. CASE Rests
  BY <1>0, <1>i DEF Rests, FreshInv, fileVars, noteVars
<1>1. ASSUME NEW d \in Daemon, Bound(d) PROVE FreshInv'
  <2>1. file'.id = made + 1 /\ made' = made + 1 /\ saw'[d] = file'
    BY <1>1 DEF Bound, Becomes
  <2>2. \A e \in Daemon \ {d} : saw'[e] = saw[e]
    BY <1>1 DEF Bound, Becomes
  <2>3. \A e \in Daemon : saw'[e].id = made + 1 \/ saw'[e].id = saw[e].id
    BY <2>1, <2>2
  <2> QED BY <2>1, <2>3, <1>i, <1>t DEF FreshInv
<1>2. ASSUME NEW d \in Daemon,
             \/ Ended(d) \/ Started(d) \/ Examined(d) \/ Removed(d) \/ Listened(d)
             \/ Opened(d) \/ Noted(d) \/ Published(d) \/ Closes(d) \/ Unlinked(d)
      PROVE  FreshInv'
  <2>1. made' = made /\ file'.id \in {0, file.id}
    BY <1>2, <1>t
    DEF Ended, Started, Examined, Removed, Listened, Opened, Noted, Published, Closes, Unlinked,
        Advances
  <2>2. saw'[d] \in {saw[d], file, NoFile} /\ \A e \in Daemon \ {d} : saw'[e] = saw[e]
    BY <1>2
    DEF Ended, Started, Examined, Removed, Listened, Opened, Noted, Published, Closes, Unlinked,
        Advances, Becomes
  <2>3. \A e \in Daemon : saw'[e].id \in {saw[e].id, file.id, 0}
    BY <2>2, <1>t
  <2> QED BY <2>1, <2>3, <1>i, <1>t DEF FreshInv
<1> QED BY <1>0, <1>1, <1>2, StepDoes

\* The steps that leave every file, the history and what anyone has bound or
\* looked at as it is, and bring nobody into the recovery or to a listener.
Aside(d) ==
  /\ UNCHANGED <<file, astray>>
  /\ \A e \in Daemon : serve'[e] \in {"probe", "stale", "remove", "listen", "chmod"} =>
       serve'[e] = serve[e] /\ saw'[e] = saw[e] /\ looked'[e] = looked[e]
  /\ Heard' \subseteq Heard

LEMMA AsideDoes ==
  ASSUME SocketTypeOK, NEW d \in Daemon,
         \/ Rests \/ Ended(d) \/ Started(d) \/ Noted(d) \/ Published(d) \/ Closes(d)
  PROVE  Aside(d)
<1>1. CASE Rests
  BY <1>1 DEF Rests, Aside, fileVars, noteVars, history, Heard
<1>2. CASE Ended(d) \/ Started(d) \/ Noted(d) \/ Published(d) \/ Closes(d)
  <2>1. UNCHANGED <<file, astray>>
    BY <1>2 DEF Ended, Started, Noted, Published, Closes, Advances, history
  <2>2. hears'[d] \in {hears[d], 0} /\ \A e \in Daemon \ {d} : hears'[e] = hears[e]
    BY <1>2 DEF Ended, Started, Noted, Published, Closes, Advances, Becomes
  <2>3. Heard' \subseteq Heard
    BY <2>2 DEF Heard
  <2>4. ASSUME NEW e \in Daemon, serve'[e] \in {"probe", "stale", "remove", "listen", "chmod"}
        PROVE  serve'[e] = serve[e] /\ saw'[e] = saw[e] /\ looked'[e] = looked[e]
    BY <1>2, <2>4 DEF Ended, Started, Noted, Published, Closes, Advances, Becomes
  <2> QED BY <2>1, <2>3, <2>4 DEF Aside
<1> QED BY <1>1, <1>2

LEMMA BinderNext ==
  ASSUME SocketTypeOK, FreshInv, BinderInv, [SocketNext]_socketVars
  PROVE  BinderInv'
<1>t. /\ file.id \in Nat /\ made \in Nat /\ NoFile.id = 0
      /\ \A d \in Daemon : saw[d].id \in Nat
  BY FileFields, SocketAssumption DEF SocketTypeOK, FileTypeOK, NoteTypeOK, NoFile
<1>i. file.id <= made /\ \A d \in Daemon : saw[d].id <= made
  BY DEF FreshInv
<1>a. ASSUME NEW d \in Daemon, Aside(d) PROVE BinderInv'
  BY <1>a DEF Aside, BinderInv
<1>n. ASSUME file' = NoFile \/ UNCHANGED file, UNCHANGED astray,
             \A e \in Daemon : serve'[e] \in {"listen", "chmod"} =>
               /\ saw'[e] = saw[e]
               /\ serve'[e] = serve[e] \/ (serve[e] = "listen" /\ serve'[e] = "chmod")
      PROVE  BinderInv'
  BY <1>n, <1>t DEF BinderInv
<1>1. ASSUME NEW d \in Daemon, Examined(d) \/ Removed(d) \/ Listened(d) \/ Unlinked(d)
      PROVE  BinderInv'
  <2>1. (file' = NoFile \/ UNCHANGED file) /\ UNCHANGED astray
    BY <1>1 DEF Examined, Removed, Listened, Unlinked, Advances, history
  <2>2. \A e \in Daemon : serve'[e] \in {"listen", "chmod"} =>
           /\ saw'[e] = saw[e]
           /\ serve'[e] = serve[e] \/ (serve[e] = "listen" /\ serve'[e] = "chmod")
    BY <1>1 DEF Examined, Removed, Listened, Unlinked, Advances, Becomes
  <2> QED BY <2>1, <2>2, <1>n
<1>2. ASSUME NEW d \in Daemon, Bound(d) PROVE BinderInv'
  <2>1. /\ file'.id = made + 1 /\ file'.mode = "0700" /\ saw'[d] = file' /\ serve'[d] = "listen"
        /\ \A e \in Daemon \ {d} : serve'[e] = serve[e] /\ saw'[e] = saw[e]
    BY <1>2 DEF Bound, Becomes
  <2>2. \A e \in Daemon \ {d} : saw'[e].id # file'.id /\ saw'[d].id # saw'[e].id
    BY <2>1, <1>i, <1>t
  <2>3. saw'[d].id # 0
    BY <2>1, <1>t
  <2> QED BY <2>1, <2>2, <2>3 DEF BinderInv
<1>3. ASSUME NEW d \in Daemon, Opened(d) PROVE BinderInv'
  <2>1. /\ serve[d] = "chmod" /\ serve'[d] = "stat" /\ saw'[d] = saw[d]
        /\ \A e \in Daemon \ {d} : serve'[e] = serve[e] /\ saw'[e] = saw[e]
        /\ file'.id = file.id
        /\ astray' = IF file.id = saw[d].id THEN astray ELSE astray \cup {file.id}
    BY <1>3 DEF Opened, Becomes
  <2>2. \A e \in Daemon : serve[e] = "listen" /\ saw[e].id = file.id => file.id \in astray'
    BY <2>1 DEF BinderInv
  <2> QED BY <2>1, <2>2 DEF BinderInv
<1> QED BY <1>a, <1>1, <1>2, <1>3, StepDoes, AsideDoes, SocketAssumption

LEMMA DeadNext ==
  ASSUME SocketTypeOK, FreshInv, BinderInv, DeadInv, [SocketNext]_socketVars
  PROVE  DeadInv'
<1>t. /\ file.id \in Nat /\ made \in Nat /\ NoFile.id = 0
      /\ \A d \in Daemon : saw[d].id \in Nat
  BY FileFields, SocketAssumption DEF SocketTypeOK, FileTypeOK, NoteTypeOK, NoFile
<1>i. file.id <= made /\ \A d \in Daemon : saw[d].id <= made
  BY DEF FreshInv
<1>f. file # NoFile => file.id # 0
  BY FileFields DEF SocketTypeOK, FileTypeOK
<1> DEFINE Looking(e) == serve[e] \in {"probe", "stale", "remove"}
\* The file is none, or one that nobody has looked at.
<1>n. ASSUME \/ file'.id = 0
             \/ \A e \in Daemon : saw'[e].id = file'.id => ~Looking(e)',
             \A e \in Daemon : Looking(e)' =>
               serve'[e] = serve[e] /\ saw'[e] = saw[e] /\ looked'[e] = looked[e]
      PROVE  DeadInv'
  BY <1>n DEF DeadInv
<1>a. ASSUME NEW d \in Daemon, Aside(d) PROVE DeadInv'
  BY <1>a DEF Aside, DeadInv, Silent
<1>1. ASSUME NEW d \in Daemon, Removed(d) \/ Unlinked(d) PROVE DeadInv'
  <2>1. file'.id = 0
    BY <1>1, <1>t DEF Removed, Unlinked
  <2>2. \A e \in Daemon : Looking(e)' =>
           serve'[e] = serve[e] /\ saw'[e] = saw[e] /\ looked'[e] = looked[e]
    BY <1>1 DEF Removed, Unlinked, Becomes
  <2> QED BY <2>1, <2>2, <1>n
<1>2. ASSUME NEW d \in Daemon, Bound(d) PROVE DeadInv'
  <2>1. /\ file'.id = made + 1 /\ serve'[d] = "listen"
        /\ \A e \in Daemon \ {d} :
             serve'[e] = serve[e] /\ saw'[e] = saw[e] /\ looked'[e] = looked[e]
    BY <1>2 DEF Bound, Becomes
  <2>2. \A e \in Daemon \ {d} : saw'[e].id # file'.id
    BY <2>1, <1>i, <1>t
  <2> QED BY <2>1, <2>2, <1>n
<1>3. ASSUME NEW d \in Daemon, Listened(d) PROVE DeadInv'
  <2>1. /\ UNCHANGED <<file, astray>> /\ serve[d] = "listen" /\ serve'[d] = "chmod"
        /\ hears'[d] = saw[d].id /\ saw'[d] = saw[d]
        /\ \A e \in Daemon \ {d} :
             /\ serve'[e] = serve[e] /\ saw'[e] = saw[e] /\ looked'[e] = looked[e]
             /\ hears'[e] = hears[e]
    BY <1>3 DEF Listened, Becomes, history
  <2>2. Silent(file.id) => Silent(file.id)'
    BY <2>1 DEF Silent, Heard
  <2> QED BY <2>1, <2>2 DEF DeadInv
<1>4. ASSUME NEW d \in Daemon, Opened(d) PROVE DeadInv'
  <2>1. /\ file' = [id |-> file.id, mode |-> "0600"] /\ file'.id = file.id /\ astray \subseteq astray'
        /\ serve[d] = "chmod" /\ serve'[d] = "stat"
        /\ \A e \in Daemon : saw'[e] = saw[e] /\ looked'[e] = looked[e] /\ hears'[e] = hears[e]
        /\ \A e \in Daemon \ {d} : serve'[e] = serve[e]
    BY <1>4 DEF Opened, Becomes
  <2>2. Silent(file.id) => Silent(file.id)'
    BY <2>1 DEF Silent, Heard
  <2>3. ASSUME NEW e \in Daemon, Looking(e), file.id = saw[e].id PROVE file' = saw[e]
    <3>1. saw[e].mode = "0600" /\ file = saw[e]
      BY <2>3 DEF DeadInv
    <3> QED BY <3>1, <2>1, FileFields DEF SocketTypeOK, FileTypeOK
  <2> QED BY <2>1, <2>2, <2>3 DEF DeadInv
<1>5. ASSUME NEW d \in Daemon, Examined(d) PROVE DeadInv'
  <2>1. /\ UNCHANGED <<file, astray>> /\ \A e \in Daemon : hears'[e] = hears[e]
        /\ \A e \in Daemon \ {d} :
             serve'[e] = serve[e] /\ saw'[e] = saw[e] /\ looked'[e] = looked[e]
        /\ serve[d] # "listen" /\ serve'[d] # "listen"
    BY <1>5 DEF Examined, Advances, Becomes, history
  <2>2. \A i \in Nat : Silent(i) => Silent(i)'
    BY <2>1 DEF Silent, Heard
  <2>3. \/ serve'[d] \notin {"probe", "stale", "remove"}
        \/ serve'[d] = "probe" /\ saw'[d] = file /\ file # NoFile /\ file.mode = "0600"
        \/ serve[d] = "probe" /\ serve'[d] = "stale" /\ saw'[d] = saw[d] /\ file.id \notin Heard
        \/ /\ serve[d] = "stale" /\ serve'[d] = "remove" /\ saw'[d] = saw[d]
           /\ looked'[d] = file /\ file = saw[d]
    BY <1>5 DEF Examined, Advances, Becomes
  <2>4. ASSUME serve[d] = "probe", serve'[d] = "stale", saw'[d] = saw[d], file.id \notin Heard,
               file.id = saw[d].id
        PROVE  file.id \in astray \/ Silent(file.id)
    <3>1. file.mode = "0600"
      BY <2>4 DEF DeadInv
    <3> QED BY <2>4, <3>1 DEF Silent, BinderInv
  <2>5. ASSUME NEW e \in Daemon, Looking(e)'
        PROVE  /\ saw'[e].id # 0 /\ saw'[e].mode = "0600"
               /\ file'.id = saw'[e].id => file' = saw'[e]
    BY <2>1, <2>3, <2>5, <1>f DEF DeadInv
  <2>6. ASSUME NEW e \in Daemon, serve'[e] \in {"stale", "remove"}, file'.id = saw'[e].id
        PROVE  file'.id \in astray' \/ Silent(file.id)'
    BY <2>1, <2>2, <2>3, <2>4, <2>6, <1>t DEF DeadInv
  <2>7. ASSUME NEW e \in Daemon, serve'[e] = "remove" PROVE looked'[e] = saw'[e]
    BY <2>1, <2>3, <2>7 DEF DeadInv
  <2> QED BY <2>1, <2>5, <2>6, <2>7 DEF DeadInv
<1> QED BY <1>a, <1>1, <1>2, <1>3, <1>4, <1>5, StepDoes, AsideDoes, SocketAssumption

LEMMA RecoveryNext == SocketTypeOK /\ RecoveryInv /\ [SocketNext]_socketVars => RecoveryInv'
  BY FreshNext, BinderNext, DeadNext DEF RecoveryInv

\* The recovery removes no socket somebody listens on, however many daemons
\* are started, stopped and killed meanwhile, as long as it removes the file
\* of its second look and nobody else has changed that one's permissions
\* (recoverStaleSocket, server.go:205-258).
THEOREM OnlyTheDeadIsRemoved == SocketSpec => RecoveryTakesTheDead
<1> DEFINE Takes == \A d \in Daemon :
              serve[d] = "remove" /\ serve'[d] = "bind" /\ file = looked[d] /\ file.id \notin astray
                => file.id \notin Heard
<1>1. RecoveryInv => Takes
  <2> SUFFICES ASSUME RecoveryInv, NEW d \in Daemon, serve[d] = "remove", file = looked[d],
                      file.id \notin astray
               PROVE  file.id \notin Heard
    OBVIOUS
  <2>1. file = saw[d] /\ Silent(file.id)
    BY DEF RecoveryInv, DeadInv
  <2> QED BY <2>1 DEF Silent
<1>2. RecoveryInv /\ [SocketNext]_socketVars => [Takes]_socketVars
  BY <1>1
<1> QED
  BY <1>2, TypeCorrect, RecoveryInit, RecoveryNext, PTL DEF SocketSpec, RecoveryTakesTheDead

-----------------------------------------------------------------------------
(* ServesAtThePath.                                                        *)

Up(d) == serve[d] = "serving" /\ stop[d] = "none"

\* Past the probe: nobody answered it, or nothing was there.
Late == {"gone", "stale", "remove", "bind", "listen", "chmod", "stat", "publish", "serving"}

OneAtATime == \A d, e \in Daemon : Busy(d) /\ Busy(e) => d = e

\* Whoever is past the probe is alone.
AloneInv == \A d, e \in Daemon : serve[d] \in Late /\ Up(e) => d = e

\* A daemon that has not been told to stop has at the path what it has made.
PlaceInv ==
  \A d \in Daemon : stop[d] = "none" =>
    /\ serve[d] \in {"listen", "chmod"} => file.id = saw[d].id
    /\ serve[d] = "stat" => file = [id |-> saw[d].id, mode |-> "0600"]
    /\ serve[d] \in {"chmod", "stat"} => hears[d] = saw[d].id
    /\ serve[d] \in {"publish", "serving"} =>
         file = [id |-> own[d], mode |-> "0600"] /\ hears[d] = own[d]

OwnInv ==
  \A d \in Daemon :
    /\ own[d] # 0 => serve[d] \in {"publish", "serving"}
    /\ stop[d] = "unlink" => own[d] # 0

PathInv == OwnInv /\ (~overlap => OneAtATime /\ AloneInv /\ PlaceInv)

LEMMA PathInit == SocketInit => PathInv
<1> SUFFICES ASSUME SocketInit PROVE PathInv
  OBVIOUS
<1>1. \A d \in Daemon : serve[d] = "off" /\ stop[d] = "none" /\ own[d] = 0
  BY NoFileIs DEF SocketInit
<1>2. OwnInv /\ PlaceInv /\ AloneInv
  BY <1>1 DEF OwnInv, PlaceInv, AloneInv, Late
<1>3. OneAtATime
  BY <1>1 DEF OneAtATime, Busy, Starting
<1> QED BY <1>2, <1>3 DEF PathInv

LEMMA OwnNext ==
  ASSUME SocketTypeOK, OwnInv, [SocketNext]_socketVars
  PROVE  OwnInv'
<1>0. CASE Rests
  BY <1>0 DEF Rests, OwnInv, noteVars
<1>1. ASSUME NEW d \in Daemon,
             \/ Ended(d) \/ Started(d) \/ Examined(d) \/ Removed(d) \/ Bound(d) \/ Listened(d)
             \/ Opened(d) \/ Noted(d) \/ Published(d)
      PROVE  OwnInv'
  <2>1. /\ own'[d] # 0 => serve'[d] \in {"publish", "serving"}
        /\ stop'[d] = "unlink" => own'[d] # 0
    BY <1>1
    DEF Ended, Started, Examined, Removed, Bound, Listened, Opened, Noted, Published, Advances,
        Becomes, OwnInv
  <2>2. \A e \in Daemon \ {d} : own'[e] = own[e] /\ serve'[e] = serve[e] /\ stop'[e] = stop[e]
    BY <1>1
    DEF Ended, Started, Examined, Removed, Bound, Listened, Opened, Noted, Published, Advances,
        Becomes
  <2> QED BY <2>1, <2>2 DEF OwnInv
<1>2. ASSUME NEW d \in Daemon, Closes(d) \/ Unlinked(d) PROVE OwnInv'
  <2>1. /\ own'[d] = own[d] /\ serve'[d] = serve[d] /\ (stop'[d] = "unlink" => own[d] # 0)
        /\ \A e \in Daemon \ {d} : own'[e] = own[e] /\ serve'[e] = serve[e] /\ stop'[e] = stop[e]
    BY <1>2 DEF Closes, Unlinked, Becomes
  <2> QED BY <2>1 DEF OwnInv
<1> QED BY <1>0, <1>1, <1>2, StepDoes

LEMMA OverlapDoes ==
  ASSUME NEW d \in Daemon, Overlaps(d), ~overlap'
  PROVE  ~overlap /\ \A e \in Daemon \ {d} : ~Busy(e)
  BY Zenon DEF Overlaps

\* What has not overlapped did not before.
LEMMA OverlapStays ==
  ASSUME SocketTypeOK, [SocketNext]_socketVars, ~overlap'
  PROVE  ~overlap
<1>1. \/ overlap' = overlap
      \/ \E d \in Daemon : Overlaps(d)
  <2>1. CASE Rests
    BY <2>1 DEF Rests, history
  <2>2. ASSUME NEW d \in Daemon,
               \/ Ended(d) \/ Examined(d) \/ Removed(d) \/ Bound(d) \/ Listened(d)
               \/ Opened(d) \/ Noted(d) \/ Published(d) \/ Unlinked(d)
        PROVE  overlap' = overlap
    BY <2>2
    DEF Ended, Examined, Removed, Bound, Listened, Opened, Noted, Published, Unlinked, Advances,
        history
  <2>3. ASSUME NEW d \in Daemon, Started(d) \/ Closes(d)
        PROVE  overlap' = overlap \/ Overlaps(d)
    <3>1. Started(d) => Overlaps(d)
      BY DEF Started
    <3>2. Closes(d) => UNCHANGED overlap \/ Overlaps(d)
      BY Zenon DEF Closes
    <3> QED BY <2>3, <3>1, <3>2
  <2> QED BY <2>1, <2>2, <2>3, StepDoes
<1>2. (overlap' = overlap) => ~overlap
  OBVIOUS
<1> QED BY <1>1, <1>2, OverlapDoes

\* One daemon alone is busy: it is the one that steps, and it was before
\* unless nobody else is.
LEMMA OneNext ==
  ASSUME SocketTypeOK, OneAtATime, [SocketNext]_socketVars, ~overlap'
  PROVE  OneAtATime'
<1>0. CASE Rests
  BY <1>0 DEF Rests, OneAtATime, Busy
<1>1. ASSUME NEW d \in Daemon,
             \A e \in Daemon \ {d} : serve'[e] = serve[e] /\ stop'[e] = stop[e],
             \/ Busy(d)' => Busy(d)
             \/ \A e \in Daemon \ {d} : ~Busy(e)
      PROVE  OneAtATime'
  <2>1. \A e \in Daemon \ {d} : Busy(e)' <=> Busy(e)
    BY <1>1 DEF Busy
  <2> QED BY <1>1, <2>1 DEF OneAtATime
<1>2. ASSUME NEW d \in Daemon,
             \/ Ended(d) \/ Examined(d) \/ Removed(d) \/ Bound(d) \/ Listened(d)
             \/ Opened(d) \/ Noted(d) \/ Published(d) \/ Unlinked(d)
      PROVE  OneAtATime'
  <2>1. \A e \in Daemon \ {d} : serve'[e] = serve[e] /\ stop'[e] = stop[e]
    BY <1>2
    DEF Ended, Examined, Removed, Bound, Listened, Opened, Noted, Published, Unlinked, Advances,
        Becomes
  <2>2. \/ serve[d] \in Starting /\ stop'[d] = stop[d]
        \/ stop[d] # "none"
        \/ serve'[d] = "off" /\ stop'[d] = "none"
    BY <1>2
    DEF Ended, Examined, Removed, Bound, Listened, Opened, Noted, Published, Unlinked, Advances,
        Becomes, Starting
  <2>3. Busy(d)' => Busy(d)
    BY <2>2 DEF Busy, Starting
  <2> QED BY <2>1, <2>3, <1>1
<1>3. ASSUME NEW d \in Daemon, Started(d) \/ Closes(d) PROVE OneAtATime'
  <2>1. \A e \in Daemon \ {d} : serve'[e] = serve[e] /\ stop'[e] = stop[e]
    BY <1>3 DEF Started, Closes, Becomes
  <2>2. \/ stop[d] # "none"
        \/ Overlaps(d)
    <3>1. Started(d) => Overlaps(d)
      BY DEF Started
    <3>2. Closes(d) => stop[d] # "none" \/ Overlaps(d)
      BY Zenon DEF Closes
    <3> QED BY <1>3, <3>1, <3>2
  <2>3. (Busy(d)' => Busy(d)) \/ \A e \in Daemon \ {d} : ~Busy(e)
    BY <2>2, OverlapDoes DEF Busy
  <2> QED BY <2>1, <2>3, <1>1
<1> QED BY <1>0, <1>2, <1>3, StepDoes

\* Who passes the probe has seen that nobody is up, and nobody comes up
\* meanwhile.
LEMMA AloneNext ==
  ASSUME SocketTypeOK, OneAtATime, AloneInv, PlaceInv, [SocketNext]_socketVars
  PROVE  AloneInv'
<1>0. CASE Rests
  BY <1>0 DEF Rests, AloneInv, Up
<1>u. ASSUME NEW e \in Daemon, Up(e)
      PROVE  file.mode = "0600" /\ file # NoFile /\ file.id = hears[e]
  <2>1. file = [id |-> own[e], mode |-> "0600"] /\ hears[e] = own[e]
    BY <1>u DEF Up, PlaceInv
  <2> QED BY <2>1 DEF NoFile
<1>h. ASSUME NEW e \in Daemon, Up(e) PROVE file.id \in Heard
  <2>1. file.id # 0
    BY <1>u, <1>h, FileFields DEF SocketTypeOK, FileTypeOK
  <2> QED BY <2>1, <1>u, <1>h DEF Heard
\* The daemon that steps was past the probe already, or nobody is up.
<1>k. ASSUME NEW d \in Daemon,
             \A e \in Daemon \ {d} : serve'[e] = serve[e] /\ stop'[e] = stop[e],
             Up(d)' => Up(d),
             \/ serve'[d] \in Late => serve[d] \in Late
             \/ \A e \in Daemon : ~Up(e)
      PROVE  AloneInv'
  BY <1>k DEF AloneInv, Up
<1>1. ASSUME NEW d \in Daemon,
             \/ Ended(d) \/ Started(d) \/ Removed(d) \/ Bound(d) \/ Listened(d)
             \/ Opened(d) \/ Noted(d) \/ Closes(d) \/ Unlinked(d)
      PROVE  AloneInv'
  <2>1. \A e \in Daemon \ {d} : serve'[e] = serve[e] /\ stop'[e] = stop[e]
    BY <1>1
    DEF Ended, Started, Removed, Bound, Listened, Opened, Noted, Closes, Unlinked, Becomes
  <2>2. (Up(d)' => Up(d)) /\ (serve'[d] \in Late => serve[d] \in Late)
    BY <1>1
    DEF Ended, Started, Removed, Bound, Listened, Opened, Noted, Closes, Unlinked, Becomes, Up, Late
  <2> QED BY <2>1, <2>2, <1>k
<1>2. ASSUME NEW d \in Daemon, Examined(d) PROVE AloneInv'
  <2>1. /\ \A e \in Daemon \ {d} : serve'[e] = serve[e] /\ stop'[e] = stop[e]
        /\ serve'[d] # "serving"
        /\ \/ serve'[d] \in Late => serve[d] \in Late
           \/ file = NoFile
           \/ file.id \notin Heard
    BY <1>2 DEF Examined, Advances, Becomes, Late
  <2>2. Up(d)' => Up(d)
    BY <2>1 DEF Up
  <2>3. (file = NoFile \/ file.id \notin Heard) => \A e \in Daemon : ~Up(e)
    BY <1>u, <1>h
  <2> QED BY <2>1, <2>2, <2>3, <1>k
<1>3. ASSUME NEW d \in Daemon, Published(d) PROVE AloneInv'
  <2>1. /\ serve[d] = "publish" /\ serve'[d] = "serving"
        /\ \A e \in Daemon \ {d} : serve'[e] = serve[e] /\ stop'[e] = stop[e]
    BY <1>3 DEF Published, Advances, Becomes
  <2>2. Busy(d)
    BY <2>1 DEF Busy, Starting
  <2>3. ASSUME NEW e \in Daemon \ {d}, serve[e] \in Late PROVE FALSE
    <3>1. ~Busy(e)
      BY <2>2, <2>3 DEF OneAtATime
    <3>2. Up(e)
      BY <2>3, <3>1 DEF Up, Busy, Late, Starting
    <3> QED BY <2>1, <2>3, <3>2 DEF AloneInv, Late
  <2>4. \A e \in Daemon \ {d} : serve'[e] \notin Late
    BY <2>1, <2>3
  <2> QED BY <2>4 DEF AloneInv, Up, Late
<1> QED BY <1>0, <1>1, <1>2, <1>3, StepDoes

\* What a daemon has at the path when it has not been told to stop.
Placed(d) ==
  /\ serve[d] \in {"listen", "chmod"} => file.id = saw[d].id
  /\ serve[d] = "stat" => file = [id |-> saw[d].id, mode |-> "0600"]
  /\ serve[d] \in {"chmod", "stat"} => hears[d] = saw[d].id
  /\ serve[d] \in {"publish", "serving"} =>
       file = [id |-> own[d], mode |-> "0600"] /\ hears[d] = own[d]

LEMMA PlaceNext ==
  ASSUME SocketTypeOK, OwnInv, OneAtATime, AloneInv, PlaceInv, [SocketNext]_socketVars
  PROVE  PlaceInv'
<1>p. PlaceInv <=> \A d \in Daemon : stop[d] = "none" => Placed(d)
  BY DEF PlaceInv, Placed
<1>q. PlaceInv' <=> \A d \in Daemon : stop'[d] = "none" => Placed(d)'
  BY DEF PlaceInv, Placed
<1>0. CASE Rests
  BY <1>0 DEF Rests, PlaceInv, fileVars, noteVars
\* A step that leaves the file alone.
<1>s. ASSUME NEW d \in Daemon, UNCHANGED file,
             \A e \in Daemon \ {d} :
               /\ hears'[e] = hears[e] /\ serve'[e] = serve[e] /\ stop'[e] = stop[e]
               /\ saw'[e] = saw[e] /\ own'[e] = own[e],
             stop'[d] = "none" => Placed(d)'
      PROVE  PlaceInv'
  <2>1. ASSUME NEW e \in Daemon \ {d}, stop'[e] = "none" PROVE Placed(e)'
    <3>1. Placed(e)
      BY <1>s, <2>1, <1>p
    <3> QED BY <1>s, <2>1, <3>1 DEF Placed
  <2> QED BY <1>s, <2>1, <1>q
\* A step that changes it is one of a daemon that is past the probe and busy.
<1>c. ASSUME NEW d \in Daemon, serve[d] \in Late, Busy(d),
             \A e \in Daemon \ {d} : serve'[e] = serve[e] /\ stop'[e] = stop[e],
             stop'[d] = "none" => Placed(d)'
      PROVE  PlaceInv'
  <2>1. ASSUME NEW e \in Daemon \ {d}, stop'[e] = "none"
        PROVE  serve'[e] \notin {"listen", "chmod", "stat", "publish", "serving"}
    <3>1. ~Busy(e)
      BY <1>c, <2>1 DEF OneAtATime
    <3>2. ~Up(e)
      BY <1>c, <2>1 DEF AloneInv
    <3> QED BY <1>c, <2>1, <3>1, <3>2 DEF Busy, Up, Starting
  <2>2. ASSUME NEW e \in Daemon \ {d}, stop'[e] = "none" PROVE Placed(e)'
    BY <2>1, <2>2 DEF Placed
  <2> QED BY <1>c, <2>2, <1>q
<1>1. ASSUME NEW d \in Daemon, Ended(d) \/ Started(d) \/ Examined(d) \/ Closes(d) PROVE PlaceInv'
  <2>1. /\ UNCHANGED file
        /\ \A e \in Daemon \ {d} :
             /\ hears'[e] = hears[e] /\ serve'[e] = serve[e] /\ stop'[e] = stop[e]
             /\ saw'[e] = saw[e] /\ own'[e] = own[e]
    BY <1>1 DEF Ended, Started, Examined, Closes, Advances, Becomes
  <2>2. \/ serve'[d] \notin {"listen", "chmod", "stat", "publish", "serving"}
        \/ stop'[d] # "none"
    BY <1>1 DEF Ended, Started, Examined, Closes, Advances, Becomes
  <2>3. stop'[d] = "none" => Placed(d)'
    BY <2>2 DEF Placed
  <2> QED BY <2>1, <2>3, <1>s
<1>2. ASSUME NEW d \in Daemon, Listened(d) \/ Noted(d) \/ Published(d) PROVE PlaceInv'
  <2>1. /\ UNCHANGED file
        /\ \A e \in Daemon \ {d} :
             /\ hears'[e] = hears[e] /\ serve'[e] = serve[e] /\ stop'[e] = stop[e]
             /\ saw'[e] = saw[e] /\ own'[e] = own[e]
    BY <1>2 DEF Listened, Noted, Published, Advances, Becomes
  <2>2. ASSUME stop'[d] = "none" PROVE Placed(d)'
    <3>1. stop[d] = "none"
      BY <1>2, <2>2 DEF Listened, Noted, Published, Advances, Becomes
    <3>2. Placed(d)
      BY <3>1, <1>p
    <3>3. CASE Listened(d)
      BY <3>2, <3>3 DEF Listened, Becomes, Placed
    <3>4. CASE Noted(d)
      <4>1. file = [id |-> saw[d].id, mode |-> "0600"] /\ hears[d] = saw[d].id
        BY <3>2, <3>4 DEF Noted, Placed
      <4>2. file.id = saw[d].id
        BY <4>1
      <4> QED BY <3>4, <4>1, <4>2 DEF Noted, Becomes, Placed
    <3>5. CASE Published(d)
      BY <3>2, <3>5 DEF Published, Advances, Becomes, Placed
    <3> QED BY <1>2, <3>3, <3>4, <3>5
  <2> QED BY <2>1, <2>2, <1>s
<1>3. ASSUME NEW d \in Daemon, Removed(d) \/ Bound(d) \/ Opened(d) PROVE PlaceInv'
  <2>1. serve[d] \in Late /\ Busy(d)
    BY <1>3 DEF Removed, Bound, Opened, Late, Busy, Starting
  <2>2. \A e \in Daemon \ {d} : serve'[e] = serve[e] /\ stop'[e] = stop[e]
    BY <1>3 DEF Removed, Bound, Opened, Becomes
  <2>3. CASE Removed(d)
    BY <2>1, <2>2, <2>3, <1>c DEF Removed, Becomes, Placed
  <2>4. CASE Bound(d)
    BY <2>1, <2>2, <2>4, <1>c DEF Bound, Becomes, Placed
  <2>5. CASE Opened(d)
    <3>1. ASSUME stop'[d] = "none" PROVE Placed(d)'
      <4>1. stop[d] = "none"
        BY <2>5, <3>1 DEF Opened, Becomes
      <4>2. file.id = saw[d].id /\ hears[d] = saw[d].id
        BY <2>5, <4>1 DEF Opened, PlaceInv
      <4> QED BY <2>5, <4>2 DEF Opened, Becomes, Placed
    <3> QED BY <2>1, <2>2, <3>1, <1>c
  <2> QED BY <1>3, <2>3, <2>4, <2>5
<1>4. ASSUME NEW d \in Daemon, Unlinked(d) PROVE PlaceInv'
  <2>1. serve[d] \in Late /\ Busy(d)
    BY <1>4 DEF Unlinked, OwnInv, Late, Busy
  <2>2. /\ \A e \in Daemon \ {d} : serve'[e] = serve[e] /\ stop'[e] = stop[e]
        /\ stop'[d] # "none"
    BY <1>4 DEF Unlinked, Becomes
  <2> QED BY <2>1, <2>2, <1>c
<1> QED BY <1>0, <1>1, <1>2, <1>3, <1>4, StepDoes

LEMMA PathNext == SocketTypeOK /\ PathInv /\ [SocketNext]_socketVars => PathInv'
<1> SUFFICES ASSUME SocketTypeOK, PathInv, [SocketNext]_socketVars PROVE PathInv'
  OBVIOUS
<1>1. OwnInv /\ OwnInv'
  BY OwnNext DEF PathInv
<1>2. ASSUME ~overlap' PROVE OneAtATime' /\ AloneInv' /\ PlaceInv'
  <2>1. ~overlap
    BY <1>2, OverlapStays
  <2>2. OneAtATime /\ AloneInv /\ PlaceInv
    BY <2>1 DEF PathInv
  <2> QED BY <2>2, <1>1, <1>2, OneNext, AloneNext, PlaceNext
<1> QED BY <1>1, <1>2 DEF PathInv

\* As long as no two daemons start or stop at the same time, a daemon that
\* serves is the one a client of the path reaches, and its file has the
\* permissions that let it, whatever crashes and removals came before (Serve
\* and recoverStaleSocket, server.go:213-362); in particular no other serves.
THEOREM ServerIsReached == SocketSpec => []ServesAtThePath
<1>1. PathInv => ServesAtThePath
  BY DEF PathInv, PlaceInv, ServesAtThePath, Closing
<1> QED BY <1>1, TypeCorrect, PathInit, PathNext, PTL DEF SocketSpec

\* Under the same condition no two daemons serve that have not been told to
\* stop: the second of them has found the first at the path (probeLiveDaemon,
\* server.go:266-299) or none there.
THEOREM OneServes ==
  SocketSpec => [](~overlap => \A d, e \in Daemon : Up(d) /\ Up(e) => d = e)
<1>1. PathInv => (~overlap => \A d, e \in Daemon : Up(d) /\ Up(e) => d = e)
  BY DEF PathInv, AloneInv, Up, Late
<1> QED BY <1>1, TypeCorrect, PathInit, PathNext, PTL DEF SocketSpec
=============================================================================
