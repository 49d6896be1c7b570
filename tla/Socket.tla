------------------------------- MODULE Socket -------------------------------
(***************************************************************************)
(* The life of the service's socket file (ipc/server.go): recovery of a    *)
(* file left behind, listening, the accept loop with its limit of clients, *)
(* and Close, for daemons that are started, stopped and killed at any      *)
(* moment. Each system call is a step. Files of other programs are left    *)
(* out; what happens within a connection is in Delivery.                   *)
(***************************************************************************)
EXTENDS Integers, FiniteSets

CONSTANTS
  Daemon,      \* processes that may run, one incarnation at a time
  Client,      \* connections that may be made
  MaxClients,  \* 16
  MaxFile      \* bound on the socket files ever made

ASSUME SocketAssumption == Daemon # {} /\ MaxClients \in Nat /\ MaxFile \in Nat

NoFile == [id |-> 0, mode |-> "none"]
Files  == {NoFile} \cup [id : 1..MaxFile, mode : {"0700", "0600"}]

VARIABLES
  file,      \* what is at the socket path: dev and inode, permissions
  made,      \* files made so far: inode numbers are not used again
  hears,     \* the file each daemon listens on, 0 for none
  serve,     \* where Serve is
  stop,      \* where Close is
  ln,        \* Close has a listener to close
  saw,       \* first Lstat of the recovery; later the file that was bound
  looked,    \* history: second Lstat
  own,       \* sockDev, sockIno
  conn,      \* the stage of each connection
  of,        \* the daemon it was made to
  open,      \* connections whose descriptor the daemon has not closed
  overlap,   \* history: two daemons were starting or stopping at a time
  astray     \* history: files whose permissions another daemon has set

fileVars == <<file, made>>
procVars == <<hears, serve, stop, ln>>
noteVars == <<saw, looked, own>>
history  == <<overlap, astray>>
connVars == <<conn, of, open>>
socketVars == <<fileVars, procVars, noteVars, connVars, history>>

Starting == {"inspect", "probe", "gone", "stale", "remove", "bind", "listen", "chmod",
             "stat", "publish"}

Busy(d) == serve[d] \in Starting \/ stop[d] # "none"
Overlaps(d) == overlap' = (overlap \/ \E e \in Daemon \ {d} : Busy(e))

Serves(d, pc) == serve' = [serve EXCEPT ![d] = pc]
Heard == {hears[d] : d \in Daemon} \ {0}

\* A process that ends, however it ends: its descriptors are closed, and the
\* file stays where it is.
Ends(d) ==
  /\ hears' = [hears EXCEPT ![d] = 0]
  /\ Serves(d, "off")
  /\ stop' = [stop EXCEPT ![d] = "none"] /\ ln' = [ln EXCEPT ![d] = FALSE]
  /\ saw' = [saw EXCEPT ![d] = NoFile] /\ looked' = [looked EXCEPT ![d] = NoFile]
  /\ own' = [own EXCEPT ![d] = 0]
  /\ conn' = [k \in Client |-> IF of[k] = d /\ conn[k] # "none" THEN "over" ELSE conn[k]]
  /\ open' = {k \in open : of[k] # d}
  /\ UNCHANGED of

-----------------------------------------------------------------------------
(* recoverStaleSocket.                                                     *)

Start(d) ==
  /\ serve[d] = "off"
  /\ Serves(d, "inspect") /\ Overlaps(d)
  /\ UNCHANGED <<fileVars, hears, stop, ln, noteVars, connVars, astray>>

\* A step of Serve: fails when refused, and the process then ends.
Proceeds(d, pc) ==
  /\ Serves(d, pc)
  /\ UNCHANGED <<hears, stop, ln, own, connVars>>

\* Mutant of RightShape: the permissions are not looked at.
AnyShape(f) == TRUE
RightShape(f) == f.mode = "0600"

Inspect(d) ==
  /\ serve[d] = "inspect"
  /\ CASE file = NoFile -> Proceeds(d, "bind") /\ UNCHANGED <<saw, looked>>
       [] file # NoFile /\ RightShape(file) ->
            saw' = [saw EXCEPT ![d] = file] /\ Proceeds(d, "probe") /\ UNCHANGED looked
       [] OTHER -> Ends(d)
  /\ UNCHANGED <<fileVars, history>>

\* Mutant of Stale: a listener that does not say hello is taken for dead.
StaleUnlessHello(answer) == answer # "hello"
Stale(answer) == answer = "refused"

\* The dial, and the hello. A listener may be too busy to answer in time.
Probe(d) ==
  /\ serve[d] = "probe"
  /\ IF file = NoFile
       THEN Proceeds(d, "gone") /\ UNCHANGED <<saw, looked>>
       ELSE \E answer \in IF file.id \in Heard THEN {"hello", "ambiguous"} ELSE {"refused"} :
              IF Stale(answer) THEN Proceeds(d, "stale") /\ UNCHANGED <<saw, looked>>
                               ELSE Ends(d)
  /\ UNCHANGED <<fileVars, history>>

Gone(d) ==
  /\ serve[d] = "gone"
  /\ IF file = NoFile THEN Proceeds(d, "bind") /\ UNCHANGED <<saw, looked>> ELSE Ends(d)
  /\ UNCHANGED <<fileVars, history>>

SameFile(f, g) == f = g

Recheck(d) ==
  /\ serve[d] = "stale"
  /\ IF file # NoFile /\ SameFile(saw[d], file)
       THEN looked' = [looked EXCEPT ![d] = file] /\ Proceeds(d, "remove") /\ UNCHANGED saw
       ELSE Ends(d)
  /\ UNCHANGED <<fileVars, history>>

\* os.Remove takes whatever is at the path by now.
RemoveStale(d) ==
  /\ serve[d] = "remove"
  /\ IF file # NoFile
       THEN file' = NoFile /\ Proceeds(d, "bind") /\ UNCHANGED <<saw, looked>>
       ELSE Ends(d) /\ UNCHANGED file
  /\ UNCHANGED <<made, history>>

-----------------------------------------------------------------------------
(* Serve.                                                                  *)

\* net.Listen is two system calls, bind under the umask and listen.
Bind(d) ==
  /\ serve[d] = "bind"
  /\ IF file = NoFile
       THEN /\ made < MaxFile /\ made' = made + 1
            /\ file' = [id |-> made + 1, mode |-> "0700"]
            /\ saw' = [saw EXCEPT ![d] = file'] /\ Proceeds(d, "listen") /\ UNCHANGED looked
       ELSE Ends(d) /\ UNCHANGED fileVars
  /\ UNCHANGED history

Listen(d) ==
  /\ serve[d] = "listen"
  /\ hears' = [hears EXCEPT ![d] = saw[d].id] /\ Serves(d, "chmod")
  /\ UNCHANGED <<fileVars, stop, ln, noteVars, connVars, history>>

\* Chmod and Stat go by the path, whatever is there.
Chmod(d) ==
  /\ serve[d] = "chmod"
  /\ IF file # NoFile
       THEN /\ file' = [file EXCEPT !.mode = "0600"] /\ Proceeds(d, "stat")
            /\ astray' = IF file.id = saw[d].id THEN astray ELSE astray \cup {file.id}
            /\ UNCHANGED <<saw, looked>>
       ELSE Ends(d) /\ UNCHANGED <<file, astray>>
  /\ UNCHANGED <<made, overlap>>

Stat(d) ==
  /\ serve[d] = "stat"
  /\ IF file # NoFile
       THEN own' = [own EXCEPT ![d] = file.id] /\ Serves(d, "publish")
            /\ UNCHANGED <<hears, stop, ln, saw, looked, connVars>>
       ELSE Ends(d)
  /\ UNCHANGED <<fileVars, history>>

\* Close knows the listener from here on.
Publish(d) ==
  /\ serve[d] = "publish"
  /\ Serves(d, "serving")
  /\ ln' = [ln EXCEPT ![d] = stop[d] = "none"]
  /\ UNCHANGED <<fileVars, hears, stop, noteVars, connVars, history>>

-----------------------------------------------------------------------------
(* The accept loop and the handlers.                                       *)

Moves(k, stage) == conn' = [conn EXCEPT ![k] = stage] /\ UNCHANGED of

\* A client dials the path.
Dial(k) ==
  /\ conn[k] = "none" /\ file # NoFile /\ file.mode = "0600"
  /\ \E d \in Daemon : /\ hears[d] = file.id
                       /\ of' = [of EXCEPT ![k] = d]
  /\ conn' = [conn EXCEPT ![k] = "queued"] /\ open' = open \cup {k}
  /\ UNCHANGED <<fileVars, procVars, noteVars, history>>

\* One connection at a time.
Accept(k) ==
  /\ conn[k] = "queued" /\ serve[of[k]] = "serving" /\ hears[of[k]] # 0
  /\ ~ \E j \in Client : of[j] = of[k] /\ conn[j] \in {"accepted", "client"}
  /\ Moves(k, "accepted")
  /\ UNCHANGED <<open, fileVars, procVars, noteVars, history>>

Clients(d) == {k \in Client : of[k] = d /\ conn[k] \in {"client", "handled"}}
Closing(d) == stop[d] # "none"

\* Mutant of Admits: closing is not looked at.
AdmitsWhileClosing(d) == Cardinality(Clients(d)) < MaxClients
Admits(d) == ~Closing(d) /\ Cardinality(Clients(d)) < MaxClients

\* Looked at and entered under the lock; the excess is closed without a word.
Admit(k) ==
  /\ conn[k] = "accepted"
  /\ IF Admits(of[k]) THEN Moves(k, "client") /\ UNCHANGED open
                      ELSE Moves(k, "over") /\ open' = open \ {k}
  /\ UNCHANGED <<fileVars, procVars, noteVars, history>>

\* After the lock: wg.Add, and the handler.
Handle(k) ==
  /\ conn[k] = "client" /\ Moves(k, "handled")
  /\ UNCHANGED <<open, fileVars, procVars, noteVars, history>>

\* A handler ends when its client does, or when the connection is closed.
HandlerEnds(k) ==
  /\ conn[k] = "handled" /\ Moves(k, "over") /\ open' = open \ {k}
  /\ UNCHANGED <<fileVars, procVars, noteVars, history>>

-----------------------------------------------------------------------------
(* Close, and the end of the process.                                      *)

\* In one critical section: closing is set and every client closed.
BeginClose(d) ==
  /\ serve[d] # "off" /\ stop[d] = "none"
  /\ stop' = [stop EXCEPT ![d] = "listener"]
  /\ open' = open \ Clients(d)
  /\ Overlaps(d)
  /\ UNCHANGED <<fileVars, hears, serve, ln, noteVars, conn, of, astray>>

\* What waits in the backlog goes with the listener. A Close that came before
\* Publish has none to close.
CloseListener(d) ==
  /\ stop[d] = "listener"
  /\ stop' = [stop EXCEPT ![d] = "wait"]
  /\ IF ln[d]
       THEN LET lost == {k \in Client : of[k] = d /\ conn[k] = "queued"} IN
            /\ hears' = [hears EXCEPT ![d] = 0]
            /\ conn' = [k \in Client |-> IF k \in lost THEN "over" ELSE conn[k]]
            /\ open' = open \ lost
       ELSE UNCHANGED <<hears, conn, open>>
  /\ UNCHANGED <<fileVars, serve, ln, noteVars, of, history>>

\* wg.Wait: for the handlers that have been counted.
Wait(d) ==
  /\ stop[d] = "wait"
  /\ ~ \E k \in Client : of[k] = d /\ conn[k] = "handled"
  /\ stop' = [stop EXCEPT ![d] = "compare"]
  /\ UNCHANGED <<fileVars, hears, serve, ln, noteVars, connVars, history>>

OwnFile(d) == own[d] # 0 /\ file.id = own[d]

Compare(d) ==
  /\ stop[d] = "compare"
  /\ stop' = [stop EXCEPT ![d] = IF OwnFile(d) THEN "unlink" ELSE "returned"]
  /\ UNCHANGED <<fileVars, hears, serve, ln, noteVars, connVars, history>>

Unlink(d) ==
  /\ stop[d] = "unlink"
  /\ file' = NoFile
  /\ stop' = [stop EXCEPT ![d] = "returned"]
  /\ UNCHANGED <<made, hears, serve, ln, noteVars, connVars, history>>

\* main returns.
Exit(d) ==
  /\ stop[d] = "returned" /\ Ends(d)
  /\ UNCHANGED <<fileVars, history>>

Crash(d) ==
  /\ serve[d] # "off" /\ Ends(d)
  /\ UNCHANGED <<fileVars, history>>

SocketInit ==
  /\ file = NoFile /\ made = 0
  /\ hears = [d \in Daemon |-> 0] /\ serve = [d \in Daemon |-> "off"]
  /\ stop = [d \in Daemon |-> "none"] /\ ln = [d \in Daemon |-> FALSE]
  /\ saw = [d \in Daemon |-> NoFile] /\ looked = saw /\ own = hears
  /\ conn = [k \in Client |-> "none"] /\ of \in [Client -> {CHOOSE d \in Daemon : TRUE}]
  /\ open = {} /\ overlap = FALSE /\ astray = {}

DaemonStep(d) ==
  \/ Start(d) \/ Inspect(d) \/ Probe(d) \/ Gone(d) \/ Recheck(d) \/ RemoveStale(d)
  \/ Bind(d) \/ Listen(d) \/ Chmod(d) \/ Stat(d) \/ Publish(d)
  \/ BeginClose(d) \/ CloseListener(d) \/ Wait(d) \/ Compare(d) \/ Unlink(d)
  \/ Exit(d) \/ Crash(d)

SocketNext ==
  \/ \E d \in Daemon : DaemonStep(d)
  \/ \E k \in Client : Dial(k) \/ Accept(k) \/ Admit(k) \/ Handle(k) \/ HandlerEnds(k)

SocketSpec == SocketInit /\ [][SocketNext]_socketVars

-----------------------------------------------------------------------------
\* A recovery that removes the file it has looked at a second time removes
\* one on which nobody listens, even while other daemons start and stop: the
\* permissions keep it away from a socket that is bound but does not listen
\* yet (unless another daemon has set them, by the path), and the second look
\* from one that has come since the probe.
RecoveryTakesTheDead ==
  [][\A d \in Daemon :
       serve[d] = "remove" /\ serve'[d] = "bind" /\ file = looked[d] /\ file.id \notin astray
         => file.id \notin Heard]_socketVars

\* When starts and stops do not overlap, a daemon that serves is reached by
\* the path, whatever crashes came before; so no other one serves.
ServesAtThePath ==
  ~overlap => \A d \in Daemon :
    serve[d] = "serving" /\ ~Closing(d) =>
      file = [id |-> own[d], mode |-> "0600"] /\ hears[d] = own[d]

\* After Close has begun no handler keeps a client: each was closed by it or
\* is closed by the accept loop. Nor are there ever more than MaxClients.
NoClientAfterClose ==
  \A d \in Daemon :
    /\ Closing(d) => Clients(d) \cap open = {}
    /\ Cardinality(Clients(d)) <= MaxClients

\* "Removal is guarded by a file-identity re-check so a socket swapped
\* between probe and removal is not deleted" (recoverStaleSocket).
SwappedSocketStays ==
  [][\A d \in Daemon : serve[d] = "remove" /\ serve'[d] = "bind" => file.id \notin Heard]_socketVars

\* "An unclean daemon kill leaves a stale socket; the next start recovers it"
\* (docs/DEVELOPMENT.md).
CrashIsRecovered ==
  (file # NoFile /\ \A d \in Daemon : serve[d] = "off") => RightShape(file)

\* "waits for handlers" (Close).
CloseWaits == \A d \in Daemon : stop[d] = "returned" => Clients(d) = {}
=============================================================================
