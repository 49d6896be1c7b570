------------------------------ MODULE MCServer ------------------------------
(* The parts of the service that do not interact with each other, side by  *)
(* side: a behaviour is one of Socket, Deltas, Dashboard or Requests while *)
(* the others rest.                                                        *)
EXTENDS Socket, Deltas, Dashboard, Requests, TLC

\* Every length of name and every cost of its runes, up to the worst.
Text(runes, esc) == [runes |-> runes, esc |-> esc, cut |-> FALSE]
Rows == {[rest |-> 169,  name |-> Text(10, 1)], [rest |-> 300,  name |-> Text(600, 3)],
         [rest |-> 726,  name |-> Text(600, 6)], [rest |-> 1110, name |-> Text(600, 6)]}

T(st, done, n, sz, got, dn, up) ==
  [state |-> st, done |-> done, name |-> n, size |-> sz, completed |-> got, dl |-> dn, up |-> up]
Torrents == {T("downloading", FALSE, 1, 7, 2, 3, 0), T("downloading", FALSE, 1, 3, 5, 7, 1),
             T("seeding", TRUE, 1, 5, 5, 0, 7), T("seeding", TRUE, 2, 4, 4, 7, 7),
             T("paused", TRUE, 1, 7, 7, 0, 0), T("other", FALSE, 2, 7, -1, -8, 3),
             T("seeding", TRUE, 2, -8, 1, 0, -1), T("downloading", FALSE, 1, 0, -8, 0, 2)}

Symmetric == Permutations(Client)

\* A component at rest.
NoSocket    == SocketInit
NoDeltas    == /\ event = [changed |-> <<>>, removed |-> <<>>] /\ left = event
               /\ changed = <<>> /\ removed = <<>> /\ size = 0 /\ wire = DeltaFrame
               /\ frames = <<>> /\ verdict = "ok" /\ shown = Text(0, 1) /\ snap = "ok"
NoDashboard == /\ torrents = <<>> /\ unread = {} /\ counts = [c \in Counts |-> 0]
               /\ totals = [size |-> 0, completed |-> 0, remaining |-> 0]
               /\ cands = <<>> /\ active = <<>>
NoRequests  == /\ frame = NoFrame /\ stage = "failed" /\ profile = NoProfile
               /\ judged = NoEndpoint /\ endpoint = NoEndpoint /\ consent = FALSE

VARIABLE part   \* the component that runs

Init ==
  \/ part = "socket"    /\ SocketInit /\ NoDeltas /\ NoDashboard /\ NoRequests
  \/ part = "deltas"    /\ DeltasInit /\ NoSocket /\ NoDashboard /\ NoRequests
  \/ part = "dashboard" /\ DashboardInit /\ NoSocket /\ NoDeltas /\ NoRequests
  \/ part = "requests"  /\ RequestsInit /\ NoSocket /\ NoDeltas /\ NoDashboard

Next ==
  /\ \/ part = "socket"    /\ SocketNext    /\ UNCHANGED <<deltasVars, dashVars, requestVars>>
     \/ part = "deltas"    /\ DeltasNext    /\ UNCHANGED <<socketVars, dashVars, requestVars>>
     \/ part = "dashboard" /\ DashboardNext /\ UNCHANGED <<socketVars, deltasVars, requestVars>>
     \/ part = "requests"  /\ RequestsNext  /\ UNCHANGED <<socketVars, deltasVars, dashVars>>
  /\ UNCHANGED part

Spec == Init /\ [][Next]_<<part, socketVars, deltasVars, dashVars, requestVars>>
=============================================================================
