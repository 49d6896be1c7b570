----------------------------- MODULE Activation ------------------------------
(***************************************************************************)
(* What the connection manager promises the callers of Configure: each     *)
(* request takes effect at one instant between its arrival and its answer, *)
(* as a whole if the answer is positive and not at all if it is not        *)
(* (docs/adr/0008, section 9: transactional activation).                   *)
(***************************************************************************)
EXTENDS Naturals

CONSTANTS
  Handler,           \* the callers
  Request,           \* what they ask for
  Conn,              \* connections
  Outcome(_, _)      \* the connection a request turns a connection into

VARIABLES
  conn,    \* the connection in force
  epoch,   \* how many requests have taken effect
  call     \* each caller's request and its answer

vars == <<conn, epoch, call>>

Nobody == [pc |-> "idle"]

Init ==
  /\ conn \in Conn
  /\ epoch = 0
  /\ call = [h \in Handler |-> Nobody]

Ask(h) ==
  /\ call[h] = Nobody
  /\ \E r \in Request : call' = [call EXCEPT ![h] = [pc |-> "asked", req |-> r]]
  /\ UNCHANGED <<conn, epoch>>

Activate(h) ==
  /\ call[h].pc = "asked"
  /\ conn' = Outcome(conn, call[h].req)
  /\ epoch' = epoch + 1
  /\ call' = [call EXCEPT ![h].pc = "done"]

Reject(h) ==
  /\ call[h].pc = "asked"
  /\ call' = [call EXCEPT ![h].pc = "rejected"]
  /\ UNCHANGED <<conn, epoch>>

Answer(h) ==
  /\ call[h].pc \in {"done", "rejected"}
  /\ call' = [call EXCEPT ![h] = Nobody]
  /\ UNCHANGED <<conn, epoch>>

Next == \E h \in Handler : Ask(h) \/ Activate(h) \/ Reject(h) \/ Answer(h)

Spec == Init /\ [][Next]_vars
=============================================================================
