------------------------------- MODULE Logins -------------------------------
(***************************************************************************)
(* Who logs in to the backend, when, and with which password: the cycle of *)
(* the syncer, the calls of mutations and the connection tests, through    *)
(* the client's one re-login after a 403 (qbittorrent/client.go), against  *)
(* a server that expires sessions and bans an address after BanAfter       *)
(* rejected logins in a row. All stored secrets share one keyring item, so *)
(* a Configure that replaces the secret does it under the old client too.  *)
(* Rows and rids are in Syncer, refs and results in Mutator.               *)
(***************************************************************************)
EXTENDS Integers

CONSTANTS
  Call,             \* mutation handlers, each of which serves one request
  Test,             \* handlers of connection.test, likewise
  Password,         \* what may be stored or accepted
  NoPassword,       \* nil: none was given or fetched
  Empty,            \* a password of no bytes
  Wiped,            \* what is left of a secret that has been wiped
  StickyAuthFails,  \* counted rejections after which the syncer parks (3)
  BanAfter,         \* rejected logins in a row that ban the address (5)
  Pace,             \* testLoginWindow, in ticks
  MaxNow,           \* bound on the ticks
  MaxEnv,           \* bound on what the environment does
  MaxEpoch          \* bound on the switches

Cycle == "cycle"
Proc  == {Cycle} \cup Call \cup Test

ASSUME LoginsAssumption ==
  /\ StickyAuthFails \in Nat \ {0} /\ BanAfter \in Nat /\ Pace \in Nat \ {0}
  /\ MaxNow \in Nat /\ MaxEnv \in Nat /\ MaxEpoch \in Nat
  /\ Cycle \notin Call \cup Test /\ Call \cap Test = {}
  /\ {NoPassword, Empty, Wiped} \cap Password = {}
  /\ Empty # NoPassword /\ Wiped # NoPassword /\ Wiped # Empty

VARIABLES
  epoch,      \* also names the client of the epoch
  ok,         \* cur.BackendOK
  ver,        \* the versions are known
  authFails, sticky,
  stored,     \* the keyring item
  former,     \* the secret a Configure has replaced and may put back, if any
  stamp,      \* testLoginAt
  now,
  job,        \* where each process is in its requests
  session,    \* clients that hold a cookie the server accepts
  accepts,    \* the password the server accepts
  fails,      \* its count of rejected logins in a row
  up,         \* requests get through, and so do their answers
  locked,     \* the keyring does not answer
  env,        \* environment steps taken
  foreign,    \* history: those of fails that are not of this epoch's cycle,
              \* or that were lost on the way back
  testRejects \* history: rejected logins of tests

syncerVars == <<epoch, ok, ver, authFails, sticky>>
serverVars == <<session, accepts, fails, foreign, testRejects>>
envVars    == <<up, locked, env>>
vars == <<syncerVars, stored, former, stamp, now, job, serverVars, envVars>>

PCs     == {"idle", "valid", "secret", "present", "loggedin", "request",
            "answered", "degrade"}
Results == {"none", "ok", "bad", "banned", "nosecret", "unauthorized",
            "unreachable", "other", "throttled", "refused"}

\* req: the main request (maindata, the mutation, a test's versions) or
\* the one that follows it if more is set; again: the re-login is used up for
\* this one; runs: history, how often the server executed it; asked: history,
\* the source a test was asked to take its password from.
Jobs == [pc : PCs, client : (0..MaxEpoch) \cup Test, epoch : 0..MaxEpoch,
         req : {"main", "extra"}, more : BOOLEAN, again : BOOLEAN,
         pw : Password \cup {NoPassword, Empty, Wiped}, res : Results, runs : Nat,
         asked : {"nothing", "given", "stored"}]
Idle == [pc |-> "idle", client |-> 0, epoch |-> 0, req |-> "main", more |-> FALSE,
         again |-> FALSE, pw |-> NoPassword, res |-> "none", runs |-> 0,
         asked |-> "nothing"]

At(p, pc) == job[p].pc = pc
Put(p, j) == job' = [job EXCEPT ![p] = j]
Becomes(p, pc) == Put(p, [job[p] EXCEPT !.pc = pc])

\* The last request is over: its error, or success, goes to the caller. The
\* answers of tests are not told apart.
Over(p, j, r) ==
  IF p \in Test THEN [Idle EXCEPT !.pc = "answered"]
  ELSE [Idle EXCEPT !.pc = "answered", !.res = r, !.epoch = j.epoch,
                    !.req = j.req, !.again = j.again, !.runs = j.runs]

-----------------------------------------------------------------------------
(* The client: Login, and fetch or postFormBody around one request.        *)

\* A daemon client asks the keyring at each login.
GetSecret(p) ==
  /\ At(p, "secret")
  /\ \/ /\ ~locked
        /\ Put(p, [job[p] EXCEPT !.pc = "present", !.pw = stored])
     \/ /\ locked
        /\ Put(p, Over(p, job[p], "nosecret"))
  /\ UNCHANGED <<syncerVars, stored, former, stamp, now, serverVars, envVars>>

\* An empty password is no password: nothing is sent.
NoSecret(p) ==
  /\ At(p, "present") /\ job[p].pw = Empty
  /\ Put(p, Over(p, job[p], "nosecret"))
  /\ UNCHANGED <<syncerVars, stored, former, stamp, now, serverVars, envVars>>

\* What the server does with a login: refuse it to a banned address, count a
\* wrong password, or open a session and forget the failures.
Own(p) == p = Cycle /\ job[p].epoch = epoch
Judge(p, seen) ==
  \/ /\ fails = BanAfter
     /\ UNCHANGED serverVars
  \/ /\ fails < BanAfter /\ job[p].pw # accepts
     /\ fails' = fails + 1
     /\ foreign' = IF Own(p) /\ seen THEN foreign ELSE foreign + 1
     /\ testRejects' = IF p \in Test THEN testRejects + 1 ELSE testRejects
     /\ UNCHANGED <<session, accepts>>
  \/ /\ fails < BanAfter /\ job[p].pw = accepts
     /\ fails' = 0 /\ foreign' = 0
     /\ session' = session \cup (IF seen THEN {job[p].client} ELSE {})
     /\ UNCHANGED <<accepts, testRejects>>

Verdict(p) ==
  IF fails = BanAfter THEN "banned" ELSE IF job[p].pw = accepts THEN "ok" ELSE "bad"

\* A first login is reported to its caller, a re-login goes on to the retry;
\* either fails with its own error. The daemon's clients wipe the password.
LoggedIn(p) ==
  [job[p] EXCEPT !.pc = IF job[p].again \/ p # Cycle THEN "request" ELSE "loggedin",
                 !.pw = IF p \in Test THEN @ ELSE NoPassword]

Login(p) ==
  /\ At(p, "present") /\ job[p].pw # Empty
  /\ \/ /\ up /\ Judge(p, TRUE)
        /\ Put(p, IF Verdict(p) = "ok" THEN LoggedIn(p) ELSE Over(p, job[p], Verdict(p)))
     \/ /\ ~up /\ (Judge(p, FALSE) \/ UNCHANGED serverVars)
        /\ Put(p, Over(p, job[p], "unreachable"))
  /\ UNCHANGED <<syncerVars, stored, former, stamp, now, envVars>>

\* Mutant of Retried: every failed request is sent again.
RetriedAlways(r) == TRUE

\* Only a 403, which the server answers before it does anything, is retried.
Retried(r) == r = "unauthorized"

\* The end of one attempt at a request with the answer r: done times the
\* server has executed it. Tests keep their password, the daemon's clients
\* fetch it again.
Attempted(p, r, done) ==
  LET j == [job[p] EXCEPT !.runs = IF p \in Call THEN @ + done ELSE @]
      next == [j EXCEPT !.req = "extra", !.more = FALSE, !.again = FALSE]
  IN CASE r = "ok" /\ j.more ->
            \* the version probe uses whatever backend is current by now
            IF p = Cycle THEN [next EXCEPT !.client = epoch] ELSE next
       [] r # "ok" /\ Retried(r) /\ ~j.again ->
            [j EXCEPT !.again = TRUE, !.pc = IF p \in Test THEN "present" ELSE "secret"]
       [] OTHER -> Over(p, j, r)

\* One HTTP request. While the server is away, a lost answer, an unreadable
\* body and a server error say nothing of whether the request was executed. A test that is over
\* discards its cookie.
Request(p) ==
  /\ At(p, "request")
  /\ LET open == job[p].client \in session IN
     \/ up /\ open  /\ Put(p, Attempted(p, "ok", 1))
     \/ up /\ ~open /\ Put(p, Attempted(p, "unauthorized", 0))
     \/ up /\ open /\ p \in Call /\ Put(p, Attempted(p, "other", 0))
     \/ /\ ~up
        /\ \E r \in {"unreachable", "other"}, done \in {0} \cup (IF open THEN {1} ELSE {}) :
             Put(p, Attempted(p, r, done))
  /\ session' = IF p \in Test /\ job'[p].pc = "answered" THEN session \ {p} ELSE session
  /\ UNCHANGED <<syncerVars, stored, former, stamp, now, envVars, accepts, fails,
                 foreign, testRejects>>

-----------------------------------------------------------------------------
(* The cycle of the syncer.                                                *)

\* Parked: the cycle ends without a request. Otherwise it logs in unless the
\* last one was good, and asks for the versions when they are not known.
BeginCycle ==
  /\ At(Cycle, "idle") /\ ~sticky
  /\ Put(Cycle, [Idle EXCEPT !.pc = IF ok THEN "request" ELSE "secret",
                             !.client = epoch, !.epoch = epoch, !.more = ~ok \/ ~ver])
  /\ UNCHANGED <<syncerVars, stored, former, stamp, now, serverVars, envVars>>

\* A first login that succeeded clears the counter of its own epoch.
LoginNoted ==
  /\ At(Cycle, "loggedin")
  /\ authFails' = IF job[Cycle].epoch = epoch THEN 0 ELSE authFails
  /\ Becomes(Cycle, "request")
  /\ UNCHANGED <<epoch, ok, ver, sticky, stored, former, stamp, now, serverVars, envVars>>

\* A failed probe of the versions is not a failure of the cycle.
Synced == job[Cycle].res = "ok" \/ job[Cycle].req = "extra"

\* Mutant of Counts: a rejected password is an error like any other.
CountsBan(j) == j.res \in {"banned", "nosecret"}

\* Rejected and impossible logins count, whichever request caused them.
Counts(j) == j.res \in {"bad", "banned", "nosecret"}

Parks(n) == n >= StickyAuthFails

\* A failure is counted without a look at the epoch, then degrades the state
\* of its own epoch.
CycleFails ==
  /\ At(Cycle, "answered") /\ ~Synced
  /\ IF Counts(job[Cycle])
       THEN authFails' = authFails + 1 /\ sticky' = (sticky \/ Parks(authFails + 1))
       ELSE UNCHANGED <<authFails, sticky>>
  /\ Becomes(Cycle, "degrade")
  /\ UNCHANGED <<epoch, ok, ver, stored, former, stamp, now, serverVars, envVars>>

Degrade ==
  /\ At(Cycle, "degrade")
  /\ IF job[Cycle].epoch = epoch THEN ok' = FALSE /\ ver' = FALSE ELSE UNCHANGED <<ok, ver>>
  /\ Put(Cycle, Idle)
  /\ UNCHANGED <<epoch, authFails, sticky, stored, former, stamp, now, serverVars, envVars>>

\* The versions are marked as known before the epoch is compared.
CycleCommits ==
  /\ At(Cycle, "answered") /\ Synced
  /\ ver' = (ver \/ (job[Cycle].req = "extra" /\ job[Cycle].res = "ok"))
  /\ ok'  = (ok \/ job[Cycle].epoch = epoch)
  /\ Put(Cycle, Idle)
  /\ UNCHANGED <<epoch, authFails, sticky, stored, former, stamp, now, serverVars, envVars>>

-----------------------------------------------------------------------------
(* Mutations, tests and Configure.                                         *)

\* Submit validates against a state that is ok, later registers unless a
\* Configure drains, and calls the client of that moment.
Validate(c) ==
  /\ At(c, "idle") /\ ok
  /\ Becomes(c, "valid")
  /\ UNCHANGED <<syncerVars, stored, former, stamp, now, serverVars, envVars>>

Register(c) ==
  /\ At(c, "valid")
  /\ IF former # {} THEN Put(c, Over(c, job[c], "refused"))
     ELSE Put(c, [job[c] EXCEPT !.pc = "request", !.client = epoch])
  /\ UNCHANGED <<syncerVars, stored, former, stamp, now, serverVars, envVars>>

\* Mutant of Waiting: the gate is open.
NeverWaiting == FALSE
Waiting == now - stamp < Pace

\* What the server passes on of the password in a request: []byte("") is not
\* nil. (A request has a password or asks for the stored one, never both.)
AsBytes(given) == IF given = NoPassword THEN Empty ELSE given

\* resolveSecret: the password that was given, or else the stored one if that
\* was asked for, or else none. The stored one is wiped when resolveSecret
\* returns (a deferred call), and the fetcher copies it only after that.
Resolved(password, useStored) ==
  CASE password # NoPassword -> password
    [] password = NoPassword /\ useStored -> Wiped
    [] OTHER -> NoPassword

\* A test of a named user. The gate is looked at and stamped in one critical
\* section; without a source of secrets no client can be made.
BeginTest(t) ==
  /\ At(t, "idle")
  /\ \E given \in Password \cup {NoPassword}, useStored \in BOOLEAN :
       LET pw == Resolved(AsBytes(given), useStored) IN
       /\ given # NoPassword => ~useStored
       /\ pw # NoPassword
       /\ IF Waiting
            THEN Put(t, Over(t, job[t], "throttled")) /\ UNCHANGED stamp
            ELSE /\ stamp' = now
                 /\ Put(t, [Idle EXCEPT !.pc = "present", !.client = t, !.pw = pw,
                             !.asked = IF useStored THEN "stored" ELSE
                                       IF given = NoPassword THEN "nothing" ELSE "given"])
  /\ UNCHANGED <<syncerVars, stored, former, now, serverVars, envVars>>

\* Invalid URL, policy or trust, a stored password that cannot be had, or no
\* password at all: the test is answered without any contact.
RefuseTest(t) ==
  /\ At(t, "idle")
  /\ Put(t, Over(t, job[t], "refused"))
  /\ UNCHANGED <<syncerVars, stored, former, stamp, now, serverVars, envVars>>

\* Configure writes the new secret while the old client still runs (a call
\* whose mutation reconcile has settled may be under way), then switches,
\* or fails and puts the old one back, which may fail too.
WriteSecret ==
  /\ former = {} /\ ~locked /\ epoch < MaxEpoch
  /\ \E pw \in Password : stored' = pw
  /\ former' = {stored}
  /\ UNCHANGED <<syncerVars, stamp, now, job, serverVars, envVars>>

Switch ==
  /\ former # {}
  /\ epoch' = epoch + 1 /\ ok' = FALSE /\ ver' = FALSE
  /\ authFails' = 0 /\ sticky' = FALSE
  /\ foreign' = fails
  /\ former' = {}
  /\ UNCHANGED <<stored, stamp, now, job, session, accepts, fails, testRejects, envVars>>

Undo ==
  /\ former # {}
  /\ stored' \in IF locked THEN {stored} ELSE former
  /\ former' = {}
  /\ UNCHANGED <<syncerVars, stamp, now, job, serverVars, envVars>>

-----------------------------------------------------------------------------
(* The environment, and time.                                              *)

Tick ==
  /\ now < MaxNow /\ now' = now + 1
  /\ UNCHANGED <<syncerVars, stored, former, stamp, job, serverVars, envVars>>

\* A session expires, the server gets another password, restarts, goes away,
\* or the keyring is locked: each counts against MaxEnv.
Trouble ==
  /\ env < MaxEnv /\ env' = env + 1
  /\ \/ /\ \E c \in session : session' = session \ {c}
        /\ UNCHANGED <<accepts, fails, foreign, up, locked>>
     \/ /\ \E pw \in Password \ {accepts} : accepts' = pw
        /\ UNCHANGED <<session, fails, foreign, up, locked>>
     \/ /\ session' = {} /\ accepts' \in Password /\ fails' = 0 /\ foreign' = 0
        /\ UNCHANGED <<up, locked>>
     \/ up /\ up' = FALSE /\ UNCHANGED <<session, accepts, fails, foreign, locked>>
     \/ ~locked /\ locked' = TRUE /\ UNCHANGED <<session, accepts, fails, foreign, up>>

\* The server comes back, the ban ends, the keyring is unlocked.
Relief ==
  /\ \/ ~up /\ up' = TRUE /\ UNCHANGED <<locked, fails, foreign>>
     \/ locked /\ locked' = FALSE /\ UNCHANGED <<up, fails, foreign>>
     \/ fails = BanAfter /\ fails' = 0 /\ foreign' = 0 /\ UNCHANGED <<up, locked>>
  /\ UNCHANGED <<env, session, accepts>>

EnvironmentStep ==
  (Trouble \/ Relief) /\ UNCHANGED <<syncerVars, stored, former, stamp, now, job, testRejects>>

Init ==
  /\ epoch = 0 /\ ok = FALSE /\ ver = FALSE /\ authFails = 0 /\ sticky = FALSE
  /\ stored \in Password /\ former = {}
  /\ stamp = -Pace /\ now = 0
  /\ job = [p \in Proc |-> Idle]
  /\ session = {} /\ accepts \in Password /\ fails = 0 /\ foreign = 0 /\ testRejects = 0
  /\ up = TRUE /\ locked = FALSE /\ env = 0

CycleStep ==
  \/ BeginCycle \/ LoginNoted \/ CycleFails \/ Degrade \/ CycleCommits
  \/ GetSecret(Cycle) \/ Login(Cycle) \/ Request(Cycle)

Next ==
  \/ CycleStep
  \/ \E c \in Call : Validate(c) \/ Register(c) \/ GetSecret(c) \/ Login(c) \/ Request(c)
  \/ \E t \in Test : BeginTest(t) \/ RefuseTest(t) \/ NoSecret(t) \/ Login(t) \/ Request(t)
  \/ WriteSecret \/ Switch \/ Undo
  \/ Tick \/ EnvironmentStep

Spec == Init /\ [][Next]_vars

-----------------------------------------------------------------------------
(* Properties.                                                             *)

TypeOK ==
  /\ epoch \in 0..MaxEpoch /\ ok \in BOOLEAN /\ ver \in BOOLEAN
  /\ authFails \in 0..StickyAuthFails /\ sticky \in BOOLEAN
  /\ stored \in Password /\ former \subseteq Password
  /\ now \in 0..MaxNow /\ stamp \in {-Pace} \cup 0..MaxNow
  /\ job \in [Proc -> Jobs]
  /\ session \subseteq (0..MaxEpoch) \cup Test /\ accepts \in Password
  /\ fails \in 0..BanAfter /\ foreign \in Nat /\ testRejects \in Nat
  /\ up \in BOOLEAN /\ locked \in BOOLEAN /\ env \in 0..MaxEnv

\* The answer of a mutation's call is true, whatever re-login came between:
\* the server executes it at most once, a success says that it did, and a
\* refusal or a failed re-login that it did not (postFormBody).
OutcomeIsTrue ==
  \A c \in Call :
    /\ job[c].runs <= 1
    /\ At(c, "answered") =>
         /\ job[c].res = "ok" => job[c].runs = 1
         /\ job[c].res \in {"bad", "banned", "nosecret", "unauthorized", "refused"}
              => job[c].runs = 0

\* "Stay below qBittorrent's five attempts" (StickyAuthFails), precisely: of
\* the rejected logins in a row the server holds against this address, the
\* cycles of the current epoch have made at most StickyAuthFails that count, and
\* two in probes of the versions, whose failure does not: a second one when the
\* re-login of a mutation has opened the session again before the first. The
\* others come from re-logins of mutations, from tests, from before the switch,
\* or were never answered.
RejectionBudget == fails <= StickyAuthFails + 2 + foreign

\* "use_stored_password" (docs/IPC.md, connection.test): a test that asks for
\* the stored password presents a password that was stored. It is given the
\* empty one instead, which its client does not even send (NoSecret).
StoredPasswordIsUsed ==
  \A t \in Test : At(t, "present") /\ job[t].asked = "stored" => job[t].pw \in Password

\* However many handlers of connection.test run at once, with passwords that
\* are wrong or become wrong, the server sees at most one rejected login of
\* theirs in each window (the gate of Test, and its return at the first
\* failure).
TestsArePaced == testRejects <= 1 + now \div Pace
=============================================================================
