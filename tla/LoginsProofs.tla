---------------------------- MODULE LoginsProofs ----------------------------
(***************************************************************************)
(* Theorems about Logins, for any number of calls and tests, every set of  *)
(* passwords and every bound.                                              *)
(***************************************************************************)
EXTENDS Logins, FiniteSets, FiniteSetTheorems, TLAPS

-----------------------------------------------------------------------------
(* The invariants.                                                         *)

\* The latch is closed exactly when enough failures have been counted, and no
\* cycle with requests to make has found it closed.
LatchInv ==
  /\ sticky <=> authFails >= StickyAuthFails
  /\ job[Cycle].pc \notin {"idle", "degrade"} => ~sticky
  /\ job[Cycle].epoch <= epoch
  /\ former # {} => epoch < MaxEpoch

\* A call sends one request, which has not been executed while it is on its
\* way; a test goes from its login to its requests and never to the keyring.
CallsInv ==
  /\ \A c \in Call :
       /\ job[c].pc \notin {"loggedin", "degrade"} /\ ~job[c].more
       /\ job[c].pc # "answered" => job[c].runs = 0
  /\ \A t \in Test : job[t].pc \in {"idle", "present", "request", "answered"}
  /\ OutcomeIsTrue

\* What the cycles of the current epoch have added to the count of the server.
Share == fails - foreign

\* The cycle under way belongs to the current epoch, and its client is the
\* current one.
Mine  == job[Cycle].epoch = epoch
Under(pcs) == Mine /\ job[Cycle].pc \in pcs
Extra == job[Cycle].req = "extra"

\* A rejection that is yet to be counted.
Pending == IF Under({"answered"}) /\ ~Extra /\ job[Cycle].res = "bad" THEN 1 ELSE 0

\* A probe of the versions begins with a session, so its share is smaller by
\* one; it logs in again only after the session is gone, and if somebody has
\* opened it since then the count began again.
BudgetInv ==
  /\ Share <= authFails + 2 + Pending
  /\ epoch \in session => Share <= authFails + 1 + Pending
  /\ Under({"secret", "present", "loggedin", "request"}) => job[Cycle].client = epoch
  /\ Under({"loggedin"}) => Share <= 0
  /\ Under({"secret", "present", "request"}) /\ Extra => Share <= authFails + 1
  /\ Under({"secret", "present"}) /\ Extra /\ epoch \in session => Share <= authFails

\* The tests that may yet be rejected.
Active == {t \in Test : job[t].pc \in {"present", "request"}}

PaceInv ==
  /\ IsFiniteSet(Active)
  /\ testRejects + Cardinality(Active) <= 1 + stamp \div Pace
  /\ stamp <= now

IInv == TypeOK /\ LatchInv /\ CallsInv /\ BudgetInv /\ PaceInv

-----------------------------------------------------------------------------
(* Facts about the constants and the data.                                 *)

LEMMA Constants ==
  /\ Cycle \in Proc /\ Call \subseteq Proc /\ Test \subseteq Proc
  /\ Cycle \notin Call /\ Cycle \notin Test
  /\ \A c \in Call : c \notin Test
  /\ StickyAuthFails \in Nat \ {0} /\ BanAfter \in Nat /\ Pace \in Nat \ {0}
  /\ MaxNow \in Nat /\ MaxEnv \in Nat /\ MaxEpoch \in Nat
BY LoginsAssumption DEF Proc

LEMMA DivStep ==
  ASSUME NEW a \in Int, NEW b \in Int, NEW P \in Nat \ {0}, a >= b + P
  PROVE  a \div P >= 1 + b \div P
OBVIOUS

LEMMA DivGrows ==
  ASSUME NEW a \in Int, NEW b \in Int, NEW P \in Nat \ {0}, a >= b
  PROVE  a \div P >= b \div P
OBVIOUS

LEMMA IdleJob == Idle \in Jobs
BY LoginsAssumption DEF Idle, Jobs, PCs, Results

LEMMA OverJob ==
  ASSUME NEW p \in Proc, NEW j \in Jobs, NEW r \in Results
  PROVE  /\ Over(p, j, r) \in Jobs
         /\ Over(p, j, r).pc = "answered" /\ ~Over(p, j, r).more
         /\ p \notin Test => /\ Over(p, j, r).res = r /\ Over(p, j, r).epoch = j.epoch
                             /\ Over(p, j, r).req = j.req /\ Over(p, j, r).runs = j.runs
<1> USE LoginsAssumption DEF Jobs
<1>1. Idle \in Jobs
  BY IdleJob
<1>2. [Idle EXCEPT !.pc = "answered"] \in Jobs
  BY <1>1 DEF PCs
<1>3. [Idle EXCEPT !.pc = "answered", !.res = r, !.epoch = j.epoch,
                   !.req = j.req, !.again = j.again, !.runs = j.runs] \in Jobs
  BY <1>1 DEF PCs
<1> QED
  BY <1>1, <1>2, <1>3 DEF Over, Idle

LEMMA PutJob ==
  ASSUME TypeOK, NEW p \in Proc, NEW j \in Jobs, Put(p, j)
  PROVE  /\ job' \in [Proc -> Jobs] /\ job'[p] = j
         /\ \A q \in Proc \ {p} : job'[q] = job[q]
BY DEF TypeOK, Put

LEMMA BecomesJob ==
  ASSUME TypeOK, NEW p \in Proc, NEW pc \in PCs, Becomes(p, pc)
  PROVE  /\ job' \in [Proc -> Jobs]
         /\ job'[p].pc = pc /\ job'[p].epoch = job[p].epoch /\ job'[p].client = job[p].client
         /\ job'[p].req = job[p].req /\ job'[p].more = job[p].more /\ job'[p].res = job[p].res
         /\ job'[p].runs = job[p].runs
         /\ \A q \in Proc \ {p} : job'[q] = job[q]
<1>1. job[p] \in Jobs
  BY DEF TypeOK
<1>2. [job[p] EXCEPT !.pc = pc] \in Jobs
  BY <1>1 DEF Jobs
<1>3. job'[p] = [job[p] EXCEPT !.pc = pc]
  BY DEF TypeOK, Becomes, Put
<1> QED
  BY <1>1, <1>2, <1>3, PutJob DEF Becomes, Jobs

LEMMA LoggedInJob ==
  ASSUME TypeOK, NEW p \in Proc
  PROVE  /\ LoggedIn(p) \in Jobs
         /\ LoggedIn(p).pc \in {"request", "loggedin"}
         /\ p # Cycle => LoggedIn(p).pc = "request"
         /\ LoggedIn(p).epoch = job[p].epoch /\ LoggedIn(p).client = job[p].client
         /\ LoggedIn(p).req = job[p].req /\ LoggedIn(p).more = job[p].more
         /\ LoggedIn(p).runs = job[p].runs
<1>1. job[p] \in Jobs
  BY DEF TypeOK
<1>2. LoggedIn(p) = [job[p] EXCEPT !.pc = LoggedIn(p).pc, !.pw = LoggedIn(p).pw]
  BY <1>1 DEF LoggedIn, Jobs
<1>3. LoggedIn(p).pc \in {"request", "loggedin"} /\ (p # Cycle => LoggedIn(p).pc = "request")
  BY <1>1 DEF LoggedIn, Jobs
<1>4. LoggedIn(p).pw \in Password \cup {NoPassword, Empty, Wiped}
  BY <1>1 DEF LoggedIn, Jobs
<1> QED
  BY <1>1, <1>3, <1>4 DEF LoggedIn, Jobs, PCs

\* What an attempt leads to: the second request, the re-login, or the answer.
Goes(p, a, r, done) ==
  LET j == job[p]
      runs == IF p \in Call THEN j.runs + done ELSE j.runs
  IN
  \/ /\ r = "ok" /\ j.more
     /\ a.pc = j.pc /\ a.req = "extra" /\ ~a.more /\ a.epoch = j.epoch
     /\ a.client = IF p = Cycle THEN epoch ELSE j.client
     /\ a.runs = runs
  \/ /\ ~(r = "ok" /\ j.more) /\ r = "unauthorized"
     /\ a.pc = IF p \in Test THEN "present" ELSE "secret"
     /\ a.req = j.req /\ a.more = j.more /\ a.epoch = j.epoch /\ a.client = j.client
     /\ a.runs = runs
  \/ /\ ~(r = "ok" /\ j.more)
     /\ a.pc = "answered" /\ ~a.more
     /\ p \notin Test => /\ a.res = r /\ a.epoch = j.epoch /\ a.req = j.req /\ a.runs = runs

LEMMA AttemptedJob ==
  ASSUME TypeOK, NEW p \in Proc, NEW r \in Results, NEW done \in {0, 1}
  PROVE  Attempted(p, r, done) \in Jobs /\ Goes(p, Attempted(p, r, done), r, done)
<1> DEFINE j    == [job[p] EXCEPT !.runs = IF p \in Call THEN @ + done ELSE @]
           next == [j EXCEPT !.req = "extra", !.more = FALSE, !.again = FALSE]
           runs == IF p \in Call THEN job[p].runs + done ELSE job[p].runs
<1>1. job[p] \in Jobs
  BY DEF TypeOK
<1>2. runs \in Nat
  BY <1>1 DEF Jobs
<1>3. /\ j \in Jobs /\ j.runs = runs /\ j.pc = job[p].pc /\ j.epoch = job[p].epoch
      /\ j.client = job[p].client /\ j.req = job[p].req /\ j.more = job[p].more
      /\ j.again = job[p].again
  BY <1>1, <1>2 DEF Jobs
<1> HIDE DEF j
<1>4. Attempted(p, r, done) =
        CASE r = "ok" /\ j.more -> IF p = Cycle THEN [next EXCEPT !.client = epoch] ELSE next
          [] r # "ok" /\ Retried(r) /\ ~j.again ->
               [j EXCEPT !.again = TRUE, !.pc = IF p \in Test THEN "present" ELSE "secret"]
          [] OTHER -> Over(p, j, r)
  BY DEF Attempted, j
<1>5. CASE r = "ok" /\ j.more
  <2>1. next \in Jobs /\ [next EXCEPT !.client = epoch] \in Jobs
    BY <1>3 DEF Jobs, TypeOK
  <2>2. Attempted(p, r, done) = IF p = Cycle THEN [next EXCEPT !.client = epoch] ELSE next
    BY <1>4, <1>5
  <2>3. LET a == Attempted(p, r, done) IN
        /\ a.pc = j.pc /\ a.req = "extra" /\ ~a.more /\ a.epoch = j.epoch /\ a.runs = j.runs
        /\ a.client = IF p = Cycle THEN epoch ELSE j.client
    BY <1>3, <2>2 DEF Jobs
  <2> QED
    BY <1>3, <1>5, <2>1, <2>2, <2>3 DEF Goes
<1>6. CASE r # "ok" /\ Retried(r) /\ ~j.again
  <2>1. Attempted(p, r, done) =
          [j EXCEPT !.again = TRUE, !.pc = IF p \in Test THEN "present" ELSE "secret"]
    BY <1>4, <1>6
  <2>2. Attempted(p, r, done) \in Jobs
    BY <1>3, <2>1 DEF Jobs, PCs
  <2> QED
    BY <1>3, <1>6, <2>1, <2>2 DEF Goes, Jobs, Retried
<1>7. CASE ~(r = "ok" /\ j.more) /\ ~(r # "ok" /\ Retried(r) /\ ~j.again)
  <2>1. Attempted(p, r, done) = Over(p, j, r)
    BY <1>4, <1>7
  <2> QED
    BY <1>3, <1>7, <2>1, OverJob DEF Goes
<1> QED
  BY <1>5, <1>6, <1>7

-----------------------------------------------------------------------------
(* Types, and the latch.                                                   *)

\* The requests of any process, seen from its job.
LEMMA RequestJob ==
  ASSUME TypeOK, NEW p \in Proc, Request(p)
  PROVE  /\ job[p].pc = "request" /\ job' \in [Proc -> Jobs]
         /\ \A q \in Proc \ {p} : job'[q] = job[q]
         /\ \E r \in Results, done \in {0, 1} :
              /\ Goes(p, job'[p], r, done)
              /\ r = "ok" => done = 1 /\ job[p].client \in session
              /\ r = "unauthorized" => done = 0 /\ job[p].client \notin session
              /\ r \notin {"bad", "banned", "nosecret", "refused"}
         /\ session' \in {session, session \ {p}}
         /\ UNCHANGED <<syncerVars, stored, former, stamp, now, envVars, accepts, fails, foreign,
                        testRejects>>
<1> DEFINE R == {<<"ok", 1>>, <<"unauthorized", 0>>, <<"other", 0>>, <<"unreachable", 0>>,
                 <<"unreachable", 1>>, <<"other", 1>>}
<1>1. \E r \in Results, done \in {0, 1} :
        /\ Put(p, Attempted(p, r, done))
        /\ r = "ok" => done = 1 /\ job[p].client \in session
        /\ r = "unauthorized" => done = 0 /\ job[p].client \notin session
        /\ r \notin {"bad", "banned", "nosecret", "refused"}
  <2>1. CASE up /\ job[p].client \in session /\ Put(p, Attempted(p, "ok", 1))
    BY <2>1 DEF Results
  <2>2. CASE up /\ job[p].client \notin session /\ Put(p, Attempted(p, "unauthorized", 0))
    BY <2>2 DEF Results
  <2>3. CASE Put(p, Attempted(p, "other", 0))
    BY <2>3 DEF Results
  <2>4. CASE \E r \in {"unreachable", "other"}, done \in {0, 1} : Put(p, Attempted(p, r, done))
    BY <2>4 DEF Results
  <2> QED
    BY <2>1, <2>2, <2>3, <2>4 DEF Request
<1>2. PICK r \in Results, done \in {0, 1} :
        /\ Put(p, Attempted(p, r, done))
        /\ r = "ok" => done = 1 /\ job[p].client \in session
        /\ r = "unauthorized" => done = 0 /\ job[p].client \notin session
        /\ r \notin {"bad", "banned", "nosecret", "refused"}
  BY <1>1
<1>3. Attempted(p, r, done) \in Jobs /\ Goes(p, Attempted(p, r, done), r, done)
  BY AttemptedJob
<1>4. /\ job' \in [Proc -> Jobs] /\ job'[p] = Attempted(p, r, done)
      /\ \A q \in Proc \ {p} : job'[q] = job[q]
  BY <1>2, <1>3, PutJob
<1>5. Goes(p, job'[p], r, done)
  BY <1>3, <1>4
<1> QED
  BY <1>2, <1>4, <1>5 DEF Request, At

\* The logins, likewise: they end the request or lead to it.
LEMMA LoginJob ==
  ASSUME TypeOK, NEW p \in Proc, Login(p)
  PROVE  /\ job[p].pc = "present" /\ job' \in [Proc -> Jobs]
         /\ \A q \in Proc \ {p} : job'[q] = job[q]
         /\ \/ up /\ Judge(p, TRUE) /\ job[p].pw = accepts /\ fails < BanAfter /\ job'[p] = LoggedIn(p)
            \/ /\ up /\ Judge(p, TRUE) /\ ~(job[p].pw = accepts /\ fails < BanAfter)
               /\ job'[p] = Over(p, job[p], Verdict(p)) /\ Verdict(p) \in {"bad", "banned"}
               /\ Verdict(p) = "bad" <=> fails # BanAfter
            \/ /\ Judge(p, FALSE) \/ UNCHANGED serverVars
               /\ job'[p] = Over(p, job[p], "unreachable")
         /\ UNCHANGED <<syncerVars, stored, former, stamp, now, envVars>>
<1>1. job[p] \in Jobs /\ fails \in 0..BanAfter /\ BanAfter \in Nat
  BY Constants DEF TypeOK
<1>2. LoggedIn(p) \in Jobs
  BY LoggedInJob
<1>3. Verdict(p) \in Results /\ "unreachable" \in Results
  BY DEF Verdict, Results
<1>4. Over(p, job[p], Verdict(p)) \in Jobs /\ Over(p, job[p], "unreachable") \in Jobs
  BY <1>1, <1>3, OverJob
<1>5. CASE up /\ Judge(p, TRUE) /\ Verdict(p) = "ok" /\ Put(p, LoggedIn(p))
  <2>1. job[p].pw = accepts /\ fails < BanAfter
    BY <1>1, <1>5 DEF Verdict
  <2> QED
    BY <1>2, <1>5, <2>1, PutJob DEF Login, At
<1>6. CASE up /\ Judge(p, TRUE) /\ Verdict(p) # "ok" /\ Put(p, Over(p, job[p], Verdict(p)))
  <2>1. /\ ~(job[p].pw = accepts /\ fails < BanAfter) /\ Verdict(p) \in {"bad", "banned"}
        /\ Verdict(p) = "bad" <=> fails # BanAfter
    BY <1>1, <1>6 DEF Verdict
  <2> QED
    BY <1>4, <1>6, <2>1, PutJob DEF Login, At
<1>7. CASE (Judge(p, FALSE) \/ UNCHANGED serverVars) /\ Put(p, Over(p, job[p], "unreachable"))
  BY <1>4, <1>7, PutJob DEF Login, At
<1> QED
  BY <1>5, <1>6, <1>7 DEF Login

LEMMA JudgeType ==
  ASSUME TypeOK, NEW p \in Proc, NEW seen, Judge(p, seen) \/ UNCHANGED serverVars
  PROVE  /\ session' \subseteq (0..MaxEpoch) \cup Test /\ accepts' \in Password
         /\ fails' \in 0..BanAfter /\ foreign' \in Nat /\ testRejects' \in Nat
<1>1. job[p].client \in (0..MaxEpoch) \cup Test
  BY DEF TypeOK, Jobs
<1>2. BanAfter \in Nat /\ fails \in 0..BanAfter /\ foreign \in Nat /\ testRejects \in Nat
      /\ session \subseteq (0..MaxEpoch) \cup Test /\ accepts \in Password
  BY Constants DEF TypeOK
<1>3. fails' \in 0..BanAfter
  BY <1>2 DEF Judge, serverVars
<1>4. foreign' \in Nat /\ testRejects' \in Nat
  BY <1>2 DEF Judge, serverVars
<1>5. session' \subseteq (0..MaxEpoch) \cup Test
  BY <1>1, <1>2 DEF Judge, serverVars
<1> QED
  BY <1>2, <1>3, <1>4, <1>5 DEF Judge, serverVars

LEMMA GetSecretJob ==
  ASSUME TypeOK, NEW p \in Proc, GetSecret(p)
  PROVE  /\ job[p].pc = "secret" /\ job' \in [Proc -> Jobs]
         /\ \A q \in Proc \ {p} : job'[q] = job[q]
         /\ \/ /\ job'[p].pc = "present" /\ job'[p].epoch = job[p].epoch
               /\ job'[p].client = job[p].client /\ job'[p].req = job[p].req
               /\ job'[p].more = job[p].more /\ job'[p].runs = job[p].runs
            \/ job'[p] = Over(p, job[p], "nosecret")
         /\ UNCHANGED <<syncerVars, stored, former, stamp, now, serverVars, envVars>>
<1>1. job[p] \in Jobs /\ stored \in Password
  BY DEF TypeOK
<1>2. [job[p] EXCEPT !.pc = "present", !.pw = stored] \in Jobs
  BY <1>1 DEF Jobs, PCs
<1>3. Over(p, job[p], "nosecret") \in Jobs
  BY <1>1, OverJob DEF Results
<1>4. CASE Put(p, [job[p] EXCEPT !.pc = "present", !.pw = stored])
  <2>1. job'[p] = [job[p] EXCEPT !.pc = "present", !.pw = stored] /\ job' \in [Proc -> Jobs]
        /\ \A q \in Proc \ {p} : job'[q] = job[q]
    BY <1>2, <1>4, PutJob
  <2> QED
    BY <1>1, <2>1 DEF GetSecret, At, Jobs
<1>5. CASE Put(p, Over(p, job[p], "nosecret"))
  BY <1>3, <1>5, PutJob DEF GetSecret, At
<1> QED
  BY <1>4, <1>5 DEF GetSecret

LEMMA BeginCycleJob ==
  ASSUME TypeOK, BeginCycle
  PROVE  /\ job[Cycle].pc = "idle" /\ ~sticky /\ job' \in [Proc -> Jobs]
         /\ \A q \in Proc \ {Cycle} : job'[q] = job[q]
         /\ job'[Cycle].pc \in {"request", "secret"} /\ job'[Cycle].client = epoch
         /\ job'[Cycle].epoch = epoch /\ job'[Cycle].req = "main"
         /\ UNCHANGED <<syncerVars, stored, former, stamp, now, serverVars, envVars>>
<1> DEFINE j == [Idle EXCEPT !.pc = IF ok THEN "request" ELSE "secret",
                             !.client = epoch, !.epoch = epoch, !.more = ~ok \/ ~ver]
<1>1. j \in Jobs
  BY IdleJob DEF TypeOK, Jobs, PCs
<1>2. /\ j.pc \in {"request", "secret"} /\ j.client = epoch /\ j.epoch = epoch /\ j.req = "main"
  BY DEF Idle
<1>3. Put(Cycle, j)
  BY DEF BeginCycle
<1> HIDE DEF j
<1> QED
  BY <1>1, <1>2, <1>3, PutJob, Constants DEF BeginCycle, At

LEMMA RegisterJob ==
  ASSUME TypeOK, NEW c \in Call, Register(c)
  PROVE  /\ job[c].pc = "valid" /\ job' \in [Proc -> Jobs]
         /\ \A q \in Proc \ {c} : job'[q] = job[q]
         /\ \/ job'[c] = Over(c, job[c], "refused")
            \/ job'[c].pc = "request" /\ job'[c].more = job[c].more /\ job'[c].runs = job[c].runs
         /\ UNCHANGED <<syncerVars, stored, former, stamp, now, serverVars, envVars>>
<1>1. job[c] \in Jobs /\ c \in Proc
  BY Constants DEF TypeOK
<1>2. [job[c] EXCEPT !.pc = "request", !.client = epoch] \in Jobs
  BY <1>1 DEF Jobs, PCs, TypeOK
<1>3. Over(c, job[c], "refused") \in Jobs
  BY <1>1, OverJob DEF Results
<1>4. CASE Put(c, Over(c, job[c], "refused"))
  BY <1>1, <1>3, <1>4, PutJob DEF Register, At
<1>5. CASE Put(c, [job[c] EXCEPT !.pc = "request", !.client = epoch])
  <2>1. job'[c] = [job[c] EXCEPT !.pc = "request", !.client = epoch] /\ job' \in [Proc -> Jobs]
        /\ \A q \in Proc \ {c} : job'[q] = job[q]
    BY <1>1, <1>2, <1>5, PutJob
  <2> QED
    BY <1>1, <2>1 DEF Register, At, Jobs
<1> QED
  BY <1>4, <1>5 DEF Register

LEMMA BeginTestJob ==
  ASSUME TypeOK, NEW t \in Test, BeginTest(t)
  PROVE  /\ job[t].pc = "idle" /\ job' \in [Proc -> Jobs]
         /\ \A q \in Proc \ {t} : job'[q] = job[q]
         /\ \/ job'[t].pc = "answered" /\ UNCHANGED stamp
            \/ job'[t].pc = "present" /\ stamp' = now /\ ~Waiting
         /\ UNCHANGED <<syncerVars, stored, former, now, serverVars, envVars>>
<1>1. t \in Proc /\ job[t] \in Jobs /\ stored \in Password
  BY Constants DEF TypeOK
<1>2. PICK given \in Password \cup {NoPassword}, useStored \in BOOLEAN :
        IF Waiting
          THEN Put(t, Over(t, job[t], "throttled")) /\ UNCHANGED stamp
          ELSE /\ stamp' = now
               /\ Put(t, [Idle EXCEPT !.pc = "present", !.client = t,
                           !.pw = Resolved(AsBytes(given), useStored),
                           !.asked = IF useStored THEN "stored" ELSE
                                     IF given = NoPassword THEN "nothing" ELSE "given"])
  BY DEF BeginTest
<1>3. CASE Waiting
  <2>1. Over(t, job[t], "throttled") \in Jobs /\ Over(t, job[t], "throttled").pc = "answered"
    BY <1>1, OverJob DEF Results
  <2> QED
    BY <1>1, <1>2, <1>3, <2>1, PutJob DEF BeginTest, At
<1>4. CASE ~Waiting
  <2> DEFINE j == [Idle EXCEPT !.pc = "present", !.client = t,
                    !.pw = Resolved(AsBytes(given), useStored),
                    !.asked = IF useStored THEN "stored" ELSE
                              IF given = NoPassword THEN "nothing" ELSE "given"]
  <2>1. Resolved(AsBytes(given), useStored) \in Password \cup {NoPassword, Empty, Wiped}
    BY <1>1 DEF Resolved, AsBytes
  <2>2. j \in Jobs /\ j.pc = "present"
    BY <2>1, IdleJob DEF Jobs, PCs
  <2>3. Put(t, j) /\ stamp' = now
    BY <1>2, <1>4
  <2> HIDE DEF j
  <2> QED
    BY <1>1, <1>4, <2>2, <2>3, PutJob DEF BeginTest, At
<1> QED
  BY <1>3, <1>4

\* A process that gives up: a test refused or without a password.
LEMMA GiveUpJob ==
  ASSUME TypeOK, NEW t \in Test, NoSecret(t) \/ RefuseTest(t)
  PROVE  /\ job' \in [Proc -> Jobs] /\ job'[t].pc = "answered"
         /\ \A q \in Proc \ {t} : job'[q] = job[q]
         /\ UNCHANGED <<syncerVars, stored, former, stamp, now, serverVars, envVars>>
<1>1. t \in Proc /\ job[t] \in Jobs
  BY Constants DEF TypeOK
<1>2. \A r \in Results : Over(t, job[t], r) \in Jobs /\ Over(t, job[t], r).pc = "answered"
  BY <1>1, OverJob
<1>3. PICK r \in Results : Put(t, Over(t, job[t], r))
  BY DEF NoSecret, RefuseTest, Results
<1> QED
  BY <1>1, <1>2, <1>3, PutJob DEF NoSecret, RefuseTest

\* The steps of a process that only touch its job.
LEMMA TypeStep ==
  ASSUME TypeOK, LatchInv, [Next]_vars
  PROVE  TypeOK'
<1> USE Constants DEF syncerVars, serverVars, envVars
<1>n. /\ StickyAuthFails \in Nat \ {0} /\ authFails \in Nat /\ authFails <= StickyAuthFails
      /\ epoch \in Nat /\ MaxEpoch \in Nat /\ epoch <= MaxEpoch
      /\ fails \in Nat /\ foreign \in Nat /\ sticky \in BOOLEAN
      /\ sticky <=> authFails >= StickyAuthFails
      /\ job[Cycle].epoch \in Nat /\ job[Cycle].epoch <= epoch
  <2>1. /\ authFails \in 0..StickyAuthFails /\ epoch \in 0..MaxEpoch /\ fails \in 0..BanAfter
        /\ foreign \in Nat /\ sticky \in BOOLEAN /\ job[Cycle] \in Jobs
    BY DEF TypeOK
  <2>2. job[Cycle].epoch \in 0..MaxEpoch
    BY <2>1 DEF Jobs
  <2> QED
    BY <2>1, <2>2 DEF LatchInv
<1>j. ASSUME job' \in [Proc -> Jobs],
             UNCHANGED <<syncerVars, stored, former, stamp, now, serverVars, envVars>>
      PROVE  TypeOK'
  BY <1>j DEF TypeOK
<1>1. ASSUME NEW p \in Proc, GetSecret(p)
      PROVE  TypeOK'
  BY <1>1, <1>j, GetSecretJob
<1>2. ASSUME NEW p \in Proc, Login(p)
      PROVE  TypeOK'
  <2>1. /\ job' \in [Proc -> Jobs]
        /\ UNCHANGED <<syncerVars, stored, former, stamp, now, envVars>>
        /\ Judge(p, TRUE) \/ Judge(p, FALSE) \/ UNCHANGED serverVars
    BY <1>2, LoginJob
  <2>2. /\ session' \subseteq (0..MaxEpoch) \cup Test /\ accepts' \in Password
        /\ fails' \in 0..BanAfter /\ foreign' \in Nat /\ testRejects' \in Nat
    BY <2>1, JudgeType
  <2> QED
    BY <2>1, <2>2 DEF TypeOK
<1>3. ASSUME NEW p \in Proc, Request(p)
      PROVE  TypeOK'
  <2>1. /\ job' \in [Proc -> Jobs] /\ session' \in {session, session \ {p}}
        /\ UNCHANGED <<syncerVars, stored, former, stamp, now, envVars, accepts, fails, foreign,
                        testRejects>>
    BY <1>3, RequestJob
  <2>2. session' \subseteq (0..MaxEpoch) \cup Test
    BY <2>1 DEF TypeOK
  <2> QED
    BY <2>1, <2>2 DEF TypeOK
<1>4. CASE BeginCycle
  BY <1>4, <1>j, BeginCycleJob
<1>5. CASE LoginNoted
  <2>1. job' \in [Proc -> Jobs]
    BY <1>5, BecomesJob DEF LoginNoted, PCs
  <2> QED
    BY <1>5, <2>1 DEF LoginNoted, TypeOK
<1>6. CASE CycleFails
  <2>1. job' \in [Proc -> Jobs]
    BY <1>6, BecomesJob DEF CycleFails, PCs
  <2>2. authFails < StickyAuthFails /\ authFails \in Nat
    BY <1>6, <1>n DEF CycleFails, At, LatchInv
  <2>3. authFails' \in 0..StickyAuthFails /\ sticky' \in BOOLEAN
    <3>1. CASE Counts(job[Cycle])
      <4>1. authFails' = authFails + 1 /\ sticky' = (sticky \/ Parks(authFails + 1))
        BY <1>6, <3>1 DEF CycleFails
      <4>2. authFails' \in 0..StickyAuthFails
        BY <1>n, <2>2, <4>1
      <4> QED
        BY <4>1, <4>2 DEF Parks
    <3>2. CASE ~Counts(job[Cycle])
      BY <1>6, <1>n, <3>2 DEF CycleFails
    <3> QED
      BY <3>1, <3>2
  <2> QED
    BY <1>6, <2>1, <2>3 DEF CycleFails, TypeOK
<1>7. CASE Degrade \/ CycleCommits
  <2>1. job' \in [Proc -> Jobs]
    BY <1>7, IdleJob, PutJob DEF Degrade, CycleCommits
  <2>2. ok' \in BOOLEAN /\ ver' \in BOOLEAN
    BY <1>7 DEF Degrade, CycleCommits, TypeOK
  <2> QED
    BY <1>7, <2>1, <2>2 DEF Degrade, CycleCommits, TypeOK
<1>8. ASSUME NEW c \in Call, Validate(c)
      PROVE  TypeOK'
  <2>1. job' \in [Proc -> Jobs]
    BY <1>8, BecomesJob DEF Validate, PCs
  <2> QED
    BY <1>8, <1>j, <2>1 DEF Validate
<1>9. ASSUME NEW c \in Call, Register(c)
      PROVE  TypeOK'
  BY <1>9, <1>j, RegisterJob
<1>10. ASSUME NEW t \in Test, BeginTest(t)
       PROVE  TypeOK'
  <2>1. /\ job' \in [Proc -> Jobs] /\ stamp' \in {stamp, now}
        /\ UNCHANGED <<syncerVars, stored, former, now, serverVars, envVars>>
    BY <1>10, BeginTestJob
  <2> QED
    BY <2>1 DEF TypeOK
<1>11. ASSUME NEW t \in Test, NoSecret(t) \/ RefuseTest(t)
       PROVE  TypeOK'
  BY <1>11, <1>j, GiveUpJob
<1>12. CASE WriteSecret
  BY <1>12 DEF WriteSecret, TypeOK
<1>13. CASE Switch
  <2>1. epoch + 1 \in 0..MaxEpoch /\ foreign' \in Nat
    BY <1>13, <1>n DEF Switch, LatchInv
  <2>2. /\ epoch' = epoch + 1 /\ ok' = FALSE /\ ver' = FALSE /\ authFails' = 0 /\ sticky' = FALSE
        /\ former' = {}
        /\ UNCHANGED <<stored, stamp, now, job, session, accepts, fails, testRejects, envVars>>
    BY <1>13 DEF Switch
  <2>3. 0 \in 0..StickyAuthFails
    BY <1>n
  <2> QED
    BY <2>1, <2>2, <2>3 DEF TypeOK
<1>14. CASE Undo
  BY <1>14 DEF Undo, TypeOK
<1>15. CASE Tick
  BY <1>15 DEF Tick, TypeOK
<1>16. CASE EnvironmentStep
  <2>1. /\ session' \subseteq session /\ accepts' \in Password /\ fails' \in {fails, 0}
        /\ foreign' \in {foreign, 0} /\ up' \in BOOLEAN /\ locked' \in BOOLEAN /\ env' \in 0..MaxEnv
    <3>1. CASE Trouble
      <4>1. env' \in 0..MaxEnv
        BY <3>1 DEF Trouble, TypeOK
      <4>2. /\ session' \subseteq session /\ accepts' \in Password /\ fails' \in {fails, 0}
            /\ foreign' \in {foreign, 0}
        BY <3>1 DEF Trouble, TypeOK
      <4>3. up' \in BOOLEAN /\ locked' \in BOOLEAN
        BY <3>1 DEF Trouble, TypeOK
      <4> QED
        BY <4>1, <4>2, <4>3
    <3>2. CASE Relief
      BY <3>2 DEF Relief, TypeOK
    <3> QED
      BY <1>16, <3>1, <3>2 DEF EnvironmentStep
  <2>2. UNCHANGED <<syncerVars, stored, former, stamp, now, job, testRejects>>
    BY <1>16 DEF EnvironmentStep
  <2>3. fails' \in 0..BanAfter /\ foreign' \in Nat
    BY <2>1 DEF TypeOK
  <2> QED
    BY <2>1, <2>2, <2>3 DEF TypeOK
<1>17. CASE UNCHANGED vars
  BY <1>17 DEF vars, TypeOK
<1> QED
  BY <1>1, <1>2, <1>3, <1>4, <1>5, <1>6, <1>7, <1>8, <1>9, <1>10, <1>11, <1>12, <1>13, <1>14,
     <1>15, <1>16, <1>17 DEF Next, CycleStep

LEMMA LatchStep ==
  ASSUME TypeOK, LatchInv, [Next]_vars
  PROVE  LatchInv'
<1> USE Constants DEF syncerVars, serverVars, envVars
<1>n. /\ StickyAuthFails \in Nat \ {0} /\ authFails \in Nat /\ authFails <= StickyAuthFails
      /\ epoch \in Nat /\ MaxEpoch \in Nat /\ epoch <= MaxEpoch
      /\ fails \in Nat /\ foreign \in Nat /\ sticky \in BOOLEAN
      /\ sticky <=> authFails >= StickyAuthFails
      /\ job[Cycle].epoch \in Nat /\ job[Cycle].epoch <= epoch
  <2>1. /\ authFails \in 0..StickyAuthFails /\ epoch \in 0..MaxEpoch /\ fails \in 0..BanAfter
        /\ foreign \in Nat /\ sticky \in BOOLEAN /\ job[Cycle] \in Jobs
    BY DEF TypeOK
  <2>2. job[Cycle].epoch \in 0..MaxEpoch
    BY <2>1 DEF Jobs
  <2> QED
    BY <2>1, <2>2 DEF LatchInv
<1>o. ASSUME UNCHANGED <<syncerVars, former>>, job'[Cycle] = job[Cycle]
      PROVE  LatchInv'
  BY <1>o DEF LatchInv
<1>s. ASSUME UNCHANGED <<syncerVars, former>>, job'[Cycle].epoch \in {job[Cycle].epoch, epoch},
             ~sticky
      PROVE  LatchInv'
  BY <1>s DEF LatchInv, TypeOK
<1>j. job[Cycle] \in Jobs
  BY DEF TypeOK
<1>1. CASE GetSecret(Cycle)
  <2>1. job'[Cycle].epoch = job[Cycle].epoch /\ job[Cycle].pc = "secret" /\ UNCHANGED <<syncerVars, former>>
    BY <1>1, <1>j, GetSecretJob, OverJob DEF Results
  <2> QED
    BY <1>s, <2>1 DEF LatchInv
<1>2. CASE Login(Cycle)
  <2>0. /\ job[Cycle].pc = "present" /\ UNCHANGED <<syncerVars, former>>
        /\ \/ job'[Cycle] = LoggedIn(Cycle)
           \/ job'[Cycle] = Over(Cycle, job[Cycle], Verdict(Cycle)) /\ Verdict(Cycle) \in Results
           \/ job'[Cycle] = Over(Cycle, job[Cycle], "unreachable")
    BY <1>2, LoginJob DEF Results
  <2>1. job'[Cycle].epoch = job[Cycle].epoch /\ job[Cycle].pc = "present" /\ UNCHANGED <<syncerVars, former>>
    BY <1>j, <2>0, OverJob, LoggedInJob DEF Results
  <2> QED
    BY <1>s, <2>1 DEF LatchInv
<1>3. CASE Request(Cycle)
  <2>1. job'[Cycle].epoch = job[Cycle].epoch /\ job[Cycle].pc = "request" /\ UNCHANGED <<syncerVars, former>>
    BY <1>3, RequestJob DEF Goes
  <2> QED
    BY <1>s, <2>1 DEF LatchInv
<1>4. CASE BeginCycle
  BY <1>4, <1>s, BeginCycleJob
<1>5. CASE LoginNoted
  <2>1. job'[Cycle].epoch = job[Cycle].epoch
    BY <1>5, BecomesJob DEF LoginNoted, PCs
  <2>2. ~sticky
    BY <1>5 DEF LoginNoted, At, LatchInv
  <2>3. authFails' < StickyAuthFails
    BY <1>5, <1>n, <2>2 DEF LoginNoted
  <2> QED
    BY <1>5, <1>n, <2>1, <2>2, <2>3 DEF LoginNoted, LatchInv
<1>6. CASE CycleFails
  <2>1. job'[Cycle].epoch = job[Cycle].epoch /\ job'[Cycle].pc = "degrade"
    BY <1>6, BecomesJob DEF CycleFails, PCs
  <2>2. ~sticky /\ authFails < StickyAuthFails
    BY <1>6, <1>n DEF CycleFails, At, LatchInv
  <2> QED
    BY <1>6, <1>n, <2>1, <2>2 DEF CycleFails, LatchInv, Parks
<1>7. CASE Degrade \/ CycleCommits
  <2>1. job'[Cycle] = Idle
    BY <1>7, IdleJob, PutJob DEF Degrade, CycleCommits
  <2> QED
    BY <1>7, <2>1 DEF Degrade, CycleCommits, LatchInv, Idle, TypeOK
<1>8. ASSUME NEW p \in Proc, p # Cycle, GetSecret(p) \/ Login(p) \/ Request(p)
      PROVE  LatchInv'
  BY <1>8, <1>o, GetSecretJob, LoginJob, RequestJob
<1>9. ASSUME NEW c \in Call, Validate(c) \/ Register(c)
      PROVE  LatchInv'
  BY <1>9, <1>o, BecomesJob, RegisterJob DEF Validate, PCs
<1>10. ASSUME NEW t \in Test, BeginTest(t) \/ NoSecret(t) \/ RefuseTest(t)
       PROVE  LatchInv'
  BY <1>10, <1>o, BeginTestJob, GiveUpJob
<1>11. CASE WriteSecret
  BY <1>11 DEF WriteSecret, LatchInv
<1>12. CASE Switch
  BY <1>12, <1>n DEF Switch, LatchInv
<1>13. CASE Undo
  BY <1>13 DEF Undo, LatchInv
<1>14. CASE Tick \/ EnvironmentStep \/ UNCHANGED vars
  BY <1>14, <1>o DEF Tick, EnvironmentStep, vars
<1> QED
  BY <1>1, <1>2, <1>3, <1>4, <1>5, <1>6, <1>7, <1>8, <1>9, <1>10, <1>11, <1>12, <1>13, <1>14
     DEF Next, CycleStep

-----------------------------------------------------------------------------
(* The calls.                                                              *)

\* What CallsInv says of one call.
CallOK(j) ==
  /\ j.pc \notin {"loggedin", "degrade"} /\ ~j.more
  /\ j.pc # "answered" => j.runs = 0
  /\ j.runs <= 1
  /\ j.pc = "answered" =>
       /\ j.res = "ok" => j.runs = 1
       /\ j.res \in {"bad", "banned", "nosecret", "unauthorized", "refused"} => j.runs = 0
TestOK(j) == j.pc \in {"idle", "present", "request", "answered"}

LEMMA CallsAre ==
  CallsInv <=> (\A c \in Call : CallOK(job[c])) /\ (\A t \in Test : TestOK(job[t]))
BY DEF CallsInv, OutcomeIsTrue, CallOK, TestOK, At

LEMMA CallsStep ==
  ASSUME TypeOK, CallsInv, [Next]_vars
  PROVE  CallsInv'
<1> USE Constants DEF syncerVars, serverVars, envVars
<1>i. (\A c \in Call : CallOK(job[c])) /\ (\A t \in Test : TestOK(job[t]))
  BY CallsAre
<1>n. CallsInv' <=> (\A c \in Call : CallOK(job'[c])) /\ (\A t \in Test : TestOK(job'[t]))
  BY DEF CallsInv, OutcomeIsTrue, CallOK, TestOK, At
<1>c. ASSUME NEW c \in Call, CallOK(job'[c]), \A q \in Proc \ {c} : job'[q] = job[q]
      PROVE  CallsInv'
  BY <1>c, <1>i, <1>n
<1>t. ASSUME NEW t \in Test, TestOK(job'[t]), \A q \in Proc \ {t} : job'[q] = job[q]
      PROVE  CallsInv'
  BY <1>t, <1>i, <1>n
<1>o. ASSUME \A q \in Proc \ {Cycle} : job'[q] = job[q]
      PROVE  CallsInv'
  BY <1>o, <1>i, <1>n
<1>j. \A p \in Proc : job[p] \in Jobs
  BY DEF TypeOK
<1>r. \A c \in Call : job[c].runs \in Nat
  BY <1>j DEF Jobs
<1>1. ASSUME NEW c \in Call, GetSecret(c)
      PROVE  CallsInv'
  <2>1. /\ job[c].pc = "secret" /\ \A q \in Proc \ {c} : job'[q] = job[q]
        /\ \/ job'[c].pc = "present" /\ job'[c].more = job[c].more /\ job'[c].runs = job[c].runs
           \/ job'[c] = Over(c, job[c], "nosecret")
    BY <1>1, GetSecretJob
  <2>2. ~job[c].more /\ job[c].runs = 0
    BY <1>i, <2>1 DEF CallOK
  <2>3. CallOK(job'[c])
    BY <1>j, <2>1, <2>2, OverJob DEF CallOK, Results
  <2> QED
    BY <1>c, <2>1, <2>3
<1>2. ASSUME NEW c \in Call, Login(c)
      PROVE  CallsInv'
  <2>1. /\ job[c].pc = "present" /\ \A q \in Proc \ {c} : job'[q] = job[q]
        /\ \/ job'[c] = LoggedIn(c)
           \/ job'[c] = Over(c, job[c], Verdict(c)) /\ Verdict(c) \in {"bad", "banned"}
           \/ job'[c] = Over(c, job[c], "unreachable")
    BY <1>2, LoginJob
  <2>2. ~job[c].more /\ job[c].runs = 0
    BY <1>i, <2>1 DEF CallOK
  <2>3. CASE job'[c] = LoggedIn(c)
    BY <1>c, <2>1, <2>2, <2>3, LoggedInJob DEF CallOK
  <2>4. CASE \E r \in {"bad", "banned", "unreachable"} : job'[c] = Over(c, job[c], r)
    <3>1. job'[c].pc = "answered" /\ ~job'[c].more /\ job'[c].runs = 0 /\ job'[c].res # "ok"
      BY <1>j, <2>2, <2>4, OverJob DEF Results
    <3> QED
      BY <1>c, <2>1, <3>1 DEF CallOK
  <2> QED
    BY <2>1, <2>3, <2>4
<1>3. ASSUME NEW c \in Call, Request(c)
      PROVE  CallsInv'
  <2>1. /\ job[c].pc = "request" /\ \A q \in Proc \ {c} : job'[q] = job[q]
    BY <1>3, RequestJob
  <2>2. PICK r \in Results, done \in {0, 1} :
          /\ Goes(c, job'[c], r, done)
          /\ r = "ok" => done = 1
          /\ r = "unauthorized" => done = 0
          /\ r \notin {"bad", "banned", "nosecret", "refused"}
    BY <1>3, RequestJob
  <2>3. ~job[c].more /\ job[c].runs = 0
    BY <1>i, <2>1 DEF CallOK
  <2>4. CallOK(job'[c])
    BY <2>2, <2>3 DEF Goes, CallOK
  <2> QED
    BY <1>c, <2>1, <2>4
<1>4. ASSUME NEW c \in Call, Validate(c)
      PROVE  CallsInv'
  <2>1. CallOK(job'[c]) /\ \A q \in Proc \ {c} : job'[q] = job[q]
    BY <1>4, <1>i, BecomesJob DEF Validate, At, PCs, CallOK
  <2> QED
    BY <1>c, <2>1
<1>5. ASSUME NEW c \in Call, Register(c)
      PROVE  CallsInv'
  <2>1. /\ job[c].pc = "valid" /\ \A q \in Proc \ {c} : job'[q] = job[q]
        /\ \/ job'[c] = Over(c, job[c], "refused")
           \/ job'[c].pc = "request" /\ job'[c].more = job[c].more /\ job'[c].runs = job[c].runs
    BY <1>5, RegisterJob
  <2>2. ~job[c].more /\ job[c].runs = 0
    BY <1>i, <2>1 DEF CallOK
  <2>3. CallOK(job'[c])
    BY <1>j, <2>1, <2>2, OverJob DEF CallOK, Results
  <2> QED
    BY <1>c, <2>1, <2>3
<1>6. ASSUME NEW t \in Test, BeginTest(t) \/ NoSecret(t) \/ RefuseTest(t)
      PROVE  CallsInv'
  <2>1. TestOK(job'[t]) /\ \A q \in Proc \ {t} : job'[q] = job[q]
    BY <1>6, BeginTestJob, GiveUpJob DEF TestOK
  <2> QED
    BY <1>t, <2>1
<1>7. ASSUME NEW t \in Test, Login(t)
      PROVE  CallsInv'
  <2>1. /\ \A q \in Proc \ {t} : job'[q] = job[q]
        /\ \/ job'[t] = LoggedIn(t)
           \/ \E r \in {"bad", "banned", "unreachable"} : job'[t] = Over(t, job[t], r)
    BY <1>7, LoginJob
  <2>2. LoggedIn(t).pc = "request"
    BY LoggedInJob
  <2>3. \A r \in {"bad", "banned", "unreachable"} : Over(t, job[t], r).pc = "answered"
    BY <1>j, OverJob DEF Results
  <2>4. TestOK(job'[t])
    BY <2>1, <2>2, <2>3 DEF TestOK
  <2> QED
    BY <1>t, <2>1, <2>4
<1>8. ASSUME NEW t \in Test, Request(t)
      PROVE  CallsInv'
  <2>1. /\ job[t].pc = "request" /\ \A q \in Proc \ {t} : job'[q] = job[q]
        /\ \E r \in Results, done \in {0, 1} : Goes(t, job'[t], r, done)
    BY <1>8, RequestJob
  <2>2. TestOK(job'[t])
    BY <2>1 DEF Goes, TestOK
  <2> QED
    BY <1>t, <2>1, <2>2
<1>9. CASE CycleStep
  <2>1. \A q \in Proc \ {Cycle} : job'[q] = job[q]
    BY <1>9, BeginCycleJob, GetSecretJob, LoginJob, RequestJob
       DEF CycleStep, LoginNoted, CycleFails, Degrade, CycleCommits, Becomes, Put, TypeOK
  <2> QED
    BY <1>o, <2>1
<1>10. CASE UNCHANGED job
  BY <1>10, <1>i, <1>n
<1> QED
  BY <1>1, <1>2, <1>3, <1>4, <1>5, <1>6, <1>7, <1>8, <1>9, <1>10
     DEF Next, WriteSecret, Switch, Undo, Tick, EnvironmentStep, vars

-----------------------------------------------------------------------------
(* The tests.                                                              *)

LEMMA PaceStep ==
  ASSUME TypeOK, CallsInv, PaceInv, TypeOK', [Next]_vars
  PROVE  PaceInv'
<1> USE Constants DEF syncerVars, serverVars, envVars
<1>i. /\ IsFiniteSet(Active) /\ Cardinality(Active) \in Nat
      /\ testRejects + Cardinality(Active) <= 1 + stamp \div Pace /\ stamp <= now
  BY FS_CardinalityType DEF PaceInv
<1>n. /\ stamp \in Int /\ now \in Nat /\ testRejects \in Nat /\ now' \in Nat /\ Pace \in Nat \ {0}
      /\ testRejects' \in Nat
  <2>1. /\ stamp \in {-Pace} \cup 0..MaxNow /\ now \in 0..MaxNow /\ testRejects \in Nat
        /\ now' \in 0..MaxNow /\ testRejects' \in Nat
    BY DEF TypeOK
  <2> QED
    BY <2>1
<1>d. stamp \div Pace \in Int /\ now \div Pace \in Int
  BY <1>n
\* Nothing happens to the tests.
<1>o. ASSUME \A t \in Test : job'[t] = job[t], UNCHANGED <<stamp, testRejects>>, now' >= now
      PROVE  PaceInv'
  <2>1. Active' = Active
    BY <1>o DEF Active
  <2> QED
    BY <1>i, <1>n, <1>o, <2>1 DEF PaceInv
\* A test takes a step and may end with it.
<1>t. ASSUME NEW t \in Test, \A q \in Proc \ {t} : job'[q] = job[q], UNCHANGED <<stamp, now>>,
             \/ job'[t].pc \in {"idle", "answered"} /\ testRejects' = testRejects
             \/ job'[t].pc \in {"idle", "answered"} /\ testRejects' = testRejects + 1 /\ t \in Active
             \/ job[t].pc \in {"present", "request"} /\ testRejects' = testRejects
                  /\ job'[t].pc \in {"present", "request"}
      PROVE  PaceInv'
  <2>1. CASE job'[t].pc \in {"idle", "answered"}
    <3>1. Active' = Active \ {t}
      BY <1>t, <2>1 DEF Active
    <3>2. /\ IsFiniteSet(Active \ {t})
          /\ Cardinality(Active \ {t}) = IF t \in Active THEN Cardinality(Active) - 1 ELSE Cardinality(Active)
      BY <1>i, FS_RemoveElement
    <3> QED
      BY <1>i, <1>n, <1>d, <1>t, <2>1, <3>1, <3>2 DEF PaceInv
  <2>2. CASE job'[t].pc \in {"present", "request"}
    <3>1. Active' = Active
      BY <1>t, <2>2 DEF Active
    <3> QED
      BY <1>i, <1>n, <1>t, <2>2, <3>1 DEF PaceInv
  <2> QED
    BY <1>t, <2>1, <2>2
<1>j. \A p \in Proc : job[p] \in Jobs
  BY DEF TypeOK
<1>1. ASSUME NEW t \in Test, BeginTest(t)
      PROVE  PaceInv'
  <2>1. /\ job[t].pc = "idle" /\ \A q \in Proc \ {t} : job'[q] = job[q]
        /\ UNCHANGED <<now, testRejects>>
        /\ \/ job'[t].pc = "answered" /\ UNCHANGED stamp
           \/ job'[t].pc = "present" /\ stamp' = now /\ ~Waiting
    BY <1>1, BeginTestJob
  <2>2. CASE job'[t].pc = "present" /\ stamp' = now /\ ~Waiting
    <3>1. Active' = Active \cup {t} /\ t \notin Active
      BY <2>1, <2>2 DEF Active
    <3>2. IsFiniteSet(Active') /\ Cardinality(Active') = Cardinality(Active) + 1
      BY <1>i, <3>1, FS_AddElement
    <3>3. now >= stamp + Pace
      BY <1>n, <2>2 DEF Waiting
    <3>4. now \div Pace >= 1 + stamp \div Pace
      BY <1>n, <3>3, DivStep
    <3> QED
      BY <1>i, <1>n, <1>d, <2>1, <2>2, <3>2, <3>4 DEF PaceInv
  <2> QED
    BY <1>t, <2>1, <2>2
<1>2. ASSUME NEW t \in Test, NoSecret(t) \/ RefuseTest(t)
      PROVE  PaceInv'
  BY <1>2, <1>t, GiveUpJob
<1>3. ASSUME NEW t \in Test, Login(t)
      PROVE  PaceInv'
  <2>1. /\ job[t].pc = "present" /\ \A q \in Proc \ {t} : job'[q] = job[q]
        /\ UNCHANGED <<stamp, now>>
        /\ \/ Judge(t, TRUE) /\ job[t].pw = accepts /\ fails < BanAfter /\ job'[t] = LoggedIn(t)
           \/ \E r \in {"bad", "banned", "unreachable"} : job'[t] = Over(t, job[t], r)
        /\ Judge(t, TRUE) \/ Judge(t, FALSE) \/ UNCHANGED serverVars
    BY <1>3, LoginJob
  <2>2. CASE Judge(t, TRUE) /\ job[t].pw = accepts /\ fails < BanAfter /\ job'[t] = LoggedIn(t)
    <3>1. testRejects' = testRejects
      BY <2>2 DEF Judge
    <3>2. job'[t].pc = "request"
      BY <2>2, LoggedInJob
    <3> QED
      BY <1>t, <2>1, <3>1, <3>2
  <2>3. CASE \E r \in {"bad", "banned", "unreachable"} : job'[t] = Over(t, job[t], r)
    <3>1. job'[t].pc = "answered"
      BY <1>j, <2>3, OverJob DEF Results
    <3>2. testRejects' \in {testRejects, testRejects + 1}
      BY <2>1 DEF Judge
    <3>3. t \in Active
      BY <2>1 DEF Active
    <3> QED
      BY <1>t, <2>1, <3>1, <3>2, <3>3
  <2> QED
    BY <2>1, <2>2, <2>3
<1>4. ASSUME NEW t \in Test, Request(t)
      PROVE  PaceInv'
  <2>1. /\ job[t].pc = "request" /\ \A q \in Proc \ {t} : job'[q] = job[q]
        /\ \E r \in Results, done \in {0, 1} : Goes(t, job'[t], r, done)
        /\ UNCHANGED <<stamp, now, testRejects>>
    BY <1>4, RequestJob
  <2>2. job'[t].pc \in {"request", "present", "answered"}
    BY <2>1 DEF Goes
  <2> QED
    BY <1>t, <2>1, <2>2
<1>5. ASSUME NEW p \in Proc, p \notin Test, Login(p)
      PROVE  PaceInv'
  <2>1. /\ \A q \in Proc \ {p} : job'[q] = job[q]
        /\ UNCHANGED <<stamp, now>>
        /\ Judge(p, TRUE) \/ Judge(p, FALSE) \/ UNCHANGED serverVars
    BY <1>5, LoginJob
  <2>2. testRejects' = testRejects
    BY <1>5, <2>1 DEF Judge
  <2>3. (\A t \in Test : job'[t] = job[t]) /\ now' >= now
    BY <1>5, <1>n, <2>1
  <2> QED
    BY <1>o, <2>1, <2>2, <2>3
<1>6. ASSUME NEW p \in Proc, p \notin Test, GetSecret(p) \/ Request(p)
      PROVE  PaceInv'
  <2>1. /\ \A q \in Proc \ {p} : job'[q] = job[q]
        /\ UNCHANGED <<stamp, now, testRejects>>
    BY <1>6, GetSecretJob, RequestJob
  <2> QED
    BY <1>6, <1>n, <1>o, <2>1
<1>7. ASSUME NEW c \in Call, Validate(c) \/ Register(c)
      PROVE  PaceInv'
  <2>1. /\ \A q \in Proc \ {c} : job'[q] = job[q]
        /\ UNCHANGED <<stamp, now, testRejects>>
    BY <1>7, BecomesJob, RegisterJob DEF Validate, PCs
  <2> QED
    BY <1>7, <1>n, <1>o, <2>1
<1>8. CASE BeginCycle \/ LoginNoted \/ CycleFails \/ Degrade \/ CycleCommits
  <2>1. /\ \A q \in Proc \ {Cycle} : job'[q] = job[q]
        /\ UNCHANGED <<stamp, now, testRejects>>
    BY <1>8, BeginCycleJob DEF LoginNoted, CycleFails, Degrade, CycleCommits, Becomes, Put, TypeOK
  <2> QED
    BY <1>n, <1>o, <2>1
<1>9. CASE WriteSecret \/ Switch \/ Undo \/ Tick \/ EnvironmentStep \/ UNCHANGED vars
  <2>1. UNCHANGED <<job, stamp, testRejects>> /\ now' >= now
    BY <1>9, <1>n DEF WriteSecret, Switch, Undo, Tick, EnvironmentStep, vars
  <2> QED
    BY <1>o, <2>1
<1> QED
  BY <1>1, <1>2, <1>3, <1>4, <1>5, <1>6, <1>7, <1>8, <1>9 DEF Next, CycleStep

-----------------------------------------------------------------------------
(* The budget.                                                             *)

\* The server counts a login against the cycle only where Own says so; one
\* that it accepts ends the count, and opens at most the session of the client.
LEMMA JudgeShare ==
  ASSUME TypeOK, NEW p \in Proc
  PROVE  /\ Judge(p, TRUE) =>
              \/ Share' = 0
              \/ session' = session /\ Share' = Share
              \/ /\ Own(p) /\ fails # BanAfter /\ job[p].pw # accepts
                 /\ session' = session /\ Share' = Share + 1
         /\ Judge(p, FALSE) \/ UNCHANGED serverVars =>
              Share' = 0 \/ (session' = session /\ Share' = Share)
<1>1. /\ fails \in Int /\ foreign \in Int /\ BanAfter \in Nat /\ fails <= BanAfter
  BY Constants DEF TypeOK
<1>2. CASE UNCHANGED serverVars
  BY <1>1, <1>2 DEF serverVars, Share
<1>3. ASSUME fails' = fails + 1
      PROVE  /\ foreign' = foreign + 1 => Share' = Share
             /\ foreign' = foreign => Share' = Share + 1
  BY <1>1, <1>3 DEF Share
<1>4. ASSUME fails' = 0, foreign' = 0
      PROVE  Share' = 0
  BY <1>4 DEF Share
<1>5. fails < BanAfter => fails # BanAfter
  BY <1>1
<1>6. UNCHANGED serverVars => session' = session /\ Share' = Share
  BY DEF serverVars, Share
<1>7. ASSUME Judge(p, TRUE)
      PROVE  \/ Share' = 0
             \/ session' = session /\ Share' = Share
             \/ /\ Own(p) /\ fails # BanAfter /\ job[p].pw # accepts
                /\ session' = session /\ Share' = Share + 1
  <2>1. CASE /\ fails < BanAfter /\ job[p].pw # accepts /\ fails' = fails + 1 /\ session' = session
             /\ foreign' = IF Own(p) /\ TRUE THEN foreign ELSE foreign + 1
    <3>1. CASE Own(p)
      BY <1>3, <1>5, <2>1, <3>1
    <3>2. CASE ~Own(p)
      BY <1>3, <2>1, <3>2
    <3> QED
      BY <3>1, <3>2
  <2> QED
    BY <1>4, <1>6, <1>7, <2>1 DEF Judge
<1>8. ASSUME Judge(p, FALSE)
      PROVE  Share' = 0 \/ (session' = session /\ Share' = Share)
  <2>1. CASE /\ fails' = fails + 1 /\ session' = session
             /\ foreign' = IF Own(p) /\ FALSE THEN foreign ELSE foreign + 1
    BY <1>3, <2>1
  <2>2. CASE UNCHANGED serverVars
    BY <1>6, <2>2
  <2>3. CASE fails' = 0 /\ foreign' = 0
    BY <1>4, <2>3
  <2> QED
    BY <1>8, <2>1, <2>2, <2>3 DEF Judge
<1> QED
  BY <1>6, <1>7, <1>8

LEMMA BudgetStep ==
  ASSUME TypeOK, LatchInv, BudgetInv, TypeOK', [Next]_vars
  PROVE  BudgetInv'
<1> USE Constants DEF syncerVars, serverVars, envVars
<1>n. /\ authFails \in Nat /\ authFails' \in Nat /\ Share \in Int /\ Share' \in Int
      /\ epoch \in Nat /\ fails \in Nat /\ foreign \in Nat /\ fails' \in Nat /\ foreign' \in Nat
  <2>1. /\ authFails \in 0..StickyAuthFails /\ epoch \in 0..MaxEpoch /\ fails \in 0..BanAfter
        /\ foreign \in Nat /\ authFails' \in 0..StickyAuthFails /\ fails' \in 0..BanAfter
        /\ foreign' \in Nat
    BY DEF TypeOK
  <2> QED
    BY <2>1 DEF Share
<1>j. job[Cycle] \in Jobs
  BY DEF TypeOK
\* The cycle and the epoch stay; the share does not grow, or begins again.
<1>o. ASSUME job'[Cycle] = job[Cycle], UNCHANGED <<epoch, authFails>>,
             \/ Share' <= 0
             \/ Share' <= Share /\ session' \subseteq session
      PROVE  BudgetInv'
  BY <1>o, <1>n DEF BudgetInv, Pending, Under, Mine, Extra
\* The cycle of another epoch, before and after.
<1>f. ASSUME ~Mine, ~Mine', UNCHANGED <<epoch, authFails>>,
             \/ Share' <= 0
             \/ Share' <= Share /\ session' \subseteq session
      PROVE  BudgetInv'
  BY <1>f, <1>n DEF BudgetInv, Pending, Under
<1>1. CASE GetSecret(Cycle)
  <2>1. /\ job[Cycle].pc = "secret" /\ UNCHANGED <<syncerVars, serverVars>>
        /\ \/ /\ job'[Cycle].pc = "present" /\ job'[Cycle].epoch = job[Cycle].epoch
              /\ job'[Cycle].client = job[Cycle].client /\ job'[Cycle].req = job[Cycle].req
           \/ job'[Cycle] = Over(Cycle, job[Cycle], "nosecret")
    BY <1>1, GetSecretJob
  <2>2. /\ job'[Cycle].epoch = job[Cycle].epoch /\ job'[Cycle].req = job[Cycle].req
        /\ \/ job'[Cycle].pc = "present" /\ job'[Cycle].client = job[Cycle].client
           \/ job'[Cycle].pc = "answered" /\ job'[Cycle].res = "nosecret"
    BY <1>j, <2>1, OverJob DEF Results
  <2>3. Share' = Share
    BY <2>1 DEF Share
  <2> QED
    BY <1>n, <2>1, <2>2, <2>3 DEF BudgetInv, Pending, Under, Mine, Extra
<1>2. CASE Login(Cycle)
  <2>1. /\ job[Cycle].pc = "present" /\ UNCHANGED syncerVars
        /\ \/ up /\ Judge(Cycle, TRUE) /\ job[Cycle].pw = accepts /\ fails < BanAfter /\ job'[Cycle] = LoggedIn(Cycle)
           \/ /\ up /\ Judge(Cycle, TRUE) /\ ~(job[Cycle].pw = accepts /\ fails < BanAfter)
              /\ job'[Cycle] = Over(Cycle, job[Cycle], Verdict(Cycle)) /\ Verdict(Cycle) \in {"bad", "banned"}
              /\ Verdict(Cycle) = "bad" <=> fails # BanAfter
           \/ /\ Judge(Cycle, FALSE) \/ UNCHANGED serverVars
              /\ job'[Cycle] = Over(Cycle, job[Cycle], "unreachable")
    BY <1>2, LoginJob
  <2>2. CASE Judge(Cycle, TRUE) /\ job[Cycle].pw = accepts /\ fails < BanAfter /\ job'[Cycle] = LoggedIn(Cycle)
    <3>1. /\ job'[Cycle].epoch = job[Cycle].epoch /\ job'[Cycle].client = job[Cycle].client
          /\ job'[Cycle].pc \in {"request", "loggedin"}
      BY <2>2, LoggedInJob
    <3>2. fails' = 0 /\ foreign' = 0
      BY <2>2, <1>n DEF Judge
    <3>3. Share' = 0
      BY <3>2 DEF Share
    <3> QED
      BY <1>n, <2>1, <3>1, <3>2, <3>3 DEF BudgetInv, Pending, Under, Mine, Extra
  <2>3. ASSUME NEW r \in {"bad", "banned"}, Judge(Cycle, TRUE), r = "bad" <=> fails # BanAfter,
               job'[Cycle] = Over(Cycle, job[Cycle], r)
        PROVE  BudgetInv'
    <3>1. /\ job'[Cycle].epoch = job[Cycle].epoch /\ job'[Cycle].req = job[Cycle].req
          /\ job'[Cycle].pc = "answered" /\ job'[Cycle].res = r
      BY <1>j, <2>3, OverJob DEF Results
    <3>2. \/ Share' = 0
          \/ session' = session /\ Share' = Share
          \/ Mine /\ r = "bad" /\ session' = session /\ Share' = Share + 1
      BY <2>3, JudgeShare DEF Own, Mine
    <3> QED
      BY <1>n, <2>1, <3>1, <3>2 DEF BudgetInv, Pending, Under, Mine, Extra
  <2>4. CASE /\ Judge(Cycle, FALSE) \/ UNCHANGED serverVars
             /\ job'[Cycle] = Over(Cycle, job[Cycle], "unreachable")
    <3>1. /\ job'[Cycle].epoch = job[Cycle].epoch
          /\ job'[Cycle].pc = "answered" /\ job'[Cycle].res = "unreachable"
      BY <1>j, <2>4, OverJob DEF Results
    <3>2. Share' = 0 \/ (session' = session /\ Share' = Share)
      BY <2>4, JudgeShare
    <3> QED
      BY <1>n, <2>1, <3>1, <3>2 DEF BudgetInv, Pending, Under, Mine, Extra
  <2> QED
    BY <2>1, <2>2, <2>3, <2>4
<1>3. CASE Request(Cycle)
  <2>1. /\ job[Cycle].pc = "request" /\ session' \subseteq session
        /\ UNCHANGED <<syncerVars, fails, foreign>>
    BY <1>3, RequestJob
  <2>2. PICK r \in Results, done \in {0, 1} :
          /\ Goes(Cycle, job'[Cycle], r, done)
          /\ r = "ok" => job[Cycle].client \in session
          /\ r = "unauthorized" => job[Cycle].client \notin session
          /\ r # "bad"
    BY <1>3, RequestJob
  <2>3. \/ /\ job[Cycle].client \in session /\ job'[Cycle].pc = "request"
           /\ job'[Cycle].epoch = job[Cycle].epoch /\ job'[Cycle].client = epoch
        \/ /\ job[Cycle].client \notin session /\ job'[Cycle].pc = "secret"
           /\ job'[Cycle].epoch = job[Cycle].epoch /\ job'[Cycle].client = job[Cycle].client
           /\ job'[Cycle].req = job[Cycle].req
        \/ /\ job'[Cycle].pc = "answered" /\ job'[Cycle].epoch = job[Cycle].epoch
           /\ job'[Cycle].res # "bad"
    BY <2>1, <2>2 DEF Goes
  <2>4. Share' = Share
    BY <2>1 DEF Share
  <2> QED
    BY <1>n, <2>1, <2>3, <2>4 DEF BudgetInv, Pending, Under, Mine, Extra
<1>4. CASE BeginCycle
  <2>1. /\ job[Cycle].pc = "idle" /\ job'[Cycle].pc \in {"request", "secret"}
        /\ job'[Cycle].client = epoch /\ job'[Cycle].epoch = epoch /\ job'[Cycle].req = "main"
        /\ UNCHANGED <<syncerVars, serverVars>>
    BY <1>4, BeginCycleJob
  <2>2. Share' = Share
    BY <2>1 DEF Share
  <2> QED
    BY <1>n, <2>1, <2>2 DEF BudgetInv, Pending, Under, Mine, Extra
<1>5. CASE LoginNoted
  <2>1. /\ job'[Cycle].pc = "request" /\ job'[Cycle].epoch = job[Cycle].epoch
        /\ job'[Cycle].client = job[Cycle].client /\ job'[Cycle].req = job[Cycle].req
    BY <1>5, BecomesJob DEF LoginNoted, PCs
  <2>2. /\ job[Cycle].pc = "loggedin" /\ epoch' = epoch /\ session' = session
        /\ authFails' = IF Mine THEN 0 ELSE authFails
    BY <1>5 DEF LoginNoted, At, Mine
  <2>3. Share' = Share
    BY <1>5 DEF LoginNoted, Share
  <2> QED
    BY <1>n, <2>1, <2>2, <2>3 DEF BudgetInv, Pending, Under, Mine, Extra
<1>6. CASE CycleFails
  <2>1. job'[Cycle].pc = "degrade"
    BY <1>6, BecomesJob DEF CycleFails, PCs
  <2>2. /\ job[Cycle].pc = "answered" /\ job[Cycle].req # "extra"
        /\ epoch' = epoch /\ session' = session
        /\ authFails' = IF Counts(job[Cycle]) THEN authFails + 1 ELSE authFails
    BY <1>6 DEF CycleFails, At, Synced
  <2>3. Share' = Share
    BY <1>6 DEF CycleFails, Share
  <2> QED
    BY <1>n, <2>1, <2>2, <2>3 DEF BudgetInv, Pending, Under, Mine, Extra, Counts
<1>7. CASE Degrade \/ CycleCommits
  <2>1. job'[Cycle] = Idle /\ Idle.pc = "idle"
    BY <1>7, IdleJob, PutJob DEF Degrade, CycleCommits, Idle
  <2>2. /\ \/ job[Cycle].pc = "degrade"
           \/ job[Cycle].pc = "answered" /\ (job[Cycle].res = "ok" \/ job[Cycle].req = "extra")
        /\ UNCHANGED <<epoch, session, authFails, fails, foreign>>
    BY <1>7 DEF Degrade, CycleCommits, At, Synced
  <2>3. Share' = Share
    BY <2>2 DEF Share
  <2> QED
    BY <1>n, <2>1, <2>2, <2>3 DEF BudgetInv, Pending, Under, Mine, Extra
<1>8. ASSUME NEW p \in Proc, p # Cycle, GetSecret(p) \/ Request(p)
      PROVE  BudgetInv'
  <2>1. /\ job'[Cycle] = job[Cycle] /\ session' \subseteq session
        /\ UNCHANGED <<syncerVars, fails, foreign>>
    BY <1>8, GetSecretJob, RequestJob
  <2>2. Share' = Share
    BY <2>1 DEF Share
  <2> QED
    BY <1>n, <1>o, <2>1, <2>2
<1>9. ASSUME NEW p \in Proc, p # Cycle, Login(p)
      PROVE  BudgetInv'
  <2>1. /\ job'[Cycle] = job[Cycle] /\ UNCHANGED syncerVars
        /\ Judge(p, TRUE) \/ Judge(p, FALSE) \/ UNCHANGED serverVars
    BY <1>9, LoginJob
  <2>2. Share' = 0 \/ (session' = session /\ Share' = Share)
    <3>1. ~Own(p)
      BY <1>9 DEF Own
    <3>2. CASE Judge(p, TRUE)
      BY <3>1, <3>2, JudgeShare
    <3>3. CASE Judge(p, FALSE) \/ UNCHANGED serverVars
      BY <3>3, JudgeShare
    <3> QED
      BY <2>1, <3>2, <3>3
  <2> QED
    BY <1>n, <1>o, <2>1, <2>2
<1>s. ASSUME job'[Cycle] = job[Cycle], UNCHANGED <<syncerVars, serverVars>>
      PROVE  BudgetInv'
  <2>1. Share' = Share
    BY <1>s DEF Share
  <2> QED
    BY <1>n, <1>o, <1>s, <2>1
<1>10. ASSUME NEW c \in Call, Validate(c) \/ Register(c)
       PROVE  BudgetInv'
  BY <1>10, <1>s, BecomesJob, RegisterJob DEF Validate, PCs
<1>14. ASSUME NEW t \in Test, BeginTest(t) \/ NoSecret(t) \/ RefuseTest(t)
       PROVE  BudgetInv'
  BY <1>14, <1>s, BeginTestJob, GiveUpJob
<1>11. CASE Switch
  <2>1. /\ job' = job /\ epoch' = epoch + 1 /\ authFails' = 0 /\ job[Cycle].epoch <= epoch
        /\ job[Cycle].epoch \in Nat
    BY <1>11, <1>j DEF Switch, LatchInv, Jobs
  <2>2. Share' = 0
    BY <1>11, <1>n DEF Switch, Share
  <2>3. ~Mine'
    BY <1>n, <2>1 DEF Mine
  <2> QED
    BY <1>n, <2>1, <2>2, <2>3 DEF BudgetInv, Pending, Under
<1>12. CASE EnvironmentStep
  <2>1. UNCHANGED <<syncerVars, job>>
    BY <1>12 DEF EnvironmentStep
  <2>2. CASE Trouble
    <3>1. session' \subseteq session
      BY <2>2 DEF Trouble
    <3>2. (fails' = fails /\ foreign' = foreign) \/ (fails' = 0 /\ foreign' = 0)
      BY <2>2 DEF Trouble
    <3>3. Share' = Share \/ Share' = 0
      BY <3>2 DEF Share
    <3> QED
      BY <1>n, <1>o, <2>1, <3>1, <3>3
  <2>3. CASE Relief
    <3>1. /\ session' = session
          /\ (fails' = fails /\ foreign' = foreign) \/ (fails' = 0 /\ foreign' = 0)
      BY <2>3 DEF Relief
    <3>2. Share' = Share \/ Share' = 0
      BY <3>1 DEF Share
    <3> QED
      BY <1>n, <1>o, <2>1, <3>1, <3>2
  <2> QED
    BY <1>12, <2>2, <2>3 DEF EnvironmentStep
<1>13. CASE WriteSecret \/ Undo \/ Tick \/ UNCHANGED vars
  <2>1. UNCHANGED <<syncerVars, job, session, fails, foreign>>
    BY <1>13 DEF WriteSecret, Undo, Tick, vars
  <2>2. Share' = Share
    BY <2>1 DEF Share
  <2> QED
    BY <1>n, <1>o, <2>1, <2>2
<1> QED
  BY <1>1, <1>2, <1>3, <1>4, <1>5, <1>6, <1>7, <1>8, <1>9, <1>10, <1>11, <1>12, <1>13, <1>14
     DEF Next, CycleStep

-----------------------------------------------------------------------------
(* The theorems.                                                           *)

LEMMA Initially == Init => IInv
<1> SUFFICES ASSUME Init PROVE IInv
  OBVIOUS
<1> USE Constants
<1>1. TypeOK
  <2>1. job \in [Proc -> Jobs]
    BY IdleJob DEF Init
  <2>2. 0 \in 0..StickyAuthFails /\ 0 \in 0..MaxEpoch /\ 0 \in 0..MaxNow /\ 0 \in 0..BanAfter
        /\ 0 \in 0..MaxEnv
    OBVIOUS
  <2> QED
    BY <2>1, <2>2 DEF Init, TypeOK
<1>2. \A p \in Proc : job[p] = Idle
  BY DEF Init
<1>3. /\ Idle.pc = "idle" /\ Idle.epoch = 0 /\ Idle.runs = 0 /\ Idle.more = FALSE
  BY DEF Idle
<1>4. LatchInv
  BY <1>2, <1>3 DEF Init, LatchInv
<1>5. CallsInv
  BY <1>2, <1>3 DEF CallsInv, OutcomeIsTrue, At
<1>6. BudgetInv
  BY <1>2, <1>3 DEF Init, BudgetInv, Share, Pending, Under
<1>7. PaceInv
  <2>1. Active = {}
    BY <1>2, <1>3 DEF Active
  <2>2. stamp = -Pace /\ now = 0 /\ testRejects = 0
    BY DEF Init
  <2>3. (-Pace) \div Pace = -1
    OBVIOUS
  <2> QED
    BY <2>1, <2>2, <2>3, FS_EmptySet DEF PaceInv
<1> QED
  BY <1>1, <1>4, <1>5, <1>6, <1>7 DEF IInv

LEMMA Inductive == IInv /\ [Next]_vars => IInv'
BY TypeStep, LatchStep, CallsStep, BudgetStep, PaceStep DEF IInv

LEMMA Invariant == Spec => []IInv
BY Initially, Inductive, PTL DEF Spec

\* The counters, the latch and the clients keep to their bounds: a cycle can
\* only count a failure while the latch is open, so authFails never passes
\* StickyAuthFails, and a switch never leaves the epochs (syncOnce, Swap).
THEOREM TypeCorrect == Spec => []TypeOK
BY Invariant, PTL DEF IInv

\* For any number of calls, sessions that expire under them and re-logins that
\* fail: a mutation is executed at most once, "ok" is said only of one that
\* was, and a 403 or a failed re-login only of one that was not (postFormBody).
THEOREM OutcomesAreTrue == Spec => []OutcomeIsTrue
BY Invariant, PTL DEF IInv, CallsInv

\* Whatever the environment, the mutations and the tests do, and however often:
\* the cycles of one epoch add no more than StickyAuthFails + 2 rejections in a
\* row to what the server holds against the address (syncOnce, and the latch).
THEOREM BudgetKept == Spec => []RejectionBudget
<1>1. IInv => RejectionBudget
  <2> SUFFICES ASSUME IInv PROVE RejectionBudget
    OBVIOUS
  <2>1. /\ authFails \in Nat /\ authFails <= StickyAuthFails /\ StickyAuthFails \in Nat
        /\ fails \in Nat /\ foreign \in Nat
    BY Constants DEF IInv, TypeOK
  <2>2. Share <= authFails + 2 + Pending
    BY DEF IInv, BudgetInv
  <2>3. Pending = 0 \/ (Pending = 1 /\ job[Cycle].pc = "answered")
    <3>1. CASE Under({"answered"}) /\ ~Extra /\ job[Cycle].res = "bad"
      BY <3>1 DEF Pending, Under
    <3>2. CASE ~(Under({"answered"}) /\ ~Extra /\ job[Cycle].res = "bad")
      BY <3>2 DEF Pending, Under, Mine, Extra
    <3> QED
      BY <3>1, <3>2
  <2>4. job[Cycle].pc = "answered" => authFails < StickyAuthFails
    BY <2>1 DEF IInv, LatchInv
  <2> QED
    BY <2>1, <2>2, <2>3, <2>4 DEF Share, RejectionBudget
<1> QED
  BY <1>1, Invariant, PTL

\* However many tests run at once and whatever the window is: one rejected
\* login of theirs for each window, since the gate is looked at and stamped in
\* one critical section and a test ends with its first rejection (Test).
THEOREM OneRejectionPerWindow == Spec => []TestsArePaced
<1>1. IInv => TestsArePaced
  <2> SUFFICES ASSUME IInv PROVE TestsArePaced
    OBVIOUS
  <2>1. stamp \in {-Pace} \cup 0..MaxNow /\ now \in 0..MaxNow /\ testRejects \in Nat
    BY DEF IInv, TypeOK
  <2>2. stamp \in Int /\ now \in Int /\ Pace \in Nat \ {0} /\ testRejects \in Nat
    BY <2>1, Constants
  <2>3. Cardinality(Active) \in Nat /\ testRejects + Cardinality(Active) <= 1 + stamp \div Pace
        /\ stamp <= now
    BY FS_CardinalityType DEF IInv, PaceInv
  <2>4. stamp \div Pace <= now \div Pace
    BY <2>2, <2>3, DivGrows
  <2>5. stamp \div Pace \in Int /\ now \div Pace \in Int
    BY <2>2
  <2> QED
    BY <2>2, <2>3, <2>4, <2>5 DEF TestsArePaced
<1> QED
  BY <1>1, Invariant, PTL
=============================================================================
