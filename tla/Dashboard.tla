------------------------------ MODULE Dashboard ------------------------------
(***************************************************************************)
(* Aggregate (state/dashboard.go): one pass over the committed torrents,   *)
(* in whatever order the map yields them, with sums that saturate, and the *)
(* list of the fastest transfers. Hashes and names are numbers, compared   *)
(* as the strings are; int64 is -Top-1 .. Top.                             *)
(***************************************************************************)
EXTENDS Integers, Sequences, FiniteSets, Functions

CONSTANTS
  Hash,           \* of the torrents that may be committed
  Torrent,        \* their rows: [state, done, name, size, completed, dl, up]
  Top,            \* MaxInt64
  ActiveListCap   \* 5

\* The states that are counted, and the counts.
Shown  == {"downloading", "seeding", "paused"}
Counts == {"total", "active", "completed"} \cup Shown
Int64  == (-Top - 1)..Top

\* The backend's numbers are whatever an int64 holds: nothing between the JSON and
\* the pass refuses a negative size, count or speed.
ASSUME DashboardAssumption ==
  /\ Hash \subseteq Nat /\ Top \in Nat /\ ActiveListCap \in Nat
  /\ Torrent \subseteq [state : Shown \cup {"other"}, done : BOOLEAN, name : Nat,
                        size : Int64, completed : Int64, dl : Int64, up : Int64]

VARIABLES
  torrents,  \* the committed state
  unread,    \* hashes the pass has not come to
  counts, totals,
  cands,     \* hashes with traffic, in the order of the pass
  active     \* the list in the response

dashVars == <<torrents, unread, counts, totals, cands, active>>

\* Mutant of satAdd: the sum wraps.
WrappingAdd(a, b) == ((a + b + Top + 1) % (2 * (Top + 1))) - Top - 1
satAdd(a, b) ==
  CASE b > 0 /\ a > Top - b -> Top
    [] b < 0 /\ a < -Top - 1 - b -> -Top - 1
    [] OTHER -> a + b

Speed(h) == satAdd(torrents[h].dl, torrents[h].up)

Before(g, h) ==
  \/ Speed(g) > Speed(h)
  \/ Speed(g) = Speed(h) /\ torrents[g].name < torrents[h].name
  \/ Speed(g) = Speed(h) /\ torrents[g].name = torrents[h].name /\ g < h

DashboardInit ==
  /\ \E known \in SUBSET Hash : IsFiniteSet(known) /\ torrents \in [known -> Torrent]
  /\ unread = DOMAIN torrents
  /\ counts = [c \in Counts |-> 0]
  /\ totals = [size |-> 0, completed |-> 0, remaining |-> 0]
  /\ cands = <<>> /\ active = <<>>

\* The negative of an int64: the least one has none.
Negated(n) == IF n = -Top - 1 THEN n ELSE -n

One(b) == IF b THEN 1 ELSE 0
Transfers(t) == t.dl > 0 \/ t.up > 0

\* One torrent. What remains of it is clamped before it is added.
Count ==
  \E h \in unread :
    LET t == torrents[h] IN
    /\ unread' = unread \ {h}
    /\ counts' = [c \in Counts |-> counts[c] +
                    One(c = "total" \/ c = t.state \/ (c = "completed" /\ t.done)
                          \/ (c = "active" /\ Transfers(t)))]
    /\ totals' = [size      |-> satAdd(totals.size, t.size),
                  completed |-> satAdd(totals.completed, t.completed),
                  remaining |-> IF t.size > t.completed
                                  THEN satAdd(totals.remaining, satAdd(t.size, Negated(t.completed)))
                                  ELSE totals.remaining]
    /\ cands' = IF Transfers(t) THEN Append(cands, h) ELSE cands
    /\ UNCHANGED <<torrents, active>>

\* sort.SliceStable: the candidates in an order in which nobody stands before
\* one that is less.
Rank ==
  /\ unread = {} /\ cands # <<>>
  /\ \E p \in Bijection(DOMAIN cands, DOMAIN cands) :
       LET sorted == [i \in DOMAIN cands |-> cands[p[i]]] IN
       /\ \A i, j \in DOMAIN cands : i < j => ~Before(sorted[j], sorted[i])
       /\ active' = IF Len(cands) > ActiveListCap THEN SubSeq(sorted, 1, ActiveListCap)
                                                 ELSE sorted
  /\ cands' = <<>>
  /\ UNCHANGED <<torrents, unread, counts, totals>>

DashboardNext == Count \/ Rank

DashboardSpec == DashboardInit /\ [][DashboardNext]_dashVars

-----------------------------------------------------------------------------
Ranked == unread = {} /\ cands = <<>>

\* The sum of a function into the naturals, without adding: the number of its
\* units, of which h has f[h]. And cut once, at MaxInt64.
Units(f)   == UNION {{h} \X (1..f[h]) : h \in DOMAIN f}
SumOf(f)   == Cardinality(Units(f))
AtMost(n)  == IF n > Top THEN Top ELSE n
Clamped(n) == IF n < -Top - 1 THEN -Top - 1 ELSE AtMost(n)

Sizes(S)      == [h \in S |-> torrents[h].size]
Completeds(S) == [h \in S |-> torrents[h].completed]
Remainings(S) == [h \in S |-> IF torrents[h].size > torrents[h].completed
                                THEN torrents[h].size - torrents[h].completed ELSE 0]

\* What the values of a function add, and what they take away.
Gains(f)  == [h \in DOMAIN f |-> IF f[h] > 0 THEN f[h] ELSE 0]
Losses(f) == [h \in DOMAIN f |-> IF f[h] < 0 THEN -f[h] ELSE 0]

\* A sum with cuts underway: between the two that cut only the gains and only
\* the losses, at the end. It is the sum where neither exceeds an int64, and
\* the sum cut once where there are no losses, or no gains.
SaturatedSum(n, f) ==
  LET gained == SumOf(Gains(f))
      lost   == SumOf(Losses(f)) IN
  /\ n \in Int64
  /\ AtMost(gained) - lost <= n
  /\ n <= gained - (IF lost > Top + 1 THEN Top + 1 ELSE lost)

\* A count whose negative is not itself again.
Ordinary(S) == \A h \in S : torrents[h].completed # -Top - 1

TotalsOf(S) ==
  /\ SaturatedSum(totals.size, Sizes(S)) /\ SaturatedSum(totals.completed, Completeds(S))
  /\ totals.remaining \in Int64
  /\ Ordinary(S) => totals.remaining = AtMost(SumOf(Remainings(S)))

Transferring(S) == {h \in S : torrents[h].dl > 0 \/ torrents[h].up > 0}

CountsOf(S) ==
  /\ counts["total"] = Cardinality(S) /\ counts["active"] = Cardinality(Transferring(S))
  /\ counts["completed"] = Cardinality({h \in S : torrents[h].done})
  /\ \A s \in Shown : counts[s] = Cardinality({h \in S : torrents[h].state = s})

\* The order of the list: by falling speed, then by name, then by hash.
Key(h) == <<-Clamped(torrents[h].dl + torrents[h].up), torrents[h].name, h>>
First(g, h) == \E i \in 1..3 : /\ Key(g)[i] < Key(h)[i]
                              /\ \A j \in 1..(i - 1) : Key(g)[j] = Key(h)[j]

Fastest(S) ==
  LET listed == {active[i] : i \in DOMAIN active}
      n == Cardinality(Transferring(S)) IN
  /\ listed \subseteq Transferring(S)
  /\ Len(active) = IF n > ActiveListCap THEN ActiveListCap ELSE n
  /\ \A i, j \in DOMAIN active : i < j => First(active[i], active[j])
  /\ \A g \in listed, h \in Transferring(S) \ listed : First(g, h)

\* The numbers of the response are those of the committed state, whatever int64
\* the backend reported and whatever the order of the pass. The totals of sizes
\* and of completed bytes never wrap: each is the sum, cut no more than the
\* gains or the losses alone require. What remains is the sum of what remains
\* of each torrent, a torrent that has more than its size adding nothing, cut
\* once at MaxInt64; only a count of MinInt64 is excepted. The list holds the
\* fastest transfers, nobody who is left out coming before anybody listed, and
\* equals in the order of name and hash (satAdd, the clamp, the comparison
\* before the subtraction and the "deterministic ordering" of Aggregate).
AggregateIsTrue ==
  Ranked => TotalsOf(DOMAIN torrents) /\ CountsOf(DOMAIN torrents) /\ Fastest(DOMAIN torrents)

\* What dashboard.go:91-94 and its test promise ("must never make the total
\* remaining negative", "bounded and never negative") is refuted: -MinInt64 is
\* MinInt64, so a torrent of size 0 with that count takes away from the total.
\* No run checks this formula.
RemainingIsNeverNegative == Ranked => totals.remaining >= 0
=============================================================================
