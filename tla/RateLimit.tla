------------------------------ MODULE RateLimit -----------------------------
(***************************************************************************)
(* The per-IP limit in front of the S3 routes                              *)
(* (crates/ozd-ipfs/src/ratelimit.rs).  A token is TPS units, so that a    *)
(* refill over any number of ticks is a whole number.                      *)
(***************************************************************************)
EXTENDS Clock, SequencesExt

CONSTANTS
  MaxRps, Ips, Callers,  \* the rate; addresses; requests in check() at a time
  CleanEvery,            \* requests between two cleanings (256)
  IdleLimit,             \* ticks after which an idle bucket goes (60 s)
  MaxRequests            \* bound on the requests of a run

Nobody == "nobody"

ASSUME RateAssumption ==
  /\ MaxRps \in Nat \ {0} /\ CleanEvery \in Nat \ {0} /\ MaxRequests \in Nat /\ IdleLimit \in Nat
  /\ Nobody \notin Ips
  /\ IdleLimit >= TPS  \* a bucket that is thrown away would be full again

VARIABLES
  buckets,             \* the map from addresses to [tokens, last]
  requests,            \* request_count
  calls,               \* requests on their way to the lock, and the clock as they read it
  passed,              \* history: when requests of each address passed, in its stretched time
  refused,             \* history: when its last request was refused, or -1
  upto, regained       \* history: the clock up to which its bucket was refilled; ticks refilled twice

rateVars == <<buckets, requests, calls, passed, refused, upto, regained>>

NoBuckets == [ip \in {} |-> 0]
NoCall == [ip |-> Nobody, at |-> 0]
RateInit ==
  /\ buckets = NoBuckets /\ requests = 0 /\ calls = [c \in Callers |-> NoCall]
  /\ passed = [ip \in Ips |-> << >>] /\ refused = [ip \in Ips |-> -1]
  /\ upto = [ip \in Ips |-> 0] /\ regained = [ip \in Ips |-> 0]

\* check(): the clock is read before the lock is taken.
Enter(c) == \E ip \in Ips :
  /\ calls[c] = NoCall /\ calls' = [calls EXCEPT ![c] = [ip |-> ip, at |-> now]]
  /\ UNCHANGED <<now, buckets, requests, passed, refused, upto, regained>>

\* Mutant: every bucket goes.
CleanedAll(at) == IF requests % CleanEvery = 0 THEN NoBuckets ELSE buckets

\* Every CleanEvery-th request throws away what is idle by its own clock.
Cleaned(at) ==
  IF requests % CleanEvery = 0
  THEN [ip \in {i \in DOMAIN buckets : AtLeast(at - buckets[i].last, 0) < IdleLimit} |-> buckets[ip]] ELSE buckets

\* The rest of check(): refilled for the time that passed, one token if there
\* is one.  An older clock than that of the bucket refills nothing, but turns
\* last back: the time up to what it was is refilled again.
Check(c) ==
  LET q == calls[c]
      ip == q.ip
      map == Cleaned(q.at)
      b == IF ip \in DOMAIN map THEN map[ip] ELSE [tokens |-> MaxRps * TPS, last |-> q.at]
      t == AtMost(b.tokens + MaxRps * AtLeast(q.at - b.last, 0), MaxRps * TPS)
      again == regained[ip] + AtLeast(upto[ip] - q.at, 0)
      ok == t >= TPS IN
  /\ ip # Nobody /\ calls' = [calls EXCEPT ![c] = NoCall]
  /\ requests < MaxRequests /\ requests' = requests + 1
  /\ buckets' = [i \in DOMAIN map \cup {ip} |-> IF i = ip THEN [tokens |-> IF ok THEN t - TPS ELSE t, last |-> q.at] ELSE map[i]]
  /\ upto' = [i \in Ips |-> IF i = ip \/ i \in DOMAIN buckets \ DOMAIN map THEN q.at ELSE upto[i]]
  /\ regained' = [regained EXCEPT ![ip] = again]
  /\ passed' = IF ok THEN [passed EXCEPT ![ip] = Append(@, q.at + again)] ELSE passed
  /\ refused' = IF ok THEN refused ELSE [refused EXCEPT ![ip] = q.at + again]
  /\ UNCHANGED now

RateNext == (\E c \in Callers : Enter(c) \/ Check(c)) \/ (ClockTick /\ UNCHANGED rateVars)

-----------------------------------------------------------------------------
\* The stretched time of an address is the clock its requests read and the
\* ticks that were refilled twice so far, because a request was held up between
\* reading the clock and the lock.  It is the clock when none ever was.

\* No address gets more than its rate: between any two of its requests that
\* passed lie at most a burst of MaxRps and MaxRps for every second of its
\* stretched time, also when its bucket was thrown away in between.
AtMostRate ==
  \A ip \in Ips : LET p == passed[ip] IN \A i, j \in 1 .. Len(p) :
    i <= j => (j - i + 1) * TPS <= MaxRps * (TPS + p[j] - p[i])

\* No address is refused on account of others: when it is, MaxRps requests of
\* its own have passed within the last second of its stretched time.
RefusedForOwnSake ==
  \A ip \in Ips : refused[ip] # -1 =>
    Cardinality({i \in 1 .. Len(passed[ip]) : passed[ip][i] > refused[ip] - TPS /\ passed[ip][i] <= refused[ip]}) >= MaxRps

\* The limit is exact and separate for every address.
LimitsEachAlone == AtMostRate /\ RefusedForOwnSake
=============================================================================
