----------------------------- MODULE RateLimit -----------------------------
(***************************************************************************)
(* internal/platform/ratelimit and the places that call it: the middleware *)
(* rateLimitByIP and rateLimitByActor, and the two calls of the handler    *)
(* login.  newLimiters (cmd/api/main.go) gives every endpoint a limiter of *)
(* its own, all of them in the memory of the process or all of them in     *)
(* Redis.                                                                  *)
(*                                                                         *)
(* Time is counted in ticks and kept relative to now: a bucket has the     *)
(* time left until it resets, negative once that is past, and what was     *)
(* admitted is kept by its age.  The limiters in memory are those of one   *)
(* process; the callers of Redis are those of any number of processes.     *)
(* A key is never empty: every caller puts a prefix before it.             *)
(***************************************************************************)
EXTENDS Integers, FiniteSets, FiniteSetsExt

CONSTANTS
  Limiters,              \* those among login, register, refresh, transfer, money in use
  Limit, Window,         \* their settings (config.go)
  Emails, Addresses, Users,
  Backends,              \* what REDIS_URL may select
  Traffic,               \* by backend, the limiters that are called
  MaxLag,                \* bound on the time between now() and the lock of the limiter
  MaxTries,              \* how often the client runs the script for one Eval
  Faults                 \* whether Redis may fail

\* newLimiters makes a limiter for each endpoint, and login always has one.
ASSUME RateLimitAssumption ==
  /\ Limiters \subseteq {"login", "register", "refresh", "transfer", "money"}
  /\ "login" \in Limiters
  /\ Limit \in [Limiters -> Nat] /\ Window \in [Limiters -> Nat \ {0}]
  /\ Backends \subseteq {"memory", "redis"} /\ Traffic \in [Backends -> SUBSET Limiters]
  /\ MaxLag \in Nat /\ MaxTries \in Nat \ {0}
  /\ Faults \in BOOLEAN

VARIABLES
  backend,       \* what newLimiters chose
  buckets,       \* Limiter.buckets, by limiter and key
  gcAge,         \* time since Limiter.lastGC
  counters,      \* Redis: value and time to live, by key
  logins,        \* addresses of logins that have passed the limit of their email
  upFor,         \* time the process has been up
  admitted       \* for the properties: events admitted, by limiter, key and age

vars == <<backend, buckets, gcAge, counters, logins, upFor, admitted>>

Keys == Emails \union Addresses \union Users

\* The keys an endpoint is limited by.
KeysOf(l) == CASE l = "login" -> Emails \union Addresses
               [] l \in {"register", "refresh"} -> Addresses
               [] l \in {"transfer", "money"} -> Users

MaxWindow == Max({Window[l] : l \in Limiters})
Past      == MaxWindow + MaxLag + 1        \* further back nothing is told apart
Ages      == 0..(Past - 1)
MaxCount  == Max({Limit[l] : l \in Limiters}) + 1

Verdicts  == {"admit", "refuse", "error"}

NoBucket  == [count |-> 0, left |-> 0]
NoCounter == [n |-> 0, ttl |-> 0]

Count(n) == Min({n, MaxCount})

Admit(l, k) == admitted' = [admitted EXCEPT ![l][k][0] = @ + 1]

----------------------------------------------------------------------------
(* Limiter, in memory.  The caller read the clock lag ticks ago.           *)

\* Before in the place of After.
AfterSwapped(left, lag) == left + lag > 0

After(left, lag) == left + lag < 0

\* A window that slides: every event starts it again.
BucketAfterSliding(l, b, lag) ==
  IF b = NoBucket \/ After(b.left, lag) THEN [count |-> 1, left |-> Window[l] - lag]
  ELSE [count |-> Count(b.count + 1), left |-> Window[l] - lag]

BucketAfter(l, b, lag) ==
  IF b = NoBucket \/ After(b.left, lag) THEN [count |-> 1, left |-> Window[l] - lag]
  ELSE [b EXCEPT !.count = Count(@ + 1)]

\* gc that forgets to delete.
CollectedNothing(l, lag) == buckets[l]

\* gc, when it is due.
GcDue(l, lag) == gcAge[l] - lag > Window[l]

Collected(l, lag) ==
  [k \in Keys |-> IF GcDue(l, lag) /\ After(buckets[l][k].left, lag)
                  THEN NoBucket ELSE buckets[l][k]]

AllowMemory(l, k, lag, v) ==
  LET kept == Collected(l, lag)
      b    == BucketAfter(l, kept[k], lag)
  IN  /\ buckets' = [buckets EXCEPT ![l] = [kept EXCEPT ![k] = b]]
      /\ gcAge' = IF GcDue(l, lag) THEN [gcAge EXCEPT ![l] = lag] ELSE gcAge
      /\ v = IF b.count <= Limit[l] THEN "admit" ELSE "refuse"
      /\ UNCHANGED counters

----------------------------------------------------------------------------
(* RedisLimiter.  The script and its counters; the prefix of the keys is   *)
(* the same for all limiters.                                              *)

\* PEXPIRE at every event.
ScriptAlways(l, c) == [n |-> Count(c.n + 1), ttl |-> Window[l]]

\* incrScript: the time to live is set with the first event.
Script(l, c) ==
  IF c = NoCounter THEN [n |-> 1, ttl |-> Window[l]] ELSE [c EXCEPT !.n = Count(@ + 1)]

\* A further run finds the key, and only counts.
ScriptTimes(l, c, times) ==
  IF times = 0 THEN c
  ELSE LET first == Script(l, c) IN [first EXCEPT !.n = Count(@ + times - 1)]

\* Eval: the script runs, once or again after an answer the client missed, and the
\* last answer is heard or not.
AllowRedis(l, k, times, heard, v) ==
  LET c == ScriptTimes(l, counters[k], times)
  IN  /\ times \in 0..MaxTries
      /\ IF Faults THEN heard => times > 0 ELSE heard /\ times = 1
      /\ counters' = [counters EXCEPT ![k] = c]
      /\ v = IF ~heard THEN "error" ELSE IF c.n <= Limit[l] THEN "admit" ELSE "refuse"
      /\ UNCHANGED <<buckets, gcAge>>

----------------------------------------------------------------------------

\* An error refuses as well: only v = "admit" goes on to the handler.
Allow(l, k, v) ==
  /\ \/ /\ backend = "memory"
        /\ \E lag \in 0..upFor : AllowMemory(l, k, lag, v)
     \/ /\ backend = "redis"
        /\ \E times \in 0..MaxTries, heard \in BOOLEAN : AllowRedis(l, k, times, heard, v)
  /\ IF v = "admit" THEN Admit(l, k) ELSE UNCHANGED admitted

\* rateLimitByIP and rateLimitByActor.
Request(l, k, v) ==
  /\ l # "login"
  /\ Allow(l, k, v)
  /\ UNCHANGED <<backend, logins, upFor>>

\* login: the email is counted first, and the address only when that passes.
LoginEmail(e, a, v) ==
  /\ a \notin logins
  /\ Allow("login", e, v)
  /\ logins' = IF v = "admit" THEN logins \union {a} ELSE logins
  /\ UNCHANGED <<backend, upFor>>

LoginAddress(a, v) ==
  /\ a \in logins
  /\ Allow("login", a, v)
  /\ logins' = logins \ {a}
  /\ UNCHANGED <<backend, upFor>>

\* Redis drops a counter whose time is over.
Aged(c) == IF c.ttl <= 1 THEN NoCounter ELSE [c EXCEPT !.ttl = @ - 1]

Tick ==
  /\ buckets' = [l \in Limiters |-> [k \in Keys |->
       IF buckets[l][k] = NoBucket THEN NoBucket
       ELSE [buckets[l][k] EXCEPT !.left = Max({@ - 1, -Past})]]]
  /\ gcAge' = [l \in Limiters |-> Min({gcAge[l] + 1, Past})]
  /\ counters' = [k \in Keys |-> Aged(counters[k])]
  /\ admitted' = [l \in Limiters |-> [k \in Keys |->
       [age \in Ages |-> IF age = 0 THEN 0 ELSE admitted[l][k][age - 1]]]]
  /\ upFor' = Min({upFor + 1, MaxLag})
  /\ UNCHANGED <<backend, logins>>

\* New, NewRedis: nothing counted, and no gc yet (lastGC is the zero time).
NoBuckets  == [l \in Limiters |-> [k \in Keys |-> NoBucket]]
NeverGC    == [l \in Limiters |-> Past]
NoCounters == [k \in Keys |-> NoCounter]
NoneYet    == [l \in Limiters |-> [k \in Keys |-> [age \in Ages |-> 0]]]

Init ==
  /\ backend \in Backends
  /\ buckets = NoBuckets /\ gcAge = NeverGC /\ counters = NoCounters
  /\ logins = {} /\ upFor = 0 /\ admitted = NoneYet

\* The store of the counts restarts empty: the api process, or Redis, which keeps
\* nothing on disk.  The counts of the properties start again with it.
Restart ==
  /\ buckets' = NoBuckets /\ gcAge' = NeverGC /\ counters' = NoCounters
  /\ logins' = {} /\ upFor' = 0 /\ admitted' = NoneYet
  /\ UNCHANGED backend

Next ==
  \/ \E v \in Verdicts :
       \/ \E l \in Traffic[backend] : \E k \in KeysOf(l) : Request(l, k, v)
       \/ \E e \in Emails, a \in Addresses : LoginEmail(e, a, v)
       \/ \E a \in Addresses : LoginAddress(a, v)
  \/ Tick
  \/ Restart

Spec == Init /\ [][Next]_vars

FairSpec == Spec /\ WF_vars(Tick)

----------------------------------------------------------------------------
(* Properties.                                                             *)

Recent(l, k, ages) == MapThenSumSet(LAMBDA age : admitted[l][k][age], ages)

(* Around the edge of two fixed windows at most twice the limit passes, however calls
   interleave and whichever of them resets or collects the bucket.  The window is the
   configured one less the time a caller may wait for the lock: a caller that read the
   clock before a gc and comes after it starts a bucket in the past
   (ratelimit/memory.go Allow, gc; ratelimit/redis.go Allow).                *)
AtMostTwiceTheLimit ==
  \A l \in Limiters : \A k \in KeysOf(l) : Recent(l, k, 0..(Window[l] - MaxLag)) <= 2 * Limit[l]

\* The endpoint of l refuses a call of k, although the counts were at hand.
Refused(l, k) ==
  \/ Request(l, k, "refuse")
  \/ l = "login" /\ k \in Emails /\ \E a \in Addresses : LoginEmail(k, a, "refuse")
  \/ l = "login" /\ k \in Addresses /\ LoginAddress(k, "refuse")

\* This endpoint itself has admitted as many calls of the key as its limit allows.
UsedUp(l, k) == Recent(l, k, 0..(Window[l] + MaxLag)) >= Limit[l]

(* In memory every endpoint has its own limit: a call is refused only when this endpoint
   has admitted the limit of that key within the window, give or take the wait for the
   lock (ratelimit/memory.go Allow; cmd/api/main.go newLimiters).            *)
RefusalIsOwn ==
  [][\A l \in Limiters : \A k \in KeysOf(l) :
       backend = "memory" /\ Refused(l, k) => UsedUp(l, k)]_vars

(* What config.go says of the two backends: the limits have the same form for both.  So
   a Redis that works refuses as the memory limiter would.                   *)
SameForBothBackends ==
  [][\A l \in Limiters : \A k \in KeysOf(l) : Refused(l, k) => UsedUp(l, k)]_vars

(* A caller refused now is not refused for ever: the count of a key returns to zero, even
   while it is being refused again and again (ratelimit/redis.go incrScript).  *)
CountersExpire == \A k \in Keys : counters[k].n > 0 ~> counters[k].n = 0

CalledInMemory(l) ==
  /\ backend = "memory"
  /\ \E k \in KeysOf(l), lag \in 0..upFor, v \in Verdicts : AllowMemory(l, k, lag, v)

(* The memory limiter does not grow for ever: after any call of it, every bucket it still
   has was open at most a window ago, give or take the wait for the lock
   (ratelimit/memory.go gc).                                                 *)
StaleBucketsAreCollected ==
  [][\A l \in Limiters : CalledInMemory(l) =>
       \A k \in Keys : buckets'[l][k].left >= -(Window[l] + MaxLag)]_vars
============================================================================
