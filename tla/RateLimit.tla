----------------------------- MODULE RateLimit -----------------------------
(***************************************************************************)
(* The fixed-window rate limit of one key.  A server process limits by     *)
(* counters it shares with the others in Redis or, when Redis was not      *)
(* there at its start, by counters of its own, by refusing or not at all.  *)
(* A request reads the clock, and only then takes the limiter's lock or    *)
(* sends its INCR: the window may have turned in between.  Keys do not     *)
(* influence each other.                                                   *)
(***************************************************************************)
EXTENDS Naturals, FiniteSets

CONSTANTS
  Processes,  \* server processes
  Slots,      \* requests under way at a time
  Limit,      \* requests per window
  LastWindow, \* bound: windows 0..LastWindow
  MaxArrivals \* bound: requests in all

Windows == 0..LastWindow

VARIABLES
  window,   \* the clock, in windows
  fallback, \* rate_limit_redis_unavailable_fallback
  limiter,  \* each process' limiter, or down
  bucket,   \* each process' memory bucket of the key
  redis,    \* is Redis reachable?
  counter,  \* the Redis counters of the key, by window
  request,  \* each slot's request
  arrivals, \* requests so far
  seen,     \* history: requests counted, by limiter and window
  admitted, \* history: requests let through, by limiter and window
  excused,  \* history: limiters and windows that lost count
  refused   \* history: <<limiter, window>> of the request just refused for its count

rateVars == <<window, fallback, limiter, bucket, redis, counter, request, arrivals,
              seen, admitted, excused, refused>>

NoBucket == [window |-> 0, count |-> 0]
NoRequest == [pc |-> "none"]
Classes == {"fail_open", "fail_closed"}

\* Redis is one limiter for all processes, the memory of a process another.
Counters == Processes \cup {"shared"}
Domain == Counters \X Windows

\* The windows in which a limiter has counted something.
Seen(l) == {d \in Domain : d[1] = l /\ seen[d] > 0}

RateTypeOK ==
  /\ window \in Windows
  /\ fallback \in {"memory", "deny", "disable"}
  /\ limiter \in [Processes -> {"down", "redis", "memory", "deny", "disable"}]
  /\ bucket \in [Processes -> [window : Windows, count : 0..MaxArrivals]]
  /\ redis \in BOOLEAN
  /\ counter \in [Windows -> 0..MaxArrivals]
  /\ \A s \in Slots : request[s] = NoRequest \/
       request[s] \in [pc : {"count"}, process : Processes, window : Windows, mode : Classes]
  /\ arrivals \in 0..MaxArrivals
  /\ seen \in [Domain -> 0..MaxArrivals]
  /\ admitted \in [Domain -> 0..MaxArrivals]
  /\ excused \subseteq Domain
  /\ refused \subseteq Domain

RateInit ==
  /\ window = 0
  /\ fallback = "memory"
  /\ limiter = [p \in Processes |-> "down"]
  /\ bucket = [p \in Processes |-> NoBucket]
  /\ redis = TRUE
  /\ counter = [w \in Windows |-> 0]
  /\ request = [s \in Slots |-> NoRequest]
  /\ arrivals = 0
  /\ seen = [d \in Domain |-> 0]
  /\ admitted = [d \in Domain |-> 0]
  /\ excused = {} /\ refused = {}

-----------------------------------------------------------------------------
\* An operator sets the fallback, for the processes to come.
Configure(f) ==
  /\ \A p \in Processes : limiter[p] = "down"
  /\ f # fallback
  /\ fallback' = f
  /\ refused' = {}
  /\ UNCHANGED <<window, limiter, bucket, redis, counter, request, arrivals, seen,
                 admitted, excused>>

\* main and NewLimiterForRedisUnavailable: chosen once, when the process starts.
Start(p) ==
  /\ limiter[p] = "down"
  /\ limiter' = [limiter EXCEPT ![p] = IF redis THEN "redis" ELSE fallback]
  /\ refused' = {}
  /\ UNCHANGED <<window, fallback, bucket, redis, counter, request, arrivals, seen,
                 admitted, excused>>

\* A process ends with its requests; its memory counts no more.
Stop(p) ==
  /\ limiter[p] # "down"
  /\ limiter' = [limiter EXCEPT ![p] = "down"]
  /\ bucket' = [bucket EXCEPT ![p] = NoBucket]
  /\ request' = [s \in Slots |-> IF request[s] # NoRequest /\ request[s].process = p
                                   THEN NoRequest ELSE request[s]]
  /\ excused' = excused \cup Seen(p)
  /\ refused' = {}
  /\ UNCHANGED <<window, fallback, redis, counter, arrivals, seen, admitted>>

RedisGoes ==
  /\ redis
  /\ redis' = FALSE
  /\ refused' = {}
  /\ UNCHANGED <<window, fallback, limiter, bucket, counter, request, arrivals, seen,
                 admitted, excused>>

\* Redis comes back, with its keys or without.
RedisReturns(kept) ==
  /\ ~redis
  /\ redis' = TRUE
  /\ IF kept THEN UNCHANGED <<counter, excused>>
     ELSE /\ counter' = [w \in Windows |-> 0]
          /\ excused' = excused \cup Seen("shared")
  /\ refused' = {}
  /\ UNCHANGED <<window, fallback, limiter, bucket, request, arrivals, seen, admitted>>

WindowTurns ==
  /\ window < LastWindow
  /\ window' = window + 1
  /\ refused' = {}
  /\ UNCHANGED <<fallback, limiter, bucket, redis, counter, request, arrivals, seen,
                 admitted, excused>>

\* EXPIRE is the length of a window and a second: a key outlives its window.
KeyExpires(w) ==
  /\ w < window /\ counter[w] > 0
  /\ counter' = [counter EXCEPT ![w] = 0]
  /\ excused' = excused \cup {<<"shared", w>>}
  /\ refused' = {}
  /\ UNCHANGED <<window, fallback, limiter, bucket, redis, request, arrivals, seen, admitted>>

\* Mutant: a sweep takes the buckets of the window that runs, too.
Through(b) == b.window <= window

\* sweep: now.After(expiresAt).
Expired(b) == b.window < window

Sweep(p) ==
  /\ limiter[p] = "memory" /\ bucket[p] # NoBucket
  /\ Expired(bucket[p])
  /\ bucket' = [bucket EXCEPT ![p] = NoBucket]
  /\ excused' = excused \cup {d \in Seen(p) : d[2] < window}
  /\ refused' = {}
  /\ UNCHANGED <<window, fallback, limiter, redis, counter, request, arrivals, seen,
                 admitted>>

-----------------------------------------------------------------------------
\* A request with a key and a positive limit reaches EnforceRateLimit.  Without a
\* limiter it passes, DenyLimiter refuses it; else the clock is read.  Admin routes
\* fail closed, the others as configured.
Arrive(s, p, mode) ==
  /\ request[s] = NoRequest
  /\ limiter[p] \in {"redis", "memory"}
  /\ arrivals < MaxArrivals
  /\ arrivals' = arrivals + 1
  /\ request' = [request EXCEPT ![s] = [pc |-> "count", process |-> p, window |-> window,
                                        mode |-> mode]]
  /\ refused' = {}
  /\ UNCHANGED <<window, fallback, limiter, bucket, redis, counter, seen, admitted, excused>>

\* decide, on the count with this request in it.
Decide(count) == count <= Limit

\* The limiter has counted the request as the count-th of its window.
Answer(s, d, count) ==
  /\ request' = [request EXCEPT ![s] = NoRequest]
  /\ seen' = [seen EXCEPT ![d] = @ + 1]
  /\ admitted' = [admitted EXCEPT ![d] = IF Decide(count) THEN @ + 1 ELSE @]
  /\ refused' = IF Decide(count) THEN {} ELSE {d}

SameWindow(b, w) == b.window = w

\* MemoryLimiter.Allow under its lock.  A bucket of another window, later or earlier,
\* is replaced.
MemoryAllow(s) ==
  /\ request[s] # NoRequest
  /\ LET p == request[s].process
         w == request[s].window
         same == SameWindow(bucket[p], w)
         count == IF same THEN bucket[p].count + 1 ELSE 1
     IN  /\ limiter[p] = "memory"
         /\ bucket' = [bucket EXCEPT ![p] = [window |-> w, count |-> count]]
         /\ excused' = IF same \/ bucket[p] = NoBucket THEN excused
                       ELSE excused \cup Seen(p)
         /\ Answer(s, <<p, w>>, count)
  /\ UNCHANGED <<window, fallback, limiter, redis, counter, arrivals>>

\* RedisLimiter.Allow: INCR of the key of the window read before.
RedisAllow(s) ==
  /\ request[s] # NoRequest
  /\ LET w == request[s].window
     IN  /\ limiter[request[s].process] = "redis" /\ redis
         /\ counter' = [counter EXCEPT ![w] = @ + 1]
         /\ Answer(s, <<"shared", w>>, counter[w] + 1)
  /\ UNCHANGED <<window, fallback, limiter, bucket, redis, arrivals, excused>>

\* The pipeline fails, with its INCR done or not.  The fail mode decides: the request
\* passes uncounted or gets 429.
Passes(mode) == mode = "fail_open"

LimiterFails(s) ==
  /\ request[s] # NoRequest
  /\ LET w == request[s].window
         d == <<"shared", w>>
         open == Passes(request[s].mode)
     IN  /\ limiter[request[s].process] = "redis"
         /\ \/ UNCHANGED <<counter, seen>>
            \/ /\ redis
               /\ counter' = [counter EXCEPT ![w] = @ + 1]
               /\ seen' = [seen EXCEPT ![d] = @ + 1]
         /\ admitted' = [admitted EXCEPT ![d] = IF open THEN @ + 1 ELSE @]
         /\ excused' = IF request[s].mode = "fail_open" THEN excused \cup {d} ELSE excused
  /\ request' = [request EXCEPT ![s] = NoRequest]
  /\ refused' = {}
  /\ UNCHANGED <<window, fallback, limiter, bucket, redis, arrivals>>

RateNext ==
  \/ \E f \in {"memory", "deny", "disable"} : Configure(f)
  \/ \E p \in Processes : Start(p) \/ Stop(p) \/ Sweep(p)
  \/ RedisGoes \/ (\E kept \in BOOLEAN : RedisReturns(kept))
  \/ WindowTurns \/ (\E w \in Windows : KeyExpires(w))
  \/ \E s \in Slots : \/ \E p \in Processes, mode \in Classes : Arrive(s, p, mode)
                      \/ MemoryAllow(s) \/ RedisAllow(s) \/ LimiterFails(s)

RateSpec == RateInit /\ [][RateNext]_rateVars

-----------------------------------------------------------------------------
\* The counts hold.  A limiter - Redis for all processes together, or the memory of
\* one - lets at most Limit requests of a window through, and refuses one only after
\* Limit others of the same window.  Losing count takes what only time or a fault
\* does: a request that reaches a limiter after its window, when the memory has gone
\* on to the next window or the key is gone; a process or a Redis that restarts; and
\* an error of Redis on a route that fails open.  A sweep, a route that fails closed
\* and requests that merely overlap never do.
CountsHold ==
  /\ \A d \in Domain \ excused : admitted[d] <= Limit
  /\ \A d \in refused : seen[d] > Limit

=============================================================================
