----------------------------- MODULE RateLimiter -----------------------------
(****************************************************************************)
(* The in-memory token buckets that guard sign-up, login and the mail       *)
(* routes (src/apps/api/rate_limiter.go): a bucket per key, refilled by     *)
(* whole windows when its key asks again, and a janitor that is to forget   *)
(* the keys that have gone quiet.                                           *)
(*                                                                          *)
(* Allow and a sweep of the janitor hold the mutex: each is one action.     *)
(* Time is in ticks.  An observer, whom the code does not have, starts to   *)
(* count a key's granted requests at some moment.                           *)
(****************************************************************************)
EXTENDS LimiterConstants

VARIABLES
  now,       \* the clock
  buckets,   \* per key: [tokens, lastRefill], or NoBucket
  ticker,    \* when the janitor is due
  watched,   \* observer: per key, since when its requests are counted, -1 for not yet
  granted    \* observer: the requests allowed since

limiterVars == <<now, buckets, ticker, watched, granted>>

NoBucket == [tokens |-> -1, lastRefill |-> 0]

LimiterInit ==
  /\ now = 0
  /\ buckets = [k \in Keys |-> NoBucket]
  /\ ticker = Interval
  /\ watched = [k \in Keys |-> -1]
  /\ granted = [k \in Keys |-> 0]

Elapsed(b) == now - b.lastRefill
Periods(b) == Elapsed(b) \div Window

\* Mutant: the refill is not held to the capacity.
M_Refilled(b) ==
  IF Elapsed(b) < Window THEN b
  ELSE [tokens     |-> b.tokens + Periods(b) * Rate,
        lastRefill |-> b.lastRefill + Periods(b) * Window]

\* A bucket as Allow finds it: whole windows that have passed are credited.
Refilled(b) ==
  IF Elapsed(b) < Window THEN b
  ELSE [tokens     |-> IF b.tokens + Periods(b) * Rate > Capacity THEN Capacity
                       ELSE b.tokens + Periods(b) * Rate,
        lastRefill |-> b.lastRefill + Periods(b) * Window]

Count(k) == granted' = [granted EXCEPT ![k] = IF watched[k] # -1 THEN @ + 1 ELSE @]

\* Allow, of a key without a bucket: it gets a full one.
AllowFirst(k) ==
  /\ buckets[k] = NoBucket
  /\ buckets' = [buckets EXCEPT ![k] = [tokens |-> Capacity - 1, lastRefill |-> now]]
  /\ Count(k)
  /\ UNCHANGED <<now, ticker, watched>>

Taken(b) == [b EXCEPT !.tokens = @ - 1]

Allow(k) ==
  /\ buckets[k] # NoBucket
  /\ Refilled(buckets[k]).tokens > 0
  /\ buckets' = [buckets EXCEPT ![k] = Taken(Refilled(@))]
  /\ Count(k)
  /\ UNCHANGED <<now, ticker, watched>>

\* Too many requests: what the bucket was credited stays.
Refuse(k) ==
  /\ buckets[k] # NoBucket
  /\ Refilled(buckets[k]).tokens <= 0
  /\ buckets' = [buckets EXCEPT ![k] = Refilled(@)]
  /\ UNCHANGED <<now, ticker, watched, granted>>

\* What the janitor takes for idle: long without a refill, and full.
Stale(b) == Elapsed(b) > 2 * Window /\ b.tokens >= Capacity

Sweep ==
  /\ now >= ticker
  /\ buckets' = [k \in Keys |-> IF buckets[k] # NoBucket /\ Stale(buckets[k]) THEN NoBucket
                                ELSE buckets[k]]
  /\ ticker' = ticker + Interval
  /\ UNCHANGED <<now, watched, granted>>

\* Time passes; the janitor's tick is not missed.
Tick ==
  /\ now < MaxTime /\ now < ticker
  /\ now' = now + 1
  /\ UNCHANGED <<buckets, ticker, watched, granted>>

\* The observer begins to count.
Watch(k) ==
  /\ watched[k] = -1
  /\ watched' = [watched EXCEPT ![k] = now]
  /\ UNCHANGED <<now, buckets, ticker, granted>>

LimiterNext ==
  \/ \E k \in Keys : AllowFirst(k) \/ Allow(k) \/ Refuse(k) \/ Watch(k)
  \/ Sweep \/ Tick

LimiterSpec == LimiterInit /\ [][LimiterNext]_limiterVars
-----------------------------------------------------------------------------
(* Properties. *)

LimiterTypeOK ==
  /\ now \in Nat /\ ticker \in Nat
  /\ buckets \in [Keys -> [tokens : Int, lastRefill : Nat]]
  /\ watched \in [Keys -> Int]
  /\ granted \in [Keys -> Nat]

\* In no stretch of time shorter than a window is a key allowed more than a full
\* bucket and one refill, wherever the stretch begins and whenever the janitor runs.
BurstsAreBounded ==
  \A k \in Keys : watched[k] # -1 /\ now < watched[k] + Window => granted[k] <= Capacity + Rate

\* A key that has a bucket keeps it for ever, whatever the janitor does: what is
\* stored is below the capacity, and only full buckets count as idle.  The code calls
\* the janitor the "background cleanup of idle keys".
Kept == \A k \in Keys : buckets[k] # NoBucket => buckets'[k] # NoBucket

NothingIsForgotten == [][Kept]_limiterVars
=============================================================================
