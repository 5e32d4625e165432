---------------------------- MODULE RateLimiter -----------------------------
(***************************************************************************)
(* RateLimiter.check (rate-limit.ts) over time, as checkRateLimit of       *)
(* mcp/helpers.ts calls it at the start of every tool call: a fixed window *)
(* per API key, opened by the first call after the last window has ended.  *)
(* The clock and the history say when calls were admitted; only `buckets`  *)
(* is state of the code.  One life of the process: a restart forgets the   *)
(* buckets.                                                                *)
(***************************************************************************)
EXTENDS Sequences, Limiters

CONSTANTS
  Keys,      \* API keys
  MaxTime,   \* bound on the clock
  MaxCalls   \* bound on the calls admitted per key

ASSUME RateLimiterAssumption == MaxTime \in Nat /\ MaxCalls \in Nat

VARIABLES
  now,         \* Date.now()
  buckets,     \* RateLimiter.buckets
  admittedAt,  \* history: the times at which calls of a key were admitted
  windowOf,    \* history: the number of the window each of them fell into
  openedAt,    \* history: the times at which windows of a key were opened
  retryAt      \* history: the time the last denial told the caller to wait for

vars == <<now, buckets, admittedAt, windowOf, openedAt, retryAt>>

TypeOK ==
  /\ now \in Nat
  /\ buckets \in [Keys -> Bucket]
  /\ admittedAt \in [Keys -> Seq(Nat)]
  /\ windowOf \in [Keys -> Seq(Nat)]
  /\ openedAt \in [Keys -> Seq(Nat)]
  /\ retryAt \in [Keys -> Nat]

Init ==
  /\ now = 1
  /\ buckets = [k \in Keys |-> NoBucket]
  /\ admittedAt = [k \in Keys |-> <<>>]
  /\ windowOf = [k \in Keys |-> <<>>]
  /\ openedAt = [k \in Keys |-> <<>>]
  /\ retryAt = [k \in Keys |-> 0]

\* The call is admitted: into a new window, or into the open one.
Admitted(k) ==
  /\ RateAllowed(buckets[k], now)
  /\ Len(admittedAt[k]) < MaxCalls
  /\ buckets' = [buckets EXCEPT ![k] = RateCheck(@, now)]
  /\ openedAt' = [openedAt EXCEPT ![k] = IF NewWindow(buckets[k], now)
                                           THEN Append(@, now) ELSE @]
  /\ admittedAt' = [admittedAt EXCEPT ![k] = Append(@, now)]
  /\ windowOf' = [windowOf EXCEPT ![k] = Append(@, Len(openedAt'[k]))]
  /\ UNCHANGED <<now, retryAt>>

\* The call is denied, and told to retry after resetAt - now, which the code
\* rounds up to seconds: never earlier than modelled.
Denied(k) ==
  /\ ~RateAllowed(buckets[k], now)
  /\ buckets' = [buckets EXCEPT ![k] = RateCheck(@, now)]
  /\ retryAt' = [retryAt EXCEPT ![k] = buckets[k].resetAt]
  /\ UNCHANGED <<now, admittedAt, windowOf, openedAt>>

Tick ==
  /\ now < MaxTime
  /\ now' = now + 1
  /\ UNCHANGED <<buckets, admittedAt, windowOf, openedAt, retryAt>>

Next == Tick \/ \E k \in Keys : Admitted(k) \/ Denied(k)

Spec == Init /\ [][Next]_vars

-----------------------------------------------------------------------------
\* Of any 2 * MaxPerMinute + 1 calls admitted one after the other for a key,
\* the first and the last are a minute or more apart: the window boundary can
\* double the configured rate and no more.
AtMostTwiceTheRate ==
  \A k \in Keys : \A i, j \in 1..Len(admittedAt[k]) :
    j >= i + 2 * MaxPerMinute => admittedAt[k][j] >= admittedAt[k][i] + Minute

\* A key is denied only when MaxPerMinute of its calls were admitted within
\* the minute before: nobody is refused below the configured rate.
DeniedOnlyAtTheRate ==
  \A k \in Keys :
    ~RateAllowed(buckets[k], now) =>
      /\ Len(admittedAt[k]) >= MaxPerMinute
      /\ admittedAt[k][Len(admittedAt[k]) - MaxPerMinute + 1] > now - Minute

\* A caller that was denied and waits as long as it was told is admitted,
\* unless another call of the key came first in the meantime.
RetryAfterIsEnough ==
  \A k \in Keys :
    now >= retryAt[k] /\ retryAt[k] # 0
    /\ (\A i \in 1..Len(admittedAt[k]) : admittedAt[k][i] < retryAt[k])
    => RateAllowed(buckets[k], now)

-----------------------------------------------------------------------------
(* The strengthening that is inductive, key by key.                        *)

\* Windows of a key open at least a minute apart.
WindowsApart(k) ==
  \A v, w \in 1..Len(openedAt[k]) : v < w => openedAt[k][w] >= openedAt[k][v] + Minute

\* A call falls after the opening of its window and not after that of a
\* later one.
CallsInWindows(k) ==
  /\ Len(windowOf[k]) = Len(admittedAt[k])
  /\ \A i \in 1..Len(admittedAt[k]) :
       /\ windowOf[k][i] \in 1..Len(openedAt[k])
       /\ openedAt[k][windowOf[k][i]] <= admittedAt[k][i]
       /\ admittedAt[k][i] <= now
       /\ \A w \in 1..Len(openedAt[k]) :
            windowOf[k][i] < w => admittedAt[k][i] <= openedAt[k][w]

\* A window holds at most MaxPerMinute calls.
WindowsBounded(k) ==
  \A i, j \in 1..Len(admittedAt[k]) :
    j >= i + MaxPerMinute => windowOf[k][i] < windowOf[k][j]

\* The bucket is the last window: its end and the number of its calls.
BucketIsLastWindow(k) ==
  /\ buckets[k].count <= MaxPerMinute
  /\ buckets[k].count <= Len(admittedAt[k])
  /\ Len(openedAt[k]) = 0 => buckets[k] = NoBucket /\ Len(admittedAt[k]) = 0
  /\ Len(openedAt[k]) # 0 =>
       /\ buckets[k].count >= 1
       /\ buckets[k].resetAt = openedAt[k][Len(openedAt[k])] + Minute
       /\ openedAt[k][Len(openedAt[k])] <= now
  /\ \A i \in 1..Len(admittedAt[k]) :
       windowOf[k][i] = Len(openedAt[k]) <=> i > Len(admittedAt[k]) - buckets[k].count

\* A time told to a caller is the end of the last window, or it was over
\* when that window opened.
RetryIsWindowEnd(k) ==
  retryAt[k] # 0 =>
    /\ Len(openedAt[k]) # 0
    /\ \/ retryAt[k] = buckets[k].resetAt
       \/ retryAt[k] <= openedAt[k][Len(openedAt[k])]

KeyInv(k) ==
  /\ WindowsApart(k)
  /\ CallsInWindows(k)
  /\ WindowsBounded(k)
  /\ BucketIsLastWindow(k)
  /\ RetryIsWindowEnd(k)

\* The inductive invariant: the history of every key and its bucket agree.
IInv == TypeOK /\ \A k \in Keys : KeyInv(k)

=============================================================================
