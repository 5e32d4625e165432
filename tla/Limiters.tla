------------------------------ MODULE Limiters ------------------------------
(***************************************************************************)
(* The two limits a tool call meets before it does anything: RateLimiter   *)
(* (rate-limit.ts), one fixed window per API key, and BackupRateLimiter    *)
(* (confirmation/action-store.ts), one timestamp per server.  Both are     *)
(* ordinary objects of one process, called synchronously, so each call is  *)
(* one step and a pure function of the stored value and of Date.now().     *)
(***************************************************************************)
EXTENDS Integers

CONSTANTS
  MaxPerMinute,     \* RATE_LIMIT_PER_MINUTE, config.rateLimitPerMinute
  Minute,           \* the 60_000 ms of rate-limit.ts, in clock ticks
  BackupInterval    \* BACKUP_RATE_LIMIT_MS, config.backupRateLimitMs

\* config.ts:19 and config.ts:67 admit only positive values.
ASSUME LimiterAssumption ==
  /\ MaxPerMinute \in Nat \ {0}
  /\ Minute \in Nat \ {0}
  /\ BackupInterval \in Nat \ {0}

-----------------------------------------------------------------------------
\* RateLimiter.  A key that is absent from the Map is a bucket that has
\* already ended, so both lead to a new window.
NoBucket == [count |-> 0, resetAt |-> 0]

Bucket == [count: Nat, resetAt: Nat]

\* Slip: the window still counts at the very end of the minute.
NewWindowLate(bucket, now) == now > bucket.resetAt

NewWindow(bucket, now) == now >= bucket.resetAt

\* Slip: one call more than the limit, off by one.
RateAllowedOneMore(bucket, now) == NewWindow(bucket, now) \/ bucket.count <= MaxPerMinute

\* check(key).allowed
RateAllowed(bucket, now) == NewWindow(bucket, now) \/ bucket.count < MaxPerMinute

\* Slip: the end of the window on the wrong side of now.
RateCheckBackwards(bucket, now) ==
  IF NewWindow(bucket, now)
    THEN [count |-> 1, resetAt |-> now - Minute]
    ELSE IF bucket.count < MaxPerMinute
           THEN [bucket EXCEPT !.count = @ + 1]
           ELSE bucket

\* Slip: a new window keeps the count of the one before.
RateCheckKeepingCount(bucket, now) ==
  IF NewWindow(bucket, now)
    THEN [count |-> bucket.count + 1, resetAt |-> now + Minute]
    ELSE IF bucket.count < MaxPerMinute
           THEN [bucket EXCEPT !.count = @ + 1]
           ELSE bucket

\* Slip: a denied call starts the window anew.
RateCheckPunishing(bucket, now) ==
  IF NewWindow(bucket, now)
    THEN [count |-> 1, resetAt |-> now + Minute]
    ELSE IF bucket.count < MaxPerMinute
           THEN [bucket EXCEPT !.count = @ + 1]
           ELSE [bucket EXCEPT !.resetAt = now + Minute]

\* The bucket check(key) leaves behind: a denied call does not change it.
RateCheck(bucket, now) ==
  IF NewWindow(bucket, now)
    THEN [count |-> 1, resetAt |-> now + Minute]
    ELSE IF bucket.count < MaxPerMinute
           THEN [bucket EXCEPT !.count = @ + 1]
           ELSE bucket

-----------------------------------------------------------------------------
\* BackupRateLimiter.  0 stands for a server without an entry, as in the
\* code, whose test is `!last`.
NeverBackedUp == 0

\* Slip: the interval is over a moment too early.
BackupAllowedEarly(last, now) == last = NeverBackedUp \/ now - last >= BackupInterval - 1

\* check(serverId).allowed
BackupAllowed(last, now) == last = NeverBackedUp \/ now - last >= BackupInterval

=============================================================================
