---------------------------- MODULE RateLimiter ----------------------------
(***************************************************************************)
(* RateLimiter (core/src/security.rs) as the middleware rate_limit         *)
(* (api/src/auth.rs) uses it: every request takes a token from the global  *)
(* bucket and then, under another lock, one from the bucket of its         *)
(* address; requests interleave and time passes between the two.           *)
(*                                                                         *)
(* A bucket has no timer: what it gained since last_refill is credited at  *)
(* the next request, in whole tokens, and what is left of the interval is  *)
(* forgotten.  Buckets of addresses that are silent may be thrown away.    *)
(*                                                                         *)
(* Time is counted in a unit that divides the refill interval; the code    *)
(* truncates to milliseconds what it then divides by whole milliseconds,   *)
(* so the unit does not matter.                                            *)
(***************************************************************************)
EXTENDS Integers

CONSTANTS
    Ips,            \* addresses of clients
    Handlers,       \* requests that may be inside check() at once
    max_requests,   \* 100
    window,         \* 60 s
    GlobalFactor,   \* 10: the global bucket in multiples of max_requests
    Second,         \* a second in units of time
    max_age,        \* of cleanup(): 300 s
    Moments,        \* moments from which an observer may start to count
    MaxNow          \* bound: the last moment of a behaviour

\* The values of auth.rs, 14 and 188: an interval of at least one unit, and a
\* bucket is full again long before it is thrown away.
ASSUME LimiterAssumption ==
    /\ max_requests \in Nat \ {0} /\ GlobalFactor \in Nat \ {0}
    /\ window \in Nat /\ window >= max_requests
    /\ max_age \in Nat /\ max_age >= window
    /\ Second \in Nat \ {0}
ASSUME MomentAssumption == Moments \subseteq Nat /\ MaxNow \in Nat

VARIABLES
    now,        \* the clock
    global,     \* global_bucket
    buckets,    \* per address: its bucket, or NoBucket
    task,       \* per request: the address it is about to check, or none
    watch,      \* history: when the observer starts to count
    passed,     \* history: tokens taken from the global bucket since watch
    allowed,    \* history: per address, requests allowed since watch
    promised    \* history: per address, when it was told to come back, or none

observer == <<watch, passed, allowed, promised>>
vars == <<now, global, buckets, task, observer>>

None == "none"
ASSUME None \notin Ips
NoBucket == [tokens |-> 0, last_refill |-> -1]
HasBucket(ip) == buckets[ip] # NoBucket

refill_rate == window \div max_requests
GlobalMax == GlobalFactor * max_requests

\* What the header Retry-After says: whole seconds of the interval, so none at all
\* of 600 ms (auth.rs:124).
RetryAfter == (refill_rate \div Second) * Second

Bucket(max) == [tokens : 0..max, last_refill : Nat]

TypeOK ==
    /\ now \in Nat
    /\ global \in Bucket(GlobalMax)
    /\ buckets \in [Ips -> Bucket(max_requests) \cup {NoBucket}]
    /\ task \in [Handlers -> Ips \cup {None}]
    /\ watch \in Nat
    /\ passed \in Nat
    /\ allowed \in [Ips -> Nat]
    /\ promised \in [Ips -> Nat \cup {-1}]
    /\ global.last_refill <= now
    /\ \A ip \in Ips : buckets[ip].last_refill <= now

----------------------------------------------------------------------------
\* TokenBucket

\* Mutant: a single interval is not credited.
RefillLate(b, max) ==
    LET refills == (now - b.last_refill) \div refill_rate
        credit == b.tokens + refills
    IN  IF refills > 1
        THEN [tokens |-> IF credit > max THEN max ELSE credit, last_refill |-> now]
        ELSE b

\* Mutant: the credit is not cut at the size of the bucket.
RefillOver(b, max) ==
    LET refills == (now - b.last_refill) \div refill_rate
    IN  IF refills > 0
        THEN [tokens |-> b.tokens + refills, last_refill |-> now]
        ELSE b

\* refill: at least one whole interval has to be over.
Refill(b, max) ==
    LET refills == (now - b.last_refill) \div refill_rate
        credit == b.tokens + refills
    IN  IF refills > 0
        THEN [tokens |-> IF credit > max THEN max ELSE credit, last_refill |-> now]
        ELSE b

Take(b) == [b EXCEPT !.tokens = @ - 1]

\* or_insert_with: the bucket of the address, a full one if it has none.
BucketOf(ip) ==
    IF HasBucket(ip) THEN buckets[ip]
    ELSE [tokens |-> max_requests, last_refill |-> now]

Counted == IF now >= watch THEN 1 ELSE 0

----------------------------------------------------------------------------
\* RateLimiter::check

\* try_consume on the global bucket; without a token the request is limited
\* and told to come back after a whole window.
CheckGlobal(h, ip) ==
    /\ task[h] = None
    /\ LET b == Refill(global, GlobalMax)
       IN  IF b.tokens > 0
           THEN /\ global' = Take(b)
                /\ task' = [task EXCEPT ![h] = ip]
                /\ passed' = passed + Counted
           ELSE /\ global' = b
                /\ UNCHANGED <<task, passed>>
    /\ UNCHANGED <<now, buckets, watch, allowed, promised>>

\* try_consume on the bucket of the address: allowed, or limited and told to
\* come back after RetryAfter.  The global token is spent in both cases.
CheckBucket(h) ==
    /\ task[h] # None
    /\ LET ip == task[h]
           b == Refill(BucketOf(ip), max_requests)
       IN  IF b.tokens > 0
           THEN /\ buckets' = [buckets EXCEPT ![ip] = Take(b)]
                /\ allowed' = [allowed EXCEPT ![ip] = @ + Counted]
                /\ promised' = [promised EXCEPT ![ip] = -1]
           ELSE /\ buckets' = [buckets EXCEPT ![ip] = b]
                /\ promised' = [promised EXCEPT ![ip] = IF @ = -1 THEN now + RetryAfter ELSE @]
                /\ UNCHANGED allowed
    /\ task' = [task EXCEPT ![h] = None]
    /\ UNCHANGED <<now, global, watch, passed>>

----------------------------------------------------------------------------
\* RateLimiter::cleanup

\* Mutant: the buckets that were used lately are thrown away.
CleanupRecent ==
    /\ buckets' = [ip \in Ips |-> IF now - buckets[ip].last_refill < max_age
                                  THEN NoBucket ELSE buckets[ip]]
    /\ UNCHANGED <<now, global, task, observer>>

Cleanup ==
    /\ buckets' = [ip \in Ips |-> IF HasBucket(ip) /\ now - buckets[ip].last_refill < max_age
                                  THEN buckets[ip] ELSE NoBucket]
    /\ UNCHANGED <<now, global, task, observer>>

----------------------------------------------------------------------------
Tick ==
    /\ now < MaxNow
    /\ now' = now + 1
    /\ UNCHANGED <<global, buckets, task, observer>>

Init ==
    /\ now = 0
    /\ global = [tokens |-> GlobalMax, last_refill |-> 0]
    /\ buckets = [ip \in Ips |-> NoBucket]
    /\ task = [h \in Handlers |-> None]
    /\ watch \in Moments
    /\ passed = 0
    /\ allowed = [ip \in Ips |-> 0]
    /\ promised = [ip \in Ips |-> -1]

Next ==
    \/ \E h \in Handlers : CheckBucket(h) \/ \E ip \in Ips : CheckGlobal(h, ip)
    \/ Cleanup
    \/ Tick

Spec == Init /\ [][Next]_vars

----------------------------------------------------------------------------
\* Properties

\* n tokens of a bucket of max since watch: the bucket, an interval each for
\* the others, and one.
Within(n, max) == (n - max - 1) * refill_rate <= now - watch

\* Whenever one starts to count, no address is allowed more than its full
\* bucket, one token for every interval that has passed since, and the one of
\* the interval that was under way; the same holds of the global bucket.
\* Neither lost fractions nor buckets that are thrown away and begin again
\* full let more through (security.rs:62, 133).
AllowedIsBounded ==
    now >= watch =>
        /\ Within(passed, GlobalMax)
        /\ \A ip \in Ips : Within(allowed[ip], max_requests)

\* A client that was limited by its own bucket and waits a second longer than the
\* header told it finds a token in it, if no other request of its address took it
\* meanwhile; a refused request in between does not put it off.  To wait as told is
\* not enough, for the header drops the fraction (security.rs:124, auth.rs:124).
RetryAfterHolds ==
    \A ip \in Ips :
        promised[ip] # -1 /\ now >= promised[ip] + Second =>
            Refill(BucketOf(ip), max_requests).tokens > 0
=============================================================================
