---------------------------- MODULE ServerProofs ----------------------------
(***************************************************************************)
(* The server's smaller parts: the rate limiter, the maximum, the sum and  *)
(* the histogram of the durations, the address filter and the audit log,   *)
(* captured frames, the live feed and the rules, each for any constants.   *)
(* The last section composes them, and the capture that a proxied exchange *)
(* ends in.                                                                *)
(***************************************************************************)
EXTENDS MCParts, FiniteSetTheorems, SequenceTheorems, WellFoundedInduction, TLAPS

\* A set of numbers has a least one.
LEMMA Smallest ==
    ASSUME NEW S, S \subseteq Nat, S # {}
    PROVE  \E i \in S : \A j \in S : i <= j
<1> DEFINE less == {ss \in Nat \X Nat : ss[1] < ss[2]}
<1>1. IsWellFoundedOn(less, Nat)
  BY NatLessThanWellFounded DEF OpToRel
<1> HIDE DEF less
<1>2. PICK i \in S : \A j \in S : ~(<<j, i>> \in less)
  BY <1>1, WFMin
<1>3. \A j \in S : ~(j < i)
  BY <1>2 DEF less
<1> QED
  BY <1>3

----------------------------------------------------------------------------
\* The rate limiter

\* The interval is at least one unit, and the intervals of a bucket fit into
\* the window, so into the age at which it is thrown away.
LEMMA RateFacts ==
    /\ refill_rate \in Nat \ {0}
    /\ max_requests * refill_rate <= max_age
<1>1. \A w \in Nat, m \in Nat \ {0} : w >= m => w \div m \in Nat \ {0} /\ m * (w \div m) <= w
  OBVIOUS
<1>2. QED
  BY <1>1, LimiterAssumption DEF refill_rate

\* What the header says is less than a second short of the interval.
LEMMA RetryFacts == RetryAfter \in Nat /\ refill_rate <= RetryAfter + Second
<1>1. \A r \in Nat, s \in Nat \ {0} :
          (r \div s) * s \in Nat /\ r <= (r \div s) * s + s
  OBVIOUS
<1>2. QED
  BY <1>1, RateFacts, LimiterAssumption DEF RetryAfter

LEMMA Scaling ==
    ASSUME NEW x \in Int, NEW y \in Int
    PROVE  /\ x * refill_rate \in Int
           /\ (x + y) * refill_rate = x * refill_rate + y * refill_rate
           /\ x <= y => x * refill_rate <= y * refill_rate
           /\ 1 * refill_rate = refill_rate /\ 0 * refill_rate = 0
           /\ (-1) * refill_rate = -refill_rate
BY RateFacts

\* Comparing and adding multiples of the interval.
LEMMA Fewer ==
    ASSUME NEW x \in Int, NEW y \in Int, NEW z \in Int, x <= y, y * refill_rate <= z
    PROVE  x * refill_rate <= z
<1> DEFINE a == x * refill_rate
           b == y * refill_rate
<1>1. a \in Int /\ b \in Int /\ a <= b /\ b <= z
  BY Scaling
<1> HIDE DEF a, b
<1>2. a <= z
  BY <1>1
<1> QED
  BY <1>2 DEF a

LEMMA Together ==
    ASSUME NEW x \in Int, NEW y \in Int, NEW z \in Int, NEW w \in Int,
           x * refill_rate <= z, y * refill_rate <= w
    PROVE  (x + y) * refill_rate <= z + w
<1> DEFINE a == x * refill_rate
           b == y * refill_rate
<1>1. a \in Int /\ b \in Int /\ a <= z /\ b <= w /\ (x + y) * refill_rate = a + b
  BY Scaling
<1> HIDE DEF a, b
<1>2. a + b <= z + w
  BY <1>1
<1> QED
  BY <1>1, <1>2

LEMMA NonePositive ==
    ASSUME NEW x \in Int, NEW z \in Int, x <= 0, 0 <= z
    PROVE  x * refill_rate <= z
<1>1. 0 * refill_rate = 0
  BY Scaling
<1> QED
  BY <1>1, Fewer

\* Dividing a time by the interval.
LEMMA Quotient ==
    ASSUME NEW e \in Nat
    PROVE  LET r == e \div refill_rate
           IN  /\ r \in Nat
               /\ r * refill_rate <= e
               /\ e < r * refill_rate + refill_rate
<1>1. \A m \in Nat \ {0} : /\ e \div m \in Nat
                           /\ (e \div m) * m <= e
                           /\ e < (e \div m) * m + m
  OBVIOUS
<1>2. QED
  BY <1>1, RateFacts

----------------------------------------------------------------------------
\* One bucket

\* What is credited is whole intervals, and less than one is left after it.
LEMMA RefillFacts ==
    ASSUME NEW max \in Nat, NEW b \in Bucket(max), now \in Nat, b.last_refill <= now
    PROVE  LET c == Refill(b, max)
           IN  /\ c \in Bucket(max)
               /\ c.last_refill <= now
               /\ now - c.last_refill < refill_rate
               /\ \/ c = b
                  \/ /\ c.last_refill = now
                     /\ max > 0 => c.tokens > 0
                     /\ \E r \in Nat : /\ r > 0
                                       /\ r * refill_rate <= now - b.last_refill
                                       /\ c.tokens <= b.tokens + r
               /\ now - b.last_refill < refill_rate => c = b
<1> DEFINE r == (now - b.last_refill) \div refill_rate
           c == Refill(b, max)
<1>1. now - b.last_refill \in Nat
  BY DEF Bucket
<1>2. /\ r \in Nat
      /\ r * refill_rate <= now - b.last_refill
      /\ now - b.last_refill < r * refill_rate + refill_rate
  BY <1>1, Quotient
<1>3. b.tokens \in 0..max /\ b.last_refill \in Nat
  BY DEF Bucket
<1>4. CASE r > 0
  <2>1. c = [tokens |-> IF b.tokens + r > max THEN max ELSE b.tokens + r,
             last_refill |-> now]
    BY <1>4 DEF Refill
  <2>2. 1 * refill_rate <= r * refill_rate
    BY <1>2, <1>4, Scaling
  <2>3. ~(now - b.last_refill < refill_rate)
    BY <2>2, <1>2, <1>1, RateFacts, Scaling
  <2> HIDE DEF c, r
  <2>4. c.tokens \in 0..max /\ c.last_refill = now /\ c \in Bucket(max)
    BY <2>1, <1>2, <1>3 DEF Bucket
  <2>5. c.tokens <= b.tokens + r /\ (max > 0 => c.tokens > 0)
    BY <2>1, <1>2, <1>3, <1>4
  <2>6. QED
    BY <2>3, <2>4, <2>5, <1>2, <1>4, RateFacts DEF c
<1>5. CASE ~(r > 0)
  <2>1. c = b
    BY <1>5 DEF Refill
  <2> HIDE DEF r, c
  <2>2. r = 0
    BY <1>5, <1>2
  <2>3. now - b.last_refill < refill_rate
    BY <2>2, <1>2, <1>1, Scaling, RateFacts
  <2>4. QED
    BY <2>1, <2>3 DEF c
<1> QED
  BY <1>4, <1>5

\* The account of a bucket from which n tokens were taken since watch.  As long
\* as it was not refilled since, they were there before; and if one was taken,
\* the interval that was then under way is not over at watch.
Fits(b, n, max) ==
    /\ now < watch => n = 0
    /\ b.last_refill < watch =>
           n + b.tokens <= max /\ (n > 0 => watch - b.last_refill < refill_rate)
    /\ b.last_refill >= watch =>
           (n + b.tokens - max - 1) * refill_rate <= b.last_refill - watch

\* The account of an address without a bucket, which may begin with a full one.
FitsNone(n) ==
    IF now < watch THEN n = 0 ELSE (n - 1) * refill_rate <= now - watch

\* An account that fits is within the promised bound.
LEMMA FitsWithin ==
    ASSUME NEW max \in Nat, NEW b \in Bucket(max), NEW n \in Nat, now \in Nat, watch \in Nat,
           b.last_refill <= now, now >= watch, Fits(b, n, max)
    PROVE  Within(n, max)
<1>1. b.tokens \in Nat /\ b.last_refill \in Nat
  BY DEF Bucket
<1> DEFINE taken == n - max - 1
<1>2. taken \in Int
  OBVIOUS
<1>3. CASE b.last_refill < watch
  <2>1. taken <= 0
    BY <1>1, <1>3 DEF Fits
  <2> QED
    BY <1>2, <2>1, NonePositive DEF Within
<1>4. CASE b.last_refill >= watch
  <2> DEFINE credit == n + b.tokens - max - 1
  <2>1. credit \in Int /\ taken <= credit
    BY <1>1
  <2>2. credit * refill_rate <= b.last_refill - watch
    BY <1>4 DEF Fits
  <2> HIDE DEF credit
  <2>3. taken * refill_rate <= b.last_refill - watch
    BY <1>1, <1>2, <2>1, <2>2, Fewer
  <2>4. taken * refill_rate \in Int
    BY <1>2, Scaling
  <2> HIDE DEF taken
  <2>5. taken * refill_rate <= now - watch
    BY <1>1, <1>2, <2>3, <2>4
  <2> QED
    BY <2>5 DEF Within, taken
<1> QED
  BY <1>1, <1>3, <1>4

\* A refill keeps the account.
LEMMA RefillFits ==
    ASSUME NEW max \in Nat, NEW b \in Bucket(max), NEW n \in Nat, now \in Nat, watch \in Nat,
           b.last_refill <= now, Fits(b, n, max)
    PROVE  Fits(Refill(b, max), n, max)
<1> DEFINE c == Refill(b, max)
<1> SUFFICES Fits(c, n, max)
  OBVIOUS
<1>1. /\ b.tokens \in 0..max /\ b.last_refill \in Nat
      /\ c.tokens \in 0..max /\ c.last_refill \in Nat
  BY RefillFacts DEF Bucket
<1>2. CASE c = b
  BY <1>2
<1>3. CASE c # b
  <2>1. PICK r \in Nat : /\ r > 0
                         /\ r * refill_rate <= now - b.last_refill
                         /\ c.tokens <= b.tokens + r
    BY <1>3, RefillFacts
  <2>2. c.last_refill = now
    BY <1>3, RefillFacts
  <2> HIDE DEF c
  <2> DEFINE credit == n + c.tokens - max - 1
  <2>3. credit \in Int
    BY <1>1
  <2>4. CASE now < watch
    BY <1>1, <2>2, <2>4 DEF Fits
  <2>5. CASE now >= watch /\ b.last_refill >= watch
    <3> DEFINE before == n + b.tokens - max - 1
    <3>1. before \in Int /\ credit <= before + r
      BY <1>1, <2>1
    <3>2. before * refill_rate <= b.last_refill - watch
      BY <2>5 DEF Fits
    <3> HIDE DEF before, credit
    <3>3. (before + r) * refill_rate <= (b.last_refill - watch) + (now - b.last_refill)
      BY <1>1, <2>1, <3>1, <3>2, Together
    <3>4. (b.last_refill - watch) + (now - b.last_refill) = now - watch
      BY <1>1
    <3>5. credit * refill_rate <= now - watch
      BY <2>3, <3>1, <3>3, <3>4, Fewer
    <3> QED
      BY <2>2, <2>5, <3>5 DEF Fits, credit
  <2>6. CASE now >= watch /\ b.last_refill < watch /\ n = 0
    <3>1. credit <= 0 /\ 0 <= now - watch
      BY <1>1, <2>6
    <3> HIDE DEF credit
    <3>2. credit * refill_rate <= now - watch
      BY <2>3, <3>1, NonePositive
    <3> QED
      BY <2>2, <2>6, <3>2 DEF Fits, credit
  <2>7. CASE now >= watch /\ b.last_refill < watch /\ n > 0
    <3>1. credit <= r + (-1) /\ watch - b.last_refill < refill_rate
      BY <1>1, <2>1, <2>7 DEF Fits
    <3> HIDE DEF credit
    <3>2. (r + (-1)) * refill_rate <= (now - b.last_refill) + (-refill_rate)
      BY <1>1, <2>1, Together, Scaling, RateFacts
    <3>3. (now - b.last_refill) + (-refill_rate) <= now - watch
      BY <1>1, <3>1, RateFacts
    <3>4. credit * refill_rate <= (now - b.last_refill) + (-refill_rate)
      BY <1>1, <2>1, <2>3, <3>1, <3>2, Fewer, RateFacts
    <3>5. credit * refill_rate \in Int
      BY <2>3, Scaling
    <3>6. credit * refill_rate <= now - watch
      BY <1>1, <3>3, <3>4, <3>5, RateFacts
    <3> QED
      BY <2>2, <2>7, <3>6 DEF Fits, credit
  <2> QED
    BY <1>1, <2>4, <2>5, <2>6, <2>7
<1> QED
  BY <1>2, <1>3

\* A request takes a token from a bucket that is up to date.
LEMMA TakeFits ==
    ASSUME NEW max \in Nat, NEW c \in Bucket(max), NEW n \in Nat, now \in Nat, watch \in Nat,
           c.last_refill <= now, now - c.last_refill < refill_rate, c.tokens > 0,
           Fits(c, n, max)
    PROVE  /\ Take(c) \in Bucket(max)
           /\ Take(c).last_refill = c.last_refill
           /\ Fits(Take(c), n + Counted, max)
<1>1. c.tokens \in 0..max /\ c.last_refill \in Nat
  BY DEF Bucket
<1>2. /\ Take(c) \in Bucket(max)
      /\ Take(c).last_refill = c.last_refill
      /\ Take(c).tokens = c.tokens - 1
  BY <1>1 DEF Bucket, Take
<1>3. CASE now < watch
  BY <1>1, <1>2, <1>3 DEF Fits, Counted
<1>4. CASE now >= watch
  <2>1. /\ Counted = 1
        /\ n + 1 + (c.tokens - 1) = n + c.tokens
    BY <1>1, <1>4 DEF Counted
  <2>2. CASE c.last_refill < watch
    BY <1>1, <1>2, <1>4, <2>1, <2>2, RateFacts DEF Fits
  <2>3. CASE c.last_refill >= watch
    <3>1. n + 1 + Take(c).tokens - max - 1 = n + c.tokens - max - 1
      BY <1>1, <1>2
    <3> QED
      BY <1>1, <1>2, <1>4, <2>1, <2>3, <3>1 DEF Fits
  <2> QED
    BY <1>1, <2>2, <2>3
<1> QED
  BY <1>3, <1>4

\* A bucket that is thrown away was full but for what it gained since.
LEMMA DropFits ==
    ASSUME NEW b \in Bucket(max_requests), NEW n \in Nat, now \in Nat, watch \in Nat,
           now - b.last_refill >= max_age, Fits(b, n, max_requests)
    PROVE  FitsNone(n)
<1> DEFINE max == max_requests
<1>1. /\ b.tokens \in 0..max /\ b.last_refill \in Nat /\ max \in Nat
      /\ max * refill_rate <= now - b.last_refill
  <2>1. max * refill_rate \in Int
    BY Scaling, LimiterAssumption
  <2> QED
    BY <2>1, RateFacts, LimiterAssumption DEF Bucket
<1> HIDE DEF max
<1>2. b.last_refill <= now
  BY <1>1, LimiterAssumption
<1>3. CASE now < watch
  BY <1>3 DEF Fits, FitsNone
<1>4. CASE now >= watch /\ n = 0
  BY <1>4, NonePositive DEF FitsNone
<1>5. CASE now >= watch /\ b.last_refill < watch /\ n > 0
  <2>1. n - 1 <= max + (-1) /\ watch - b.last_refill < refill_rate
    BY <1>1, <1>5 DEF Fits, max
  <2>2. (max + (-1)) * refill_rate <= (now - b.last_refill) + (-refill_rate)
    BY <1>1, Together, Scaling, RateFacts
  <2>3. (n - 1) * refill_rate <= (now - b.last_refill) + (-refill_rate)
    BY <1>1, <2>1, <2>2, Fewer, RateFacts
  <2> DEFINE spent == (n - 1) * refill_rate
  <2>4. spent \in Int
    BY Scaling
  <2> HIDE DEF spent
  <2>5. spent <= (now - b.last_refill) + (-refill_rate)
    BY <2>3 DEF spent
  <2>6. spent <= now - watch
    BY <1>1, <2>1, <2>4, <2>5, RateFacts
  <2> QED
    BY <1>5, <2>6 DEF FitsNone, spent
<1>6. CASE now >= watch /\ b.last_refill >= watch
  <2> DEFINE credit == n + b.tokens - max - 1
  <2>1. credit \in Int /\ n - 1 <= credit + max
    BY <1>1
  <2>2. credit * refill_rate <= b.last_refill - watch
    BY <1>6 DEF Fits, max
  <2> HIDE DEF credit
  <2>3. (credit + max) * refill_rate <= (b.last_refill - watch) + (now - b.last_refill)
    BY <1>1, <2>1, <2>2, Together
  <2>4. (b.last_refill - watch) + (now - b.last_refill) = now - watch
    BY <1>1
  <2>5. (n - 1) * refill_rate <= now - watch
    BY <1>1, <2>1, <2>3, <2>4, Fewer
  <2> QED
    BY <1>6, <2>5 DEF FitsNone
<1> QED
  BY <1>1, <1>3, <1>4, <1>5, <1>6

----------------------------------------------------------------------------
\* The limiter

AccountInv ==
    /\ Fits(global, passed, GlobalMax)
    /\ \A ip \in Ips : IF HasBucket(ip)
                       THEN Fits(buckets[ip], allowed[ip], max_requests)
                       ELSE FitsNone(allowed[ip])

\* A second after a promise was due there is a token, or an interval is over.
PromiseInv ==
    \A ip \in Ips : promised[ip] # -1 /\ HasBucket(ip) =>
        \/ buckets[ip].tokens > 0
        \/ buckets[ip].last_refill + refill_rate <= promised[ip] + Second

LimiterInv == TypeOK /\ AccountInv /\ PromiseInv

\* The bucket that check() finds or makes for an address.
LEMMA BucketFacts ==
    ASSUME LimiterInv, NEW ip \in Ips
    PROVE  /\ BucketOf(ip) \in Bucket(max_requests)
           /\ BucketOf(ip).last_refill <= now
           /\ Fits(BucketOf(ip), allowed[ip], max_requests)
<1>1. CASE HasBucket(ip)
  BY <1>1 DEF LimiterInv, TypeOK, AccountInv, BucketOf, HasBucket
<1>2. CASE ~HasBucket(ip)
  <2>1. /\ BucketOf(ip).tokens = max_requests
        /\ BucketOf(ip).last_refill = now
        /\ BucketOf(ip) \in Bucket(max_requests)
    BY <1>2, LimiterAssumption DEF BucketOf, Bucket, LimiterInv, TypeOK
  <2>2. FitsNone(allowed[ip]) /\ allowed[ip] \in Nat /\ now \in Nat /\ watch \in Nat
    BY <1>2 DEF LimiterInv, AccountInv, TypeOK
  <2>3. allowed[ip] + BucketOf(ip).tokens - max_requests - 1 = allowed[ip] - 1
    BY <2>1, <2>2, LimiterAssumption
  <2>4. Fits(BucketOf(ip), allowed[ip], max_requests)
    BY <2>1, <2>2, <2>3, LimiterAssumption DEF Fits, FitsNone
  <2> QED
    BY <2>1, <2>2, <2>4
<1> QED
  BY <1>1, <1>2

LEMMA GlobalPositive == GlobalMax \in Nat \ {0}
<1>1. \A f, m \in Nat \ {0} : f * m \in Nat \ {0}
  OBVIOUS
<1> QED
  BY <1>1, LimiterAssumption DEF GlobalMax

LEMMA LimiterInit == Init => LimiterInv
<1> SUFFICES ASSUME Init PROVE LimiterInv
  OBVIOUS
<1>1. TypeOK
  BY GlobalPositive, MomentAssumption DEF Init, TypeOK, Bucket, NoBucket
<1>2. /\ watch \in Nat /\ now = 0 /\ passed = 0
      /\ global.tokens = GlobalMax /\ global.last_refill = 0
  BY MomentAssumption DEF Init
<1>3. Fits(global, passed, GlobalMax)
  <2>1. 0 + GlobalMax - GlobalMax - 1 = -1
    BY GlobalPositive
  <2>2. watch = 0 => (-1) * refill_rate <= 0 - watch
    BY <1>2, NonePositive
  <2> QED
    BY <1>2, <2>1, <2>2, GlobalPositive DEF Fits
<1>4. ASSUME NEW ip \in Ips PROVE ~HasBucket(ip) /\ FitsNone(allowed[ip])
  <2>1. allowed[ip] = 0 /\ ~HasBucket(ip)
    BY DEF Init, HasBucket
  <2>2. 0 - 1 = -1 /\ (watch = 0 => (-1) * refill_rate <= 0 - watch)
    BY <1>2, NonePositive
  <2> QED
    BY <1>2, <2>1, <2>2 DEF FitsNone
<1> QED
  BY <1>1, <1>3, <1>4 DEF LimiterInv, AccountInv, PromiseInv

LEMMA GlobalStep ==
    ASSUME LimiterInv, NEW h \in Handlers, NEW ip \in Ips, CheckGlobal(h, ip)
    PROVE  LimiterInv'
<1> DEFINE b == Refill(global, GlobalMax)
<1>1. /\ now \in Nat /\ watch \in Nat /\ passed \in Nat /\ GlobalMax \in Nat
      /\ global \in Bucket(GlobalMax) /\ global.last_refill <= now
      /\ Fits(global, passed, GlobalMax)
  BY GlobalPositive DEF LimiterInv, TypeOK, AccountInv
<1>2. /\ b \in Bucket(GlobalMax) /\ b.last_refill <= now
      /\ now - b.last_refill < refill_rate
      /\ Fits(b, passed, GlobalMax)
  BY <1>1, RefillFacts, RefillFits
<1>3. UNCHANGED <<now, buckets, watch, allowed, promised>>
  BY DEF CheckGlobal
<1>4. /\ global' \in Bucket(GlobalMax) /\ global'.last_refill <= now
      /\ passed' \in Nat
      /\ task' \in [Handlers -> Ips \cup {None}]
      /\ Fits(global', passed', GlobalMax)
  <2>1. CASE b.tokens > 0
    <3>1. /\ global' = Take(b) /\ passed' = passed + Counted
          /\ task' = [task EXCEPT ![h] = ip]
      BY <2>1 DEF CheckGlobal
    <3> HIDE DEF b
    <3>2. /\ Take(b) \in Bucket(GlobalMax) /\ Take(b).last_refill = b.last_refill
          /\ Fits(Take(b), passed + Counted, GlobalMax)
      BY <1>1, <1>2, <2>1, TakeFits
    <3>3. passed + Counted \in Nat
      BY <1>1 DEF Counted
    <3> QED
      BY <1>2, <3>1, <3>2, <3>3 DEF LimiterInv, TypeOK
  <2>2. CASE ~(b.tokens > 0)
    <3>1. global' = b /\ passed' = passed /\ task' = task
      BY <2>2 DEF CheckGlobal
    <3> HIDE DEF b
    <3> QED
      BY <1>1, <1>2, <3>1 DEF LimiterInv, TypeOK
  <2> QED
    BY <2>1, <2>2
<1> HIDE DEF b
<1>5. TypeOK'
  BY <1>3, <1>4 DEF LimiterInv, TypeOK, Bucket
<1>6. AccountInv'
  <2>1. Fits(global, passed, GlobalMax)'
    BY <1>3, <1>4 DEF Fits
  <2>2. \A x \in Ips : (IF HasBucket(x)
                        THEN Fits(buckets[x], allowed[x], max_requests)
                        ELSE FitsNone(allowed[x]))'
    BY <1>3 DEF LimiterInv, AccountInv, HasBucket, Fits, FitsNone
  <2> QED
    BY <2>1, <2>2 DEF AccountInv
<1>7. PromiseInv'
  BY <1>3 DEF LimiterInv, PromiseInv, HasBucket
<1> QED
  BY <1>5, <1>6, <1>7 DEF LimiterInv

LEMMA BucketStep ==
    ASSUME LimiterInv, NEW h \in Handlers, CheckBucket(h)
    PROVE  LimiterInv'
<1> DEFINE ip == task[h]
           old == BucketOf(ip)
           b == Refill(old, max_requests)
<1>1. ip \in Ips
  BY DEF CheckBucket, LimiterInv, TypeOK
<1>2. /\ now \in Nat /\ watch \in Nat /\ max_requests \in Nat \ {0}
      /\ allowed[ip] \in Nat /\ promised[ip] \in Nat \cup {-1}
  BY <1>1, LimiterAssumption DEF LimiterInv, TypeOK
<1>3. /\ old \in Bucket(max_requests) /\ old.last_refill <= now
      /\ Fits(old, allowed[ip], max_requests)
  BY <1>1, BucketFacts
<1>4. /\ b \in Bucket(max_requests) /\ b.last_refill <= now
      /\ now - b.last_refill < refill_rate
      /\ b = old \/ b.tokens > 0
      /\ Fits(b, allowed[ip], max_requests)
  BY <1>2, <1>3, RefillFacts, RefillFits
<1>5. UNCHANGED <<now, global, watch, passed>>
  BY DEF CheckBucket
<1>6. PICK c : /\ buckets' = [buckets EXCEPT ![ip] = c]
               /\ c \in Bucket(max_requests) /\ c.last_refill <= now
               /\ allowed' \in [Ips -> Nat]
               /\ \A x \in Ips \ {ip} : allowed'[x] = allowed[x]
               /\ Fits(c, allowed'[ip], max_requests)
               /\ \/ promised' = [promised EXCEPT ![ip] = -1]
                  \/ /\ c = b /\ ~(b.tokens > 0)
                     /\ promised' = [promised EXCEPT ![ip] =
                                        IF @ = -1 THEN now + RetryAfter ELSE @]
  <2>1. CASE b.tokens > 0
    <3>1. /\ buckets' = [buckets EXCEPT ![ip] = Take(b)]
          /\ allowed' = [allowed EXCEPT ![ip] = @ + Counted]
          /\ promised' = [promised EXCEPT ![ip] = -1]
      BY <2>1 DEF CheckBucket
    <3> HIDE DEF b, ip
    <3>2. /\ Take(b) \in Bucket(max_requests) /\ Take(b).last_refill = b.last_refill
          /\ Fits(Take(b), allowed[ip] + Counted, max_requests)
      BY <1>2, <1>4, <2>1, TakeFits
    <3>3. allowed \in [Ips -> Nat] /\ Counted \in Nat
      BY DEF LimiterInv, TypeOK, Counted
    <3>4. /\ allowed' \in [Ips -> Nat]
          /\ allowed'[ip] = allowed[ip] + Counted
          /\ \A x \in Ips \ {ip} : allowed'[x] = allowed[x]
      BY <1>1, <1>2, <3>1, <3>3
    <3> QED
      BY <1>4, <3>1, <3>2, <3>4
  <2>2. CASE ~(b.tokens > 0)
    <3>1. /\ buckets' = [buckets EXCEPT ![ip] = b]
          /\ allowed' = allowed
          /\ promised' = [promised EXCEPT ![ip] =
                             IF @ = -1 THEN now + RetryAfter ELSE @]
      BY <2>2 DEF CheckBucket
    <3> HIDE DEF b, ip
    <3>2. allowed \in [Ips -> Nat]
      BY DEF LimiterInv, TypeOK
    <3> QED
      BY <1>4, <2>2, <3>1, <3>2
  <2> QED
    BY <2>1, <2>2
<1>7. /\ buckets \in [Ips -> Bucket(max_requests) \cup {NoBucket}]
      /\ promised \in [Ips -> Nat \cup {-1}]
  BY DEF LimiterInv, TypeOK
<1>8. /\ buckets'[ip] = c /\ c # NoBucket
      /\ \A x \in Ips \ {ip} : buckets'[x] = buckets[x] /\ promised'[x] = promised[x]
  <2>1. c.last_refill # -1
    BY <1>6 DEF Bucket
  <2> QED
    BY <1>1, <1>6, <1>7, <2>1 DEF NoBucket
<1>9. promised' \in [Ips -> Nat \cup {-1}]
  <2>1. now + RetryAfter \in Nat
    BY <1>2, RetryFacts
  <2> QED
    BY <1>6, <1>7, <2>1
<1>10. TypeOK'
  <2>1. buckets' \in [Ips -> Bucket(max_requests) \cup {NoBucket}]
    BY <1>6, <1>7
  <2>2. \A x \in Ips : buckets'[x].last_refill <= now
    BY <1>6, <1>8 DEF LimiterInv, TypeOK
  <2>3. task' \in [Handlers -> Ips \cup {None}]
    BY DEF CheckBucket, LimiterInv, TypeOK
  <2> QED
    BY <1>5, <1>6, <1>9, <2>1, <2>2, <2>3 DEF LimiterInv, TypeOK, Bucket
<1>11. AccountInv'
  <2>1. Fits(global, passed, GlobalMax)'
    BY <1>5 DEF LimiterInv, AccountInv, Fits
  <2>2. ASSUME NEW x \in Ips
        PROVE  (IF HasBucket(x)
                THEN Fits(buckets[x], allowed[x], max_requests)
                ELSE FitsNone(allowed[x]))'
    <3>1. CASE x = ip
      BY <1>5, <1>6, <1>8, <3>1 DEF HasBucket, Fits
    <3>2. CASE x # ip
      BY <1>5, <1>6, <1>8, <3>2 DEF LimiterInv, AccountInv, HasBucket, Fits, FitsNone
    <3> QED
      BY <3>1, <3>2
  <2> QED
    BY <2>1, <2>2 DEF AccountInv
<1>12. PromiseInv'
  <2> SUFFICES ASSUME NEW x \in Ips, promised'[x] # -1, HasBucket(x)'
               PROVE  \/ buckets'[x].tokens > 0
                      \/ buckets'[x].last_refill + refill_rate <= promised'[x] + Second
    BY DEF PromiseInv
  <2>1. CASE x # ip
    BY <1>8, <2>1 DEF LimiterInv, PromiseInv, HasBucket
  <2>2. CASE x = ip
    <3>1. /\ c = b /\ ~(b.tokens > 0) /\ b = old
          /\ promised'[ip] = IF promised[ip] = -1 THEN now + RetryAfter ELSE promised[ip]
      BY <1>1, <1>4, <1>6, <1>7, <2>2
    <3>2. HasBucket(ip) /\ old = buckets[ip]
      BY <1>2, <3>1 DEF BucketOf
    <3>3. promised[ip] # -1 => old.last_refill + refill_rate <= promised[ip] + Second
      BY <1>1, <3>1, <3>2 DEF LimiterInv, PromiseInv
    <3>4. old.last_refill + refill_rate <= promised'[ip] + Second
      <4>1. old.last_refill \in Nat
        BY <1>3 DEF Bucket
      <4> HIDE DEF old
      <4>2. CASE promised[ip] = -1
        BY <1>2, <1>3, <3>1, <4>1, <4>2, RateFacts, RetryFacts, LimiterAssumption
      <4>3. CASE promised[ip] # -1
        BY <3>1, <3>3, <4>3
      <4>4. QED
        BY <4>2, <4>3
    <3> HIDE DEF old
    <3> QED
      BY <1>8, <2>2, <3>1, <3>4
  <2> QED
    BY <2>1, <2>2
<1> QED
  BY <1>10, <1>11, <1>12 DEF LimiterInv

LEMMA CleanupStep == LimiterInv /\ Cleanup => LimiterInv'
<1> SUFFICES ASSUME LimiterInv, Cleanup PROVE LimiterInv'
  OBVIOUS
<1>1. UNCHANGED <<now, global, task, watch, passed, allowed, promised>>
  BY DEF Cleanup, observer
<1>2. ASSUME NEW ip \in Ips
      PROVE  \/ buckets'[ip] = buckets[ip]
             \/ /\ buckets'[ip] = NoBucket
                /\ HasBucket(ip) => now - buckets[ip].last_refill >= max_age
  <2>1. buckets[ip].last_refill \in Int /\ now \in Int /\ max_age \in Int
    BY LimiterAssumption DEF LimiterInv, TypeOK, Bucket, NoBucket
  <2> QED
    BY <2>1 DEF Cleanup
<1>3. TypeOK'
  <2>1. buckets' \in [Ips -> Bucket(max_requests) \cup {NoBucket}]
    BY DEF Cleanup, LimiterInv, TypeOK
  <2>2. \A ip \in Ips : buckets'[ip].last_refill <= now
    BY <1>2 DEF LimiterInv, TypeOK, NoBucket
  <2> QED
    BY <1>1, <2>1, <2>2 DEF LimiterInv, TypeOK, Bucket
<1>4. AccountInv'
  <2>1. Fits(global, passed, GlobalMax)'
    BY <1>1 DEF LimiterInv, AccountInv, Fits
  <2>2. ASSUME NEW ip \in Ips
        PROVE  (IF HasBucket(ip)
                THEN Fits(buckets[ip], allowed[ip], max_requests)
                ELSE FitsNone(allowed[ip]))'
    <3>1. CASE buckets'[ip] = buckets[ip]
      BY <1>1, <3>1 DEF LimiterInv, AccountInv, HasBucket, Fits, FitsNone
    <3>2. CASE buckets'[ip] = NoBucket /\ HasBucket(ip)
      <4>1. /\ buckets[ip] \in Bucket(max_requests) /\ allowed[ip] \in Nat
            /\ now \in Nat /\ watch \in Nat
            /\ now - buckets[ip].last_refill >= max_age
            /\ Fits(buckets[ip], allowed[ip], max_requests)
        BY <1>2, <3>2 DEF LimiterInv, TypeOK, AccountInv, HasBucket
      <4>2. FitsNone(allowed[ip])
        BY <4>1, DropFits
      <4> QED
        BY <1>1, <3>2, <4>2 DEF HasBucket, FitsNone
    <3>3. CASE buckets'[ip] = NoBucket /\ ~HasBucket(ip)
      BY <1>1, <3>3 DEF LimiterInv, AccountInv, HasBucket, FitsNone
    <3> QED
      BY <1>2, <3>1, <3>2, <3>3
  <2> QED
    BY <2>1, <2>2 DEF AccountInv
<1>5. PromiseInv'
  BY <1>1, <1>2 DEF LimiterInv, PromiseInv, HasBucket
<1> QED
  BY <1>3, <1>4, <1>5 DEF LimiterInv

LEMMA TickStep == LimiterInv /\ Tick => LimiterInv'
<1> SUFFICES ASSUME LimiterInv, Tick PROVE LimiterInv'
  OBVIOUS
<1>1. /\ UNCHANGED <<global, buckets, task, watch, passed, allowed, promised>>
      /\ now' = now + 1 /\ now \in Nat /\ watch \in Nat
  BY DEF Tick, observer, LimiterInv, TypeOK
<1>2. TypeOK'
  <2>1. \A ip \in Ips : buckets[ip].last_refill \in Int /\ buckets[ip].last_refill <= now + 1
    BY <1>1 DEF LimiterInv, TypeOK, Bucket, NoBucket
  <2>2. global.last_refill \in Nat /\ global.last_refill <= now + 1
    BY <1>1 DEF LimiterInv, TypeOK, Bucket
  <2> QED
    BY <1>1, <2>1, <2>2 DEF LimiterInv, TypeOK, Bucket
<1>3. Fits(global, passed, GlobalMax)'
  BY <1>1 DEF LimiterInv, AccountInv, Fits
<1>4. ASSUME NEW ip \in Ips
      PROVE  (IF HasBucket(ip)
              THEN Fits(buckets[ip], allowed[ip], max_requests)
              ELSE FitsNone(allowed[ip]))'
  <2>1. CASE HasBucket(ip)
    BY <1>1, <2>1 DEF LimiterInv, AccountInv, HasBucket, Fits
  <2>2. CASE ~HasBucket(ip)
    <3> DEFINE spent == (allowed[ip] - 1) * refill_rate
    <3>1. /\ allowed[ip] \in Nat
          /\ now < watch => allowed[ip] = 0
          /\ now >= watch => spent <= now - watch
      BY <2>2 DEF LimiterInv, TypeOK, AccountInv, FitsNone
    <3>2. spent \in Int
      BY <3>1, Scaling
    <3>3. allowed[ip] = 0 => spent <= 0
      BY NonePositive
    <3>4. ~HasBucket(ip)' /\ allowed'[ip] = allowed[ip]
      BY <1>1, <2>2 DEF HasBucket
    <3> HIDE DEF spent
    <3>5. IF now' < watch' THEN allowed[ip] = 0 ELSE spent <= now' - watch'
      BY <1>1, <3>1, <3>2, <3>3
    <3> QED
      BY <3>4, <3>5 DEF FitsNone, spent
  <2> QED
    BY <2>1, <2>2
<1>5. PromiseInv'
  BY <1>1 DEF LimiterInv, PromiseInv, HasBucket
<1> QED
  BY <1>2, <1>3, <1>4, <1>5 DEF LimiterInv, AccountInv

LEMMA LimiterStep == LimiterInv /\ [Next]_vars => LimiterInv'
<1> SUFFICES ASSUME LimiterInv, [Next]_vars PROVE LimiterInv'
  OBVIOUS
<1>1. ASSUME NEW h \in Handlers, NEW ip \in Ips, CheckGlobal(h, ip) PROVE LimiterInv'
  BY <1>1, GlobalStep
<1>2. ASSUME NEW h \in Handlers, CheckBucket(h) PROVE LimiterInv'
  BY <1>2, BucketStep
<1>3. CASE UNCHANGED vars
  BY <1>3 DEF vars, observer, LimiterInv, TypeOK, Bucket, AccountInv, PromiseInv, HasBucket,
              Fits, FitsNone
<1> QED
  BY <1>1, <1>2, <1>3, CleanupStep, TickStep DEF Next

LEMMA LimiterHolds == Spec => []LimiterInv
BY LimiterInit, LimiterStep, PTL DEF Spec

\* Buckets hold between none and all of their tokens, and no clock of a bucket
\* runs ahead (security.rs:36).
THEOREM LimiterTypes == Spec => []TypeOK
<1>1. LimiterInv => TypeOK
  BY DEF LimiterInv
<1> QED
  BY <1>1, LimiterHolds, PTL

\* No address, and not all of them together, get more than the full bucket,
\* one token per interval and the one under way, from whatever moment one
\* counts (security.rs:97).
THEOREM Limited == Spec => []AllowedIsBounded
<1>1. LimiterInv => AllowedIsBounded
  <2> SUFFICES ASSUME LimiterInv, now >= watch
               PROVE  /\ Within(passed, GlobalMax)
                      /\ \A ip \in Ips : Within(allowed[ip], max_requests)
    BY DEF AllowedIsBounded
  <2>1. Within(passed, GlobalMax)
    BY FitsWithin, GlobalPositive DEF LimiterInv, TypeOK, AccountInv
  <2>2. ASSUME NEW ip \in Ips PROVE Within(allowed[ip], max_requests)
    <3>1. /\ BucketOf(ip) \in Bucket(max_requests) /\ BucketOf(ip).last_refill <= now
          /\ Fits(BucketOf(ip), allowed[ip], max_requests)
      BY BucketFacts
    <3> QED
      BY <3>1, FitsWithin, LimiterAssumption DEF LimiterInv, TypeOK
  <2> QED
    BY <2>1, <2>2
<1> QED
  BY <1>1, LimiterHolds, PTL

\* A client that waits a second longer than it was told finds a token in its bucket
\* (security.rs:124, auth.rs:124).
THEOREM Promised == Spec => []RetryAfterHolds
<1>1. LimiterInv => RetryAfterHolds
  <2> SUFFICES ASSUME LimiterInv, NEW ip \in Ips, promised[ip] # -1,
                      now >= promised[ip] + Second
               PROVE  Refill(BucketOf(ip), max_requests).tokens > 0
    BY DEF RetryAfterHolds
  <2> DEFINE old == BucketOf(ip)
  <2>1. /\ old \in Bucket(max_requests) /\ old.last_refill <= now
        /\ now \in Nat /\ promised[ip] \in Int /\ Second \in Nat
    BY BucketFacts, LimiterAssumption DEF LimiterInv, TypeOK
  <2>2. old.tokens > 0 \/ old.last_refill + refill_rate <= now
    <3>1. CASE HasBucket(ip)
      BY <2>1, <3>1, RateFacts DEF LimiterInv, PromiseInv, BucketOf, Bucket
    <3>2. CASE ~HasBucket(ip)
      BY <3>2, LimiterAssumption DEF BucketOf
    <3> QED
      BY <3>1, <3>2
  <2> HIDE DEF old
  <2>3. \/ Refill(old, max_requests) = old /\ now - old.last_refill < refill_rate
        \/ Refill(old, max_requests).tokens > 0
    BY <2>1, RefillFacts, LimiterAssumption
  <2>4. QED
    BY <2>1, <2>2, <2>3, RateFacts DEF old, Bucket
<1> QED
  BY <1>1, LimiterHolds, PTL

----------------------------------------------------------------------------
\* Durations

States == [pc : {"off", "count", "load", "swap", "bucket"}, micros : Nat, current_max : Nat]

\* What is needed of the types, without the histogram.
MaximumTypes ==
    /\ request_duration_max_us \in Nat
    /\ timer \in [Timers -> States]
    /\ folded \subseteq Nat

\* A timer that is about to swap holds a duration above the maximum it saw; a
\* successful swap therefore raises the maximum.
SwapsRaise == \A t \in Timers : timer[t].pc = "swap" => timer[t].micros > timer[t].current_max

MaximumInv == MaximumTypes /\ SwapsRaise /\ MaximumIsKept

\* A comparison with the present maximum keeps everything.
LEMMA CompareKeeps ==
    ASSUME NEW t \in Timers, MaximumInv, Compare(t, request_duration_max_us),
           UNCHANGED request_duration_max_us
    PROVE  MaximumInv'
<1>1. timer[t] \in States /\ request_duration_max_us \in Nat
  BY DEF MaximumInv, MaximumTypes
<1>2. CASE timer[t].micros > request_duration_max_us
  <2>1. /\ timer' = [timer EXCEPT ![t].pc = "swap", ![t].current_max = request_duration_max_us]
        /\ folded' = folded
    BY <1>2 DEF Compare
  <2>2. timer' \in [Timers -> States]
    BY <1>1, <2>1 DEF MaximumInv, MaximumTypes, States
  <2>3. SwapsRaise'
    BY <1>1, <1>2, <2>1 DEF MaximumInv, MaximumTypes, SwapsRaise, States
  <2> QED
    BY <2>1, <2>2, <2>3 DEF MaximumInv, MaximumTypes, MaximumIsKept
<1>3. CASE ~(timer[t].micros > request_duration_max_us)
  <2>1. /\ timer' = [timer EXCEPT ![t].pc = "bucket"]
        /\ folded' = folded \cup {timer[t].micros}
        /\ timer[t].micros \in Nat /\ timer[t].micros <= request_duration_max_us
    BY <1>1, <1>3 DEF Compare, States
  <2>2. timer' \in [Timers -> States]
    BY <1>1, <2>1 DEF MaximumInv, MaximumTypes, States
  <2>3. SwapsRaise'
    BY <1>1, <2>1 DEF MaximumInv, MaximumTypes, SwapsRaise, States
  <2>4. MaximumIsKept'
    BY <2>1 DEF MaximumInv, MaximumIsKept
  <2> QED
    BY <2>1, <2>2, <2>3, <2>4 DEF MaximumInv, MaximumTypes
<1> QED
  BY <1>2, <1>3

\* What moves a timer to a state in which it does not swap, and nothing else that
\* the invariant is about, keeps it.
LEMMA MoveKeeps ==
    ASSUME NEW t \in Timers, NEW s \in States, MaximumInv, s.pc # "swap",
           timer' = [timer EXCEPT ![t] = s], UNCHANGED <<request_duration_max_us, folded>>
    PROVE  MaximumInv'
BY DEF MaximumInv, MaximumTypes, SwapsRaise, MaximumIsKept

LEMMA MaximumInit == DurationsInit => MaximumInv
BY DEF DurationsInit, MaximumInv, MaximumTypes, SwapsRaise, MaximumIsKept, Off, States

LEMMA MaximumStep == MaximumInv /\ [DurationsNext]_durationVars => MaximumInv'
<1> SUFFICES ASSUME MaximumInv, [DurationsNext]_durationVars PROVE MaximumInv'
  OBVIOUS
<1> USE DEF totals, durations
<1>0. \A t \in Timers : timer[t] \in States
  BY DEF MaximumInv, MaximumTypes
<1>1. ASSUME NEW t \in Timers, NEW us \in Micros, Drop(t, us) PROVE MaximumInv'
  <2>1. [pc |-> "count", micros |-> us, current_max |-> 0] \in States
    BY DurationAssumption DEF States
  <2> QED
    BY <1>1, <2>1, MoveKeeps DEF Drop
<1>2. ASSUME NEW t \in Timers, Count(t) PROVE MaximumInv'
  <2>1. [timer[t] EXCEPT !.pc = "load"] \in States
    BY <1>0 DEF States
  <2>2. [timer[t] EXCEPT !.pc = "load"].pc = "load"
    BY <1>0 DEF States
  <2>3. timer' = [timer EXCEPT ![t] = [timer[t] EXCEPT !.pc = "load"]]
    BY <1>2 DEF Count
  <2> QED
    BY <1>2, <2>1, <2>2, <2>3, MoveKeeps DEF Count
<1>3. ASSUME NEW t \in Timers, Load(t) PROVE MaximumInv'
  BY <1>3, CompareKeeps DEF Load
<1>4. ASSUME NEW t \in Timers, Swap(t) PROVE MaximumInv'
  <2>1. CASE Compare(t, request_duration_max_us) /\ UNCHANGED request_duration_max_us
    BY <2>1, CompareKeeps
  <2>2. CASE /\ request_duration_max_us = timer[t].current_max
             /\ request_duration_max_us' = timer[t].micros
             /\ timer' = [timer EXCEPT ![t].pc = "bucket"]
             /\ folded' = folded \cup {timer[t].micros}
    <3>1. /\ timer[t].micros \in Nat /\ request_duration_max_us \in Nat
          /\ timer[t].micros > request_duration_max_us
      BY <1>0, <1>4, <2>2 DEF Swap, MaximumInv, MaximumTypes, SwapsRaise, States
    <3>2. timer' \in [Timers -> States]
      BY <1>0, <2>2 DEF MaximumInv, MaximumTypes, States
    <3>3. SwapsRaise'
      BY <1>0, <2>2 DEF MaximumInv, MaximumTypes, SwapsRaise, States
    <3>4. MaximumIsKept'
      BY <2>2, <3>1 DEF MaximumInv, MaximumTypes, MaximumIsKept
    <3> QED
      BY <2>2, <3>1, <3>2, <3>3, <3>4 DEF MaximumInv, MaximumTypes
  <2> QED
    BY <1>4, <2>1, <2>2 DEF Swap
<1>5. ASSUME NEW t \in Timers, CountBucket(t) PROVE MaximumInv'
  <2>1. Off \in States /\ Off.pc = "off"
    BY DEF Off, States
  <2> QED
    BY <1>5, <2>1, MoveKeeps DEF CountBucket
<1>6. CASE ResetMax
  BY <1>6 DEF ResetMax, MaximumInv, MaximumTypes, SwapsRaise, MaximumIsKept
<1>7. CASE ResetSum \/ ResetCount \/ ResetBuckets \/ UNCHANGED durationVars
  BY <1>7 DEF ResetSum, ResetCount, ResetBuckets, durationVars, MaximumInv, MaximumTypes,
              SwapsRaise, MaximumIsKept
<1> QED
  BY <1>1, <1>2, <1>3, <1>4, <1>5, <1>6, <1>7 DEF DurationsNext

\* The maximum is the largest duration compared with it since its reset, for any
\* number of requests that end at once and whenever a reset falls between their
\* loads and their swaps (metrics.rs:182, 311).
THEOREM Maximum == DurationsSpec => []MaximumIsKept
<1>1. MaximumInv => MaximumIsKept
  BY DEF MaximumInv
<1> QED
  BY <1>1, MaximumInit, MaximumStep, PTL DEF DurationsSpec

LEMMA BucketIsOne == ASSUME NEW ms PROVE BucketFor(ms) \in 1..11
<1> DEFINE above == {i \in 1..Len(BUCKET_BOUNDS_MS) : ms < BUCKET_BOUNDS_MS[i]}
<1>1. Len(BUCKET_BOUNDS_MS) = 10
  BY DEF BUCKET_BOUNDS_MS
<1>2. above \subseteq 1..10
  BY <1>1
<1> HIDE DEF above
<1>3. CASE above = {}
  BY <1>3 DEF BucketFor, above
<1>4. CASE above # {}
  <2>1. \E i \in above : \A j \in above : i <= j
    <3>1. PICK k \in above : TRUE
      BY <1>4
    <3> DEFINE least(i) == i \in above /\ \A j \in 1..(i - 1) : j \notin above
    <3>2. \E i \in 1..10 : least(i)
      BY <1>2, <3>1
    <3>3. PICK i \in 1..10 : least(i)
      BY <3>2
    <3>4. \A j \in above : i <= j
      BY <1>2, <3>3
    <3>5. QED
      BY <3>3, <3>4
  <2> DEFINE first == CHOOSE i \in above : \A j \in above : i <= j
  <2>2. first \in above
    BY <2>1
  <2>3. BucketFor(ms) = first
    BY <1>4 DEF BucketFor, above
  <2> HIDE DEF first
  <2>4. QED
    BY <1>2, <2>2, <2>3
<1>5. QED
  BY <1>3, <1>4

DurationTypes ==
    /\ MaximumInv
    /\ request_duration_sum_us \in Nat /\ request_duration_count \in Nat
    /\ latency_buckets \in [1..11 -> Nat]
    /\ resetting \in {"off", "count", "max", "buckets"}
    /\ torn \in BOOLEAN
    /\ drops \in Nat

LEMMA DurationTypesInit == DurationsInit => DurationTypes
<1> SUFFICES ASSUME DurationsInit PROVE DurationTypes
  OBVIOUS
<1>1. MaximumInv
  BY DEF DurationsInit, MaximumInv, MaximumTypes, SwapsRaise, MaximumIsKept, Off, States
<1>2. NoBuckets \in [1..11 -> Nat]
  BY DEF NoBuckets
<1>3. QED
  BY <1>1, <1>2 DEF DurationsInit, DurationTypes

LEMMA DurationTypesStep == DurationTypes /\ [DurationsNext]_durationVars => DurationTypes'
<1> SUFFICES ASSUME DurationTypes, [DurationsNext]_durationVars PROVE DurationTypes'
  OBVIOUS
<1>1. MaximumInv'
  BY MaximumStep DEF DurationTypes
<1>2. /\ request_duration_sum_us \in Nat /\ request_duration_count \in Nat
      /\ latency_buckets \in [1..11 -> Nat]
      /\ resetting \in {"off", "count", "max", "buckets"}
      /\ torn \in BOOLEAN
      /\ drops \in Nat
  BY DEF DurationTypes
<1>3. ASSUME NEW t \in Timers, NEW us \in Micros, Drop(t, us) PROVE DurationTypes'
  BY <1>1, <1>2, <1>3, DurationAssumption DEF Drop, Overlapped, DurationTypes
<1>4. ASSUME NEW t \in Timers, Count(t) PROVE DurationTypes'
  BY <1>1, <1>2, <1>4 DEF Count, Overlapped, DurationTypes
<1>9. ASSUME NEW t \in Timers, Load(t) \/ Swap(t) PROVE DurationTypes'
  <2>1. UNCHANGED <<totals, latency_buckets, resetting, drops>> /\ Overlapped
    BY <1>9 DEF Load, Swap, durations
  <2>2. torn' \in BOOLEAN
    BY <1>2, <2>1 DEF Overlapped
  <2>3. QED
    BY <1>1, <1>2, <2>1, <2>2 DEF DurationTypes, totals
<1>5. ASSUME NEW t \in Timers, CountBucket(t) PROVE DurationTypes'
  <2> DEFINE b == BucketFor(timer[t].micros \div 1000)
  <2>1. b \in 1..11
    BY BucketIsOne
  <2>2. latency_buckets' = [latency_buckets EXCEPT ![b] = @ + 1]
    BY <1>5 DEF CountBucket
  <2> HIDE DEF b
  <2>3. latency_buckets' \in [1..11 -> Nat]
    BY <1>2, <2>1, <2>2
  <2>4. QED
    BY <1>1, <1>2, <1>5, <2>3 DEF CountBucket, Overlapped, DurationTypes, totals
<1>6. CASE ResetSum \/ ResetCount \/ ResetMax \/ ResetBuckets
  <2>1. NoBuckets \in [1..11 -> Nat]
    BY DEF NoBuckets
  <2>2. CASE ResetSum
    BY <1>1, <1>2, <2>2 DEF ResetSum, DurationTypes
  <2>3. CASE ResetCount
    BY <1>1, <1>2, <2>3 DEF ResetCount, DurationTypes
  <2>4. CASE ResetMax
    BY <1>1, <1>2, <2>4 DEF ResetMax, DurationTypes, totals
  <2>5. CASE ResetBuckets
    BY <1>1, <1>2, <2>1, <2>5 DEF ResetBuckets, DurationTypes, totals
  <2>6. QED
    BY <1>6, <2>2, <2>3, <2>4, <2>5
<1>7. CASE UNCHANGED durationVars
  BY <1>1, <1>2, <1>7 DEF durationVars, durations, totals, DurationTypes
<1>8. QED
  BY <1>3, <1>4, <1>9, <1>5, <1>6, <1>7 DEF DurationsNext

LEMMA DurationTypesMean == DurationTypes => DurationsOK
BY DEF DurationTypes, MaximumInv, MaximumTypes, DurationsOK, States

\* The durations in the first buckets, by the recursion of Held.
Sums(f, h, m) == f = [b \in 0..m |-> IF b = 0 THEN 0 ELSE f[b - 1] + h[b]]

\* Held by the name of its recursion.
LEMMA HeldIsSum == ASSUME NEW h PROVE Held(h) = (CHOOSE f : Sums(f, h, 11))[11]
BY DEF Held, Sums

\* The recursion has a solution.
LEMMA SumsExist ==
    ASSUME NEW h
    PROVE  \E f : Sums(f, h, 11)
<1> DEFINE bad == {m \in Nat : ~ \E f : Sums(f, h, m)}
<1> SUFFICES bad = {}
  OBVIOUS
<1> SUFFICES ASSUME bad # {} PROVE FALSE
  OBVIOUS
<1>1. PICK m \in bad : \A k \in bad : m <= k
  <2>1. bad \subseteq Nat
    OBVIOUS
  <2> HIDE DEF bad
  <2> QED
    BY <2>1, Smallest
<1>2. m \in Nat /\ ~ \E f : Sums(f, h, m)
  OBVIOUS
<1>3. CASE m = 0
  <2> DEFINE f == [b \in 0..0 |-> 0]
  <2>1. f = [b \in 0..0 |-> IF b = 0 THEN 0 ELSE f[b - 1] + h[b]]
    OBVIOUS
  <2>2. Sums(f, h, m)
    BY <1>3, <2>1 DEF Sums
  <2> QED
    BY <1>2, <2>2
<1>4. CASE m # 0
  <2>1. m - 1 \in Nat /\ m - 1 \notin bad
    BY <1>1, <1>2, <1>4
  <2>2. PICK g : Sums(g, h, m - 1)
    BY <2>1
  <2> DEFINE f == [b \in 0..m |-> IF b = m THEN g[m - 1] + h[m] ELSE g[b]]
  <2>3. \A b \in 0..(m - 1) : g[b] = IF b = 0 THEN 0 ELSE g[b - 1] + h[b]
    BY <2>2 DEF Sums
  <2>4. \A b \in 0..m : f[b] = IF b = 0 THEN 0 ELSE f[b - 1] + h[b]
    <3> SUFFICES ASSUME NEW b \in 0..m PROVE f[b] = IF b = 0 THEN 0 ELSE f[b - 1] + h[b]
      OBVIOUS
    <3>1. CASE b = m
      <4>1. b # 0 /\ b - 1 = m - 1 /\ b - 1 \in 0..m /\ b - 1 # m
        BY <1>2, <1>4, <3>1
      <4> QED
        BY <3>1, <4>1
    <3>2. CASE b = 0
      BY <1>2, <1>4, <2>3, <3>2
    <3>3. CASE b # m /\ b # 0
      <4>1. b \in 0..(m - 1) /\ b - 1 \in 0..m /\ b - 1 # m
        BY <1>2, <3>3
      <4> QED
        BY <2>3, <3>3, <4>1
    <3> QED
      BY <3>1, <3>2, <3>3
  <2>5. DOMAIN f = 0..m /\ f = [b \in 0..m |-> f[b]]
    OBVIOUS
  <2> HIDE DEF f
  <2>6. Sums(f, h, m)
    BY <2>4, <2>5 DEF Sums
  <2> QED
    BY <1>2, <2>6
<1> QED
  BY <1>3, <1>4

\* So Held is what a solution of its recursion has in the end.
LEMMA HeldSums == ASSUME NEW h PROVE \E f : Sums(f, h, 11) /\ Held(h) = f[11]
<1> DEFINE f == CHOOSE f : Sums(f, h, 11)
<1>1. Sums(f, h, 11) /\ Held(h) = f[11]
  BY SumsExist, HeldIsSum
<1> QED
  BY <1>1

\* One more in a bucket is one more in all.
LEMMA HeldMore ==
    ASSUME NEW h \in [1..11 -> Nat], NEW b \in 1..11,
           NEW k, k = [h EXCEPT ![b] = @ + 1]
    PROVE  Held(h) \in Nat /\ Held(k) = Held(h) + 1
<1>1. PICK f : Sums(f, h, 11) /\ Held(h) = f[11]
  BY HeldSums
<1>2. PICK g : Sums(g, k, 11) /\ Held(k) = g[11]
  BY HeldSums
<1> DEFINE good(n) == f[n] \in Nat /\ g[n] = f[n] + (IF b <= n THEN 1 ELSE 0)
           bad == {n \in 0..11 : ~good(n)}
<1>3. \A n \in 0..11 : /\ f[n] = IF n = 0 THEN 0 ELSE f[n - 1] + h[n]
                       /\ g[n] = IF n = 0 THEN 0 ELSE g[n - 1] + k[n]
  BY <1>1, <1>2 DEF Sums
<1>4. \A n \in 1..11 : h[n] \in Nat /\ k[n] = IF n = b THEN h[n] + 1 ELSE h[n]
  OBVIOUS
<1>5. ASSUME bad # {} PROVE FALSE
  <2>1. PICK n \in bad : \A i \in bad : n <= i
    <3>1. bad \subseteq Nat
      OBVIOUS
    <3> HIDE DEF bad
    <3> QED
      BY <1>5, <3>1, Smallest
  <2>2. n \in 0..11 /\ ~good(n)
    OBVIOUS
  <2>3. CASE n = 0
    BY <1>3, <2>2, <2>3
  <2>4. CASE n # 0
    <3>1. n - 1 \in 0..11 /\ n - 1 \notin bad /\ n \in 1..11
      BY <2>1, <2>2, <2>4
    <3>2. good(n - 1)
      BY <3>1
    <3>3. f[n] = f[n - 1] + h[n] /\ g[n] = g[n - 1] + k[n]
      BY <1>3, <2>4, <3>1
    <3>4. h[n] \in Nat /\ k[n] = IF n = b THEN h[n] + 1 ELSE h[n]
      BY <1>4, <3>1
    <3> QED
      BY <2>2, <3>1, <3>2, <3>3, <3>4
  <2> QED
    BY <2>3, <2>4
<1>6. good(11)
  BY <1>5
<1> QED
  BY <1>1, <1>2, <1>6

\* Empty buckets hold nothing.
LEMMA HeldNone == Held(NoBuckets) = 0
<1>1. PICK f : Sums(f, NoBuckets, 11) /\ Held(NoBuckets) = f[11]
  BY HeldSums
<1>2. \A n \in 0..11 : f[n] = IF n = 0 THEN 0 ELSE f[n - 1] + NoBuckets[n]
  BY <1>1 DEF Sums
<1>3. \A n \in 1..11 : NoBuckets[n] = 0
  BY DEF NoBuckets
<1>4. ASSUME NEW n \in 1..11, f[n - 1] = 0 PROVE f[n] = 0
  BY <1>2, <1>3, <1>4
<1>5. f[1] = 0 /\ f[2] = 0 /\ f[3] = 0 /\ f[4] = 0 /\ f[5] = 0 /\ f[6] = 0
  BY <1>2, <1>4
<1>6. f[7] = 0 /\ f[8] = 0 /\ f[9] = 0 /\ f[10] = 0 /\ f[11] = 0
  BY <1>4, <1>5
<1> QED
  BY <1>1, <1>6

\* Timers that are not yet counted, and those that are but in no bucket.
NotCounted == {t \in Timers : timer[t].pc = "count"}
NotHeld == {t \in Timers : timer[t].pc \in {"load", "swap", "bucket"}}

\* Whatever is above the maximum and above all that is still to be compared with it
\* is above the average.
Above(m) ==
    /\ request_duration_max_us <= m
    /\ \A t \in Timers : timer[t].pc \in {"count", "load", "swap"} => timer[t].micros <= m
SumIsBounded ==
    \A m \in Nat : Above(m) =>
        request_duration_sum_us <= (request_duration_count + Cardinality(NotCounted)) * m

\* As long as no reset met a timer, the sum has what is counted and what is not yet,
\* and the histogram what is counted but for what is on its way there; a reset finds
\* nothing on its way.
Balance ==
    /\ IsFiniteSet(NotCounted) /\ IsFiniteSet(NotHeld)
    /\ Held(latency_buckets) + Cardinality(NotHeld) = request_duration_count
    /\ SumIsBounded
CleanReset ==
    /\ \A t \in Timers : timer[t] = Off
    /\ request_duration_sum_us = 0
    /\ resetting # "count" => request_duration_count = 0
    /\ resetting = "buckets" => request_duration_max_us = 0
BalanceInv == ~torn => IF resetting = "off" THEN Balance ELSE CleanReset

\* After a reset, and at the start, everything is zero.
Emptied ==
    /\ \A t \in Timers : timer[t] = Off
    /\ latency_buckets = NoBuckets /\ request_duration_sum_us = 0 /\ request_duration_count = 0

LEMMA EmptyBalances == Emptied => Balance
<1> SUFFICES ASSUME Emptied PROVE Balance
  OBVIOUS
<1> USE DEF Emptied
<1>1. NotCounted = {} /\ NotHeld = {}
  BY DEF NotCounted, NotHeld, Off
<1>2. IsFiniteSet({}) /\ Cardinality({}) = 0
  BY FS_EmptySet
<1>3. \A m \in Nat : 0 <= (0 + 0) * m
  OBVIOUS
<1>4. SumIsBounded
  BY <1>1, <1>2, <1>3 DEF SumIsBounded
<1> QED
  BY <1>1, <1>2, <1>4, HeldNone DEF Balance

\* With nothing under way the balance is the property.
LEMMA BalanceMeans == DurationTypes /\ BalanceInv => DurationsAgree
<1> SUFFICES ASSUME DurationTypes, BalanceInv, resetting = "off", ~torn,
                    \A t \in Timers : timer[t] = Off
             PROVE  /\ Held(latency_buckets) = request_duration_count
                    /\ request_duration_sum_us <= request_duration_count * request_duration_max_us
  BY DEF DurationsAgree
<1>1. NotCounted = {} /\ NotHeld = {}
  BY DEF NotCounted, NotHeld, Off
<1>2. IsFiniteSet({}) /\ Cardinality({}) = 0
  BY FS_EmptySet
<1>3. /\ request_duration_max_us \in Nat /\ request_duration_count \in Nat
      /\ latency_buckets \in [1..11 -> Nat]
  BY DEF DurationTypes, MaximumInv, MaximumTypes
<1>4. Above(request_duration_max_us)
  BY <1>3 DEF Above, Off
<1>5. Balance
  BY DEF BalanceInv
<1>6. request_duration_sum_us <= (request_duration_count + 0) * request_duration_max_us
  BY <1>1, <1>2, <1>3, <1>4, <1>5 DEF Balance, SumIsBounded
<1>7. Held(latency_buckets) + 0 = request_duration_count /\ Held(latency_buckets) \in Nat
  <2>1. 1 \in 1..11
    OBVIOUS
  <2> QED
    BY <1>1, <1>2, <1>3, <1>5, <2>1, HeldMore DEF Balance
<1> QED
  BY <1>3, <1>6, <1>7

LEMMA BalanceInit == DurationsInit => BalanceInv
<1> SUFFICES ASSUME DurationsInit PROVE BalanceInv
  OBVIOUS
<1>1. \A t \in Timers : timer[t] = Off
  BY DEF DurationsInit
<1> QED
  BY <1>1, EmptyBalances DEF DurationsInit, BalanceInv, Emptied

\* What a step does to the timers under way: t leaves one of the sets, or joins it.
LEMMA SetStep ==
    ASSUME NEW S, NEW T, NEW t, IsFiniteSet(S), Cardinality(S) \in Nat
    PROVE  /\ T = S => IsFiniteSet(T) /\ Cardinality(T) = Cardinality(S)
           /\ T = S \cup {t} /\ t \notin S => IsFiniteSet(T) /\ Cardinality(T) = Cardinality(S) + 1
           /\ T = S \ {t} /\ t \in S => IsFiniteSet(T) /\ Cardinality(T) = Cardinality(S) - 1
BY FS_AddElement, FS_RemoveElement

\* The same of a timer that goes to the state s.
LEMMA MovedTimer ==
    ASSUME NEW t \in Timers, NEW s, timer \in [Timers -> States], timer' = [timer EXCEPT ![t] = s]
    PROVE  /\ NotCounted' = IF s.pc = "count" THEN NotCounted \cup {t} ELSE NotCounted \ {t}
           /\ NotHeld' = IF s.pc \in {"load", "swap", "bucket"} THEN NotHeld \cup {t} ELSE NotHeld \ {t}
           /\ t \in NotCounted <=> timer[t].pc = "count"
           /\ t \in NotHeld <=> timer[t].pc \in {"load", "swap", "bucket"}
<1>1. \A u \in Timers : timer'[u] = IF u = t THEN s ELSE timer[u]
  OBVIOUS
<1> QED
  BY <1>1 DEF NotCounted, NotHeld

LEMMA TimesMore == ASSUME NEW n \in Nat, NEW m \in Nat PROVE n * m \in Nat /\ (n + 1) * m = n * m + m
OBVIOUS

\* Each step of a timer and of a reset keeps the balance.
LEMMA BalanceDrop ==
    ASSUME NEW t \in Timers, NEW us \in Micros, DurationTypes, BalanceInv, Drop(t, us)
    PROVE  BalanceInv'
<1> SUFFICES ASSUME ~torn' PROVE resetting' = "off" /\ Balance'
  BY DEF BalanceInv
<1> DEFINE s == [pc |-> "count", micros |-> us, current_max |-> 0]
<1>1. ~torn /\ resetting = "off" /\ resetting' = "off"
  BY DEF Drop, Overlapped
<1>2. Balance
  BY <1>1 DEF BalanceInv
<1>3. /\ timer[t].pc = "off" /\ timer' = [timer EXCEPT ![t] = s]
      /\ request_duration_sum_us' = request_duration_sum_us + us
      /\ request_duration_count' = request_duration_count
      /\ request_duration_max_us' = request_duration_max_us
      /\ latency_buckets' = latency_buckets
  BY DEF Drop
<1>4. /\ timer \in [Timers -> States] /\ request_duration_sum_us \in Nat
      /\ request_duration_count \in Nat /\ request_duration_max_us \in Nat
      /\ us \in Nat
  BY DurationAssumption DEF DurationTypes, MaximumInv, MaximumTypes
<1>5. s.pc = "count" /\ s.micros = us
  OBVIOUS
<1> HIDE DEF s
<1>6. /\ NotCounted' = NotCounted \cup {t} /\ t \notin NotCounted
      /\ NotHeld' = NotHeld \ {t} /\ t \notin NotHeld
  BY <1>3, <1>4, <1>5, MovedTimer
<1>7. Cardinality(NotCounted) \in Nat /\ Cardinality(NotHeld) \in Nat
  BY <1>2, FS_CardinalityType DEF Balance
<1>8. /\ IsFiniteSet(NotCounted') /\ Cardinality(NotCounted') = Cardinality(NotCounted) + 1
      /\ NotHeld' = NotHeld
  BY <1>2, <1>6, <1>7, SetStep DEF Balance
<1>9. SumIsBounded'
  <2> SUFFICES ASSUME NEW m \in Nat, Above(m)'
               PROVE  request_duration_sum_us' <= (request_duration_count' + Cardinality(NotCounted')) * m
    BY DEF SumIsBounded
  <2>1. \A u \in Timers : timer'[u] = IF u = t THEN s ELSE timer[u]
    BY <1>3, <1>4
  <2>2. Above(m) /\ us <= m
    BY <1>3, <1>5, <2>1 DEF Above
  <2>3. request_duration_sum_us <= (request_duration_count + Cardinality(NotCounted)) * m
    BY <1>2, <2>2 DEF Balance, SumIsBounded
  <2>4. PICK n \in Nat : n = request_duration_count + Cardinality(NotCounted)
    BY <1>4, <1>7
  <2>5. request_duration_count' + Cardinality(NotCounted') = n + 1
    BY <1>3, <1>4, <1>7, <1>8, <2>4
  <2>6. request_duration_sum_us + us <= n * m + m
    BY <1>4, <2>2, <2>3, <2>4, TimesMore
  <2> QED
    BY <1>3, <2>4, <2>5, <2>6, TimesMore
<1> QED
  BY <1>1, <1>2, <1>3, <1>8, <1>9 DEF Balance

LEMMA BalanceCount ==
    ASSUME NEW t \in Timers, DurationTypes, BalanceInv, Count(t)
    PROVE  BalanceInv'
<1> SUFFICES ASSUME ~torn' PROVE resetting' = "off" /\ Balance'
  BY DEF BalanceInv
<1> DEFINE s == [timer[t] EXCEPT !.pc = "load"]
<1>1. ~torn /\ resetting = "off" /\ resetting' = "off"
  BY DEF Count, Overlapped
<1>2. Balance
  BY <1>1 DEF BalanceInv
<1>3. /\ timer[t].pc = "count" /\ timer' = [timer EXCEPT ![t] = s]
      /\ request_duration_count' = request_duration_count + 1
      /\ request_duration_sum_us' = request_duration_sum_us
      /\ request_duration_max_us' = request_duration_max_us
      /\ latency_buckets' = latency_buckets
  BY DEF Count
<1>4. /\ timer \in [Timers -> States] /\ request_duration_count \in Nat
      /\ timer[t] \in States /\ latency_buckets \in [1..11 -> Nat]
  BY DEF DurationTypes, MaximumInv, MaximumTypes
<1>5. s.pc = "load" /\ s.micros = timer[t].micros
  BY <1>4 DEF States
<1> HIDE DEF s
<1>6. /\ NotCounted' = NotCounted \ {t} /\ t \in NotCounted
      /\ NotHeld' = NotHeld \cup {t} /\ t \notin NotHeld
  BY <1>3, <1>4, <1>5, MovedTimer
<1>7. Cardinality(NotCounted) \in Nat /\ Cardinality(NotHeld) \in Nat
  BY <1>2, FS_CardinalityType DEF Balance
<1>8. /\ IsFiniteSet(NotCounted') /\ Cardinality(NotCounted') = Cardinality(NotCounted) - 1
      /\ IsFiniteSet(NotHeld') /\ Cardinality(NotHeld') = Cardinality(NotHeld) + 1
  BY <1>2, <1>6, <1>7, SetStep DEF Balance
<1>9. SumIsBounded'
  <2>1. \A u \in Timers : timer'[u] = IF u = t THEN s ELSE timer[u]
    BY <1>3, <1>4
  <2>2. \A m : Above(m)' => Above(m)
    BY <1>3, <1>5, <2>1 DEF Above
  <2>3. request_duration_count' + Cardinality(NotCounted') = request_duration_count + Cardinality(NotCounted)
    BY <1>3, <1>4, <1>7, <1>8
  <2> QED
    BY <1>2, <1>3, <2>2, <2>3 DEF Balance, SumIsBounded
<1>10. Held(latency_buckets) \in Nat
  <2>1. 1 \in 1..11
    OBVIOUS
  <2> QED
    BY <1>4, <2>1, HeldMore
<1>11. Held(latency_buckets') + Cardinality(NotHeld') = request_duration_count'
  BY <1>2, <1>3, <1>7, <1>8, <1>10 DEF Balance
<1> QED
  BY <1>1, <1>8, <1>9, <1>11 DEF Balance

\* A timer that is compared with the maximum stays on its way to the histogram, and
\* is below the maximum when no more is compared.
LEMMA BalanceCompared ==
    ASSUME NEW t \in Timers, NEW s, DurationTypes, Balance,
           timer[t].pc \in {"load", "swap"}, s.pc \in {"swap", "bucket"},
           s.micros = timer[t].micros, s.pc = "bucket" => s.micros <= request_duration_max_us',
           request_duration_max_us <= request_duration_max_us', request_duration_max_us' \in Nat,
           timer' = [timer EXCEPT ![t] = s], UNCHANGED totals, UNCHANGED latency_buckets
    PROVE  Balance'
<1>1. timer \in [Timers -> States] /\ request_duration_max_us \in Nat
  BY DEF DurationTypes, MaximumInv, MaximumTypes
<1>2. NotCounted' = NotCounted /\ NotHeld' = NotHeld
  <2>1. t \notin NotCounted /\ t \in NotHeld
    BY DEF NotCounted, NotHeld
  <2>2. NotCounted' = NotCounted \ {t} /\ NotHeld' = NotHeld \cup {t}
    BY <1>1, MovedTimer
  <2> QED
    BY <2>1, <2>2
<1>3. \A u \in Timers : timer'[u] = IF u = t THEN s ELSE timer[u]
  BY <1>1
<1>4. ASSUME NEW m \in Nat, Above(m)' PROVE Above(m)
  <2>1. request_duration_max_us <= m
    BY <1>1, <1>4 DEF Above
  <2>2. timer[t].micros <= m
    <3>1. timer[t] \in States
      BY <1>1
    <3>2. timer[t].micros \in Nat
      BY <3>1 DEF States
    <3>3. CASE s.pc = "bucket"
      BY <1>4, <3>2, <3>3 DEF Above
    <3>4. CASE s.pc = "swap"
      BY <1>3, <1>4, <3>4 DEF Above
    <3> QED
      BY <3>3, <3>4
  <2>3. ASSUME NEW u \in Timers, u # t, timer[u].pc \in {"count", "load", "swap"}
        PROVE  timer[u].micros <= m
    BY <1>3, <1>4, <2>3 DEF Above
  <2> QED
    BY <2>1, <2>2, <2>3 DEF Above
<1>5. SumIsBounded'
  BY <1>2, <1>4 DEF Balance, SumIsBounded, totals
<1> QED
  BY <1>2, <1>5 DEF Balance, totals

LEMMA BalanceCompare ==
    ASSUME NEW t \in Timers, DurationTypes, BalanceInv, Load(t) \/ Swap(t)
    PROVE  BalanceInv'
<1> SUFFICES ASSUME ~torn' PROVE resetting' = "off" /\ Balance'
  BY DEF BalanceInv
<1>1. ~torn /\ resetting = "off" /\ resetting' = "off"
  BY DEF Load, Swap, Overlapped
<1>2. Balance
  BY <1>1 DEF BalanceInv
<1>3. timer[t].pc \in {"load", "swap"} /\ UNCHANGED totals /\ UNCHANGED latency_buckets
  BY DEF Load, Swap, durations
<1>4. timer \in [Timers -> States] /\ timer[t] \in States /\ request_duration_max_us \in Nat
  BY DEF DurationTypes, MaximumInv, MaximumTypes
<1>5. timer[t].micros \in Nat
  BY <1>4 DEF States
<1>6. CASE Compare(t, request_duration_max_us) /\ UNCHANGED request_duration_max_us
  <2>0. request_duration_max_us' \in Nat /\ request_duration_max_us <= request_duration_max_us'
    BY <1>4, <1>6
  <2>1. CASE timer[t].micros > request_duration_max_us
    <3> DEFINE s == [timer[t] EXCEPT !.pc = "swap", !.current_max = request_duration_max_us]
    <3>1. s.pc = "swap" /\ s.micros = timer[t].micros
      BY <1>4 DEF States
    <3>2. timer' = [timer EXCEPT ![t] = s]
      BY <1>4, <1>6, <2>1 DEF Compare
    <3> HIDE DEF s
    <3> QED
      BY <1>1, <1>2, <1>3, <2>0, <3>1, <3>2, BalanceCompared
  <2>2. CASE ~(timer[t].micros > request_duration_max_us)
    <3> DEFINE s == [timer[t] EXCEPT !.pc = "bucket"]
    <3>1. s.pc = "bucket" /\ s.micros = timer[t].micros
      BY <1>4 DEF States
    <3>2. timer' = [timer EXCEPT ![t] = s]
      BY <1>4, <1>6, <2>2 DEF Compare
    <3>3. s.micros <= request_duration_max_us'
      BY <1>4, <1>5, <1>6, <2>2, <3>1
    <3> HIDE DEF s
    <3> QED
      BY <1>1, <1>2, <1>3, <2>0, <3>1, <3>2, <3>3, BalanceCompared
  <2> QED
    BY <2>1, <2>2
<1>7. CASE /\ timer[t].pc = "swap" /\ request_duration_max_us = timer[t].current_max
           /\ request_duration_max_us' = timer[t].micros
           /\ timer' = [timer EXCEPT ![t].pc = "bucket"]
  <2> DEFINE s == [timer[t] EXCEPT !.pc = "bucket"]
  <2>1. s.pc = "bucket" /\ s.micros = timer[t].micros
    BY <1>4 DEF States
  <2>2. timer' = [timer EXCEPT ![t] = s]
    BY <1>7
  <2>3. /\ request_duration_max_us <= request_duration_max_us' /\ request_duration_max_us' \in Nat
        /\ s.micros <= request_duration_max_us'
    BY <1>4, <1>5, <1>7, <2>1 DEF DurationTypes, MaximumInv, SwapsRaise
  <2> HIDE DEF s
  <2> QED
    BY <1>1, <1>2, <1>3, <2>1, <2>2, <2>3, BalanceCompared
<1> QED
  BY <1>6, <1>7 DEF Load, Swap, durations

LEMMA BalanceBucket ==
    ASSUME NEW t \in Timers, DurationTypes, BalanceInv, CountBucket(t)
    PROVE  BalanceInv'
<1> SUFFICES ASSUME ~torn' PROVE resetting' = "off" /\ Balance'
  BY DEF BalanceInv
<1> DEFINE b == BucketFor(timer[t].micros \div 1000)
<1>1. ~torn /\ resetting = "off" /\ resetting' = "off"
  BY DEF CountBucket, Overlapped
<1>2. Balance
  BY <1>1 DEF BalanceInv
<1>3. /\ timer[t].pc = "bucket" /\ timer' = [timer EXCEPT ![t] = Off]
      /\ latency_buckets' = [latency_buckets EXCEPT ![b] = @ + 1]
      /\ request_duration_count' = request_duration_count
      /\ request_duration_sum_us' = request_duration_sum_us
      /\ request_duration_max_us' = request_duration_max_us
  BY DEF CountBucket, totals
<1>4. /\ timer \in [Timers -> States] /\ request_duration_count \in Nat
      /\ latency_buckets \in [1..11 -> Nat]
  BY DEF DurationTypes, MaximumInv, MaximumTypes
<1>5. Off.pc = "off" /\ b \in 1..11
  BY BucketIsOne DEF Off
<1> HIDE DEF b
<1>6. NotCounted' = NotCounted /\ NotHeld' = NotHeld \ {t} /\ t \in NotHeld
  <2>1. t \notin NotCounted /\ t \in NotHeld
    BY <1>3 DEF NotCounted, NotHeld
  <2>2. NotCounted' = NotCounted \ {t} /\ NotHeld' = NotHeld \ {t}
    BY <1>3, <1>4, <1>5, MovedTimer
  <2> QED
    BY <2>1, <2>2
<1>7. Cardinality(NotHeld) \in Nat
  BY <1>2, FS_CardinalityType DEF Balance
<1>8. IsFiniteSet(NotHeld') /\ Cardinality(NotHeld') = Cardinality(NotHeld) - 1
  BY <1>2, <1>6, <1>7, SetStep DEF Balance
<1>9. Held(latency_buckets) \in Nat /\ Held(latency_buckets') = Held(latency_buckets) + 1
  BY <1>3, <1>4, <1>5, HeldMore
<1>10. SumIsBounded'
  <2>1. \A u \in Timers : timer'[u] = IF u = t THEN Off ELSE timer[u]
    BY <1>3, <1>4
  <2>2. \A m : Above(m)' => Above(m)
    BY <1>3, <2>1 DEF Above
  <2> QED
    BY <1>2, <1>3, <1>6, <2>2 DEF Balance, SumIsBounded
<1>11. Held(latency_buckets') + Cardinality(NotHeld') = request_duration_count'
  BY <1>2, <1>3, <1>4, <1>7, <1>8, <1>9 DEF Balance
<1> QED
  BY <1>1, <1>2, <1>6, <1>8, <1>10, <1>11 DEF Balance

LEMMA BalanceReset ==
    ASSUME DurationTypes, BalanceInv, ResetSum \/ ResetCount \/ ResetMax \/ ResetBuckets
    PROVE  BalanceInv'
<1> SUFFICES ASSUME ~torn' PROVE IF resetting' = "off" THEN Balance' ELSE CleanReset'
  BY DEF BalanceInv
<1>1. CASE ResetSum
  <2>1. (\A t \in Timers : timer[t] = Off) /\ timer' = timer /\ resetting' = "count"
    BY <1>1 DEF ResetSum
  <2> QED
    BY <1>1, <2>1 DEF ResetSum, CleanReset
<1>2. CASE ResetCount
  BY <1>2 DEF ResetCount, BalanceInv, CleanReset
<1>3. CASE ResetMax
  BY <1>3 DEF ResetMax, BalanceInv, CleanReset, totals
<1>4. CASE ResetBuckets
  <2>1. CleanReset /\ resetting' = "off" /\ UNCHANGED <<totals, request_duration_max_us, timer>>
    BY <1>4 DEF ResetBuckets, BalanceInv
  <2>2. /\ request_duration_sum_us' = 0 /\ request_duration_count' = 0
        /\ \A t \in Timers : timer'[t] = Off
    BY <1>4, <2>1 DEF ResetBuckets, CleanReset, totals
  <2>3. Emptied'
    BY <1>4, <2>2 DEF ResetBuckets, Emptied
  <2>4. Balance'
    BY <2>3, EmptyBalances, PTL
  <2> QED
    BY <2>1, <2>4
<1> QED
  BY <1>1, <1>2, <1>3, <1>4

LEMMA BalanceStep == DurationTypes /\ BalanceInv /\ [DurationsNext]_durationVars => BalanceInv'
<1> SUFFICES ASSUME DurationTypes, BalanceInv, [DurationsNext]_durationVars PROVE BalanceInv'
  OBVIOUS
<1>1. CASE UNCHANGED durationVars
  BY <1>1
  DEF durationVars, durations, totals, BalanceInv, Balance, CleanReset, SumIsBounded, Above, NotCounted, NotHeld
<1> QED
  BY <1>1, BalanceDrop, BalanceCount, BalanceCompare, BalanceBucket, BalanceReset DEF DurationsNext

\* Once all requests have ended and no reset met one, the histogram holds what is counted
\* and the average is no more than the maximum, for any number of requests that end
\* at once and any durations (metrics.rs:182, 309).
THEOREM DurationsBalance == DurationsSpec => []DurationsAgree
BY DurationTypesInit, DurationTypesStep, BalanceInit, BalanceStep, BalanceMeans, PTL DEF DurationsSpec

----------------------------------------------------------------------------
\* The address filter

Operations ==
    {Free} \cup [pc : {"blocked", "config"}, config : Configs] \cup [pc : {"lists", "log", "rotate"}]

FilterTypes ==
    /\ config \in Configs
    /\ allowed_ips \subseteq Addresses /\ blocked_ips \subseteq Addresses
    /\ handler \in [Requests -> Operations]

Edits(r) == handler[r].pc \in {"blocked", "config", "lists"}

\* If the last edit to begin met no other, it is the only one under way, and
\* what it has written so far is what it was sent, or what it wrote lists are
\* made from; and if it is over, sets and configuration agree.
Alone ==
    ~overlapped =>
        /\ \A q, r \in Requests : Edits(q) /\ Edits(r) => q = r
        /\ \A r \in Requests : handler[r].pc \in {"blocked", "config"} =>
               allowed_ips = Parsed(handler[r].config.allowed)
        /\ \A r \in Requests : handler[r].pc = "config" =>
               blocked_ips = Parsed(handler[r].config.blocked)
        /\ (\A r \in Requests : ~Edits(r)) =>
               Parsed(config.allowed) = allowed_ips /\ Parsed(config.blocked) = blocked_ips

FilterInv == FilterTypes /\ Alone

LEMMA ParsedAddresses == ASSUME NEW list PROVE Parsed(list) \subseteq Addresses
BY DEF Parsed

\* A request that moves between operations that are no edits, and nothing of the
\* filter changes.
LEMMA BystanderKeeps ==
    ASSUME NEW r \in Requests, NEW op \in Operations, FilterInv, ~Edits(r),
           op.pc \notin {"blocked", "config", "lists"},
           handler' = [handler EXCEPT ![r] = op], UNCHANGED <<filter, overlapped>>
    PROVE  FilterInv'
<1>1. FilterTypes'
  BY DEF FilterInv, FilterTypes, filter
<1>2. \A q \in Requests : Edits(q)' <=> Edits(q)
  BY DEF FilterInv, FilterTypes, Edits
<1>3. \A q \in Requests : Edits(q)' => handler'[q] = handler[q]
  BY DEF FilterInv, FilterTypes, Edits
<1>4. \A q \in Requests : handler'[q].pc \in {"blocked", "config"} => Edits(q)'
  BY DEF Edits
<1>5. Alone'
  BY <1>2, <1>3, <1>4 DEF FilterInv, Alone, filter
<1> QED
  BY <1>1, <1>5 DEF FilterInv

LEMMA FilterInit == GuardsInit => FilterInv
<1> SUFFICES ASSUME GuardsInit PROVE FilterInv
  OBVIOUS
<1>1. config \in Configs
  <2>1. {} \in IpLists /\ "off" \in Modes
    BY DEF IpLists, Modes
  <2>2. DefaultConfig \in Configs
    BY <2>1 DEF DefaultConfig, Configs
  <2> QED
    BY <2>2, GuardAssumption DEF GuardsInit
<1>2. \A r \in Requests : handler[r] = Free /\ Free.pc = "free"
  BY DEF GuardsInit, Free
<1>3. FilterTypes
  BY <1>1, ParsedAddresses DEF GuardsInit, FilterTypes, Operations
<1>4. \A r \in Requests : handler[r].pc = "free"
  BY <1>2
<1> QED
  BY <1>1, <1>3, <1>4 DEF GuardsInit, FilterInv, Alone, Edits

LEMMA FilterStep == FilterInv /\ [GuardsNext]_guardVars => FilterInv'
<1> SUFFICES ASSUME FilterInv, [GuardsNext]_guardVars PROVE FilterInv'
  OBVIOUS
<1> USE DEF filter, disk
<1>0. \A r \in Requests : handler[r] \in Operations
  BY DEF FilterInv, FilterTypes
<1>1. ASSUME NEW r \in Requests, NEW c \in Posted, SetConfig(r, c) PROVE FilterInv'
  <2> DEFINE op == [pc |-> "blocked", config |-> c]
  <2>1. op \in Operations /\ op.pc = "blocked" /\ op.config = c
    BY GuardAssumption DEF Operations
  <2>2. handler' = [handler EXCEPT ![r] = op] /\ allowed_ips' = Parsed(c.allowed)
    BY <1>1 DEF SetConfig, Begin
  <2> HIDE DEF op
  <2>3. FilterTypes'
    BY <1>1, <2>1, <2>2, ParsedAddresses DEF SetConfig, FilterInv, FilterTypes
  <2>4. ~overlapped' => \A q \in Requests \ {r} : ~Edits(q)'
    BY <1>1, <2>2 DEF SetConfig, Begin, Edits, FilterInv, FilterTypes
  <2>5. handler'[r] = op /\ Edits(r)'
    BY <2>1, <2>2 DEF FilterInv, FilterTypes, Edits
  <2>6. Alone'
    BY <2>1, <2>2, <2>4, <2>5 DEF Alone, Edits
  <2> QED
    BY <2>3, <2>6 DEF FilterInv
<1>2. ASSUME NEW r \in Requests, SetBlocked(r) PROVE FilterInv'
  <2>1. handler[r] \in [pc : {"blocked", "config"}, config : Configs]
    BY <1>0, <1>2 DEF SetBlocked, Operations, Free
  <2> DEFINE op == [pc |-> "config", config |-> handler[r].config]
  <2>a. [handler[r] EXCEPT !.pc = "config"] = op
    BY <2>1
  <2>b. handler' = [handler EXCEPT ![r] = [handler[r] EXCEPT !.pc = "config"]]
    BY <1>2 DEF SetBlocked
  <2>2. /\ handler' = [handler EXCEPT ![r] = op]
        /\ blocked_ips' = Parsed(handler[r].config.blocked)
        /\ handler[r].pc = "blocked"
    BY <1>2, <2>a, <2>b DEF SetBlocked
  <2>3. FilterTypes'
    BY <1>2, <2>1, <2>2, ParsedAddresses DEF SetBlocked, FilterInv, FilterTypes, Operations
  <2>4. \A q \in Requests : Edits(q)' <=> Edits(q)
    BY <2>2 DEF FilterInv, FilterTypes, Edits
  <2>5. /\ handler'[r] = op
        /\ \A q \in Requests \ {r} : handler'[q] = handler[q]
    BY <2>2 DEF FilterInv, FilterTypes
  <2>6. ~overlapped' =>
            /\ ~overlapped
            /\ \A q, p \in Requests : Edits(q)' /\ Edits(p)' => q = p
            /\ \A q \in Requests : Edits(q)' => q = r
    BY <1>2, <2>2, <2>4 DEF SetBlocked, FilterInv, Alone, Edits
  <2>7. ~overlapped' =>
            \A q \in Requests : handler'[q].pc \in {"blocked", "config"} =>
                /\ allowed_ips' = Parsed(handler'[q].config.allowed)
                /\ blocked_ips' = Parsed(handler'[q].config.blocked)
    BY <1>2, <2>2, <2>5, <2>6 DEF SetBlocked, FilterInv, Alone, Edits
  <2>8. Edits(r)'
    BY <2>4, <2>2 DEF Edits
  <2>9. Alone'
    BY <2>6, <2>7, <2>8 DEF Alone
  <2> QED
    BY <2>3, <2>9 DEF FilterInv
<1>3. ASSUME NEW r \in Requests, SetLists(r) PROVE FilterInv'
  <2>1. handler[r] \in [pc : {"blocked", "config"}, config : Configs]
    BY <1>0, <1>3 DEF SetLists, Operations, Free
  <2>2. /\ handler' = [handler EXCEPT ![r] = [pc |-> "log"]]
        /\ config' = handler[r].config
        /\ handler[r].pc = "config" /\ Edits(r)
    BY <1>3, <2>1 DEF SetLists, Edits
  <2>3. FilterTypes'
    BY <1>3, <2>1, <2>2 DEF SetLists, FilterInv, FilterTypes, Operations
  <2>4. \A q \in Requests : Edits(q)' => q # r /\ Edits(q) /\ handler'[q] = handler[q]
    BY <2>2 DEF FilterInv, FilterTypes, Edits
  <2>5. ~overlapped' => \A q \in Requests : ~Edits(q)'
    BY <1>3, <2>2, <2>4 DEF SetLists, FilterInv, Alone
  <2>6. ~overlapped' =>
            Parsed(config'.allowed) = allowed_ips' /\ Parsed(config'.blocked) = blocked_ips'
    BY <1>3, <2>2 DEF SetLists, FilterInv, Alone
  <2>7. Alone'
    BY <2>5, <2>6 DEF Alone, Edits
  <2> QED
    BY <2>3, <2>7 DEF FilterInv
<1>4. ASSUME NEW r \in Requests, NEW ip \in Addresses, AddIp(r, ip) PROVE FilterInv'
  <2> DEFINE op == [pc |-> "lists"]
  <2>1. op \in Operations /\ op.pc = "lists"
    BY DEF Operations
  <2>2. handler' = [handler EXCEPT ![r] = op]
    BY <1>4 DEF AddIp, Begin
  <2> HIDE DEF op
  <2>3. FilterTypes'
    BY <1>4, <2>1, <2>2 DEF AddIp, FilterInv, FilterTypes
  <2>4. ~overlapped' => \A q \in Requests \ {r} : ~Edits(q)'
    BY <1>4, <2>2 DEF AddIp, Begin, Edits, FilterInv, FilterTypes
  <2>5. handler'[r] = op /\ Edits(r)'
    BY <2>1, <2>2 DEF FilterInv, FilterTypes, Edits
  <2>6. Alone'
    BY <2>1, <2>4, <2>5 DEF Alone, Edits
  <2> QED
    BY <2>3, <2>6 DEF FilterInv
<1>5. ASSUME NEW r \in Requests, UpdateConfig(r) PROVE FilterInv'
  <2>1. handler' = [handler EXCEPT ![r] = [pc |-> "log"]] /\ handler[r].pc = "lists" /\ Edits(r)
    BY <1>5 DEF UpdateConfig, Edits
  <2>2. /\ config' \in Configs
        /\ Parsed(config'.allowed) = allowed_ips /\ Parsed(config'.blocked) = blocked_ips
    <3>1. allowed_ips \in IpLists /\ blocked_ips \in IpLists /\ config \in Configs
      BY DEF FilterInv, FilterTypes, IpLists
    <3>2. config' = [config EXCEPT !.allowed = allowed_ips, !.blocked = blocked_ips]
      BY <1>5 DEF UpdateConfig
    <3>3. config' \in Configs /\ config'.allowed = allowed_ips /\ config'.blocked = blocked_ips
      BY <3>1, <3>2 DEF Configs
    <3> QED
      BY <3>3 DEF FilterInv, FilterTypes, Parsed
  <2>3. FilterTypes'
    BY <1>5, <2>1, <2>2 DEF UpdateConfig, FilterInv, FilterTypes, Operations
  <2>4. \A q \in Requests : Edits(q)' => q # r /\ Edits(q)
    BY <2>1 DEF FilterInv, FilterTypes, Edits
  <2>5. ~overlapped' => \A q \in Requests : ~Edits(q)'
    BY <1>5, <2>1, <2>4 DEF UpdateConfig, FilterInv, Alone
  <2>6. Alone'
    BY <1>5, <2>2, <2>5 DEF UpdateConfig, Alone, Edits
  <2> QED
    BY <2>3, <2>6 DEF FilterInv
<1>6. ASSUME NEW r \in Requests, LogEdit(r) \/ LogRotation(r) \/ Rotate(r) PROVE FilterInv'
  <2>1. /\ ~Edits(r)
        /\ \E op \in Operations : /\ op.pc \notin {"blocked", "config", "lists"}
                                  /\ handler' = [handler EXCEPT ![r] = op]
    BY <1>6 DEF LogEdit, LogRotation, Rotate, Edits, Operations, Free
  <2>2. UNCHANGED <<filter, overlapped>>
    BY <1>6 DEF LogEdit, LogRotation, Rotate
  <2> QED
    BY <2>1, <2>2, BystanderKeeps
<1>7. CASE UNCHANGED guardVars
  BY <1>7 DEF guardVars, FilterInv, FilterTypes, Alone, Edits
<1> QED
  BY <1>1, <1>2, <1>3, <1>4, <1>5, <1>6, <1>7 DEF GuardsNext

\* Whatever is posted, what GET returns is enforced as far as it parses, and of what
\* it shows as blocked nothing but allowed loopback passes a router with the filter,
\* unless the last two edits met (ip_filter.rs:178, 216).
THEOREM Enforced == GuardsSpec => []ConfigIsEnforced
<1>1. FilterInv => ConfigIsEnforced
  <2> SUFFICES ASSUME FilterInv, ~overlapped, \A r \in Requests : ~Edits(r)
               PROVE  ConfigIsEnforced
    BY DEF ConfigIsEnforced, Edits
  <2>1. Parsed(config.allowed) = allowed_ips /\ Parsed(config.blocked) = blocked_ips
    BY DEF FilterInv, Alone
  <2> QED
    BY <2>1 DEF ConfigIsEnforced, Passes, is_allowed
<1> QED
  BY <1>1, FilterInit, FilterStep, PTL DEF GuardsSpec

----------------------------------------------------------------------------
\* The audit log

AuditTypes ==
    /\ archives \in Seq(Seq(Nat)) /\ log \in Seq(Nat)
    /\ file \in BOOLEAN /\ onDisk \in BOOLEAN /\ failed \in BOOLEAN /\ overlapped \in BOOLEAN
    /\ entries \in 0..MaxEntries
    /\ dropped \subseteq 1..entries /\ unwritten \subseteq 1..entries

Missing == dropped \cup unwritten

\* An open file is there, and only a rotation that failed closes it for long.
OpenInv == (file => onDisk) /\ (~file => failed)

AuditInv == AuditTypes /\ OpenInv /\ AuditKeepsEntries

\* An entry that goes to the end of the last file.
LEMMA EntryAppended ==
    ASSUME AuditInv, file, entries < MaxEntries, entries' = entries + 1,
           log' = Append(log, entries + 1),
           UNCHANGED <<archives, dropped, unwritten, file, onDisk, failed>>,
           overlapped' \in BOOLEAN
    PROVE  AuditInv'
<1> DEFINE a == Len(archives)
<1>1. /\ archives \in Seq(Seq(Nat)) /\ log \in Seq(Nat) /\ entries \in Nat /\ a \in Nat
      /\ Missing \subseteq 1..entries
  BY GuardAssumption DEF AuditInv, AuditTypes, Missing
<1>2. /\ DOMAIN Files = 1..(a + 1) /\ Files[a + 1] = log
      /\ \A n \in 1..a : Files[n] = archives[n]
  BY <1>1 DEF Files
<1>3. log' \in Seq(Nat)
  BY <1>1
<1>4. /\ DOMAIN Files' = 1..(a + 1) /\ Files'[a + 1] = log'
      /\ \A n \in 1..a : Files'[n] = archives[n]
  BY <1>1, <1>3 DEF Files
<1>5. /\ DOMAIN log = 1..Len(log) /\ DOMAIN log' = 1..(Len(log) + 1) /\ Len(log) \in Nat
      /\ log'[Len(log) + 1] = entries + 1
      /\ \A i \in 1..Len(log) : log'[i] = log[i]
  BY <1>1
<1>6. \A n \in 1..(a + 1) : \A i \in DOMAIN Files[n] : Files[n][i] \in (1..entries) \ Missing
  BY <1>2 DEF AuditInv, AuditKeepsEntries, Missing, ToSet
<1>7. \A n \in 1..(a + 1) : \A i \in DOMAIN Files'[n] :
          \/ n = a + 1 /\ i = Len(log) + 1 /\ Files'[n][i] = entries + 1
          \/ i \in DOMAIN Files[n] /\ Files'[n][i] = Files[n][i]
  <2> SUFFICES ASSUME NEW n \in 1..(a + 1), NEW i \in DOMAIN Files'[n]
               PROVE  \/ n = a + 1 /\ i = Len(log) + 1 /\ Files'[n][i] = entries + 1
                      \/ i \in DOMAIN Files[n] /\ Files'[n][i] = Files[n][i]
    OBVIOUS
  <2>1. CASE n = a + 1
    BY <1>2, <1>4, <1>5, <2>1
  <2>2. CASE n # a + 1
    <3>1. n \in 1..a
      BY <1>1, <2>2
    <3>2. QED
      BY <1>2, <1>4, <3>1
  <2>3. QED
    BY <2>1, <2>2
<1>8. ASSUME NEW m \in DOMAIN Files', NEW n \in DOMAIN Files',
             NEW i \in DOMAIN Files'[m], NEW j \in DOMAIN Files'[n],
             m < n \/ (m = n /\ i < j)
      PROVE  Files'[m][i] < Files'[n][j]
  <2>0. m \in 1..(a + 1) /\ n \in 1..(a + 1)
    BY <1>4
  <2>1. ~(m = a + 1 /\ i = Len(log) + 1)
    <3> SUFFICES ASSUME m = a + 1, i = Len(log) + 1 PROVE FALSE
      OBVIOUS
    <3>1. n = a + 1 /\ i < j
      BY <1>1, <1>8, <2>0
    <3>2. j \in 1..(Len(log) + 1)
      BY <1>4, <1>5, <3>1
    <3>3. QED
      BY <1>5, <3>1, <3>2
  <2>2. i \in DOMAIN Files[m] /\ Files'[m][i] = Files[m][i]
    BY <1>7, <2>0, <2>1
  <2>3. Files[m][i] \in Nat /\ Files[m][i] <= entries
    BY <1>1, <1>6, <2>0, <2>2
  <2>4. CASE n = a + 1 /\ j = Len(log) + 1 /\ Files'[n][j] = entries + 1
    BY <1>1, <2>2, <2>3, <2>4
  <2>5. CASE j \in DOMAIN Files[n] /\ Files'[n][j] = Files[n][j]
    BY <1>2, <1>8, <2>0, <2>2, <2>5 DEF AuditInv, AuditKeepsEntries
  <2>6. QED
    BY <1>7, <2>0, <2>4, <2>5
<1>9. \A x : x \in UNION {ToSet(Files'[n]) : n \in DOMAIN Files'}
             <=> x \in (1..(entries + 1)) \ Missing
  <2> SUFFICES ASSUME NEW x PROVE x \in UNION {ToSet(Files'[n]) : n \in DOMAIN Files'}
                                 <=> x \in (1..(entries + 1)) \ Missing
    OBVIOUS
  <2>1. ASSUME x \in UNION {ToSet(Files'[n]) : n \in DOMAIN Files'}
        PROVE  x \in (1..(entries + 1)) \ Missing
    <3>1. PICK n \in 1..(a + 1) : \E i \in DOMAIN Files'[n] : x = Files'[n][i]
      BY <1>4, <2>1 DEF ToSet
    <3>2. PICK i \in DOMAIN Files'[n] : x = Files'[n][i]
      BY <3>1
    <3>3. x = entries + 1 \/ x \in (1..entries) \ Missing
      BY <1>6, <1>7, <3>2
    <3>4. QED
      BY <1>1, <3>3
  <2>2. ASSUME x = entries + 1 PROVE x \in UNION {ToSet(Files'[n]) : n \in DOMAIN Files'}
    <3>1. x \in ToSet(Files'[a + 1])
      BY <1>4, <1>5, <2>2 DEF ToSet
    <3>2. a + 1 \in DOMAIN Files'
      BY <1>1, <1>4
    <3>3. QED
      BY <3>1, <3>2
  <2>3. ASSUME x \in (1..entries) \ Missing
        PROVE  x \in UNION {ToSet(Files'[n]) : n \in DOMAIN Files'}
    <3>1. x \in UNION {ToSet(Files[n]) : n \in DOMAIN Files}
      BY <2>3 DEF AuditInv, AuditKeepsEntries, Missing
    <3>2. PICK n \in 1..(a + 1) : x \in ToSet(Files[n])
      BY <1>2, <3>1
    <3>3. PICK i \in DOMAIN Files[n] : x = Files[n][i]
      BY <3>2 DEF ToSet
    <3>4. i \in DOMAIN Files'[n] /\ Files'[n][i] = Files[n][i]
      <4>1. CASE n = a + 1
        BY <1>2, <1>4, <1>5, <4>1
      <4>2. CASE n # a + 1
        <5>1. n \in 1..a
          BY <1>1, <4>2
        <5>2. QED
          BY <1>2, <1>4, <5>1
      <4>3. QED
        BY <4>1, <4>2
    <3>5. x \in ToSet(Files'[n])
      BY <3>3, <3>4 DEF ToSet
    <3>6. n \in DOMAIN Files'
      BY <1>4
    <3>7. QED
      BY <3>5, <3>6
  <2>4. x \in (1..(entries + 1)) \ Missing => x = entries + 1 \/ x \in (1..entries) \ Missing
    BY <1>1
  <2>5. QED
    BY <2>1, <2>2, <2>3, <2>4
<1>10. AuditKeepsEntries'
  <2>1. UNION {ToSet(Files'[n]) : n \in DOMAIN Files'} = (1..(entries + 1)) \ Missing
    BY <1>9
  <2>2. QED
    BY <1>8, <2>1, <1>1 DEF AuditInv, AuditKeepsEntries, Missing
<1>11. AuditTypes' /\ OpenInv'
  BY <1>1, <1>3, GuardAssumption DEF AuditInv, AuditTypes, OpenInv
<1>12. QED
  BY <1>10, <1>11 DEF AuditInv

\* A file that is closed for good, and an empty one after it.
LEMMA FileRotated ==
    ASSUME AuditInv, archives' = Append(archives, log), log' = <<>>,
           UNCHANGED <<entries, dropped, unwritten, overlapped>>,
           (file' = TRUE /\ onDisk' = TRUE /\ failed' = failed)
           \/ (file' = FALSE /\ onDisk' = FALSE /\ failed' = TRUE)
    PROVE  AuditInv'
<1> DEFINE a == Len(archives)
<1>1. archives \in Seq(Seq(Nat)) /\ log \in Seq(Nat) /\ a \in Nat
  BY DEF AuditInv, AuditTypes
<1>2. DOMAIN Files = 1..(a + 1) /\ Files \in Seq(Seq(Nat)) /\ Len(Files) = a + 1
  BY <1>1 DEF Files
<1>3. archives' = Files
  BY DEF Files
<1>4. <<>> \in Seq(Nat) /\ DOMAIN <<>> = {}
  OBVIOUS
<1>5. /\ DOMAIN Files' = 1..(a + 2) /\ Files'[a + 2] = <<>>
      /\ \A n \in 1..(a + 1) : Files'[n] = Files[n]
  <2>1. Files' = Append(Files, <<>>)
    BY <1>3 DEF Files
  <2>2. QED
    BY <1>1, <1>2, <1>4, <2>1
<1>6. \A n \in DOMAIN Files' : n \in DOMAIN Files \/ DOMAIN Files'[n] = {}
  BY <1>1, <1>2, <1>4, <1>5
<1>7. ASSUME NEW m \in DOMAIN Files', NEW n \in DOMAIN Files',
             NEW i \in DOMAIN Files'[m], NEW j \in DOMAIN Files'[n],
             m < n \/ (m = n /\ i < j)
      PROVE  Files'[m][i] < Files'[n][j]
  <2>1. m \in DOMAIN Files /\ n \in DOMAIN Files
    BY <1>6
  <2>2. Files'[m] = Files[m] /\ Files'[n] = Files[n]
    BY <1>2, <1>5, <2>1
  <2>3. QED
    BY <1>7, <2>1, <2>2 DEF AuditInv, AuditKeepsEntries
<1>8. UNION {ToSet(Files'[n]) : n \in DOMAIN Files'} = UNION {ToSet(Files[n]) : n \in DOMAIN Files}
  <2>1. \A n \in DOMAIN Files' : n \in DOMAIN Files \/ ToSet(Files'[n]) = {}
    BY <1>6 DEF ToSet
  <2>2. \A n \in DOMAIN Files : n \in DOMAIN Files' /\ Files'[n] = Files[n]
    BY <1>1, <1>2, <1>5
  <2>3. QED
    BY <2>1, <2>2
<1>9. failed => failed'
  BY DEF AuditInv, AuditTypes
<1>10. AuditKeepsEntries'
  BY <1>7, <1>8, <1>9 DEF AuditInv, AuditKeepsEntries
<1>11. AuditTypes' /\ OpenInv'
  BY <1>2, <1>3, <1>4 DEF AuditInv, AuditTypes, OpenInv
<1>12. QED
  BY <1>10, <1>11 DEF AuditInv

\* An entry that gets into no file: there is none open, or the writing fails.
LEMMA EntryLost ==
    ASSUME AuditInv, entries < MaxEntries, entries' = entries + 1,
           \/ ~file /\ dropped' = dropped \cup {entries + 1} /\ UNCHANGED unwritten
           \/ unwritten' = unwritten \cup {entries + 1} /\ UNCHANGED dropped,
           UNCHANGED <<log, archives, file, onDisk, failed>>, overlapped' \in BOOLEAN
    PROVE  AuditInv'
<1>1. entries \in Nat /\ dropped \subseteq 1..entries /\ unwritten \subseteq 1..entries
  BY GuardAssumption DEF AuditInv, AuditTypes
<1>2. (1..entries') \ (dropped' \cup unwritten') = (1..entries) \ (dropped \cup unwritten)
  BY <1>1
<1>3. Files' = Files
  BY DEF Files
<1>4. dropped' # {} => failed'
  BY DEF AuditInv, AuditKeepsEntries, OpenInv
<1>5. AuditKeepsEntries'
  BY <1>2, <1>3, <1>4 DEF AuditInv, AuditKeepsEntries
<1>6. AuditTypes' /\ OpenInv'
  <2>1. \A set : set \subseteq 1..entries =>
            set \subseteq 1..entries' /\ set \cup {entries + 1} \subseteq 1..entries'
    BY <1>1
  <2>2. entries' \in 0..MaxEntries
    BY <1>1, GuardAssumption
  <2>3. dropped' = dropped \/ dropped' = dropped \cup {entries + 1}
    OBVIOUS
  <2>4. unwritten' = unwritten \/ unwritten' = unwritten \cup {entries + 1}
    OBVIOUS
  <2>5. dropped' \subseteq 1..entries' /\ unwritten' \subseteq 1..entries'
    BY <1>1, <2>1, <2>3, <2>4, Zenon
  <2>6. QED
    BY <2>2, <2>5 DEF AuditInv, AuditTypes, OpenInv
<1>7. QED
  BY <1>5, <1>6 DEF AuditInv

LEMMA AuditInitial == GuardsInit => AuditInv
<1> SUFFICES ASSUME GuardsInit PROVE AuditInv
  OBVIOUS
<1>1. /\ archives = <<>> /\ log = <<>> /\ entries = 0 /\ dropped = {} /\ unwritten = {}
      /\ file = TRUE /\ onDisk = TRUE /\ failed = FALSE /\ overlapped = FALSE
  BY DEF GuardsInit
<1>2. <<>> \in Seq(Nat) /\ <<>> \in Seq(Seq(Nat)) /\ DOMAIN <<>> = {}
  OBVIOUS
<1>3. Files = <<<<>>>> /\ DOMAIN Files = {1} /\ Files[1] = <<>>
  BY <1>1 DEF Files
<1>4. ToSet(Files[1]) = {}
  BY <1>2, <1>3 DEF ToSet
<1>5. UNION {ToSet(Files[n]) : n \in DOMAIN Files} = {}
      /\ (1..entries) \ (dropped \cup unwritten) = {}
  BY <1>1, <1>3, <1>4
<1>6. AuditKeepsEntries
  BY <1>1, <1>2, <1>3, <1>5 DEF AuditKeepsEntries
<1>7. AuditTypes /\ OpenInv
  <2>1. 0 \in 0..MaxEntries /\ {} \subseteq 1..0
    BY GuardAssumption
  <2>2. AuditTypes
    BY <1>1, <1>2, <2>1 DEF AuditTypes
  <2>3. OpenInv
    BY <1>1 DEF OpenInv
  <2>4. QED
    BY <2>2, <2>3
<1>8. QED
  BY <1>6, <1>7 DEF AuditInv

LEMMA AuditStep == AuditInv /\ [GuardsNext]_guardVars => AuditInv'
<1> SUFFICES ASSUME AuditInv, [GuardsNext]_guardVars PROVE AuditInv'
  OBVIOUS
<1>1. ASSUME UNCHANGED <<disk, logged>>, overlapped' \in BOOLEAN PROVE AuditInv'
  <2>1. Files' = Files
    BY <1>1 DEF Files, disk, logged
  <2>2. QED
    BY <1>1, <2>1 DEF disk, logged, AuditInv, AuditTypes, OpenInv, AuditKeepsEntries
<1>2. overlapped \in BOOLEAN
  BY DEF AuditInv, AuditTypes
<1>3. CASE UNCHANGED guardVars
  BY <1>1, <1>2, <1>3 DEF guardVars
<1>4. ASSUME NEW r \in Requests, NEW c \in Posted, SetConfig(r, c) PROVE AuditInv'
  BY <1>1, <1>4 DEF SetConfig, Begin
<1>5. ASSUME NEW r \in Requests, NEW ip \in Addresses, AddIp(r, ip) PROVE AuditInv'
  BY <1>1, <1>5 DEF AddIp, Begin
<1>6. ASSUME NEW r \in Requests, SetBlocked(r) \/ SetLists(r) \/ UpdateConfig(r) PROVE AuditInv'
  BY <1>1, <1>2, <1>6 DEF SetBlocked, SetLists, UpdateConfig
<1>7. ASSUME NEW r \in Requests, LogEdit(r) \/ LogRotation(r) PROVE AuditInv'
  <2>1. Write /\ overlapped' \in BOOLEAN
    BY <1>2, <1>7 DEF LogEdit, LogRotation
  <2>2. CASE file /\ log' = Append(log, entries + 1) /\ UNCHANGED <<dropped, unwritten>>
    BY <2>1, <2>2, EntryAppended DEF Write
  <2>3. CASE /\ UNCHANGED log
             /\ \/ ~file /\ dropped' = dropped \cup {entries + 1} /\ UNCHANGED unwritten
                \/ unwritten' = unwritten \cup {entries + 1} /\ UNCHANGED dropped
    BY <2>1, <2>3, EntryLost DEF Write
  <2>4. QED
    BY <2>1, <2>2, <2>3 DEF Write
<1>8. ASSUME NEW r \in Requests, Rotate(r) PROVE AuditInv'
  <2>1. CASE file' = FALSE /\ failed' = TRUE /\ UNCHANGED <<onDisk, log, archives>>
    <3>1. Files' = Files /\ UNCHANGED <<entries, dropped, unwritten, overlapped>>
      BY <1>8, <2>1 DEF Files, Rotate, logged
    <3>2. AuditTypes'
      BY <2>1, <3>1 DEF AuditInv, AuditTypes
    <3>3. OpenInv'
      BY <2>1 DEF OpenInv
    <3>4. AuditKeepsEntries'
      BY <2>1, <3>1 DEF AuditInv, AuditKeepsEntries
    <3>5. QED
      BY <3>2, <3>3, <3>4 DEF AuditInv
  <2>2. CASE /\ archives' = Append(archives, log) /\ log' = <<>>
             /\ \/ file' = TRUE /\ onDisk' = TRUE /\ UNCHANGED failed
                \/ file' = FALSE /\ onDisk' = FALSE /\ failed' = TRUE
    BY <1>8, <2>2, FileRotated DEF Rotate, logged
  <2>3. QED
    BY <1>8, <2>1, <2>2 DEF Rotate
<1>9. QED
  BY <1>3, <1>4, <1>5, <1>6, <1>7, <1>8 DEF GuardsNext

LEMMA GuardTypes == FilterInv /\ AuditInv => GuardsOK
BY DEF FilterInv, FilterTypes, AuditInv, AuditTypes, OpenInv, GuardsOK

\* Every entry whose writing succeeded is in one file of the audit log and in order,
\* however requests and rotations interleave, and only a rotation that failed leaves
\* later ones without a file (audit.rs:152, 189).
THEOREM AuditComplete == GuardsSpec => [](GuardsOK /\ AuditKeepsEntries)
<1>1. AuditInv => AuditKeepsEntries
  BY DEF AuditInv
<1>2. QED
  BY <1>1, GuardTypes, FilterInit, FilterStep, AuditInitial, AuditStep, PTL DEF GuardsSpec

----------------------------------------------------------------------------
\* Captured frames

Frames == [id : Nat, connection : Connections, rank : Nat \ {0}]

InOrder(s) == \A m, n \in 1..Len(s) : m < n => s[m].rank < s[n].rank

WsInv ==
    /\ framesCaptured \in Nat
    /\ frames \in Seq(Frames) /\ InOrder(frames)
    /\ \A n \in 1..Len(frames) : frames[n].rank <= framesCaptured
    /\ capturer \in [Capturers -> {NoFrame} \cup [id : Nat, connection : Connections]]
    /\ DOMAIN connections \subseteq Connections
    /\ closed \subseteq DOMAIN connections
    /\ clearing \in BOOLEAN
    /\ FramesAreBounded

\* r is s without its i-th element.
Without(r, s, i) ==
    /\ r \in Seq(Frames) /\ Len(r) = Len(s) - 1
    /\ \A n \in 1..Len(r) : r[n] = s[IF n < i THEN n ELSE n + 1]

LEMMA Removal ==
    ASSUME NEW s \in Seq(Frames), NEW i \in 1..Len(s)
    PROVE  Without(RemoveAt(s, i), s, i)
<1> DEFINE a == SubSeq(s, 1, i - 1)  b == SubSeq(s, i + 1, Len(s))
<1>1. Len(s) \in Nat /\ i \in Nat /\ i >= 1 /\ i <= Len(s)
  OBVIOUS
<1>2. a \in Seq(Frames) /\ Len(a) = i - 1 /\ \A n \in 1..(i - 1) : a[n] = s[n]
  BY <1>1
<1>3. b \in Seq(Frames) /\ Len(b) = Len(s) - i /\ \A n \in 1..(Len(s) - i) : b[n] = s[n + i]
  BY <1>1
<1> HIDE DEF a, b
<1>4. a \o b \in Seq(Frames) /\ Len(a \o b) = Len(s) - 1
  <2>1. a \o b \in Seq(Frames) /\ Len(a \o b) = Len(a) + Len(b)
    <3>1. a \in Seq(Frames) /\ b \in Seq(Frames)
      BY <1>2, <1>3
    <3> QED
      BY ONLY <3>1, ConcatProperties
  <2>2. (i - 1) + (Len(s) - i) = Len(s) - 1
    BY <1>1
  <2> QED
    BY <2>1, <2>2, <1>2, <1>3
<1>5. ASSUME NEW n \in 1..(Len(s) - 1) PROVE (a \o b)[n] = s[IF n < i THEN n ELSE n + 1]
  <2>1. CASE n < i
    BY <2>1, <1>1, <1>2, <1>3
  <2>2. CASE ~(n < i)
    <3>1. n - (i - 1) \in 1..(Len(s) - i) /\ (a \o b)[n] = b[n - (i - 1)]
      BY <2>2, <1>1, <1>2, <1>3
    <3>2. b[n - (i - 1)] = s[n - (i - 1) + i] /\ n - (i - 1) + i = n + 1
      BY <3>1, <1>1, <1>3
    <3> QED
      BY <2>2, <3>1, <3>2
  <2> QED
    BY <2>1, <2>2
<1> QED
  BY <1>4, <1>5 DEF RemoveAt, Without, a, b

LEMMA TailRemoves ==
    ASSUME NEW s \in Seq(Frames), s # <<>>
    PROVE  Without(Tail(s), s, 1)
BY DEF Without

LEMMA FiniteOf ==
    ASSUME NEW s \in Seq(Frames), NEW c
    PROVE  /\ IsFiniteSet(Of(s, c)) /\ Cardinality(Of(s, c)) \in Nat
           /\ Cardinality(Of(s, c)) <= Len(s)
<1>1. IsFiniteSet(1..Len(s)) /\ Cardinality(1..Len(s)) = Len(s) /\ Len(s) \in Nat
  <2>1. Len(s) \in Nat
    OBVIOUS
  <2> QED
    BY <2>1, FS_Interval
<1>2. Of(s, c) \subseteq 1..Len(s)
  BY DEF Of
<1> QED
  BY <1>1, <1>2, FS_Subset, FS_CardinalityType

\* What is left when a frame is dropped.
LEMMA Left ==
    ASSUME NEW s \in Seq(Frames), NEW i \in 1..Len(s), NEW r, Without(r, s, i), InOrder(s)
    PROVE  /\ InOrder(r)
           /\ ToSet(r) \subseteq ToSet(s)
           /\ ToSet(s) \subseteq ToSet(r) \cup {s[i]}
           /\ \A n \in 1..Len(r) : r[n] # s[i]
           /\ i # Len(s) => r # <<>> /\ s[Len(s)] \in ToSet(r)
<1>1. Len(s) \in Nat /\ Len(r) \in Nat /\ Len(r) = Len(s) - 1 /\ i \in Nat
  BY DEF Without
<1>2. \A n \in 1..Len(r) : /\ n < i => r[n] = s[n]
                           /\ ~(n < i) => r[n] = s[n + 1]
  BY DEF Without
<1>3. \A n \in 1..Len(s) : s[n].rank \in Nat
  <2>1. \A n \in 1..Len(s) : s[n] \in Frames
    OBVIOUS
  <2> QED
    BY <2>1 DEF Frames
<1>4. InOrder(r)
  <2> SUFFICES ASSUME NEW m \in 1..Len(r), NEW n \in 1..Len(r), m < n PROVE r[m].rank < r[n].rank
    BY DEF InOrder
  <2>1. PICK k \in 1..Len(s) : r[m] = s[k] /\ k = IF m < i THEN m ELSE m + 1
    BY <1>1, <1>2
  <2>2. PICK l \in 1..Len(s) : r[n] = s[l] /\ l = IF n < i THEN n ELSE n + 1
    BY <1>1, <1>2
  <2>3. k < l
    BY <1>1, <2>1, <2>2
  <2> QED
    BY <2>1, <2>2, <2>3 DEF InOrder
<1>5. ToSet(r) = {r[n] : n \in 1..Len(r)} /\ ToSet(s) = {s[n] : n \in 1..Len(s)}
  BY DEF ToSet, Without
<1>6. ToSet(r) \subseteq ToSet(s)
  BY <1>1, <1>2, <1>5
<1>7. ASSUME NEW n \in 1..Len(s), n # i PROVE s[n] \in ToSet(r)
  <2>1. CASE n < i
    BY <2>1, <1>1, <1>2, <1>5
  <2>2. CASE n > i
    <3>1. n - 1 \in 1..Len(r) /\ r[n - 1] = s[n]
      BY <2>2, <1>1, <1>2
    <3> QED
      BY <3>1, <1>5
  <2> QED
    BY <2>1, <2>2, <1>1, <1>7
<1>8. ToSet(s) \subseteq ToSet(r) \cup {s[i]}
  BY <1>5, <1>7
<1>9. \A n \in 1..Len(r) : r[n] # s[i]
  BY <1>1, <1>2, <1>3 DEF InOrder
<1>10. i # Len(s) => r # <<>> /\ s[Len(s)] \in ToSet(r)
  BY <1>1, <1>7
<1> QED
  BY <1>4, <1>6, <1>8, <1>9, <1>10

\* No connection has more frames, and that of the dropped frame has one less.
LEMMA FewerOf ==
    ASSUME NEW s \in Seq(Frames), NEW i \in 1..Len(s), NEW r, Without(r, s, i), NEW c
    PROVE  Cardinality(Of(r, c)) <= IF s[i].connection = c THEN Cardinality(Of(s, c)) - 1
                                                           ELSE Cardinality(Of(s, c))
<1>1. Len(s) \in Nat /\ Len(r) \in Nat /\ Len(r) = Len(s) - 1 /\ i \in Nat
  BY DEF Without
<1>2. \A n \in 1..Len(r) : /\ n < i => r[n] = s[n]
                           /\ ~(n < i) => r[n] = s[n + 1]
  BY DEF Without
<1> DEFINE old == Of(s, c) \ {i}  new == Of(r, c)  f == [n \in new |-> IF n < i THEN n ELSE n + 1]
<1>3. /\ IsFiniteSet(old)
      /\ Cardinality(old) = IF i \in Of(s, c) THEN Cardinality(Of(s, c)) - 1 ELSE Cardinality(Of(s, c))
  BY FiniteOf, FS_RemoveElement
<1>4. \A n \in new : (IF n < i THEN n ELSE n + 1) \in old
  BY <1>1, <1>2 DEF Of
<1>5. \A m, n \in new : (IF m < i THEN m ELSE m + 1) = (IF n < i THEN n ELSE n + 1) => m = n
  BY <1>1 DEF Of
<1>6. f \in [new -> old] /\ IsInjective(f)
  BY <1>4, <1>5 DEF IsInjective
<1>7. i \in Of(s, c) <=> s[i].connection = c
  BY DEF Of
<1> HIDE DEF f, new, old
<1>8. f \in Injection(new, old)
  BY <1>6 DEF Injection
<1>9. Cardinality(new) <= Cardinality(old)
  BY <1>3, <1>8, FS_Injection
<1> QED
  BY <1>3, <1>7, <1>9 DEF new

LEMMA WsInitial == WsInit => WsInv
<1> SUFFICES ASSUME WsInit PROVE WsInv
  OBVIOUS
<1>1. frames = <<>> /\ frames \in Seq(Frames) /\ InOrder(frames)
  BY DEF WsInit, InOrder
<1>2. FramesAreBounded
  <2>1. \A c : Of(frames, c) = {}
    BY <1>1 DEF Of
  <2> QED
    BY <1>1, <2>1, FS_EmptySet, FrameAssumption DEF FramesAreBounded
<1>3. /\ framesCaptured = 0 /\ clearing = FALSE /\ closed = {} /\ DOMAIN connections = {}
      /\ capturer \in [Capturers -> {NoFrame} \cup [id : Nat, connection : Connections]]
  BY DEF WsInit
<1>4. \A n \in 1..Len(frames) : frames[n].rank <= framesCaptured
  BY <1>1
<1> QED
  BY <1>1, <1>2, <1>3, <1>4 DEF WsInv

\* What a push leaves: the list with the new frame at its end, but for the oldest
\* of all or the oldest of its connection, or both.
LEMMA PushLeaves ==
    ASSUME WsInv, NEW k \in Capturers, Push(k)
    PROVE  /\ WsInv'
           /\ \A f \in ToSet(frames) \ ToSet(frames'), g \in ToSet(frames') :
                  f.connection = g.connection => f.rank < g.rank
           /\ \E g \in ToSet(frames') : g.rank = framesCaptured'
<1> DEFINE c == capturer[k].connection
           new == [id |-> capturer[k].id, connection |-> c, rank |-> framesCaptured + 1]
           s1 == Append(frames, new)
           s2 == Evicted(s1)
           s3 == EvictedOf(s2, c)
<1>1. /\ framesCaptured \in Nat /\ frames \in Seq(Frames) /\ InOrder(frames) /\ FramesAreBounded
      /\ \A n \in 1..Len(frames) : frames[n].rank <= framesCaptured
      /\ max_frames \in Nat \ {0} /\ max_frames_per_connection \in Nat \ {0}
  BY FrameAssumption DEF WsInv
<1>2. /\ framesCaptured' = framesCaptured + 1 /\ frames' = s3 /\ c \in Connections /\ capturer[k].id \in Nat
      /\ capturer' = [capturer EXCEPT ![k] = NoFrame]
      /\ connections' = IF c \in DOMAIN connections THEN [connections EXCEPT ![c] = @ + 1] ELSE connections
      /\ UNCHANGED <<closed, clearing>>
  BY DEF Push, WsInv
<1>3. new \in Frames /\ new.rank = framesCaptured + 1 /\ new.connection = c
  BY <1>1, <1>2 DEF Frames
<1> HIDE DEF new
<1>4. /\ s1 \in Seq(Frames) /\ Len(s1) = Len(frames) + 1 /\ Len(frames) \in Nat
      /\ s1[Len(s1)] = new /\ \A n \in 1..Len(frames) : s1[n] = frames[n]
  BY <1>1, <1>3
<1> HIDE DEF s1
<1>5. InOrder(s1)
  <2> SUFFICES ASSUME NEW m \in 1..Len(s1), NEW n \in 1..Len(s1), m < n PROVE s1[m].rank < s1[n].rank
    BY DEF InOrder
  <2>1. m \in 1..Len(frames) /\ s1[m] = frames[m] /\ frames[m] \in Frames
    BY <1>1, <1>4
  <2>2. frames[m].rank \in Nat /\ frames[m].rank <= framesCaptured
    BY <2>1, <1>1 DEF Frames
  <2>3. CASE n = Len(s1)
    BY <2>1, <2>2, <2>3, <1>1, <1>3, <1>4
  <2>4. CASE n # Len(s1)
    <3>1. n \in 1..Len(frames) /\ s1[n] = frames[n]
      BY <2>4, <1>4
    <3> QED
      BY <2>1, <3>1, <1>1 DEF InOrder
  <2> QED
    BY <2>3, <2>4
<1>6. ToSet(frames) \subseteq ToSet(s1) /\ new \in ToSet(s1)
  BY <1>1, <1>4 DEF ToSet
<1>7. \A d : /\ Cardinality(Of(s1, d)) <= IF d = c THEN Cardinality(Of(frames, d)) + 1 ELSE Cardinality(Of(frames, d))
  <2> SUFFICES ASSUME NEW d
               PROVE  Cardinality(Of(s1, d)) <= IF d = c THEN Cardinality(Of(frames, d)) + 1 ELSE Cardinality(Of(frames, d))
    OBVIOUS
  <2>1. Of(s1, d) = IF d = c THEN Of(frames, d) \cup {Len(s1)} ELSE Of(frames, d)
    BY <1>3, <1>4 DEF Of
  <2>2. IsFiniteSet(Of(frames, d)) /\ Cardinality(Of(frames, d)) \in Nat /\ Len(s1) \notin Of(frames, d)
    <3>1. IsFiniteSet(Of(frames, d)) /\ Cardinality(Of(frames, d)) \in Nat
      BY <1>1, FiniteOf
    <3>2. Len(s1) \notin Of(frames, d)
      BY <1>4 DEF Of
    <3> QED
      BY <3>1, <3>2
  <2>3. Cardinality(Of(frames, d) \cup {Len(s1)}) = Cardinality(Of(frames, d)) + 1
    BY <2>2, FS_AddElement
  <2> QED
    BY <2>1, <2>2, <2>3
<1>8. /\ s2 \in Seq(Frames) /\ InOrder(s2) /\ s2 # <<>> /\ s2[Len(s2)] = new /\ Len(s2) <= max_frames
      /\ \A d : Cardinality(Of(s2, d)) <= Cardinality(Of(s1, d))
      /\ \A f \in ToSet(s1) \ ToSet(s2), g \in ToSet(s2) : f.rank < g.rank
  <2>1. CASE Len(s1) > max_frames
    <3>1. s2 = Tail(s1) /\ s1 # <<>> /\ Len(s1) > 1 /\ 1 \in 1..Len(s1)
      BY <2>1, <1>1, <1>4 DEF Evicted
    <3>2. Without(s2, s1, 1)
      BY <3>1, <1>4, TailRemoves
    <3>3. /\ InOrder(s2) /\ ToSet(s1) \subseteq ToSet(s2) \cup {s1[1]}
      BY <3>1, <3>2, <1>4, <1>5, Left
    <3>4. s2 \in Seq(Frames) /\ Len(s2) = Len(s1) - 1 /\ \A n \in 1..Len(s2) : s2[n] = s1[n + 1]
      BY <3>2, <1>4 DEF Without
    <3>5. Len(s2) <= max_frames /\ s2 # <<>> /\ s2[Len(s2)] = new
      BY <3>1, <3>4, <1>1, <1>4 DEF FramesAreBounded
    <3>6. \A g \in ToSet(s2) : s1[1].rank < g.rank
      BY <3>1, <3>4, <1>4, <1>5 DEF ToSet, InOrder
    <3>7. \A d : Cardinality(Of(s2, d)) <= Cardinality(Of(s1, d))
      <4> SUFFICES ASSUME NEW d PROVE Cardinality(Of(s2, d)) <= Cardinality(Of(s1, d))
        OBVIOUS
      <4>1. Cardinality(Of(s1, d)) \in Nat /\ Cardinality(Of(s2, d)) \in Nat
        BY <1>4, <3>4, FiniteOf
      <4>2. Cardinality(Of(s2, d)) <= IF s1[1].connection = d THEN Cardinality(Of(s1, d)) - 1
                                                              ELSE Cardinality(Of(s1, d))
        BY <3>1, <3>2, <1>4, FewerOf
      <4> QED
        BY <4>1, <4>2
    <3> QED
      BY <3>3, <3>4, <3>5, <3>6, <3>7
  <2>2. CASE ~(Len(s1) > max_frames)
    <3>1. s2 = s1
      BY <2>2 DEF Evicted
    <3>2. \A d : Cardinality(Of(s1, d)) \in Nat
      BY <1>4, FiniteOf
    <3> QED
      BY <2>2, <3>1, <3>2, <1>1, <1>4, <1>5
  <2> QED
    BY <2>1, <2>2
<1> HIDE DEF s2
<1> DEFINE own == Of(s2, c)
<1>9. /\ s3 \in Seq(Frames) /\ InOrder(s3) /\ Len(s3) <= max_frames /\ new \in ToSet(s3)
      /\ ToSet(s3) \subseteq ToSet(s2)
      /\ \A d : d # c => Cardinality(Of(s3, d)) <= Cardinality(Of(s2, d))
      /\ Cardinality(Of(s3, c)) <= max_frames_per_connection
      /\ \A f \in ToSet(s2) \ ToSet(s3), g \in ToSet(s3) : f.connection = g.connection => f.rank < g.rank
  <2>0. Len(s2) \in Nat /\ Len(s2) \in own /\ own \subseteq 1..Len(s2)
    BY <1>3, <1>8 DEF Of
  <2>1. CASE Cardinality(own) > max_frames_per_connection
    <3>1. PICK i \in own : \A o \in own : i <= o
      <4>1. own \subseteq Nat /\ own # {}
        BY <2>0
      <4> QED
        BY <4>1, Smallest
    <3>2. s3 = RemoveAt(s2, CHOOSE n \in own : \A o \in own : n <= o)
      BY <2>1 DEF EvictedOf
    <3>3. PICK j : j = CHOOSE n \in own : \A o \in own : n <= o
      OBVIOUS
    <3>4. j \in own /\ \A o \in own : j <= o
      BY <3>1, <3>3
    <3>5. j \in 1..Len(s2) /\ s2[j].connection = c
      BY <3>4 DEF Of
    <3>6. Without(s3, s2, j)
      BY <3>2, <3>3, <3>5, <1>8, Removal
    <3>7. j # Len(s2)
      <4>1. ASSUME j = Len(s2) PROVE FALSE
        <5>1. own = {Len(s2)}
          BY <2>0, <3>4, <4>1
        <5> QED
          <6>1. Cardinality(own) = 1
            BY <5>1, FS_Singleton
          <6> QED
            BY <6>1, <2>1, <1>1
      <4> QED
        BY <4>1
    <3>8. /\ InOrder(s3) /\ ToSet(s3) \subseteq ToSet(s2) /\ ToSet(s2) \subseteq ToSet(s3) \cup {s2[j]}
          /\ new \in ToSet(s3) /\ \A n \in 1..Len(s3) : s3[n] # s2[j]
      BY <3>5, <3>6, <3>7, <1>8, Left
    <3>9. s3 \in Seq(Frames) /\ Len(s3) = Len(s2) - 1
      BY <3>6 DEF Without
    <3>10. \A d : Cardinality(Of(s3, d)) <= IF d = c THEN Cardinality(Of(s2, d)) - 1 ELSE Cardinality(Of(s2, d))
      BY <3>5, <3>6, <1>8, FewerOf
    <3>11. \A g \in ToSet(s3) : g.connection = c => s2[j].rank < g.rank
      <4> SUFFICES ASSUME NEW g \in ToSet(s3), g.connection = c PROVE s2[j].rank < g.rank
        OBVIOUS
      <4>1. g \in ToSet(s2) /\ g # s2[j]
        <5>1. \E n \in 1..Len(s3) : g = s3[n]
          BY <3>9 DEF ToSet
        <5> QED
          BY <5>1, <3>8
      <4>2. PICK n \in 1..Len(s2) : s2[n] = g
        BY <4>1, <1>8 DEF ToSet
      <4>3. n \in own /\ n # j
        BY <4>1, <4>2 DEF Of
      <4> QED
        BY <4>2, <4>3, <3>4, <3>5, <1>8 DEF InOrder
    <3>12. Cardinality(Of(s2, c)) <= max_frames_per_connection + 1
      <4>1. Cardinality(Of(s2, c)) \in Nat /\ Cardinality(Of(s1, c)) \in Nat /\ Cardinality(Of(frames, c)) \in Nat
        BY <1>1, <1>4, <1>8, FiniteOf
      <4>2. Cardinality(Of(frames, c)) <= max_frames_per_connection
        BY <1>1, <1>2 DEF FramesAreBounded
      <4>3. Cardinality(Of(s2, c)) <= Cardinality(Of(s1, c)) /\ Cardinality(Of(s1, c)) <= Cardinality(Of(frames, c)) + 1
        BY <1>7, <1>8
      <4> QED
        BY <4>1, <4>2, <4>3, <1>1
    <3>13. Cardinality(Of(s3, c)) <= max_frames_per_connection
      <4>1. Cardinality(Of(s2, c)) \in Nat /\ Cardinality(Of(s3, c)) \in Nat
        BY <1>8, <3>9, FiniteOf
      <4> QED
        BY <4>1, <3>10, <3>12, <1>1
    <3>14. Len(s3) <= max_frames
      BY <3>9, <2>0, <1>1, <1>8
    <3> QED
      BY <3>5, <3>8, <3>9, <3>10, <3>11, <3>13, <3>14
  <2>2. CASE ~(Cardinality(own) > max_frames_per_connection)
    <3>1. s3 = s2
      BY <2>2 DEF EvictedOf
    <3>2. \A d : Cardinality(Of(s2, d)) \in Nat
      BY <1>8, FiniteOf
    <3>3. new \in ToSet(s2)
      BY <2>0, <1>8 DEF ToSet
    <3> QED
      BY <2>2, <3>1, <3>2, <3>3, <1>1, <1>8
  <2> QED
    BY <2>1, <2>2
<1> HIDE DEF s3
<1>10. \A f \in ToSet(frames) \ ToSet(frames'), g \in ToSet(frames') : f.connection = g.connection => f.rank < g.rank
  BY <1>2, <1>6, <1>8, <1>9
<1>11. \E g \in ToSet(frames') : g.rank = framesCaptured'
  BY <1>2, <1>3, <1>9
<1>12. \A n \in 1..Len(frames') : frames'[n].rank <= framesCaptured'
  <2> SUFFICES ASSUME NEW n \in 1..Len(s3) PROVE s3[n].rank <= framesCaptured + 1
    BY <1>2
  <2>1. s3[n] \in ToSet(s2)
    <3>1. s3[n] \in ToSet(s3)
      BY <1>9 DEF ToSet
    <3> QED
      BY <3>1, <1>9
  <2>2. new.rank = framesCaptured + 1 /\ s2 # <<>> /\ s2 \in Seq(Frames)
    BY <1>3, <1>8
  <2>3. \A m \in 1..Len(s2) : s2[m].rank <= s2[Len(s2)].rank
    <3>1. \A m \in 1..Len(s2) : s2[m] \in Frames /\ Len(s2) \in 1..Len(s2)
      BY <2>2
    <3>2. \A m \in 1..Len(s2) : s2[m].rank \in Nat
      BY <3>1 DEF Frames
    <3> QED
      BY <3>1, <3>2, <1>8 DEF InOrder
  <2> QED
    BY <2>1, <2>2, <2>3, <1>8 DEF ToSet
<1>13. FramesAreBounded'
  <2> SUFFICES ASSUME NEW d \in Connections PROVE Cardinality(Of(s3, d)) <= max_frames_per_connection
    BY <1>2, <1>9 DEF FramesAreBounded
  <2>1. CASE d # c
    <3>1. /\ Cardinality(Of(s3, d)) \in Nat /\ Cardinality(Of(s2, d)) \in Nat
          /\ Cardinality(Of(s1, d)) \in Nat /\ Cardinality(Of(frames, d)) \in Nat
      BY <1>1, <1>4, <1>8, <1>9, FiniteOf
    <3>2. /\ Cardinality(Of(s3, d)) <= Cardinality(Of(s2, d))
          /\ Cardinality(Of(s2, d)) <= Cardinality(Of(s1, d))
          /\ Cardinality(Of(s1, d)) <= Cardinality(Of(frames, d))
          /\ Cardinality(Of(frames, d)) <= max_frames_per_connection
      BY <2>1, <1>1, <1>7, <1>8, <1>9 DEF FramesAreBounded
    <3> QED
      BY <3>1, <3>2, <1>1
  <2> QED
    BY <2>1, <1>9
<1>14. /\ framesCaptured' \in Nat /\ DOMAIN connections' \subseteq Connections
       /\ closed' \subseteq DOMAIN connections' /\ clearing' \in BOOLEAN
  BY <1>1, <1>2 DEF WsInv
<1>15. capturer' \in [Capturers -> {NoFrame} \cup [id : Nat, connection : Connections]]
  BY <1>2 DEF WsInv
<1> QED
  BY <1>2, <1>9, <1>10, <1>11, <1>12, <1>13, <1>14, <1>15 DEF WsInv

\* The other steps drop frames only by clearing them.
LEMMA OtherFrames ==
    ASSUME WsInv,
           \/ \E c \in Connections : RegisterConnection(c) \/ CloseConnection(c)
           \/ \E k \in Capturers, c \in Connections : TakeId(k, c)
           \/ ClearConnections \/ ClearFrames \/ UNCHANGED wsVars
    PROVE  /\ WsInv' /\ framesCaptured' = framesCaptured
           /\ frames' = frames \/ frames' = <<>>
<1>1. framesCaptured' = framesCaptured /\ (frames' = frames \/ frames' = <<>>)
  BY DEF RegisterConnection, CloseConnection, TakeId, ClearConnections, ClearFrames, wsVars
<1>2. /\ framesCaptured \in Nat /\ frames \in Seq(Frames) /\ InOrder(frames) /\ FramesAreBounded
      /\ \A n \in 1..Len(frames) : frames[n].rank <= framesCaptured
  BY DEF WsInv
<1>4. /\ frames' \in Seq(Frames) /\ InOrder(frames') /\ FramesAreBounded'
      /\ \A n \in 1..Len(frames') : frames'[n].rank <= framesCaptured'
  <2>1. CASE frames' = frames
    BY <1>1, <1>2, <2>1 DEF FramesAreBounded, Of, InOrder
  <2>2. CASE frames' = <<>>
    <3>1. \A c : Of(frames', c) = {}
      BY <2>2 DEF Of
    <3> QED
      <4>1. /\ frames' \in Seq(Frames) /\ Len(frames') = 0
            /\ max_frames \in Nat /\ max_frames_per_connection \in Nat
        BY <2>2, FrameAssumption
      <4>2. FramesAreBounded'
        BY <3>1, <4>1, FS_EmptySet DEF FramesAreBounded
      <4> QED
        BY <4>1, <4>2 DEF InOrder
  <2> QED
    BY <1>1, <2>1, <2>2
<1>5. capturer' \in [Capturers -> {NoFrame} \cup [id : Nat, connection : Connections]]
  <2>1. ASSUME NEW k \in Capturers, NEW c \in Connections, TakeId(k, c)
        PROVE  capturer' \in [Capturers -> {NoFrame} \cup [id : Nat, connection : Connections]]
    <3>1. [id |-> Len(frames) + 1, connection |-> c] \in [id : Nat, connection : Connections]
      BY <1>2
    <3>2. capturer' = [capturer EXCEPT ![k] = [id |-> Len(frames) + 1, connection |-> c]]
      BY <2>1 DEF TakeId
    <3> QED
      BY <3>1, <3>2 DEF WsInv
  <2>2. CASE UNCHANGED capturer
    BY <2>2 DEF WsInv
  <2> QED
    BY <2>1, <2>2 DEF RegisterConnection, CloseConnection, ClearConnections, ClearFrames, wsVars
<1>6. DOMAIN connections' \subseteq Connections /\ closed' \subseteq DOMAIN connections' /\ clearing' \in BOOLEAN
  BY DEF WsInv, RegisterConnection, CloseConnection, TakeId, ClearConnections, ClearFrames, wsVars
<1> QED
  BY <1>1, <1>2, <1>4, <1>5, <1>6 DEF WsInv

\* What a step does to the frames.
FramesStep ==
    /\ frames' # <<>> =>
           \A f \in ToSet(frames) \ ToSet(frames'), g \in ToSet(frames') :
               f.connection = g.connection => f.rank < g.rank
    /\ framesCaptured' # framesCaptured => \E g \in ToSet(frames') : g.rank = framesCaptured'

LEMMA WsStep == WsInv /\ [WsNext]_wsVars => WsInv' /\ FramesStep
<1> SUFFICES ASSUME WsInv, [WsNext]_wsVars PROVE WsInv' /\ FramesStep
  OBVIOUS
<1>1. ASSUME NEW k \in Capturers, Push(k) PROVE WsInv' /\ FramesStep
  BY <1>1, PushLeaves DEF FramesStep
<1>2. CASE \/ \E c \in Connections : RegisterConnection(c) \/ CloseConnection(c)
           \/ \E k \in Capturers, c \in Connections : TakeId(k, c)
           \/ ClearConnections \/ ClearFrames \/ UNCHANGED wsVars
  <2>1. WsInv' /\ framesCaptured' = framesCaptured /\ (frames' = frames \/ frames' = <<>>)
    BY <1>2, OtherFrames
  <2> QED
    BY <2>1 DEF FramesStep
<1> QED
  BY <1>1, <1>2 DEF WsNext

LEMMA WsMeans == WsInv => WsOK
<1> SUFFICES ASSUME WsInv PROVE WsOK
  OBVIOUS
<1>1. \A n \in 1..Len(frames) : frames[n] \in Frames /\ frames[n].rank <= framesCaptured
  BY DEF WsInv
<1>2. \A n \in 1..Len(frames) :
          frames[n].connection \in Connections /\ frames[n].rank \in 1..framesCaptured
  BY <1>1 DEF Frames, WsInv
<1> QED
  BY <1>2 DEF WsInv, WsOK

\* Whatever the tasks do, the list keeps both of its limits, a frame that is dropped
\* is older than those of its connection that stay, and a frame that is captured is
\* there (websocket.rs:151, 155, 162).
THEOREM FramesKept == WsSpec => NewestStay /\ []WsOK
<1>1. WsInv /\ [WsNext]_wsVars => WsInv' /\ [FramesStep]_wsVars
  BY WsStep
<1>2. WsInit => WsInv
  BY WsInitial
<1>3. WsInv => FramesAreBounded /\ WsOK
  BY WsMeans DEF WsInv
<1> QED
  BY <1>1, <1>2, <1>3, PTL DEF WsSpec, NewestStay, FramesStep

----------------------------------------------------------------------------
\* The live feed

FeedTypes ==
    /\ announcements \in 0..MaxAnnounced
    /\ socket \in [Browsers -> {"new", "hello", "recv", "send", "closed"}]
    /\ cursor \in [Browsers -> Nat] /\ sending \in [Browsers -> Nat] /\ since \in [Browsers -> Nat]
    /\ got \in [Browsers -> Seq(Nat)]
    /\ skipped \in [Browsers -> SUBSET Nat]

\* What a browser was sent and what is on its way to it.
Had(b) == IF socket[b] = "send" THEN Append(got[b], sending[b]) ELSE got[b]

\* The exchanges of a receiver: in order, none twice, and all but those it was too
\* late for.
Served(b) ==
    /\ since[b] < cursor[b]
    /\ \A n \in 1..(Len(Had(b)) - 1) : Had(b)[n] < Had(b)[n + 1]
    /\ ToSet(Had(b)) = ((since[b] + 1)..(cursor[b] - 1)) \ skipped[b]
    /\ \A lost \in skipped[b] : lost + ChannelSize <= announcements /\ lost < cursor[b]

FeedOf(b) ==
    /\ cursor[b] <= announcements + 1
    /\ \A n \in 1..Len(got[b]) : got[b][n] \in 1..announcements
    /\ socket[b] = "send" => sending[b] \in 1..announcements
    /\ socket[b] = "new" => got[b] = <<>> /\ skipped[b] = {} /\ cursor[b] = 0
    /\ socket[b] = "hello" => got[b] = <<>> /\ skipped[b] = {} /\ cursor[b] = since[b] + 1
    /\ socket[b] \in {"recv", "send"} => Served(b)

FeedInv == FeedTypes /\ \A b \in Browsers : FeedOf(b)

LEMMA Appended ==
    ASSUME NEW s \in Seq(Nat), NEW x \in Nat
    PROVE  /\ Append(s, x) \in Seq(Nat) /\ Len(Append(s, x)) = Len(s) + 1
           /\ Append(s, x)[Len(s) + 1] = x
           /\ \A n \in 1..Len(s) : Append(s, x)[n] = s[n]
           /\ s \o <<x>> = Append(s, x)
           /\ ToSet(Append(s, x)) = ToSet(s) \cup {x}
           /\ s \o <<>> = s
<1>1. /\ Append(s, x) \in Seq(Nat) /\ Len(Append(s, x)) = Len(s) + 1
      /\ Append(s, x)[Len(s) + 1] = x
      /\ \A n \in 1..Len(s) : Append(s, x)[n] = s[n]
  OBVIOUS
<1>2. s \o <<x>> = Append(s, x) /\ s \o <<>> = s
  OBVIOUS
<1>3. \A t \in Seq(Nat) : ToSet(t) = {t[n] : n \in 1..Len(t)}
  BY DEF ToSet
<1>4. ToSet(Append(s, x)) = ToSet(s) \cup {x}
  <2>1. 1..(Len(s) + 1) = 1..Len(s) \cup {Len(s) + 1}
    OBVIOUS
  <2>2. ToSet(Append(s, x)) = {Append(s, x)[n] : n \in 1..Len(s) \cup {Len(s) + 1}}
    BY <1>1, <1>3, <2>1
  <2> QED
    BY <1>1, <1>3, <2>2
<1> QED
  BY <1>1, <1>2, <1>4

LEMMA FeedInitial == FeedInit => FeedInv
BY FeedAssumption DEF FeedInit, FeedInv, FeedTypes, FeedOf

LEMMA FeedMeans == FeedInv => FeedOK /\ FeedIsComplete
<1> SUFFICES ASSUME FeedInv PROVE FeedOK /\ FeedIsComplete
  OBVIOUS
<1>1. FeedTypes /\ \A b \in Browsers : FeedOf(b)
  BY DEF FeedInv
<1>2. FeedOK
  <2>1. \A b \in Browsers : got[b] \in Seq(1..announcements)
    <3> SUFFICES ASSUME NEW b \in Browsers PROVE got[b] \in Seq(1..announcements)
      OBVIOUS
    <3>1. got[b] \in Seq(Nat) /\ \A n \in 1..Len(got[b]) : got[b][n] \in 1..announcements
      BY <1>1 DEF FeedTypes, FeedOf
    <3>2. got[b] \in [1..Len(got[b]) -> 1..announcements] /\ Len(got[b]) \in Nat
      BY <3>1
    <3> QED
      BY <3>2, SeqDef
  <2> QED
    BY <1>1, <2>1 DEF FeedOK, FeedTypes, FeedOf
<1>3. FeedIsComplete
  <2>1. ASSUME NEW b \in Browsers, socket[b] \in {"recv", "send"}
        PROVE  got[b] \o (IF socket[b] = "send" THEN <<sending[b]>> ELSE <<>>) = Had(b)
    <3>1. got[b] \in Seq(Nat) /\ sending[b] \in Nat
      BY <1>1 DEF FeedTypes
    <3> QED
      BY <3>1, Appended DEF Had
  <2>2. \A b \in Browsers : socket[b] \in {"recv", "send"} => Served(b)
    BY <1>1 DEF FeedOf
  <2> QED
    BY <2>1, <2>2 DEF FeedIsComplete, Served
<1> QED
  BY <1>2, <1>3

\* A browser that nothing happens to but that the channel goes on.
LEMMA FeedStays ==
    ASSUME FeedInv, NEW b \in Browsers, announcements' \in Nat, announcements' >= announcements,
           socket'[b] = socket[b], cursor'[b] = cursor[b], sending'[b] = sending[b],
           since'[b] = since[b], got'[b] = got[b], skipped'[b] = skipped[b]
    PROVE  FeedOf(b)'
<1>1. FeedTypes /\ FeedOf(b) /\ ChannelSize \in Nat
  BY FeedAssumption DEF FeedInv
<1>2. /\ announcements \in Nat /\ cursor[b] \in Nat /\ sending[b] \in Nat /\ got[b] \in Seq(Nat)
      /\ skipped[b] \subseteq Nat
  BY <1>1 DEF FeedTypes
<1>3. Had(b)' = Had(b)
  BY DEF Had
<1>4. Served(b) => Served(b)'
  <2>1. (\A lost \in skipped[b] : lost + ChannelSize <= announcements) =>
            \A lost \in skipped[b] : lost + ChannelSize <= announcements'
    BY <1>1, <1>2
  <2>2. QED
    BY <2>1, <1>3, Zenon DEF Served
<1> QED
  BY <1>1, <1>2, <1>4 DEF FeedOf

LEMMA FeedStep == FeedInv /\ [FeedNext]_feedVars => FeedInv'
<1> SUFFICES ASSUME FeedInv, [FeedNext]_feedVars PROVE FeedInv'
  OBVIOUS
<1>0. FeedTypes /\ ChannelSize \in Nat \ {0} /\ \A b \in Browsers : FeedOf(b)
  BY FeedAssumption DEF FeedInv
<1>1. /\ announcements \in Nat /\ Oldest \in 1..(announcements + 1)
      /\ announcements >= Oldest => announcements > 0
      /\ \A n \in Nat \ {0} : n < Oldest => n + ChannelSize <= announcements
  BY <1>0 DEF FeedTypes, Oldest
<1>2. \A b \in Browsers : /\ cursor[b] \in Nat /\ sending[b] \in Nat /\ since[b] \in Nat
                          /\ got[b] \in Seq(Nat) /\ skipped[b] \subseteq Nat
  BY <1>0 DEF FeedTypes
<1>3. CASE Announce
  <2>1. FeedTypes'
    BY <1>0, <1>3, FeedAssumption DEF Announce, FeedTypes
  <2> QED
    BY <2>1, <1>1, <1>3, FeedStays DEF Announce, FeedInv
<1>4. CASE UNCHANGED feedVars
  BY <1>0, <1>4, <1>1, FeedStays DEF feedVars, FeedInv, FeedTypes
<1>5. ASSUME NEW b \in Browsers,
             Subscribe(b) \/ Welcome(b) \/ Lag(b) \/ Receive(b) \/ Sent(b) \/ SendFails(b)
      PROVE  FeedInv'
  <2>0. announcements' = announcements /\ FeedOf(b)
    BY <1>0, <1>5 DEF Subscribe, Welcome, Lag, Receive, Sent, SendFails
  <2>1. \A d \in Browsers \ {b} :
            /\ socket'[d] = socket[d] /\ cursor'[d] = cursor[d] /\ sending'[d] = sending[d]
            /\ since'[d] = since[d] /\ got'[d] = got[d] /\ skipped'[d] = skipped[d]
    BY <1>0, <1>5 DEF Subscribe, Welcome, Lag, Receive, Sent, SendFails, FeedTypes
  <2>2. \A d \in Browsers \ {b} : FeedOf(d)'
    BY <2>0, <2>1, <1>1, FeedStays
  <2>3. ASSUME Subscribe(b) PROVE FeedTypes' /\ FeedOf(b)'
    <3>1. FeedTypes'
      BY <1>0, <1>1, <2>3 DEF Subscribe, FeedTypes
    <3>2. /\ socket'[b] = "hello" /\ cursor'[b] = announcements + 1 /\ since'[b] = announcements
          /\ got'[b] = <<>> /\ skipped'[b] = {}
      BY <1>0, <2>0, <2>3 DEF Subscribe, FeedTypes, FeedOf
    <3> QED
      BY <1>1, <2>0, <3>1, <3>2 DEF FeedOf
  <2>4. ASSUME Welcome(b) PROVE FeedTypes' /\ FeedOf(b)'
    <3>1. FeedTypes'
      BY <1>0, <2>4 DEF Welcome, FeedTypes
    <3>2. /\ socket'[b] = "recv" /\ cursor'[b] = cursor[b] /\ since'[b] = since[b]
          /\ got'[b] = <<>> /\ skipped'[b] = {} /\ cursor[b] = since[b] + 1 /\ Had(b)' = <<>>
      BY <1>0, <2>0, <2>4 DEF Welcome, FeedTypes, FeedOf, Had
    <3>3. ToSet(<<>>) = {}
      BY DEF ToSet
    <3>4. Served(b)'
      <4>1. Len(Had(b)') = 0 /\ ToSet(Had(b)') = {}
        BY <3>2, <3>3
      <4>2. (since'[b] + 1)..(cursor'[b] - 1) = {} /\ since'[b] < cursor'[b]
        BY <1>2, <3>2
      <4>3. 1..(Len(Had(b)') - 1) = {}
        BY <4>1
      <4> QED
        BY <3>2, <4>1, <4>2, <4>3 DEF Served
    <3> QED
      BY <2>0, <3>1, <3>2, <3>4 DEF FeedOf
  <2>5. ASSUME Lag(b) PROVE FeedTypes' /\ FeedOf(b)'
    <3>1. FeedTypes'
      BY <1>0, <1>1, <1>2, <2>5 DEF Lag, FeedTypes
    <3>2. /\ socket[b] = "recv" /\ socket'[b] = "recv" /\ cursor[b] < Oldest /\ cursor'[b] = Oldest
          /\ since'[b] = since[b] /\ got'[b] = got[b] /\ sending'[b] = sending[b]
          /\ skipped'[b] = skipped[b] \cup cursor[b]..(Oldest - 1)
      BY <1>0, <2>5 DEF Lag, FeedTypes
    <3>3. Had(b)' = Had(b) /\ Served(b)
      BY <2>0, <3>2 DEF Had, FeedOf
    <3>4. ((since[b] + 1)..(cursor[b] - 1)) \ skipped[b] = ((since[b] + 1)..(Oldest - 1)) \ skipped'[b]
      BY <1>1, <1>2, <3>2, <3>3 DEF Served
    <3>5. \A lost \in skipped'[b] : lost + ChannelSize <= announcements /\ lost < Oldest
      <4>1. cursor[b] \in Nat \ {0} /\ Oldest \in Nat
        BY <1>1, <1>2, <3>3 DEF Served
      <4>2. \A lost \in skipped[b] : lost + ChannelSize <= announcements /\ lost < cursor[b] /\ lost \in Nat
        BY <1>2, <3>3 DEF Served
      <4>3. \A lost \in cursor[b]..(Oldest - 1) : lost \in Nat \ {0} /\ lost < Oldest
        BY <4>1
      <4> QED
        BY <1>1, <3>2, <4>1, <4>2, <4>3
    <3>6. Served(b)'
      BY <1>1, <1>2, <2>0, <3>2, <3>3, <3>4, <3>5 DEF Served
    <3> QED
      BY <1>1, <2>0, <3>1, <3>2, <3>6 DEF FeedOf
  <2>6. ASSUME Receive(b) PROVE FeedTypes' /\ FeedOf(b)'
    <3>1. FeedTypes'
      BY <1>0, <1>2, <2>6 DEF Receive, FeedTypes
    <3>2. /\ socket[b] = "recv" /\ socket'[b] = "send" /\ cursor[b] \in 1..announcements
          /\ cursor'[b] = cursor[b] + 1 /\ sending'[b] = cursor[b]
          /\ since'[b] = since[b] /\ got'[b] = got[b] /\ skipped'[b] = skipped[b]
      BY <1>0, <1>1, <2>6 DEF Receive, FeedTypes
    <3>3. Had(b)' = Append(Had(b), cursor[b]) /\ Had(b) = got[b] /\ Served(b)
      BY <2>0, <3>2 DEF Had, FeedOf
    <3>4. /\ ToSet(Had(b)') = ToSet(Had(b)) \cup {cursor[b]}
          /\ Len(Had(b)') = Len(Had(b)) + 1 /\ Len(Had(b)) \in Nat
          /\ Had(b)'[Len(Had(b)) + 1] = cursor[b]
          /\ \A n \in 1..Len(Had(b)) : Had(b)'[n] = Had(b)[n]
      BY <1>2, <3>3, Appended
    <3>5. \A n \in 1..Len(Had(b)) : Had(b)[n] < cursor[b]
      <4>1. \A n \in 1..Len(Had(b)) : Had(b)[n] \in ToSet(Had(b))
        BY <1>2, <3>3 DEF ToSet
      <4> QED
        BY <1>2, <3>3, <4>1 DEF Served
    <3>6. \A n \in 1..(Len(Had(b)') - 1) : Had(b)'[n] < Had(b)'[n + 1]
      <4> SUFFICES ASSUME NEW n \in 1..Len(Had(b)) PROVE Had(b)'[n] < Had(b)'[n + 1]
        BY <3>4
      <4>1. CASE n = Len(Had(b))
        BY <4>1, <3>4, <3>5
      <4>2. CASE n < Len(Had(b))
        <5>1. n \in 1..(Len(Had(b)) - 1) /\ n + 1 \in 1..Len(Had(b))
          BY <4>2, <3>4
        <5> QED
          BY <5>1, <3>3, <3>4 DEF Served
      <4> QED
        BY <4>1, <4>2, <3>4
    <3>7. ToSet(Had(b)') = ((since[b] + 1)..cursor[b]) \ skipped[b]
      BY <1>2, <3>3, <3>4 DEF Served
    <3>8. Served(b)'
      BY <1>2, <2>0, <3>2, <3>3, <3>6, <3>7 DEF Served
    <3> QED
      BY <1>1, <1>2, <2>0, <3>1, <3>2, <3>8 DEF FeedOf
  <2>7. ASSUME Sent(b) PROVE FeedTypes' /\ FeedOf(b)'
    <3>0. Append(got[b], sending[b]) \in Seq(Nat)
      BY <1>2, Appended
    <3>1. FeedTypes'
      BY <1>0, <2>7, <3>0 DEF Sent, FeedTypes
    <3>2. /\ socket[b] = "send" /\ socket'[b] = "recv" /\ UNCHANGED <<cursor, sending, since, skipped>>
          /\ got'[b] = Append(got[b], sending[b])
      BY <1>0, <2>7 DEF Sent, FeedTypes
    <3>3. Had(b)' = Had(b) /\ Served(b)
      BY <2>0, <3>2 DEF Had, FeedOf
    <3>4. Served(b)'
      BY <2>0, <3>2, <3>3 DEF Served
    <3>5. \A n \in 1..Len(got'[b]) : got'[b][n] \in 1..announcements
      BY <1>2, <2>0, <3>2, Appended DEF FeedOf
    <3> QED
      BY <2>0, <3>1, <3>2, <3>4, <3>5 DEF FeedOf
  <2>8. ASSUME SendFails(b) PROVE FeedTypes' /\ FeedOf(b)'
    <3>1. FeedTypes' /\ socket'[b] = "closed" /\ UNCHANGED <<cursor, sending, since, skipped, got>>
      BY <1>0, <2>8 DEF SendFails, FeedTypes
    <3> QED
      BY <2>0, <3>1 DEF FeedOf
  <2>9. FeedTypes' /\ FeedOf(b)'
    BY <1>5, <2>3, <2>4, <2>5, <2>6, <2>7, <2>8
  <2> QED
    BY <2>2, <2>9 DEF FeedInv
<1> QED
  BY <1>3, <1>4, <1>5 DEF FeedNext

\* A browser has every exchange since it subscribed once and in order, but for those
\* that were overwritten before it was ready, with a channel of any size
\* (websocket.rs:34, 48).
THEOREM FeedComplete == FeedSpec => [](FeedOK /\ FeedIsComplete)
BY FeedInitial, FeedMeans, FeedStep, PTL DEF FeedSpec

----------------------------------------------------------------------------
\* Rules

\* What the community module's flattening is, as an equation.
Flat(f, t) == f = [i \in 1..Len(t) |-> IF i = 1 THEN t[i] ELSE f[i - 1] \o t[i]]

LEMMA FlattenIsFlat ==
    ASSUME NEW t, Len(t) # 0 PROVE FlattenSeq(t) = (CHOOSE f : Flat(f, t))[Len(t)]
BY DEF FlattenSeq, Flat

\* A sequence cut into its members and put together again is itself.
LEMMA FlattenSingletons ==
    ASSUME NEW S, NEW s \in Seq(S)
    PROVE  FlattenSeq([n \in DOMAIN s |-> <<s[n]>>]) = s
<1> DEFINE t == [n \in DOMAIN s |-> <<s[n]>>]
           L == Len(s)
           g == [i \in 1..L |-> SubSeq(s, 1, i)]
<1>1. L \in Nat /\ DOMAIN s = 1..L /\ Len(t) = L /\ \A i \in 1..L : t[i] = <<s[i]>> /\ s[i] \in S
  BY LenProperties
<1>2. CASE L = 0
  <2>1. s = <<>> /\ t = <<>>
    BY <1>1, <1>2
  <2>2. QED
    BY <2>1 DEF FlattenSeq
<1>3. CASE L # 0
  <2>1. \A i \in 1..L :
            /\ SubSeq(s, 1, i) \in Seq(S) /\ Len(SubSeq(s, 1, i)) = i
            /\ \A j \in 1..i : SubSeq(s, 1, i)[j] = s[j]
    BY <1>1
  <2>2. SubSeq(s, 1, 1) = <<s[1]>>
    <3>1. 1 \in 1..L
      BY <1>1, <1>3
    <3> DEFINE u == SubSeq(s, 1, 1)
    <3>2. u \in Seq(S) /\ Len(u) = 1 /\ u[1] = s[1] /\ s[1] \in S
      BY <1>1, <2>1, <3>1
    <3> HIDE DEF u
    <3>3. u = <<s[1]>>
      BY <3>2
    <3>4. QED
      BY <3>3 DEF u
  <2>3. ASSUME NEW i \in 2..L PROVE SubSeq(s, 1, i) = SubSeq(s, 1, i - 1) \o <<s[i]>>
    <3>1. i \in 1..L /\ i - 1 \in 1..L
      BY <1>1
    <3> DEFINE u == SubSeq(s, 1, i - 1)
               v == SubSeq(s, 1, i)
    <3>2. /\ u \in Seq(S) /\ Len(u) = i - 1 /\ \A j \in 1..(i - 1) : u[j] = s[j]
          /\ v \in Seq(S) /\ Len(v) = i /\ \A j \in 1..i : v[j] = s[j]
          /\ s[i] \in S
      <4>1. u \in Seq(S) /\ Len(u) = i - 1 /\ \A j \in 1..(i - 1) : u[j] = s[j]
        BY <2>1, <3>1
      <4>2. v \in Seq(S) /\ Len(v) = i /\ \A j \in 1..i : v[j] = s[j]
        BY <2>1, <3>1
      <4>3. QED
        BY <1>1, <3>1, <4>1, <4>2
    <3> HIDE DEF u, v
    <3>3. /\ u \o <<s[i]>> \in Seq(S) /\ Len(u \o <<s[i]>>) = i
          /\ \A j \in 1..i : (u \o <<s[i]>>)[j] = s[j]
      BY <3>1, <3>2
    <3>4. v = u \o <<s[i]>>
      BY <3>2, <3>3, SeqEqual
    <3>5. QED
      BY <3>4 DEF u, v
  <2>4. Flat(g, t)
    <3>1. \A i \in 1..L : g[i] = IF i = 1 THEN t[i] ELSE g[i - 1] \o t[i]
      <4> SUFFICES ASSUME NEW i \in 1..L PROVE g[i] = IF i = 1 THEN t[i] ELSE g[i - 1] \o t[i]
        OBVIOUS
      <4>1. CASE i = 1
        BY <1>1, <2>2, <4>1
      <4>2. CASE i # 1
        <5>1. i \in 2..L /\ i - 1 \in 1..L
          BY <1>1, <4>2
        <5>2. QED
          BY <1>1, <2>3, <4>2, <5>1
      <4>3. QED
        BY <4>1, <4>2
    <3>2. QED
      BY <1>1, <3>1 DEF Flat
  <2>5. ASSUME NEW f, Flat(f, t) PROVE \A i \in 1..L : f[i] = g[i]
    <3> DEFINE bad == {i \in 1..L : f[i] # g[i]}
    <3> SUFFICES ASSUME bad # {} PROVE FALSE
      OBVIOUS
    <3>0. bad \subseteq Nat
      BY <1>1
    <3>1. PICK i \in bad : \A j \in bad : i <= j
      <4> HIDE DEF bad
      <4>1. QED
        BY <3>0, Smallest
    <3>2. \A k \in 1..L : f[k] = IF k = 1 THEN t[k] ELSE f[k - 1] \o t[k]
      BY <1>1, <2>5 DEF Flat
    <3>3. \A k \in 1..L : g[k] = IF k = 1 THEN t[k] ELSE g[k - 1] \o t[k]
      BY <1>1, <2>4 DEF Flat
    <3>4. i \in 1..L /\ f[i] # g[i]
      OBVIOUS
    <3> HIDE DEF g, t
    <3>5. CASE i = 1
      BY <3>2, <3>3, <3>4, <3>5
    <3>6. CASE i # 1
      <4>1. i - 1 \in 1..L /\ i - 1 \notin bad
        BY <1>1, <3>1, <3>4, <3>6
      <4>2. f[i - 1] = g[i - 1]
        BY <4>1
      <4>3. QED
        BY <3>2, <3>3, <3>4, <3>6, <4>2
    <3>7. QED
      BY <3>5, <3>6
  <2>6. FlattenSeq(t) = SubSeq(s, 1, L)
    <3> DEFINE f == CHOOSE ff : Flat(ff, t)
    <3>1. Flat(f, t)
      BY <2>4
    <3>2. FlattenSeq(t) = f[L]
      BY <1>1, <1>3, FlattenIsFlat
    <3> HIDE DEF f, g, t
    <3>a. \A i \in 1..L : f[i] = g[i]
      BY <2>5, <3>1
    <3>b. L \in 1..L
      BY <1>1, <1>3
    <3> USE DEF g
    <3>3. f[L] = SubSeq(s, 1, L)
      BY <3>a, <3>b
    <3> USE DEF t
    <3>4. QED
      BY <3>2, <3>3
  <2>7. SubSeq(s, 1, L) = s
    BY <1>1, <2>1, SeqEqual
  <2>8. QED
    BY <2>6, <2>7
<1>4. QED
  BY <1>2, <1>3

----------------------------------------------------------------------------
LEMMA LossyFacts ==
    ASSUME NEW b \in Seq(Characters)
    PROVE  /\ Lossy(b) \in Seq(Characters \cup {"fffd"})
           /\ Lossy(Lossy(b)) = Lossy(b)
<1>1. DOMAIN b = 1..Len(b) /\ Len(b) \in Nat /\ \A n \in DOMAIN b : b[n] \in Characters
  BY LenProperties
<1>2. DOMAIN Lossy(b) = DOMAIN b /\ \A n \in DOMAIN b : Lossy(b)[n] # "byte"
  BY DEF Lossy
<1>3. Lossy(Lossy(b)) = Lossy(b)
  BY <1>2 DEF Lossy
<1>4. Lossy(b) \in [1..Len(b) -> Characters \cup {"fffd"}]
  BY <1>1 DEF Lossy
<1>5. QED
  BY <1>1, <1>3, <1>4

\* A pattern that does not occur is not replaced.
LEMMA NothingReplaced ==
    ASSUME NEW body, NEW pattern, NEW by, Lossy(body) \in Seq(Characters \cup {"fffd"}),
           ~Occurs(body, pattern)
    PROVE  Replaced(Lossy(body), pattern, by) = Lossy(body)
<1> DEFINE s == Lossy(body)
<1>1. \A n \in DOMAIN s : s[n] # pattern
  BY DEF Occurs, ToSet
<1>2. [n \in DOMAIN s |-> IF s[n] = pattern THEN by ELSE <<s[n]>>] = [n \in DOMAIN s |-> <<s[n]>>]
  BY <1>1
<1>3. QED
  BY <1>2, FlattenSingletons DEF Replaced

IsMessage(m) ==
    /\ m = [type |-> m.type, url |-> m.url, body |-> m.body, arrived |-> m.arrived, x |-> m.x,
            length |-> m.length]
    /\ m.arrived \in Seq(Characters)

RulesInv ==
    /\ foreign \in BOOLEAN /\ occurred \in BOOLEAN
    /\ message # NoMessage => IsMessage(message)
    /\ MessageIsSound

LEMMA RulesStep == RulesInv /\ [RulesNext]_rulesVars => RulesInv'
<1> SUFFICES ASSUME RulesInv, [RulesNext]_rulesVars PROVE RulesInv'
  OBVIOUS
<1>1. CASE UNCHANGED <<message, foreign, occurred>>
  BY <1>1 DEF RulesInv, MessageIsSound, IsMessage
<1>2. CASE AddRule \/ ClearRules \/ Skip \/ UNCHANGED rulesVars
  BY <1>1, <1>2 DEF AddRule, ClearRules, Skip, rulesVars
<1>3. CASE Applied
  BY <1>3 DEF Applied, RulesInv, MessageIsSound
<1>4. ASSUME NEW type \in MessageTypes, NEW body \in SeqOf(Characters, MaxBody),
             NEW length \in NoLength..MaxBody, NEW x \in {Absent, Opaque, "a"},
             Apply(type, body, x, length)
      PROVE  RulesInv'
  <2>1. body \in Seq(Characters)
    BY RulesAssumption DEF SeqOf
  <2>2. /\ message' = [type |-> type, url |-> "a", body |-> body, arrived |-> body, x |-> x,
                       length |-> length]
        /\ foreign' = (length \notin {NoLength, Size(body)}) /\ occurred' = FALSE
    BY <1>4 DEF Apply
  <2>3. message'.body = body /\ message'.arrived = body /\ message'.length = length
    BY <2>2
  <2>4. IsMessage(message')
    BY <2>1, <2>2 DEF IsMessage
  <2>5. QED
    BY <2>2, <2>3, <2>4 DEF RulesInv, MessageIsSound, IsMessage
<1>5. ASSUME NEW c \in Conditions, NEW a \in Actions, Execute(c, a) PROVE RulesInv'
  <2>1. message # NoMessage /\ IsMessage(message)
    BY <1>5 DEF Execute, RulesInv
  <2>2. CASE a.do = "replace body" /\ ~Compiles(a)
    BY <1>1, <1>5, <2>2 DEF Execute
  <2>3. CASE a.do = "replace body" /\ Compiles(a)
    <3> DEFINE body == Replaced(Lossy(message.body), a.pattern, a.by)
    <3>1. /\ message' = WithBody(message, body)
          /\ foreign' = FALSE
          /\ occurred' = (occurred \/ Occurs(message.body, a.pattern))
      BY <1>5, <2>3 DEF Execute
    <3>2. ASSUME ~occurred' PROVE body \in {message.arrived, Lossy(message.arrived)}
      <4>1. ~occurred /\ ~Occurs(message.body, a.pattern)
        BY <3>1, <3>2
      <4>2. message.body \in {message.arrived, Lossy(message.arrived)}
        BY <2>1, <4>1 DEF RulesInv, MessageIsSound
      <4>3. /\ Lossy(message.arrived) \in Seq(Characters \cup {"fffd"})
            /\ Lossy(message.body) = Lossy(message.arrived)
        BY <2>1, <4>2, LossyFacts DEF IsMessage
      <4>4. body = Lossy(message.body)
        BY <4>1, <4>3, NothingReplaced
      <4>5. QED
        BY <4>3, <4>4
    <3> HIDE DEF body
    <3>3. /\ message'.body = body /\ message'.arrived = message.arrived
          /\ message'.length \in {NoLength, Size(body)}
          /\ IsMessage(message')
      BY <2>1, <3>1 DEF WithBody, IsMessage
    <3>4. QED
      BY <3>1, <3>2, <3>3 DEF RulesInv, MessageIsSound, IsMessage
  <2>4. CASE a.do # "replace body"
    <3>1. a.do \in {"set", "remove", "edit"} /\ a.header \in {"length", "x"}
      BY <2>4 DEF Actions
    <3>2. PICK n \in {0, 9} : message' = WithHeader(message, a, n)
      BY <1>5, <2>4 DEF Execute
    <3>3. /\ foreign' = IF a.header = "length" THEN a.do # "remove" ELSE foreign
          /\ occurred' = occurred
      BY <1>5, <2>4 DEF Execute
    <3>4. /\ message'.body = message.body /\ message'.arrived = message.arrived
          /\ IsMessage(message')
          /\ a.header = "x" => message'.length = message.length
          /\ a.header = "length" /\ a.do = "remove" => message'.length = NoLength
      BY <2>1, <3>1, <3>2 DEF WithHeader, IsMessage
    <3>5. QED
      BY <2>1, <3>1, <3>3, <3>4 DEF RulesInv, MessageIsSound, IsMessage
  <2>5. QED
    BY <2>2, <2>3, <2>4
<1>6. QED
  BY <1>2, <1>3, <1>4, <1>5 DEF RulesNext

LEMMA RulesInitial == RulesInit => RulesInv
BY DEF RulesInit, RulesInv, MessageIsSound

----------------------------------------------------------------------------
\* The parts together

\* The capture's module and the proofs about it, with the names it has here.
CP == INSTANCE CaptureProofs WITH task <- pushing, entries <- deque

LEMMA SameNext == [Captures!Next]_captureVars => [CP!Next]_(CP!vars)
<1>1. \A p \in Pushers :
         /\ Captures!PushAllocate(p) <=> CP!PushAllocate(p)
         /\ Captures!PushMemory(p) <=> CP!PushMemory(p)
         /\ Captures!PushAnnounce(p) <=> CP!PushAnnounce(p)
         /\ Captures!PushPersist(p) <=> CP!PushPersist(p)
  BY DEF Captures!PushAllocate, Captures!PushMemory, Captures!PushAnnounce, Captures!PushPersist,
         Captures!PushFront, Captures!Bound, Captures!Insert, Captures!Idle,
         CP!PushAllocate, CP!PushMemory, CP!PushAnnounce, CP!PushPersist,
         CP!PushFront, CP!Bound, CP!Insert, CP!Idle
<1>2. \A c \in Clearers :
         /\ Captures!ClearMemory(c) <=> CP!ClearMemory(c)
         /\ Captures!ClearStorage(c) <=> CP!ClearStorage(c)
  BY DEF Captures!ClearMemory, Captures!ClearStorage, Captures!Finished, Captures!Busy,
         Captures!NoRows, Captures!Quiet,
         CP!ClearMemory, CP!ClearStorage, CP!Finished, CP!Busy, CP!NoRows, CP!Quiet
<1>3. \A k \in Keys : Captures!Restart(k) <=> CP!Restart(k)
  BY DEF Captures!Restart, Captures!IsWindow, Captures!Load, Captures!Readable, Captures!Idle,
         Captures!Quiet, Captures!InStorage, CP!Restart, CP!IsWindow, CP!Load, CP!Readable,
         CP!Idle, CP!Quiet, CP!InStorage
<1>4. CP!vars = captureVars /\ CP!vars' = captureVars'
  BY DEF CP!vars, captureVars
<1>5. Captures!Next <=> CP!Next
  BY <1>1, <1>2, <1>3 DEF Captures!Next, CP!Next, Captures!Serve, CP!Serve
<1>6. QED
  BY <1>4, <1>5

LEMMA SameInit == Captures!Init <=> CP!Init
BY DEF Captures!Init, CP!Init, Captures!NoRows, CP!NoRows, Captures!Idle, CP!Idle, Captures!Quiet,
       CP!Quiet

CaptureInv == CP!AgreeInv /\ CP!AnnounceInv /\ CP!GoneInv

LEMMA CaptureInit == Captures!Init => CaptureInv
BY SameInit, CaptureAssumption, CP!AgreeInit, CP!AnnounceInit, CP!GoneInit
DEF CP!CapacityAssumption, CP!BoundAssumption, CP!FailureAssumption, CaptureInv

LEMMA CaptureStep == CaptureInv /\ [Captures!Next]_captureVars => CaptureInv'
BY SameNext, CaptureAssumption, CP!AgreeStep, CP!AnnounceStep, CP!GoneStep
DEF CP!CapacityAssumption, CP!BoundAssumption, CP!FailureAssumption, CaptureInv

LEMMA CaptureMeans == CaptureInv => Captures!TypeOK /\ CaptureHolds
<1> SUFFICES ASSUME CaptureInv PROVE Captures!TypeOK /\ CaptureHolds
  OBVIOUS
<1>1. CP!TypeOK /\ Len(deque) <= CP!Bound /\ CP!DistinctIds
  BY DEF CaptureInv, CP!AgreeInv, CP!StoreInv, CP!IdInv, CP!TypeInv
<1>2. Captures!TypeOK
  BY <1>1 DEF CP!TypeOK, CP!Stages, Captures!TypeOK, Captures!Stages
<1>3. Captures!MemoryIsKeyed
  BY <1>1 DEF CP!DistinctIds, CP!Bound, Captures!MemoryIsKeyed, Captures!Bound
<1>4. Captures!StoredWasAnnounced
  BY DEF CaptureInv, CP!AnnounceInv, Captures!StoredWasAnnounced, Captures!InStorage
<1>5. Captures!ClearedStaysCleared
  BY DEF CaptureInv, CP!GoneInv, CP!Avoided, Captures!ClearedStaysCleared, Captures!InStorage,
         Captures!InMemory
<1>6. Captures!GetAndListAgree
  BY DEF CaptureInv, CP!AgreeInv, CP!GetAndListAgree, CP!Unread, Captures!GetAndListAgree,
         Captures!Unread
<1>7. Captures!StorageInv
  BY DEF CaptureInv, CP!AgreeInv, CP!StoreInv, CP!StorageInv, CP!Unread, CP!Busy,
         Captures!StorageInv, Captures!Unread, Captures!Busy
<1>8. QED
  BY <1>2, <1>3, <1>4, <1>5, <1>6, <1>7 DEF CaptureHolds

\* A step of one part is a step of it and leaves the others as they are.
LEMMA PartSteps ==
    [PartsNext]_partsVars =>
        /\ [Next]_vars /\ [DurationsNext]_durationVars /\ [GuardsNext]_guardVars
        /\ [WsNext]_wsVars /\ [Captures!Next]_captureVars /\ [FeedNext]_feedVars
        /\ [RulesNext]_rulesVars
<1>1. CASE UNCHANGED partsVars
  BY <1>1 DEF partsVars
<1>2. CASE PartsNext
  BY <1>2 DEF PartsNext, Rest, Still
<1>3. QED
  BY <1>1, <1>2

PartsInv ==
    /\ LimiterInv /\ DurationTypes /\ FilterInv /\ AuditInv /\ WsInv /\ FeedInv /\ RulesInv
    /\ CaptureInv

LEMMA PartsInitial == PartsInit => PartsInv
BY LimiterInit, DurationTypesInit, FilterInit, AuditInitial, WsInitial, FeedInitial, RulesInitial,
   CaptureInit
DEF PartsInit, PartsInv

LEMMA PartsStep == PartsInv /\ [PartsNext]_partsVars => PartsInv'
BY PartSteps, LimiterStep, DurationTypesStep, FilterStep, AuditStep, WsStep, FeedStep, RulesStep,
   CaptureStep
DEF PartsInv

\* The types of all the parts, frames of an open connection and the bounds of the
\* audit log and the list of frames among them, in every behaviour of any of them.
THEOREM PartsAreTyped == PartsSpec => []PartsOK
<1>1. PartsInv => PartsOK
  BY DurationTypesMean, GuardTypes, WsMeans, FeedMeans, CaptureMeans DEF PartsInv, PartsOK, LimiterInv
<1>2. QED
  BY <1>1, PartsInitial, PartsStep, PTL DEF PartsSpec

\* With any set of keys the deque keeps its capacity and its ids, what is stored was
\* on the live feed, and what a clear removed stays away (capture.rs:140, 149, 158).
THEOREM CapturesHold == PartsSpec => []CaptureHolds
<1>1. PartsInv => CaptureHolds
  BY CaptureMeans DEF PartsInv
<1>2. QED
  BY <1>1, PartsInitial, PartsStep, PTL DEF PartsSpec

\* Whatever rules a message meets, and however many, its Content-Length is that of
\* its body unless a rule wrote the header after it, and a body in which no target
\* occurs arrives as it was or decoded (rules.rs:205, 217).
THEOREM MessagesAreSound == PartsSpec => []MessageIsSound
<1>1. PartsInv => MessageIsSound
  BY DEF PartsInv, RulesInv
<1>2. QED
  BY <1>1, PartsInitial, PartsStep, PTL DEF PartsSpec
=============================================================================
