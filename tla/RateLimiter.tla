---------------------------- MODULE RateLimiter -----------------------------
(***************************************************************************)
(* The token buckets of the enrollment endpoint                            *)
(* (pact-journal/src/rate_limiter.rs): one for all calls, the only one     *)
(* that enroll takes from, and one per source.  Time is counted in ticks   *)
(* of which a minute has Minute; limits are IP_SHARE-th parts of a call a  *)
(* minute, and tokens Minute-th parts of those, so that a bucket gains its *)
(* limit every tick and no rate is rounded.                                *)
(***************************************************************************)
EXTENDS Integers, FiniteSets

CONSTANTS
    IpAddr,
    global_per_minute,  \* the configured rate, a u32
    IP_SHARE,           \* 10: a source has this part of the global limit,
    MIN_PER_IP,         \* 5: or at least this
    Minute,
    STALE_AFTER,        \* 300 seconds
    LimiterHorizon      \* bound on the clock

ASSUME LimiterAssumption ==
    /\ IP_SHARE \in Nat \ {0} /\ Minute \in Nat \ {0}
    /\ {global_per_minute, MIN_PER_IP, STALE_AFTER, LimiterHorizon} \subseteq Nat

VARIABLES
    global,         \* [tokens, last_refill]
    per_ip,         \* IpAddr -> the same; a source without a bucket has a NoBucket
    limiterNow,
    window          \* [from, count]: since when an observer counts, and what it counted

limiterVars == <<global, per_ip, limiterNow, window>>

\* f64::max and f64::min
MaxOf(a, b) == IF a >= b THEN a ELSE b
MinOf(a, b) == IF a <= b THEN a ELSE b

global_max == global_per_minute * IP_SHARE
per_ip_max == MaxOf(global_per_minute, MIN_PER_IP * IP_SHARE)

\* The token a call costs.
One == IP_SHARE * Minute

NoBucket == [tokens |-> -1, last_refill |-> -1]
Bucket(max) == [tokens |-> max * Minute, last_refill |-> limiterNow]

BucketRecord == [tokens : Nat, last_refill : Nat]

LimiterTypeOK ==
    /\ global \in BucketRecord
    /\ per_ip \in [IpAddr -> BucketRecord \cup {NoBucket}]
    /\ limiterNow \in 0..LimiterHorizon
    /\ window \in [from : 0..LimiterHorizon, count : Nat]

LimiterInit ==
    /\ limiterNow = 0
    /\ global = [tokens |-> global_max * Minute, last_refill |-> 0]
    /\ per_ip = [ip \in IpAddr |-> NoBucket]
    /\ window = [from |-> 0, count |-> 0]

\* Variant for sensitivity checks: the refill is not capped.
Refilled_Uncapped(b, max) ==
    [tokens |-> b.tokens + (limiterNow - b.last_refill) * max, last_refill |-> limiterNow]

\* The bucket b of limit max, brought up to date.
Refilled(b, max) ==
    [tokens |-> MinOf(b.tokens + (limiterNow - b.last_refill) * max, max * Minute),
     last_refill |-> limiterNow]

Grants(b, max) == Refilled(b, max).tokens >= One

\* The bucket after try_acquire, which refills it whether or not it has a token.
Acquired(b, max) ==
    LET r == Refilled(b, max) IN [r EXCEPT !.tokens = IF Grants(b, max) THEN @ - One ELSE @]

-----------------------------------------------------------------------------
\* A call whose source is not looked at, as enroll makes it.
try_acquire ==
    /\ global' = Acquired(global, global_max)
    /\ window' = IF Grants(global, global_max) THEN [window EXCEPT !.count = @ + 1] ELSE window
    /\ UNCHANGED <<per_ip, limiterNow>>

\* The global token is spent even when the source has none of its own.  The two locks
\* are taken one after the other; no step relates the buckets they guard.
try_acquire_for_ip(ip) ==
    LET b == IF per_ip[ip] = NoBucket THEN Bucket(per_ip_max) ELSE per_ip[ip]
        passed == Grants(global, global_max)
    IN  /\ global' = Acquired(global, global_max)
        /\ window' = IF passed THEN [window EXCEPT !.count = @ + 1] ELSE window
        /\ per_ip' = IF passed THEN [per_ip EXCEPT ![ip] = Acquired(b, per_ip_max)] ELSE per_ip
        /\ UNCHANGED limiterNow

Stale(ip) == limiterNow - per_ip[ip].last_refill >= STALE_AFTER

cleanup_stale ==
    /\ per_ip' = [ip \in IpAddr |->
                     IF per_ip[ip] # NoBucket /\ Stale(ip) THEN NoBucket ELSE per_ip[ip]]
    /\ UNCHANGED <<global, limiterNow, window>>

LimiterTick ==
    /\ limiterNow < LimiterHorizon
    /\ limiterNow' = limiterNow + 1
    /\ UNCHANGED <<global, per_ip, window>>

\* Counting may begin at any moment, so that what holds of the window holds of every
\* stretch of time.
Observe ==
    /\ window' = [from |-> limiterNow, count |-> 0]
    /\ UNCHANGED <<global, per_ip, limiterNow>>

LimiterNext ==
    \/ try_acquire
    \/ \E ip \in IpAddr : try_acquire_for_ip(ip)
    \/ cleanup_stale
    \/ LimiterTick
    \/ Observe

LimiterSpec == LimiterInit /\ [][LimiterNext]_limiterVars

-----------------------------------------------------------------------------
\* Over any stretch of time, however calls and refills interleave and however long the
\* endpoint was idle before, the global bucket lets through no more than one full bucket
\* and its rate for the length of the stretch (Bucket::try_acquire).  It is what limits
\* enroll, and all that does: the bound is on all sources together, and one of them may
\* have all of it.
AdmissionBounded ==
    window.count * One <= global_max * (Minute + (limiterNow - window.from))
=============================================================================
