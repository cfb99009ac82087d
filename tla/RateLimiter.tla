---------------------------- MODULE RateLimiter -----------------------------
(***************************************************************************)
(* The in-memory rate limiter: one token bucket per key (an organisation   *)
(* or an address), shared by every tier that uses the key.  Allow fetches  *)
(* the bucket under the lock of the store and takes a token under the lock *)
(* of the bucket; cleanupLoop drops buckets between the two.  Time is in   *)
(* ticks, and a bucket keeps how long ago it was last used.                *)
(***************************************************************************)
EXTENDS Integers, Sequences, FiniteSets, FiniteSetsExt

CONSTANTS
    Tiers,        \* the LimitConfigs that use the key
    Capacity,     \* [Tiers -> burst size]
    RefillPS,     \* [Tiers -> tokens per tick]
    Routes,       \* the tiers a request passes, in order
    IdleLimit,    \* a bucket idle for more ticks is dropped (10 minutes)
    Buckets,      \* bound: buckets in use at a time
    Clients,      \* requests in the middleware at a time
    MaxSpare      \* bound: requests whose bucket is dropped under them

NoBucket == 0

ASSUME RateAssumption ==
    /\ Capacity \in [Tiers -> Nat \ {0}] /\ RefillPS \in [Tiers -> Nat \ {0}]
    /\ Routes \subseteq Seq(Tiers) /\ NoBucket \notin Buckets /\ IsFiniteSet(Clients)
    /\ IdleLimit \in Nat /\ MaxSpare \in Nat

VARIABLES
    stored,   \* the bucket of the key in the map, or NoBucket
    bucket,   \* the buckets in use: tokens at the last use, ticks since, the tier that made it
    route,    \* per request: the tiers it has still to pass
    fetched,  \* the bucket get returned to it, or NoBucket
    budget,   \* history: per tier, the tokens an ideal bucket of its own holds
    spare     \* history: requests that held a bucket when it was dropped

rateVars == <<stored, bucket, route, fetched, budget, spare>>

RateInit ==
    /\ stored = NoBucket
    /\ bucket = [b \in {} |-> NoBucket]
    /\ route = [r \in Clients |-> <<>>]
    /\ fetched = [r \in Clients |-> NoBucket]
    /\ budget = Capacity
    /\ spare = 0

AtMost(n, top) == IF n > top THEN top ELSE n

(* Ticks are counted until the largest bucket is full and may be dropped.  *)
Horizon == IdleLimit + 1 + Max({Capacity[t] : t \in Tiers})

(* Tokens of bucket b now: refilled since its last use, up to its burst.   *)
Tokens(b) == AtMost(bucket[b].tokens + bucket[b].since * RefillPS[bucket[b].tier],
                    Capacity[bucket[b].tier])

(* Go frees a bucket that neither the map nor a request refers to.         *)
InUse(f, m) == [b \in {c \in DOMAIN f : c = m \/ \E r \in Clients : fetched'[r] = c} |-> f[b]]

-----------------------------------------------------------------------------
Arrives(r, path) ==
    /\ route[r] = <<>>
    /\ route' = [route EXCEPT ![r] = path]
    /\ UNCHANGED <<stored, bucket, fetched, budget, spare>>

newTokenBucket(t) == [tokens |-> Capacity[t], since |-> 0, tier |-> t]

(* MemoryStore.get: an existing bucket serves whoever asks, with the burst *)
(* and the rate of the tier that made it.                                  *)
get(r) ==
    /\ route[r] # <<>> /\ fetched[r] = NoBucket
    /\ \/ /\ stored # NoBucket
          /\ fetched' = [fetched EXCEPT ![r] = stored]
          /\ UNCHANGED <<stored, bucket>>
       \/ /\ stored = NoBucket
          /\ LET b == CHOOSE c \in Buckets : c \notin DOMAIN bucket
             IN  /\ Buckets \ DOMAIN bucket # {}
                 /\ stored' = b
                 /\ fetched' = [fetched EXCEPT ![r] = b]
                 /\ bucket' = [c \in DOMAIN bucket \cup {b} |->
                                  IF c = b THEN newTokenBucket(Head(route[r])) ELSE bucket[c]]
    /\ UNCHANGED <<route, budget, spare>>

(* tokenBucket.allow: one token, and on to the next tier or the handler;   *)
(* without a token the request ends in 429.                                *)
allowOne(r) ==
    LET b == fetched[r] IN
    /\ b # NoBucket
    /\ fetched' = [fetched EXCEPT ![r] = NoBucket]
    /\ IF Tokens(b) >= 1
       THEN /\ bucket' = InUse([bucket EXCEPT ![b].tokens = Tokens(b) - 1, ![b].since = 0], stored)
            /\ route' = [route EXCEPT ![r] = Tail(@)]
            /\ budget' = [budget EXCEPT ![Head(route[r])] = @ - 1]
       ELSE /\ bucket' = InUse([bucket EXCEPT ![b].tokens = Tokens(b), ![b].since = 0], stored)
            /\ route' = [route EXCEPT ![r] = <<>>]
            /\ UNCHANGED budget
    /\ UNCHANGED <<stored, spare>>

(* A bucket goes because it is idle, full or not.                          *)
cleanupIdle ==
    LET holders == Cardinality({r \in Clients : fetched[r] = stored}) IN
    /\ stored # NoBucket
    /\ bucket[stored].since > IdleLimit
    /\ stored' = NoBucket
    /\ spare' = spare + holders /\ spare' <= MaxSpare
    /\ UNCHANGED <<route, fetched, budget>>
    /\ bucket' = InUse(bucket, NoBucket)

cleanupLoop ==
    LET holders == Cardinality({r \in Clients : fetched[r] = stored}) IN
    /\ stored # NoBucket
    /\ Tokens(stored) = Capacity[bucket[stored].tier]
    /\ bucket[stored].since > IdleLimit
    /\ stored' = NoBucket
    /\ spare' = spare + holders /\ spare' <= MaxSpare
    /\ UNCHANGED <<route, fetched, budget>>
    /\ bucket' = InUse(bucket, NoBucket)

RateTick ==
    /\ bucket' = [b \in DOMAIN bucket |->
                     [bucket[b] EXCEPT !.since = AtMost(@ + 1, Horizon)]]
    /\ budget' = [t \in Tiers |-> AtMost(budget[t] + RefillPS[t], Capacity[t])]
    /\ UNCHANGED <<stored, route, fetched, spare>>

RateNext ==
    \/ \E r \in Clients : get(r) \/ allowOne(r) \/ \E path \in Routes : Arrives(r, path)
    \/ cleanupLoop
    \/ RateTick

RateSpec == RateInit /\ [][RateNext]_rateVars

-----------------------------------------------------------------------------
(* No interleaving of get, allow and the cleanup lets more requests of a   *)
(* tier pass than a bucket of its own that is never dropped ("it's         *)
(* equivalent to a fresh bucket"): at most one more for each request that  *)
(* held the bucket when it was dropped.                                    *)
NeverOverLimit == \A t \in Tiers : budget[t] + spare >= 0
=============================================================================
