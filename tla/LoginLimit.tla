------------------------------ MODULE LoginLimit ------------------------------
(***************************************************************************)
(* The token bucket before the login endpoint, one per client key, held in *)
(* a map that forgets idle buckets once it has grown.  Time is in seconds; *)
(* tokens are counted in the fraction of one that a second brings back.    *)
(***************************************************************************)
EXTENDS Integers, Sequences, FiniteSets

CONSTANTS
    Key,        \* client keys: the first forwarded hop, the real ip, or "unknown"
    Token,      \* seconds one token takes to come back (1 / LOGIN_REFILL_PER_SEC)
    Burst,      \* LOGIN_BURST, in tokens
    IdleEvict,  \* IDLE_EVICT
    Threshold,  \* PRUNE_THRESHOLD
    MaxTime     \* bound on the clock

\* Nothing is lost by forgetting a bucket: by then it is full again.
ASSUME LoginAssumption ==
    /\ Token \in Nat \ {0} /\ Burst \in Nat \ {0}
    /\ IdleEvict \in Nat /\ IdleEvict >= Token * Burst
    /\ Threshold \in Nat /\ MaxTime \in Nat

VARIABLES
    now,
    buckets,  \* the map: key -> [tokens, seen]
    allowed   \* ghost: when each key's attempts were let through

vars == <<now, buckets, allowed>>

Capacity == Burst * Token
Fresh == [tokens |-> Capacity, seen |-> now]

Init ==
    /\ now = 0
    /\ buckets = [k \in {} |-> Fresh]
    /\ allowed = [k \in Key |-> <<>>]

Tick ==
    /\ now < MaxTime /\ now' = now + 1
    /\ UNCHANGED <<buckets, allowed>>

Refilled(bucket) ==
    IF bucket.tokens + (now - bucket.seen) < Capacity
    THEN bucket.tokens + (now - bucket.seen) ELSE Capacity

IsIdle(bucket) == now - bucket.seen > IdleEvict

\* Faulty variant of Kept: a map grown too large is emptied.
KeptNone ==
    IF Cardinality(DOMAIN buckets) > Threshold THEN {} ELSE DOMAIN buckets

\* The buckets a login still finds: a large map drops its idle ones first.
Kept ==
    IF Cardinality(DOMAIN buckets) > Threshold
    THEN {k \in DOMAIN buckets : ~IsIdle(buckets[k])} ELSE DOMAIN buckets

\* A refused attempt costs nothing.
CheckLogin(k) ==
    LET found == IF k \in Kept THEN buckets[k] ELSE Fresh
        pass == Refilled(found) >= Token
        left == [tokens |-> Refilled(found) - (IF pass THEN Token ELSE 0), seen |-> now]
    IN /\ buckets' = [i \in Kept \cup {k} |-> IF i = k THEN left ELSE buckets[i]]
       /\ allowed' = IF pass THEN [allowed EXCEPT ![k] = Append(@, now)] ELSE allowed
       /\ UNCHANGED now

Next == Tick \/ \E k \in Key : CheckLogin(k)
Spec == Init /\ [][Next]_vars

-----------------------------------------------------------------------------
\* However its attempts are spread and however often the map is pruned, one
\* client gets through in any stretch of time at most the burst and what that
\* stretch refills (rate_limit.rs:24-105).
AttemptsBounded ==
    \A k \in Key : \A i, j \in 1..Len(allowed[k]) :
        i <= j => (j - i + 1 - Burst) * Token <= allowed[k][j] - allowed[k][i]
=============================================================================
