---------------------------- MODULE RateLimiter -----------------------------
(***************************************************************************)
(* Throttling of one roaming partner (dea_ratelimit): the rule a request   *)
(* is held to, the token bucket it is taken from, and the sweep that drops *)
(* idle buckets.  Allow reads the clock before it takes the bucket's lock, *)
(* so a routing goroutine may decide with a reading older than the one the *)
(* bucket was last filled with.                                            *)
(*                                                                         *)
(* Tokens and rates are counted in 1/Unit of a token, a rate per tick.  The *)
(* edge registry is not reloaded while the program runs, so the rule of a  *)
(* bucket does not change.                                                 *)
(***************************************************************************)
EXTENDS Clock, Integers, Sequences, FiniteSets

CONSTANTS
    Unit,            \* parts of a token
    Arrival,         \* [peer, app, cmd]: what selectRule reads of a request
    Rules,           \* [command, application, peer, partner]: the configured rules
    IdleTTL,         \* idleBucketTTL
    MaxLag,          \* bound on the age of a clock reading when it is used
    Limited,         \* goroutines that route a request
    MaxAllowed,      \* bound on the requests allowed
    NoCall

VARIABLES
    tokenBuckets,    \* bucket key -> [tokens, lastFill, lastUsed]
    calls,           \* per goroutine, the request and clock reading of its Allow
    allowed          \* the requests let through: [key, rule, read, at]

rlVars == <<tokenBuckets, calls, allowed>>

-----------------------------------------------------------------------------
(* The rules                                                               *)

\* validateRateLimit
ValidRule(r) == r.rate >= 0 /\ r.burst >= 0

\* applyRateLimitDefaults: a burst that is not set is the rate, and at least one.
RuleDefaults(r) ==
    [r EXCEPT !.burst = IF r.burst # 0 \/ r.rate = 0 THEN @
                        ELSE IF r.rate < Unit THEN 1 ELSE r.rate \div Unit]

\* The bucket of a rule's scope: per command, application and peer, or one for all.
BucketKey(scope, q) ==
    CASE scope = "cmd" -> <<scope, q.cmd>> [] scope = "app" -> <<scope, q.app>>
      [] scope = "peer" -> <<scope, q.peer>> [] scope = "partner" -> <<scope>>

\* selectRule: the most specific rule that has a rate, and the bucket it stands for.
SelectRule(q) ==
    LET R(rs, k) == IF k \in DOMAIN rs THEN {RuleDefaults(rs[k])} ELSE {}
        scopes == <<"cmd", "app", "peer", "partner">>
        rules  == <<R(Rules.command, q.cmd), R(Rules.application, q.app),
                    {RuleDefaults(Rules.peer)}, {RuleDefaults(Rules.partner)}>>
        applies(i) == \E r \in rules[i] : r.rate > 0
    IN  {[rule |-> CHOOSE r \in rules[i] : TRUE, key |-> BucketKey(scopes[i], q)] :
           i \in {i \in 1 .. 4 : applies(i) /\ \A j \in 1 .. i - 1 : ~applies(j)}}

AllRules == UNION {{d.rule : d \in SelectRule(q)} : q \in Arrival}
ASSUME RateAssumption ==
    /\ Unit \in Nat \ {0} /\ {IdleTTL, MaxLag} \subseteq Nat
    /\ \A r \in AllRules : {r.rate, r.burst} \subseteq Nat /\ ValidRule(r)

\* Every bucket is full again after the time without use that makes the sweep drop it,
\* also when old readings cut that time short at both ends: the last use seems older than
\* the last refill, and the bucket made anew is filled from before the sweep.
Refills == \A r \in AllRules : r.rate * (IdleTTL + 1 - 2 * MaxLag) >= r.burst * Unit

-----------------------------------------------------------------------------
RlInit == tokenBuckets = <<>> /\ calls = [m \in Limited |-> NoCall] /\ allowed = <<>>

\* handleRouting, up to the clock reading in Allow.  A request no rule applies to is
\* not counted.
HandleRouting(m, q) ==
    /\ calls[m] = NoCall /\ Len(allowed) < MaxAllowed
    /\ \E d \in SelectRule(q) :
         calls' = [calls EXCEPT ![m] = [key |-> d.key, rule |-> d.rule, read |-> now]]
    /\ UNCHANGED <<tokenBuckets, allowed>>

MutFilled(b, rule, read) ==
    LET sum == b.tokens + (read - b.lastFill) * rule.rate IN
    IF read > b.lastFill
    THEN [tokens |-> sum, lastFill |-> read, lastUsed |-> read]
    ELSE [b EXCEPT !.lastUsed = read]

\* The refill of Allow: an old reading fills nothing, and still counts as use.
Filled(b, rule, read) ==
    LET sum == b.tokens + (read - b.lastFill) * rule.rate
        top == rule.burst * Unit
    IN  IF read > b.lastFill
        THEN [tokens |-> IF sum > top THEN top ELSE sum, lastFill |-> read, lastUsed |-> read]
        ELSE [b EXCEPT !.lastUsed = read]

\* enforce: a request over the limit is answered with the rule's result code or dropped,
\* and in either case goes no further.
Enforce(c, pass) ==
    allowed' = IF pass THEN Append(allowed, [key |-> c.key, rule |-> c.rule, read |-> c.read, at |-> now])
               ELSE allowed

\* Allow, with the shard's lock: a token is taken if there is one.
Allow(m) ==
    /\ calls[m] # NoCall
    /\ LET c == calls[m]
           b == Filled(IF c.key \in DOMAIN tokenBuckets THEN tokenBuckets[c.key]
                       ELSE [tokens |-> c.rule.burst * Unit, lastFill |-> c.read,
                             lastUsed |-> c.read], c.rule, c.read)
           pass == b.tokens >= Unit
       IN  /\ tokenBuckets' = [k \in DOMAIN tokenBuckets \cup {c.key} |->
                                 IF k # c.key THEN tokenBuckets[k]
                                 ELSE IF pass THEN [b EXCEPT !.tokens = @ - Unit] ELSE b]
           /\ Enforce(c, pass)
    /\ calls' = [calls EXCEPT ![m] = NoCall]

\* sweep: the buckets not used for IdleTTL are forgotten.
SweepIdle ==
    LET kept == {k \in DOMAIN tokenBuckets : tokenBuckets[k].lastUsed >= now - IdleTTL} IN
    /\ tokenBuckets' = [k \in kept |-> tokenBuckets[k]]
    /\ UNCHANGED <<calls, allowed>>

RlNext ==
    \/ /\ \A m \in Limited : calls[m] # NoCall => now - calls[m].read < MaxLag
       /\ Tick /\ UNCHANGED rlVars
    \/ UNCHANGED now /\ \/ \E m \in Limited, q \in Arrival : HandleRouting(m, q)
                        \/ \E m \in Limited : Allow(m)
                        \/ SweepIdle

RlSpec == ClockInit /\ RlInit /\ [][RlNext]_<<now, rlVars>>

-----------------------------------------------------------------------------
\* Between the clock reading of one allowed request and any later one, a bucket lets
\* through its burst and what its rate yields, whatever the order in which the readings
\* are used and however often the bucket is dropped and made anew (limiter.go:94-158).
RateBound ==
    \A i, j \in DOMAIN allowed :
      LET c == allowed[i]
          n == Cardinality({k \in i .. j : allowed[k].key = c.key})
      IN  i <= j => n * Unit <= c.rule.burst * Unit + c.rule.rate * (allowed[j].at - c.read)
=============================================================================
