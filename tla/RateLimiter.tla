---------------------------- MODULE RateLimiter ----------------------------
(***************************************************************************)
(* The limiter in front of the API: a bucket of tokens per key, filled by  *)
(* the whole seconds since the last request, forgotten when it is idle.    *)
(* Time passes in ticks, Ticks of them a second.  What each key may still  *)
(* do is kept beside it by an exact bucket, in ticks' worth of tokens.     *)
(***************************************************************************)
EXTENDS Integers, FiniteSets

CONSTANTS
  Connections,   \* remote addresses with their ports: the keys of the buckets
  CallerOf,      \* [connection -> the user who calls through it]
  Rate, Burst,   \* tokens a second, tokens at most
  Ticks,         \* ticks a second
  IdleSeconds    \* ten minutes in the code

ASSUME LimiterAssumption ==
  /\ Rate \in Nat \ {0} /\ Burst \in Nat \ {0} /\ Ticks \in Nat \ {0}
  /\ IdleSeconds \in Nat
  /\ Burst <= IdleSeconds * Rate

VARIABLES
  tokens,   \* [connection -> tokens in its bucket, NoBucket if it has none]
  idle,     \* [connection -> ticks since its last request, IdleTicks at most]
  credit,   \* the exact bucket: not in the code
  answer    \* [connection -> what its request was answered at this tick]

limiterVars == <<tokens, idle, credit, answer>>

NoBucket == -1
IdleTicks == IdleSeconds * Ticks + 1
Full == Burst * Ticks
AtMost(n, limit) == IF n > limit THEN limit ELSE n

LimiterInit ==
  /\ tokens = [c \in Connections |-> NoBucket]
  /\ idle = [c \in Connections |-> 0]
  /\ credit = [c \in Connections |-> Full]
  /\ answer = [c \in Connections |-> "none"]

Tick ==
  /\ idle' = [c \in Connections |-> AtMost(idle[c] + 1, IdleTicks)]
  /\ credit' = [c \in Connections |-> AtMost(credit[c] + Rate, Full)]
  /\ answer' = [c \in Connections |-> "none"]
  /\ UNCHANGED tokens

\* Mutant: a part of a second counts as a second.
RoundedUp(c) == AtMost(tokens[c] + ((idle[c] + Ticks - 1) \div Ticks) * Rate, Burst)

Refilled(c) == AtMost(tokens[c] + (idle[c] \div Ticks) * Rate, Burst)

Available(c) == IF tokens[c] = NoBucket THEN Burst ELSE Refilled(c)

\* A refused request starts the second anew, as an admitted one does.
Allow(c) ==
  /\ idle' = [idle EXCEPT ![c] = 0]
  /\ IF Available(c) > 0
     THEN /\ tokens' = [tokens EXCEPT ![c] = Available(c) - 1]
          /\ credit' = [credit EXCEPT ![c] = @ - Ticks]
          /\ answer' = [answer EXCEPT ![c] = "admitted"]
     ELSE /\ tokens' = [tokens EXCEPT ![c] = 0]
          /\ answer' = [answer EXCEPT ![c] = "refused"]
          /\ UNCHANGED credit

Unused(c) == tokens[c] # NoBucket /\ idle[c] > IdleSeconds * Ticks

Cleanup ==
  /\ \E c \in Connections : Unused(c)
  /\ tokens' = [c \in Connections |-> IF Unused(c) THEN NoBucket ELSE tokens[c]]
  /\ UNCHANGED <<idle, credit, answer>>

LimiterNext == Tick \/ Cleanup \/ \E c \in Connections : Allow(c)
LimiterSpec == LimiterInit /\ [][LimiterNext]_limiterVars

----------------------------------------------------------------------------
(* Properties.                                                             *)

LimiterTypeOK ==
  /\ tokens \in [Connections -> {NoBucket} \cup 0 .. Burst]
  /\ idle \in [Connections -> 0 .. IdleTicks]
  /\ credit \in [Connections -> Int]
  /\ answer \in [Connections -> {"none", "admitted", "refused"}]

\* However requests, ticks and cleanups interleave, a connection is never
\* admitted more often than an exact bucket of Rate and Burst would: neither
\* the whole seconds nor forgetting a bucket gives anything away.
WithinRate == \A c \in Connections : credit[c] >= 0

\* Inductive: the bucket in the code never holds more than the exact one.
BucketBelowCredit ==
  \A c \in Connections :
    credit[c] >= IF tokens[c] = NoBucket THEN Full
                 ELSE AtMost(tokens[c] * Ticks + idle[c] * Rate, Full)

\* Only a connection that has used up its rate is refused (docs/API.md: "100
\* requests per second per user").
RefusedOnlyOverRate ==
  \A c \in Connections : answer[c] = "refused" => credit[c] < Ticks

\* The connections of a user share one allowance (docs/API.md: "per user").
UserWithinBurst ==
  \A c, d \in Connections :
    c # d /\ CallerOf[c] = CallerOf[d] => (Full - credit[c]) + (Full - credit[d]) <= Full
============================================================================
