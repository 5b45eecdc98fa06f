----------------------------- MODULE LlmProxy -----------------------------
(***************************************************************************)
(* The LLM proxy of a user-server: one token bucket for all agents of the  *)
(* VM (llm/rate_limit.py), the routes that take from it (router.py) and    *)
(* the dispatch to a provider with the user's key (providers.py).          *)
(***************************************************************************)
EXTENDS Naturals, FiniteSets, Sequences

CONSTANTS
  ProxyAgents,    \* agents that name themselves in X-Agent-Id
  NoAgent,        \* no such header
  ProxyProviders, \* PROVIDERS
  Unknown,        \* any other name
  Capacity, Refill, \* of the bucket; refill is per tick
  MaxProxyClock, MaxProxyCalls

ASSUME ProxyAssumption ==
  /\ Capacity \in Nat /\ Refill \in Nat /\ MaxProxyClock \in Nat /\ MaxProxyCalls \in Nat
  /\ NoAgent \notin ProxyAgents /\ Unknown \notin ProxyProviders

VARIABLES
  proxyClock,
  bucket,      \* tokens and time of the last take
  counts,      \* _agent_counts
  keyed,       \* providers whose key is in the secrets cache
  taken,       \* history: the times of the takes
  answered     \* history: the calls a provider has answered, by agent

proxyVars == <<proxyClock, bucket, counts, keyed, taken, answered>>

Callers == ProxyAgents \cup {NoAgent}

ProxyTypeOK ==
  /\ proxyClock \in 0..MaxProxyClock
  /\ bucket \in [tokens : 0..Capacity, last : 0..MaxProxyClock]
  /\ counts \in [ProxyAgents -> 0..MaxProxyCalls]
  /\ keyed \subseteq ProxyProviders
  /\ taken \in Seq(0..MaxProxyClock) /\ Len(taken) <= MaxProxyCalls
  /\ answered \in [Callers -> 0..MaxProxyCalls]

ProxyInit ==
  /\ proxyClock = 0
  /\ bucket = [tokens |-> Capacity, last |-> 0]
  /\ counts = [a \in ProxyAgents |-> 0]
  /\ keyed = {}
  /\ taken = <<>>
  /\ answered = [a \in Callers |-> 0]

ProxyTick ==
  /\ proxyClock < MaxProxyClock
  /\ proxyClock' = proxyClock + 1
  /\ UNCHANGED <<bucket, counts, keyed, taken, answered>>

\* /hub/secrets/refresh
KeysPushed(ks) ==
  /\ ks # keyed /\ keyed' = ks
  /\ UNCHANGED <<proxyClock, bucket, counts, taken, answered>>

Refilled ==
  LET n == bucket.tokens + (proxyClock - bucket.last) * Refill IN
  IF n < Capacity THEN n ELSE Capacity

MutTakeKeepsLast ==
  /\ Refilled >= 1
  /\ bucket' = [bucket EXCEPT !.tokens = Refilled - 1]
  /\ taken' = Append(taken, proxyClock)
\* TokenBucket.take, which has the lock: a refused take moves the time of the refill, too.
Take ==
  /\ Refilled >= 1
  /\ bucket' = [tokens |-> Refilled - 1, last |-> proxyClock]
  /\ taken' = Append(taken, proxyClock)

Counted(a) == IF a = NoAgent THEN counts ELSE [counts EXCEPT ![a] = @ + 1]

\* dispatch: an unknown provider, a key that is not in the cache and an error of the
\* provider end it.
Dispatch(a, p) ==
  answered' \in {answered} \cup IF p \in keyed THEN {[answered EXCEPT ![a] = @ + 1]} ELSE {}

\* plan, supervise and chat are alike: the token is spent and the call counted first.
LlmCall(a, p) ==
  /\ Len(taken) < MaxProxyCalls
  /\ Take
  /\ counts' = Counted(a)
  /\ Dispatch(a, p)
  /\ UNCHANGED <<proxyClock, keyed>>

LlmCallLimited ==
  /\ Refilled < 1
  /\ bucket' = [tokens |-> Refilled, last |-> proxyClock]
  /\ UNCHANGED <<proxyClock, counts, keyed, taken, answered>>

ProxyNext ==
  \/ ProxyTick \/ LlmCallLimited
  \/ \E ks \in SUBSET ProxyProviders : KeysPushed(ks)
  \/ \E a \in Callers, p \in ProxyProviders \cup {Unknown} : LlmCall(a, p)

ProxySpec == ProxyInit /\ [][ProxyNext]_proxyVars

(***************************************************************************)
(* Properties.                                                             *)
(***************************************************************************)
\* Over any stretch of time, refused calls and idle times included, no more calls get
\* through than a full bucket and its refills pay for.
TakesArePaidFor ==
  \A i, j \in 1..Len(taken) :
    i <= j => j - i + 1 <= Capacity + (taken[j] - taken[i]) * Refill

\* No agent has had more answers than it has been counted calls, and all counts
\* together are covered by tokens: a call that is refused is not counted.
AnswersAreCounted ==
  /\ \A a \in ProxyAgents : answered[a] <= counts[a]
  /\ \A a, b \in ProxyAgents : a # b => counts[a] + counts[b] <= Len(taken)

\* The bucket's promise ("60/min", llm/rate_limit.py:34) and the usage counts: what gets
\* through is paid for, and what is answered is counted.
CallsPaidAndCounted == TakesArePaidFor /\ AnswersAreCounted
=============================================================================
