---------------------------- MODULE RateLimiter ----------------------------
(***************************************************************************)
(* RateLimiter and TokenBucket of src/core.py: one bucket per client       *)
(* address, shared by the handler threads of the HTTP server.  check looks *)
(* the bucket up under the limiter's lock and consumes under the bucket's  *)
(* own; the clock may tick, and other threads may consume, between them.   *)
(*                                                                         *)
(* Times are clock ticks, and tokens are counted in units of which a       *)
(* request takes Cost, so that the fractions of the code are integers.     *)
(* The names keep apart from those of AuditLog, with which it is proved.   *)
(***************************************************************************)
EXTENDS Integers, Sequences

CONSTANTS
  Handlers, Keys,
  NoKey,       \* the thread is in no call of check
  Capacity,    \* capacity, in token units
  Rate,        \* refill_per_second, in token units a tick
  Cost,        \* amount = 1.0, in token units
  MaxTime      \* bound on the clock

ASSUME CapacityAssumption == Capacity \in Nat
ASSUME RateAssumption == Rate \in Nat
ASSUME CostAssumption == Cost \in Nat \ {0}
ASSUME MaxTimeAssumption == MaxTime \in Nat
ASSUME NoKeyAssumption == NoKey \notin Keys

VARIABLES
  now,       \* time.monotonic()
  buckets,   \* RateLimiter._buckets: a function on the keys seen so far
  call,      \* the key whose bucket each thread holds and will consume from
  admitted   \* history: the times of the requests admitted, by key

limiterVars == <<now, buckets, call, admitted>>

(* The bucket that setdefault stores.                                      *)
NewBucket == [tokens |-> Capacity, updated |-> now]

AtMost(m, n) == IF m <= n THEN m ELSE n

(* A mutant: the refill is not capped.                                     *)
RefilledUncapped(b) == [tokens |-> b.tokens + (now - b.updated) * Rate, updated |-> now]

(* The bucket after the refill consume starts with.                        *)
Refilled(b) ==
  [tokens |-> AtMost(Capacity, b.tokens + (now - b.updated) * Rate), updated |-> now]

----------------------------------------------------------------------------

LimiterInit ==
  /\ now = 0
  /\ buckets = << >>
  /\ call = [t \in Handlers |-> NoKey]
  /\ admitted = [k \in Keys |-> << >>]

(* A mutant: every call stores a bucket of its own.                        *)
LookupReplaces(t, k) ==
  /\ call[t] = NoKey
  /\ call' = [call EXCEPT ![t] = k]
  /\ buckets' = [j \in DOMAIN buckets \union {k} |-> IF j = k THEN NewBucket ELSE buckets[j]]
  /\ UNCHANGED <<now, admitted>>

(* check: the first half, under the limiter's lock.                        *)
Lookup(t, k) ==
  /\ call[t] = NoKey
  /\ call' = [call EXCEPT ![t] = k]
  /\ buckets' = [j \in DOMAIN buckets \union {k} |->
                   IF j \in DOMAIN buckets THEN buckets[j] ELSE NewBucket]
  /\ UNCHANGED <<now, admitted>>

(* consume, under the bucket's lock, when there are tokens enough.         *)
Admit(t) ==
  /\ call[t] # NoKey
  /\ LET k == call[t]
         b == Refilled(buckets[k])
     IN  /\ b.tokens >= Cost
         /\ buckets' = [buckets EXCEPT ![k] = [b EXCEPT !.tokens = b.tokens - Cost]]
         /\ admitted' = [admitted EXCEPT ![k] = Append(@, now)]
  /\ call' = [call EXCEPT ![t] = NoKey]
  /\ now' = now

(* A mutant: the tokens are taken before they are compared.                *)
RefuseCharges(t) ==
  /\ call[t] # NoKey
  /\ LET k == call[t]
         b == Refilled(buckets[k])
     IN  /\ b.tokens < Cost
         /\ buckets' = [buckets EXCEPT ![k] = [b EXCEPT !.tokens = b.tokens - Cost]]
  /\ call' = [call EXCEPT ![t] = NoKey]
  /\ UNCHANGED <<now, admitted>>

(* consume when there are not: check raises RateLimitError.                *)
Refuse(t) ==
  /\ call[t] # NoKey
  /\ LET k == call[t]
         b == Refilled(buckets[k])
     IN  /\ b.tokens < Cost
         /\ buckets' = [buckets EXCEPT ![k] = b]
  /\ call' = [call EXCEPT ![t] = NoKey]
  /\ UNCHANGED <<now, admitted>>

Tick ==
  /\ now < MaxTime
  /\ now' = now + 1
  /\ UNCHANGED <<buckets, call, admitted>>

LimiterNext ==
  \/ Tick
  \/ \E t \in Handlers : Admit(t) \/ Refuse(t) \/ \E k \in Keys : Lookup(t, k)

LimiterSpec == LimiterInit /\ [][LimiterNext]_limiterVars

----------------------------------------------------------------------------
(* Properties.                                                             *)

Buckets == [tokens : 0 .. Capacity, updated : Nat]

(* Every variable keeps its type; tokens stay between 0 and the capacity,  *)
(* and a thread that consumes holds a bucket of the table.                 *)
LimiterTypeOK ==
  /\ now \in Nat
  /\ DOMAIN buckets \subseteq Keys /\ buckets \in [DOMAIN buckets -> Buckets]
  /\ call \in [Handlers -> Keys \union {NoKey}]
  /\ \A t \in Handlers : call[t] # NoKey => call[t] \in DOMAIN buckets
  /\ admitted \in [Keys -> Seq(Nat)]

(* What a key may be granted in a window of length d.                      *)
Allowance(d) == Capacity + d * Rate

(* In every window of time, the requests of one key that check lets pass   *)
(* take no more than the capacity and the refill of the window, whatever   *)
(* threads they arrive on.                                                 *)
WindowBound ==
  \A k \in Keys : \A i, j \in 1 .. Len(admitted[k]) :
    i <= j => (j - i + 1) * Cost <= Allowance(admitted[k][j] - admitted[k][i])

(* The limiter is exact: a request is refused only if letting it pass      *)
(* would break the bound for some window that ends now.                    *)
OverLimit(k) ==
  LET n == Len(admitted[k])
  IN  \/ Cost > Capacity
      \/ \E i \in 1 .. n : (n - i + 2) * Cost > Allowance(now - admitted[k][i])

RefusesOnlyOverLimit == [][\A t \in Handlers : Refuse(t) => OverLimit(call[t])]_limiterVars
=============================================================================
