------------------------- MODULE LimiterAuditProofs -------------------------
(***************************************************************************)
(* Proofs about the two parts of src/core.py that the handler threads of   *)
(* the HTTP server share beside the database.  About RateLimiter: the      *)
(* window bound, and that requests are refused only when it requires it,   *)
(* for every capacity, rate, clock and number of threads.  About AuditLog, *)
(* for every number of threads and events and every choice of faults: its  *)
(* type, that the file is a tree of hashes, that the published hash has    *)
(* everything logged behind it, and that what is logged can be read back.  *)
(***************************************************************************)
EXTENDS RateLimiter, AuditLog, TLAPS

----------------------------------------------------------------------------
(* The rate limiter.                                                       *)

(* What the requests of key k from the i-th on took.                       *)
Taken(k, i) == (Len(admitted[k]) - i + 1) * Cost

(* A bucket holds exactly what the tightest window leaves.                 *)
Covers(k) ==
  \A i \in 1 .. Len(admitted[k]) :
    /\ admitted[k][i] <= buckets[k].updated
    /\ buckets[k].tokens + Taken(k, i) <= Allowance(buckets[k].updated - admitted[k][i])

Tight(k) ==
  \/ buckets[k].tokens = Capacity
  \/ \E i \in 1 .. Len(admitted[k]) :
       buckets[k].tokens + Taken(k, i) = Allowance(buckets[k].updated - admitted[k][i])

BucketInv ==
  /\ \A k \in DOMAIN buckets : buckets[k].updated <= now /\ Covers(k) /\ Tight(k)
  /\ \A k \in Keys \ DOMAIN buckets : admitted[k] = << >>

LimiterInv == LimiterTypeOK /\ BucketInv /\ WindowBound

----------------------------------------------------------------------------
(* Arithmetic and the refill.                                              *)

(* Allowances add up over adjacent windows.                                *)
LEMMA AllowanceAdds ==
  ASSUME NEW d \in Int, NEW e \in Int
  PROVE  /\ Allowance(d) \in Int
         /\ Allowance(d + e) = Allowance(d) + e * Rate /\ e * Rate \in Int
         /\ e >= 0 => e * Rate >= 0
         /\ Allowance(0) = Capacity
BY RateAssumption, CapacityAssumption DEF Allowance

(* So do costs.                                                            *)
LEMMA CostAdds ==
  ASSUME NEW m \in Int
  PROVE  m * Cost \in Int /\ (m + 1) * Cost = m * Cost + Cost
BY CostAssumption

(* An allowance is an integer.                                             *)
LEMMA AllowanceInt == \A d \in Int : Allowance(d) \in Int
BY AllowanceAdds

(* A refill keeps the type, moves the bucket to the present, and keeps it  *)
(* as full as the windows allow.                                           *)
LEMMA RefillKeeps ==
  ASSUME LimiterTypeOK, BucketInv, NEW k \in DOMAIN buckets
  PROVE  LET b == Refilled(buckets[k])
         IN  /\ b \in Buckets /\ b.updated = now
             /\ \A i \in 1 .. Len(admitted[k]) :
                  /\ admitted[k][i] <= now
                  /\ b.tokens + Taken(k, i) <= Allowance(now - admitted[k][i])
             /\ \/ b.tokens = Capacity
                \/ \E i \in 1 .. Len(admitted[k]) :
                     b.tokens + Taken(k, i) = Allowance(now - admitted[k][i])
<1> DEFINE b == Refilled(buckets[k])
           u == buckets[k].updated
           more == (now - u) * Rate
<1>1. /\ buckets[k] \in Buckets /\ u \in Nat /\ now \in Nat /\ u <= now
      /\ buckets[k].tokens \in 0 .. Capacity
      /\ admitted[k] \in Seq(Nat) /\ Capacity \in Nat
  BY CapacityAssumption DEF LimiterTypeOK, BucketInv, Buckets
<1>2. more \in Int /\ more >= 0
  <2>1. now - u \in Int /\ now - u >= 0
    BY <1>1
  <2> HIDE DEF u
  <2> QED BY <2>1, RateAssumption
<1> HIDE DEF more
<1>3. /\ b.updated = now /\ b.tokens \in 0 .. Capacity /\ b \in Buckets
      /\ b.tokens <= buckets[k].tokens + more
      /\ b.tokens = Capacity \/ b.tokens = buckets[k].tokens + more
  BY <1>1, <1>2 DEF Refilled, AtMost, Buckets, more
<1>4. ASSUME NEW i \in 1 .. Len(admitted[k])
      PROVE  /\ Taken(k, i) \in Int /\ admitted[k][i] \in Nat /\ admitted[k][i] <= u
             /\ Allowance(u - admitted[k][i]) \in Int
             /\ Allowance(now - admitted[k][i]) = Allowance(u - admitted[k][i]) + more
  <2>1. admitted[k][i] \in Nat /\ admitted[k][i] <= u /\ Len(admitted[k]) \in Nat
    BY <1>1 DEF BucketInv, Covers
  <2>2. Taken(k, i) \in Int
    BY <2>1, CostAssumption DEF Taken
  <2>3. now - admitted[k][i] = (u - admitted[k][i]) + (now - u)
    BY <1>1, <2>1
  <2>4. u - admitted[k][i] \in Int /\ now - u \in Int
    BY <1>1, <2>1
  <2>5. Allowance((u - admitted[k][i]) + (now - u)) = Allowance(u - admitted[k][i]) + more
    BY <2>4, AllowanceAdds DEF more
  <2> QED BY <2>1, <2>2, <2>3, <2>4, <2>5, AllowanceAdds
<1>5. ASSUME NEW i \in 1 .. Len(admitted[k])
      PROVE  /\ admitted[k][i] <= now
             /\ b.tokens + Taken(k, i) <= Allowance(now - admitted[k][i])
  <2>1. buckets[k].tokens + Taken(k, i) <= Allowance(u - admitted[k][i])
    BY DEF BucketInv, Covers
  <2>2. b.tokens \in Int /\ buckets[k].tokens \in Int
    BY <1>1, <1>3
  <2>3. admitted[k][i] <= now
    BY SMTT(30), <1>1, <1>4
  <2>4. /\ b.tokens <= buckets[k].tokens + more /\ Taken(k, i) \in Int
        /\ Allowance(u - admitted[k][i]) \in Int
        /\ Allowance(now - admitted[k][i]) = Allowance(u - admitted[k][i]) + more
    BY <1>3, <1>4
  <2> HIDE DEF b, u
  <2> QED BY <1>2, <2>1, <2>2, <2>3, <2>4
<1>6. CASE b.tokens = Capacity
  BY <1>3, <1>5, <1>6
<1>7. CASE b.tokens = buckets[k].tokens + more /\ b.tokens # Capacity
  <2>1. CASE buckets[k].tokens = Capacity
    BY <1>1, <1>2, <1>3, <1>7, <2>1
  <2>2. CASE buckets[k].tokens # Capacity
    <3>1. PICK i \in 1 .. Len(admitted[k]) :
            buckets[k].tokens + Taken(k, i) = Allowance(u - admitted[k][i])
      BY <2>2 DEF BucketInv, Tight
    <3>2. b.tokens + Taken(k, i) = Allowance(now - admitted[k][i])
      BY SMTT(30), <1>1, <1>2, <1>4, <1>7, <3>1
    <3> QED BY <1>3, <1>5, <3>2
  <2> QED BY <2>1, <2>2
<1> QED BY <1>3, <1>6, <1>7

----------------------------------------------------------------------------
(* The invariant.                                                          *)

(* The initial state satisfies it.                                         *)
LEMMA InitLimiter == LimiterInit => LimiterInv
BY DEF LimiterInit, LimiterInv, LimiterTypeOK, BucketInv, WindowBound

(* Each step keeps the types.                                              *)
LEMMA LimiterNextTypeOK == LimiterInv /\ [LimiterNext]_limiterVars => LimiterTypeOK'
<1> SUFFICES ASSUME LimiterInv, [LimiterNext]_limiterVars PROVE LimiterTypeOK'
  OBVIOUS
<1>1. LimiterTypeOK /\ BucketInv
  BY DEF LimiterInv
<1>2. CASE Tick
  BY <1>1, <1>2 DEF Tick, LimiterTypeOK
<1>3. ASSUME NEW t \in Handlers, NEW k \in Keys, Lookup(t, k) PROVE LimiterTypeOK'
  <2>1. NewBucket \in Buckets
    BY <1>1, CapacityAssumption DEF NewBucket, Buckets, LimiterTypeOK
  <2> QED BY <1>1, <1>3, <2>1 DEF Lookup, LimiterTypeOK
<1>4. ASSUME NEW t \in Handlers, Admit(t) PROVE LimiterTypeOK'
  <2> DEFINE k == call[t]
             b == Refilled(buckets[k])
  <2>1. k \in DOMAIN buckets /\ k \in Keys /\ now \in Nat
    BY <1>1, <1>4 DEF Admit, LimiterTypeOK
  <2>2. b \in Buckets /\ b.tokens >= Cost
    BY <1>1, <1>4, <2>1, RefillKeeps DEF Admit
  <2>3. [b EXCEPT !.tokens = b.tokens - Cost] \in Buckets
    BY <2>2, CostAssumption, CapacityAssumption DEF Buckets
  <2>4. /\ buckets' = [buckets EXCEPT ![k] = [b EXCEPT !.tokens = b.tokens - Cost]]
        /\ admitted' = [admitted EXCEPT ![k] = Append(@, now)]
        /\ call' = [call EXCEPT ![t] = NoKey] /\ now' = now
    BY <1>4 DEF Admit
  <2>5. admitted' \in [Keys -> Seq(Nat)]
    BY <1>1, <2>1, <2>4 DEF LimiterTypeOK
  <2> HIDE DEF b
  <2> QED BY <1>1, <2>1, <2>3, <2>4, <2>5 DEF LimiterTypeOK
<1>5. ASSUME NEW t \in Handlers, Refuse(t) PROVE LimiterTypeOK'
  <2> DEFINE k == call[t]
             b == Refilled(buckets[k])
  <2>1. k \in DOMAIN buckets /\ k \in Keys
    BY <1>1, <1>5 DEF Refuse, LimiterTypeOK
  <2>2. b \in Buckets
    BY <1>1, <2>1, RefillKeeps
  <2>3. buckets' = [buckets EXCEPT ![k] = b] /\ call' = [call EXCEPT ![t] = NoKey]
        /\ UNCHANGED <<now, admitted>>
    BY <1>5 DEF Refuse
  <2> HIDE DEF b
  <2> QED BY <1>1, <2>1, <2>2, <2>3 DEF LimiterTypeOK
<1>6. CASE UNCHANGED limiterVars
  BY <1>1, <1>6 DEF limiterVars, LimiterTypeOK
<1> QED BY <1>2, <1>3, <1>4, <1>5, <1>6 DEF LimiterNext

(* An admission: the window that starts with it and all that end with it   *)
(* are within their allowance.                                             *)
LEMMA AdmitKeeps ==
  ASSUME LimiterInv, LimiterTypeOK', NEW t \in Handlers, Admit(t),
         NEW k, k = call[t], NEW n, n = Len(admitted[k])
  PROVE  BucketInv' /\ WindowBound'
<1> DEFINE b == Refilled(buckets[k])
<1>1. LimiterTypeOK /\ BucketInv /\ WindowBound
  BY DEF LimiterInv
<1>2. k \in DOMAIN buckets /\ k \in Keys /\ now \in Nat /\ n \in Nat
  BY <1>1 DEF Admit, LimiterTypeOK
<1>3. /\ b \in Buckets /\ b.updated = now
      /\ \A i \in 1 .. n : /\ admitted[k][i] <= now
                          /\ b.tokens + Taken(k, i) <= Allowance(now - admitted[k][i])
      /\ \/ b.tokens = Capacity
         \/ \E i \in 1 .. n : b.tokens + Taken(k, i) = Allowance(now - admitted[k][i])
  BY <1>1, <1>2, RefillKeeps
<1>4. /\ b.tokens >= Cost
      /\ buckets' = [buckets EXCEPT ![k] = [b EXCEPT !.tokens = b.tokens - Cost]]
      /\ admitted' = [admitted EXCEPT ![k] = Append(@, now)] /\ now' = now
  BY DEF Admit
<1>5. b.tokens \in Int /\ Cost \in Int /\ Cost > 0 /\ b.tokens <= Capacity
  BY <1>3, CostAssumption, CapacityAssumption DEF Buckets
<1>6. /\ DOMAIN buckets' = DOMAIN buckets
      /\ buckets'[k].tokens = b.tokens - Cost /\ buckets'[k].updated = now
      /\ \A j \in DOMAIN buckets : j # k => buckets'[j] = buckets[j]
  BY <1>1, <1>2, <1>3, <1>4 DEF LimiterTypeOK, Buckets
<1>7. /\ admitted'[k] = Append(admitted[k], now)
      /\ \A j \in Keys : j # k => admitted'[j] = admitted[j]
  BY <1>1, <1>2, <1>4 DEF LimiterTypeOK
<1>8. /\ admitted[k] \in Seq(Nat) /\ Len(admitted'[k]) = n + 1
      /\ admitted'[k][n + 1] = now
      /\ \A i \in 1 .. n : admitted'[k][i] = admitted[k][i]
  BY <1>1, <1>2, <1>7 DEF LimiterTypeOK
<1>9. \A i \in 1 .. n : Taken(k, i) \in Int /\ Taken(k, i)' = Taken(k, i) + Cost
  <2>1. ASSUME NEW i \in 1 .. n
        PROVE  /\ (n - i + 1) * Cost \in Int
               /\ ((n + 1) - i + 1) * Cost = (n - i + 1) * Cost + Cost
    <3>1. n - i + 1 \in Int /\ (n + 1) - i + 1 = (n - i + 1) + 1
      BY <1>2
    <3>2. (n - i + 1) * Cost \in Int /\ ((n - i + 1) + 1) * Cost = (n - i + 1) * Cost + Cost
      BY <3>1, CostAdds
    <3> QED BY <3>1, <3>2
  <2> QED BY <2>1, <1>8 DEF Taken
<1>10. Taken(k, n + 1)' = Cost
  <2>1. ((n + 1) - (n + 1) + 1) * Cost = Cost
    BY <1>2, <1>5
  <2> QED BY <2>1, <1>8 DEF Taken
<1>11. Allowance(now - now) = Capacity
  <2>1. now - now = 0
    BY <1>2
  <2> QED BY <2>1, AllowanceAdds
<1>12. \A i \in 1 .. n : Allowance(now - admitted[k][i]) \in Int
  <2>1. \A i \in 1 .. n : now - admitted[k][i] \in Int
    BY <1>2, <1>8
  <2> QED BY <2>1, AllowanceInt
<1> HIDE DEF b
<1>13. Covers(k)'
  <2>1. ASSUME NEW i \in 1 .. n + 1
        PROVE  /\ admitted'[k][i] <= now
               /\ (b.tokens - Cost) + Taken(k, i)' <= Allowance(now - admitted'[k][i])
    <3>1. CASE i = n + 1
      BY SMTT(30), <1>2, <1>5, <1>8, <1>10, <1>11, <3>1, CapacityAssumption
    <3>2. CASE i \in 1 .. n
      <4>1. b.tokens + Taken(k, i) <= Allowance(now - admitted[k][i]) /\ admitted[k][i] <= now
        BY <1>3, <3>2
      <4>2. (b.tokens - Cost) + Taken(k, i)' = b.tokens + Taken(k, i)
        BY <1>5, <1>9, <3>2
      <4> QED BY <1>8, <3>2, <4>1, <4>2
    <3> QED BY <1>2, <3>1, <3>2
  <2> QED BY <2>1, <1>6, <1>8 DEF Covers, Taken
<1>14. Tight(k)'
  <2>1. CASE b.tokens = Capacity
    <3>1. (b.tokens - Cost) + Taken(k, n + 1)' = Allowance(now - admitted'[k][n + 1])
      BY <1>5, <1>8, <1>10, <1>11, <2>1
    <3>2. n + 1 \in 1 .. Len(admitted'[k])
      BY <1>2, <1>8
    <3>3. \E i \in 1 .. Len(admitted'[k]) :
            buckets'[k].tokens + Taken(k, i)' = Allowance(buckets'[k].updated - admitted'[k][i])
      BY <1>6, <3>1, <3>2
    <3> QED BY <3>3 DEF Tight, Taken
  <2>2. ASSUME NEW i \in 1 .. n, b.tokens + Taken(k, i) = Allowance(now - admitted[k][i])
        PROVE  Tight(k)'
    <3>1. (b.tokens - Cost) + Taken(k, i)' = Allowance(now - admitted'[k][i])
      <4>1. Taken(k, i)' = Taken(k, i) + Cost /\ Taken(k, i) \in Int
        BY <1>9
      <4>2. (b.tokens - Cost) + (Taken(k, i) + Cost) = b.tokens + Taken(k, i)
        BY <1>5, <4>1
      <4>3. admitted'[k][i] = admitted[k][i]
        BY <1>8
      <4> QED BY <2>2, <4>1, <4>2, <4>3
    <3>2. i \in 1 .. Len(admitted'[k])
      BY <1>2, <1>8
    <3>3. \E j \in 1 .. Len(admitted'[k]) :
            buckets'[k].tokens + Taken(k, j)' = Allowance(buckets'[k].updated - admitted'[k][j])
      BY <1>6, <3>1, <3>2
    <3> QED BY <3>3 DEF Tight, Taken
  <2> QED BY <1>3, <2>1, <2>2
<1>15. ASSUME NEW j \in DOMAIN buckets, j # k
       PROVE  Covers(j)' /\ Tight(j)' /\ buckets'[j].updated <= now'
  BY <1>1, <1>4, <1>6, <1>7, <1>15 DEF LimiterTypeOK, BucketInv, Covers, Tight, Taken
<1>16. BucketInv'
  <2>1. buckets'[k].updated <= now'
    BY <1>2, <1>4, <1>6
  <2>2. \A j \in Keys \ DOMAIN buckets : admitted'[j] = << >>
    BY <1>1, <1>2, <1>7 DEF BucketInv
  <2> QED BY <1>6, <1>13, <1>14, <1>15, <2>1, <2>2 DEF BucketInv
<1>17. WindowBound'
  <2>1. ASSUME NEW i \in 1 .. n + 1, NEW j \in 1 .. n + 1, i <= j
        PROVE  (j - i + 1) * Cost <= Allowance(admitted'[k][j] - admitted'[k][i])
    <3>1. CASE j \in 1 .. n
      <4>1. i \in 1 .. n /\ admitted'[k][i] = admitted[k][i] /\ admitted'[k][j] = admitted[k][j]
        BY <1>2, <1>8, <2>1, <3>1
      <4>2. (j - i + 1) * Cost <= Allowance(admitted[k][j] - admitted[k][i])
        BY <1>1, <1>2, <2>1, <3>1, <4>1 DEF WindowBound
      <4> QED BY <4>1, <4>2
    <3>2. CASE j = n + 1
      <4>1. (b.tokens - Cost) + Taken(k, i)' <= Allowance(now - admitted'[k][i])
        BY <1>6, <1>8, <1>13 DEF Covers
      <4>2. Taken(k, i)' = (j - i + 1) * Cost
        BY <1>8, <3>2 DEF Taken
      <4>3. Taken(k, i)' \in Int
        BY SMTT(30), <1>2, <1>5, <1>9, <1>10
      <4>4. Allowance(now - admitted'[k][i]) \in Int
        <5>1. CASE i = n + 1
          BY <1>8, <1>11, <5>1, CapacityAssumption
        <5>2. CASE i \in 1 .. n
          BY <1>8, <1>12, <5>2
        <5> QED BY <1>2, <5>1, <5>2
      <4>5. Taken(k, i)' <= Allowance(now - admitted'[k][i])
        BY SMTT(30), <1>4, <1>5, <4>1, <4>3, <4>4
      <4> QED BY <1>8, <3>2, <4>2, <4>5
    <3> QED BY <1>2, <3>1, <3>2
  <2> QED BY <1>1, <1>7, <1>8, <2>1 DEF WindowBound
<1> QED BY <1>16, <1>17

(* Every step keeps the invariant.                                         *)
LEMMA NextLimiter == LimiterInv /\ [LimiterNext]_limiterVars => LimiterInv'
<1> SUFFICES ASSUME LimiterInv, [LimiterNext]_limiterVars PROVE LimiterInv'
  OBVIOUS
<1>1. LimiterTypeOK /\ BucketInv /\ WindowBound /\ LimiterTypeOK'
  BY LimiterNextTypeOK DEF LimiterInv
<1>2. CASE Tick
  <2>1. now' = now + 1 /\ UNCHANGED <<buckets, admitted>> /\ now \in Nat
    BY <1>1, <1>2 DEF Tick, LimiterTypeOK
  <2>2. \A k \in DOMAIN buckets : buckets[k].updated <= now'
    BY <1>1, <2>1 DEF BucketInv, LimiterTypeOK, Buckets
  <2> QED BY <1>1, <2>1, <2>2 DEF LimiterInv, BucketInv, WindowBound, Covers, Tight, Taken
<1>3. ASSUME NEW t \in Handlers, NEW k \in Keys, Lookup(t, k) PROVE LimiterInv'
  <2>1. /\ UNCHANGED <<now, admitted>> /\ DOMAIN buckets' = DOMAIN buckets \union {k}
        /\ \A j \in DOMAIN buckets : buckets'[j] = buckets[j]
        /\ k \notin DOMAIN buckets => buckets'[k] = NewBucket /\ admitted[k] = << >>
    BY <1>1, <1>3 DEF Lookup, BucketInv
  <2>2. \A j \in DOMAIN buckets : buckets'[j].updated <= now' /\ Covers(j)' /\ Tight(j)'
    BY <1>1, <2>1 DEF BucketInv, Covers, Tight, Taken
  <2>3. k \notin DOMAIN buckets => buckets'[k].updated <= now' /\ Covers(k)' /\ Tight(k)'
    BY <1>1, <2>1 DEF NewBucket, Covers, Tight, LimiterTypeOK
  <2>4. BucketInv'
    BY <1>1, <2>1, <2>2, <2>3 DEF BucketInv
  <2> QED BY <1>1, <2>1, <2>4 DEF LimiterInv, WindowBound
<1>4. ASSUME NEW t \in Handlers, Admit(t) PROVE LimiterInv'
  BY <1>1, <1>4, AdmitKeeps DEF LimiterInv
<1>5. ASSUME NEW t \in Handlers, Refuse(t), NEW k, k = call[t] PROVE LimiterInv'
  <2> DEFINE b == Refilled(buckets[k])
  <2>1. k \in DOMAIN buckets /\ now \in Nat
    BY <1>1, <1>5 DEF Refuse, LimiterTypeOK
  <2>2. buckets' = [buckets EXCEPT ![k] = b] /\ UNCHANGED <<now, admitted>>
    BY <1>5 DEF Refuse
  <2>3. /\ DOMAIN buckets' = DOMAIN buckets /\ buckets'[k] = b
        /\ \A j \in DOMAIN buckets : j # k => buckets'[j] = buckets[j]
    BY <1>1, <2>1, <2>2 DEF LimiterTypeOK
  <2>4. buckets'[k].updated <= now' /\ Covers(k)' /\ Tight(k)'
    <3>1. /\ b.updated = now
          /\ \A i \in 1 .. Len(admitted[k]) :
               /\ admitted[k][i] <= now
               /\ b.tokens + Taken(k, i) <= Allowance(now - admitted[k][i])
          /\ \/ b.tokens = Capacity
             \/ \E i \in 1 .. Len(admitted[k]) :
                  b.tokens + Taken(k, i) = Allowance(now - admitted[k][i])
      BY <1>1, <2>1, RefillKeeps
    <3> HIDE DEF b
    <3> QED BY <2>1, <2>2, <2>3, <3>1 DEF Covers, Tight, Taken
  <2> HIDE DEF b
  <2>5. \A j \in DOMAIN buckets : j # k => buckets'[j].updated <= now' /\ Covers(j)' /\ Tight(j)'
    BY <1>1, <2>2, <2>3 DEF BucketInv, Covers, Tight, Taken
  <2>6. BucketInv'
    BY <1>1, <2>2, <2>3, <2>4, <2>5 DEF BucketInv
  <2> QED BY <1>1, <2>2, <2>6 DEF LimiterInv, WindowBound
<1>6. CASE UNCHANGED limiterVars
  BY <1>1, <1>6 DEF limiterVars, LimiterInv, BucketInv, WindowBound, Covers, Tight, Taken
<1> QED BY <1>2, <1>3, <1>4, <1>5, <1>6 DEF LimiterNext

----------------------------------------------------------------------------
(* The promises.                                                           *)

(* The invariant holds of every execution.                                 *)
LEMMA LimiterInvariance == LimiterSpec => []LimiterInv
BY InitLimiter, NextLimiter, PTL DEF LimiterSpec

(* Buckets, calls and the history of admissions are what they should be.   *)
THEOREM LimiterTypeCorrect == LimiterSpec => []LimiterTypeOK
<1>1. LimiterInv => LimiterTypeOK
  BY DEF LimiterInv
<1> QED BY <1>1, LimiterInvariance, PTL

(* In every window of time one key is granted at most the capacity and the *)
(* refill of the window, for any number of threads calling check.          *)
THEOREM WindowBounded == LimiterSpec => []WindowBound
<1>1. LimiterInv => WindowBound
  BY DEF LimiterInv
<1> QED BY <1>1, LimiterInvariance, PTL

(* check raises RateLimitError only if the request would break the bound.  *)
THEOREM RefusalsJustified == LimiterSpec => RefusesOnlyOverLimit
<1>1. ASSUME LimiterInv, NEW t \in Handlers, Refuse(t) PROVE OverLimit(call[t])
  <2> DEFINE k == call[t]
             b == Refilled(buckets[k])
  <2>1. LimiterTypeOK /\ BucketInv /\ k \in DOMAIN buckets /\ k \in Keys /\ now \in Nat
    BY <1>1 DEF LimiterInv, Refuse, LimiterTypeOK
  <2>2. /\ b \in Buckets
        /\ \/ b.tokens = Capacity
           \/ \E i \in 1 .. Len(admitted[k]) :
                b.tokens + Taken(k, i) = Allowance(now - admitted[k][i])
    BY <2>1, RefillKeeps
  <2>3. b.tokens < Cost /\ b.tokens \in Int
    BY <1>1, <2>2, CapacityAssumption DEF Refuse, Buckets
  <2> HIDE DEF b
  <2>4. ASSUME NEW i \in 1 .. Len(admitted[k]),
               b.tokens + Taken(k, i) = Allowance(now - admitted[k][i])
        PROVE  (Len(admitted[k]) - i + 2) * Cost > Allowance(now - admitted[k][i])
    <3>1. Len(admitted[k]) \in Nat
      BY <2>1 DEF LimiterTypeOK
    <3>2. (Len(admitted[k]) - i + 2) * Cost = Taken(k, i) + Cost /\ Taken(k, i) \in Int
      BY <3>1, CostAssumption DEF Taken
    <3> QED BY <2>3, <2>4, <3>2, CostAssumption
  <2> QED BY <2>2, <2>3, <2>4 DEF OverLimit
<1>2. LimiterInv /\ [LimiterNext]_limiterVars => [\A t \in Handlers : Refuse(t) => OverLimit(call[t])]_limiterVars
  BY <1>1
<1> QED BY <1>2, LimiterInvariance, PTL DEF LimiterSpec, RefusesOnlyOverLimit

----------------------------------------------------------------------------
(* The audit log.                                                          *)

Locked == {"locked", "written", "synced"}

(* The events that are being recorded are new, and no two are the same.    *)
EventsNew ==
  /\ \A t \in Threads : pc[t] # "idle" => event[t].id \in 1 .. begun /\ event[t].id \notin logged
  /\ \A t, u \in Threads :
       t # u /\ pc[t] # "idle" /\ pc[u] # "idle" => event[t].id # event[u].id

TypeInv == TypeOK /\ EventsNew

(* A hash a reader of the first n lines of f knows, unless he was stopped  *)
(* by a line he cannot read.                                               *)
Covered(f, p, n) ==
  \/ p = Genesis
  \/ \E j \in 1 .. n : f[j].id = p \/ ~Readable(f[j])

Rooted(f) == \A i \in 1 .. Len(f) : f[i].kind = "event" => Covered(f, f[i].prev, i - 1)

ChainInv ==
  /\ Rooted(lines) /\ Covered(lines, previous, Len(lines))
  /\ \A t \in Threads :
       /\ pc[t] # "idle" => Covered(lines, event[t].prev, Len(lines))
       /\ pc[t] \in {"written", "synced"} => Covered(lines, event[t].id, Len(lines))

(* As long as no write was cut short: every line is an event, what was     *)
(* logged is synced, the published hash has nothing logged after it, and   *)
(* the event of the thread that has written is on the last line.           *)
HeadAt(i) ==
  /\ previous = IF i = 0 THEN Genesis ELSE lines[i].id
  /\ \A j \in i + 1 .. Len(lines) : lines[j].id \notin logged

LogInv ==
  ~interrupted =>
    /\ mode # "refused" /\ \A i \in 1 .. Len(lines) : lines[i].kind = "event"
    /\ \A e \in logged : \E i \in 1 .. synced : lines[i].id = e
    /\ mode = "up" => \E i \in 0 .. Len(lines) : HeadAt(i)
    /\ \A t \in Threads :
         /\ pc[t] \in {"written", "synced"} =>
              Len(lines) > 0 /\ lines[Len(lines)].id = event[t].id
         /\ pc[t] = "synced" => synced = Len(lines)

----------------------------------------------------------------------------
(* What writing does to a file.                                            *)

LEMMA LineType ==
  ASSUME NEW e \in Events, NEW k \in {"event", "unterminated", "torn", "garbled"}
  PROVE  Line(e, k) \in Lines
BY DEF Line, Events, Lines

(* However a write ends, the lines before the last stay, the last line may *)
(* become unreadable, or one line is added.                                *)
Extends(f, g, e) ==
  /\ g \in Seq(Lines)
  /\ \/ g = f
     \/ Len(g) = Len(f) /\ Len(f) > 0 /\ ~Readable(g[Len(f)])
          /\ \A i \in 1 .. Len(f) - 1 : g[i] = f[i]
     \/ Len(g) = Len(f) + 1 /\ g[Len(f) + 1].prev = e.prev
          /\ \A i \in 1 .. Len(f) : g[i] = f[i]

LEMMA WrittenExtends ==
  ASSUME NEW f \in Seq(Lines), NEW e \in Events
  PROVE  Extends(f, Written(f, e), e)
<1>1. CASE f # << >> /\ f[Len(f)].kind \in {"unterminated", "torn"}
  <2>1. Line(e, "garbled") \in Lines /\ ~Readable(Line(e, "garbled"))
    BY LineType DEF Line, Readable
  <2>2. Written(f, e) = [f EXCEPT ![Len(f)] = Line(e, "garbled")]
    BY <1>1 DEF Written
  <2>3. Len(f) > 0
    BY <1>1
  <2> QED
    BY <2>1, <2>2, <2>3 DEF Extends
<1>2. CASE ~(f # << >> /\ f[Len(f)].kind \in {"unterminated", "torn"})
  <2>1. Line(e, "event") \in Lines /\ Line(e, "event").prev = e.prev
    BY LineType DEF Line
  <2>2. Written(f, e) = Append(f, Line(e, "event"))
    BY <1>2 DEF Written
  <2> QED
    BY <2>1, <2>2 DEF Extends
<1> QED
  BY <1>1, <1>2

LEMMA PartlyExtends ==
  ASSUME NEW f \in Seq(Lines), NEW e \in Events, NEW g \in PartlyWritten(f, e)
  PROVE  Extends(f, g, e)
<1>1. CASE g = f
  BY <1>1 DEF Extends
<1>2. CASE f # << >> /\ g = [f EXCEPT ![Len(f)] = Line(e, "torn")]
  <2>1. Line(e, "torn") \in Lines /\ ~Readable(Line(e, "torn"))
    BY LineType DEF Line, Readable
  <2>2. Len(f) > 0
    BY <1>2
  <2> QED
    BY <1>2, <2>1, <2>2 DEF Extends
<1>3. ASSUME NEW k \in {"unterminated", "torn"}, g = Append(f, Line(e, k))
      PROVE  Extends(f, g, e)
  <2>1. Line(e, k) \in Lines /\ Line(e, k).prev = e.prev
    BY LineType DEF Line
  <2> QED
    BY <1>3, <2>1 DEF Extends
<1> QED
  BY <1>1, <1>2, <1>3 DEF PartlyWritten

(* What was covered stays covered, and what is written is covered.         *)
LEMMA CoveredKept ==
  ASSUME NEW f \in Seq(Lines), NEW g, NEW e, Extends(f, g, e), NEW p, Covered(f, p, Len(f))
  PROVE  Covered(g, p, Len(g))
BY DEF Extends, Covered

LEMMA WrittenCovers ==
  ASSUME NEW f \in Seq(Lines), NEW e \in Events
  PROVE  Covered(Written(f, e), e.id, Len(Written(f, e)))
<1>1. CASE f # << >> /\ f[Len(f)].kind \in {"unterminated", "torn"}
  <2>1. Written(f, e) = [f EXCEPT ![Len(f)] = Line(e, "garbled")] /\ Len(f) > 0
    BY <1>1 DEF Written
  <2>2. Line(e, "garbled").id = e.id
    BY DEF Line
  <2> QED
    BY <2>1, <2>2 DEF Covered
<1>2. CASE ~(f # << >> /\ f[Len(f)].kind \in {"unterminated", "torn"})
  <2>1. Written(f, e) = Append(f, Line(e, "event"))
    BY <1>2 DEF Written
  <2>2. Line(e, "event").id = e.id
    BY DEF Line
  <2> QED
    BY <2>1, <2>2 DEF Covered
<1> QED
  BY <1>1, <1>2

LEMMA RootedKept ==
  ASSUME NEW f \in Seq(Lines), NEW g, NEW e, Extends(f, g, e), Rooted(f),
         Covered(f, e.prev, Len(f))
  PROVE  Rooted(g)
<1> SUFFICES ASSUME NEW i \in 1 .. Len(g), g[i].kind = "event" PROVE Covered(g, g[i].prev, i - 1)
  BY DEF Rooted
<1>1. CASE g = f
  BY <1>1 DEF Rooted
<1>2. CASE Len(g) = Len(f) /\ Len(f) > 0 /\ ~Readable(g[Len(f)])
             /\ \A j \in 1 .. Len(f) - 1 : g[j] = f[j]
  <2>1. i \in 1 .. Len(f) - 1
    BY <1>2 DEF Readable
  <2>2. g[i] = f[i] /\ f[i].kind = "event" /\ i \in 1 .. Len(f)
    BY <1>2, <2>1
  <2>3. Covered(f, f[i].prev, i - 1)
    BY <2>2 DEF Rooted
  <2> QED
    BY <1>2, <2>1, <2>2, <2>3 DEF Covered
<1>3. CASE Len(g) = Len(f) + 1 /\ g[Len(f) + 1].prev = e.prev
             /\ \A j \in 1 .. Len(f) : g[j] = f[j]
  <2>1. CASE i \in 1 .. Len(f)
    BY <1>3, <2>1 DEF Rooted, Covered
  <2>2. CASE i = Len(f) + 1
    <3>1. Covered(g, e.prev, Len(f))
      BY <1>3 DEF Covered
    <3>2. g[i].prev = e.prev /\ i - 1 = Len(f)
      BY <1>3, <2>2
    <3> QED
      BY <3>1, <3>2
  <2> QED
    BY <1>3, <2>1, <2>2
<1> QED
  BY <1>1, <1>2, <1>3 DEF Extends

----------------------------------------------------------------------------
(* Types, and the freshness of events.                                     *)

LEMMA InitType == Init => TypeInv
<1> SUFFICES ASSUME Init PROVE TypeInv
  OBVIOUS
<1>1. NoEvent \in Events
  BY DEF NoEvent, Events, Genesis
<1>2. lines \in Seq(Lines) /\ Len(lines) = 0
  BY DEF Init
<1>3. \A t \in Threads : pc[t] = "idle" /\ lock # t
  BY ThreadsAssumption DEF Init
<1>4. EventsNew
  BY <1>3 DEF EventsNew
<1>5. /\ pc \in [Threads -> {"idle", "built", "locked", "written", "synced"}]
      /\ event \in [Threads -> Events]
  BY <1>1 DEF Init
<1>6. /\ mode \in {"up", "down", "refused"} /\ lock \in Threads \union {NoThread}
      /\ interrupted \in BOOLEAN
  BY DEF Init
<1>7. previous \in Nat /\ begun \in Nat /\ logged \subseteq 1 .. begun /\ synced \in 0 .. Len(lines)
  BY <1>2 DEF Init, Genesis
<1>8. TypeOK
  BY <1>2, <1>3, <1>5, <1>6, <1>7 DEF TypeOK
<1> QED
  BY <1>4, <1>8 DEF TypeInv

LEMMA StoppedType ==
  ASSUME TypeInv, Stopped, lines' \in Seq(Lines), synced' \in 0 .. Len(lines'), begun' = begun,
         logged' = logged, interrupted' \in BOOLEAN
  PROVE  TypeInv'
<1>1. NoEvent \in Events
  BY DEF NoEvent, Events, Genesis
<1> QED
  BY <1>1, ThreadsAssumption DEF TypeInv, TypeOK, EventsNew, Stopped, Genesis

LEMMA NextType == TypeInv /\ [Next]_vars => TypeInv'
<1> SUFFICES ASSUME TypeInv, [Next]_vars PROVE TypeInv'
  OBVIOUS
<1>0. TypeOK /\ EventsNew
  BY DEF TypeInv
<1>1. ASSUME NEW t \in Threads, Build(t) PROVE TypeInv'
  <2>1. [id |-> begun + 1, prev |-> previous] \in Events
    BY <1>0 DEF TypeOK, Events
  <2>2. TypeOK'
    BY <1>0, <1>1, <2>1, ThreadsAssumption DEF TypeOK, Build, At, Goto, fileVars
  <2>3. EventsNew'
    BY <1>0, <1>1 DEF TypeOK, EventsNew, Build, At, Goto
  <2> QED
    BY <2>2, <2>3 DEF TypeInv
<1>2. ASSUME NEW t \in Threads, Acquire(t) PROVE TypeInv'
  BY <1>0, <1>2, ThreadsAssumption DEF TypeInv, TypeOK, EventsNew, Acquire, At, Goto, fileVars
<1>3. ASSUME NEW t \in Threads, WriteLine(t) PROVE TypeInv'
  <2>1. lines' \in Seq(Lines) /\ Len(lines') >= Len(lines)
    <3>1. Extends(lines, lines', event[t]) /\ lines \in Seq(Lines)
      BY <1>0, <1>3, WrittenExtends DEF TypeOK, WriteLine
    <3> QED
      BY <3>1 DEF Extends
  <2> QED
    BY <1>0, <1>3, <2>1, ThreadsAssumption DEF TypeInv, TypeOK, EventsNew, WriteLine, At, Goto
<1>4. ASSUME NEW t \in Threads, SyncLine(t) PROVE TypeInv'
  BY <1>0, <1>4, ThreadsAssumption DEF TypeInv, TypeOK, EventsNew, SyncLine, At, Goto
<1>5. ASSUME NEW t \in Threads, Publish(t) PROVE TypeInv'
  <2>1. TypeOK'
    BY <1>0, <1>5, ThreadsAssumption DEF TypeOK, EventsNew, Publish, At, Goto, fileVars, Events
  <2>2. EventsNew'
    BY <1>0, <1>5 DEF TypeOK, EventsNew, Publish, At, Goto
  <2> QED
    BY <2>1, <2>2 DEF TypeInv
<1>6. ASSUME NEW t \in Threads, WriteFails(t) PROVE TypeInv'
  <2>1. lines' \in Seq(Lines) /\ Len(lines') >= Len(lines)
    BY <1>0, <1>6, PartlyExtends DEF TypeOK, WriteFails, Extends
  <2> QED
    BY <1>0, <1>6, <2>1, ThreadsAssumption DEF TypeInv, TypeOK, EventsNew, WriteFails, At, Goto
<1>7. ASSUME NEW t \in Threads, SyncFails(t) PROVE TypeInv'
  BY <1>0, <1>7, ThreadsAssumption DEF TypeInv, TypeOK, EventsNew, SyncFails, At, Goto, fileVars
<1>8. CASE Start \/ StartRefused
  <2>1. previous' \in Nat
    <3>1. CASE lines = << >> \/ StartRefused
      BY <1>0, <1>8, <3>1 DEF TypeOK, Start, StartRefused, Genesis
    <3>2. CASE lines # << >> /\ Start
      <4>1. lines[Len(lines)] \in Lines
        BY <1>0, <3>2 DEF TypeOK
      <4> QED
        BY <3>2, <4>1 DEF Start, Lines
    <3> QED
      BY <1>8, <3>1, <3>2
  <2> QED
    BY <1>0, <1>8, <2>1 DEF TypeInv, TypeOK, EventsNew, Start, StartRefused, fileVars, threadVars
<1>9. CASE Kill
  <2>1. lines' \in Seq(Lines) /\ Len(lines') >= Len(lines)
    BY <1>0, <1>9, PartlyExtends DEF TypeOK, Kill, Extends
  <2> QED
    BY <1>0, <1>9, <2>1, StoppedType DEF TypeOK, Kill
<1>10. CASE PowerLoss
  <2>1. PICK n \in synced .. Len(lines) : lines' = SubSeq(lines, 1, n) /\ synced' = n
    BY <1>10 DEF PowerLoss
  <2>2. lines' \in Seq(Lines) /\ Len(lines') = n /\ n \in Nat
    BY <1>0, <2>1 DEF TypeOK
  <2> QED
    BY <1>0, <1>10, <2>1, <2>2, StoppedType DEF TypeOK, PowerLoss
<1>11. CASE UNCHANGED vars
  BY <1>0, <1>11 DEF vars, fileVars, threadVars, TypeInv, TypeOK, EventsNew
<1> QED
  BY <1>1, <1>2, <1>3, <1>4, <1>5, <1>6, <1>7, <1>8, <1>9, <1>10, <1>11 DEF Next

----------------------------------------------------------------------------
(* The tree of hashes.                                                     *)

LEMMA InitChain == Init => ChainInv
BY DEF Init, ChainInv, Rooted, Covered

(* A step that extends the file with an event of a thread.                 *)
LEMMA ExtendsChain ==
  ASSUME TypeInv, ChainInv, NEW t \in Threads, pc[t] # "idle", Extends(lines, lines', event[t])
  PROVE  /\ Rooted(lines')
         /\ \A p : Covered(lines, p, Len(lines)) => Covered(lines', p, Len(lines'))
<1>1. lines \in Seq(Lines) /\ Rooted(lines) /\ Covered(lines, event[t].prev, Len(lines))
  BY DEF TypeInv, TypeOK, ChainInv
<1>2. Rooted(lines')
  BY <1>1, RootedKept
<1>3. ASSUME NEW p, Covered(lines, p, Len(lines)) PROVE Covered(lines', p, Len(lines'))
  BY <1>1, <1>3, CoveredKept
<1> QED
  BY <1>2, <1>3

(* A process that stopped has published nothing yet.                       *)
LEMMA StoppedChain ==
  ASSUME Stopped, Rooted(lines')
  PROVE  ChainInv'
BY DEF Stopped, ChainInv, Rooted, Covered, Readable

LEMMA NextChain == TypeInv /\ ChainInv /\ [Next]_vars => ChainInv'
<1> SUFFICES ASSUME TypeInv, ChainInv, [Next]_vars PROVE ChainInv'
  OBVIOUS
<1>0. /\ lines \in Seq(Lines) /\ event \in [Threads -> Events]
      /\ pc \in [Threads -> {"idle", "built", "locked", "written", "synced"}]
  BY DEF TypeInv, TypeOK
<1>a. /\ Rooted(lines) /\ Covered(lines, previous, Len(lines))
      /\ \A t \in Threads :
           /\ pc[t] # "idle" => Covered(lines, event[t].prev, Len(lines))
           /\ pc[t] \in {"written", "synced"} => Covered(lines, event[t].id, Len(lines))
  BY DEF ChainInv
<1>b. ASSUME lines' = lines, Covered(lines, previous', Len(lines)), event' = event,
             \A t \in Threads :
               /\ pc'[t] # "idle" => pc[t] # "idle"
               /\ pc'[t] \in {"written", "synced"} => pc[t] \in {"written", "synced"}
      PROVE  ChainInv'
  BY <1>a, <1>b DEF ChainInv, Rooted, Covered, Readable
<1>1. ASSUME NEW t \in Threads, Build(t) PROVE ChainInv'
  <2>1. \A u \in Threads :
          /\ pc'[u] # "idle" => Covered(lines, event'[u].prev, Len(lines))
          /\ pc'[u] \in {"written", "synced"} => Covered(lines, event'[u].id, Len(lines))
    BY <1>0, <1>1, <1>a DEF Build, Goto
  <2> QED
    BY <1>1, <1>a, <2>1 DEF Build, fileVars, ChainInv, Rooted, Covered, Readable
<1>2. ASSUME NEW t \in Threads, Acquire(t) \/ SyncLine(t) \/ SyncFails(t) PROVE ChainInv'
  BY <1>0, <1>2, <1>a, <1>b DEF Acquire, SyncLine, SyncFails, At, Goto, fileVars
<1>3. ASSUME NEW t \in Threads, WriteLine(t) \/ WriteFails(t) PROVE ChainInv'
  <2>1. pc[t] # "idle" /\ Extends(lines, lines', event[t])
    BY <1>0, <1>3, WrittenExtends, PartlyExtends DEF WriteLine, WriteFails, At
  <2>2. /\ Rooted(lines')
        /\ \A p : Covered(lines, p, Len(lines)) => Covered(lines', p, Len(lines'))
    BY <2>1, ExtendsChain
  <2>3. /\ previous' = previous /\ event' = event
        /\ \A u \in Threads : pc'[u] # "idle" => pc[u] # "idle"
        /\ \A u \in Threads \ {t} : pc'[u] = pc[u]
    BY <1>0, <1>3 DEF WriteLine, WriteFails, At, Goto
  <2>4. /\ Covered(lines', previous', Len(lines'))
        /\ \A u \in Threads : pc'[u] # "idle" => Covered(lines', event'[u].prev, Len(lines'))
    BY <1>a, <2>2, <2>3
  <2>5. pc'[t] \in {"written", "synced"} => Covered(lines', event[t].id, Len(lines'))
    BY <1>0, <1>3, WrittenCovers DEF WriteLine, WriteFails, Goto
  <2>6. \A u \in Threads :
          pc'[u] \in {"written", "synced"} => Covered(lines', event'[u].id, Len(lines'))
    BY <1>a, <2>2, <2>3, <2>5
  <2> QED
    BY <2>2, <2>4, <2>6 DEF ChainInv, Rooted, Covered, Readable
<1>4. ASSUME NEW t \in Threads, Publish(t) PROVE ChainInv'
  <2>1. Covered(lines, event[t].id, Len(lines))
    BY <1>4, <1>a DEF Publish, At
  <2> QED
    BY <1>0, <1>4, <1>a, <1>b, <2>1 DEF Publish, Goto, fileVars
<1>5. CASE Start
  <2>1. Covered(lines, previous', Len(lines))
    BY <1>0, <1>5 DEF Start, Covered
  <2> QED
    BY <1>5, <1>a, <2>1 DEF Start, fileVars, threadVars, ChainInv, Rooted, Covered, Readable
<1>6. CASE StartRefused
  BY <1>6, <1>a, <1>b DEF StartRefused, fileVars, threadVars
<1>7. CASE Kill
  <2>1. CASE lines' = lines
    <3>1. Rooted(lines')
      BY <1>a, <2>1
    <3> QED
      BY <1>7, <3>1, StoppedChain DEF Kill
  <2>2. CASE \E t \in Threads : pc[t] = "locked" /\ lines' \in PartlyWritten(lines, event[t])
    <3>1. PICK t \in Threads : pc[t] = "locked" /\ lines' \in PartlyWritten(lines, event[t])
      BY <2>2
    <3>2. Extends(lines, lines', event[t])
      BY <1>0, <3>1, PartlyExtends
    <3> QED
      BY <1>7, <3>1, <3>2, ExtendsChain, StoppedChain DEF Kill
  <2> QED
    BY <1>7, <2>1, <2>2 DEF Kill
<1>8. CASE PowerLoss
  <2>1. PICK n \in synced .. Len(lines) : lines' = SubSeq(lines, 1, n)
    BY <1>8 DEF PowerLoss
  <2>2. n \in 0 .. Len(lines)
    BY <2>1 DEF TypeInv, TypeOK
  <2>3. Len(lines') = n /\ \A i \in 1 .. n : lines'[i] = lines[i]
    BY <1>0, <2>1, <2>2
  <2>4. Rooted(lines')
    BY <1>0, <1>a, <2>2, <2>3 DEF Rooted, Covered
  <2> QED
    BY <1>8, <2>4, StoppedChain DEF PowerLoss
<1>9. CASE UNCHANGED vars
  BY <1>9, <1>a, <1>b DEF vars, fileVars, threadVars
<1> QED
  BY <1>1, <1>2, <1>3, <1>4, <1>5, <1>6, <1>7, <1>8, <1>9 DEF Next

----------------------------------------------------------------------------
(* What is logged, while no write was cut short.                           *)

LEMMA InitLog == Init => LogInv
BY DEF Init, LogInv

(* A step that leaves the file and the published hash alone.               *)
LEMMA QuietLog ==
  ASSUME LogInv, ~interrupted, lines' = lines, previous' = previous, logged' = logged, mode' = mode,
         event' = event, synced' = synced,
         \A u \in Threads :
           /\ pc'[u] \in {"written", "synced"} => pc[u] \in {"written", "synced"}
           /\ pc'[u] = "synced" => pc[u] = "synced"
  PROVE  LogInv'
BY DEF LogInv, HeadAt

(* A process that stopped.                                                 *)
LEMMA StoppedLog ==
  ASSUME Stopped, logged' = logged, \A i \in 1 .. Len(lines') : lines'[i].kind = "event",
         \A e \in logged : \E i \in 1 .. synced' : lines'[i].id = e
  PROVE  LogInv'
BY DEF Stopped, LogInv

LEMMA NextLog == TypeInv /\ LogInv /\ [Next]_vars => LogInv'
<1> SUFFICES ASSUME TypeInv, LogInv, [Next]_vars, ~interrupted' PROVE LogInv'
  BY DEF LogInv
<1>0. /\ lines \in Seq(Lines) /\ synced \in 0 .. Len(lines) /\ event \in [Threads -> Events]
      /\ pc \in [Threads -> {"idle", "built", "locked", "written", "synced"}]
      /\ \A t \in Threads : pc[t] \in Locked <=> lock = t
      /\ \A t \in Threads : pc[t] # "idle" => event[t].id \notin logged
  BY DEF TypeInv, TypeOK, EventsNew, Locked
<1>a. ~interrupted
  BY DEF Next, Build, Acquire, WriteLine, SyncLine, Publish, WriteFails, SyncFails, Start,
         StartRefused, Kill, PowerLoss, vars
<1>b. /\ mode # "refused" /\ \A i \in 1 .. Len(lines) : lines[i].kind = "event"
      /\ \A e \in logged : \E i \in 1 .. synced : lines[i].id = e
      /\ mode = "up" => \E i \in 0 .. Len(lines) : HeadAt(i)
      /\ \A t \in Threads :
           /\ pc[t] \in {"written", "synced"} =>
                Len(lines) > 0 /\ lines[Len(lines)].id = event[t].id
           /\ pc[t] = "synced" => synced = Len(lines)
  BY <1>a DEF LogInv
<1>1. ASSUME NEW t \in Threads, Build(t) PROVE LogInv'
  <2>1. /\ lines' = lines /\ previous' = previous /\ logged' = logged /\ mode' = mode
        /\ synced' = synced /\ pc' = [pc EXCEPT ![t] = "built"]
        /\ \A u \in Threads \ {t} : event'[u] = event[u]
    BY <1>0, <1>1 DEF Build, Goto, fileVars
  <2>2. mode = "up" => (\E i \in 0 .. Len(lines) : HeadAt(i))'
    BY <1>b, <2>1 DEF HeadAt
  <2> QED
    BY <1>0, <1>b, <2>1, <2>2 DEF LogInv
<1>2. ASSUME NEW t \in Threads, Acquire(t) \/ SyncFails(t) \/ WriteFails(t) PROVE LogInv'
  BY <1>0, <1>2, <1>a, QuietLog DEF Acquire, SyncFails, WriteFails, Goto, fileVars
<1>3. ASSUME NEW t \in Threads, WriteLine(t) PROVE LogInv'
  <2> DEFINE l == Line(event[t], "event")
  <2>1. lines' = Append(lines, l)
    <3>1. ~(lines # << >> /\ lines[Len(lines)].kind \in {"unterminated", "torn"})
      BY <1>0, <1>b
    <3> QED
      BY <1>3, <3>1 DEF WriteLine, Written
  <2>2. /\ Len(lines') = Len(lines) + 1 /\ lines'[Len(lines) + 1] = l
        /\ \A i \in 1 .. Len(lines) : lines'[i] = lines[i]
    <3>1. l \in Lines
      BY <1>0, LineType
    <3> QED
      BY <1>0, <2>1, <3>1
  <2>3. l.id = event[t].id /\ l.kind = "event" /\ l.id \notin logged
    BY <1>0, <1>3 DEF Line, WriteLine, At
  <2>4. /\ previous' = previous /\ logged' = logged /\ mode' = mode /\ mode = "up"
        /\ event' = event /\ synced' = synced /\ pc' = [pc EXCEPT ![t] = "written"]
    BY <1>3 DEF WriteLine, At, Goto
  <2>5. \A u \in Threads \ {t} : pc'[u] \notin {"written", "synced"}
    BY <1>0, <1>3, <2>4 DEF WriteLine, At, Locked
  <2>6. pc'[t] = "written" /\ lines'[Len(lines')].id = event'[t].id
    BY <1>0, <2>2, <2>3, <2>4
  <2>7. PICK i \in 0 .. Len(lines) : HeadAt(i)
    BY <1>b, <2>4
  <2>8. HeadAt(i)' /\ i \in 0 .. Len(lines')
    BY <1>0, <2>2, <2>3, <2>4, <2>7 DEF HeadAt
  <2>9. (\E k \in 0 .. Len(lines) : HeadAt(k))'
    BY <2>8
  <2>10. /\ \A k \in 1 .. Len(lines') : lines'[k].kind = "event"
         /\ \A e \in logged' : \E k \in 1 .. synced' : lines'[k].id = e
    BY SMTT(30), <1>0, <1>b, <2>2, <2>3, <2>4
  <2>11. \A u \in Threads :
           /\ pc'[u] \in {"written", "synced"} =>
                Len(lines') > 0 /\ lines'[Len(lines')].id = event'[u].id
           /\ pc'[u] = "synced" => synced' = Len(lines')
    BY <1>0, <2>2, <2>5, <2>6
  <2> QED
    BY <2>4, <2>9, <2>10, <2>11 DEF LogInv
<1>4. ASSUME NEW t \in Threads, SyncLine(t) PROVE LogInv'
  <2>1. /\ lines' = lines /\ previous' = previous /\ logged' = logged /\ mode' = mode
        /\ event' = event /\ synced' = Len(lines) /\ pc' = [pc EXCEPT ![t] = "synced"]
        /\ pc[t] = "written"
    BY <1>4 DEF SyncLine, At, Goto
  <2>2. mode = "up" => (\E i \in 0 .. Len(lines) : HeadAt(i))'
    BY <1>b, <2>1 DEF HeadAt
  <2> QED
    BY <1>0, <1>b, <2>1, <2>2 DEF LogInv
<1>5. ASSUME NEW t \in Threads, Publish(t) PROVE LogInv'
  <2>1. /\ lines' = lines /\ previous' = event[t].id /\ logged' = logged \union {event[t].id}
        /\ mode' = mode /\ event' = event /\ synced' = synced
        /\ pc' = [pc EXCEPT ![t] = "idle"] /\ pc[t] = "synced"
    BY <1>5 DEF Publish, At, Goto, fileVars
  <2>2. synced = Len(lines) /\ Len(lines) > 0 /\ lines[Len(lines)].id = event[t].id
    BY <1>b, <2>1
  <2>3. HeadAt(Len(lines))'
    BY <1>0, <2>1, <2>2 DEF HeadAt
  <2>4. (\E k \in 0 .. Len(lines) : HeadAt(k))'
    BY <1>0, <2>1, <2>3
  <2>5. \A e \in logged' : \E k \in 1 .. synced' : lines'[k].id = e
    BY <1>0, <1>b, <2>1, <2>2
  <2> QED
    BY <1>0, <1>b, <2>1, <2>4, <2>5 DEF LogInv
<1>6. CASE Start
  <2>1. /\ lines' = lines /\ logged' = logged /\ mode' = "up" /\ event' = event
        /\ synced' = synced /\ pc' = pc
        /\ previous' = IF lines = << >> THEN Genesis ELSE lines[Len(lines)].id
    BY <1>6 DEF Start, fileVars, threadVars
  <2>2. HeadAt(Len(lines))'
    BY <1>0, <2>1 DEF HeadAt
  <2>3. (\E k \in 0 .. Len(lines) : HeadAt(k))'
    BY <1>0, <2>1, <2>2
  <2> QED
    BY <1>b, <2>1, <2>3 DEF LogInv
<1>7. CASE StartRefused
  BY <1>7, <1>b DEF StartRefused, Corrupt, Readable
<1>8. CASE Kill
  <2>1. lines' = lines /\ synced' = synced /\ logged' = logged /\ Stopped
    BY <1>8 DEF Kill
  <2> QED
    BY <1>b, <2>1, StoppedLog
<1>9. CASE PowerLoss
  <2>1. PICK n \in synced .. Len(lines) : lines' = SubSeq(lines, 1, n) /\ synced' = n
    BY <1>9 DEF PowerLoss
  <2>2. Len(lines') = n /\ \A i \in 1 .. n : lines'[i] = lines[i]
    BY <1>0, <2>1
  <2>3. \A i \in 1 .. Len(lines') : lines'[i].kind = "event"
    BY <1>0, <1>b, <2>1, <2>2
  <2>4. \A e \in logged : \E i \in 1 .. synced' : lines'[i].id = e
    BY <1>0, <1>b, <2>1, <2>2
  <2> QED
    BY <1>9, <2>3, <2>4, StoppedLog DEF PowerLoss
<1>10. CASE UNCHANGED vars
  BY <1>10, <1>a, QuietLog DEF vars, fileVars, threadVars
<1> QED
  BY <1>1, <1>2, <1>3, <1>4, <1>5, <1>6, <1>7, <1>8, <1>9, <1>10 DEF Next

----------------------------------------------------------------------------
(* The promises.                                                           *)

LEMMA Invariance == Spec => [](TypeInv /\ ChainInv /\ LogInv)
BY InitType, NextType, InitChain, NextChain, InitLog, NextLog, PTL DEF Spec

(* Types, and the lock is held by the thread that is inside it.            *)
THEOREM TypeCorrect == Spec => []TypeOK
<1>1. TypeInv => TypeOK
  BY DEF TypeInv
<1> QED
  BY <1>1, Invariance, PTL

(* The file is a tree of hashes up to the first line that cannot be read.  *)
THEOREM ChainStaysRooted == Spec => []ChainRooted
<1>1. ChainInv => ChainRooted
  BY DEF ChainInv, Rooted, Covered, ChainRooted
<1> QED
  BY <1>1, Invariance, PTL

(* The next event extends everything that was reported as logged.          *)
THEOREM HeadStaysLast == Spec => []HeadIsLast
<1>1. LogInv => HeadIsLast
  BY DEF LogInv, HeadAt, HeadIsLast
<1> QED
  BY <1>1, Invariance, PTL

(* What was reported as logged is read back, whenever the machine stops.   *)
THEOREM LoggedStaysReadable == Spec => []LoggedReadable
<1>1. TypeInv /\ LogInv => LoggedReadable
  <2> SUFFICES ASSUME TypeInv, LogInv, ~interrupted PROVE LoggedReadable
    BY DEF LoggedReadable
  <2>1. lines \in Seq(Lines) /\ synced \in 0 .. Len(lines)
    BY DEF TypeInv, TypeOK
  <2> QED
    BY <2>1 DEF LogInv, LoggedReadable, Readable
<1> QED
  BY <1>1, Invariance, PTL
=============================================================================
