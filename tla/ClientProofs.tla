----------------------------- MODULE ClientProofs -----------------------------
(***************************************************************************)
(* Proofs about ProtocolClient, for any number of threads, calls, retries  *)
(* and connections: every variable keeps its type, a call is dispatched at *)
(* most once for each attempt, and a client that is used by one call at a  *)
(* time returns no answer but the call's own.                              *)
(***************************************************************************)
EXTENDS ProtocolClient, FiniteSetTheorems, TLAPS

Conns == [open : BOOLEAN, served : BOOLEAN, requests : Seq(CallIds), responses : Seq(Response)]

Places == InLock \union {"idle", "stray", "acquire", "failed", "close", "clear", "retry"}

(* With the types, a thread inside call has begun one, and one that waits  *)
(* for a response has a connection.                                        *)
TypeInv ==
  /\ TypeOK
  /\ \A t \in Threads :
       /\ pc[t] \notin {"idle", "stray"} => number[t] > 0
       /\ pc[t] = "receive" => stream[t] # NoConn

----------------------------------------------------------------------------
(* Type correctness.                                                       *)

(* A change of one field of a connection gives a connection.               *)
LEMMA FieldsTyped ==
  ASSUME NEW A, NEW B,
         NEW c \in [open : BOOLEAN, served : BOOLEAN, requests : A, responses : B],
         NEW a \in A, NEW b \in B, NEW v \in BOOLEAN
  PROVE  /\ [c EXCEPT !.requests = a] \in
              [open : BOOLEAN, served : BOOLEAN, requests : A, responses : B]
         /\ [c EXCEPT !.responses = b] \in
              [open : BOOLEAN, served : BOOLEAN, requests : A, responses : B]
         /\ [c EXCEPT !.open = FALSE, !.responses = b, !.served = v] \in
              [open : BOOLEAN, served : BOOLEAN, requests : A, responses : B]
         /\ [c EXCEPT !.served = FALSE, !.requests = a, !.responses = b] \in
              [open : BOOLEAN, served : BOOLEAN, requests : A, responses : B]
OBVIOUS

(* The states of a connection are connections.                             *)
LEMMA ConnectionTypes ==
  /\ Connection \in Conns
  /\ \A c \in Conns :
       /\ Closed(c) \in Conns
       /\ \A q \in Seq(CallIds) : [c EXCEPT !.requests = q] \in Conns
       /\ \A q \in Seq(Response) : [c EXCEPT !.responses = q] \in Conns
       /\ [c EXCEPT !.served = FALSE, !.requests = << >>, !.responses = << >>] \in Conns
<1>1. << >> \in Seq(CallIds) /\ << >> \in Seq(Response)
  OBVIOUS
<1>2. Connection \in Conns
  BY <1>1 DEF Connection, Conns
<1>3. ASSUME NEW c \in Conns
      PROVE  /\ Closed(c) \in Conns
             /\ \A q \in Seq(CallIds) : [c EXCEPT !.requests = q] \in Conns
             /\ \A q \in Seq(Response) : [c EXCEPT !.responses = q] \in Conns
             /\ [c EXCEPT !.served = FALSE, !.requests = << >>, !.responses = << >>] \in Conns
  <2>1. (c.served /\ c.requests # << >>) \in BOOLEAN
    OBVIOUS
  <2>2. Closed(c) \in Conns
    BY <1>1, <2>1, FieldsTyped DEF Conns, Closed
  <2>3. \A q \in Seq(CallIds) : [c EXCEPT !.requests = q] \in Conns
    BY <1>1, FieldsTyped DEF Conns
  <2>4. \A q \in Seq(Response) : [c EXCEPT !.responses = q] \in Conns
    BY <1>1, FieldsTyped DEF Conns
  <2>5. [c EXCEPT !.served = FALSE, !.requests = << >>, !.responses = << >>] \in Conns
    BY <1>1, FieldsTyped DEF Conns
  <2> QED BY <2>2, <2>3, <2>4, <2>5
<1> QED BY <1>2, <1>3

(* The initial state is typed.                                             *)
LEMMA InitType == Init => TypeInv
<1> SUFFICES ASSUME Init PROVE TypeInv
  OBVIOUS
<1>1. sock \in 0 .. Len(conns) /\ conns \in Seq(Conns) /\ lock \in Threads \union {NoThread}
  BY DEF Init, NoConn
<1>2. /\ number \in [Threads -> 0 .. Calls] /\ attempt \in [Threads -> 1 .. Retries + 1]
      /\ stream \in [Threads -> 0 .. Len(conns)] /\ pc \in [Threads -> Places]
      /\ idempotent \in [Threads -> BOOLEAN]
  BY CallsAssumption, RetriesAssumption DEF Init, NoConn, Places
<1>3. /\ result \in [Threads -> Response \union {NoResponse}]
      /\ executed \in [CallIds -> Nat] /\ overlapped \in BOOLEAN
  BY DEF Init
<1>4. \A t \in Threads : pc[t] = "idle" /\ lock # t
  BY ThreadsAssumption DEF Init
<1> QED
  BY <1>1, <1>2, <1>3, <1>4 DEF TypeInv, TypeOK, Conns, Places, InLock

(* The part of the invariant about control, for a step of one thread.      *)
LEMMA LockKept ==
  ASSUME TypeInv, NEW t \in Threads, NEW l \in Places, Goto(t, l),
         \/ l \in InLock /\ lock' = t /\ lock \in {t, NoThread}
         \/ l \notin InLock /\ lock' = NoThread /\ lock \in {t, NoThread}
         \/ l \notin InLock /\ lock # t /\ lock' = lock
  PROVE  /\ pc' \in [Threads -> Places] /\ lock' \in Threads \union {NoThread}
         /\ \A u \in Threads : pc'[u] \in InLock <=> lock' = u
<1>1. /\ pc \in [Threads -> Places] /\ lock \in Threads \union {NoThread}
      /\ \A u \in Threads : pc[u] \in InLock <=> lock = u
  BY DEF TypeInv, TypeOK, Places
<1>2. pc' = [pc EXCEPT ![t] = l]
  BY DEF Goto
<1> QED
  BY <1>1, <1>2, ThreadsAssumption

(* Each step keeps the types.                                              *)
LEMMA NextType == TypeInv /\ [Next]_vars => TypeInv'
<1> SUFFICES ASSUME TypeInv, [Next]_vars PROVE TypeInv'
  OBVIOUS
<1>1. /\ sock \in 0 .. Len(conns) /\ conns \in Seq(Conns) /\ Len(conns) \in Nat
      /\ pc \in [Threads -> Places] /\ lock \in Threads \union {NoThread}
      /\ number \in [Threads -> 0 .. Calls] /\ idempotent \in [Threads -> BOOLEAN]
      /\ attempt \in [Threads -> 1 .. Retries + 1] /\ stream \in [Threads -> 0 .. Len(conns)]
      /\ result \in [Threads -> Response \union {NoResponse}]
      /\ executed \in [CallIds -> Nat] /\ overlapped \in BOOLEAN
      /\ Calls \in Nat /\ Retries \in Nat
  BY CallsAssumption, RetriesAssumption DEF TypeInv, TypeOK, Conns, Places
<1>2. \A u \in Threads :
        /\ pc[u] \in InLock <=> lock = u
        /\ pc[u] \notin {"idle", "stray"} => number[u] > 0
        /\ pc[u] = "receive" => stream[u] # NoConn
  BY DEF TypeInv, TypeOK
<1>s. sock \in 0 .. Len(conns) /\ conns \in Seq(Conns) /\ Len(conns) \in Nat
  BY <1>1
<1>n. \A u \in Threads :
        /\ number[u] \in 0 .. Calls /\ attempt[u] \in 1 .. Retries + 1
        /\ Calls \in Nat /\ Retries \in Nat
  BY <1>1
<1> DEFINE Typed ==
      /\ sock' \in 0 .. Len(conns') /\ conns' \in Seq(Conns)
      /\ number' \in [Threads -> 0 .. Calls] /\ idempotent' \in [Threads -> BOOLEAN]
      /\ attempt' \in [Threads -> 1 .. Retries + 1] /\ stream' \in [Threads -> 0 .. Len(conns')]
      /\ result' \in [Threads -> Response \union {NoResponse}]
      /\ executed' \in [CallIds -> Nat] /\ overlapped' \in BOOLEAN
    Controlled ==
      /\ pc' \in [Threads -> Places] /\ lock' \in Threads \union {NoThread}
      /\ \A u \in Threads : pc'[u] \in InLock <=> lock' = u
    Begun ==
      \A u \in Threads :
        /\ pc'[u] \notin {"idle", "stray"} => number'[u] > 0
        /\ pc'[u] = "receive" => stream'[u] # NoConn
<1>3. SUFFICES Typed /\ Controlled /\ Begun
  BY DEF TypeInv, TypeOK, Conns, Places
<1>4. CASE \E t \in Threads : Begin(t)
  <2>1. PICK t \in Threads : Begin(t)
    BY <1>4
  <2>2. Typed
    BY SMTT(40), <1>1, <2>1 DEF Begin, clientVars
  <2>3. Controlled
    BY <1>1, <1>2, <2>1, LockKept DEF Begin, clientVars, Places, InLock
  <2>4. Begun
    BY <1>1, <1>2, <2>1 DEF Begin, Goto
  <2> QED BY <2>2, <2>3, <2>4
<1>5. CASE \E t \in Threads : Acquire(t) \/ Connected(t) \/ CheckSocket(t) \/ Retry(t)
  <2>1. PICK t \in Threads : Acquire(t) \/ Connected(t) \/ CheckSocket(t) \/ Retry(t)
    BY <1>5
  <2>2. /\ UNCHANGED <<sock, conns, number, idempotent, stream, result, executed, overlapped>>
        /\ pc[t] \notin {"idle", "stray"}
        /\ \E l \in Places \ {"receive"} : Goto(t, l)
    BY <2>1 DEF Acquire, Connected, CheckSocket, Retry, clientVars, Places, InLock
  <2>3. attempt' \in [Threads -> 1 .. Retries + 1]
    <3>1. CASE Retry(t)
      <4>1. \/ attempt' = attempt
            \/ ~(attempt[t] >= Attempts(t)) /\ attempt' = [attempt EXCEPT ![t] = @ + 1]
        BY <3>1 DEF Retry
      <4>2. Attempts(t) \in 1 .. Retries + 1 /\ attempt[t] \in 1 .. Retries + 1
        BY <1>n DEF Attempts
      <4>3. ~(attempt[t] >= Attempts(t)) => attempt[t] + 1 \in 1 .. Retries + 1
        BY <1>n, <4>2
      <4> QED BY <1>1, <4>1, <4>3
    <3>2. CASE ~Retry(t)
      BY <1>1, <2>1, <3>2 DEF Acquire, Connected, CheckSocket
    <3> QED BY <3>1, <3>2
  <2>4. Typed
    BY <1>1, <2>2, <2>3
  <2>5. Controlled
    <3>1. CASE Acquire(t) \/ Connected(t)
      BY <1>1, <1>2, <3>1, LockKept DEF Acquire, Connected, clientVars, Places, InLock
    <3>2. CASE CheckSocket(t) \/ Retry(t)
      BY <1>1, <1>2, <3>2, LockKept DEF CheckSocket, Retry, clientVars, Places, InLock
    <3> QED BY <2>1, <3>1, <3>2
  <2>6. Begun
    BY <1>1, <1>2, <2>2 DEF Goto
  <2> QED BY <2>4, <2>5, <2>6
<1>6. CASE \E t \in Threads : Connect(t)
  <2>1. PICK t \in Threads : Connect(t)
    BY <1>6
  <2>2. UNCHANGED <<number, idempotent, attempt, stream, result, executed, overlapped>>
    BY <2>1 DEF Connect
  <2>3. /\ sock' \in 0 .. Len(conns') /\ conns' \in Seq(Conns)
        /\ Len(conns') \in {Len(conns), Len(conns) + 1}
    <3>0. Connection \in Conns
      BY ConnectionTypes
    <3>1. Len(Append(conns, Connection)) = Len(conns) + 1
          /\ Append(conns, Connection) \in Seq(Conns)
      BY <1>s, <3>0
    <3>2. \/ sock' = sock /\ conns' = conns
          \/ conns' = Append(conns, Connection) /\ sock' = Len(conns) + 1
      BY <2>1 DEF Connect
    <3> QED BY <1>s, <3>1, <3>2
  <2>4. Typed
    BY SMTT(40), <1>1, <2>2, <2>3
  <2>5. Controlled
    BY <1>1, <1>2, <2>1, LockKept DEF Connect, Fails, Places, InLock
  <2>6. Begun
    BY <1>1, <1>2, <2>1, <2>2 DEF Connect, Fails, Goto
  <2> QED BY <2>4, <2>5, <2>6
<1>7. CASE \E t \in Threads : Send(t)
  <2>1. PICK t \in Threads : Send(t)
    BY <1>7
  <2>2. UNCHANGED <<sock, number, idempotent, attempt, stream, result, executed, overlapped>>
        /\ pc[t] = "send"
    BY <2>1 DEF Send
  <2>3. Current(t) \in CallIds
    <3>1. number[t] \in 1 .. Calls
      BY <1>n, <1>2, <2>2
    <3> QED BY <3>1 DEF Current, CallIds
  <2>4. conns' \in Seq(Conns) /\ Len(conns') = Len(conns)
    <3>1. ASSUME sock # NoConn
          PROVE  [conns EXCEPT ![sock].requests = Append(@, Current(t))] \in Seq(Conns)
      <4>1. sock \in 1 .. Len(conns) /\ conns[sock] \in Conns
        BY <1>1, <3>1 DEF NoConn
      <4>2. [conns[sock] EXCEPT !.requests = Append(@, Current(t))] \in Conns
        <5>1. Append(conns[sock].requests, Current(t)) \in Seq(CallIds)
          BY <2>3, <4>1 DEF Conns
        <5> QED BY <4>1, <5>1, ConnectionTypes
      <4> QED BY <1>1, <4>1, <4>2
    <3>2. conns' = conns
          \/ (sock # NoConn /\ conns' = [conns EXCEPT ![sock].requests = Append(@, Current(t))])
      BY <2>1 DEF Send
    <3>3. Len([conns EXCEPT ![sock].requests = Append(@, Current(t))]) = Len(conns)
      BY <1>1
    <3> QED BY <1>1, <3>1, <3>2, <3>3
  <2>5. Typed
    BY <1>1, <2>2, <2>4
  <2>6. Controlled
    BY <1>1, <1>2, <2>1, LockKept DEF Send, Fails, Stray, Places, InLock
  <2>7. Begun
    BY <1>1, <1>2, <2>1, <2>2 DEF Send, Fails, Stray, Goto
  <2> QED BY <2>5, <2>6, <2>7
<1>8. CASE \E t \in Threads : Decode(t) \/ ReceiveFails(t)
  <2>1. PICK t \in Threads : Decode(t) \/ ReceiveFails(t)
    BY <1>8
  <2>2. UNCHANGED <<sock, conns, number, idempotent, attempt, result, executed, overlapped>>
    BY <2>1 DEF Decode, ReceiveFails
  <2>3. stream' \in [Threads -> 0 .. Len(conns)]
    BY <1>1, <2>1 DEF Decode, ReceiveFails, NoConn
  <2>4. Typed
    BY <1>1, <2>2, <2>3
  <2>5. Controlled
    BY <1>1, <1>2, <2>1, LockKept DEF Decode, ReceiveFails, Fails, Stray, Places, InLock
  <2>6. Begun
    BY <1>1, <1>2, <2>1, <2>2 DEF Decode, ReceiveFails, Fails, Stray, Goto
  <2> QED BY <2>4, <2>5, <2>6
<1>9. CASE \E t \in Threads : Receive(t)
  <2>1. PICK t \in Threads : Receive(t)
    BY <1>9
  <2> DEFINE k == stream[t]
             c == conns[k]
  <2>2. /\ k \in 1 .. Len(conns) /\ c \in Conns /\ c.responses # << >>
        /\ UNCHANGED <<sock, number, idempotent, attempt, executed, overlapped>>
        /\ conns' = [conns EXCEPT ![k].responses = Tail(@)]
    BY <1>1, <1>2, <2>1 DEF Receive, NoConn
  <2>3. Head(c.responses) \in Response /\ Tail(c.responses) \in Seq(Response)
    BY <2>2 DEF Conns
  <2>4. [c EXCEPT !.responses = Tail(@)] \in Conns
    BY <2>2, <2>3, ConnectionTypes
  <2>5. conns' \in Seq(Conns) /\ Len(conns') = Len(conns)
    BY <1>1, <2>2, <2>4
  <2>6. result' \in [Threads -> Response \union {NoResponse}]
        /\ stream' \in [Threads -> 0 .. Len(conns)]
    <3>1. /\ result' \in {result, [result EXCEPT ![t] = Head(c.responses)]}
          /\ stream' = [stream EXCEPT ![t] = NoConn]
      BY <2>1 DEF Receive
    <3>2. result' \in [Threads -> Response \union {NoResponse}]
      BY <1>1, <2>3, <3>1
    <3>3. NoConn \in 0 .. Len(conns)
      BY <1>s DEF NoConn
    <3> QED BY <1>1, <3>1, <3>2, <3>3
  <2>7. Typed
    BY <1>1, <2>2, <2>5, <2>6
  <2>8. Controlled
    BY <1>1, <1>2, <2>1, LockKept DEF Receive, Fails, Places, InLock
  <2>9. Begun
    BY <1>1, <1>2, <2>1, <2>2 DEF Receive, Fails, Goto
  <2> QED BY <2>7, <2>8, <2>9
<1>10. CASE \E t \in Threads : CloseSocket(t) \/ ClearSocket(t)
  <2>1. PICK t \in Threads : CloseSocket(t) \/ ClearSocket(t)
    BY <1>10
  <2>2. UNCHANGED <<number, idempotent, attempt, stream, result, executed, overlapped>>
        /\ sock' \in {sock, NoConn}
    BY <2>1 DEF CloseSocket, ClearSocket
  <2>3. conns' \in Seq(Conns) /\ Len(conns') = Len(conns)
    <3>1. CASE sock # NoConn
      <4>0. sock \in 1 .. Len(conns) /\ conns[sock] \in Conns
        BY <1>s, <3>1 DEF NoConn
      <4>1. sock \in 1 .. Len(conns) /\ Closed(conns[sock]) \in Conns
        BY <4>0, ConnectionTypes
      <4>2. conns' = conns \/ conns' = [conns EXCEPT ![sock] = Closed(conns[sock])]
        BY <2>1 DEF CloseSocket, ClearSocket
      <4>3. /\ [conns EXCEPT ![sock] = Closed(conns[sock])] \in Seq(Conns)
            /\ Len([conns EXCEPT ![sock] = Closed(conns[sock])]) = Len(conns)
        BY <1>1, <4>1
      <4> QED BY <1>1, <4>2, <4>3
    <3>2. CASE sock = NoConn
      BY <1>1, <2>1, <3>2 DEF CloseSocket, ClearSocket
    <3> QED BY <3>1, <3>2
  <2>4. Typed
    BY <1>1, <2>2, <2>3 DEF NoConn
  <2>5. Controlled
    BY <1>1, <1>2, <2>1, LockKept DEF CloseSocket, ClearSocket, Stray, Places, InLock
  <2>6. Begun
    BY <1>1, <1>2, <2>1, <2>2 DEF CloseSocket, ClearSocket, Stray, Goto
  <2> QED BY <2>4, <2>5, <2>6
<1>11. CASE \E k \in 1 .. Len(conns) : Handle(k) \/ LoseConnection(k)
  <2>1. PICK k \in 1 .. Len(conns) : Handle(k) \/ LoseConnection(k)
    BY <1>11
  <2>2. UNCHANGED <<clientVars, threadVars, overlapped>>
    BY <2>1 DEF Handle, LoseConnection
  <2>3. conns[k] \in Conns
    BY <1>1
  <2>4. conns' \in Seq(Conns) /\ Len(conns') = Len(conns) /\ executed' \in [CallIds -> Nat]
    <3>1. CASE Handle(k)
      <4> DEFINE r == Head(conns[k].requests)
                 rest == [conns[k] EXCEPT !.requests = Tail(@)]
      <4>0. r \in CallIds /\ Tail(conns[k].requests) \in Seq(CallIds)
        BY <2>3, <3>1 DEF Handle, Conns
      <4>1. r \in CallIds /\ rest \in Conns
        BY <2>3, <4>0, ConnectionTypes
      <4>2. ASSUME NEW ok \in BOOLEAN
            PROVE  [rest EXCEPT !.responses = Append(@, [call |-> r, ok |-> ok])] \in Conns
        <5>1. [call |-> r, ok |-> ok] \in Response /\ rest.responses \in Seq(Response)
          BY <4>1 DEF Conns, Response
        <5>2. Append(rest.responses, [call |-> r, ok |-> ok]) \in Seq(Response)
          BY <5>1
        <5> QED BY <4>1, <5>2, ConnectionTypes
      <4>3. Closed(rest) \in Conns
        BY <4>1, ConnectionTypes
      <4>4. \E c \in Conns : conns' = [conns EXCEPT ![k] = c]
        BY <3>1, <4>2, <4>3 DEF Handle
      <4>5. executed' = [executed EXCEPT ![r] = @ + 1]
        BY <3>1 DEF Handle
      <4> QED BY <1>1, <4>1, <4>4, <4>5
    <3>2. CASE LoseConnection(k)
      <4>1. [conns[k] EXCEPT !.served = FALSE, !.requests = << >>, !.responses = << >>] \in Conns
        BY <2>3, ConnectionTypes
      <4>2. conns' = [conns EXCEPT ![k] = [conns[k] EXCEPT !.served = FALSE, !.requests = << >>,
                                                            !.responses = << >>]]
        BY <1>1, <3>2 DEF LoseConnection
      <4>3. executed' = executed
        BY <3>2 DEF LoseConnection
      <4> QED BY <1>1, <4>1, <4>2, <4>3
    <3> QED BY <2>1, <3>1, <3>2
  <2> QED BY <1>1, <1>2, <2>2, <2>4 DEF clientVars, threadVars
<1>12. CASE UNCHANGED vars
  BY <1>1, <1>2, <1>12 DEF vars, clientVars, threadVars
<1> QED
  BY <1>4, <1>5, <1>6, <1>7, <1>8, <1>9, <1>10, <1>11, <1>12 DEF Next, ThreadStep

(* The types, for every step of every thread.                              *)
LEMMA Typing == Spec => []TypeInv
BY InitType, NextType, PTL DEF Spec

(* Every variable keeps its type, and exactly the thread in the locked     *)
(* part of call holds the lock.                                            *)
THEOREM TypeCorrect == Spec => []TypeOK
<1>1. TypeInv => TypeOK
  BY DEF TypeInv
<1> QED BY <1>1, Typing, PTL

----------------------------------------------------------------------------
(* Executions.  What a call may still cause is the number of connections   *)
(* on which its request waits.  A thread never sends a request twice on a  *)
(* connection, because it makes its next attempt only after the connection *)
(* of the last is not that of the client any more.                         *)

In(c, q)   == \E i \in 1 .. Len(q) : q[i] = c
Once(q)    == \A i, j \in 1 .. Len(q) : q[i] = q[j] => i = j
Waiting(cs, c) == {k \in 1 .. Len(cs) : In(c, cs[k].requests)}

(* Attempts that may have sent the request of the current call.            *)
Made(place, a) == IF place \in {"acquire", "connect", "send"} THEN a - 1 ELSE a

BeforeSend == {"acquire", "connect", "send", "retry"}

CountInv ==
  /\ \A k \in 1 .. Len(conns) : Once(conns[k].requests)
  /\ \A t \in Threads :
       /\ pc[t] \in BeforeSend /\ sock # NoConn => ~In(Current(t), conns[sock].requests)
       /\ \A n \in number[t] + 1 .. Calls : executed[<<t, n>>] = 0 /\ Waiting(conns, <<t, n>>) = {}
       /\ number[t] > 0 =>
            executed[Current(t)] + Cardinality(Waiting(conns, Current(t)))
              <= Made(pc[t], attempt[t])
       /\ attempt[t] <= Attempts(t)

(* A request at the end of a queue it is not in.                           *)
LEMMA AppendOnce ==
  ASSUME NEW S, NEW q \in Seq(S), NEW d \in S, Once(q), ~In(d, q)
  PROVE  /\ Once(Append(q, d))
         /\ \A c : In(c, Append(q, d)) <=> In(c, q) \/ c = d
<1>1. /\ Len(Append(q, d)) = Len(q) + 1 /\ Len(q) \in Nat /\ Append(q, d)[Len(q) + 1] = d
      /\ \A i \in 1 .. Len(q) : Append(q, d)[i] = q[i]
  OBVIOUS
<1>2. 1 .. Len(q) + 1 = (1 .. Len(q)) \union {Len(q) + 1}
  BY <1>1
<1>3. Once(Append(q, d))
  BY <1>1, <1>2 DEF Once, In
<1>4. \A c : In(c, Append(q, d)) <=> In(c, q) \/ c = d
  BY <1>1, <1>2 DEF In
<1> QED BY <1>3, <1>4

(* The rest of a queue.                                                    *)
LEMMA TailOnce ==
  ASSUME NEW S, NEW q \in Seq(S), q # << >>, Once(q)
  PROVE  /\ Once(Tail(q)) /\ In(Head(q), q) /\ ~In(Head(q), Tail(q))
         /\ \A c : In(c, q) <=> In(c, Tail(q)) \/ c = Head(q)
<1>1. /\ Len(q) \in Nat \ {0} /\ Len(Tail(q)) = Len(q) - 1 /\ Head(q) = q[1]
      /\ \A i \in 1 .. Len(q) - 1 : Tail(q)[i] = q[i + 1]
  OBVIOUS
<1>2. \A i \in 1 .. Len(q) : i = 1 \/ i - 1 \in 1 .. Len(q) - 1
  BY <1>1
<1>3. \A i \in 1 .. Len(q) - 1 : i + 1 \in 1 .. Len(q) /\ i + 1 # 1
  BY <1>1
<1>4. 1 \in 1 .. Len(q)
  BY <1>1
<1>5. Once(Tail(q))
  <2> SUFFICES ASSUME NEW i \in 1 .. Len(q) - 1, NEW j \in 1 .. Len(q) - 1,
                      q[i + 1] = q[j + 1]
               PROVE  i = j
    BY <1>1 DEF Once
  <2>1. i + 1 = j + 1
    BY <1>3 DEF Once
  <2> QED BY <2>1
<1>6. ~In(Head(q), Tail(q))
  <2> SUFFICES ASSUME NEW i \in 1 .. Len(q) - 1, q[i + 1] = q[1] PROVE FALSE
    BY <1>1 DEF In
  <2>1. i + 1 = 1
    BY <1>3, <1>4 DEF Once
  <2> QED BY <1>3, <2>1
<1>7. In(Head(q), q)
  BY <1>1, <1>4 DEF In
<1>8. ASSUME NEW c PROVE In(c, q) <=> In(c, Tail(q)) \/ c = Head(q)
  <2>1. ASSUME NEW i \in 1 .. Len(q), q[i] = c PROVE In(c, Tail(q)) \/ c = Head(q)
    <3>1. CASE i = 1
      BY <1>1, <2>1, <3>1
    <3>2. CASE i # 1
      <4>1. i - 1 \in 1 .. Len(Tail(q)) /\ Tail(q)[i - 1] = q[i]
        BY <1>1, <1>2, <3>2
      <4> QED BY <2>1, <4>1 DEF In
    <3> QED BY <3>1, <3>2
  <2>2. ASSUME NEW i \in 1 .. Len(Tail(q)), Tail(q)[i] = c PROVE In(c, q)
    BY <1>1, <1>3, <2>2 DEF In
  <2> QED BY <1>7, <2>1, <2>2 DEF In
<1> QED BY <1>5, <1>6, <1>7, <1>8

(* The connections on which a request waits are finitely many.             *)
LEMMA WaitingFinite ==
  ASSUME TypeInv, NEW c
  PROVE  IsFiniteSet(Waiting(conns, c)) /\ Cardinality(Waiting(conns, c)) \in Nat
<1>1. Len(conns) \in Nat
  BY DEF TypeInv, TypeOK
<1>2. IsFiniteSet(1 .. Len(conns))
  BY <1>1, FS_Interval
<1>3. IsFiniteSet(Waiting(conns, c))
  BY <1>2, FS_Subset DEF Waiting
<1> QED BY <1>3, FS_CardinalityType

(* Steps that send and execute nothing: queues stay or are emptied, and    *)
(* attempts are only counted.                                              *)
LEMMA QuietStep ==
  ASSUME TypeInv, CountInv, UNCHANGED <<executed, number, idempotent>>,
         sock' \in {sock, NoConn}, Len(conns') = Len(conns),
         \A k \in 1 .. Len(conns) : conns'[k].requests \in {conns[k].requests, << >>},
         \A t \in Threads :
           /\ pc'[t] \in BeforeSend => pc[t] \in BeforeSend \/ sock' = NoConn
           /\ Made(pc'[t], attempt'[t]) \in Int
           /\ Made(pc[t], attempt[t]) <= Made(pc'[t], attempt'[t])
           /\ attempt'[t] <= Attempts(t)
  PROVE  CountInv'
<1>1. Once(<< >>) /\ \A c : ~In(c, << >>)
  BY DEF Once, In
<1>2. \A k \in 1 .. Len(conns') : Once(conns'[k].requests)
  BY <1>1 DEF CountInv
<1>3. \A t \in Threads : Current(t)' = Current(t) /\ Attempts(t)' = Attempts(t)
  BY DEF Current, Attempts
<1>4. ASSUME NEW c PROVE Waiting(conns', c) \subseteq Waiting(conns, c)
  BY <1>1 DEF Waiting
<1>5. ASSUME NEW c
      PROVE  /\ Cardinality(Waiting(conns', c)) <= Cardinality(Waiting(conns, c))
             /\ Cardinality(Waiting(conns', c)) \in Nat /\ Cardinality(Waiting(conns, c)) \in Nat
  <2>1. IsFiniteSet(Waiting(conns, c)) /\ Cardinality(Waiting(conns, c)) \in Nat
    BY WaitingFinite
  <2>2. /\ Cardinality(Waiting(conns', c)) <= Cardinality(Waiting(conns, c))
        /\ IsFiniteSet(Waiting(conns', c))
    BY <1>4, <2>1, FS_Subset
  <2>3. Cardinality(Waiting(conns', c)) \in Nat
    BY <2>2, FS_CardinalityType
  <2> QED BY <2>1, <2>2, <2>3
<1>6. ASSUME NEW t \in Threads, pc'[t] \in BeforeSend, sock' # NoConn
      PROVE  ~In(Current(t), conns'[sock'].requests)
  <2>1. sock' = sock /\ pc[t] \in BeforeSend /\ sock \in 1 .. Len(conns)
    BY <1>6 DEF TypeInv, TypeOK, NoConn
  <2> QED BY <1>1, <1>6, <2>1 DEF CountInv
<1>7. ASSUME NEW t \in Threads, NEW n \in number'[t] + 1 .. Calls
      PROVE  executed'[<<t, n>>] = 0 /\ Waiting(conns', <<t, n>>) = {}
  BY <1>4 DEF CountInv
<1>8. ASSUME NEW t \in Threads, number'[t] > 0
      PROVE  executed'[Current(t)'] + Cardinality(Waiting(conns', Current(t)'))
               <= Made(pc'[t], attempt'[t])
  <2>1. number[t] \in 1 .. Calls /\ Current(t) \in CallIds /\ executed[Current(t)] \in Nat
    <3>1. number[t] \in 1 .. Calls
      BY <1>8 DEF TypeInv, TypeOK
    <3>2. Current(t) \in CallIds
      BY <3>1 DEF Current, CallIds
    <3> QED BY <3>1, <3>2 DEF TypeInv, TypeOK
  <2>2. executed[Current(t)] + Cardinality(Waiting(conns, Current(t))) <= Made(pc[t], attempt[t])
    BY <1>8 DEF CountInv
  <2>3. Made(pc[t], attempt[t]) \in Int
    BY DEF TypeInv, TypeOK, Made
  <2>4. Cardinality(Waiting(conns', Current(t))) <= Cardinality(Waiting(conns, Current(t)))
        /\ Cardinality(Waiting(conns', Current(t))) \in Nat
        /\ Cardinality(Waiting(conns, Current(t))) \in Nat
    BY <1>5
  <2>5. executed[Current(t)] + Cardinality(Waiting(conns', Current(t))) <= Made(pc'[t], attempt'[t])
    BY <2>1, <2>2, <2>3, <2>4
  <2> QED BY <1>3, <2>5
<1>9. \A t \in Threads : attempt'[t] <= Attempts(t)'
  BY <1>3
<1> QED BY <1>2, <1>3, <1>6, <1>7, <1>8, <1>9 DEF CountInv

(* A quiet step of one thread, to place l with a attempts begun.           *)
LEMMA QuietThread ==
  ASSUME TypeInv, CountInv, NEW t \in Threads, NEW l, Goto(t, l), NEW a \in Nat,
         UNCHANGED <<executed, number, idempotent>>, attempt' = [attempt EXCEPT ![t] = a],
         sock' \in {sock, NoConn}, Len(conns') = Len(conns),
         \A k \in 1 .. Len(conns) : conns'[k].requests \in {conns[k].requests, << >>},
         Made(pc[t], attempt[t]) <= Made(l, a), a <= Attempts(t),
         l \in BeforeSend => pc[t] \in BeforeSend \/ sock' = NoConn
  PROVE  CountInv'
<1>1. /\ DOMAIN pc = Threads /\ DOMAIN attempt = Threads
      /\ \A u \in Threads : attempt[u] \in Nat /\ attempt[u] <= Attempts(u)
  BY RetriesAssumption DEF TypeInv, TypeOK, CountInv
<1>2. pc'[t] = l /\ attempt'[t] = a
  BY <1>1 DEF Goto
<1>3. \A u \in Threads \ {t} : pc'[u] = pc[u] /\ attempt'[u] = attempt[u]
  BY <1>1 DEF Goto
<1>4. ASSUME NEW u \in Threads
      PROVE  /\ pc'[u] \in BeforeSend => pc[u] \in BeforeSend \/ sock' = NoConn
             /\ Made(pc'[u], attempt'[u]) \in Int
             /\ Made(pc[u], attempt[u]) <= Made(pc'[u], attempt'[u])
             /\ attempt'[u] <= Attempts(u)
  <2>1. CASE u = t
    BY <1>2, <2>1 DEF Made
  <2>2. CASE u # t
    <3>1. Made(pc[u], attempt[u]) \in Int
      BY <1>1 DEF Made
    <3>2. Made(pc[u], attempt[u]) <= Made(pc[u], attempt[u])
      BY <3>1
    <3> QED BY <1>1, <1>3, <2>2, <3>1, <3>2
  <2> QED BY <2>1, <2>2
<1> QED BY <1>4, QuietStep

(* Attempts are natural numbers.                                           *)
LEMMA AttemptTypes ==
  ASSUME TypeInv, NEW t \in Threads
  PROVE  /\ attempt[t] \in Nat /\ attempt = [attempt EXCEPT ![t] = attempt[t]]
         /\ \A place : Made(place, attempt[t]) \in Int /\ Made(place, attempt[t]) <= attempt[t]
         /\ \A place : Made(place, attempt[t]) <= Made(place, attempt[t])
<1>1. attempt \in [Threads -> 1 .. Retries + 1]
  BY DEF TypeInv, TypeOK
<1>2. attempt[t] \in Nat
  BY <1>1, RetriesAssumption
<1>3. \A place : Made(place, attempt[t]) \in Int /\ Made(place, attempt[t]) <= attempt[t]
  BY <1>2 DEF Made
<1>4. \A place : Made(place, attempt[t]) <= Made(place, attempt[t])
  BY <1>3
<1> QED BY <1>1, <1>2, <1>3, <1>4

(* What the types say of the connections and of the counters.              *)
LEMMA BasicTypes ==
  ASSUME TypeInv
  PROVE  /\ conns \in Seq(Conns) /\ Len(conns) \in Nat /\ sock \in 0 .. Len(conns)
         /\ \A k \in 1 .. Len(conns) : conns[k] \in Conns /\ conns[k].requests \in Seq(CallIds)
         /\ sock # NoConn => sock \in 1 .. Len(conns)
         /\ pc \in [Threads -> Places] /\ number \in [Threads -> 0 .. Calls]
         /\ attempt \in [Threads -> 1 .. Retries + 1] /\ idempotent \in [Threads -> BOOLEAN]
         /\ executed \in [CallIds -> Nat]
<1>1. /\ pc \in [Threads -> Places] /\ number \in [Threads -> 0 .. Calls]
      /\ attempt \in [Threads -> 1 .. Retries + 1] /\ idempotent \in [Threads -> BOOLEAN]
      /\ executed \in [CallIds -> Nat] /\ sock \in 0 .. Len(conns)
  BY DEF TypeInv, TypeOK, Places
<1>2. conns \in Seq(Conns)
  BY DEF TypeInv, TypeOK, Conns
<1>3. Len(conns) \in Nat /\ \A k \in 1 .. Len(conns) : conns[k] \in Conns
  BY <1>2
<1>4. \A c \in Conns : c.requests \in Seq(CallIds)
  BY DEF Conns
<1>5. sock # NoConn => sock \in 1 .. Len(conns)
  BY <1>1, <1>3 DEF NoConn
<1> QED BY <1>1, <1>2, <1>3, <1>4, <1>5

(* Closing a connection leaves its requests to the handler.                *)
LEMMA ClosedRequests ==
  ASSUME NEW k \in 1 .. Len(conns), conns \in Seq(Conns)
  PROVE  /\ Len([conns EXCEPT ![k] = Closed(@)]) = Len(conns)
         /\ \A j \in 1 .. Len(conns) :
              [conns EXCEPT ![k] = Closed(@)][j].requests = conns[j].requests
<1>1. conns[k] \in Conns
  OBVIOUS
<1>2. Closed(conns[k]).requests = conns[k].requests
  BY <1>1 DEF Closed, Conns
<1> QED BY <1>2

(* Steps of a thread that do not send, but may move on.                    *)
LEMMA ThreadCounts ==
  ASSUME TypeInv, CountInv, NEW t \in Threads,
         \/ Acquire(t) \/ Connected(t) \/ Decode(t) \/ Receive(t) \/ ReceiveFails(t)
         \/ CheckSocket(t) \/ CloseSocket(t) \/ ClearSocket(t) \/ Retry(t)
  PROVE  CountInv'
<1>1. /\ conns \in Seq(Conns) /\ Len(conns) \in Nat /\ sock \in 0 .. Len(conns)
  BY DEF TypeInv, TypeOK, Conns
<1>2. /\ attempt[t] \in Nat /\ attempt = [attempt EXCEPT ![t] = attempt[t]]
      /\ attempt[t] <= Attempts(t)
      /\ \A place : Made(place, attempt[t]) \in Int /\ Made(place, attempt[t]) <= attempt[t]
      /\ \A place : Made(place, attempt[t]) <= Made(place, attempt[t])
  BY AttemptTypes DEF CountInv
<1>3. CASE Acquire(t) \/ Connected(t)
  <2>1. PICK l \in {"connect", "send"} : Goto(t, l)
    BY <1>3 DEF Acquire, Connected
  <2>2. /\ UNCHANGED <<executed, number, idempotent, attempt, sock, conns>>
        /\ pc[t] \in {"acquire", "connect"}
    BY <1>3 DEF Acquire, Connected, clientVars
  <2>3. Made(pc[t], attempt[t]) <= Made(l, attempt[t])
    BY <1>2, <2>2 DEF Made
  <2> QED BY <1>2, <2>1, <2>2, <2>3, QuietThread DEF BeforeSend
<1>4. CASE Decode(t) \/ ReceiveFails(t)
  <2>1. PICK l \in {"receive", "failed", "stray"} : Goto(t, l)
    BY <1>4 DEF Decode, ReceiveFails, Stray, Fails
  <2>2. UNCHANGED <<executed, number, idempotent, attempt, sock, conns>>
    BY <1>4 DEF Decode, ReceiveFails
  <2>3. Made(pc[t], attempt[t]) <= Made(l, attempt[t])
    BY <1>2, <2>1 DEF Made
  <2> QED BY <1>2, <2>1, <2>2, <2>3, QuietThread DEF BeforeSend
<1>5. CASE Receive(t)
  <2>1. PICK l \in {"idle", "failed"} : Goto(t, l)
    BY <1>5 DEF Receive, Fails
  <2>2. /\ UNCHANGED <<executed, number, idempotent, attempt, sock>>
        /\ conns' = [conns EXCEPT ![stream[t]].responses = Tail(@)]
    BY <1>5 DEF Receive
  <2>3. /\ Len(conns') = Len(conns)
        /\ \A k \in 1 .. Len(conns) : conns'[k].requests = conns[k].requests
    BY SMTT(40), <1>1, <2>2 DEF Conns
  <2>4. Made(pc[t], attempt[t]) <= Made(l, attempt[t])
    BY <1>2, <2>1 DEF Made
  <2> QED BY <1>2, <2>1, <2>2, <2>3, <2>4, QuietThread DEF BeforeSend
<1>6. CASE CheckSocket(t)
  <2>1. PICK l \in {"retry", "close"} : Goto(t, l) /\ (l = "retry" => sock = NoConn)
    BY <1>6 DEF CheckSocket
  <2>2. UNCHANGED <<executed, number, idempotent, attempt, sock, conns>>
    BY <1>6 DEF CheckSocket, clientVars
  <2>3. Made(pc[t], attempt[t]) <= Made(l, attempt[t])
    BY <1>2, <2>1 DEF Made
  <2> QED BY <1>2, <2>1, <2>2, <2>3, QuietThread DEF BeforeSend
<1>7. CASE CloseSocket(t)
  <2>1. PICK l \in {"stray", "clear"} : Goto(t, l)
    BY <1>7 DEF CloseSocket, Stray
  <2>2. UNCHANGED <<executed, number, idempotent, attempt, sock>>
    BY <1>7 DEF CloseSocket
  <2>3. /\ Len(conns') = Len(conns)
        /\ \A k \in 1 .. Len(conns) : conns'[k].requests = conns[k].requests
    <3>1. CASE sock = NoConn
      BY <1>7, <3>1 DEF CloseSocket
    <3>2. CASE sock # NoConn
      <4>1. sock \in 1 .. Len(conns) /\ conns' = [conns EXCEPT ![sock] = Closed(@)]
        BY <1>1, <1>7, <3>2 DEF CloseSocket, NoConn
      <4> QED BY <1>1, <4>1, ClosedRequests
    <3> QED BY <3>1, <3>2
  <2>4. Made(pc[t], attempt[t]) <= Made(l, attempt[t])
    BY <1>2, <2>1 DEF Made
  <2> QED BY <1>2, <2>1, <2>2, <2>3, <2>4, QuietThread DEF BeforeSend
<1>8. CASE ClearSocket(t)
  <2>1. Goto(t, "retry") /\ sock' = NoConn /\ UNCHANGED <<executed, number, idempotent, attempt, conns>>
    BY <1>8 DEF ClearSocket
  <2>2. Made(pc[t], attempt[t]) <= Made("retry", attempt[t])
    BY <1>2 DEF Made
  <2> QED BY <1>2, <2>1, <2>2, QuietThread
<1>9. CASE Retry(t)
  <2>1. UNCHANGED <<executed, number, idempotent, sock, conns>> /\ pc[t] = "retry"
    BY <1>9 DEF Retry, clientVars
  <2>2. CASE Goto(t, "idle") /\ attempt' = attempt
    <3>1. Made(pc[t], attempt[t]) <= Made("idle", attempt[t])
      BY <1>2 DEF Made
    <3> QED BY <1>2, <2>1, <2>2, <3>1, QuietThread DEF BeforeSend
  <2>3. CASE ~(attempt[t] >= Attempts(t)) /\ Goto(t, "acquire")
             /\ attempt' = [attempt EXCEPT ![t] = @ + 1]
    <3>1. Attempts(t) \in Nat
      BY RetriesAssumption DEF Attempts
    <3>2. attempt[t] + 1 \in Nat /\ attempt[t] + 1 <= Attempts(t)
      BY <1>2, <2>3, <3>1
    <3>3. Made(pc[t], attempt[t]) <= Made("acquire", attempt[t] + 1)
      BY <1>2, <2>1 DEF Made
    <3>4. attempt' = [attempt EXCEPT ![t] = attempt[t] + 1]
      BY <2>3
    <3> QED BY <2>1, <2>3, <3>2, <3>3, <3>4, QuietThread DEF BeforeSend
  <2> QED BY <1>9, <2>2, <2>3 DEF Retry
<1> QED BY <1>3, <1>4, <1>5, <1>6, <1>7, <1>8, <1>9

(* A connection that is made has nothing waiting on it.                    *)
LEMMA ConnectCounts ==
  ASSUME TypeInv, CountInv, NEW t \in Threads, Connect(t)
  PROVE  CountInv'
<1>1. /\ conns \in Seq(Conns) /\ Len(conns) \in Nat /\ sock \in 0 .. Len(conns)
      /\ UNCHANGED <<executed, number, idempotent, attempt>> /\ pc[t] = "connect"
      /\ pc \in [Threads -> Places]
  BY DEF Connect, TypeInv, TypeOK, Conns, Places
<1>2. /\ attempt[t] \in Nat /\ attempt = [attempt EXCEPT ![t] = attempt[t]]
      /\ attempt[t] <= Attempts(t)
      /\ \A place : Made(place, attempt[t]) \in Int /\ Made(place, attempt[t]) <= attempt[t]
  BY AttemptTypes DEF CountInv
<1>3. CASE Fails(t) /\ UNCHANGED <<sock, conns>>
  <2>1. Goto(t, "failed") /\ Made(pc[t], attempt[t]) <= Made("failed", attempt[t])
    BY <1>2, <1>3 DEF Fails, Made
  <2> QED BY <1>1, <1>2, <1>3, <2>1, QuietThread DEF BeforeSend
<1>4. CASE conns' = Append(conns, Connection) /\ sock' = Len(conns) + 1 /\ Goto(t, "send")
  <2> DEFINE k == Len(conns) + 1
  <2>0. Connection \in Conns /\ Connection.requests = << >>
    BY ConnectionTypes DEF Connection
  <2>1. /\ Len(conns') = k /\ conns'[k].requests = << >>
        /\ \A j \in 1 .. Len(conns) : conns'[j] = conns[j]
        /\ 1 .. k = (1 .. Len(conns)) \union {k}
    BY <1>1, <1>4, <2>0
  <2>2. Once(<< >>) /\ \A c : ~In(c, << >>)
    BY DEF Once, In
  <2>3. \A j \in 1 .. Len(conns') : Once(conns'[j].requests)
    BY <2>1, <2>2 DEF CountInv
  <2>4. \A c : Waiting(conns', c) = Waiting(conns, c)
    BY <2>1, <2>2 DEF Waiting
  <2>5. \A u \in Threads : Current(u)' = Current(u) /\ Attempts(u)' = Attempts(u)
    BY <1>1 DEF Current, Attempts
  <2>6. \A u \in Threads : Made(pc'[u], attempt'[u]) = Made(pc[u], attempt[u])
    BY <1>1, <1>4 DEF Goto, Made
  <2>7. \A u \in Threads : ~In(Current(u), conns'[sock'].requests)
    BY <1>4, <2>1, <2>2
  <2> QED BY <1>1, <2>3, <2>4, <2>5, <2>6, <2>7 DEF CountInv
<1> QED BY <1>3, <1>4 DEF Connect

(* Sending is the one step that makes a request wait.                      *)
LEMMA SendCounts ==
  ASSUME TypeInv, CountInv, NEW t \in Threads, Send(t)
  PROVE  CountInv'
<1>1. /\ conns \in Seq(Conns) /\ Len(conns) \in Nat /\ sock \in 0 .. Len(conns)
      /\ UNCHANGED <<executed, number, idempotent, attempt, sock>> /\ pc[t] = "send"
      /\ pc \in [Threads -> Places] /\ number[t] \in 1 .. Calls
  <2>1. /\ conns \in Seq(Conns) /\ Len(conns) \in Nat /\ sock \in 0 .. Len(conns)
        /\ pc \in [Threads -> Places] /\ number[t] \in 0 .. Calls
    BY BasicTypes
  <2>2. /\ UNCHANGED <<executed, number, idempotent, attempt, sock>> /\ pc[t] = "send"
    BY DEF Send
  <2>3. number[t] > 0
    BY <2>2 DEF TypeInv
  <2>4. number[t] \in 1 .. Calls
    BY <2>1, <2>3, CallsAssumption
  <2> QED BY <2>1, <2>2, <2>4
<1>2. /\ attempt[t] \in Nat /\ attempt = [attempt EXCEPT ![t] = attempt[t]]
      /\ attempt[t] <= Attempts(t)
      /\ \A place : Made(place, attempt[t]) \in Int /\ Made(place, attempt[t]) <= attempt[t]
  BY AttemptTypes DEF CountInv
<1>3. CASE (Fails(t) \/ Stray(t)) /\ conns' = conns
  <2>1. PICK l \in {"failed", "stray"} : Goto(t, l)
    BY <1>3 DEF Fails, Stray
  <2>2. Made(pc[t], attempt[t]) <= Made(l, attempt[t])
    BY <1>2, <2>1 DEF Made
  <2> QED BY <1>1, <1>2, <1>3, <2>1, <2>2, QuietThread DEF BeforeSend
<1>4. CASE /\ sock # NoConn /\ Goto(t, "decode")
           /\ conns' = [conns EXCEPT ![sock].requests = Append(@, Current(t))]
  <2> DEFINE c == Current(t)
             q == conns[sock].requests
  <2>1. c \in CallIds
    BY <1>1 DEF Current, CallIds
  <2>2. sock \in 1 .. Len(conns) /\ conns[sock] \in Conns /\ q \in Seq(CallIds)
    BY <1>4, BasicTypes
  <2>3. Once(q) /\ ~In(c, q)
    BY <1>1, <1>4, <2>2 DEF CountInv, BeforeSend
  <2>4. Once(Append(q, c)) /\ \A d : In(d, Append(q, c)) <=> In(d, q) \/ d = c
    BY <2>1, <2>2, <2>3, AppendOnce
  <2>5. /\ Len(conns') = Len(conns) /\ conns'[sock].requests = Append(q, c)
        /\ \A j \in 1 .. Len(conns) : j # sock => conns'[j] = conns[j]
    BY <1>1, <1>4, <2>2 DEF Conns
  <2>6. \A j \in 1 .. Len(conns') : Once(conns'[j].requests)
    BY <2>4, <2>5 DEF CountInv
  <2>7. \A d : d # c => Waiting(conns', d) = Waiting(conns, d)
    BY <2>4, <2>5 DEF Waiting
  <2>8. Waiting(conns', c) = Waiting(conns, c) \union {sock} /\ sock \notin Waiting(conns, c)
    BY <2>2, <2>3, <2>4, <2>5 DEF Waiting
  <2>9. Cardinality(Waiting(conns', c)) = Cardinality(Waiting(conns, c)) + 1
    BY <2>8, WaitingFinite, FS_AddElement
  <2>10. \A u \in Threads : Current(u)' = Current(u) /\ Attempts(u)' = Attempts(u)
    BY <1>1 DEF Current, Attempts
  <2>11. \A u \in Threads \ {t} : pc'[u] = pc[u] /\ Current(u) # c
    BY <1>1, <1>4 DEF Goto, Current
  <2>12. pc'[t] = "decode"
    BY <1>1, <1>4 DEF Goto
  <2>13. ASSUME NEW u \in Threads, pc'[u] \in BeforeSend
         PROVE  ~In(Current(u)', conns'[sock'].requests)
    <3>1. u # t /\ pc[u] \in BeforeSend /\ Current(u) # c
      BY <2>11, <2>12, <2>13 DEF BeforeSend
    <3>2. ~In(Current(u), q)
      BY <1>4, <3>1 DEF CountInv
    <3> QED BY <1>1, <2>4, <2>5, <2>10, <3>1, <3>2
  <2>14. ASSUME NEW u \in Threads, NEW n \in number'[u] + 1 .. Calls
         PROVE  executed'[<<u, n>>] = 0 /\ Waiting(conns', <<u, n>>) = {}
    <3>1. <<u, n>> # c
      <4>1. number[u] \in Nat /\ n # number[u]
        BY <1>1, <2>14 DEF TypeInv, TypeOK
      <4> QED BY <4>1 DEF Current
    <3>2. executed[<<u, n>>] = 0 /\ Waiting(conns, <<u, n>>) = {}
      BY <1>1, <2>14 DEF CountInv
    <3> QED BY <1>1, <2>7, <3>1, <3>2
  <2>15. ASSUME NEW u \in Threads, number'[u] > 0
         PROVE  executed'[Current(u)'] + Cardinality(Waiting(conns', Current(u)'))
                  <= Made(pc'[u], attempt'[u])
    <3>1. executed[Current(u)] + Cardinality(Waiting(conns, Current(u))) <= Made(pc[u], attempt[u])
      BY <1>1, <2>15 DEF CountInv
    <3>2. CASE u = t
      <4>1. executed[c] \in Nat /\ Cardinality(Waiting(conns, c)) \in Nat
        BY <2>1, WaitingFinite DEF TypeInv, TypeOK
      <4>2. Made(pc[t], attempt[t]) = attempt[t] - 1 /\ Made(pc'[t], attempt'[t]) = attempt[t]
        BY <1>1, <2>12 DEF Made
      <4> QED BY <1>1, <1>2, <2>9, <2>10, <3>1, <3>2, <4>1, <4>2
    <3>3. CASE u # t
      BY <1>1, <2>7, <2>10, <2>11, <3>1, <3>3
    <3> QED BY <3>2, <3>3
  <2> QED BY <1>1, <2>6, <2>10, <2>13, <2>14, <2>15 DEF CountInv
<1> QED BY <1>3, <1>4 DEF Send

(* A new call has not been executed.                                       *)
LEMMA BeginCounts ==
  ASSUME TypeInv, CountInv, NEW t \in Threads, Begin(t)
  PROVE  CountInv'
<1>1. /\ number[t] \in Nat /\ number[t] + 1 \in 1 .. Calls
      /\ number' = [number EXCEPT ![t] = number[t] + 1] /\ DOMAIN number = Threads
      /\ UNCHANGED <<sock, conns, executed>> /\ sock \in 0 .. Len(conns)
      /\ DOMAIN pc = Threads /\ Goto(t, "acquire")
      /\ DOMAIN attempt = Threads /\ attempt' = [attempt EXCEPT ![t] = 1]
      /\ DOMAIN idempotent = Threads
      /\ \E b \in BOOLEAN : idempotent' = [idempotent EXCEPT ![t] = b]
  <2>1. /\ number' = [number EXCEPT ![t] = number[t] + 1] /\ number[t] < Calls
        /\ UNCHANGED <<sock, conns, executed>> /\ Goto(t, "acquire")
        /\ attempt' = [attempt EXCEPT ![t] = 1]
        /\ \E b \in BOOLEAN : idempotent' = [idempotent EXCEPT ![t] = b]
    BY DEF Begin, clientVars
  <2>2. /\ number[t] \in 0 .. Calls /\ DOMAIN number = Threads /\ sock \in 0 .. Len(conns)
        /\ DOMAIN pc = Threads /\ DOMAIN attempt = Threads /\ DOMAIN idempotent = Threads
    BY BasicTypes
  <2>3. number[t] \in Nat /\ number[t] + 1 \in 1 .. Calls
    BY <2>1, <2>2, CallsAssumption
  <2> QED BY <2>1, <2>2, <2>3
<1>2. \A u \in Threads \ {t} :
        /\ pc'[u] = pc[u] /\ number'[u] = number[u] /\ attempt'[u] = attempt[u]
        /\ Current(u)' = Current(u) /\ Attempts(u)' = Attempts(u)
  BY <1>1 DEF Goto, Current, Attempts
<1>3. pc'[t] = "acquire" /\ attempt'[t] = 1 /\ Current(t)' = <<t, number[t] + 1>>
  BY <1>1 DEF Goto, Current
<1>4. executed[<<t, number[t] + 1>>] = 0 /\ Waiting(conns, <<t, number[t] + 1>>) = {}
  <2>1. number[t] + 1 \in number[t] + 1 .. Calls
    BY <1>1
  <2> QED BY <2>1 DEF CountInv
<1>5. attempt'[t] <= Attempts(t)'
  <2>1. Attempts(t)' \in {1, Retries + 1}
    BY DEF Attempts
  <2> QED BY <1>3, <2>1, RetriesAssumption
<1>6. sock # NoConn => ~In(<<t, number[t] + 1>>, conns[sock].requests)
  BY <1>1, <1>4 DEF Waiting, NoConn
<1>7. executed[<<t, number[t] + 1>>] + Cardinality(Waiting(conns, <<t, number[t] + 1>>))
        <= Made(pc'[t], attempt'[t])
  BY <1>3, <1>4, FS_EmptySet DEF Made
<1>8. \A n \in number'[t] + 1 .. Calls : n \in number[t] + 1 .. Calls
  BY <1>1
<1>9. ASSUME NEW u \in Threads
      PROVE  /\ pc'[u] \in BeforeSend /\ sock' # NoConn => ~In(Current(u)', conns'[sock'].requests)
             /\ \A n \in number'[u] + 1 .. Calls :
                  executed'[<<u, n>>] = 0 /\ Waiting(conns', <<u, n>>) = {}
             /\ number'[u] > 0 =>
                  executed'[Current(u)'] + Cardinality(Waiting(conns', Current(u)'))
                    <= Made(pc'[u], attempt'[u])
             /\ attempt'[u] <= Attempts(u)'
  <2>1. CASE u = t
    BY <1>1, <1>3, <1>4, <1>5, <1>6, <1>7, <1>8, <2>1 DEF CountInv
  <2>2. CASE u # t
    BY <1>1, <1>2, <2>2 DEF CountInv
  <2> QED BY <2>1, <2>2
<1>10. \A k \in 1 .. Len(conns') : Once(conns'[k].requests)
  BY <1>1 DEF CountInv
<1> QED BY <1>9, <1>10 DEF CountInv

(* A handler executes a request that waited.                               *)
LEMMA HandleCounts ==
  ASSUME TypeInv, CountInv, NEW k \in 1 .. Len(conns), Handle(k)
  PROVE  CountInv'
<1> DEFINE q == conns[k].requests
           c == Head(q)
<1>1. /\ conns \in Seq(Conns) /\ Len(conns) \in Nat
      /\ UNCHANGED <<sock, pc, number, idempotent, attempt>>
      /\ q # << >> /\ executed' = [executed EXCEPT ![c] = @ + 1]
      /\ executed \in [CallIds -> Nat]
  <2>1. conns \in Seq(Conns) /\ Len(conns) \in Nat /\ executed \in [CallIds -> Nat]
    BY BasicTypes
  <2>2. UNCHANGED <<sock, pc, number, idempotent, attempt>>
    BY DEF Handle, clientVars, threadVars
  <2>3. q # << >> /\ executed' = [executed EXCEPT ![c] = @ + 1]
    BY DEF Handle
  <2> QED BY <2>1, <2>2, <2>3
<1>2. conns[k] \in Conns /\ q \in Seq(CallIds) /\ c \in CallIds /\ Tail(q) \in Seq(CallIds)
  <2>1. conns[k] \in Conns /\ q \in Seq(CallIds)
    BY BasicTypes
  <2> HIDE DEF q
  <2>2. q # << >>
    BY <1>1
  <2> QED BY <2>1, <2>2
<1>3. /\ Once(Tail(q)) /\ In(c, q) /\ ~In(c, Tail(q))
      /\ \A d : In(d, q) <=> In(d, Tail(q)) \/ d = c
  BY <1>1, <1>2, TailOnce DEF CountInv
<1>4. /\ Len(conns') = Len(conns) /\ conns'[k].requests = Tail(q)
      /\ \A j \in 1 .. Len(conns) : j # k => conns'[j] = conns[j]
  <2> DEFINE rest == [conns[k] EXCEPT !.requests = Tail(@)]
  <2>1. rest.requests = Tail(q)
    BY <1>2 DEF Conns
  <2>2. Closed(rest).requests = Tail(q)
    BY <1>2, <2>1 DEF Closed, Conns
  <2>3. \A ok : [rest EXCEPT !.responses = Append(@, [call |-> c, ok |-> ok])].requests = Tail(q)
    BY <1>2, <2>1 DEF Conns
  <2>4. \E d : conns' = [conns EXCEPT ![k] = d] /\ d.requests = Tail(q)
    <3>1. PICK ok \in BOOLEAN :
            conns' = [conns EXCEPT ![k] =
                        IF rest.open
                          THEN [rest EXCEPT !.responses = Append(@, [call |-> c, ok |-> ok])]
                          ELSE Closed(rest)]
      BY DEF Handle
    <3> QED BY <2>2, <2>3, <3>1
  <2> QED BY <1>1, <2>4
<1>5. \A j \in 1 .. Len(conns') : Once(conns'[j].requests)
  BY <1>3, <1>4 DEF CountInv
<1>6. \A d : d # c => Waiting(conns', d) = Waiting(conns, d)
  BY <1>3, <1>4 DEF Waiting
<1>7. Waiting(conns', c) = Waiting(conns, c) \ {k} /\ k \in Waiting(conns, c)
  BY <1>3, <1>4 DEF Waiting
<1>8. Cardinality(Waiting(conns', c)) = Cardinality(Waiting(conns, c)) - 1
  BY <1>7, WaitingFinite, FS_RemoveElement
<1>9. \A u \in Threads : Current(u)' = Current(u) /\ Attempts(u)' = Attempts(u)
  BY <1>1 DEF Current, Attempts
<1>10. ASSUME NEW u \in Threads, pc'[u] \in BeforeSend, sock' # NoConn
       PROVE  ~In(Current(u), conns'[sock'].requests)
  <2>1. sock' = sock /\ sock \in 1 .. Len(conns)
    BY <1>1, <1>10 DEF TypeInv, TypeOK, NoConn
  <2>2. ~In(Current(u), conns[sock].requests)
    BY <1>1, <1>10, <2>1 DEF CountInv
  <2> QED BY <1>3, <1>4, <2>1, <2>2
<1>11. ASSUME NEW u \in Threads, NEW n \in number'[u] + 1 .. Calls
       PROVE  executed'[<<u, n>>] = 0 /\ Waiting(conns', <<u, n>>) = {}
  <2>1. executed[<<u, n>>] = 0 /\ Waiting(conns, <<u, n>>) = {}
    BY <1>1, <1>11 DEF CountInv
  <2>2. <<u, n>> # c
    <3>1. Waiting(conns, c) # {}
      BY <1>7
    <3> HIDE DEF c
    <3> QED BY <2>1, <3>1
  <2>3. <<u, n>> \in CallIds
    <3>1. number[u] \in 0 .. Calls /\ n \in number[u] + 1 .. Calls
      BY <1>1, <1>11, BasicTypes
    <3>2. n \in 1 .. Calls
      BY <3>1, CallsAssumption
    <3> QED BY <3>2 DEF CallIds
  <2>4. executed'[<<u, n>>] = executed[<<u, n>>]
    <3> HIDE DEF c
    <3> QED BY <1>1, <2>2, <2>3
  <2>5. Waiting(conns', <<u, n>>) = Waiting(conns, <<u, n>>)
    BY <1>6, <2>2
  <2> QED BY <2>1, <2>4, <2>5
<1>12. ASSUME NEW u \in Threads, number'[u] > 0
       PROVE  executed'[Current(u)] + Cardinality(Waiting(conns', Current(u)))
                <= Made(pc'[u], attempt'[u])
  <2>1. executed[Current(u)] + Cardinality(Waiting(conns, Current(u))) <= Made(pc[u], attempt[u])
    BY <1>1, <1>12 DEF CountInv
  <2>2. CASE Current(u) = c
    <3>1. executed[c] \in Nat /\ executed'[c] = executed[c] + 1
      BY <1>1, <1>2
    <3>2. Cardinality(Waiting(conns, c)) \in Nat
      BY WaitingFinite
    <3>3. executed'[c] + Cardinality(Waiting(conns', c))
            = executed[c] + Cardinality(Waiting(conns, c))
      BY <1>8, <3>1, <3>2
    <3> QED BY <1>1, <2>1, <2>2, <3>3
  <2>3. CASE Current(u) # c
    BY <1>1, <1>6, <2>1, <2>3
  <2> QED BY <2>2, <2>3
<1>13. \A u \in Threads : attempt'[u] <= Attempts(u)'
  BY <1>1, <1>9 DEF CountInv
<1> QED BY <1>5, <1>9, <1>10, <1>11, <1>12, <1>13 DEF CountInv

(* Steps that change no call: a connection is lost, or nothing happens.    *)
LEMMA OtherCounts ==
  ASSUME TypeInv, CountInv, UNCHANGED vars \/ \E k \in 1 .. Len(conns) : LoseConnection(k)
  PROVE  CountInv'
<1>1. UNCHANGED <<sock, pc, number, idempotent, attempt, executed>>
  BY DEF vars, clientVars, threadVars, LoseConnection
<1>2. /\ Len(conns') = Len(conns)
      /\ \A k \in 1 .. Len(conns) : conns'[k].requests \in {conns[k].requests, << >>}
  <2>0. conns \in Seq(Conns)
    BY DEF TypeInv, TypeOK, Conns
  <2>1. CASE UNCHANGED vars
    BY <2>1 DEF vars
  <2>2. ASSUME NEW k \in 1 .. Len(conns), LoseConnection(k)
        PROVE  /\ Len(conns') = Len(conns)
               /\ \A j \in 1 .. Len(conns) : conns'[j].requests \in {conns[j].requests, << >>}
    <3>1. conns[k] \in Conns
      BY <2>0
    <3>2. [conns[k] EXCEPT !.served = FALSE, !.requests = << >>, !.responses = << >>].requests = << >>
      BY <3>1 DEF Conns
    <3>3. conns' = [conns EXCEPT ![k] = [conns[k] EXCEPT !.served = FALSE, !.requests = << >>,
                                                          !.responses = << >>]]
      BY <2>0, <2>2 DEF LoseConnection
    <3> QED BY <2>0, <3>2, <3>3
  <2> QED BY <2>1, <2>2
<1>3. ASSUME NEW t \in Threads
      PROVE  /\ pc'[t] \in BeforeSend => pc[t] \in BeforeSend
             /\ Made(pc'[t], attempt'[t]) \in Int
             /\ Made(pc[t], attempt[t]) <= Made(pc'[t], attempt'[t])
             /\ attempt'[t] <= Attempts(t)
  <2>1. Made(pc[t], attempt[t]) \in Int
    BY AttemptTypes
  <2>2. Made(pc[t], attempt[t]) <= Made(pc[t], attempt[t])
    BY <2>1
  <2> QED BY <1>1, <2>1, <2>2 DEF CountInv
<1> QED BY <1>1, <1>2, <1>3, QuietStep

(* "Bounded retries for idempotent reads": whatever times out or is lost,  *)
(* the server executes a call at most once for each attempt, and one that  *)
(* is not idempotent at most once.                                         *)
THEOREM RetriesBounded == Spec => []ExecutionsBounded
<1>1. Init => CountInv
  <2> SUFFICES ASSUME Init PROVE CountInv
    OBVIOUS
  <2>1. /\ Len(conns) = 0 /\ pc = [t \in Threads |-> "idle"] /\ number = [t \in Threads |-> 0]
        /\ attempt = [t \in Threads |-> 1] /\ idempotent = [t \in Threads |-> FALSE]
        /\ executed = [c \in CallIds |-> 0]
    BY DEF Init
  <2>2. \A c : Waiting(conns, c) = {}
    BY <2>1 DEF Waiting
  <2>3. \A t \in Threads, n \in 0 + 1 .. Calls : executed[<<t, n>>] = 0
    BY <2>1, CallsAssumption DEF CallIds
  <2> QED BY <2>1, <2>2, <2>3 DEF CountInv, BeforeSend, Attempts
<1>2. TypeInv /\ CountInv /\ [Next]_vars => CountInv'
  BY ThreadCounts, ConnectCounts, SendCounts, BeginCounts, HandleCounts, OtherCounts
     DEF Next, ThreadStep
<1>3. TypeInv /\ CountInv => ExecutionsBounded
  <2> SUFFICES ASSUME TypeInv, CountInv, NEW t \in Threads, number[t] > 0
               PROVE  executed[Current(t)] <= Attempts(t)
    BY DEF ExecutionsBounded, Attempts
  <2>1. executed[Current(t)] + Cardinality(Waiting(conns, Current(t))) <= Made(pc[t], attempt[t])
    BY DEF CountInv
  <2>2. /\ attempt[t] \in Nat /\ Made(pc[t], attempt[t]) \in Int
        /\ Made(pc[t], attempt[t]) <= attempt[t] /\ attempt[t] <= Attempts(t)
    BY AttemptTypes DEF CountInv
  <2>3. executed[Current(t)] \in Nat /\ Cardinality(Waiting(conns, Current(t))) \in Nat
    <3>1. Current(t) \in CallIds
      BY DEF TypeInv, TypeOK, Current, CallIds
    <3> QED BY <3>1, WaitingFinite DEF TypeInv, TypeOK
  <2>4. Attempts(t) \in Nat
    BY RetriesAssumption DEF Attempts
  <2> QED BY <2>1, <2>2, <2>3, <2>4
<1> QED BY <1>1, <1>2, <1>3, Typing, PTL DEF Spec

----------------------------------------------------------------------------
(* Taking turns.  As long as no call began during another, one thread at   *)
(* most is inside call, no connection is open but the socket, and nothing  *)
(* is under way on the socket except the request of this call or the one   *)
(* response to it.                                                         *)

Free(t)  == pc[t] \in {"idle", "stray"}
Clean    == {"idle", "stray", "acquire", "connect", "send"}
Empty(c) == c.requests = << >> /\ c.responses = << >>

Asked(c, id) ==
  \/ Empty(c)
  \/ c.requests = <<id>> /\ c.responses = << >>
  \/ c.requests = << >> /\ \E ok \in BOOLEAN : c.responses = <<[call |-> id, ok |-> ok]>>

QuietSocket == sock # NoConn => Empty(conns[sock])
OneOpen     == \A k \in 1 .. Len(conns) : conns[k].open => k = sock

Turn(t) ==
  /\ pc[t] \in Clean => QuietSocket
  /\ pc[t] \in {"decode", "receive"} /\ sock # NoConn => Asked(conns[sock], Current(t))
  /\ pc[t] = "receive" => stream[t] = sock
  /\ pc[t] = "clear" /\ sock # NoConn => ~conns[sock].open
  /\ pc[t] = "retry" => sock = NoConn

TurnInv ==
  ~overlapped =>
    /\ OwnResponse /\ OneOpen
    /\ (\A t \in Threads : Free(t)) => QuietSocket
    /\ \A t \in Threads : ~Free(t) => Turn(t) /\ \A u \in Threads \ {t} : Free(u)

(* What has to be shown of a step by a thread that has its turn.           *)
LEMMA TurnStep ==
  ASSUME NEW t \in Threads, Turn(t)', OwnResponse', OneOpen',
         \A u \in Threads \ {t} : Free(u)'
  PROVE  TurnInv'
<1>1. (\A u \in Threads : Free(u)') => QuietSocket'
  BY DEF Turn, Free, Clean
<1> QED BY <1>1 DEF TurnInv

(* A thread inside call changes only its own place; what its step leaves   *)
(* of the others, of the connections and of the results.                   *)
LEMMA TurnKept ==
  ASSUME TurnInv, ~overlapped, NEW t \in Threads, ~Free(t),
         NEW l \in Places, pc \in [Threads -> Places], Goto(t, l)
  PROVE  /\ pc'[t] = l
         /\ \A u \in Threads \ {t} : Free(u)'
         /\ Turn(t) /\ OneOpen /\ OwnResponse
         /\ UNCHANGED <<number, result>> => OwnResponse'
         /\ UNCHANGED <<conns, sock>> => OneOpen'
<1>1. pc'[t] = l /\ \A u \in Threads \ {t} : pc'[u] = pc[u]
  BY DEF Goto
<1>2. Turn(t) /\ OneOpen /\ OwnResponse /\ \A u \in Threads \ {t} : Free(u)
  BY DEF TurnInv
<1>3. \A u \in Threads \ {t} : Free(u)'
  BY <1>1, <1>2 DEF Free
<1>4. UNCHANGED <<number, result>> => OwnResponse'
  BY <1>2 DEF OwnResponse, Current
<1>5. UNCHANGED <<conns, sock>> => OneOpen'
  BY <1>2 DEF OneOpen
<1> QED BY <1>1, <1>2, <1>3, <1>4, <1>5

(* Steps that leave the connections, the socket and the results alone.     *)
LEMMA TurnOfControl ==
  ASSUME TypeInv, TurnInv, ~overlapped, NEW t \in Threads,
         \/ Acquire(t) \/ Connected(t) \/ Decode(t) \/ ReceiveFails(t)
         \/ CheckSocket(t) \/ Retry(t)
  PROVE  TurnInv'
<1>1. pc \in [Threads -> Places]
  BY BasicTypes
<1>2. /\ ~Free(t)
      /\ UNCHANGED <<conns, sock, number, result>>
  BY DEF Acquire, Connected, Decode, ReceiveFails, CheckSocket, Retry, Free, clientVars
<1>3. PICK l \in Places : Goto(t, l)
  BY DEF Acquire, Connected, Decode, ReceiveFails, CheckSocket, Retry, Fails, Stray, Places, InLock
<1>4. pc'[t] = l /\ Turn(t)
  BY <1>1, <1>2, <1>3, TurnKept
<1>5. Current(t)' = Current(t) /\ Turn(t)
  BY <1>2, <1>4 DEF Current
<1>6. stream \in [Threads -> 0 .. Len(conns)]
  BY DEF TypeInv, TypeOK
<1>7. \/ pc[t] \in Clean /\ pc'[t] \in {"connect", "send"}
      \/ pc[t] = "decode" /\ sock = NoConn /\ pc'[t] = "stray"
      \/ pc[t] = "decode" /\ pc'[t] = "receive" /\ stream'[t] = sock
      \/ pc'[t] \in {"failed", "close"}
      \/ sock = NoConn /\ pc'[t] = "retry"
      \/ pc[t] = "retry" /\ pc'[t] \in {"idle", "acquire"}
  <2>1. CASE Acquire(t) \/ Connected(t)
    BY <1>1, <2>1 DEF Acquire, Connected, Goto, Clean
  <2>2. CASE Decode(t)
    BY <1>1, <1>6, <2>2 DEF Decode, Goto, Stray
  <2>3. CASE ReceiveFails(t) \/ CheckSocket(t)
    BY <1>1, <2>3 DEF ReceiveFails, CheckSocket, Fails, Goto
  <2>4. CASE Retry(t)
    BY <1>1, <2>4 DEF Retry, Goto
  <2> QED BY <2>1, <2>2, <2>3, <2>4
<1>8. Turn(t)'
  BY <1>2, <1>5, <1>7 DEF Turn, QuietSocket, Clean
<1> QED BY <1>1, <1>2, <1>3, <1>8, TurnKept, TurnStep

(* A connection is made when there is none.                                *)
LEMMA TurnOfConnect ==
  ASSUME TypeInv, TurnInv, ~overlapped, NEW t \in Threads, Connect(t)
  PROVE  TurnInv'
<1>1. pc \in [Threads -> Places] /\ conns \in Seq(Conns) /\ Len(conns) \in Nat
  BY BasicTypes
<1>2. ~Free(t) /\ sock = NoConn /\ UNCHANGED <<number, result>>
  BY DEF Connect, Free
<1>3. CASE Fails(t) /\ UNCHANGED <<sock, conns>>
  <2>1. Goto(t, "failed") /\ "failed" \in Places
    BY <1>3 DEF Fails, Places
  <2>2. pc'[t] = "failed"
    BY <1>1, <2>1 DEF Goto
  <2>3. Turn(t)'
    BY <2>2 DEF Turn, Clean
  <2> QED BY <1>1, <1>2, <1>3, <2>1, <2>3, TurnKept, TurnStep
<1>4. CASE conns' = Append(conns, Connection) /\ sock' = Len(conns) + 1 /\ Goto(t, "send")
  <2>1. pc'[t] = "send" /\ "send" \in Places
    BY <1>1, <1>4 DEF Goto, Places, InLock
  <2>2. OneOpen
    BY <1>2 DEF TurnInv
  <2>3. Connection \in Conns /\ Empty(Connection)
    BY ConnectionTypes DEF Connection, Empty
  <2>4. /\ Len(conns') = Len(conns) + 1 /\ conns'[sock'] = Connection
        /\ \A k \in 1 .. Len(conns) : conns'[k] = conns[k]
    BY <1>1, <1>4, <2>3
  <2>5. Turn(t)'
    BY <2>1, <2>3, <2>4 DEF Turn, QuietSocket, Clean
  <2>6. ASSUME NEW k \in 1 .. Len(conns'), conns'[k].open PROVE k = sock'
    <3>1. CASE k \in 1 .. Len(conns)
      <4>1. k = NoConn
        BY <1>2, <2>2, <2>4, <2>6, <3>1 DEF OneOpen
      <4> QED BY <1>1, <3>1, <4>1 DEF NoConn
    <3>2. CASE k \notin 1 .. Len(conns)
      BY <1>1, <1>4, <2>4, <3>2
    <3> QED BY <3>1, <3>2
  <2>7. OneOpen'
    BY <2>6 DEF OneOpen
  <2> QED BY <1>1, <1>2, <1>4, <2>1, <2>5, <2>7, TurnKept, TurnStep
<1> QED BY <1>3, <1>4 DEF Connect

(* The request is sent on a quiet connection.                              *)
LEMMA TurnOfSend ==
  ASSUME TypeInv, TurnInv, ~overlapped, NEW t \in Threads, Send(t)
  PROVE  TurnInv'
<1>1. /\ pc \in [Threads -> Places] /\ conns \in Seq(Conns)
      /\ sock # NoConn => sock \in 1 .. Len(conns)
  BY BasicTypes
<1>2. ~Free(t) /\ pc[t] = "send" /\ UNCHANGED <<sock, number, result>>
  BY DEF Send, Free
<1>3. Turn(t) /\ OneOpen
  BY <1>2 DEF TurnInv
<1>4. CASE Fails(t) /\ conns' = conns
  <2>1. Goto(t, "failed") /\ "failed" \in Places
    BY <1>4 DEF Fails, Places
  <2>2. pc'[t] = "failed"
    BY <1>1, <2>1 DEF Goto
  <2>3. Turn(t)'
    BY <2>2 DEF Turn, Clean
  <2> QED BY <1>1, <1>2, <1>4, <2>1, <2>3, TurnKept, TurnStep
<1>5. CASE sock = NoConn /\ Stray(t) /\ conns' = conns
  <2>1. Goto(t, "stray") /\ "stray" \in Places
    BY <1>5 DEF Stray, Places
  <2>2. pc'[t] = "stray"
    BY <1>1, <2>1 DEF Goto
  <2>3. Turn(t)'
    BY <1>2, <1>5, <2>2 DEF Turn, QuietSocket
  <2> QED BY <1>1, <1>2, <1>5, <2>1, <2>3, TurnKept, TurnStep
<1>6. CASE /\ sock # NoConn /\ Goto(t, "decode")
           /\ conns' = [conns EXCEPT ![sock].requests = Append(@, Current(t))]
  <2>1. pc'[t] = "decode" /\ "decode" \in Places
    BY <1>1, <1>6 DEF Goto, Places, InLock
  <2>2. sock \in 1 .. Len(conns) /\ conns[sock] \in Conns
    BY <1>1, <1>6
  <2>3. Empty(conns[sock])
    BY <1>2, <1>3, <1>6 DEF Turn, QuietSocket, Clean
  <2>4. [conns[sock] EXCEPT !.requests = Append(@, Current(t))]
          = [conns[sock] EXCEPT !.requests = <<Current(t)>>]
    BY <2>3 DEF Empty
  <2>5. /\ Len(conns') = Len(conns)
        /\ conns'[sock] = [conns[sock] EXCEPT !.requests = <<Current(t)>>]
        /\ \A k \in 1 .. Len(conns) : k # sock => conns'[k] = conns[k]
    <3> DEFINE new == [conns[sock] EXCEPT !.requests = <<Current(t)>>]
    <3>1. conns' = [conns EXCEPT ![sock] = new]
      BY <1>6, <2>4
    <3> HIDE DEF new
    <3>2. /\ Len(conns') = Len(conns) /\ conns'[sock] = new
          /\ \A k \in 1 .. Len(conns) : k # sock => conns'[k] = conns[k]
      BY <1>1, <2>2, <3>1
    <3> QED BY <3>2 DEF new
  <2>6. conns'[sock].requests = <<Current(t)>> /\ conns'[sock].responses = << >>
    BY <2>2, <2>3, <2>5 DEF Conns, Empty
  <2>7. Asked(conns'[sock'], Current(t)')
    BY <1>2, <2>6 DEF Asked, Current
  <2>8. Turn(t)'
    BY <2>1, <2>7 DEF Turn, Clean
  <2>9. OneOpen'
    BY <1>2, <1>3, <2>5 DEF OneOpen
  <2> QED BY <1>1, <1>2, <1>6, <2>1, <2>8, <2>9, TurnKept, TurnStep
<1> QED BY <1>4, <1>5, <1>6 DEF Send

(* The response on the connection is the answer to the request.            *)
LEMMA TurnOfReceive ==
  ASSUME TypeInv, TurnInv, ~overlapped, NEW t \in Threads, Receive(t)
  PROVE  TurnInv'
<1> DEFINE c == conns[sock]
<1>1. /\ pc \in [Threads -> Places] /\ conns \in Seq(Conns)
      /\ sock # NoConn => sock \in 1 .. Len(conns)
  BY BasicTypes
<1>2. ~Free(t) /\ pc[t] = "receive" /\ UNCHANGED <<sock, number>>
  BY DEF Receive, Free
<1>3. Turn(t) /\ OneOpen /\ OwnResponse
  BY <1>2 DEF TurnInv
<1>4. stream[t] = sock /\ sock # NoConn /\ Asked(c, Current(t))
  BY <1>2, <1>3 DEF Turn, TypeInv
<1>5. sock \in 1 .. Len(conns) /\ c \in Conns
  BY <1>1, <1>4
<1>6. /\ c.responses # << >>
      /\ conns' = [conns EXCEPT ![sock].responses = Tail(@)]
      /\ \/ /\ result' = [result EXCEPT ![t] = Head(c.responses)]
            /\ Goto(t, "idle")
         \/ Goto(t, "failed") /\ result' = result
  BY <1>4 DEF Receive, Fails
<1>7. PICK ok \in BOOLEAN : c.responses = <<[call |-> Current(t), ok |-> ok]>> /\ c.requests = << >>
  BY <1>4, <1>6 DEF Asked, Empty
<1>8. /\ Tail(c.responses) = << >> /\ Head(c.responses) = [call |-> Current(t), ok |-> ok]
  BY <1>7
<1>9. /\ Len(conns') = Len(conns)
      /\ conns'[sock] = [c EXCEPT !.responses = << >>]
      /\ \A k \in 1 .. Len(conns) : k # sock => conns'[k] = conns[k]
  <2> DEFINE d == [c EXCEPT !.responses = << >>]
  <2>1. conns' = [conns EXCEPT ![sock] = d]
    BY <1>6, <1>8
  <2> HIDE DEF d
  <2>2. /\ Len(conns') = Len(conns) /\ conns'[sock] = d
        /\ \A k \in 1 .. Len(conns) : k # sock => conns'[k] = conns[k]
    BY <1>1, <1>5, <2>1
  <2> QED BY <2>2 DEF d
<1>10. Empty(conns'[sock]) /\ conns'[sock].open = c.open
  BY <1>5, <1>7, <1>9 DEF Empty, Conns
<1>11. OneOpen'
  BY <1>2, <1>3, <1>9, <1>10 DEF OneOpen
<1>12. PICK l \in {"idle", "failed"} : Goto(t, l)
  BY <1>6
<1>13. l \in Places /\ pc'[t] = l
  BY <1>1, <1>12 DEF Places, Goto
<1>14. Turn(t)'
  BY <1>2, <1>10, <1>13 DEF Turn, QuietSocket
<1>15. OwnResponse'
  <2>1. \A u \in Threads : Current(u)' = Current(u)
    BY <1>2 DEF Current
  <2>2. result \in [Threads -> Response \union {NoResponse}]
    BY DEF TypeInv, TypeOK
  <2>3. \A u \in Threads :
          result'[u] = result[u] \/ (u = t /\ result'[u] = [call |-> Current(t), ok |-> ok])
    <3> DEFINE r == [call |-> Current(t), ok |-> ok]
    <3>1. result' = result \/ result' = [result EXCEPT ![t] = r]
      BY <1>6, <1>8
    <3> HIDE DEF r
    <3>2. \A u \in Threads : result'[u] = result[u] \/ (u = t /\ result'[u] = r)
      BY <2>2, <3>1
    <3> QED BY <3>2 DEF r
  <2> QED BY <1>3, <2>1, <2>3 DEF OwnResponse
<1> QED BY <1>1, <1>2, <1>11, <1>12, <1>13, <1>14, <1>15, TurnKept, TurnStep

(* close leaves no connection open.                                        *)
LEMMA TurnOfClose ==
  ASSUME TypeInv, TurnInv, ~overlapped, NEW t \in Threads, CloseSocket(t) \/ ClearSocket(t)
  PROVE  TurnInv'
<1>1. /\ pc \in [Threads -> Places] /\ conns \in Seq(Conns)
      /\ sock # NoConn => sock \in 1 .. Len(conns)
  BY BasicTypes
<1>2. ~Free(t) /\ UNCHANGED <<number, result>>
  BY DEF CloseSocket, ClearSocket, Free
<1>3. Turn(t) /\ OneOpen
  BY <1>2 DEF TurnInv
<1>4. CASE sock = NoConn /\ Stray(t) /\ UNCHANGED <<sock, conns>>
  <2>1. Goto(t, "stray") /\ "stray" \in Places
    BY <1>4 DEF Stray, Places
  <2>2. pc'[t] = "stray"
    BY <1>1, <2>1 DEF Goto
  <2>3. Turn(t)'
    BY <1>4, <2>2 DEF Turn, QuietSocket
  <2> QED BY <1>1, <1>2, <1>4, <2>1, <2>3, TurnKept, TurnStep
<1>5. CASE /\ sock # NoConn /\ sock' = sock /\ Goto(t, "clear")
           /\ conns' = [conns EXCEPT ![sock] = Closed(@)]
  <2>1. pc'[t] = "clear" /\ "clear" \in Places
    BY <1>1, <1>5 DEF Goto, Places
  <2>2. sock \in 1 .. Len(conns) /\ conns[sock] \in Conns
    BY <1>1, <1>5
  <2>3. /\ Len(conns') = Len(conns) /\ conns'[sock] = Closed(conns[sock])
        /\ \A k \in 1 .. Len(conns) : k # sock => conns'[k] = conns[k]
    BY <1>1, <1>5, <2>2
  <2>4. ~Closed(conns[sock]).open
    BY <2>2 DEF Closed, Conns
  <2>5. Turn(t)'
    BY <1>5, <2>1, <2>3, <2>4 DEF Turn, Clean
  <2>6. OneOpen'
    BY <1>3, <1>5, <2>3 DEF OneOpen
  <2> QED BY <1>1, <1>2, <1>5, <2>1, <2>5, <2>6, TurnKept, TurnStep
<1>6. CASE pc[t] = "clear" /\ sock' = NoConn /\ Goto(t, "retry") /\ conns' = conns
  <2>1. pc'[t] = "retry" /\ "retry" \in Places
    BY <1>1, <1>6 DEF Goto, Places
  <2>2. Turn(t)'
    BY <1>6, <2>1 DEF Turn, Clean
  <2>3. sock # NoConn => ~conns[sock].open
    BY <1>3, <1>6 DEF Turn
  <2>4. \A k \in 1 .. Len(conns) : ~conns[k].open
    BY <1>3, <2>3 DEF OneOpen, NoConn
  <2>5. OneOpen'
    BY <1>6, <2>4 DEF OneOpen
  <2> QED BY <1>1, <1>2, <1>6, <2>1, <2>2, <2>5, TurnKept, TurnStep
<1> QED BY <1>4, <1>5, <1>6 DEF CloseSocket, ClearSocket

(* A call begins when no other is under way, or it overlaps.               *)
LEMMA TurnOfBegin ==
  ASSUME TypeInv, TurnInv, NEW t \in Threads, Begin(t)
  PROVE  TurnInv'
<1> SUFFICES ASSUME ~overlapped' PROVE TurnInv'
  BY DEF TurnInv
<1>1. ~overlapped /\ \A u \in Threads : Free(u)
  BY DEF Begin, Free
<1>2. OwnResponse /\ OneOpen /\ QuietSocket
  BY <1>1 DEF TurnInv
<1>3. /\ pc \in [Threads -> Places] /\ number \in [Threads -> 0 .. Calls]
      /\ result \in [Threads -> Response \union {NoResponse}]
  BY BasicTypes DEF TypeInv, TypeOK
<1>4. /\ number' = [number EXCEPT ![t] = @ + 1] /\ result' = [result EXCEPT ![t] = NoResponse]
      /\ Goto(t, "acquire") /\ UNCHANGED <<sock, conns>>
  BY DEF Begin, clientVars
<1>5. pc'[t] = "acquire" /\ \A u \in Threads \ {t} : pc'[u] = pc[u]
  BY <1>3, <1>4 DEF Goto
<1>6. \A u \in Threads \ {t} : Free(u)'
  BY <1>1, <1>5 DEF Free
<1>7. Turn(t)'
  BY <1>2, <1>4, <1>5 DEF Turn, QuietSocket
<1>8. OneOpen'
  BY <1>2, <1>4 DEF OneOpen
<1>9. OwnResponse'
  BY <1>2, <1>3, <1>4 DEF OwnResponse, Current
<1> QED BY <1>6, <1>7, <1>8, <1>9, TurnStep

(* What happens to the connections while the threads stand still.          *)
LEMMA TurnOfConnections ==
  ASSUME TurnInv, UNCHANGED <<sock, pc, number, stream, result, overlapped>>,
         Len(conns') = Len(conns),
         \A k \in 1 .. Len(conns) :
           /\ conns'[k].open => conns[k].open
           /\ Empty(conns[k]) => Empty(conns'[k])
           /\ \A id : Asked(conns[k], id) => Asked(conns'[k], id),
         sock # NoConn => sock \in 1 .. Len(conns)
  PROVE  TurnInv'
<1> SUFFICES ASSUME ~overlapped PROVE TurnInv'
  BY DEF TurnInv
<1>1. OwnResponse' /\ OneOpen'
  BY DEF TurnInv, OwnResponse, OneOpen, Current
<1>2. QuietSocket => QuietSocket'
  BY DEF QuietSocket
<1>3. ASSUME NEW t \in Threads, Turn(t) PROVE Turn(t)'
  <2>1. Current(t)' = Current(t)
    BY DEF Current
  <2> QED BY <1>2, <1>3, <2>1 DEF Turn
<1>4. \A t \in Threads : Free(t)' <=> Free(t)
  BY DEF Free
<1> QED BY <1>1, <1>2, <1>3, <1>4 DEF TurnInv

(* A handler answers on the connection the request came on.                *)
LEMMA TurnOfHandle ==
  ASSUME TypeInv, TurnInv, NEW k \in 1 .. Len(conns), Handle(k)
  PROVE  TurnInv'
<1> DEFINE q == conns[k].requests
           rest == [conns[k] EXCEPT !.requests = Tail(@)]
           Answered(ok) == [rest EXCEPT !.responses = Append(@, [call |-> Head(q), ok |-> ok])]
<1>1. /\ conns \in Seq(Conns) /\ conns[k] \in Conns
      /\ sock # NoConn => sock \in 1 .. Len(conns)
  BY BasicTypes
<1>2. UNCHANGED <<sock, pc, number, stream, result, overlapped>> /\ q # << >>
  BY DEF Handle, clientVars, threadVars
<1>3. PICK ok \in BOOLEAN :
        conns' = [conns EXCEPT ![k] = IF rest.open THEN Answered(ok) ELSE Closed(rest)]
  BY DEF Handle
<1>4. /\ Len(conns') = Len(conns)
      /\ conns'[k] = IF rest.open THEN Answered(ok) ELSE Closed(rest)
      /\ \A j \in 1 .. Len(conns) : j # k => conns'[j] = conns[j]
  <2> DEFINE new == IF rest.open THEN Answered(ok) ELSE Closed(rest)
  <2> HIDE DEF new
  <2>1. conns' = [conns EXCEPT ![k] = new]
    BY <1>3 DEF new
  <2>2. /\ Len(conns') = Len(conns) /\ conns'[k] = new
        /\ \A j \in 1 .. Len(conns) : j # k => conns'[j] = conns[j]
    BY <1>1, <2>1
  <2> QED BY <2>2 DEF new
<1>5. /\ rest.open = conns[k].open /\ rest.requests = Tail(q)
      /\ rest.responses = conns[k].responses
  BY <1>1 DEF Conns
<1>6. /\ Answered(ok).open = rest.open /\ Answered(ok).requests = Tail(q)
      /\ Answered(ok).responses = Append(conns[k].responses, [call |-> Head(q), ok |-> ok])
  BY <1>1, <1>5 DEF Conns
<1>7. ~Closed(rest).open /\ Closed(rest).requests = Tail(q) /\ Closed(rest).responses = << >>
  BY <1>1, <1>5 DEF Closed, Conns
<1>8. conns'[k].open => conns[k].open
  BY <1>4, <1>5, <1>6, <1>7
<1>9. ~Empty(conns[k])
  BY <1>2 DEF Empty
<1>10. ASSUME NEW id, Asked(conns[k], id) PROVE Asked(conns'[k], id)
  <2>1. q = <<id>> /\ conns[k].responses = << >>
    BY <1>2, <1>9, <1>10 DEF Asked
  <2>2. /\ Tail(q) = << >> /\ Head(q) = id
        /\ Append(conns[k].responses, [call |-> id, ok |-> ok]) = <<[call |-> id, ok |-> ok]>>
    BY <2>1
  <2>3. CASE rest.open
    <3>1. conns'[k].requests = << >> /\ conns'[k].responses = <<[call |-> id, ok |-> ok]>>
      BY <1>4, <1>6, <2>2, <2>3
    <3> QED BY <3>1 DEF Asked
  <2>4. CASE ~rest.open
    BY <1>4, <1>7, <2>2, <2>4 DEF Asked, Empty
  <2> QED BY <2>3, <2>4
<1> HIDE DEF q, rest, Answered
<1> QED BY <1>1, <1>2, <1>4, <1>8, <1>9, <1>10, TurnOfConnections

(* A connection that is lost, or nothing that happens.                     *)
LEMMA TurnOfOther ==
  ASSUME TypeInv, TurnInv, UNCHANGED vars \/ \E k \in 1 .. Len(conns) : LoseConnection(k)
  PROVE  TurnInv'
<1>1. /\ conns \in Seq(Conns) /\ \A k \in 1 .. Len(conns) : conns[k] \in Conns
      /\ sock # NoConn => sock \in 1 .. Len(conns)
  BY BasicTypes
<1>2. UNCHANGED <<sock, pc, number, stream, result, overlapped>>
  BY DEF vars, clientVars, threadVars, LoseConnection
<1>3. CASE UNCHANGED vars
  <2>1. conns' = conns
    BY <1>3 DEF vars
  <2> QED BY <1>1, <1>2, <2>1, TurnOfConnections
<1>4. ASSUME NEW k \in 1 .. Len(conns), LoseConnection(k) PROVE TurnInv'
  <2> DEFINE lost == [conns[k] EXCEPT !.served = FALSE, !.requests = << >>, !.responses = << >>]
  <2>1. lost.open = conns[k].open /\ lost.requests = << >> /\ lost.responses = << >>
    BY <1>1 DEF Conns
  <2>2. conns' = [conns EXCEPT ![k] = lost]
    BY <1>1, <1>4 DEF LoseConnection
  <2> HIDE DEF lost
  <2>3. Empty(lost) /\ \A id : Asked(lost, id)
    BY <2>1 DEF Empty, Asked
  <2>4. /\ Len(conns') = Len(conns) /\ conns'[k] = lost
        /\ \A j \in 1 .. Len(conns) : j # k => conns'[j] = conns[j]
    BY <1>1, <2>2
  <2> QED BY <1>1, <1>2, <2>1, <2>3, <2>4, TurnOfConnections
<1> QED BY <1>3, <1>4

(* "Bounded retries": whatever times out or is lost, a client that is used *)
(* by one call at a time returns no answer but the call's own, and keeps   *)
(* no connection open but the one it will use next.                        *)
THEOREM AnswersAreOwn == Spec => []TurnsAreClean
<1>1. Init => TurnInv
  <2> SUFFICES ASSUME Init PROVE TurnInv
    OBVIOUS
  <2>1. /\ Len(conns) = 0 /\ sock = NoConn /\ pc = [t \in Threads |-> "idle"]
        /\ result = [t \in Threads |-> NoResponse]
    BY DEF Init
  <2> QED BY <2>1 DEF TurnInv, OwnResponse, OneOpen, QuietSocket, Free
<1>2. TypeInv /\ TurnInv /\ [Next]_vars => TurnInv'
  <2> SUFFICES ASSUME TypeInv, TurnInv, [Next]_vars PROVE TurnInv'
    OBVIOUS
  <2>1. ASSUME NEW t \in Threads, ThreadStep(t) PROVE TurnInv'
    <3>1. CASE overlapped
      <4>1. overlapped'
        BY <2>1, <3>1 DEF ThreadStep, Acquire, Connect, Connected, Send, Decode, Receive,
             ReceiveFails, CheckSocket, CloseSocket, ClearSocket, Retry
      <4> QED BY <4>1 DEF TurnInv
    <3>2. CASE ~overlapped
      BY <2>1, <3>2, TurnOfControl, TurnOfConnect, TurnOfSend, TurnOfReceive, TurnOfClose
         DEF ThreadStep
    <3> QED BY <3>1, <3>2
  <2> QED BY <2>1, TurnOfBegin, TurnOfHandle, TurnOfOther DEF Next
<1>3. TurnInv => TurnsAreClean
  BY DEF TurnInv, TurnsAreClean, OneOpen
<1> QED BY <1>1, <1>2, <1>3, Typing, PTL DEF Spec
=============================================================================
