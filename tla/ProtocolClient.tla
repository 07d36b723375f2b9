--------------------------- MODULE ProtocolClient ---------------------------
(***************************************************************************)
(* DatabaseClient of src/protocol.py, the connections it opens, and the    *)
(* handler threads that serve them.  Several threads may share a client:   *)
(* call sends and receives under _lock, but on an error it leaves the lock *)
(* before it closes the socket and retries.  self._socket is read again at *)
(* every use, so each use is a step.                                       *)
(*                                                                         *)
(* A request is abstracted to the call it belongs to, a response to that   *)
(* call and whether it is ok.  A timeout may fire at any moment, a request *)
(* may fail in the dispatcher, and a connection may be lost.               *)
(***************************************************************************)
EXTENDS Naturals, Sequences, FiniteSets

CONSTANTS
  Threads, NoThread,
  Calls,          \* calls each thread makes: a bound
  Retries         \* DatabaseClient(retries=...)

ASSUME ThreadsAssumption == IsFiniteSet(Threads) /\ NoThread \notin Threads
ASSUME CallsAssumption == Calls \in Nat
ASSUME RetriesAssumption == Retries \in Nat

VARIABLES
  sock,       \* _socket: a connection, or NoConn for None
  lock,       \* the holder of _lock
  conns,      \* the connections made so far
  pc,         \* the step of call each thread is at
  number,     \* how many calls each thread has begun
  idempotent, \* the argument of its current call
  attempt,    \* the iteration of its loop
  stream,     \* the connection it is receiving from
  result,     \* the response its last call returned, or NoResponse
  executed,   \* history: how often the server dispatched each call
  overlapped  \* history: a thread began a call during the call of another

clientVars == <<sock, lock>>
threadVars == <<pc, number, idempotent, attempt, stream, result>>
vars == <<clientVars, conns, threadVars, executed, overlapped>>

NoConn == 0
NoResponse == [call |-> << >>, ok |-> FALSE]

CallIds == Threads \X (1 .. Calls)
Current(t) == <<t, number[t]>>

(* A mutant: every call is retried.                                        *)
AttemptsForAll(t) == IF idempotent[t] THEN Retries + 1 ELSE Retries + 1

Attempts(t) == IF idempotent[t] THEN Retries + 1 ELSE 1

Connection == [open |-> TRUE, served |-> TRUE, requests |-> << >>, responses |-> << >>]

(* A closed connection: unread responses are gone, and its handler serves  *)
(* the requests it was sent before it sees the end of the stream.          *)
Closed(c) == [c EXCEPT !.open = FALSE, !.responses = << >>,
                       !.served = c.served /\ c.requests # << >>]

Init ==
  /\ sock = NoConn /\ lock = NoThread /\ conns = << >>
  /\ pc = [t \in Threads |-> "idle"]
  /\ number = [t \in Threads |-> 0]
  /\ idempotent = [t \in Threads |-> FALSE]
  /\ attempt = [t \in Threads |-> 1]
  /\ stream = [t \in Threads |-> NoConn]
  /\ result = [t \in Threads |-> NoResponse]
  /\ executed = [c \in CallIds |-> 0] /\ overlapped = FALSE

Goto(t, l) == pc' = [pc EXCEPT ![t] = l]

(* A mutant: the lock is not released when an exception is raised.         *)
FailsLocked(t) ==
  /\ lock' = lock
  /\ Goto(t, "failed")

(* An exception leaves the locked part of call; the except clause follows. *)
Fails(t) ==
  /\ lock' = NoThread
  /\ Goto(t, "failed")

(* An exception the except clause does not name ends the call.             *)
Stray(t) ==
  /\ lock' = IF lock = t THEN NoThread ELSE lock
  /\ Goto(t, "stray")

----------------------------------------------------------------------------
(* call, one action per use of the lock, the socket or the connection.     *)

Begin(t) ==
  /\ pc[t] \in {"idle", "stray"} /\ number[t] < Calls
  /\ number' = [number EXCEPT ![t] = @ + 1]
  /\ \E b \in BOOLEAN : idempotent' = [idempotent EXCEPT ![t] = b]
  /\ attempt' = [attempt EXCEPT ![t] = 1]
  /\ result' = [result EXCEPT ![t] = NoResponse]
  /\ overlapped' = (overlapped \/ \E u \in Threads : pc[u] \notin {"idle", "stray"})
  /\ Goto(t, "acquire")
  /\ UNCHANGED <<clientVars, conns, stream, executed>>

Acquire(t) ==
  /\ pc[t] = "acquire" /\ lock = NoThread
  /\ lock' = t
  /\ Goto(t, "connect")
  /\ UNCHANGED <<sock, conns, number, idempotent, attempt, stream, result, executed, overlapped>>

(* connect, when there is no socket yet.                                   *)
Connect(t) ==
  /\ pc[t] = "connect" /\ sock = NoConn
  /\ \/ /\ conns' = Append(conns, Connection)
        /\ sock' = Len(conns) + 1
        /\ lock' = lock
        /\ Goto(t, "send")
     \/ /\ Fails(t)
        /\ UNCHANGED <<sock, conns>>
  /\ UNCHANGED <<number, idempotent, attempt, stream, result, executed, overlapped>>

Connected(t) ==
  /\ pc[t] = "connect" /\ sock # NoConn
  /\ Goto(t, "send")
  /\ UNCHANGED <<clientVars, conns, number, idempotent, attempt, stream, result, executed, overlapped>>

(* The assertion that there is a socket, and sendall.                      *)
Send(t) ==
  /\ pc[t] = "send"
  /\ \/ /\ sock # NoConn /\ conns[sock].open
        /\ conns' = [conns EXCEPT ![sock].requests = Append(@, Current(t))]
        /\ Goto(t, "decode")
        /\ lock' = lock
     \/ /\ sock # NoConn /\ ~(conns[sock].open /\ conns[sock].served)
        /\ Fails(t)
        /\ conns' = conns
     \/ /\ sock = NoConn
        /\ Stray(t)
        /\ conns' = conns
  /\ UNCHANGED <<sock, number, idempotent, attempt, stream, result, executed, overlapped>>

(* decode_frame is called with the socket of this moment.                  *)
Decode(t) ==
  /\ pc[t] = "decode"
  /\ IF sock = NoConn
       THEN Stray(t) /\ stream' = stream
       ELSE Goto(t, "receive") /\ lock' = lock /\ stream' = [stream EXCEPT ![t] = sock]
  /\ UNCHANGED <<sock, conns, number, idempotent, attempt, result, executed, overlapped>>

(* The first response on the connection is taken to be the answer.         *)
Receive(t) ==
  /\ pc[t] = "receive"
  /\ LET c == conns[stream[t]]
     IN  /\ c.open /\ c.responses # << >>
         /\ conns' = [conns EXCEPT ![stream[t]].responses = Tail(@)]
         /\ IF Head(c.responses).ok
              THEN /\ result' = [result EXCEPT ![t] = Head(c.responses)]
                   /\ lock' = NoThread /\ Goto(t, "idle")
              ELSE Fails(t) /\ result' = result
  /\ stream' = [stream EXCEPT ![t] = NoConn]
  /\ UNCHANGED <<sock, number, idempotent, attempt, executed, overlapped>>

(* A timeout, the end of the stream, or a socket closed meanwhile.         *)
ReceiveFails(t) ==
  /\ pc[t] = "receive"
  /\ Fails(t)
  /\ stream' = [stream EXCEPT ![t] = NoConn]
  /\ UNCHANGED <<sock, conns, number, idempotent, attempt, result, executed, overlapped>>

(* A mutant: the socket is kept after an error.                            *)
KeepSocket(t) ==
  /\ pc[t] = "failed"
  /\ Goto(t, "retry")
  /\ UNCHANGED <<clientVars, conns, number, idempotent, attempt, stream, result, executed, overlapped>>

(* close: the test, close of the socket, and the assignment of None.       *)
CheckSocket(t) ==
  /\ pc[t] = "failed"
  /\ Goto(t, IF sock = NoConn THEN "retry" ELSE "close")
  /\ UNCHANGED <<clientVars, conns, number, idempotent, attempt, stream, result, executed, overlapped>>

CloseSocket(t) ==
  /\ pc[t] = "close"
  /\ IF sock = NoConn
       THEN Stray(t) /\ conns' = conns
       ELSE /\ conns' = [conns EXCEPT ![sock] = Closed(@)]
            /\ Goto(t, "clear") /\ lock' = lock
  /\ UNCHANGED <<sock, number, idempotent, attempt, stream, result, executed, overlapped>>

ClearSocket(t) ==
  /\ pc[t] = "clear"
  /\ sock' = NoConn
  /\ Goto(t, "retry")
  /\ UNCHANGED <<lock, conns, number, idempotent, attempt, stream, result, executed, overlapped>>

Retry(t) ==
  /\ pc[t] = "retry"
  /\ IF attempt[t] >= Attempts(t)
       THEN Goto(t, "idle") /\ attempt' = attempt
       ELSE Goto(t, "acquire") /\ attempt' = [attempt EXCEPT ![t] = @ + 1]
  /\ UNCHANGED <<clientVars, conns, number, idempotent, stream, result, executed, overlapped>>

----------------------------------------------------------------------------
(* The handler thread of connection c: it serves what was sent, also after *)
(* the client closed its end.                                              *)

Handle(c) ==
  /\ conns[c].served /\ conns[c].requests # << >>
  /\ LET r == Head(conns[c].requests)
         rest == [conns[c] EXCEPT !.requests = Tail(@)]
     IN  /\ executed' = [executed EXCEPT ![r] = @ + 1]
         /\ \E ok \in BOOLEAN :
              conns' = [conns EXCEPT ![c] =
                          IF rest.open
                            THEN [rest EXCEPT !.responses = Append(@, [call |-> r, ok |-> ok])]
                            ELSE Closed(rest)]
  /\ UNCHANGED <<clientVars, threadVars, overlapped>>

(* The handler ends or the connection is lost, and what was under way.     *)
LoseConnection(c) ==
  /\ conns[c].served
  /\ conns' = [conns EXCEPT ![c].served = FALSE, ![c].requests = << >>, ![c].responses = << >>]
  /\ UNCHANGED <<clientVars, threadVars, executed, overlapped>>

ThreadStep(t) ==
  \/ Acquire(t) \/ Connect(t) \/ Connected(t) \/ Send(t) \/ Decode(t)
  \/ Receive(t) \/ ReceiveFails(t)
  \/ CheckSocket(t) \/ CloseSocket(t) \/ ClearSocket(t) \/ Retry(t)

Next ==
  \/ \E t \in Threads : Begin(t) \/ ThreadStep(t)
  \/ \E c \in 1 .. Len(conns) : Handle(c) \/ LoseConnection(c)

Spec == Init /\ [][Next]_vars

(* Threads run, and a socket timeout ends every wait for a response.       *)
FairSpec == Spec /\ \A t \in Threads : WF_vars(ThreadStep(t))

----------------------------------------------------------------------------
(* Properties.                                                             *)

InLock == {"connect", "send", "decode", "receive"}

Response == [call : CallIds, ok : BOOLEAN]

(* Every variable keeps its type, and exactly the thread in the locked     *)
(* part of call holds the lock.                                            *)
TypeOK ==
  /\ sock \in 0 .. Len(conns) /\ lock \in Threads \union {NoThread}
  /\ conns \in Seq([open : BOOLEAN, served : BOOLEAN,
                    requests : Seq(CallIds), responses : Seq(Response)])
  /\ pc \in [Threads -> InLock \union {"idle", "stray", "acquire", "failed", "close",
                                       "clear", "retry"}]
  /\ number \in [Threads -> 0 .. Calls] /\ idempotent \in [Threads -> BOOLEAN]
  /\ attempt \in [Threads -> 1 .. Retries + 1] /\ stream \in [Threads -> 0 .. Len(conns)]
  /\ result \in [Threads -> Response \union {NoResponse}]
  /\ executed \in [CallIds -> Nat] /\ overlapped \in BOOLEAN
  /\ \A t \in Threads : pc[t] \in InLock <=> lock = t

(* A call that returns, returns the server's answer to its own request.    *)
OwnResponse == \A t \in Threads : result[t] # NoResponse => result[t].call = Current(t)

(* So it is, whatever timed out or was lost in this call and those before, *)
(* as long as the threads take turns; and the client has no connection     *)
(* open but the one it will use next.                                      *)
TurnsAreClean ==
  ~overlapped =>
    /\ OwnResponse
    /\ \A c \in 1 .. Len(conns) : conns[c].open => c = sock

(* "Bounded retries for idempotent reads": a call is dispatched at most    *)
(* once for each attempt, and a call that is not idempotent, such as an    *)
(* insert, at most once, although the response may be lost.                *)
ExecutionsBounded ==
  \A t \in Threads : number[t] > 0 =>
    executed[Current(t)] <= IF idempotent[t] THEN Retries + 1 ELSE 1

(* Every call ends: with a response, or by raising.                        *)
CallsEnd == \A t \in Threads : pc[t] = "acquire" ~> pc[t] \in {"idle", "stray"}
=============================================================================
