--------------------------- MODULE ReceiverProofs ---------------------------
(***************************************************************************)
(* Theorems about Receiver, for every set of messages, every number of     *)
(* handlers, any callers of Shutdown and every bound.                      *)
(***************************************************************************)
EXTENDS Receiver, FiniteSetTheorems, TLAPS

\* What the type invariant needs to be inductive: a busy worker has a
\* message, and after the handler returned a result, both of the right type.
WorkersHold ==
    /\ lpc = "send" => pending # <<>>
    /\ \A w \in Workers :
         /\ wpc[w] \notin Idle => wmsg[w] \in Message
         /\ wpc[w] \in {"dispose", "done"} => wres[w] \in Results

TypeInv == TypeOK /\ WorkersHold

LEMMA NoneIsNoMessage == None \notin Msgs
  BY ConstantsAssumption

LEMMA HeadTailType ==
  ASSUME NEW s \in Seq(Message), s # <<>>
  PROVE  Head(s) \in Message /\ Tail(s) \in Seq(Message)
  OBVIOUS

\* The types are right at all times (receiver.go:88-99 and the locals of
\* Listen and its goroutines).
THEOREM TypeInitially == Init => TypeInv
  <1> SUFFICES ASSUME Init PROVE TypeInv
    OBVIOUS
  <1>1. StructOK
    BY DEF Init, StructOK
  <1>2. ListenOK
    <2>1. ctxDone \in BOOLEAN BY DEF Init
    <2>2. nrecv \in {0,N} /\ opening \in Nat /\ wg \in Int /\ stranded \in Nat BY DEF Init
    <2>3. pending \in Seq(Message) BY DEF Init
    <2>5. chan \in Seq(Message) BY DEF Init
    <2>4. lpc \in {"idle", "open", "opened", "handlers", "start", "call", "recv", "add",
                "send", "returned"} BY DEF Init
    <2> QED BY <2>1, <2>2, <2>3, <2>4, <2>5 DEF ListenOK
  <1>3. WorkersOK
    BY DEF Init, WorkersOK, Idle
  <1>4. OutsideOK
    BY DEF Init, OutsideOK
  <1>5. WorkersHold
    BY DEF Init, WorkersHold, Idle
  <1> QED
    BY <1>1, <1>2, <1>3, <1>4, <1>5 DEF TypeInv, TypeOK

\* What every step is made of.
USE DEF Alive, Panic, ListenStep, WorkerStep, ShutdownStep, structVars,
        listenVars, roundVars, workerVars, bounds, outside, broker, process

\* The goroutine in Listen keeps the types.
LEMMA TypeListener ==
  ASSUME TypeInv, ListenStart \/ Listener
  PROVE  TypeInv'
  <1> USE DEF TypeInv, TypeOK
  <1>1. CASE ListenStart
    <2>1. StructOK'
      <3>1. listens' \in Nat
        <4>1. listens' = listens + 1
          BY <1>1 DEF ListenStart
        <4>2. listens \in Nat
          BY DEF StructOK
        <4> QED
          BY <4>1, <4>2
      <3> QED
        BY <1>1, <3>1 DEF ListenStart, StructOK
    <2>2. ListenOK'
      <3>1. stranded' \in Nat
        <4>1. IsFiniteSet({w \in Workers : wpc[w] # "off"})
          <5>1. IsFiniteSet(1..N)
            BY FS_Interval, ConstantsAssumption
          <5> QED
            BY <5>1, FS_Subset DEF Workers
        <4> QED
          BY <1>1, <4>1, FS_CardinalityType DEF ListenStart, ListenOK
      <3>2. lpc' = "open" /\ ctxDone' = FALSE
        BY <1>1 DEF ListenStart
      <3> QED
        BY <1>1, <3>1, <3>2 DEF ListenStart, ListenOK
    <2>3. WorkersOK'
      BY <1>1 DEF ListenStart, WorkersOK, Idle
    <2>4. OutsideOK'
      BY <1>1 DEF ListenStart, OutsideOK, Idle
    <2>5. WorkersHold'
      BY <1>1 DEF ListenStart, WorkersHold, Idle
    <2> QED
      BY <2>1, <2>2, <2>3, <2>4, <2>5
  <1>2. CASE OpenAgain
    BY <1>2 DEF OpenAgain, StructOK, ListenOK, WorkersOK, OutsideOK,
                WorkersHold, Idle
  <1>3. CASE OpenReceiver \/ OpenLoop
    <2>1. StructOK'
      BY <1>3 DEF OpenReceiver, OpenLoop, StructOK, Idle
    <2>2. ListenOK'
      <3>1. opening' = opening \/ opening' \in Nat
        BY <1>3, ConstantsAssumption DEF OpenReceiver, OpenLoop
      <3> QED
        BY <1>3, <3>1 DEF OpenReceiver, OpenLoop, ListenOK
    <2>3. WorkersOK'
      BY <1>3 DEF OpenReceiver, OpenLoop, WorkersOK, Idle
    <2>4. OutsideOK'
      BY <1>3 DEF OpenReceiver, OpenLoop, OutsideOK, Idle
    <2>5. WorkersHold'
      BY <1>3 DEF OpenReceiver, OpenLoop, WorkersHold, Idle
    <2> QED
      BY <2>1, <2>2, <2>3, <2>4, <2>5
  <1>4. CASE OpenReceiverFails
    BY <1>4 DEF OpenReceiverFails, StructOK, ListenOK, WorkersOK, OutsideOK,
                WorkersHold, Idle
  <1>5. CASE OpenHandler
    <2>1. StructOK'
      BY <1>5 DEF OpenHandler, StructOK, Idle
    <2>2. ListenOK'
      BY <1>5 DEF OpenHandler, ListenOK, Idle
    <2>3. WorkersOK'
      BY <1>5 DEF OpenHandler, WorkersOK, Idle
    <2>4. OutsideOK'
      BY <1>5 DEF OpenHandler, OutsideOK, Idle
    <2>5. WorkersHold'
      BY <1>5 DEF OpenHandler, WorkersHold, Idle
    <2> QED
      BY <2>1, <2>2, <2>3, <2>4, <2>5
  <1>6. CASE OpenHandlerFails
    BY <1>6 DEF OpenHandlerFails, StructOK, ListenOK, WorkersOK, OutsideOK,
                WorkersHold, Idle
  <1>7. CASE OpenHandlerGone
    BY <1>7 DEF OpenHandlerGone, StructOK, ListenOK, WorkersOK, OutsideOK,
                WorkersHold, Idle
  <1>8. CASE OpenDone
    BY <1>8 DEF OpenDone, StructOK, ListenOK, WorkersOK, OutsideOK,
                WorkersHold, Idle
  <1>9. CASE StartWorkers
    BY <1>9 DEF StartWorkers, StructOK, ListenOK, WorkersOK, OutsideOK,
                WorkersHold, Idle
  <1>10. CASE CallReceive
    BY <1>10 DEF CallReceive, StructOK, ListenOK, WorkersOK, OutsideOK,
                WorkersHold, Idle
  <1>11. CASE CallReceiveNil
    BY <1>11 DEF CallReceiveNil, StructOK, ListenOK, WorkersOK, OutsideOK,
                WorkersHold, Idle
  <1>12. CASE ReceiveMessages
    <2>1. StructOK'
      BY <1>12 DEF ReceiveMessages, StructOK, Idle
    <2>2. ListenOK'
      <3>0. PICK k \in 1..nrecv : \E q \in [1..k -> Ready] :
              pending' = [i \in 1..k |-> [id |-> q[i], lock |-> delivery[q[i]] + 1]]
        BY <1>12 DEF ReceiveMessages
      <3>1. PICK q \in [1..k -> Ready] :
              pending' = [i \in 1..k |-> [id |-> q[i], lock |-> delivery[q[i]] + 1]]
        BY <3>0
      <3>2. k \in Nat
        BY ConstantsAssumption DEF ListenOK
      <3>3. \A i \in 1..k : [id |-> q[i], lock |-> delivery[q[i]] + 1] \in Message
        BY DEF OutsideOK, Ready, Message
      <3>4. pending' \in Seq(Message)
        BY <3>1, <3>2, <3>3
      <3> QED
        BY <1>12, <3>4 DEF ReceiveMessages, ListenOK
    <2>3. WorkersOK'
      BY <1>12 DEF ReceiveMessages, WorkersOK, Idle
    <2>4. OutsideOK'
      BY <1>12 DEF ReceiveMessages, OutsideOK, Idle
    <2>5. WorkersHold'
      BY <1>12 DEF ReceiveMessages, WorkersHold, Idle
    <2> QED
      BY <2>1, <2>2, <2>3, <2>4, <2>5
  <1>13. CASE ReceiveFails
    BY <1>13 DEF ReceiveFails, StructOK, ListenOK, WorkersOK, OutsideOK,
                WorkersHold, Idle
  <1>14. CASE WgAdd
    BY <1>14 DEF WgAdd, StructOK, ListenOK, WorkersOK, OutsideOK,
                WorkersHold, Idle
  <1>15. CASE Send
    <2>1. StructOK'
      BY <1>15 DEF Send, StructOK, Idle
    <2>2. ListenOK'
      <3>1. pending # <<>>
        BY <1>15 DEF Send, WorkersHold
      <3>2. Head(pending) \in Message /\ Tail(pending) \in Seq(Message)
        BY <3>1, HeadTailType DEF ListenOK
      <3> QED
        BY <1>15, <3>2 DEF Send, ListenOK
    <2>3. WorkersOK'
      BY <1>15 DEF Send, WorkersOK, Idle
    <2>4. OutsideOK'
      BY <1>15 DEF Send, OutsideOK, Idle
    <2>5. WorkersHold'
      BY <1>15 DEF Send, WorkersHold, Idle
    <2> QED
      BY <2>1, <2>2, <2>3, <2>4, <2>5
  <1>16. CASE WgWait
    BY <1>16 DEF WgWait, StructOK, ListenOK, WorkersOK, OutsideOK,
                WorkersHold, Idle
  <1> QED
    BY <1>1, <1>2, <1>3, <1>4, <1>5, <1>6, <1>7, <1>8, <1>9, <1>10, <1>11, <1>12, <1>13, <1>14, <1>15, <1>16 DEF Listener

\* So does every worker, and the renewal of its message's lock.
LEMMA TypeWorker ==
  ASSUME TypeInv, NEW w \in Workers,
         WorkerExit(w) \/ Worker(w) \/ RenewTickNil(w) \/ RenewStop(w)
  PROVE  TypeInv'
  <1> USE DEF TypeInv, TypeOK
  <1>1. CASE WorkerExit(w)
    BY <1>1 DEF WorkerExit, StructOK, ListenOK, WorkersOK, OutsideOK,
                WorkersHold, Idle
  <1>2. CASE WorkerTake(w)
    BY <1>2 DEF WorkerTake, StructOK, ListenOK, WorkersOK, OutsideOK,
                WorkersHold, Idle
  <1>3. CASE WorkerHandle(w)
    BY <1>3 DEF WorkerHandle, StructOK, ListenOK, WorkersOK, OutsideOK,
                WorkersHold, Idle
  <1>4. CASE WorkerHandlerGone(w)
    BY <1>4 DEF WorkerHandlerGone, StructOK, ListenOK, WorkersOK, OutsideOK,
                WorkersHold, Idle
  <1>5. CASE HandlerReturn(w)
    <2>1. StructOK'
      BY <1>5 DEF HandlerReturn, StructOK, Idle
    <2>2. ListenOK'
      BY <1>5 DEF HandlerReturn, ListenOK, Idle
    <2>3. WorkersOK'
      BY <1>5 DEF HandlerReturn, WorkersOK, Idle
    <2>4. OutsideOK'
      <3>1. PICK r \in Results :
              verdicts' = verdicts \cup
                {[id |-> wmsg[w].id, lock |-> wmsg[w].lock, d |-> r.d]}
        BY <1>5 DEF HandlerReturn
      <3>2. wmsg[w] \in Message /\ r.d \in Disposition
        BY <1>5, ConstantsAssumption DEF HandlerReturn, WorkersHold, Idle
      <3>3. [id |-> wmsg[w].id, lock |-> wmsg[w].lock, d |-> r.d]
              \in [id : Msgs, lock : Nat, d : Disposition]
        BY <3>2 DEF Message
      <3>4. verdicts' \subseteq [id : Msgs, lock : Nat, d : Disposition]
        BY <3>1, <3>3 DEF OutsideOK
      <3> QED
        BY <1>5, <3>4 DEF HandlerReturn, OutsideOK
    <2>5. WorkersHold'
      <3>0. lpc' = "send" => pending' # <<>>
        BY <1>5 DEF HandlerReturn, WorkersHold
      <3> SUFFICES ASSUME NEW v \in Workers
                   PROVE  /\ wpc'[v] \notin Idle => wmsg'[v] \in Message
                          /\ wpc'[v] \in {"dispose", "done"} => wres'[v] \in Results
        BY <3>0 DEF WorkersHold
      <3> QED
        BY <1>5 DEF HandlerReturn, WorkersOK, WorkersHold, Idle
    <2> QED
      BY <2>1, <2>2, <2>3, <2>4, <2>5
  <1>6. CASE DisposeSettle(w)
    <2>1. StructOK'
      BY <1>6 DEF DisposeSettle, StructOK, Idle
    <2>2. ListenOK'
      BY <1>6 DEF DisposeSettle, ListenOK, Idle
    <2>3. WorkersOK'
      BY <1>6 DEF DisposeSettle, WorkersOK, Idle
    <2>4. OutsideOK'
      <3>1. wmsg[w].id \in Msgs
        BY <1>6 DEF DisposeSettle, WorkersHold, Idle, Message
      <3>2. Outcome(wres[w].d) \in {"completed", "deadlettered", "ready"}
        BY <1>6 DEF DisposeSettle, Settling, Outcome
      <3>3. bst' \in [Msgs -> {"ready", "locked", "elsewhere", "completed",
                               "deadlettered", "gone"}]
        BY <1>6, <3>1, <3>2 DEF DisposeSettle, OutsideOK
      <3> QED
        BY <1>6, <3>3 DEF DisposeSettle, OutsideOK
    <2>5. WorkersHold'
      BY <1>6 DEF DisposeSettle, WorkersHold, Idle
    <2> QED
      BY <2>1, <2>2, <2>3, <2>4, <2>5
  <1>7. CASE DisposeNothing(w)
    BY <1>7 DEF DisposeNothing, StructOK, ListenOK, WorkersOK, OutsideOK,
                WorkersHold, Idle
  <1>8. CASE DisposeNilReceiver(w)
    BY <1>8 DEF DisposeNilReceiver, StructOK, ListenOK, WorkersOK, OutsideOK,
                WorkersHold, Idle
  <1>9. CASE DisposeNilErr(w)
    <2>1. StructOK'
      BY <1>9 DEF DisposeNilErr, StructOK, Idle
    <2>2. ListenOK'
      BY <1>9 DEF DisposeNilErr, ListenOK, Idle
    <2>3. WorkersOK'
      BY <1>9 DEF DisposeNilErr, WorkersOK, Idle
    <2>4. OutsideOK'
      BY <1>9 DEF DisposeNilErr, OutsideOK, Idle
    <2>5. WorkersHold'
      BY <1>9 DEF DisposeNilErr, WorkersHold, Idle
    <2> QED
      BY <2>1, <2>2, <2>3, <2>4, <2>5
  <1>10. CASE WorkerDone(w)
    BY <1>10 DEF WorkerDone, StructOK, ListenOK, WorkersOK, OutsideOK,
                WorkersHold, Idle
  <1>11. CASE RenewTickNil(w)
    BY <1>11 DEF RenewTickNil, StructOK, ListenOK, WorkersOK, OutsideOK,
                WorkersHold, Idle
  <1>12. CASE RenewStop(w)
    BY <1>12 DEF RenewStop, StructOK, ListenOK, WorkersOK, OutsideOK,
                WorkersHold, Idle
  <1> QED
    BY <1>1, <1>2, <1>3, <1>4, <1>5, <1>6, <1>7, <1>8, <1>9, <1>10, <1>11, <1>12 DEF Worker

\* So does every caller of Shutdown.
LEMMA TypeShutdown ==
  ASSUME TypeInv, NEW c \in Closers,
         ShutdownCancel(c) \/ ShutdownNil(c) \/ Closing(c)
  PROVE  TypeInv'
  <1> USE DEF TypeInv, TypeOK
  <1>1. CASE ShutdownCancel(c)
    BY <1>1 DEF ShutdownCancel, StructOK, ListenOK, WorkersOK, OutsideOK,
                WorkersHold, Idle
  <1>2. CASE ShutdownNil(c)
    BY <1>2 DEF ShutdownNil, StructOK, ListenOK, WorkersOK, OutsideOK,
                WorkersHold, Idle
  <1>3. CASE CloseCheck(c)
    <2>1. StructOK'
      BY <1>3 DEF CloseCheck, StructOK, Idle
    <2>2. ListenOK'
      BY <1>3 DEF CloseCheck, ListenOK, Idle
    <2>3. WorkersOK'
      BY <1>3 DEF CloseCheck, WorkersOK, Idle
    <2>4. OutsideOK'
      BY <1>3 DEF CloseCheck, OutsideOK, Idle
    <2>5. WorkersHold'
      BY <1>3 DEF CloseCheck, WorkersHold, Idle
    <2> QED
      BY <2>1, <2>2, <2>3, <2>4, <2>5
  <1>4. CASE CloseLock(c)
    BY <1>4 DEF CloseLock, StructOK, ListenOK, WorkersOK, OutsideOK,
                WorkersHold, Idle
  <1>5. CASE CloseHandlers(c)
    BY <1>5 DEF CloseHandlers, StructOK, ListenOK, WorkersOK, OutsideOK,
                WorkersHold, Idle
  <1>6. CASE CloseLink(c)
    BY <1>6 DEF CloseLink, StructOK, ListenOK, WorkersOK, OutsideOK,
                WorkersHold, Idle
  <1>7. CASE CloseLinkNil(c)
    BY <1>7 DEF CloseLinkNil, StructOK, ListenOK, WorkersOK, OutsideOK,
                WorkersHold, Idle
  <1>8. CASE CloseClear(c)
    BY <1>8 DEF CloseClear, StructOK, ListenOK, WorkersOK, OutsideOK,
                WorkersHold, Idle
  <1> QED
    BY <1>1, <1>2, <1>3, <1>4, <1>5, <1>6, <1>7, <1>8 DEF Closing

\* So does the broker.
LEMMA TypeBroker ==
  ASSUME TypeInv, NEW m \in Msgs,
         Expire(m) \/ ReceiveElsewhere(m) \/ SettleElsewhere(m)
  PROVE  TypeInv'
  <1> USE DEF TypeInv, TypeOK
  <1>1. CASE Expire(m)
    <2>1. StructOK'
      BY <1>1 DEF Expire, StructOK, Idle
    <2>2. ListenOK'
      BY <1>1 DEF Expire, ListenOK, Idle
    <2>3. WorkersOK'
      BY <1>1 DEF Expire, WorkersOK, Idle
    <2>4. OutsideOK'
      BY <1>1 DEF Expire, OutsideOK, Idle
    <2>5. WorkersHold'
      BY <1>1 DEF Expire, WorkersHold, Idle
    <2> QED
      BY <2>1, <2>2, <2>3, <2>4, <2>5
  <1>2. CASE ReceiveElsewhere(m)
    <2>1. StructOK'
      BY <1>2 DEF ReceiveElsewhere, StructOK, Idle
    <2>2. ListenOK'
      BY <1>2 DEF ReceiveElsewhere, ListenOK, Idle
    <2>3. WorkersOK'
      BY <1>2 DEF ReceiveElsewhere, WorkersOK, Idle
    <2>4. OutsideOK'
      BY <1>2 DEF ReceiveElsewhere, OutsideOK, Idle
    <2>5. WorkersHold'
      BY <1>2 DEF ReceiveElsewhere, WorkersHold, Idle
    <2> QED
      BY <2>1, <2>2, <2>3, <2>4, <2>5
  <1>3. CASE SettleElsewhere(m)
    <2>1. StructOK'
      BY <1>3 DEF SettleElsewhere, StructOK, Idle
    <2>2. ListenOK'
      BY <1>3 DEF SettleElsewhere, ListenOK, Idle
    <2>3. WorkersOK'
      BY <1>3 DEF SettleElsewhere, WorkersOK, Idle
    <2>4. OutsideOK'
      BY <1>3 DEF SettleElsewhere, OutsideOK, Idle
    <2>5. WorkersHold'
      BY <1>3 DEF SettleElsewhere, WorkersHold, Idle
    <2> QED
      BY <2>1, <2>2, <2>3, <2>4, <2>5
  <1> QED
    BY <1>1, <1>2, <1>3

\* So does a restart of the process.
LEMMA TypeRestart ==
  ASSUME TypeInv, Restart
  PROVE  TypeInv'
  <1> USE DEF TypeInv, TypeOK
  <1>1. CASE Restart
    <2>1. StructOK'
      <3>1. restarts' \in Nat
        <4>1. restarts' = restarts + 1
          BY <1>1 DEF Restart
        <4>2. restarts \in Nat
          BY DEF StructOK
        <4> QED
          BY <4>1, <4>2
      <3>2. spc' \in [Closers -> {"idle"}] /\ mtx' = None /\ handlers' = N
        BY <1>1 DEF Restart
      <3>3. receiver' = "nil" /\ cancel' = "nil" /\ panic' = "no" /\ listens' = 0
        BY <1>1 DEF Restart
      <3> QED
        BY <3>1, <3>2, <3>3 DEF StructOK
    <2>2. ListenOK'
      <3>1. ctxDone' \in BOOLEAN /\ lpc' = "idle"
        BY <1>1 DEF Restart
      <3>2. opening' \in Nat /\ nrecv' \in {0, N} /\ wg' \in Int /\ stranded' \in Nat
        BY <1>1 DEF Restart
      <3>3. pending' \in Seq(Message) /\ chan' \in Seq(Message)
        BY <1>1 DEF Restart
      <3> QED
        BY <3>1, <3>2, <3>3 DEF ListenOK
    <2>3. WorkersOK'
      BY <1>1 DEF Restart, WorkersOK, Idle
    <2>4. OutsideOK'
      BY <1>1 DEF Restart, OutsideOK, Idle
    <2>5. WorkersHold'
      BY <1>1 DEF Restart, WorkersHold, Idle
    <2> QED
      BY <2>1, <2>2, <2>3, <2>4, <2>5
  <1> QED
    BY <1>1

LEMMA TypeStep == TypeInv /\ [Next]_vars => TypeInv'
  <1> SUFFICES ASSUME TypeInv, [Next]_vars PROVE TypeInv'
    OBVIOUS
  <1> StructOK /\ ListenOK /\ WorkersOK /\ OutsideOK /\ WorkersHold
    BY DEF TypeInv, TypeOK
  <1>1. CASE UNCHANGED vars
    <2>1. StructOK'
      BY <1>1 DEF vars, StructOK
    <2>2. ListenOK'
      BY <1>1 DEF vars, ListenOK
    <2>3. WorkersOK'
      BY <1>1 DEF vars, WorkersOK
    <2>4. OutsideOK'
      BY <1>1 DEF vars, OutsideOK
    <2>5. WorkersHold'
      BY <1>1 DEF vars, WorkersHold
    <2> QED
      BY <2>1, <2>2, <2>3, <2>4, <2>5 DEF TypeInv, TypeOK
  <1> QED
    BY <1>1, TypeListener, TypeWorker, TypeShutdown, TypeBroker, TypeRestart
    DEF Next

\* The types are right at all times (receiver.go:88-99 and the locals of
\* Listen and its goroutines), however many Listens, Shutdowns and restarts.
THEOREM TypeCorrect == Spec => []TypeOK
  BY TypeInitially, TypeStep, PTL DEF Spec, TypeInv

-----------------------------------------------------------------------------
(* The WaitGroup and the barrier *)

InRoundLoop == lpc \in {"add", "send"}

\* The counter is inductive together with the facts that it is zero outside
\* the hand-over loop and that a round has at most nrecv messages.
RoundInv ==
    /\ WaitGroupBalance
    /\ ~InRoundLoop => wg = 0 /\ pending = <<>>
    /\ InRoundLoop => Len(pending) + Len(chan) + Cardinality(Busy) <= nrecv

LEMMA BusyFinite == IsFiniteSet(Busy) /\ Cardinality(Busy) \in Nat
  <1>1. IsFiniteSet(1..N)
    BY FS_Interval, ConstantsAssumption
  <1>2. IsFiniteSet(Busy)
    BY <1>1, FS_Subset DEF Busy, Workers
  <1> QED
    BY <1>2, FS_CardinalityType

\* A worker takes up a message, keeps it, is done with it.
LEMMA BusyMore ==
  ASSUME TypeInv, NEW w \in Workers, wpc[w] \in Idle, NEW s, s \notin Idle,
         wpc' = [wpc EXCEPT ![w] = s]
  PROVE  Busy' = Busy \cup {w} /\ Cardinality(Busy') = Cardinality(Busy) + 1
  <1>1. w \notin Busy /\ Busy' = Busy \cup {w}
    BY DEF Busy, TypeInv, TypeOK, WorkersOK
  <1> QED
    BY <1>1, BusyFinite, FS_AddElement

LEMMA BusySame ==
  ASSUME TypeInv, NEW w \in Workers, NEW s, wpc[w] \in Idle <=> s \in Idle,
         wpc' = [wpc EXCEPT ![w] = s]
  PROVE  Busy' = Busy
  BY DEF Busy, TypeInv, TypeOK, WorkersOK

LEMMA BusyLess ==
  ASSUME TypeInv, NEW w \in Workers, wpc[w] \notin Idle, NEW s, s \in Idle,
         wpc' = [wpc EXCEPT ![w] = s]
  PROVE  Busy' = Busy \ {w} /\ Cardinality(Busy') = Cardinality(Busy) - 1
  <1>1. w \in Busy /\ Busy' = Busy \ {w}
    BY DEF Busy, TypeInv, TypeOK, WorkersOK
  <1> QED
    BY <1>1, BusyFinite, FS_RemoveElement

\* Outside the loop nothing is in progress.
LEMMA Quiet ==
  ASSUME TypeInv, RoundInv, ~InRoundLoop
  PROVE  wg = 0 /\ pending = <<>> /\ chan = <<>> /\ Busy = {}
  <1>1. wg = 0 /\ pending = <<>> /\ lpc # "send"
    BY DEF RoundInv, InRoundLoop
  <1>2. wg = Len(chan) + Cardinality(Busy) + 0
    BY <1>1 DEF RoundInv, WaitGroupBalance
  <1>3. chan \in Seq(Message) /\ Len(chan) \in Nat
    BY DEF TypeInv, TypeOK, ListenOK
  <1>4. Len(chan) = 0 /\ Cardinality(Busy) = 0
    BY <1>1, <1>2, <1>3, BusyFinite
  <1> QED
    BY <1>1, <1>3, <1>4, BusyFinite, FS_EmptySet

\* A step that leaves the round alone, or moves Listen outside the loop.
LEMMA RoundUntouched ==
  ASSUME RoundInv, UNCHANGED roundVars, Busy' = Busy,
         \/ UNCHANGED <<lpc, nrecv>>
         \/ ~InRoundLoop /\ ~InRoundLoop'
  PROVE  RoundInv'
  BY DEF RoundInv, WaitGroupBalance, InRoundLoop

LEMMA RoundListener ==
  ASSUME TypeInv, TypeInv', RoundInv, ListenStart \/ Listener
  PROVE  RoundInv'
  <1> USE DEF InRoundLoop
  <1>1. CASE ListenStart
    <2>1. wg = 0 /\ pending = <<>> /\ chan = <<>>
      BY <1>1, Quiet DEF ListenStart
    <2>2. Busy' = {}
      BY <1>1 DEF ListenStart, Busy, Idle
    <2>3. Cardinality(Busy') = 0
      BY <2>2, FS_EmptySet
    <2> QED
      BY <1>1, <2>1, <2>3 DEF ListenStart, RoundInv, WaitGroupBalance
  <1>2. CASE OpenAgain \/ OpenReceiver \/ OpenReceiverFails \/ OpenLoop
             \/ OpenHandler \/ OpenHandlerFails \/ OpenHandlerGone \/ OpenDone \/ CallReceive
             \/ CallReceiveNil \/ ReceiveFails
    <2>1. UNCHANGED roundVars /\ ~InRoundLoop /\ ~InRoundLoop'
      BY <1>2 DEF OpenAgain, OpenReceiver, OpenReceiverFails, OpenLoop,
           OpenHandler, OpenHandlerFails, OpenHandlerGone, OpenDone, CallReceive,
           CallReceiveNil, ReceiveFails
    <2>2. UNCHANGED wpc
      BY <1>2 DEF OpenAgain, OpenReceiver, OpenReceiverFails, OpenLoop,
           OpenHandler, OpenHandlerFails, OpenHandlerGone, OpenDone, CallReceive,
           CallReceiveNil, ReceiveFails
    <2> QED
      BY <2>1, <2>2, RoundUntouched DEF Busy
  <1>3. CASE StartWorkers
    <2>1. Busy' = {}
      BY <1>3 DEF StartWorkers, Busy, Idle
    <2>2. Cardinality(Busy') = 0
      BY <2>1, FS_EmptySet
    <2>3. pending = <<>>
      BY <1>3, Quiet DEF StartWorkers
    <2> QED
      BY <1>3, <2>2, <2>3 DEF StartWorkers, RoundInv, WaitGroupBalance
  <1>4. CASE ReceiveMessages
    <2>1. wg = 0 /\ chan = <<>> /\ Busy = {}
      BY <1>4, Quiet DEF ReceiveMessages
    <2>2. Cardinality(Busy') = 0
      BY <1>4, <2>1, FS_EmptySet DEF ReceiveMessages, Busy
    <2>3. Len(pending') <= nrecv
      <3>1. PICK k \in 1..nrecv : \E q \in [1..k -> Ready] :
              pending' = [i \in 1..k |-> [id |-> q[i], lock |-> delivery[q[i]] + 1]]
        BY <1>4 DEF ReceiveMessages
      <3>2. k \in Nat /\ DOMAIN pending' = 1..k
        BY <3>1, ConstantsAssumption DEF TypeInv, TypeOK, ListenOK
      <3>3. Len(pending') \in Nat /\ DOMAIN pending' = 1..Len(pending')
        BY DEF TypeInv, TypeOK, ListenOK
      <3> QED
        BY <3>1, <3>2, <3>3, ConstantsAssumption DEF TypeInv, TypeOK, ListenOK
    <2>4. Len(pending') \in Nat
      BY DEF TypeInv, TypeOK, ListenOK
    <2> QED
      BY <1>4, <2>1, <2>2, <2>3, <2>4
      DEF ReceiveMessages, RoundInv, WaitGroupBalance
  <1>5. CASE WgAdd
    <2>1. Busy' = Busy
      BY <1>5 DEF WgAdd, Busy
    <2>2. Len(chan) \in Nat /\ wg \in Int
      BY DEF TypeInv, TypeOK, ListenOK
    <2> QED
      BY <1>5, <2>1, <2>2, BusyFinite DEF WgAdd, RoundInv, WaitGroupBalance
  <1>6. CASE Send
    <2>1. Busy' = Busy
      BY <1>6 DEF Send, Busy
    <2>2. pending # <<>> /\ pending \in Seq(Message) /\ chan \in Seq(Message)
      BY <1>6 DEF Send, TypeInv, TypeOK, ListenOK, WorkersHold
    <2>3. Len(chan') = Len(chan) + 1 /\ Len(pending') = Len(pending) - 1
      BY <1>6, <2>2 DEF Send
    <2>4. Len(pending) \in Nat /\ Len(chan) \in Nat /\ wg \in Int /\ nrecv \in Nat
      BY <2>2, ConstantsAssumption DEF TypeInv, TypeOK, ListenOK
    <2>5. wg = Len(chan) + Cardinality(Busy) + 1
      BY <1>6 DEF Send, RoundInv, WaitGroupBalance
    <2>6. Len(pending) + Len(chan) + Cardinality(Busy) <= nrecv
      BY <1>6 DEF Send, RoundInv
    <2>7. wg' = wg /\ nrecv' = nrecv /\ lpc' = "add"
      BY <1>6 DEF Send
    <2>8. WaitGroupBalance'
      BY <2>1, <2>3, <2>4, <2>5, <2>7, BusyFinite DEF WaitGroupBalance
    <2>9. Len(pending') + Len(chan') + Cardinality(Busy') <= nrecv'
      BY <2>1, <2>3, <2>4, <2>6, <2>7, BusyFinite
    <2> QED
      BY <2>7, <2>8, <2>9 DEF RoundInv
  <1>7. CASE WgWait
    <2>1. Busy' = Busy
      BY <1>7 DEF WgWait, Busy
    <2> QED
      BY <1>7, <2>1 DEF WgWait, RoundInv, WaitGroupBalance
  <1> QED
    BY <1>1, <1>2, <1>3, <1>4, <1>5, <1>6, <1>7 DEF Listener

LEMMA RoundWorker ==
  ASSUME TypeInv, RoundInv, NEW w \in Workers,
         WorkerExit(w) \/ Worker(w) \/ RenewTickNil(w) \/ RenewStop(w)
  PROVE  RoundInv'
  <1> USE DEF InRoundLoop
  <1>0. /\ Len(pending) \in Nat /\ chan \in Seq(Message) /\ Len(chan) \in Nat
        /\ wg \in Int /\ nrecv \in Nat
    BY ConstantsAssumption DEF TypeInv, TypeOK, ListenOK
  <1>1. CASE WorkerTake(w)
    <2>1. Cardinality(Busy') = Cardinality(Busy) + 1
      BY <1>1, BusyMore DEF WorkerTake, Idle
    <2>2. Len(chan') = Len(chan) - 1
      BY <1>0, <1>1 DEF WorkerTake
    <2> QED
      BY <1>0, <1>1, <2>1, <2>2, BusyFinite
      DEF WorkerTake, RoundInv, WaitGroupBalance
  <1>2. CASE WorkerDone(w)
    <2>1. Cardinality(Busy') = Cardinality(Busy) - 1
      BY <1>2, BusyLess DEF WorkerDone, Idle
    <2>2. InRoundLoop
      <3>1. w \in Busy
        BY <1>2 DEF WorkerDone, Busy, Idle
      <3> QED
        BY <3>1, Quiet
    <2>3. Len(pending) + Len(chan) + Cardinality(Busy) <= nrecv
      BY <2>2 DEF RoundInv
    <2>4. wg' = wg - 1 /\ UNCHANGED <<lpc, pending, chan, nrecv>>
      BY <1>2 DEF WorkerDone
    <2>5. WaitGroupBalance'
      BY <1>0, <2>1, <2>4, BusyFinite DEF RoundInv, WaitGroupBalance
    <2>6. Len(pending') + Len(chan') + Cardinality(Busy') <= nrecv'
      BY <1>0, <2>1, <2>3, <2>4, BusyFinite
    <2> QED
      BY <2>2, <2>4, <2>5, <2>6 DEF RoundInv
  <1>3. CASE WorkerExit(w) \/ WorkerHandle(w) \/ HandlerReturn(w)
             \/ DisposeSettle(w) \/ DisposeNothing(w)
    <2>1. UNCHANGED <<lpc, nrecv, roundVars>>
      BY <1>3 DEF WorkerExit, WorkerHandle, HandlerReturn, DisposeSettle,
           DisposeNothing
    <2>2. \E s : wpc' = [wpc EXCEPT ![w] = s] /\ (wpc[w] \in Idle <=> s \in Idle)
      BY <1>3 DEF WorkerExit, WorkerHandle, HandlerReturn, DisposeSettle,
           DisposeNothing, Idle
    <2> QED
      BY <2>1, <2>2, BusySame, RoundUntouched
  <1>4. CASE WorkerHandlerGone(w) \/ DisposeNilReceiver(w) \/ DisposeNilErr(w)
             \/ RenewTickNil(w) \/ RenewStop(w)
    <2>1. UNCHANGED <<lpc, nrecv, wpc, roundVars>>
      BY <1>4 DEF WorkerHandlerGone, DisposeNilReceiver, DisposeNilErr,
           RenewTickNil, RenewStop
    <2> QED
      BY <2>1, RoundUntouched DEF Busy
  <1> QED
    BY <1>1, <1>2, <1>3, <1>4 DEF Worker

\* The steps of Shutdown, of the broker, and none: they leave the round alone.
Aside ==
    \/ \E c \in Closers : ShutdownCancel(c) \/ ShutdownNil(c) \/ Closing(c)
    \/ \E m \in Msgs : Expire(m) \/ ReceiveElsewhere(m) \/ SettleElsewhere(m)
    \/ UNCHANGED vars

LEMMA AsideLeavesRound ==
  ASSUME Aside
  PROVE  UNCHANGED <<lpc, nrecv, pending, chan, wg, wpc, wmsg, wres>>
  <1>1. CASE UNCHANGED vars
    BY <1>1 DEF vars
  <1>2. ASSUME NEW m \in Msgs,
               Expire(m) \/ ReceiveElsewhere(m) \/ SettleElsewhere(m)
        PROVE  UNCHANGED <<lpc, nrecv, pending, chan, wg, wpc, wmsg, wres>>
    BY <1>2 DEF Expire, ReceiveElsewhere, SettleElsewhere
  <1>3. ASSUME NEW c \in Closers,
               ShutdownCancel(c) \/ ShutdownNil(c) \/ Closing(c)
        PROVE  UNCHANGED <<lpc, nrecv, pending, chan, wg, wpc, wmsg, wres>>
    BY <1>3 DEF ShutdownCancel, ShutdownNil, Closing, CloseCheck, CloseLock,
         CloseHandlers, CloseLink, CloseLinkNil, CloseClear
  <1> QED
    BY <1>1, <1>2, <1>3 DEF Aside

LEMMA RoundAside ==
  ASSUME RoundInv, Aside
  PROVE  RoundInv'
  BY AsideLeavesRound, RoundUntouched DEF Busy

\* A process that starts has nothing in progress.
LEMMA RoundStart ==
  ASSUME lpc = "idle", wg = 0, pending = <<>>, chan = <<>>,
         wpc = [w \in Workers |-> "off"]
  PROVE  RoundInv
  <1>1. Busy = {}
    BY DEF Busy, Idle
  <1>2. Cardinality(Busy) = 0
    BY <1>1, FS_EmptySet
  <1> QED
    BY <1>2 DEF RoundInv, WaitGroupBalance, InRoundLoop

LEMMA RoundInvariant == Spec => [](TypeInv /\ RoundInv)
  <1>1. Init => TypeInv /\ RoundInv
    BY TypeInitially, RoundStart DEF Init
  <1>2. TypeInv /\ RoundInv /\ [Next]_vars => (TypeInv /\ RoundInv)'
    <2> SUFFICES ASSUME TypeInv, RoundInv, [Next]_vars
                 PROVE  (TypeInv /\ RoundInv)'
      OBVIOUS
    <2>1. TypeInv'
      BY TypeStep
    <2>2. CASE ListenStart \/ Listener
      BY <2>1, <2>2, RoundListener
    <2>3. CASE \E w \in Workers : \/ WorkerExit(w) \/ Worker(w)
                                  \/ RenewTickNil(w) \/ RenewStop(w)
      BY <2>1, <2>3, RoundWorker
    <2>4. CASE Aside
      BY <2>1, <2>4, RoundAside
    <2>5. CASE Restart
      <3>1. /\ lpc' = "idle" /\ wg' = 0 /\ pending' = <<>> /\ chan' = <<>>
            /\ wpc' = [w \in Workers |-> "off"]
        BY <2>5 DEF Restart
      <3>2. Busy' = {}
        BY <3>1 DEF Busy, Idle
      <3>3. Cardinality(Busy') = 0
        BY <3>2, FS_EmptySet
      <3> QED
        BY <2>1, <3>1, <3>3 DEF RoundInv, WaitGroupBalance, InRoundLoop
    <2> QED
      BY <2>2, <2>3, <2>4, <2>5 DEF Next, Aside
  <1> QED
    BY <1>1, <1>2, PTL DEF Spec

\* The WaitGroup counts the messages in progress exactly, whatever Shutdown
\* and restarts do: receiver.go:274 and 300 stay balanced.
THEOREM WaitGroupBalanced == Spec => []WaitGroupBalance
  <1>1. RoundInv => WaitGroupBalance
    BY DEF RoundInv
  <1> QED
    BY <1>1, RoundInvariant, PTL

\* wg.Wait (receiver.go:303) is a barrier between rounds.
THEOREM BarrierHolds == Spec => []Barrier
  <1>1. TypeInv /\ RoundInv => Barrier
    BY Quiet DEF Barrier, InRoundLoop
  <1> QED
    BY <1>1, RoundInvariant, PTL

\* `msgs <-` (receiver.go:301) never blocks the dispatcher.
THEOREM SendDoesNotBlock == Spec => []SendNeverBlocks
  <1>1. ASSUME TypeInv, RoundInv, lpc = "send"
        PROVE  Len(chan) < nrecv
    <2>1. pending # <<>> /\ pending \in Seq(Message) /\ chan \in Seq(Message)
      BY <1>1 DEF TypeInv, TypeOK, ListenOK, WorkersHold
    <2>2. Len(pending) \in Nat \ {0} /\ Len(chan) \in Nat /\ nrecv \in Nat
      BY <1>1, <2>1, ConstantsAssumption DEF TypeInv, TypeOK, ListenOK
    <2> QED
      BY <1>1, <2>2, BusyFinite DEF RoundInv, InRoundLoop
  <1> QED
    BY <1>1, RoundInvariant, PTL DEF SendNeverBlocks

\* Until the context is cancelled no worker of the current Listen leaves: there
\* is one for each message of a round.
Staffed ==
    lpc \in {"call", "recv", "add", "send"} /\ ~ctxDone =>
        \A w \in Workers : w <= nrecv => wpc[w] # "off"

\* What leaves Listen where it is, cancels at most, and ends no worker.
LEMMA StaffedSame ==
  ASSUME Staffed, nrecv' = nrecv, ctxDone => ctxDone',
         lpc' \in {"call", "recv", "add", "send"} =>
            lpc \in {"call", "recv", "add", "send"},
         \A w \in Workers : wpc'[w] = "off" => wpc[w] = "off"
  PROVE  Staffed'
  BY DEF Staffed

LEMMA StaffedListener ==
  ASSUME Staffed, ListenStart \/ Listener
  PROVE  Staffed'
  <1>1. CASE ListenStart
    BY <1>1 DEF ListenStart, ListenStep, Staffed
  <1>2. CASE StartWorkers
    BY <1>2 DEF StartWorkers, Staffed
  <1>3. CASE CallReceive \/ ReceiveMessages \/ ReceiveFails \/ WgAdd \/ Send
             \/ WgWait
    BY <1>3, StaffedSame DEF CallReceive, ReceiveMessages, ReceiveFails, WgAdd,
       Send, WgWait, ListenStep, listenVars
  <1>4. CASE CallReceiveNil \/ OpenHandlerGone
    BY <1>4, StaffedSame DEF CallReceiveNil, OpenHandlerGone, Panic, listenVars,
       workerVars
  <1>5. CASE OpenAgain \/ OpenReceiver \/ OpenReceiverFails \/ OpenLoop
             \/ OpenHandler \/ OpenHandlerFails \/ OpenDone
    <2>1. lpc' \in {"start", "opened", "handlers", "returned"}
      BY <1>5 DEF OpenAgain, OpenReceiver, OpenReceiverFails, OpenLoop,
         OpenHandler, OpenHandlerFails, OpenDone, ListenStep
    <2> QED
      BY <2>1 DEF Staffed
  <1> QED
    BY <1>1, <1>2, <1>3, <1>4, <1>5 DEF Listener

LEMMA StaffedWorker ==
  ASSUME TypeInv, Staffed, NEW w \in Workers,
         WorkerExit(w) \/ Worker(w) \/ RenewTickNil(w) \/ RenewStop(w)
  PROVE  Staffed'
  <1>1. UNCHANGED <<lpc, nrecv, ctxDone>>
    BY DEF WorkerExit, Worker, WorkerStep, WorkerTake, WorkerHandle,
       WorkerHandlerGone, HandlerReturn, DisposeSettle, DisposeNothing,
       DisposeNilReceiver, DisposeNilErr, WorkerDone, RenewTickNil, RenewStop,
       Panic, listenVars
  <1>2. CASE WorkerExit(w)
    BY <1>1, <1>2 DEF WorkerExit, Staffed
  <1>3. CASE Worker(w) \/ RenewTickNil(w) \/ RenewStop(w)
    <2>1. wpc' = wpc \/ \E to : to # "off" /\ wpc' = [wpc EXCEPT ![w] = to]
      BY <1>3 DEF Worker, WorkerStep, WorkerTake, WorkerHandle,
         WorkerHandlerGone, HandlerReturn, DisposeSettle, DisposeNothing,
         DisposeNilReceiver, DisposeNilErr, WorkerDone, RenewTickNil, RenewStop,
         Panic, workerVars
    <2>2. \A v \in Workers : wpc'[v] = "off" => wpc[v] = "off"
      BY <2>1 DEF TypeInv, TypeOK, WorkersOK
    <2> QED
      BY <1>1, <2>2, StaffedSame
  <1> QED
    BY <1>2, <1>3

LEMMA StaffedStep == TypeInv /\ Staffed /\ [Next]_vars => Staffed'
  <1> SUFFICES ASSUME TypeInv, Staffed, [Next]_vars PROVE Staffed'
    OBVIOUS
  <1>1. CASE ListenStart \/ Listener
    BY <1>1, StaffedListener
  <1>2. ASSUME NEW w \in Workers,
               WorkerExit(w) \/ Worker(w) \/ RenewTickNil(w) \/ RenewStop(w)
        PROVE  Staffed'
    BY <1>2, StaffedWorker
  <1>3. CASE Aside
    <2>1. ctxDone => ctxDone'
      BY <1>3 DEF Aside, TypeInv, TypeOK, ListenOK, ShutdownCancel, ShutdownNil, Closing,
         CloseCheck, CloseLock, CloseHandlers, CloseLink, CloseLinkNil,
         CloseClear, Panic, listenVars, Expire, ReceiveElsewhere,
         SettleElsewhere, process, vars
    <2> QED
      BY <1>3, <2>1, AsideLeavesRound, StaffedSame
  <1>4. CASE Restart
    BY <1>4 DEF Restart, Staffed
  <1> QED
    BY <1>1, <1>2, <1>3, <1>4 DEF Next, Aside

\* A round can get stuck only after its context was cancelled: until then
\* every message counted by the WaitGroup has a worker that will finish it
\* (receiver.go:250-278, 303).  What WaitGroupResets adds to this is that the
\* workers run.
THEOREM OnlyCancelStrandsRound == Spec => []RoundMoves
  <1>1. Init => Staffed
    BY DEF Init, Staffed
  <1>2. ASSUME TypeInv, RoundInv, Staffed, wg > 0, ~ctxDone, lpc # "send",
               Busy = {}
        PROVE  chan # <<>> /\ \E w \in Workers : wpc[w] = "idle"
    <2>1. lpc = "add"
      BY <1>2 DEF RoundInv, InRoundLoop
    <2>2. Cardinality(Busy) = 0
      BY <1>2, FS_EmptySet
    <2>3. chan \in Seq(Message) /\ pending \in Seq(Message) /\ Len(pending) \in Nat
      BY <1>2 DEF TypeInv, TypeOK, ListenOK
    <2>4. Len(chan) \in Nat /\ Len(chan) > 0
      BY <1>2, <2>1, <2>2, <2>3 DEF RoundInv, WaitGroupBalance
    <2>5. Len(pending) + Len(chan) + Cardinality(Busy) <= nrecv
      BY <1>2, <2>1 DEF RoundInv, InRoundLoop
    <2>6. nrecv \in {0, N} /\ N \in Nat
      BY <1>2, ConstantsAssumption DEF TypeInv, TypeOK, ListenOK
    <2>7. 1 \in Workers /\ 1 <= nrecv
      BY <2>2, <2>3, <2>4, <2>5, <2>6 DEF Workers
    <2>8. wpc[1] # "off"
      BY <1>2, <2>1, <2>7 DEF Staffed
    <2>9. wpc[1] = "idle"
      BY <1>2, <2>7, <2>8 DEF Busy, Idle
    <2> QED
      BY <2>4, <2>7, <2>9
  <1>3. TypeInv /\ RoundInv /\ Staffed => RoundMoves
    BY <1>2 DEF RoundMoves
  <1> QED
    BY <1>1, <1>3, StaffedStep, RoundInvariant, PTL DEF Spec

-----------------------------------------------------------------------------
(* No message twice in the process *)

LEMMA TailIds ==
  ASSUME NEW s \in Seq(Message), s # <<>>, Distinct(s)
  PROVE  /\ Ids(s) = {Head(s).id} \cup Ids(Tail(s))
         /\ Distinct(Tail(s))
         /\ Head(s).id \notin Ids(Tail(s))
  <1>1. Len(s) \in Nat \ {0} /\ Head(s) = s[1]
    OBVIOUS
  <1>2. Len(Tail(s)) = Len(s) - 1 /\ \A i \in 1..Len(s)-1 : Tail(s)[i] = s[i+1]
    OBVIOUS
  <1>3. Distinct(Tail(s)) /\ Head(s).id \notin Ids(Tail(s))
    BY <1>1, <1>2 DEF Distinct, Ids
  <1>4. ASSUME NEW i \in 1..Len(s)
        PROVE  s[i].id \in {Head(s).id} \cup Ids(Tail(s))
    <2>1. CASE i = 1
      BY <1>1, <2>1
    <2>2. CASE i # 1
      <3>1. i - 1 \in 1..Len(Tail(s)) /\ Tail(s)[i-1] = s[i]
        BY <1>1, <1>2, <2>2
      <3> QED
        BY <3>1 DEF Ids
    <2> QED
      BY <2>1, <2>2
  <1>5. Ids(Tail(s)) \subseteq Ids(s) /\ Head(s).id \in Ids(s)
    BY <1>1, <1>2 DEF Ids
  <1> QED
    BY <1>3, <1>4, <1>5 DEF Ids

LEMMA AppendIds ==
  ASSUME NEW s \in Seq(Message), NEW e \in Message
  PROVE  /\ Ids(Append(s, e)) = Ids(s) \cup {e.id}
         /\ Distinct(s) /\ e.id \notin Ids(s) => Distinct(Append(s, e))
  <1>1. /\ Len(s) \in Nat /\ Len(Append(s, e)) = Len(s) + 1
        /\ \A i \in 1..Len(s) : Append(s, e)[i] = s[i]
        /\ Append(s, e)[Len(s) + 1] = e
    OBVIOUS
  <1>2. Ids(Append(s, e)) \subseteq Ids(s) \cup {e.id}
    BY <1>1 DEF Ids
  <1>3. Ids(s) \subseteq Ids(Append(s, e)) /\ e.id \in Ids(Append(s, e))
    BY <1>1 DEF Ids
  <1>4. Distinct(s) /\ e.id \notin Ids(s) => Distinct(Append(s, e))
    BY <1>1 DEF Distinct, Ids
  <1> QED
    BY <1>2, <1>3, <1>4

LEMMA NothingInFlight ==
  ASSUME pending = <<>>, chan = <<>>, Busy = {}
  PROVE  NoDuplicateInFlight
  BY DEF NoDuplicateInFlight, Distinct, Ids

\* A step that changes neither the messages in flight nor who has them.
LEMMA FlightUntouched ==
  ASSUME NoDuplicateInFlight, UNCHANGED <<pending, chan, wmsg>>, Busy' = Busy
  PROVE  NoDuplicateInFlight'
  <1>1. Ids(pending)' = Ids(pending) /\ Ids(chan)' = Ids(chan)
    BY DEF Ids
  <1>2. Distinct(pending)' /\ Distinct(chan)'
    BY DEF NoDuplicateInFlight, Distinct
  <1> QED
    BY <1>1, <1>2 DEF NoDuplicateInFlight

LEMMA FlightListener ==
  ASSUME TypeInv, TypeInv', RoundInv, RoundInv', NoDuplicateInFlight,
         ListenStart \/ Listener
  PROVE  NoDuplicateInFlight'
  <1>1. CASE ~InRoundLoop'
    <2>1. pending' = <<>> /\ chan' = <<>> /\ Busy' = {}
      <3>1. wg' = 0 /\ pending' = <<>> /\ lpc' # "send"
        BY <1>1 DEF RoundInv, InRoundLoop
      <3>2. wg' = Len(chan') + Cardinality(Busy') + 0
        BY <3>1 DEF RoundInv, WaitGroupBalance
      <3>3. chan' \in Seq(Message) /\ Len(chan') \in Nat
        BY DEF TypeInv, TypeOK, ListenOK
      <3>4. IsFiniteSet(1..N)
        BY FS_Interval, ConstantsAssumption
      <3>5. IsFiniteSet(Busy')
        BY <3>4, FS_Subset DEF Busy, Workers
      <3>6. Cardinality(Busy') \in Nat
        BY <3>5, FS_CardinalityType
      <3> QED
        BY <3>1, <3>2, <3>3, <3>5, <3>6, FS_EmptySet
    <2> QED
      BY <2>1 DEF NoDuplicateInFlight, Distinct, Ids
  <1>2. CASE ReceiveMessages
    <2>1. chan = <<>> /\ Busy = {}
      BY <1>2, Quiet DEF ReceiveMessages, InRoundLoop
    <2>2. chan' = <<>> /\ Busy' = {}
      BY <1>2, <2>1 DEF ReceiveMessages, Busy
    <2>3. PICK k \in 1..nrecv : \E q \in [1..k -> Ready] :
            /\ IsInjective(q)
            /\ pending' = [i \in 1..k |-> [id |-> q[i], lock |-> delivery[q[i]] + 1]]
      BY <1>2, SMTT(30) DEF ReceiveMessages
    <2>4. PICK q \in [1..k -> Ready] :
            /\ IsInjective(q)
            /\ pending' = [i \in 1..k |-> [id |-> q[i], lock |-> delivery[q[i]] + 1]]
      BY <2>3, Zenon
    <2>5. 1..Len(pending') = 1..k
      <3>1. DOMAIN pending' = 1..Len(pending')
        BY DEF TypeInv, TypeOK, ListenOK
      <3>2. DOMAIN pending' = 1..k
        BY <2>4
      <3> QED
        BY <3>1, <3>2
    <2>6. Distinct(pending)'
      BY <2>4, <2>5 DEF Distinct, IsInjective
    <2> QED
      BY <2>2, <2>6 DEF NoDuplicateInFlight, Distinct, Ids
  <1>3. CASE WgAdd
    BY <1>3, FlightUntouched DEF WgAdd, Busy
  <1>4. CASE Send
    <2> DEFINE e == Head(pending)
    <2>1. pending # <<>> /\ pending \in Seq(Message) /\ chan \in Seq(Message)
      BY <1>4 DEF Send, TypeInv, TypeOK, ListenOK, WorkersHold
    <2>2. pending' = Tail(pending) /\ chan' = Append(chan, e)
      BY <1>4 DEF Send
    <2>3. Distinct(pending) /\ Distinct(chan)
          /\ Ids(pending) \cap Ids(chan) = {}
      BY DEF NoDuplicateInFlight
    <2>4. /\ Ids(pending) = {e.id} \cup Ids(Tail(pending))
          /\ Distinct(Tail(pending)) /\ e.id \notin Ids(Tail(pending))
      BY <2>1, <2>3, TailIds
    <2>5. e \in Message
      BY <2>1, HeadTailType
    <2>6. /\ Ids(Append(chan, e)) = Ids(chan) \cup {e.id}
          /\ Distinct(Append(chan, e))
      BY <2>1, <2>3, <2>4, <2>5, AppendIds
    <2>7. Ids(pending)' = Ids(Tail(pending)) /\ Ids(chan)' = Ids(Append(chan, e))
      BY <2>2 DEF Ids
    <2>8. Distinct(pending)' /\ Distinct(chan)'
      BY <2>2, <2>4, <2>6 DEF Distinct
    <2>9. Busy' = Busy /\ wmsg' = wmsg
      BY <1>4 DEF Send, Busy
    <2> QED
      BY <2>3, <2>4, <2>6, <2>7, <2>8, <2>9 DEF NoDuplicateInFlight
  <1>5. CASE ListenStart \/ OpenAgain \/ OpenReceiver \/ OpenReceiverFails
             \/ OpenLoop \/ OpenHandler \/ OpenHandlerFails \/ OpenHandlerGone
             \/ OpenDone
             \/ StartWorkers \/ CallReceive \/ CallReceiveNil \/ ReceiveFails
             \/ WgWait
    <2>1. ~InRoundLoop'
      BY <1>5 DEF ListenStart, OpenAgain, OpenReceiver, OpenReceiverFails,
           OpenLoop, OpenHandler, OpenHandlerFails, OpenHandlerGone, OpenDone,
           StartWorkers, CallReceive, CallReceiveNil, ReceiveFails, WgWait,
           InRoundLoop
    <2> QED
      BY <1>1, <2>1
  <1> QED
    BY <1>1, <1>2, <1>3, <1>4, <1>5 DEF Listener

LEMMA FlightWorker ==
  ASSUME TypeInv, NoDuplicateInFlight, NEW w \in Workers,
         WorkerExit(w) \/ Worker(w) \/ RenewTickNil(w) \/ RenewStop(w)
  PROVE  NoDuplicateInFlight'
  <1>1. CASE WorkerTake(w)
    <2> DEFINE e == Head(chan)
    <2>1. chan \in Seq(Message) /\ chan # <<>> /\ Distinct(chan)
      BY <1>1 DEF WorkerTake, NoDuplicateInFlight, TypeInv, TypeOK, ListenOK
    <2>2. /\ Ids(chan) = {e.id} \cup Ids(Tail(chan))
          /\ Distinct(Tail(chan)) /\ e.id \notin Ids(Tail(chan))
      BY <2>1, TailIds
    <2>3. Busy' = Busy \cup {w} /\ w \notin Busy
      BY <1>1, BusyMore DEF WorkerTake, Idle, Busy
    <2>4. chan' = Tail(chan) /\ pending' = pending
      BY <1>1 DEF WorkerTake
    <2>5. wmsg' = [wmsg EXCEPT ![w] = e] /\ wmsg \in [Workers -> Message \cup {None}]
      BY <1>1 DEF WorkerTake, TypeInv, TypeOK, WorkersOK
    <2>6. Ids(chan)' = Ids(Tail(chan)) /\ Distinct(chan)'
      BY <2>2, <2>4 DEF Ids, Distinct
    <2>7. Ids(pending)' = Ids(pending) /\ Distinct(pending)'
      BY <2>4 DEF Ids, Distinct, NoDuplicateInFlight
    <2>8. \A v \in Busy : v \in Workers /\ v # w /\ wmsg'[v] = wmsg[v]
      BY <2>3, <2>5 DEF Busy
    <2>9. wmsg'[w] = e
      BY <2>5
    <2> QED
      BY <2>2, <2>3, <2>6, <2>7, <2>8, <2>9 DEF NoDuplicateInFlight
  <1>2. CASE WorkerDone(w)
    <2>1. Busy' = Busy \ {w}
      BY <1>2, BusyLess DEF WorkerDone, Idle
    <2>2. UNCHANGED <<pending, chan>>
      BY <1>2 DEF WorkerDone
    <2>3. \A v \in Busy' : v \in Busy /\ wmsg'[v] = wmsg[v]
      BY <1>2, <2>1 DEF WorkerDone, TypeInv, TypeOK, WorkersOK, Busy
    <2>4. Ids(pending)' = Ids(pending) /\ Ids(chan)' = Ids(chan)
      BY <2>2 DEF Ids
    <2>5. Distinct(pending)' /\ Distinct(chan)'
      BY <2>2 DEF NoDuplicateInFlight, Distinct
    <2> QED
      BY <2>3, <2>4, <2>5 DEF NoDuplicateInFlight
  <1>3. CASE WorkerExit(w) \/ WorkerHandle(w) \/ HandlerReturn(w)
             \/ DisposeSettle(w) \/ DisposeNothing(w)
    <2>1. UNCHANGED <<pending, chan, wmsg>>
      BY <1>3 DEF WorkerExit, WorkerHandle, HandlerReturn, DisposeSettle,
           DisposeNothing
    <2>2. \E s : wpc' = [wpc EXCEPT ![w] = s] /\ (wpc[w] \in Idle <=> s \in Idle)
      BY <1>3 DEF WorkerExit, WorkerHandle, HandlerReturn, DisposeSettle,
           DisposeNothing, Idle
    <2> QED
      BY <2>1, <2>2, BusySame, FlightUntouched
  <1>4. CASE WorkerHandlerGone(w) \/ DisposeNilReceiver(w) \/ DisposeNilErr(w)
             \/ RenewTickNil(w) \/ RenewStop(w)
    <2>1. UNCHANGED <<pending, chan, wpc, wmsg>>
      BY <1>4 DEF WorkerHandlerGone, DisposeNilReceiver, DisposeNilErr,
           RenewTickNil, RenewStop
    <2> QED
      BY <2>1, FlightUntouched DEF Busy
  <1> QED
    BY <1>1, <1>2, <1>3, <1>4 DEF Worker

\* A lock may expire and the broker deliver the message again, but not into
\* this process while it still works on the first delivery: the barrier of
\* receiver.go:303 sees to it.
THEOREM NoDuplicates == Spec => []NoDuplicateInFlight
  <1>1. Init => NoDuplicateInFlight
    BY NothingInFlight DEF Init, Busy, Idle
  <1>2. TypeInv /\ RoundInv /\ NoDuplicateInFlight /\ (TypeInv /\ RoundInv)' /\ [Next]_vars
        => NoDuplicateInFlight'
    <2> SUFFICES ASSUME TypeInv, RoundInv, NoDuplicateInFlight, TypeInv',
                        RoundInv', [Next]_vars
                 PROVE  NoDuplicateInFlight'
      OBVIOUS
    <2>1. CASE ListenStart \/ Listener
      BY <2>1, FlightListener
    <2>2. CASE \E w \in Workers : \/ WorkerExit(w) \/ Worker(w)
                                  \/ RenewTickNil(w) \/ RenewStop(w)
      BY <2>2, FlightWorker
    <2>3. CASE Aside
      BY <2>3, AsideLeavesRound, FlightUntouched DEF Busy
    <2>4. CASE Restart
      <3>1. pending' = <<>> /\ chan' = <<>> /\ wpc' = [w \in Workers |-> "off"]
        BY <2>4 DEF Restart
      <3>2. Busy' = {}
        BY <3>1 DEF Busy, Idle
      <3> QED
        BY <3>1, <3>2 DEF NoDuplicateInFlight, Distinct, Ids
    <2> QED
      BY <2>1, <2>2, <2>3, <2>4 DEF Next, Aside
  <1> QED
    BY <1>1, <1>2, RoundInvariant, PTL DEF Spec

-----------------------------------------------------------------------------
(* Shutdown excludes itself, and messages are settled as decided *)

\* r.mtx is held by the Shutdown between lock and clear and by nobody else, so
\* one at a time closes and none waits for one that returned (receiver.go:366-384).
THEOREM CloseIsExclusive == Spec => []CloseExclusive
  <1>0. None \notin Closers
    BY ConstantsAssumption
  <1>1. Init => CloseExclusive
    BY <1>0 DEF Init, CloseExclusive
  <1>2. TypeInv /\ CloseExclusive /\ [Next]_vars => CloseExclusive'
    <2> SUFFICES ASSUME TypeInv, CloseExclusive, [Next]_vars
                 PROVE  CloseExclusive'
      OBVIOUS
    <2>0. spc \in [Closers -> {"idle", "check", "lock", "handlers", "link",
                               "clear", "returned"}]
      BY DEF TypeInv, TypeOK, StructOK
    <2>1. ASSUME NEW b \in Closers,
                 ShutdownCancel(b) \/ ShutdownNil(b) \/ Closing(b)
          PROVE  CloseExclusive'
      BY <1>0, <2>0, <2>1 DEF ShutdownCancel, ShutdownNil, Closing, CloseCheck,
         CloseLock, CloseHandlers, CloseLink, CloseLinkNil, CloseClear,
         CloseExclusive
    <2>2. CASE ListenStart \/ Listener
      <3>1. UNCHANGED <<spc, mtx>>
        BY <2>2 DEF ListenStart, Listener, OpenAgain, OpenReceiver,
           OpenReceiverFails, OpenLoop, OpenHandler, OpenHandlerFails,
           OpenHandlerGone, OpenDone, StartWorkers, CallReceive, CallReceiveNil,
           ReceiveMessages, ReceiveFails, WgAdd, Send, WgWait
      <3> QED
        BY <3>1 DEF CloseExclusive
    <2>3. ASSUME NEW w \in Workers,
                 WorkerExit(w) \/ Worker(w) \/ RenewTickNil(w) \/ RenewStop(w)
          PROVE  CloseExclusive'
      <3>1. UNCHANGED <<spc, mtx>>
        BY <2>3 DEF WorkerExit, Worker, WorkerTake, WorkerHandle,
           WorkerHandlerGone, HandlerReturn, DisposeSettle, DisposeNothing,
           DisposeNilReceiver, DisposeNilErr, WorkerDone, RenewTickNil, RenewStop
      <3> QED
        BY <3>1 DEF CloseExclusive
    <2>4. ASSUME NEW m \in Msgs,
                 Expire(m) \/ ReceiveElsewhere(m) \/ SettleElsewhere(m)
          PROVE  CloseExclusive'
      BY <2>4 DEF CloseExclusive, Expire, ReceiveElsewhere, SettleElsewhere
    <2>5. CASE Restart
      BY <1>0, <2>5 DEF Restart, CloseExclusive
    <2>6. CASE UNCHANGED vars
      BY <2>6 DEF CloseExclusive, vars
    <2> QED
      BY <2>1, <2>2, <2>3, <2>4, <2>5, <2>6 DEF Next
  <1> QED
    BY <1>1, <1>2, TypeInitially, TypeStep, PTL DEF Spec

\* Between the handler's return and wg.Done the worker holds a result that
\* the history has for its message, and before that it holds none.
ResultsKnown ==
    \A w \in Workers :
        IF wpc[w] \in {"dispose", "done"}
        THEN [id |-> wmsg[w].id, lock |-> wmsg[w].lock, d |-> wres[w].d] \in verdicts
        ELSE wres[w] = None

DecidedInv == SettledAsDecided /\ ResultsKnown

LEMMA OutcomeInjective ==
  ASSUME NEW d \in Settling
  PROVE  /\ Outcome(d) = "completed" <=> d = "complete"
         /\ Outcome(d) = "deadlettered" <=> d = "deadletter"
  BY DEF Outcome, Settling

\* bst and delivery stay, verdicts may grow.
LEMMA SettledUntouched ==
  ASSUME SettledAsDecided, UNCHANGED broker, verdicts \subseteq verdicts'
  PROVE  SettledAsDecided'
  BY DEF SettledAsDecided

LEMMA ResultsUntouched ==
  ASSUME ResultsKnown, UNCHANGED <<wpc, wmsg, wres>>, verdicts \subseteq verdicts'
  PROVE  ResultsKnown'
  BY DEF ResultsKnown

LEMMA DecidedWorker ==
  ASSUME TypeInv, DecidedInv, NEW w \in Workers,
         WorkerExit(w) \/ Worker(w) \/ RenewTickNil(w) \/ RenewStop(w)
  PROVE  DecidedInv'
  <1>0. /\ wpc \in [Workers -> Idle \cup {"taken", "handle", "dispose", "done"}]
        /\ wmsg \in [Workers -> Message \cup {None}]
        /\ wres \in [Workers -> Results \cup {None}]
        /\ bst \in [Msgs -> {"ready", "locked", "elsewhere", "completed",
                             "deadlettered", "gone"}]
    BY DEF TypeInv, TypeOK, WorkersOK, OutsideOK
  <1>1. CASE WorkerExit(w) \/ WorkerTake(w) \/ WorkerHandle(w) \/ WorkerDone(w)
    <2>1. UNCHANGED <<broker, verdicts>>
      BY <1>1 DEF WorkerExit, WorkerTake, WorkerHandle, WorkerDone
    <2>2. ResultsKnown'
      BY <1>0, <1>1 DEF WorkerExit, WorkerTake, WorkerHandle, WorkerDone,
         DecidedInv, ResultsKnown
    <2> QED
      BY <2>1, <2>2, SettledUntouched DEF DecidedInv
  <1>2. CASE HandlerReturn(w)
    <2>1. PICK r \in Results :
            /\ wres' = [wres EXCEPT ![w] = r]
            /\ verdicts' = verdicts \cup
                 {[id |-> wmsg[w].id, lock |-> wmsg[w].lock, d |-> r.d]}
      BY <1>2 DEF HandlerReturn
    <2>2. UNCHANGED <<broker, wmsg>> /\ wpc' = [wpc EXCEPT ![w] = "dispose"]
      BY <1>2 DEF HandlerReturn
    <2>3. ResultsKnown'
      BY <1>0, <2>1, <2>2 DEF DecidedInv, ResultsKnown
    <2> QED
      BY <2>1, <2>2, <2>3, SettledUntouched DEF DecidedInv
  <1>3. CASE DisposeSettle(w)
    <2>1. ResultsKnown'
      BY <1>0, <1>3 DEF DisposeSettle, DecidedInv, ResultsKnown
    <2>2. SettledAsDecided'
      <3>1. CASE UNCHANGED bst
        BY <1>3, <3>1, SettledUntouched DEF DisposeSettle, DecidedInv
      <3>2. CASE /\ HoldsLock(wmsg[w])
                 /\ bst' = [bst EXCEPT ![wmsg[w].id] = Outcome(wres[w].d)]
        <4>1. wres[w].d \in Settling /\ UNCHANGED <<delivery, verdicts>>
          BY <1>3 DEF DisposeSettle
        <4>2. [id |-> wmsg[w].id, lock |-> wmsg[w].lock, d |-> wres[w].d] \in verdicts
          BY <1>3 DEF DisposeSettle, DecidedInv, ResultsKnown
        <4>3. delivery[wmsg[w].id] = wmsg[w].lock
          BY <3>2 DEF HoldsLock
        <4> SUFFICES ASSUME NEW m \in Msgs, NEW d \in {"complete", "deadletter"},
                            bst'[m] = Outcome(d)
                     PROVE  [id |-> m, lock |-> delivery'[m], d |-> d] \in verdicts'
          BY DEF SettledAsDecided
        <4>4. CASE m # wmsg[w].id
          <5>1. bst'[m] = bst[m]
            BY <1>0, <3>2, <4>4
          <5> QED
            BY <4>1, <5>1 DEF DecidedInv, SettledAsDecided
        <4>5. CASE m = wmsg[w].id
          <5>1. Outcome(wres[w].d) = Outcome(d)
            BY <1>0, <3>2, <4>5
          <5>2. d = wres[w].d
            BY <4>1, <5>1, OutcomeInjective DEF Outcome, Settling
          <5> QED
            BY <4>1, <4>2, <4>3, <4>5, <5>2
        <4> QED
          BY <4>4, <4>5
      <3> QED
        BY <1>3, <3>1, <3>2 DEF DisposeSettle
    <2> QED
      BY <2>1, <2>2 DEF DecidedInv
  <1>4. CASE DisposeNothing(w)
    <2>1. ResultsKnown'
      BY <1>0, <1>4 DEF DisposeNothing, DecidedInv, ResultsKnown
    <2> QED
      BY <1>4, <2>1, SettledUntouched DEF DisposeNothing, DecidedInv
  <1>5. CASE WorkerHandlerGone(w) \/ DisposeNilReceiver(w) \/ DisposeNilErr(w)
             \/ RenewTickNil(w) \/ RenewStop(w)
    <2>1. UNCHANGED <<broker, verdicts, wpc, wmsg, wres>>
      BY <1>5 DEF WorkerHandlerGone, DisposeNilReceiver, DisposeNilErr,
           RenewTickNil, RenewStop
    <2> QED
      BY <2>1, SettledUntouched, ResultsUntouched DEF DecidedInv
  <1> QED
    BY <1>1, <1>2, <1>3, <1>4, <1>5 DEF Worker

LEMMA DecidedListener ==
  ASSUME TypeInv, RoundInv, DecidedInv, ListenStart \/ Listener
  PROVE  DecidedInv'
  <1>1. CASE ReceiveMessages
    <2>1. UNCHANGED <<verdicts, wpc, wmsg, wres>>
      BY <1>1 DEF ReceiveMessages
    <2>2. ASSUME NEW m \in Msgs, bst'[m] \in {"completed", "deadlettered"}
          PROVE  bst'[m] = bst[m] /\ delivery'[m] = delivery[m]
      <3>1. PICK k \in 1..nrecv : \E q \in [1..k -> Ready] :
              /\ bst' = [n \in Msgs |-> IF n \in Range(q) THEN "locked" ELSE bst[n]]
              /\ delivery' = [n \in Msgs |->
                                delivery[n] + (IF n \in Range(q) THEN 1 ELSE 0)]
        BY <1>1 DEF ReceiveMessages
      <3>2. PICK q \in [1..k -> Ready] :
              /\ bst' = [n \in Msgs |-> IF n \in Range(q) THEN "locked" ELSE bst[n]]
              /\ delivery' = [n \in Msgs |->
                                delivery[n] + (IF n \in Range(q) THEN 1 ELSE 0)]
        BY <3>1
      <3>3. m \notin Range(q) /\ bst'[m] = bst[m]
        BY <2>2, <3>2
      <3> QED
        BY <3>2, <3>3 DEF TypeInv, TypeOK, OutsideOK
    <2>3. SettledAsDecided'
      BY <2>1, <2>2 DEF DecidedInv, SettledAsDecided, Outcome
    <2> QED
      BY <2>1, <2>3, ResultsUntouched DEF DecidedInv
  <1>2. CASE ListenStart \/ StartWorkers
    <2>1. UNCHANGED <<broker, verdicts, wmsg, wres>>
      BY <1>2 DEF ListenStart, StartWorkers
    <2>2. \A w \in Workers : wpc[w] \in Idle
      BY <1>2, Quiet DEF ListenStart, StartWorkers, Busy, InRoundLoop
    <2>3. \A w \in Workers : wpc'[w] \in Idle
      BY <1>2 DEF ListenStart, StartWorkers, Idle
    <2>4. ResultsKnown'
      BY <2>1, <2>2, <2>3 DEF DecidedInv, ResultsKnown, Idle
    <2> QED
      BY <2>1, <2>4, SettledUntouched DEF DecidedInv
  <1>3. CASE OpenAgain \/ OpenReceiver \/ OpenReceiverFails \/ OpenLoop
             \/ OpenHandler \/ OpenHandlerFails \/ OpenHandlerGone \/ OpenDone \/ CallReceive
             \/ CallReceiveNil \/ ReceiveFails \/ WgAdd \/ Send \/ WgWait
    <2>1. UNCHANGED <<broker, verdicts, wpc, wmsg, wres>>
      BY <1>3 DEF OpenAgain, OpenReceiver, OpenReceiverFails, OpenLoop,
         OpenHandler, OpenHandlerFails, OpenHandlerGone, OpenDone, CallReceive,
         CallReceiveNil, ReceiveFails, WgAdd, Send, WgWait
    <2> QED
      BY <2>1, SettledUntouched, ResultsUntouched DEF DecidedInv
  <1> QED
    BY <1>1, <1>2, <1>3 DEF Listener

LEMMA DecidedElse ==
  ASSUME TypeInv, DecidedInv, Aside \/ Restart
  PROVE  DecidedInv'
  <1>1. ASSUME NEW m \in Msgs,
               Expire(m) \/ ReceiveElsewhere(m) \/ SettleElsewhere(m)
        PROVE  DecidedInv'
    <2>1. UNCHANGED <<verdicts, wpc, wmsg, wres>>
      BY <1>1 DEF Expire, ReceiveElsewhere, SettleElsewhere
    <2>2. ASSUME NEW n \in Msgs, bst'[n] \in {"completed", "deadlettered"}
          PROVE  bst'[n] = bst[n] /\ delivery'[n] = delivery[n]
      BY <1>1, <2>2 DEF Expire, ReceiveElsewhere, SettleElsewhere, Ready,
         TypeInv, TypeOK, OutsideOK
    <2>3. SettledAsDecided'
      BY <2>1, <2>2 DEF DecidedInv, SettledAsDecided, Outcome
    <2> QED
      BY <2>1, <2>3, ResultsUntouched DEF DecidedInv
  <1>2. ASSUME NEW c \in Closers,
               ShutdownCancel(c) \/ ShutdownNil(c) \/ Closing(c)
        PROVE  DecidedInv'
    <2>1. UNCHANGED <<broker, verdicts, wpc, wmsg, wres>>
      BY <1>2 DEF ShutdownCancel, ShutdownNil, Closing, CloseCheck, CloseLock,
         CloseHandlers, CloseLink, CloseLinkNil, CloseClear
    <2> QED
      BY <2>1, SettledUntouched, ResultsUntouched DEF DecidedInv
  <1>3. CASE UNCHANGED vars
    BY <1>3, SettledUntouched, ResultsUntouched DEF vars, DecidedInv
  <1>4. CASE Restart
    <2>1. ResultsKnown'
      BY <1>4 DEF Restart, ResultsKnown
    <2> QED
      BY <1>4, <2>1, SettledUntouched DEF Restart, DecidedInv
  <1> QED
    BY <1>1, <1>2, <1>3, <1>4 DEF Aside

LEMMA DecidedInvariant == Spec => []DecidedInv
  <1>1. Init => DecidedInv
    BY DEF Init, DecidedInv, SettledAsDecided, ResultsKnown, Outcome
  <1>2. TypeInv /\ RoundInv /\ DecidedInv /\ [Next]_vars => DecidedInv'
    BY DecidedListener, DecidedWorker, DecidedElse DEF Next, Aside
  <1> QED
    BY <1>1, <1>2, RoundInvariant, PTL DEF Spec

\* Whatever is lost, expires, or is handled twice: a message that our
\* receiver removed from the queue was removed on the verdict of the handler
\* that had its last delivery (receiver.go:179-180).
THEOREM SettledOnlyAsDecided == Spec => []SettledAsDecided
  BY DecidedInvariant, PTL DEF DecidedInv

-----------------------------------------------------------------------------
(* What holds until a Shutdown clears the fields *)

\* close_ took r.receiver and r.handlers away and returned.
Cleared == handlers = 0 /\ \E c \in Closers : spc[c] = "returned"

\* Until then both stay what Listen made them: without a receiver nothing runs
\* that would use it, neither a worker nor a Shutdown past the nil check.
Steady ==
    \/ Cleared
    \/ /\ panic \in {"no", "error value", "cancel"}
       /\ handlers = N
       /\ lpc = "handlers" => opening # 0
       /\ receiver = "nil" =>
            /\ lpc \in {"idle", "open", "returned"}
            /\ \A w \in Workers : wpc[w] = "off" /\ renew[w] = "off"
            /\ \A c \in Closers : spc[c] \notin {"lock", "handlers", "link", "clear"}

LEMMA Successor == ASSUME NEW n \in Nat PROVE n + 1 # 0
  OBVIOUS

LEMMA SomeWorker == ASSUME NEW w \in Workers PROVE N # 0
  BY ConstantsAssumption DEF Workers

LEMMA SteadyListener ==
  ASSUME TypeInv, Steady, ListenStart \/ Listener
  PROVE  Steady'
  <1> USE DEF TypeInv, TypeOK, StructOK, ListenOK, WorkersOK, Steady, Idle
  <1>1. spc' = spc
    BY DEF ListenStart, Listener, OpenAgain, OpenReceiver, OpenReceiverFails,
       OpenLoop, OpenHandler, OpenHandlerFails, OpenHandlerGone, OpenDone, StartWorkers,
       CallReceive, CallReceiveNil, ReceiveMessages, ReceiveFails, WgAdd, Send,
       WgWait
  <1>2. CASE Cleared
    <2>1. handlers' = handlers
      BY DEF ListenStart, Listener, OpenAgain, OpenReceiver, OpenReceiverFails,
         OpenLoop, OpenHandler, OpenHandlerFails, OpenHandlerGone, OpenDone, StartWorkers,
         CallReceive, CallReceiveNil, ReceiveMessages, ReceiveFails, WgAdd, Send,
         WgWait
    <2> QED
      BY <1>1, <1>2, <2>1 DEF Cleared
  <1> SUFFICES ASSUME ~Cleared PROVE Steady'
    BY <1>2
  <1>3. N \in Nat
    BY ConstantsAssumption
  <1>4. CASE ListenStart
    BY <1>4, ZenonT(30) DEF ListenStart
  <1>5. CASE OpenAgain \/ OpenReceiverFails \/ OpenDone \/ CallReceive
             \/ ReceiveFails \/ WgAdd \/ Send \/ WgWait
    BY <1>5, ZenonT(30) DEF OpenAgain, OpenReceiverFails, OpenDone, CallReceive,
       ReceiveFails, WgAdd, Send, WgWait
  <1>6. CASE OpenReceiver \/ OpenLoop
    <2>1. CASE OpenReceiver
      BY <2>1, ZenonT(30) DEF OpenReceiver
    <2>2. CASE OpenLoop
      <3>1. opening' \in {N + 1, 1} /\ opening' # 0
        BY <1>3, <2>2 DEF OpenLoop
      <3> QED
        BY <1>1, <2>2, <3>1 DEF OpenLoop
    <2> QED
      BY <1>6, <2>1, <2>2
  <1>7. CASE OpenHandler \/ OpenHandlerFails
    <2>1. /\ UNCHANGED <<panic, handlers, receiver>>
          /\ lpc = "handlers"
          /\ lpc' = "handlers" => opening' = opening + 1
      BY <1>7 DEF OpenHandler, OpenHandlerFails
    <2>2. opening \in Nat
      OBVIOUS
    <2>3. opening + 1 # 0
      BY ONLY <2>2, Successor
    <2> QED
      BY <1>1, <2>1, <2>3
  <1>8. CASE OpenHandlerGone
    BY <1>3, <1>8 DEF OpenHandlerGone
  <1>9. CASE StartWorkers
    BY <1>9 DEF StartWorkers
  <1>10. CASE CallReceiveNil
    BY <1>10 DEF CallReceiveNil
  <1>11. CASE ReceiveMessages
    BY <1>11 DEF ReceiveMessages
  <1> QED
    BY <1>4, <1>5, <1>6, <1>7, <1>8, <1>9, <1>10, <1>11 DEF Listener

LEMMA SteadyWorker ==
  ASSUME TypeInv, Steady, NEW w \in Workers,
         WorkerExit(w) \/ Worker(w) \/ RenewTickNil(w) \/ RenewStop(w)
  PROVE  Steady'
  <1> USE DEF TypeInv, TypeOK, StructOK, WorkersOK, Steady, Idle
  <1>1. spc' = spc
    BY DEF WorkerExit, Worker, WorkerTake, WorkerHandle, WorkerHandlerGone,
       HandlerReturn, DisposeSettle, DisposeNothing, DisposeNilReceiver,
       DisposeNilErr, WorkerDone, RenewTickNil, RenewStop
  <1>2. CASE Cleared
    <2>1. handlers' = handlers
      BY DEF WorkerExit, Worker, WorkerTake, WorkerHandle, WorkerHandlerGone,
         HandlerReturn, DisposeSettle, DisposeNothing, DisposeNilReceiver,
         DisposeNilErr, WorkerDone, RenewTickNil, RenewStop
    <2> QED
      BY <1>1, <1>2, <2>1 DEF Cleared
  <1> SUFFICES ASSUME ~Cleared PROVE Steady'
    BY <1>2
  <1>3. N # 0
    BY ONLY w \in Workers, SomeWorker
  <1>4. receiver # "nil" /\ UNCHANGED <<handlers, receiver, lpc, opening>>
        /\ panic' \in {panic, "error value"}
    <2>1. WorkerExit(w) \/ Worker(w) => wpc[w] # "off"
      BY DEF WorkerExit, Worker, WorkerTake, WorkerHandle, WorkerHandlerGone,
         HandlerReturn, DisposeSettle, DisposeNothing, DisposeNilReceiver,
         DisposeNilErr, WorkerDone
    <2>2. RenewTickNil(w) \/ RenewStop(w) => renew[w] # "off"
      BY DEF RenewTickNil, RenewStop
    <2>3. receiver # "nil"
      BY <2>1, <2>2
    <2>4. CASE DisposeNilErr(w)
      BY <2>3, <2>4 DEF DisposeNilErr
    <2>5. ~WorkerHandlerGone(w) /\ ~DisposeNilReceiver(w) /\ ~RenewTickNil(w)
      BY <1>3, <2>3 DEF WorkerHandlerGone, DisposeNilReceiver, RenewTickNil
    <2> QED
      BY <2>3, <2>4, <2>5 DEF WorkerExit, Worker, WorkerTake, WorkerHandle,
         HandlerReturn, DisposeSettle, DisposeNothing, WorkerDone, RenewStop
  <1> QED
    BY <1>1, <1>4

\* Any number of Shutdowns may be on their way; the one that comes to its end
\* clears the fields.
LEMMA SteadyShutdown ==
  ASSUME TypeInv, Steady, NEW c \in Closers,
         ShutdownCancel(c) \/ ShutdownNil(c) \/ Closing(c)
  PROVE  Steady'
  <1> USE DEF TypeInv, TypeOK, StructOK
  <1>1. CASE Cleared
    <2>1. handlers' \in {handlers, 0}
          /\ \A b \in Closers : spc[b] = "returned" => spc'[b] = "returned"
      BY DEF ShutdownCancel, ShutdownNil, Closing, CloseCheck, CloseLock,
         CloseHandlers, CloseLink, CloseLinkNil, CloseClear
    <2> QED
      BY <1>1, <2>1 DEF Cleared, Steady
  <1> SUFFICES ASSUME ~Cleared PROVE Steady'
    BY <1>1
  <1>2. CASE CloseClear(c)
    BY <1>2 DEF CloseClear, Steady, Cleared
  <1>3. CASE ShutdownNil(c)
    BY <1>3 DEF ShutdownNil, Steady
  <1>4. CASE ShutdownCancel(c) \/ CloseCheck(c) \/ CloseLock(c)
             \/ CloseHandlers(c) \/ CloseLink(c)
    <2>1. /\ UNCHANGED <<panic, handlers, receiver, lpc, opening, wpc, renew>>
          /\ \A b \in Closers \ {c} : spc'[b] = spc[b]
      BY <1>4 DEF ShutdownCancel, CloseCheck, CloseLock, CloseHandlers, CloseLink
    <2>2. receiver = "nil" =>
            spc'[c] \notin {"lock", "handlers", "link", "clear"}
      BY <1>4 DEF Steady, ShutdownCancel, CloseCheck, CloseLock, CloseHandlers,
         CloseLink
    <2> QED
      BY <2>1, <2>2 DEF Steady
  <1>5. ~CloseLinkNil(c)
    BY DEF CloseLinkNil, Steady
  <1> QED
    BY <1>2, <1>3, <1>4, <1>5 DEF Closing

\* Until a Shutdown has cleared the fields nothing but a handler without an
\* error value or a cancel of no Listen kills the process, however opens and
\* receives fail and Shutdowns overlap (receiver.go:180, 221, 272, 303, 380-384).
THEOREM OnlyShutdownPanics == Spec => []NoPanic
  <1>1. Init => Steady
    BY DEF Init, Steady, Idle
  <1>2. TypeInv /\ Steady /\ [Next]_vars => Steady'
    <2> SUFFICES ASSUME TypeInv, Steady, [Next]_vars PROVE Steady'
      OBVIOUS
    <2>1. CASE ListenStart \/ Listener
      BY <2>1, SteadyListener
    <2>2. ASSUME NEW w \in Workers,
                 WorkerExit(w) \/ Worker(w) \/ RenewTickNil(w) \/ RenewStop(w)
          PROVE  Steady'
      BY <2>2, SteadyWorker
    <2>3. ASSUME NEW c \in Closers,
                 ShutdownCancel(c) \/ ShutdownNil(c) \/ Closing(c)
          PROVE  Steady'
      BY <2>3, SteadyShutdown
    <2>4. ASSUME NEW m \in Msgs,
                 Expire(m) \/ ReceiveElsewhere(m) \/ SettleElsewhere(m)
          PROVE  Steady'
      BY <2>4 DEF Steady, Cleared, Expire, ReceiveElsewhere, SettleElsewhere
    <2>5. CASE Restart
      BY <2>5 DEF Restart, Steady, Cleared, Idle
    <2>6. CASE UNCHANGED vars
      BY <2>6 DEF Steady, Cleared, vars
    <2> QED
      BY <2>1, <2>2, <2>3, <2>4, <2>5, <2>6 DEF Next
  <1>3. Steady => NoPanic
    BY DEF Steady, Cleared, NoPanic
  <1> QED
    BY <1>1, <1>2, <1>3, TypeInitially, TypeStep, PTL DEF Spec

-----------------------------------------------------------------------------
(* Handlers are open before they run, unless a Shutdown closed them *)

\* A Shutdown has closed the handlers.
Shut == \E c \in Closers : spc[c] \in {"link", "clear", "returned"}

\* A handler that was opened, whether or not a Shutdown closed it again.
WasOpened(v) == hstate[v] = "open" \/ (hstate[v] = "closed" /\ Shut)

AllOpened == \A v \in Workers : WasOpened(v)

SomeFailed == \E v \in Workers : hstate[v] = "failed"

Before == {"idle", "open", "opened", "handlers", "start"}

\* While r.handlers has not been emptied, a set r.receiver means that the
\* handlers were opened, or that the Open of one failed, which ends the Listen
\* it belongs to.  Workers run only past the opens; they go on when a Shutdown
\* has emptied r.handlers, and so has what is said of them.
OpenInv ==
    /\ lpc # "idle" => listens > 0
    /\ handlers = N =>
        /\ lpc = "handlers" =>
             opening > 0 /\ \A v \in Workers : v < opening => WasOpened(v)
        /\ lpc \in {"start", "call", "recv", "add", "send"} => AllOpened \/ SomeFailed
        /\ receiver # "nil" /\ lpc \notin {"opened", "handlers"} =>
             AllOpened \/ SomeFailed
        /\ SomeFailed =>
             listens > 1 \/ lpc \in {"opened", "handlers", "returned"}
    /\ \A w \in Workers :
          wpc[w] # "off" =>
            lpc \notin Before /\ (AllOpened \/ (SomeFailed /\ listens > 1))

\* What leaves the handlers, Listen and r.receiver alone and starts no worker.
OpenUntouched ==
    /\ UNCHANGED <<receiver, handlers, lpc, listens, opening, hstate>>
    /\ Shut => Shut'
    /\ \A w \in Workers : wpc'[w] # "off" => wpc[w] # "off"

LEMMA OpenSame == OpenInv /\ OpenUntouched => OpenInv'
  BY DEF OpenInv, OpenUntouched, AllOpened, WasOpened, SomeFailed

LEMMA OpenListener ==
  ASSUME TypeInv, OpenInv, ListenStart \/ Listener
  PROVE  OpenInv'
  <1>1. /\ handlers \in {0, N} /\ N \in Nat /\ listens \in Nat /\ opening \in Nat
        /\ Workers = 1..N
    BY ConstantsAssumption DEF TypeInv, TypeOK, StructOK, ListenOK, Workers
  <1>2. hstate \in [Workers -> {"new", "open", "failed", "closed"}]
    BY DEF TypeInv, TypeOK, OutsideOK
  <1>3. spc' = spc /\ (Shut' = Shut)
    BY DEF Shut, ListenStart, Listener, OpenAgain, OpenReceiver,
       OpenReceiverFails, OpenLoop, OpenHandler, OpenHandlerFails,
       OpenHandlerGone, OpenDone, StartWorkers, CallReceive, CallReceiveNil, ReceiveMessages,
       ReceiveFails, WgAdd, Send, WgWait, ListenStep, Panic
  <1> USE DEF OpenInv, AllOpened, WasOpened, SomeFailed, Before, ListenStep
  <1>4. CASE ListenStart
    BY <1>1, <1>3, <1>4 DEF ListenStart, outside
  <1>5. CASE OpenAgain
    BY <1>3, <1>5 DEF OpenAgain, roundVars, listenVars, outside
  <1>6. CASE OpenReceiver \/ OpenLoop
    BY <1>1, <1>3, <1>6 DEF OpenReceiver, OpenLoop, workerVars, listenVars,
       roundVars, outside, bounds
  <1>7. CASE OpenReceiverFails
    BY <1>3, <1>7 DEF OpenReceiverFails, roundVars, listenVars, outside
  <1>8. CASE OpenHandler
    <2>1. /\ opening \in Workers /\ hstate' = [hstate EXCEPT ![opening] = "open"]
          /\ opening' = opening + 1 /\ handlers' = handlers /\ lpc' = "handlers"
          /\ listens' = listens /\ receiver' = receiver /\ wpc' = wpc /\ handlers = N
          /\ opening > 0
      BY <1>1, <1>8 DEF OpenHandler, roundVars
    <2>2. \A v \in Workers : v < opening' => WasOpened(v)'
      BY <1>1, <1>2, <1>3, <1>8, <2>1 DEF OpenHandler
    <2>3. \A w \in Workers : wpc'[w] = "off"
      BY <1>8, <2>1 DEF OpenHandler
    <2>4. opening' > 0 /\ listens' > 0
      BY <1>1, <1>8, <2>1 DEF OpenHandler
    <2> HIDE DEF AllOpened, SomeFailed, WasOpened
    <2> QED
      BY <2>1, <2>2, <2>3, <2>4
  <1>9. CASE OpenHandlerFails
    <2>1. opening \in Workers /\ hstate' = [hstate EXCEPT ![opening] = "failed"]
      BY <1>1, <1>9 DEF OpenHandlerFails
    <2>2. SomeFailed'
      BY <1>2, <2>1
    <2>3. \A w \in Workers : wpc'[w] = "off"
      BY <1>9 DEF OpenHandlerFails, roundVars
    <2> QED
      BY <1>9, <2>2, <2>3 DEF OpenHandlerFails, listenVars
  <1>10. CASE OpenHandlerGone
    BY <1>3, <1>10, OpenSame DEF OpenHandlerGone, OpenUntouched, Panic, structVars,
       listenVars, workerVars, bounds, outside
  <1>11. CASE OpenDone
    BY <1>1, <1>3, <1>11 DEF OpenDone, roundVars, listenVars, outside
  <1>12. CASE StartWorkers
    <2>1. /\ UNCHANGED <<receiver, handlers, listens, opening, hstate>>
          /\ lpc = "start" /\ lpc' = "call"
          /\ wpc' = [w \in Workers |-> IF w <= handlers THEN "idle" ELSE "off"]
      BY <1>12 DEF StartWorkers, outside
    <2>2. \A w \in Workers : wpc'[w] # "off" => handlers = N
      BY <1>1, <2>1
    <2>3. handlers = N => AllOpened \/ (SomeFailed /\ listens > 1)
      BY <2>1
    <2>4. AllOpened' = AllOpened /\ SomeFailed' = SomeFailed
      BY <1>3, <2>1
    <2>5. \A w \in Workers : wpc'[w] # "off" =>
            lpc' \notin Before /\ (AllOpened \/ (SomeFailed /\ listens > 1))'
      BY <2>1, <2>2, <2>3, <2>4
    <2>6. handlers' = N => AllOpened' \/ SomeFailed'
      BY <2>1, <2>3, <2>4
    <2>7. (SomeFailed /\ handlers = N)' => listens' > 1
      BY <2>1, <2>4
    <2>8. lpc' = "call" /\ listens' > 0
      BY <2>1
    <2> QED
      BY <2>5, <2>6, <2>7, <2>8 DEF OpenInv
  <1>13. CASE CallReceiveNil
    BY <1>3, <1>13, OpenSame DEF CallReceiveNil, OpenUntouched, Panic, structVars,
       listenVars, workerVars, bounds, outside
  <1>14. CASE CallReceive \/ ReceiveFails \/ WgAdd \/ Send \/ WgWait
    BY <1>3, <1>14 DEF CallReceive, ReceiveFails, WgAdd, Send, WgWait, listenVars,
       outside
  <1>15. CASE ReceiveMessages
    <2>1. UNCHANGED <<receiver, handlers, wpc, listens, opening, hstate>>
          /\ lpc = "recv" /\ lpc' = "add"
      BY <1>15 DEF ReceiveMessages, listenVars, outside
    <2> QED
      BY <1>3, <2>1
  <1> QED
    BY <1>4, <1>5, <1>6, <1>7, <1>8, <1>9, <1>10, <1>11, <1>12, <1>13,
       <1>14, <1>15 DEF Listener

LEMMA OpenWorker ==
  ASSUME TypeInv, OpenInv, NEW w \in Workers,
         WorkerExit(w) \/ Worker(w) \/ RenewTickNil(w) \/ RenewStop(w)
  PROVE  OpenInv'
  <1>1. UNCHANGED <<receiver, handlers, lpc, listens, opening, hstate, spc>>
    BY DEF WorkerExit, Worker, WorkerStep, WorkerTake, WorkerHandle,
       WorkerHandlerGone, HandlerReturn, DisposeSettle, DisposeNothing,
       DisposeNilReceiver, DisposeNilErr, WorkerDone, RenewTickNil, RenewStop,
       Panic, structVars, listenVars, bounds, outside
  <1>2. wpc' = wpc \/ \E to : wpc[w] # "off" /\ wpc' = [wpc EXCEPT ![w] = to]
    BY DEF WorkerExit, Worker, WorkerStep, WorkerTake, WorkerHandle,
       WorkerHandlerGone, HandlerReturn, DisposeSettle, DisposeNothing,
       DisposeNilReceiver, DisposeNilErr, WorkerDone, RenewTickNil, RenewStop,
       Panic, workerVars
  <1>3. \A v \in Workers : wpc'[v] # "off" => wpc[v] # "off"
    BY <1>2 DEF TypeInv, TypeOK, WorkersOK
  <1> QED
    BY <1>1, <1>3, OpenSame DEF OpenUntouched, Shut

LEMMA OpenShutdown ==
  ASSUME TypeInv, OpenInv, NEW c \in Closers,
         ShutdownCancel(c) \/ ShutdownNil(c) \/ Closing(c)
  PROVE  OpenInv'
  <1>1. spc \in [Closers -> {"idle", "check", "lock", "handlers", "link",
                             "clear", "returned"}]
    BY DEF TypeInv, TypeOK, StructOK
  <1>2. wpc' = wpc /\ UNCHANGED <<lpc, listens, opening>>
    BY DEF ShutdownCancel, ShutdownNil, Closing, CloseCheck, CloseLock,
       CloseHandlers, CloseLink, CloseLinkNil, CloseClear, ShutdownStep, Panic,
       workerVars, bounds, listenVars
  <1>3. CASE ShutdownCancel(c) \/ ShutdownNil(c) \/ CloseCheck(c) \/ CloseLock(c)
             \/ CloseLink(c) \/ CloseLinkNil(c)
    <2>1. UNCHANGED <<receiver, handlers, hstate>>
      BY <1>3 DEF ShutdownCancel, ShutdownNil, CloseCheck, CloseLock, CloseLink,
         CloseLinkNil, Panic, structVars, outside
    <2>2. Shut => Shut'
      BY <1>1, <1>3 DEF ShutdownCancel, ShutdownNil, CloseCheck, CloseLock,
         CloseLink, CloseLinkNil, ShutdownStep, Panic, Shut
    <2> QED
      BY <1>2, <2>1, <2>2, OpenSame DEF OpenUntouched
  <1>4. CASE CloseHandlers(c)
    <2>1. /\ UNCHANGED <<receiver, handlers>> /\ Shut'
          /\ hstate' = [w \in Workers |-> IF w <= handlers THEN "closed"
                                                           ELSE hstate[w]]
      BY <1>1, <1>4 DEF CloseHandlers, ShutdownStep, structVars, Shut
    <2>2. handlers \in {0, N} /\ N \in Nat /\ Workers = 1..N
      BY ConstantsAssumption DEF TypeInv, TypeOK, StructOK, Workers
    <2>3. CASE handlers = N
      <3>1. \A w \in Workers : hstate'[w] = "closed"
        BY <2>1, <2>2, <2>3
      <3> QED
        BY <1>2, <2>1, <3>1 DEF OpenInv, AllOpened, WasOpened, SomeFailed
    <2>4. CASE handlers = 0
      <3>1. \A w \in Workers : hstate'[w] = hstate[w]
        BY <2>1, <2>2, <2>4
      <3> QED
        BY <1>2, <2>1, <3>1 DEF OpenInv, AllOpened, WasOpened, SomeFailed
    <2> QED
      BY <2>2, <2>3, <2>4
  <1>5. CASE CloseClear(c)
    <2>1. handlers' = 0 /\ Shut' /\ hstate' = hstate
      BY <1>1, <1>5 DEF CloseClear, ShutdownStep, Shut, outside
    <2>2. CASE N = 0
      <3>1. Workers = {}
        BY <2>2 DEF Workers
      <3>2. AllOpened' /\ ~SomeFailed'
        BY <3>1 DEF AllOpened, SomeFailed
      <3>3. lpc' = "handlers" => opening' > 0
        BY <1>2, <2>2 DEF OpenInv, TypeInv, TypeOK, StructOK
      <3> QED
        BY <1>2, <3>1, <3>2, <3>3 DEF OpenInv
    <2>3. CASE N # 0
      BY <1>2, <2>1, <2>3 DEF OpenInv, AllOpened, WasOpened, SomeFailed
    <2> QED
      BY <2>2, <2>3
  <1> QED
    BY <1>3, <1>4, <1>5 DEF Closing

LEMMA OpenInitially == Init => OpenInv
  BY DEF Init, OpenInv, AllOpened, SomeFailed, Before

LEMMA OpenStep == TypeInv /\ OpenInv /\ [Next]_vars => OpenInv'
  <1> SUFFICES ASSUME TypeInv, OpenInv, [Next]_vars PROVE OpenInv'
    OBVIOUS
  <1>1. CASE ListenStart \/ Listener
    BY <1>1, OpenListener
  <1>2. ASSUME NEW w \in Workers,
               WorkerExit(w) \/ Worker(w) \/ RenewTickNil(w) \/ RenewStop(w)
        PROVE  OpenInv'
    BY <1>2, OpenWorker
  <1>3. ASSUME NEW c \in Closers,
               ShutdownCancel(c) \/ ShutdownNil(c) \/ Closing(c)
        PROVE  OpenInv'
    BY <1>3, OpenShutdown
  <1>4. ASSUME NEW m \in Msgs,
               Expire(m) \/ ReceiveElsewhere(m) \/ SettleElsewhere(m)
        PROVE  OpenInv'
    BY <1>4, OpenSame DEF OpenUntouched, Shut, Expire, ReceiveElsewhere,
       SettleElsewhere, process, structVars, listenVars, workerVars, bounds,
       outside
  <1>5. CASE Restart
    BY <1>5 DEF Restart, OpenInv, AllOpened, SomeFailed, Before
  <1>6. CASE UNCHANGED vars
    BY <1>6, OpenSame DEF OpenUntouched, Shut, vars, structVars, listenVars,
       workerVars, bounds, outside
  <1> QED
    BY <1>1, <1>2, <1>3, <1>4, <1>5, <1>6 DEF Next

\* No handler sees a message before its Open succeeded, unless Listen is
\* called again after an Open failed, and none after its Close but by a
\* Shutdown under a running worker (receiver.go:331, 353-358, 369-372).
THEOREM HandlersAreOpen == Spec => []HandlerOpen
  <1>1. OpenInv => HandlerOpen
    BY DEF OpenInv, HandlerOpen, AllOpened, WasOpened, SomeFailed, Shut
  <1> QED
    BY <1>1, OpenInitially, OpenStep, TypeInitially, TypeStep, PTL DEF Spec

-----------------------------------------------------------------------------
(* The receiver implements Delivery: under the mapping of module Receiver  *)
(* every step is a step of Delivery or leaves its variables alone.         *)

\* What the mapping rests on.
RefInv == TypeInv /\ RoundInv /\ NoDuplicateInFlight /\ DecidedInv

LEMMA NoneApart == None \notin Results /\ "undecided" \notin Disposition
  BY ConstantsAssumption DEF Disposition

\* The verdict on a message is its worker's result ...
LEMMA VerdictOfWorker ==
  ASSUME NoDuplicateInFlight, NEW w \in Busy, wres[w] # None,
         NEW m \in Msgs, m = wmsg[w].id
  PROVE  Verdict[m] = wres[w].d
  <1> DEFINE v == CHOOSE u \in Busy : wmsg[u].id = m /\ wres[u] # None
  <1>1. v \in Busy /\ wmsg[v].id = m
    OBVIOUS
  <1>2. v = w
    BY <1>1 DEF NoDuplicateInFlight
  <1> QED
    BY <1>2 DEF Verdict

\* ... and there is none while no worker has one.
LEMMA VerdictOfNobody ==
  ASSUME NEW m \in Msgs, \A w \in Busy : wmsg[w].id = m => wres[w] = None
  PROVE  Verdict[m] = "undecided"
  BY DEF Verdict

\* A step of the process that changes no message's place, and no result.
LEMMA StutterStep ==
  ASSUME RefInv, NoDuplicateInFlight', UNCHANGED <<bst, InRound>>,
         \A w \in Busy : wres[w] # None =>
            w \in Busy' /\ wmsg'[w].id = wmsg[w].id /\ wres'[w] = wres[w],
         \A w \in Busy' : wres'[w] # None =>
            w \in Busy /\ wmsg'[w].id = wmsg[w].id /\ wres'[w] = wres[w]
  PROVE  UNCHANGED Contract!vars
  <1>1. Queue' = Queue
    BY DEF Queue
  <1>2. ASSUME NEW m \in Msgs
        PROVE  Verdict'[m] = Verdict[m]
    <2>1. CASE \E w \in Busy : wmsg[w].id = m /\ wres[w] # None
      <3>1. PICK w \in Busy : wmsg[w].id = m /\ wres[w] # None
        BY <2>1
      <3>2. Verdict[m] = wres[w].d
        BY <3>1, VerdictOfWorker DEF RefInv
      <3>3. w \in Busy' /\ wmsg'[w].id = m /\ wres'[w] = wres[w]
        BY <3>1
      <3> DEFINE v == CHOOSE u \in Busy' : wmsg'[u].id = m /\ wres'[u] # None
      <3>4. v \in Busy' /\ wmsg'[v].id = m /\ wres'[v] # None
        BY <3>1, <3>3
      <3>5. v = w
        BY <3>3, <3>4 DEF NoDuplicateInFlight
      <3>6. Verdict'[m] = wres'[v].d
        BY <3>4 DEF Verdict
      <3> QED
        BY <3>2, <3>3, <3>5, <3>6
    <2>2. CASE ~ \E w \in Busy : wmsg[w].id = m /\ wres[w] # None
      <3>1. ~ \E w \in Busy' : wmsg'[w].id = m /\ wres'[w] # None
        BY <2>2
      <3> QED
        BY <2>2, <3>1 DEF Verdict
    <2> QED
      BY <2>1, <2>2
  <1>3. Verdict' = Verdict
    BY <1>2 DEF Verdict
  <1> QED
    BY <1>1, <1>3 DEF Contract!vars

LEMMA RefInitially == Init => Contract!Init
  <1> SUFFICES ASSUME Init PROVE Contract!Init
    OBVIOUS
  <1>1. Busy = {} /\ pending = <<>> /\ chan = <<>>
    BY DEF Init, Busy, Idle
  <1>2. InRound = {}
    BY <1>1 DEF InRound, Ids
  <1>3. Queue = [m \in Msgs |-> "ready"]
    BY DEF Init, Queue
  <1>4. Verdict = [m \in Msgs |-> Contract!Undecided]
    BY <1>1 DEF Verdict, Contract!Undecided
  <1> QED
    BY <1>2, <1>3, <1>4 DEF Contract!Init

\* Steps after which no message is with a worker, and there was none before.
LEMMA NobodyDecided ==
  ASSUME Busy = {}
  PROVE  Verdict = [m \in Msgs |-> "undecided"]
  BY DEF Verdict

LEMMA RefReceive ==
  ASSUME RefInv, RefInv', ReceiveMessages
  PROVE  Contract!Accept
  <1>1. pending = <<>> /\ chan = <<>> /\ Busy = {}
    BY Quiet DEF RefInv, ReceiveMessages, InRoundLoop, ListenStep
  <1>2. chan' = <<>> /\ Busy' = {}
    BY <1>1 DEF ReceiveMessages, Busy
  <1>3. PICK k \in 1..nrecv : \E q \in [1..k -> Ready] :
          /\ pending' = [i \in 1..k |-> [id |-> q[i], lock |-> delivery[q[i]] + 1]]
          /\ bst' = [m \in Msgs |-> IF m \in Range(q) THEN "locked" ELSE bst[m]]
    BY SMTT(30) DEF ReceiveMessages
  <1>4. PICK q \in [1..k -> Ready] :
          /\ pending' = [i \in 1..k |-> [id |-> q[i], lock |-> delivery[q[i]] + 1]]
          /\ bst' = [m \in Msgs |-> IF m \in Range(q) THEN "locked" ELSE bst[m]]
    BY <1>3, Zenon
  <1>5. k \in Nat /\ k >= 1 /\ k <= N
    <2>1. nrecv \in {0, N} /\ N \in Nat
      BY ConstantsAssumption DEF RefInv, TypeInv, TypeOK, ListenOK
    <2> QED
      BY <2>1
  <1>6. 1..Len(pending') = 1..k
    <2>1. DOMAIN pending' = 1..Len(pending')
      BY DEF RefInv, TypeInv, TypeOK, ListenOK
    <2>2. DOMAIN pending' = 1..k
      BY <1>4
    <2> QED
      BY <2>1, <2>2
  <1>7. InRound = {} /\ InRound' = Range(q)
    <2>1. InRound = {}
      BY <1>1 DEF InRound, Ids
    <2>2. Ids(pending)' = {q[i] : i \in 1..k}
      BY <1>4, <1>6 DEF Ids
    <2>3. Range(q) = {q[i] : i \in 1..k}
      BY DEF Range
    <2>4. Ids(chan)' = {} /\ {wmsg[w].id : w \in Busy}' = {}
      BY <1>2 DEF Ids
    <2> QED
      BY <2>1, <2>2, <2>3, <2>4 DEF InRound
  <1>8. k \in 1..N /\ q \in [1..k -> {m \in Msgs : Queue[m] = "ready"}]
    BY <1>5 DEF Ready, Queue
  <1>9. InRound' = {q[i] : i \in 1..k}
    BY <1>7 DEF Range
  <1>10. Queue' = [m \in Msgs |-> IF m \in Range(q) THEN "ours" ELSE Queue[m]]
    BY <1>4 DEF Queue
  <1>11. Verdict' = Verdict
    BY <1>1, <1>2 DEF Verdict
  <1>12. Queue' = [m \in Msgs |-> IF m \in InRound' THEN "ours" ELSE Queue[m]]
    BY <1>7, <1>10
  <1> QED
    BY <1>7, <1>8, <1>9, <1>11, <1>12 DEF Contract!Accept

USE DEF Alive, Panic, ListenStep, WorkerStep, ShutdownStep, structVars,
        listenVars, roundVars, workerVars, bounds, outside, broker, process

LEMMA RefDecide ==
  ASSUME RefInv, RefInv', NEW w \in Workers, HandlerReturn(w)
  PROVE  \E m \in Msgs, d \in Disposition : Contract!Decide(m, d)
  <1> DEFINE m == wmsg[w].id
  <1>0. /\ wpc \in [Workers -> Idle \cup {"taken", "handle", "dispose", "done"}]
        /\ wres \in [Workers -> Results \cup {None}]
    BY DEF RefInv, TypeInv, TypeOK, WorkersOK
  <1>1. PICK r \in Results : wres' = [wres EXCEPT ![w] = r]
    BY DEF HandlerReturn
  <1>2. w \in Busy /\ wres[w] = None /\ wmsg[w] \in Message
    BY DEF HandlerReturn, Busy, Idle, RefInv, TypeInv, WorkersHold, DecidedInv,
       ResultsKnown
  <1>3. Busy' = Busy
    BY BusySame DEF HandlerReturn, Idle, RefInv
  <1>4. UNCHANGED <<bst, pending, chan, wmsg>>
    BY DEF HandlerReturn
  <1>5. Queue' = Queue /\ InRound' = InRound
    BY <1>3, <1>4 DEF Queue, InRound, Ids
  <1>6. m \in Msgs /\ m \in InRound /\ r.d \in Disposition
    BY <1>2, ConstantsAssumption DEF InRound, Message
  <1>7. Verdict[m] = "undecided"
    <2>1. \A v \in Busy : wmsg[v].id = m => v = w
      BY <1>2 DEF RefInv, NoDuplicateInFlight
    <2> QED
      BY <1>2, <1>6, <2>1, VerdictOfNobody
  <1>8. Verdict'[m] = r.d
    <2> DEFINE v == CHOOSE u \in Busy' : wmsg'[u].id = m /\ wres'[u] # None
    <2>1. w \in Busy' /\ wmsg'[w].id = m /\ wres'[w] = r /\ r # None
      BY <1>0, <1>1, <1>2, <1>3, <1>4, NoneApart
    <2>2. v \in Busy' /\ wmsg'[v].id = m
      BY <2>1
    <2>3. v = w
      BY <2>1, <2>2 DEF RefInv, NoDuplicateInFlight
    <2> QED
      BY <1>6, <2>1, <2>3 DEF Verdict
  <1>9. ASSUME NEW n \in Msgs, n # m
        PROVE  Verdict'[n] = Verdict[n]
    <2>1. \A u \in Busy : wmsg[u].id = n => wres'[u] = wres[u]
      BY <1>0, <1>1, <1>9 DEF Busy
    <2> QED
      BY <1>3, <1>4, <2>1 DEF Verdict
  <1>10. Verdict' = [Verdict EXCEPT ![m] = r.d]
    BY <1>6, <1>8, <1>9 DEF Verdict
  <1> QED
    BY <1>5, <1>6, <1>7, <1>10 DEF Contract!Decide, Contract!Undecided

LEMMA RefDispose ==
  ASSUME RefInv, RefInv', NEW w \in Workers, DisposeSettle(w) \/ DisposeNothing(w)
  PROVE  (\E m \in Msgs : Contract!Settle(m)) \/ UNCHANGED Contract!vars
  <1> DEFINE m == wmsg[w].id
  <1>1. Busy' = Busy
    BY BusySame DEF DisposeSettle, DisposeNothing, Idle, RefInv
  <1>2. UNCHANGED <<pending, chan, wmsg, wres>>
    BY DEF DisposeSettle, DisposeNothing
  <1>3. InRound' = InRound /\ Verdict' = Verdict
    BY <1>1, <1>2 DEF InRound, Ids, Verdict
  <1>4. CASE UNCHANGED bst
    BY <1>3, <1>4 DEF Contract!vars, Queue
  <1>5. CASE /\ DisposeSettle(w) /\ HoldsLock(wmsg[w])
             /\ bst' = [bst EXCEPT ![m] = Outcome(wres[w].d)]
    <2>1. w \in Busy /\ wmsg[w] \in Message /\ wres[w] \in Results
      BY <1>5 DEF DisposeSettle, Busy, Idle, RefInv, TypeInv, WorkersHold
    <2>2. m \in Msgs /\ m \in InRound
      BY <2>1 DEF Message, InRound
    <2>3. Verdict[m] = wres[w].d
      BY <2>1, <2>2, NoneApart, VerdictOfWorker DEF RefInv
    <2>4. wres[w].d \in {"complete", "deadletter", "abandon"}
      BY <1>5 DEF DisposeSettle, Settling
    <2>5. Queue[m] = "ours"
      BY <1>5, <2>2 DEF HoldsLock, Queue
    <2>6. Queue' = [Queue EXCEPT ![m] = Outcome(wres[w].d)]
      <3>1. Outcome(wres[w].d) # "locked"
        BY <2>4 DEF Outcome
      <3>2. bst \in [Msgs -> {"ready", "locked", "elsewhere", "completed",
                              "deadlettered", "gone"}]
        BY DEF RefInv, TypeInv, TypeOK, OutsideOK
      <3> QED
        BY <1>5, <2>2, <3>1, <3>2 DEF Queue
    <2> QED
      BY <1>3, <2>2, <2>3, <2>4, <2>5, <2>6 DEF Contract!Settle, Outcome
  <1> QED
    BY <1>4, <1>5 DEF DisposeSettle, DisposeNothing

LEMMA RefFinish ==
  ASSUME RefInv, RefInv', NEW w \in Workers, WorkerDone(w)
  PROVE  \E m \in Msgs : Contract!Finish(m)
  <1> DEFINE m == wmsg[w].id
  <1>1. w \in Busy /\ wmsg[w] \in Message /\ wres[w] \in Results
    BY DEF WorkerDone, Busy, Idle, RefInv, TypeInv, WorkersHold
  <1>2. Busy' = Busy \ {w}
    BY BusyLess DEF WorkerDone, Idle, RefInv
  <1>3. UNCHANGED <<bst, pending, chan>>
    BY DEF WorkerDone
  <1>4. \A v \in Busy' : v \in Busy /\ wmsg'[v] = wmsg[v] /\ wres'[v] = wres[v]
    BY <1>2 DEF WorkerDone, RefInv, TypeInv, TypeOK, WorkersOK, Busy
  <1>5. m \in Msgs /\ m \in InRound
    BY <1>1 DEF Message, InRound
  <1>6. Verdict[m] = wres[w].d /\ wres[w].d \in Disposition
    BY <1>1, <1>5, NoneApart, VerdictOfWorker, ConstantsAssumption DEF RefInv
  <1>7. m \notin Ids(pending) \cup Ids(chan) /\ \A v \in Busy' : wmsg[v].id # m
    BY <1>1, <1>2 DEF RefInv, NoDuplicateInFlight
  <1>8. Ids(pending)' = Ids(pending) /\ Ids(chan)' = Ids(chan)
    BY <1>3 DEF Ids
  <1>9. {wmsg[v].id : v \in Busy}' = {wmsg[v].id : v \in Busy} \ {m}
    BY <1>1, <1>2, <1>4, <1>7
  <1>10. InRound' = InRound \ {m}
    BY <1>7, <1>8, <1>9 DEF InRound
  <1>11. Verdict'[m] = "undecided"
    BY <1>4, <1>5, <1>7 DEF Verdict
  <1>12. ASSUME NEW n \in Msgs, n # m
         PROVE  Verdict'[n] = Verdict[n]
    <2>1. CASE \E v \in Busy : wmsg[v].id = n /\ wres[v] # None
      <3>1. PICK v \in Busy : wmsg[v].id = n /\ wres[v] # None
        BY <2>1
      <3>2. Verdict[n] = wres[v].d
        BY <3>1, VerdictOfWorker DEF RefInv
      <3>3. v \in Busy' /\ wmsg'[v].id = n /\ wres'[v] = wres[v]
        BY <1>2, <1>4, <1>12, <3>1
      <3> DEFINE u == CHOOSE x \in Busy' : wmsg'[x].id = n /\ wres'[x] # None
      <3>4. u \in Busy' /\ wmsg'[u].id = n /\ wres'[u] # None
        BY <3>1, <3>3
      <3>5. u = v
        BY <3>3, <3>4 DEF RefInv, NoDuplicateInFlight
      <3>6. Verdict'[n] = wres'[u].d
        BY <3>4 DEF Verdict
      <3> QED
        BY <3>2, <3>3, <3>5, <3>6
    <2>2. CASE ~ \E v \in Busy : wmsg[v].id = n /\ wres[v] # None
      <3>1. ~ \E v \in Busy' : wmsg'[v].id = n /\ wres'[v] # None
        BY <1>4, <2>2
      <3> QED
        BY <2>2, <3>1 DEF Verdict
    <2> QED
      BY <2>1, <2>2
  <1>13. Verdict' = [Verdict EXCEPT ![m] = "undecided"]
    BY <1>5, <1>11, <1>12 DEF Verdict
  <1>14. Queue' = Queue
    BY <1>3 DEF Queue
  <1> QED
    BY <1>5, <1>6, <1>10, <1>13, <1>14, NoneApart
    DEF Contract!Finish, Contract!Undecided

\* The other steps of the process move a message from one place to the
\* next, or nothing.
LEMMA RefWorkerStutter ==
  ASSUME RefInv, RefInv', NEW w \in Workers,
         WorkerTake(w) \/ WorkerExit(w) \/ WorkerHandle(w)
  PROVE  UNCHANGED Contract!vars
  <1>0. /\ wpc \in [Workers -> Idle \cup {"taken", "handle", "dispose", "done"}]
        /\ wmsg \in [Workers -> Message \cup {None}]
        /\ chan \in Seq(Message)
    BY DEF RefInv, TypeInv, TypeOK, WorkersOK, ListenOK
  <1>1. CASE WorkerTake(w)
    <2>1. Busy' = Busy \cup {w} /\ w \notin Busy
      BY <1>1, BusyMore DEF WorkerTake, Idle, Busy, RefInv
    <2>2. wmsg' = [wmsg EXCEPT ![w] = Head(chan)] /\ chan' = Tail(chan)
          /\ chan # <<>> /\ UNCHANGED <<bst, pending, wres>>
      BY <1>1 DEF WorkerTake
    <2>3. \A v \in Busy : v # w /\ wmsg'[v] = wmsg[v]
      BY <1>0, <2>1, <2>2 DEF Busy
    <2>4. wmsg'[w] = Head(chan)
      BY <1>0, <2>2
    <2>5. Ids(chan) = {Head(chan).id} \cup Ids(Tail(chan))
      BY <1>0, <2>2, TailIds DEF RefInv, NoDuplicateInFlight
    <2>6. Ids(chan)' = Ids(Tail(chan)) /\ Ids(pending)' = Ids(pending)
      BY <2>2 DEF Ids
    <2>7. {wmsg[v].id : v \in Busy}' = {wmsg[v].id : v \in Busy} \cup {Head(chan).id}
      BY <2>1, <2>3, <2>4
    <2>8. InRound' = InRound
      BY <2>5, <2>6, <2>7 DEF InRound
    <2>9. wres[w] = None
      BY <1>1 DEF WorkerTake, RefInv, DecidedInv, ResultsKnown
    <2> QED
      BY <2>1, <2>2, <2>3, <2>8, <2>9, StutterStep DEF RefInv
  <1>2. CASE WorkerExit(w) \/ WorkerHandle(w)
    <2>1. UNCHANGED <<bst, pending, chan, wmsg, wres>>
      BY <1>2 DEF WorkerExit, WorkerHandle
    <2>2. \E s : wpc' = [wpc EXCEPT ![w] = s] /\ (wpc[w] \in Idle <=> s \in Idle)
      BY <1>2 DEF WorkerExit, WorkerHandle, Idle
    <2>3. Busy' = Busy
      BY <2>2, BusySame DEF RefInv
    <2>4. InRound' = InRound
      BY <2>1, <2>3 DEF InRound, Ids
    <2> QED
      BY <2>1, <2>3, <2>4, StutterStep DEF RefInv
  <1> QED
    BY <1>1, <1>2

\* Nothing that the mapping looks at changes.
LEMMA NothingSeen ==
  ASSUME UNCHANGED <<bst, pending, chan, wpc, wmsg, wres>>
  PROVE  UNCHANGED Contract!vars
  <1>1. Busy' = Busy
    BY DEF Busy
  <1>2. Queue' = Queue /\ InRound' = InRound
    BY <1>1 DEF Queue, InRound, Ids
  <1>3. Verdict' = Verdict
    BY <1>1 DEF Verdict
  <1> QED
    BY <1>2, <1>3 DEF Contract!vars

LEMMA RefListenerStutter ==
  ASSUME RefInv, RefInv', ListenStart \/ Listener, ~ReceiveMessages
  PROVE  UNCHANGED Contract!vars
  <1>1. CASE ListenStart \/ StartWorkers
    <2>1. pending = <<>> /\ chan = <<>> /\ Busy = {}
      BY <1>1, Quiet DEF ListenStart, StartWorkers, InRoundLoop, RefInv
    <2>2. UNCHANGED <<bst, pending>> /\ chan' = <<>>
      BY <1>1, <2>1 DEF ListenStart, StartWorkers
    <2>3. Busy' = {}
      BY <1>1 DEF ListenStart, StartWorkers, Busy, Idle
    <2>4. InRound' = InRound
      BY <2>1, <2>2, <2>3 DEF InRound, Ids
    <2> QED
      BY <2>1, <2>2, <2>3, <2>4, StutterStep DEF RefInv
  <1>2. CASE Send
    <2>1. pending # <<>> /\ pending \in Seq(Message) /\ chan \in Seq(Message)
      BY <1>2 DEF Send, RefInv, TypeInv, TypeOK, ListenOK, WorkersHold
    <2>2. /\ pending' = Tail(pending) /\ chan' = Append(chan, Head(pending))
          /\ UNCHANGED <<bst, wpc, wmsg, wres>>
      BY <1>2 DEF Send
    <2>3. Head(pending) \in Message
      BY <2>1, HeadTailType
    <2>4. Ids(pending) = {Head(pending).id} \cup Ids(Tail(pending))
      BY <2>1, TailIds DEF RefInv, NoDuplicateInFlight
    <2>5. Ids(Append(chan, Head(pending))) = Ids(chan) \cup {Head(pending).id}
      BY <2>1, <2>3, AppendIds
    <2>6. /\ Ids(pending)' = Ids(Tail(pending))
          /\ Ids(chan)' = Ids(Append(chan, Head(pending)))
      BY <2>2 DEF Ids
    <2>7. Busy' = Busy
      BY <2>2 DEF Busy
    <2>8. InRound' = InRound
      BY <2>2, <2>4, <2>5, <2>6, <2>7 DEF InRound
    <2> QED
      BY <2>2, <2>7, <2>8, StutterStep DEF RefInv
  <1>3. CASE OpenAgain \/ OpenReceiver \/ OpenReceiverFails \/ OpenLoop
             \/ OpenHandler \/ OpenHandlerFails \/ OpenHandlerGone \/ OpenDone \/ CallReceive
             \/ CallReceiveNil \/ ReceiveFails \/ WgAdd \/ WgWait
    <2>1. UNCHANGED <<bst, pending, chan, wpc, wmsg, wres>>
      BY <1>3 DEF OpenAgain, OpenReceiver, OpenReceiverFails, OpenLoop,
         OpenHandler, OpenHandlerFails, OpenHandlerGone, OpenDone, CallReceive,
         CallReceiveNil, ReceiveFails, WgAdd, WgWait
    <2> QED
      BY <2>1, NothingSeen
  <1> QED
    BY <1>1, <1>2, <1>3 DEF Listener

LEMMA RefBroker ==
  ASSUME RefInv, NEW m \in Msgs,
         Expire(m) \/ ReceiveElsewhere(m) \/ SettleElsewhere(m)
  PROVE  Contract!Elsewhere(m)
  <1>1. UNCHANGED <<pending, chan, wpc, wmsg, wres>>
    BY DEF Expire, ReceiveElsewhere, SettleElsewhere
  <1>2. Busy' = Busy
    BY <1>1 DEF Busy
  <1>3. InRound' = InRound /\ Verdict' = Verdict
    BY <1>1, <1>2 DEF InRound, Ids, Verdict
  <1>4. bst \in [Msgs -> {"ready", "locked", "elsewhere", "completed",
                          "deadlettered", "gone"}]
    BY DEF RefInv, TypeInv, TypeOK, OutsideOK
  <1>5. CASE Expire(m)
    <2>1. Queue[m] \in {"ours", "elsewhere"} /\ Queue' = [Queue EXCEPT ![m] = "ready"]
      BY <1>4, <1>5 DEF Expire, Queue
    <2> QED
      BY <1>3, <2>1 DEF Contract!Elsewhere
  <1>6. CASE ReceiveElsewhere(m)
    <2>1. Queue[m] = "ready" /\ Queue' = [Queue EXCEPT ![m] = "elsewhere"]
      BY <1>4, <1>6 DEF ReceiveElsewhere, Ready, Queue
    <2> QED
      BY <1>3, <2>1 DEF Contract!Elsewhere
  <1>7. CASE SettleElsewhere(m)
    <2>1. Queue[m] = "elsewhere" /\ Queue' = [Queue EXCEPT ![m] = "gone"]
      BY <1>4, <1>7 DEF SettleElsewhere, Queue
    <2> QED
      BY <1>3, <2>1 DEF Contract!Elsewhere
  <1> QED
    BY <1>5, <1>6, <1>7

LEMMA RefRestart ==
  ASSUME Restart
  PROVE  Contract!Forget
  <1>1. Busy' = {} /\ pending' = <<>> /\ chan' = <<>> /\ bst' = bst
    BY DEF Restart, Busy, Idle
  <1>2. InRound' = {}
    BY <1>1 DEF InRound, Ids
  <1>3. Verdict' = [m \in Msgs |-> "undecided"] /\ Queue' = Queue
    BY <1>1 DEF Verdict, Queue
  <1> QED
    BY <1>2, <1>3 DEF Contract!Forget, Contract!Undecided

LEMMA RefStep ==
  ASSUME RefInv, RefInv', [Next]_vars
  PROVE  [Contract!Next]_(Contract!vars)
  <1>1. CASE ListenStart \/ Listener
    BY <1>1, RefReceive, RefListenerStutter DEF Contract!Next
  <1>2. ASSUME NEW w \in Workers, WorkerExit(w) \/ Worker(w)
        PROVE  [Contract!Next]_(Contract!vars)
    <2>1. CASE HandlerReturn(w)
      BY <2>1, RefDecide DEF Contract!Next
    <2>2. CASE DisposeSettle(w) \/ DisposeNothing(w)
      BY <2>2, RefDispose DEF Contract!Next
    <2>3. CASE WorkerDone(w)
      BY <2>3, RefFinish DEF Contract!Next
    <2>4. CASE WorkerTake(w) \/ WorkerExit(w) \/ WorkerHandle(w)
      BY <2>4, RefWorkerStutter
    <2>5. CASE WorkerHandlerGone(w) \/ DisposeNilReceiver(w) \/ DisposeNilErr(w)
      <3>1. UNCHANGED <<bst, pending, chan, wpc, wmsg, wres>>
        BY <2>5 DEF WorkerHandlerGone, DisposeNilReceiver, DisposeNilErr
      <3> QED
        BY <3>1, NothingSeen
    <2> QED
      BY <1>2, <2>1, <2>2, <2>3, <2>4, <2>5 DEF Worker
  <1>3. ASSUME NEW w \in Workers, RenewTickNil(w) \/ RenewStop(w)
        PROVE  UNCHANGED Contract!vars
    <2>1. UNCHANGED <<bst, pending, chan, wpc, wmsg, wres>>
      BY <1>3 DEF RenewTickNil, RenewStop
    <2> QED
      BY <2>1, NothingSeen
  <1>4. ASSUME NEW c \in Closers,
               ShutdownCancel(c) \/ ShutdownNil(c) \/ Closing(c)
        PROVE  UNCHANGED Contract!vars
    <2>1. UNCHANGED <<bst, pending, chan, wpc, wmsg, wres>>
      BY <1>4 DEF ShutdownCancel, ShutdownNil, Closing, CloseCheck, CloseLock,
         CloseHandlers, CloseLink, CloseLinkNil, CloseClear
    <2> QED
      BY <2>1, NothingSeen
  <1>5. ASSUME NEW m \in Msgs,
               Expire(m) \/ ReceiveElsewhere(m) \/ SettleElsewhere(m)
        PROVE  Contract!Next
    BY <1>5, RefBroker DEF Contract!Next
  <1>6. CASE Restart
    BY <1>6, RefRestart DEF Contract!Next
  <1>7. CASE UNCHANGED vars
    BY <1>7, NothingSeen DEF vars
  <1> QED
    BY <1>1, <1>2, <1>3, <1>4, <1>5, <1>6, <1>7 DEF Next

\* The receiver of receiver.go, with its goroutines, channel, WaitGroup and
\* lock tokens, with Shutdowns and restarts, does what Delivery promises:
\* rounds of at most N messages that never overlap, one verdict per message
\* and round, settlement by the verdict while the lock is held.
THEOREM ReceiverImplementsDelivery == Spec => ImplementsDelivery
  <1>1. Spec => []RefInv
    BY RoundInvariant, NoDuplicates, DecidedInvariant, PTL DEF RefInv
  <1>2. RefInv /\ RefInv' /\ [Next]_vars => [Contract!Next]_(Contract!vars)
    BY RefStep
  <1> QED
    BY <1>1, <1>2, RefInitially, PTL DEF Spec, ImplementsDelivery, Contract!Spec

-----------------------------------------------------------------------------
(* So the receiver keeps what Delivery promises *)

\* The steps of Delivery, one property each.
LEMMA MappedDomains == DOMAIN Queue = Msgs /\ DOMAIN Verdict = Msgs
  BY DEF Queue, Verdict

LEMMA AcceptStep ==
  ASSUME Contract!Accept
  PROVE  /\ InRound = {} /\ Verdict' = Verdict
         /\ \A m \in Msgs : Queue'[m] = IF m \in InRound' THEN "ours" ELSE Queue[m]
         /\ \A m \in InRound' : Queue[m] = "ready"
  <1>1. InRound = {} /\ Verdict' = Verdict
        /\ Queue' = [m \in Msgs |-> IF m \in InRound' THEN "ours" ELSE Queue[m]]
    BY DEF Contract!Accept
  <1>2. PICK k \in 1..N : \E f \in [1..k -> {m \in Msgs : Queue[m] = "ready"}] :
          InRound' = {f[i] : i \in 1..k}
    BY DEF Contract!Accept
  <1>3. \A m \in InRound' : Queue[m] = "ready"
    BY <1>2
  <1> QED
    BY <1>1, <1>3

LEMMA ContractRounds ==
  ASSUME [Contract!Next]_(Contract!vars)
  PROVE  [InRound' \subseteq InRound \/ InRound = {}]_(Contract!vars)
  <1> SUFFICES ASSUME Contract!Next PROVE InRound' \subseteq InRound \/ InRound = {}
    OBVIOUS
  <1> QED
    BY DEF Contract!Next, Contract!Accept, Contract!Forget, Contract!Decide,
       Contract!Settle, Contract!Finish, Contract!Elsewhere

LEMMA ContractDecided ==
  ASSUME Contract!DecidedInRound, [Contract!Next]_(Contract!vars)
  PROVE  Contract!DecidedInRound'
  <1> USE MappedDomains DEF Contract!DecidedInRound
  <1>1. CASE UNCHANGED Contract!vars
    BY <1>1 DEF Contract!vars
  <1>2. CASE Contract!Accept
    BY <1>2, AcceptStep
  <1>3. CASE Contract!Forget
    BY <1>3 DEF Contract!Forget
  <1>4. ASSUME NEW m \in Msgs, NEW d \in Disposition, Contract!Decide(m, d)
        PROVE  Contract!DecidedInRound'
    BY <1>4 DEF Contract!Decide
  <1>5. ASSUME NEW m \in Msgs, Contract!Settle(m) \/ Contract!Elsewhere(m)
        PROVE  Contract!DecidedInRound'
    BY <1>5 DEF Contract!Settle, Contract!Elsewhere
  <1>6. ASSUME NEW m \in Msgs, Contract!Finish(m)
        PROVE  Contract!DecidedInRound'
    BY <1>6 DEF Contract!Finish
  <1> QED
    BY <1>1, <1>2, <1>3, <1>4, <1>5, <1>6 DEF Contract!Next

\* What a step does to a decision, and to a message's place.
Stands ==
    \A m \in Msgs : Verdict[m] # Contract!Undecided /\ m \in InRound' =>
        Verdict'[m] = Verdict[m]

Settles ==
    \A m \in Msgs : Queue'[m] # Queue[m] =>
        /\ Queue'[m] = "completed" => m \in InRound /\ Verdict[m] = "complete"
        /\ Queue'[m] = "deadlettered" => m \in InRound /\ Verdict[m] = "deadletter"
        /\ Queue[m] \notin {"completed", "deadlettered", "gone"}

LEMMA ContractSteps ==
  ASSUME Contract!Next
  PROVE  Stands /\ Settles
  <1> USE MappedDomains DEF Stands, Settles
  <1>1. CASE Contract!Accept
    BY <1>1, AcceptStep
  <1>2. CASE Contract!Forget
    BY <1>2 DEF Contract!Forget
  <1>3. ASSUME NEW m \in Msgs, NEW d \in Disposition, Contract!Decide(m, d)
        PROVE  Stands /\ Settles
    BY <1>3 DEF Contract!Decide
  <1>4. ASSUME NEW m \in Msgs, Contract!Settle(m)
        PROVE  Stands /\ Settles
    BY <1>4 DEF Contract!Settle
  <1>5. ASSUME NEW m \in Msgs, Contract!Finish(m)
        PROVE  Stands /\ Settles
    BY <1>5 DEF Contract!Finish
  <1>6. ASSUME NEW m \in Msgs, Contract!Elsewhere(m)
        PROVE  Stands /\ Settles
    BY <1>6 DEF Contract!Elsewhere
  <1> QED
    BY <1>1, <1>2, <1>3, <1>4, <1>5, <1>6 DEF Contract!Next

\* Whatever its goroutines do, the receiver keeps its rounds apart, lets no
\* verdict change, and settles a message only on its handler's verdict in the
\* round, once and for all (receiver.go:179-180, 286-305, disposition.go:43-58).
THEOREM ReceiverKeepsPromises == Spec => Contract!Promises
  <1>1. Contract!Init => Contract!DecidedInRound
    BY DEF Contract!Init, Contract!DecidedInRound
  <1>2. [Contract!Next]_(Contract!vars) => [Stands]_(Contract!vars)
    BY ContractSteps
  <1>3. [Contract!Next]_(Contract!vars) => [Settles]_(Contract!vars)
    BY ContractSteps
  <1> QED
    BY <1>1, <1>2, <1>3, ContractRounds, ContractDecided,
       ReceiverImplementsDelivery, PTL
       DEF ImplementsDelivery, Contract!Spec, Contract!Promises,
           Contract!RoundsApart, Contract!VerdictStands, Stands,
           Contract!SettledByDecision, Settles

=============================================================================
