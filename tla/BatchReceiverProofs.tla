------------------------ MODULE BatchReceiverProofs ------------------------
(***************************************************************************)
(* Proofs of the safety properties of BatchReceiver, for any number of     *)
(* Shutdowns, any batch sizes and any number of Listens.                   *)
(***************************************************************************)
EXTENDS BatchReceiver, TLAPS

\* The mutex is held from the lock to the clear, and the one Close of the
\* handler is under way or behind.
Closed ==
    /\ \A c \in Closers : spc[c] \in {"handler", "unset", "link", "clear"} <=> mtx = c
    /\ closes \in {0, 1}
    /\ closes = 1 => ~handler \/ \E c \in Closers : spc[c] = "unset"

\* A handler whose Open failed is run by the Listen after that, at the
\* earliest.
Opened == hstate = "open" \/ (hstate = "failed" /\ (listens > 1 \/ lpc = "returned"))

\* Between two opens r.Receiver says that the handler was opened, if there
\* still is one; past open there is no need to ask.
OpenedFirst ==
    /\ lpc # "idle" => listens > 0
    /\ lpc \in {"idle", "open", "returned"} /\ receiver => ~handler \/ Opened
    /\ lpc \in {"call", "receive", "batch"} => ~handler \/ Opened
    /\ lpc = "handle" => Opened

\* A Shutdown has unset the handler.
Unset == ~handler /\ \E c \in Closers : spc[c] \in {"link", "clear", "returned"}

\* Until then the fields Listen uses stay what open made them, and a Shutdown
\* that passed the nil check finds a receiver to close.
Undisturbed ==
    \/ Unset
    \/ /\ handler = WithHandler
       /\ lpc \notin {"idle", "open", "returned"} => receiver
       /\ WithHandler => panic \in {"no", "error", "cancel"}
       /\ \A c \in Closers :
            spc[c] \in {"lock", "handler", "unset", "link", "clear"} => receiver

Inv == TypeOK /\ Closed /\ OpenedFirst /\ Undisturbed

-----------------------------------------------------------------------------
ListenSide == Listen \/ Listening \/ Receiving \/ DisposeNil \/ DisposeNilErr

CloseSide(c) == Shutdown(c) \/ ShutdownNil(c) \/ Closing(c)

LEMMA Initially == Init => Inv
  <1> SUFFICES ASSUME Init PROVE Inv
    OBVIOUS
  <1>1. listens \in 0..MaxListens /\ closes \in Nat
    BY BatchAssumption DEF Init
  <1>2. TypeOK
    <2>1. spc \in [Closers -> {"idle", "check", "lock", "handler", "unset",
                               "link", "clear", "returned"}]
      BY DEF Init
    <2> QED
      BY ONLY <1>1, <2>1, Init, BatchAssumption, Zenon DEF Init, TypeOK
  <1>3. Closed
    <2>1. \A c \in Closers : spc[c] = "idle" /\ mtx # c
      BY BatchAssumption DEF Init
    <2> QED
      BY <2>1 DEF Init, Closed
  <1>4. OpenedFirst /\ Undisturbed
    BY DEF Init, OpenedFirst, Undisturbed
  <1> QED
    BY <1>2, <1>3, <1>4 DEF Inv

\* Listen takes no part in closing.
LEMMA ListenLeavesClosing ==
  ASSUME ListenSide
  PROVE  UNCHANGED <<batchSize, handler, mtx, closes, spc>>
  BY DEF ListenSide, Listen, Listening, Receiving, DisposeNil, DisposeNilErr,
     ListenStep,
     OpenAgain, OpenReceiver, OpenReceiverFails, CheckHandler, OpenHandler,
     OpenHandlerFails, OpenHandlerGone, NoBatchSize, CallReceive,
     CallReceiveNil, Handle, HandleNil, HandlerReturn, ReceiveMessages,
     ReceiveFails, Panic, fields, outside

\* A step of Listen goes on to another place, or brings the process down.
LEMMA ListenType ==
  ASSUME TypeOK, ListenSide
  PROVE  TypeOK'
  <1> USE DEF TypeOK, ListenStep
  <1>1. CASE Listen
    <2>1. listens' \in 0..MaxListens
      BY <1>1, BatchAssumption DEF Listen
    <2>2. lpc' = "open"
      BY <1>1 DEF Listen
    <2> QED
      BY <1>1, <2>1, <2>2, Zenon DEF Listen
  <1>2. CASE OpenAgain \/ OpenReceiver \/ OpenReceiverFails
    <2>1. CASE OpenAgain \/ OpenReceiverFails
      BY <2>1, ZenonT(30) DEF OpenAgain, OpenReceiverFails
    <2>2. CASE OpenReceiver
      BY <2>2, Zenon DEF OpenReceiver
    <2> QED
      BY <1>2, <2>1, <2>2
  <1>3. CASE CheckHandler
    BY <1>3 DEF CheckHandler
  <1>4. CASE OpenHandler \/ OpenHandlerFails
    BY <1>4 DEF OpenHandler, OpenHandlerFails
  <1>5. CASE NoBatchSize \/ CallReceive \/ Handle \/ HandlerReturn \/ Receiving
    BY <1>5 DEF NoBatchSize, CallReceive, Handle, HandlerReturn, Receiving,
       ReceiveMessages, ReceiveFails
  <1>6. CASE OpenHandlerGone \/ CallReceiveNil \/ HandleNil \/ DisposeNil
           \/ DisposeNilErr
    BY <1>6 DEF OpenHandlerGone, CallReceiveNil, HandleNil, DisposeNil,
       DisposeNilErr, Panic, fields, outside
  <1> QED
    BY <1>1, <1>2, <1>3, <1>4, <1>5, <1>6 DEF ListenSide, Listening

LEMMA ListenOpenedFirst ==
  ASSUME TypeOK, OpenedFirst, ListenSide
  PROVE  OpenedFirst'
  <1> USE DEF OpenedFirst, Opened, ListenStep
  <1>1. CASE Listen
    BY <1>1 DEF Listen, TypeOK
  <1>2. CASE OpenAgain \/ OpenReceiver \/ OpenReceiverFails \/ CheckHandler
    BY <1>2 DEF OpenAgain, OpenReceiver, OpenReceiverFails, CheckHandler
  <1>3. CASE OpenHandler \/ OpenHandlerFails
    BY <1>3 DEF OpenHandler, OpenHandlerFails
  <1>4. CASE NoBatchSize \/ CallReceive \/ Handle \/ HandlerReturn \/ Receiving
    BY <1>4 DEF NoBatchSize, CallReceive, Handle, HandlerReturn, Receiving,
       ReceiveMessages, ReceiveFails
  <1>5. CASE OpenHandlerGone \/ CallReceiveNil \/ HandleNil \/ DisposeNil
           \/ DisposeNilErr
    BY <1>5 DEF OpenHandlerGone, CallReceiveNil, HandleNil, DisposeNil,
       DisposeNilErr, Panic, fields, outside
  <1> QED
    BY <1>1, <1>2, <1>3, <1>4, <1>5 DEF ListenSide, Listening

LEMMA ListenUndisturbed ==
  ASSUME TypeOK, Undisturbed, ListenSide
  PROVE  Undisturbed'
  <1>0. UNCHANGED <<handler, spc>>
    BY ListenLeavesClosing
  <1> SUFFICES ASSUME ~Unset PROVE Undisturbed'
    BY <1>0 DEF Undisturbed, Unset
  <1> USE DEF Undisturbed, ListenStep
  <1>1. CASE Listen
    BY <1>1 DEF Listen
  <1>2. CASE OpenAgain \/ OpenReceiver \/ OpenReceiverFails \/ CheckHandler
    BY <1>2 DEF OpenAgain, OpenReceiver, OpenReceiverFails, CheckHandler
  <1>3. CASE OpenHandler \/ OpenHandlerFails
    BY <1>3 DEF OpenHandler, OpenHandlerFails
  <1>4. CASE NoBatchSize \/ CallReceive \/ Handle \/ HandlerReturn \/ Receiving
    BY <1>4 DEF NoBatchSize, CallReceive, Handle, HandlerReturn, Receiving,
       ReceiveMessages, ReceiveFails
  <1>5. CASE OpenHandlerGone \/ CallReceiveNil \/ HandleNil \/ DisposeNil
           \/ DisposeNilErr
    BY <1>5 DEF OpenHandlerGone, CallReceiveNil, HandleNil, DisposeNil,
       DisposeNilErr, Panic, fields, outside
  <1> QED
    BY <1>1, <1>2, <1>3, <1>4, <1>5 DEF ListenSide, Listening

-----------------------------------------------------------------------------
LEMMA CloseType ==
  ASSUME TypeOK, NEW c \in Closers, CloseSide(c)
  PROVE  TypeOK'
  <1> DEFINE Places == {"idle", "check", "lock", "handler", "unset", "link",
                        "clear", "returned"}
  <1>1. ASSUME NEW p \in Places, spc' = [spc EXCEPT ![c] = p]
        PROVE  spc' \in [Closers -> Places]
    BY <1>1 DEF TypeOK
  <1> HIDE DEF Places
  <1>2. spc' \in [Closers -> Places]
    <2>1. spc' = spc \/ \E p \in Places : spc' = [spc EXCEPT ![c] = p]
      BY DEF CloseSide, Shutdown, ShutdownNil, Closing, ShutdownStep,
         CloseCheck, CloseLock, CloseHandler, UnsetHandler, CloseLink,
         CloseNil, CloseClear, Panic, Places
    <2> QED
      BY <1>1, <2>1 DEF TypeOK, Places
  <1>3. closes' \in Nat
    BY DEF CloseSide, Shutdown, ShutdownNil, Closing, ShutdownStep, CloseCheck,
       CloseLock, CloseHandler, UnsetHandler, CloseLink, CloseNil, CloseClear,
       Panic, outside, TypeOK
  <1>4. TypeOK' \/ ~(closes' \in Nat /\ spc' \in [Closers -> Places])
    BY Zenon DEF CloseSide, Shutdown, ShutdownNil, Closing, ShutdownStep,
       CloseCheck, CloseLock, CloseHandler, UnsetHandler, CloseLink, CloseNil,
       CloseClear, Panic, fields, outside, TypeOK, Places
  <1> QED
    BY <1>2, <1>3, <1>4

\* Under the mutex one Shutdown at a time asks for r.Handler, closes it and
\* clears it.
LEMMA CloseClosed ==
  ASSUME TypeOK, Closed, NEW c \in Closers, CloseSide(c)
  PROVE  Closed'
  <1> USE BatchAssumption DEF TypeOK, Closed, ShutdownStep
  <1>1. CASE Shutdown(c)
    BY <1>1 DEF Shutdown, fields, outside
  <1>2. CASE ShutdownNil(c) \/ CloseNil(c)
    BY <1>2 DEF ShutdownNil, CloseNil, Panic, fields, outside
  <1>3. CASE CloseCheck(c)
    BY <1>3 DEF CloseCheck
  <1>4. CASE CloseLock(c)
    BY <1>4 DEF CloseLock
  <1>5. CASE CloseHandler(c)
    BY <1>5 DEF CloseHandler
  <1>6. CASE UnsetHandler(c)
    BY <1>6 DEF UnsetHandler
  <1>7. CASE CloseLink(c)
    BY <1>7 DEF CloseLink, fields
  <1>8. CASE CloseClear(c)
    BY <1>8 DEF CloseClear
  <1> QED
    BY <1>1, <1>2, <1>3, <1>4, <1>5, <1>6, <1>7, <1>8 DEF CloseSide, Closing

\* A Shutdown takes r.Receiver and r.Handler away and never gives them back.
LEMMA CloseOpenedFirst ==
  ASSUME TypeOK, OpenedFirst, NEW c \in Closers, CloseSide(c)
  PROVE  OpenedFirst'
  <1>1. /\ UNCHANGED <<hstate, lpc, listens>>
        /\ handler' => handler
        /\ receiver' => receiver
    BY DEF CloseSide, Shutdown, ShutdownNil, Closing, ShutdownStep, CloseCheck,
       CloseLock, CloseHandler, UnsetHandler, CloseLink, CloseNil, CloseClear,
       Panic, fields, outside, TypeOK
  <1> QED
    BY <1>1 DEF OpenedFirst, Opened

LEMMA CloseUndisturbed ==
  ASSUME TypeOK, Undisturbed, NEW c \in Closers, CloseSide(c)
  PROVE  Undisturbed'
  <1> USE DEF ShutdownStep, TypeOK
  <1>1. CASE Unset
    <2>1. handler' => handler
      BY DEF CloseSide, Shutdown, ShutdownNil, Closing, CloseCheck, CloseLock,
         CloseHandler, UnsetHandler, CloseLink, CloseNil, CloseClear, Panic, fields
    <2>2. \A d \in Closers : spc[d] \in {"link", "clear", "returned"} =>
                              spc'[d] \in {"link", "clear", "returned"}
      BY DEF CloseSide, Shutdown, ShutdownNil, Closing, CloseCheck, CloseLock,
         CloseHandler, UnsetHandler, CloseLink, CloseNil, CloseClear, Panic
    <2> QED
      BY <1>1, <2>1, <2>2 DEF Unset, Undisturbed
  <1> SUFFICES ASSUME ~Unset PROVE Undisturbed'
    BY <1>1
  <1> USE DEF Undisturbed, Unset
  <1>2. CASE Shutdown(c) \/ CloseCheck(c) \/ CloseLock(c)
    BY <1>2 DEF Shutdown, CloseCheck, CloseLock, fields
  <1>3. CASE ShutdownNil(c)
    BY <1>3 DEF ShutdownNil, Panic, fields
  <1>4. CASE CloseHandler(c) \/ UnsetHandler(c)
    BY <1>4 DEF CloseHandler, UnsetHandler
  <1>5. CASE CloseLink(c)
    BY <1>5 DEF CloseLink, fields
  <1>6. CASE CloseNil(c)
    BY <1>6 DEF CloseNil
  <1>7. CASE CloseClear(c)
    BY <1>7 DEF CloseClear
  <1> QED
    BY <1>2, <1>3, <1>4, <1>5, <1>6, <1>7 DEF CloseSide, Closing

-----------------------------------------------------------------------------
THEOREM Invariant == Spec => []Inv
  <1>1. Inv /\ [Next]_vars => Inv'
    <2> SUFFICES ASSUME Inv, [Next]_vars PROVE Inv'
      OBVIOUS
    <2> USE DEF Inv
    <2>1. CASE ListenSide
      <3>1. Closed'
        BY <2>1, ListenLeavesClosing DEF Closed
      <3> QED
        BY <2>1, <3>1, ListenType, ListenOpenedFirst, ListenUndisturbed
    <2>2. ASSUME NEW c \in Closers, CloseSide(c) PROVE Inv'
      BY <2>2, CloseType, CloseClosed, CloseOpenedFirst, CloseUndisturbed
    <2>3. CASE UNCHANGED vars
      BY <2>3 DEF vars, fields, outside, TypeOK, Closed, OpenedFirst, Opened,
         Undisturbed, Unset
    <2> QED
      BY <2>1, <2>2, <2>3 DEF Next, ListenSide, CloseSide
  <1> QED
    BY <1>1, Initially, PTL DEF Spec

\* Every variable keeps its type, for any number of Shutdowns and Listens
\* (batchreceiver.go:37-62).
THEOREM TypeCorrect == Spec => []TypeOK
  BY Invariant, PTL DEF Inv

\* The mutex is held by the Shutdown between lock and clear and by nobody else:
\* none waits for one that has returned (batchreceiver.go:232-253).
MutexHeld ==
    \A c \in Closers : spc[c] \in {"handler", "unset", "link", "clear"} <=> mtx = c

THEOREM MutexIsReleased == Spec => []MutexHeld
  <1>1. Inv => MutexHeld
    BY DEF Inv, Closed, MutexHeld
  <1> QED
    BY <1>1, Invariant, PTL

\* A batch reaches only a handler that was opened, unless Listen is called
\* again after the Open failed (batchreceiver.go:201-203, 223-227).
THEOREM HandlerIsOpened == Spec => []HandlerOpened
  <1>1. Inv => HandlerOpened
    BY DEF Inv, OpenedFirst, Opened, HandlerOpened
  <1> QED
    BY <1>1, Invariant, PTL

\* However many Shutdowns run at once, the handler is closed at most once
\* (batchreceiver.go:236-242).
THEOREM HandlerIsClosedOnce == Spec => []HandlerClosedOnce
  <1>1. Inv => HandlerClosedOnce
    BY DEF Inv, Closed, HandlerClosedOnce
  <1> QED
    BY <1>1, Invariant, PTL

\* Until a Shutdown unsets the handler no failure of Listen, no Listen after it
\* and no other Shutdown brings the process down (batchreceiver.go:143, 167,
\* 224).
THEOREM OnlyShutdownPanics == Spec => []PanicsOnlyInShutdown
  <1>1. Inv => PanicsOnlyInShutdown
    BY DEF Inv, Undisturbed, Unset, PanicsOnlyInShutdown
  <1> QED
    BY <1>1, Invariant, PTL

=============================================================================
