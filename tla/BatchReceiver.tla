--------------------------- MODULE BatchReceiver ---------------------------
(***************************************************************************)
(* The BatchReceiver of azbus/batchreceiver.go: one goroutine in Listen    *)
(* that opens, receives a batch and runs the handler on it, over and over; *)
(* and goroutines in Shutdown, which clears the fields the first one reads *)
(* without a lock.  The handler settles messages itself, through Dispose;  *)
(* which message and how makes no difference here.                         *)
(***************************************************************************)
EXTENDS Integers

CONSTANTS
    Closers,        \* goroutines that call Shutdown
    None,
    BatchSizes,     \* what Cfg.BatchSize may be
    WithHandler,    \* a handler was given to NewBatchReceiver
    MaxListens      \* bound: calls of Listen

ASSUME BatchAssumption ==
    /\ None \notin Closers /\ BatchSizes \subseteq Nat
    /\ WithHandler \in BOOLEAN /\ MaxListens \in Nat

VARIABLES
    batchSize,      \* Cfg.BatchSize
    receiver,       \* r.Receiver is set
    handler,        \* r.Handler is set
    cancel,         \* r.Cancel is set
    mtx,
    ctxDone,        \* the context of the last Listen is cancelled
    link,           \* of r.Receiver: none, open, closed
    hstate,         \* the handler: new, open, failed
    closes,         \* how often the handler was closed
    lpc,            \* where Listen is
    listens,
    spc,            \* where each Shutdown is
    panic           \* what brought the process down

fields == <<batchSize, receiver, handler, cancel>>
outside == <<link, hstate, closes>>
vars == <<fields, mtx, ctxDone, outside, lpc, listens, spc, panic>>

TypeOK ==
    /\ batchSize \in BatchSizes
    /\ receiver \in BOOLEAN /\ handler \in BOOLEAN /\ cancel \in BOOLEAN
    /\ mtx \in Closers \cup {None}
    /\ ctxDone \in BOOLEAN
    /\ link \in {"none", "open", "closed"}
    /\ hstate \in {"new", "open", "failed"}
    /\ closes \in Nat
    /\ lpc \in {"idle", "open", "handler", "opening", "call", "receive",
                "batch", "handle", "returned"}
    /\ listens \in 0..MaxListens
    /\ spc \in [Closers -> {"idle", "check", "lock", "handler", "unset", "link",
                            "clear", "returned"}]
    /\ panic \in {"no", "open", "receive", "handle", "dispose", "error",
                  "cancel", "close"}

Init ==
    /\ batchSize \in BatchSizes
    /\ receiver = FALSE /\ handler = WithHandler /\ cancel = FALSE
    /\ mtx = None /\ ctxDone = FALSE
    /\ link = "none" /\ hstate = "new" /\ closes = 0
    /\ lpc = "idle" /\ listens = 0
    /\ spc = [c \in Closers |-> "idle"]
    /\ panic = "no"

Alive == panic = "no"

Panic(what) == panic' = what /\ UNCHANGED <<fields, mtx, ctxDone, outside, lpc,
                                            listens, spc>>

-----------------------------------------------------------------------------
(* Listen *)

ListenStep(from, to) ==
    /\ Alive /\ lpc = from
    /\ lpc' = to
    /\ UNCHANGED <<batchSize, handler, mtx, closes, spc, panic>>

Listen ==
    /\ ListenStep("idle", "open") \/ ListenStep("returned", "open")
    /\ listens < MaxListens /\ listens' = listens + 1
    /\ cancel' = TRUE /\ ctxDone' = FALSE
    /\ UNCHANGED <<receiver, link, hstate>>

\* r.Receiver is taken for the sign that everything is open.
OpenAgain ==
    /\ ListenStep("open", "call")
    /\ receiver
    /\ UNCHANGED <<receiver, cancel, ctxDone, link, hstate, listens>>

\* Mutant: `receiver :=` inside open declares a new variable.
OpenReceiverShadowed ==
    /\ ListenStep("open", "handler")
    /\ ~receiver /\ link' = "open"
    /\ UNCHANGED <<receiver, cancel, ctxDone, hstate, listens>>

OpenReceiver ==
    /\ ListenStep("open", "handler")
    /\ ~receiver /\ receiver' = TRUE /\ link' = "open"
    /\ UNCHANGED <<cancel, ctxDone, hstate, listens>>

OpenReceiverFails ==
    /\ ListenStep("open", "returned")
    /\ ~receiver
    /\ UNCHANGED <<receiver, cancel, ctxDone, link, hstate, listens>>

\* The nil check of the handler comes before the call, and is a step before.
CheckHandler ==
    /\ ListenStep("handler", IF handler THEN "opening" ELSE "call")
    /\ UNCHANGED <<receiver, cancel, ctxDone, link, hstate, listens>>

OpenHandler ==
    /\ ListenStep("opening", "call")
    /\ handler /\ hstate' = "open"
    /\ UNCHANGED <<receiver, cancel, ctxDone, link, listens>>

\* Mutant: the handler's error is logged.
OpenHandlerIgnored ==
    /\ ListenStep("opening", "call")
    /\ handler
    /\ UNCHANGED <<receiver, cancel, ctxDone, link, hstate, listens>>

\* Listen returns the error; r.Receiver stays set.
OpenHandlerFails ==
    /\ ListenStep("opening", "returned")
    /\ handler /\ hstate' = "failed"
    /\ UNCHANGED <<receiver, cancel, ctxDone, link, listens>>

OpenHandlerGone == Alive /\ lpc = "opening" /\ ~handler /\ Panic("open")

\* A batch size of 0 is an error of every Listen.
NoBatchSize ==
    /\ ListenStep("call", "returned")
    /\ batchSize = 0
    /\ UNCHANGED <<receiver, cancel, ctxDone, link, hstate, listens>>

CallReceive ==
    /\ ListenStep("call", "receive")
    /\ batchSize # 0 /\ receiver
    /\ UNCHANGED <<receiver, cancel, ctxDone, link, hstate, listens>>

CallReceiveNil ==
    Alive /\ lpc = "call" /\ batchSize # 0 /\ ~receiver /\ Panic("receive")

ReceiveMessages ==
    /\ ListenStep("receive", "batch")
    /\ link = "open"
    /\ UNCHANGED <<receiver, cancel, ctxDone, link, hstate, listens>>

\* Mutant: a failed receive is tried again.
ReceiveAgain ==
    /\ ListenStep("receive", "call")
    /\ UNCHANGED <<receiver, cancel, ctxDone, link, hstate, listens>>

\* Cancelled, closed or lost.
ReceiveFails ==
    /\ ListenStep("receive", "returned")
    /\ UNCHANGED <<receiver, cancel, ctxDone, link, hstate, listens>>

Handle ==
    /\ ListenStep("batch", "handle")
    /\ handler
    /\ UNCHANGED <<receiver, cancel, ctxDone, link, hstate, listens>>

HandleNil == Alive /\ lpc = "batch" /\ ~handler /\ Panic("handle")

\* The handler settles a message of the batch with r.Receiver gone; with
\* r.Receiver set, the outcome is logged and nothing here changes.
DisposeNil == Alive /\ lpc = "handle" /\ ~receiver /\ Panic("dispose")

\* The handler dead-letters a message without an error: deadLetter evaluates
\* err.Error().
DisposeNilErr == Alive /\ lpc = "handle" /\ Panic("error")

\* The handler is done: the next batch, or its error ends Listen.
HandlerReturn ==
    /\ ListenStep("handle", "call") \/ ListenStep("handle", "returned")
    /\ UNCHANGED <<receiver, cancel, ctxDone, link, hstate, listens>>

-----------------------------------------------------------------------------
(* Shutdown and close_ *)

ShutdownStep(c, from, to) ==
    /\ Alive /\ spc[c] = from
    /\ spc' = [spc EXCEPT ![c] = to]
    /\ UNCHANGED <<batchSize, link, hstate, lpc, listens, panic>>

Shutdown(c) ==
    /\ Alive /\ spc[c] = "idle" /\ cancel
    /\ spc' = [spc EXCEPT ![c] = "check"] /\ ctxDone' = TRUE
    /\ UNCHANGED <<fields, mtx, outside, lpc, listens, panic>>

ShutdownNil(c) == Alive /\ spc[c] = "idle" /\ ~cancel /\ Panic("cancel")

CloseCheck(c) ==
    /\ ShutdownStep(c, "check", IF receiver THEN "lock" ELSE "returned")
    /\ UNCHANGED <<receiver, handler, cancel, mtx, ctxDone, closes>>

\* Mutant: no mtx.Lock.
CloseLockNot(c) ==
    /\ ShutdownStep(c, "lock", "handler")
    /\ mtx' = c
    /\ UNCHANGED <<receiver, handler, cancel, ctxDone, closes>>

CloseLock(c) ==
    /\ ShutdownStep(c, "lock", "handler")
    /\ mtx = None /\ mtx' = c
    /\ UNCHANGED <<receiver, handler, cancel, ctxDone, closes>>

CloseHandler(c) ==
    /\ \/ /\ handler /\ closes' = closes + 1
          /\ ShutdownStep(c, "handler", "unset")
       \/ ~handler /\ UNCHANGED closes /\ ShutdownStep(c, "handler", "link")
    /\ UNCHANGED <<receiver, handler, cancel, mtx, ctxDone>>

UnsetHandler(c) ==
    /\ ShutdownStep(c, "unset", "link")
    /\ handler' = FALSE
    /\ UNCHANGED <<receiver, cancel, mtx, ctxDone, closes>>

CloseLink(c) ==
    /\ Alive /\ spc[c] = "link" /\ receiver
    /\ spc' = [spc EXCEPT ![c] = "clear"] /\ link' = "closed"
    /\ UNCHANGED <<fields, mtx, ctxDone, hstate, closes, lpc, listens, panic>>

\* Another Shutdown cleared r.Receiver between the check and the lock.
CloseNil(c) == Alive /\ spc[c] = "link" /\ ~receiver /\ Panic("close")

\* Mutant: no mtx.Unlock.
CloseClearLocked(c) ==
    /\ ShutdownStep(c, "clear", "returned")
    /\ handler' = FALSE /\ receiver' = FALSE /\ cancel' = FALSE
    /\ UNCHANGED <<mtx, ctxDone, closes>>

CloseClear(c) ==
    /\ ShutdownStep(c, "clear", "returned")
    /\ handler' = FALSE /\ receiver' = FALSE /\ cancel' = FALSE /\ mtx' = None
    /\ UNCHANGED <<ctxDone, closes>>

-----------------------------------------------------------------------------
Receiving == ReceiveMessages \/ ReceiveFails

Listening ==
    \/ OpenAgain \/ OpenReceiver \/ OpenReceiverFails \/ CheckHandler
    \/ OpenHandler \/ OpenHandlerFails \/ OpenHandlerGone
    \/ NoBatchSize \/ CallReceive \/ CallReceiveNil
    \/ Handle \/ HandleNil \/ HandlerReturn

Closing(c) ==
    \/ CloseCheck(c) \/ CloseLock(c) \/ CloseHandler(c) \/ UnsetHandler(c)
    \/ CloseLink(c) \/ CloseNil(c) \/ CloseClear(c)

Next == \/ Listen \/ Listening \/ Receiving \/ DisposeNil \/ DisposeNilErr
        \/ \E c \in Closers : Shutdown(c) \/ ShutdownNil(c) \/ Closing(c)

Spec == Init /\ [][Next]_vars

\* Goroutines run; opens, closes and handlers return.  ReceiveMessages may
\* block for ever; on a cancelled context it returns, and with an error
\* sooner or later: the same context is passed to every call.
FairSpec == /\ Spec
            /\ WF_vars(Listening) /\ SF_vars(ctxDone /\ ReceiveFails)
            /\ \A c \in Closers : WF_vars(Closing(c))

-----------------------------------------------------------------------------
(* Properties *)

\* The handler sees a batch only after its Open (batchreceiver.go:223-227),
\* as long as nobody calls Listen again after the Open failed: open then
\* returns at once (201-203).
HandlerOpened ==
    lpc = "handle" => hstate = "open" \/ (hstate = "failed" /\ listens > 1)

\* Two Shutdowns close the handler once (batchreceiver.go:236-242).
HandlerClosedOnce == closes <= 1

\* Given a handler, nothing brings the process down before a Shutdown has
\* unset it: not a Listen that failed at any point, nor the one after it
\* (batchreceiver.go:143, 167, 224, 236-251), only a handler that passes no
\* error with a dead letter (disposition.go:98) and a Shutdown that finds no
\* Listen to cancel (193).
PanicsOnlyInShutdown ==
    WithHandler => \/ panic \in {"no", "error", "cancel"}
                   \/ ~handler /\ \E c \in Closers :
                                     spc[c] \in {"link", "clear", "returned"}

\* A cancelled Listen returns (batchreceiver.go:124-133, 193): the batch
\* receiver waits for nothing but its handler.
ListenReturns == ctxDone ~> (lpc = "returned" \/ ~ctxDone \/ ~Alive)

\* Every Shutdown returns.
ShutdownReturns ==
    \A c \in Closers : spc[c] = "check" ~> (spc[c] = "returned" \/ ~Alive)

=============================================================================
