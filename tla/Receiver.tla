------------------------------ MODULE Receiver ------------------------------
(***************************************************************************)
(* azbus.Receiver (azbus/receiver.go, disposition.go): Listen opens a peek *)
(* lock receiver on an Azure Service Bus queue, starts one worker          *)
(* goroutine per handler and then runs rounds: receive at most N messages, *)
(* hand them to the workers over a buffered channel, wait on a WaitGroup   *)
(* until all are disposed of, receive again.  Shutdown may be called by    *)
(* any goroutine at any time.                                              *)
(*                                                                         *)
(* Every read of r.receiver, r.handlers and r.cancel outside close_ is     *)
(* unsynchronised.  Each such read is one step here, and close_ closes the *)
(* link in a step before the one that clears the fields, so a stale        *)
(* pointer (which can only reach a closed link) behaves as a read taken    *)
(* before the fields were cleared.                                         *)
(***************************************************************************)
EXTENDS Integers, Sequences, FiniteSets, Functions

CONSTANTS
    Msgs,           \* the messages on the queue
    None,           \* no message in the worker's hands, no holder of mtx
    Closers,        \* the goroutines that call Shutdown, each once per process
    N,              \* how many handlers WithHandlers registered
    Renew,          \* Cfg.RenewMessageLock
    Results,        \* what a handler may return: [d: Disposition, err: BOOLEAN]
    MaxDeliveries,  \* bound: deliveries of one message
    MaxListens,     \* bound: calls of Listen in one process
    MaxRestarts     \* bound: restarts of the process

\* disposition.go:18-23; "unknown" is any other value of the int type.
Disposition == {"deadletter", "abandon", "reschedule", "complete", "unknown"}

ASSUME ConstantsAssumption ==
    /\ N \in Nat
    /\ Renew \in BOOLEAN
    /\ None \notin Msgs \cup Closers \cup Results
    /\ Results \subseteq [d : Disposition, err : BOOLEAN]
    /\ MaxDeliveries \in Nat /\ MaxListens \in Nat /\ MaxRestarts \in Nat

Workers == 1..N

VARIABLES
    \* the Receiver struct
    receiver,   \* r.receiver: "nil" or "link"
    handlers,   \* len(r.handlers): N, or 0 once close_ emptied it
    cancel,     \* r.cancel: "nil" or "set"
    mtx,        \* who holds r.mtx
    \* the goroutine in Listen
    ctxDone,    \* the context of the current Listen is cancelled
    lpc,        \* where Listen is
    opening,    \* loop index of open
    nrecv,      \* numberOfReceivedMessages
    pending,    \* messages of this round not yet sent to the workers
    chan,       \* the channel msgs, capacity nrecv
    wg,         \* the WaitGroup counter
    stranded,   \* workers of earlier Listens that no cancel can reach
    \* the worker goroutines
    wpc, wmsg, wres,
    renew,      \* the goroutine renewMessageLock of the worker's message
    \* Shutdown, per caller
    spc,
    panic,      \* why the process died, "no" while it lives
    listens, restarts,
    \* outside the process: AMQP link, handlers, broker
    link, hstate,
    bst,        \* where the broker has the message
    delivery,   \* deliveries so far; the lock token of the last one
    verdicts    \* history: what our handlers returned, per delivery

structVars == <<receiver, handlers, cancel, mtx>>
listenVars == <<ctxDone, opening, nrecv, stranded>>
roundVars  == <<pending, chan, wg>>
workerVars == <<wpc, wmsg, wres, renew>>
bounds     == <<listens, restarts>>
outside    == <<link, hstate>>
broker     == <<bst, delivery>>
vars == <<structVars, listenVars, lpc, roundVars, workerVars, spc, panic,
          bounds, outside, broker, verdicts>>

Message == [id : Msgs, lock : Nat]
Idle    == {"off", "idle"}
Busy    == {w \in Workers : wpc[w] \notin Idle}

StructOK ==
    /\ receiver \in {"nil", "link"}
    /\ handlers \in {0, N}
    /\ cancel \in {"nil", "set"}
    /\ mtx \in Closers \cup {None}
    /\ spc \in [Closers -> {"idle", "check", "lock", "handlers", "link",
                            "clear", "returned"}]
    /\ panic \in {"no", "open", "receive", "handler", "dispose", "renew",
                  "error value", "cancel", "close"}
    /\ listens \in Nat /\ restarts \in Nat

ListenOK ==
    /\ ctxDone \in BOOLEAN
    /\ lpc \in {"idle", "open", "opened", "handlers", "start", "call", "recv", "add",
                "send", "returned"}
    /\ opening \in Nat
    /\ nrecv \in {0, N}
    /\ pending \in Seq(Message)
    /\ chan \in Seq(Message)
    /\ wg \in Int
    /\ stranded \in Nat

WorkersOK ==
    /\ wpc \in [Workers -> Idle \cup {"taken", "handle", "dispose", "done"}]
    /\ wmsg \in [Workers -> Message \cup {None}]
    /\ wres \in [Workers -> Results \cup {None}]
    /\ renew \in [Workers -> {"off", "on", "stopping"}]

OutsideOK ==
    /\ link \in {"none", "open", "closed"}
    /\ hstate \in [Workers -> {"new", "open", "failed", "closed"}]
    /\ bst \in [Msgs -> {"ready", "locked", "elsewhere", "completed",
                         "deadlettered", "gone"}]
    /\ delivery \in [Msgs -> Nat]
    /\ verdicts \subseteq [id : Msgs, lock : Nat, d : Disposition]

TypeOK == StructOK /\ ListenOK /\ WorkersOK /\ OutsideOK

-----------------------------------------------------------------------------
\* A new process: newReceiver, with N handlers given.
Init ==
    /\ receiver = "nil" /\ handlers = N /\ cancel = "nil" /\ mtx = None
    /\ ctxDone = FALSE /\ lpc = "idle" /\ opening = 0 /\ nrecv = 0
    /\ pending = <<>> /\ chan = <<>> /\ wg = 0 /\ stranded = 0
    /\ wpc = [w \in Workers |-> "off"]
    /\ wmsg = [w \in Workers |-> None]
    /\ wres = [w \in Workers |-> None]
    /\ renew = [w \in Workers |-> "off"]
    /\ spc = [c \in Closers |-> "idle"]
    /\ panic = "no" /\ listens = 0 /\ restarts = 0
    /\ link = "none"
    /\ hstate = [w \in Workers |-> "new"]
    /\ bst = [m \in Msgs |-> "ready"]
    /\ delivery = [m \in Msgs |-> 0]
    /\ verdicts = {}

Alive == panic = "no"

\* A nil dereference, an index out of range or a nil function call kills
\* the process.
Panic(why) ==
    /\ panic' = why
    /\ UNCHANGED <<structVars, listenVars, lpc, roundVars, workerVars, spc,
                   bounds, outside, broker, verdicts>>

\* One step of the goroutine in Listen, of a worker, of a caller of
\* Shutdown; each action adds what else it changes and leaves.
ListenStep(from, to) ==
    /\ Alive /\ lpc = from /\ lpc' = to
    /\ UNCHANGED <<receiver, handlers, mtx, spc, panic, restarts, wmsg, wres,
                   renew, verdicts>>

WorkerStep(w, from, to) ==
    /\ Alive /\ wpc[w] = from /\ wpc' = [wpc EXCEPT ![w] = to]
    /\ UNCHANGED <<structVars, listenVars, lpc, pending, spc, panic, bounds,
                   outside, delivery>>

ShutdownStep(c, from, to) ==
    /\ Alive /\ spc[c] = from /\ spc' = [spc EXCEPT ![c] = to]
    /\ UNCHANGED <<opening, nrecv, stranded, lpc, roundVars, workerVars, panic,
                   bounds, broker, verdicts>>

-----------------------------------------------------------------------------
(* Listen and open *)

\* Listen overwrites r.cancel: workers of an earlier Listen whose context
\* is still live can no longer be told to stop.
ListenStart ==
    /\ \/ ListenStep("idle", "open")
       \/ ListenStep("returned", "open")
    /\ listens < MaxListens
    /\ listens' = listens + 1
    /\ cancel' = "set"
    /\ ctxDone' = FALSE
    /\ stranded' = stranded +
         (IF ctxDone THEN 0
          ELSE Cardinality({w \in Workers : wpc[w] # "off"}))
    /\ wpc' = [w \in Workers |-> "off"]
    /\ UNCHANGED <<opening, nrecv, roundVars, outside, broker>>

\* The receiver is open already: so, it is assumed, are the handlers.
OpenAgain ==
    /\ ListenStep("open", "start")
    /\ receiver # "nil"
    /\ UNCHANGED <<cancel, listenVars, roundVars, wpc, listens, outside, broker>>

\* Mutant: `receiver :=` inside open declares a new variable.
OpenReceiverShadowed ==
    /\ ListenStep("open", "opened")
    /\ receiver = "nil" /\ link' = "open"
    /\ UNCHANGED <<cancel, listenVars, roundVars, wpc, listens, hstate, broker>>

\* r.receiver is set before any handler is opened.
OpenReceiver ==
    /\ Alive /\ lpc = "open" /\ lpc' = "opened"
    /\ receiver = "nil"
    /\ receiver' = "link" /\ link' = "open"
    /\ UNCHANGED <<handlers, cancel, mtx, listenVars, roundVars, workerVars,
                   spc, panic, bounds, hstate, broker, verdicts>>

\* len(r.handlers) is read once, for the whole loop: a Shutdown may have
\* emptied the slice since, or may yet.
OpenLoop ==
    /\ ListenStep("opened", "handlers")
    /\ opening' = IF handlers = 0 THEN N + 1 ELSE 1
    /\ UNCHANGED <<cancel, ctxDone, nrecv, stranded, roundVars, wpc, listens,
                   outside, broker>>

\* The client or the link cannot be created: open and Listen return the error.
OpenReceiverFails ==
    /\ ListenStep("open", "returned")
    /\ receiver = "nil"
    /\ UNCHANGED <<cancel, listenVars, roundVars, wpc, listens, outside, broker>>

OpenHandler ==
    /\ ListenStep("handlers", "handlers")
    /\ opening <= N /\ handlers # 0
    /\ hstate' = [hstate EXCEPT ![opening] = "open"]
    /\ opening' = opening + 1
    /\ UNCHANGED <<cancel, ctxDone, nrecv, stranded, roundVars, wpc, listens,
                   link, broker>>

\* Mutant: the error of a handler's Open is not returned.
OpenHandlerIgnored ==
    /\ ListenStep("handlers", "start")
    /\ opening <= N
    /\ UNCHANGED <<cancel, listenVars, roundVars, wpc, listens, outside, broker>>

\* handlers[j].Open fails: Listen returns the error, r.receiver stays set.
OpenHandlerFails ==
    /\ ListenStep("handlers", "returned")
    /\ opening <= N /\ handlers # 0
    /\ hstate' = [hstate EXCEPT ![opening] = "failed"]
    /\ UNCHANGED <<cancel, listenVars, roundVars, wpc, listens, link, broker>>

\* close_ emptied r.handlers under the loop: index out of range.
OpenHandlerGone ==
    /\ Alive /\ lpc = "handlers"
    /\ opening <= N /\ handlers = 0
    /\ Panic("open")

OpenDone ==
    /\ ListenStep("handlers", "start")
    /\ opening > N
    /\ UNCHANGED <<cancel, listenVars, roundVars, wpc, listens, outside, broker>>

-----------------------------------------------------------------------------
(* receiveMessages: the dispatcher *)

\* Mutant: one message more than there are workers.
StartWorkersOneMore ==
    /\ ListenStep("start", "call")
    /\ nrecv' = handlers + 1 /\ chan' = <<>> /\ wg' = 0
    /\ wpc' = [w \in Workers |-> "idle"]
    /\ UNCHANGED <<cancel, ctxDone, opening, stranded, pending, listens,
                   outside, broker>>

\* One worker per handler, a channel with room for one message each.
StartWorkers ==
    /\ ListenStep("start", "call")
    /\ nrecv' = handlers
    /\ chan' = <<>> /\ wg' = 0
    /\ wpc' = [w \in Workers |-> IF w <= handlers THEN "idle" ELSE "off"]
    /\ UNCHANGED <<cancel, ctxDone, opening, stranded, pending, listens,
                   outside, broker>>

CallReceive ==
    /\ ListenStep("call", "recv")
    /\ receiver # "nil"
    /\ UNCHANGED <<cancel, listenVars, roundVars, wpc, listens, outside, broker>>

CallReceiveNil ==
    /\ Alive /\ lpc = "call"
    /\ receiver = "nil"
    /\ Panic("receive")

Ready == {m \in Msgs : bst[m] = "ready" /\ delivery[m] < MaxDeliveries}

\* The broker hands out between 1 and numberOfReceivedMessages messages and
\* locks them.  A cancelled context does not stop messages that are here.
ReceiveMessages ==
    /\ ListenStep("recv", "add")
    /\ link = "open"
    /\ \E k \in 1..nrecv : \E s \in [1..k -> Ready] :
        /\ IsInjective(s)
        /\ pending' = [i \in 1..k |->
                         [id |-> s[i], lock |-> delivery[s[i]] + 1]]
        /\ bst' = [m \in Msgs |-> IF m \in Range(s) THEN "locked" ELSE bst[m]]
        /\ delivery' = [m \in Msgs |->
                          delivery[m] + (IF m \in Range(s) THEN 1 ELSE 0)]
    /\ UNCHANGED <<cancel, listenVars, chan, wg, wpc, listens, outside>>

\* Cancelled, closed, lost connection, or asked for 0 messages: Listen
\* returns.  It does not cancel the context, the workers stay in select.
ReceiveFails ==
    /\ ListenStep("recv", "returned")
    /\ UNCHANGED <<cancel, listenVars, roundVars, wpc, listens, outside, broker>>

\* Mutant: no wg.Add.
WgAddNot ==
    /\ ListenStep("add", "send")
    /\ pending # <<>>
    /\ UNCHANGED <<cancel, listenVars, roundVars, wpc, listens, outside, broker>>

WgAdd ==
    /\ ListenStep("add", "send")
    /\ pending # <<>>
    /\ wg' = wg + 1
    /\ UNCHANGED <<cancel, listenVars, pending, chan, wpc, listens, outside,
                   broker>>

Send ==
    /\ ListenStep("send", "add")
    /\ Len(chan) < nrecv
    /\ chan' = Append(chan, Head(pending))
    /\ pending' = Tail(pending)
    /\ UNCHANGED <<cancel, listenVars, wg, wpc, listens, outside, broker>>

\* Mutants: no wg.Wait; a wait that a cancelled context ends.
WgWaitNot ==
    /\ ListenStep("add", "call")
    /\ pending = <<>>
    /\ UNCHANGED <<cancel, listenVars, roundVars, wpc, listens, outside, broker>>

WgWaitOrCancel ==
    /\ ListenStep("add", "call")
    /\ pending = <<>> /\ (wg = 0 \/ ctxDone)
    /\ UNCHANGED <<cancel, listenVars, roundVars, wpc, listens, outside, broker>>

WgWait ==
    /\ ListenStep("add", "call")
    /\ pending = <<>> /\ wg = 0
    /\ UNCHANGED <<cancel, listenVars, roundVars, wpc, listens, outside, broker>>

-----------------------------------------------------------------------------
(* The workers *)

\* Mutants: wg.Done deferred by the worker; a worker that watches the
\* context of its message, which it has only while it processes one.
WorkerExitDone(w) ==
    /\ WorkerStep(w, "idle", "off")
    /\ ctxDone /\ wg' = wg - 1
    /\ UNCHANGED <<chan, wmsg, wres, renew, bst, verdicts>>

WorkerExitMsgCtx(w) ==
    /\ WorkerStep(w, "idle", "off")
    /\ ctxDone /\ wmsg[w] # None
    /\ UNCHANGED <<chan, wg, wmsg, wres, renew, bst, verdicts>>

\* Mutant: a default case in the select.
WorkerExitEager(w) ==
    /\ WorkerStep(w, "idle", "off")
    /\ UNCHANGED <<chan, wg, wmsg, wres, renew, bst, verdicts>>

WorkerExit(w) ==
    /\ WorkerStep(w, "idle", "off")
    /\ ctxDone
    /\ UNCHANGED <<chan, wg, wmsg, wres, renew, bst, verdicts>>

\* A ready ctx.Done does not have priority in the select.
WorkerTake(w) ==
    /\ WorkerStep(w, "idle", "taken")
    /\ chan # <<>>
    /\ wmsg' = [wmsg EXCEPT ![w] = Head(chan)]
    /\ chan' = Tail(chan)
    /\ renew' = [renew EXCEPT ![w] = IF Renew THEN "on" ELSE @]
    /\ UNCHANGED <<wg, wres, bst, verdicts>>

WorkerHandle(w) ==
    /\ WorkerStep(w, "taken", "handle")
    /\ handlers # 0
    /\ UNCHANGED <<chan, wg, wmsg, wres, renew, bst, verdicts>>

\* rr.handlers[ii] after close_ set r.handlers to the empty slice.
WorkerHandlerGone(w) ==
    /\ Alive /\ wpc[w] = "taken"
    /\ handlers = 0
    /\ Panic("handler")

HandlerReturn(w) ==
    /\ WorkerStep(w, "handle", "dispose")
    /\ \E r \in Results :
        /\ wres' = [wres EXCEPT ![w] = r]
        /\ verdicts' = verdicts \cup
             {[id |-> wmsg[w].id, lock |-> wmsg[w].lock, d |-> r.d]}
    /\ UNCHANGED <<chan, wg, wmsg, renew, bst>>

Settling == {"complete", "deadletter", "abandon"}

\* Mutant: abandon settles like complete.
OutcomeAbandon(d) == IF d = "deadletter" THEN "deadlettered" ELSE "completed"

\* What the broker does with a message settled with disposition d.
Outcome(d) == CASE d = "complete"   -> "completed"
                [] d = "deadletter" -> "deadlettered"
                [] d = "abandon"    -> "ready"

HoldsLock(msg) == bst[msg.id] = "locked" /\ delivery[msg.id] = msg.lock

\* deadLetter evaluates err.Error(): a handler may have returned no error.
NilErr(r) == r.d = "deadletter" /\ ~r.err

\* The broker accepts the settlement if the lock is still held and the link
\* is up.  A failure (also of the network) is logged and nothing else.
DisposeSettle(w) ==
    /\ WorkerStep(w, "dispose", "done")
    /\ wres[w].d \in Settling /\ ~NilErr(wres[w])
    /\ receiver # "nil"
    /\ \/ /\ link = "open" /\ HoldsLock(wmsg[w])
          /\ bst' = [bst EXCEPT ![wmsg[w].id] = Outcome(wres[w].d)]
       \/ UNCHANGED bst
    /\ UNCHANGED <<chan, wg, wmsg, wres, renew, verdicts>>

\* reschedule leaves the lock to expire; an unknown disposition falls
\* through the switch.
DisposeNothing(w) ==
    /\ WorkerStep(w, "dispose", "done")
    /\ wres[w].d \notin Settling
    /\ UNCHANGED <<chan, wg, wmsg, wres, renew, bst, verdicts>>

DisposeNilReceiver(w) ==
    /\ Alive /\ wpc[w] = "dispose"
    /\ wres[w].d \in Settling /\ ~NilErr(wres[w])
    /\ receiver = "nil"
    /\ Panic("dispose")

DisposeNilErr(w) ==
    /\ Alive /\ wpc[w] = "dispose"
    /\ NilErr(wres[w])
    /\ Panic("error value")

\* Mutant: no wg.Done.
WorkerDoneNot(w) ==
    /\ WorkerStep(w, "done", "idle")
    /\ wmsg' = [wmsg EXCEPT ![w] = None] /\ wres' = [wres EXCEPT ![w] = None]
    /\ UNCHANGED <<chan, wg, renew, bst, verdicts>>

\* The deferred renewCancel, then wg.Done.
WorkerDone(w) ==
    /\ WorkerStep(w, "done", "idle")
    /\ wg' = wg - 1
    /\ renew' = [renew EXCEPT ![w] = IF @ = "on" THEN "stopping" ELSE @]
    /\ wmsg' = [wmsg EXCEPT ![w] = None]
    /\ wres' = [wres EXCEPT ![w] = None]
    /\ UNCHANGED <<chan, bst, verdicts>>

\* A tick with a live link changes nothing here (PeekLock has the clock).
\* One that was due when the context ended may still win the select and
\* then dereference a nil r.receiver.
RenewTickNil(w) ==
    /\ Alive /\ renew[w] # "off"
    /\ receiver = "nil"
    /\ Panic("renew")

RenewStop(w) ==
    /\ Alive
    /\ renew[w] = "stopping" \/ (renew[w] = "on" /\ ctxDone)
    /\ renew' = [renew EXCEPT ![w] = "off"]
    /\ UNCHANGED <<structVars, listenVars, lpc, roundVars, wpc, wmsg, wres, spc,
                   panic, bounds, outside, broker, verdicts>>

-----------------------------------------------------------------------------
(* Shutdown and close_ *)

ShutdownCancel(c) ==
    /\ ShutdownStep(c, "idle", "check")
    /\ cancel = "set"
    /\ ctxDone' = TRUE
    /\ UNCHANGED <<structVars, outside>>

\* No Listen yet, or another Shutdown finished: r.cancel is a nil function.
ShutdownNil(c) ==
    /\ Alive /\ spc[c] = "idle"
    /\ cancel = "nil"
    /\ Panic("cancel")

\* The nil check stands before mtx.Lock.
CloseCheck(c) ==
    /\ \/ ShutdownStep(c, "check", "lock")     /\ receiver # "nil"
       \/ ShutdownStep(c, "check", "returned") /\ receiver = "nil"
    /\ UNCHANGED <<structVars, ctxDone, outside>>

CloseLock(c) ==
    /\ ShutdownStep(c, "lock", "handlers")
    /\ mtx = None
    /\ mtx' = c
    /\ UNCHANGED <<receiver, handlers, cancel, ctxDone, outside>>

CloseHandlers(c) ==
    /\ ShutdownStep(c, "handlers", "link")
    /\ hstate' = [w \in Workers |-> IF w <= handlers THEN "closed"
                                                     ELSE hstate[w]]
    /\ UNCHANGED <<structVars, ctxDone, link>>

CloseLink(c) ==
    /\ ShutdownStep(c, "link", "clear")
    /\ receiver # "nil"
    /\ link' = "closed"
    /\ UNCHANGED <<structVars, ctxDone, hstate>>

\* Another Shutdown cleared the field between the check and the lock.
CloseLinkNil(c) ==
    /\ Alive /\ spc[c] = "link"
    /\ receiver = "nil"
    /\ Panic("close")

\* Mutant: no mtx.Unlock.
CloseClearLocked(c) ==
    /\ ShutdownStep(c, "clear", "returned")
    /\ handlers' = 0 /\ receiver' = "nil" /\ cancel' = "nil"
    /\ UNCHANGED <<mtx, ctxDone, outside>>

CloseClear(c) ==
    /\ ShutdownStep(c, "clear", "returned")
    /\ handlers' = 0 /\ receiver' = "nil" /\ cancel' = "nil" /\ mtx' = None
    /\ UNCHANGED <<ctxDone, outside>>

-----------------------------------------------------------------------------
(* The broker, other consumers of the queue, and the process's fate *)

process == <<structVars, listenVars, lpc, roundVars, workerVars, spc, panic,
             bounds, outside>>

\* The lock runs out and the message is available again.
Expire(m) ==
    /\ bst[m] \in {"locked", "elsewhere"}
    /\ bst' = [bst EXCEPT ![m] = "ready"]
    /\ UNCHANGED <<process, delivery, verdicts>>

\* Another process that listens on the same queue gets the message ...
ReceiveElsewhere(m) ==
    /\ m \in Ready
    /\ bst' = [bst EXCEPT ![m] = "elsewhere"]
    /\ delivery' = [delivery EXCEPT ![m] = @ + 1]
    /\ UNCHANGED <<process, verdicts>>

\* ... and settles it.
SettleElsewhere(m) ==
    /\ bst[m] = "elsewhere"
    /\ bst' = [bst EXCEPT ![m] = "gone"]
    /\ UNCHANGED <<process, delivery, verdicts>>

\* The process dies, of a panic or not, and starts again; the broker keeps
\* the locks of the dead process until they expire.
Restart ==
    /\ restarts < MaxRestarts
    /\ restarts' = restarts + 1
    /\ receiver' = "nil" /\ handlers' = N /\ cancel' = "nil" /\ mtx' = None
    /\ ctxDone' = FALSE /\ lpc' = "idle" /\ opening' = 0 /\ nrecv' = 0
    /\ pending' = <<>> /\ chan' = <<>> /\ wg' = 0 /\ stranded' = 0
    /\ wpc' = [w \in Workers |-> "off"]
    /\ wmsg' = [w \in Workers |-> None]
    /\ wres' = [w \in Workers |-> None]
    /\ renew' = [w \in Workers |-> "off"]
    /\ spc' = [c \in Closers |-> "idle"]
    /\ panic' = "no" /\ listens' = 0 /\ link' = "none"
    /\ hstate' = [w \in Workers |-> "new"]
    /\ UNCHANGED <<broker, verdicts>>

Listener == \/ OpenAgain \/ OpenReceiver \/ OpenReceiverFails \/ OpenLoop
            \/ OpenHandler \/ OpenHandlerFails \/ OpenHandlerGone \/ OpenDone
            \/ StartWorkers \/ CallReceive \/ CallReceiveNil
            \/ ReceiveMessages \/ ReceiveFails \/ WgAdd \/ Send \/ WgWait

Worker(w) == \/ WorkerTake(w) \/ WorkerHandle(w) \/ WorkerHandlerGone(w)
             \/ HandlerReturn(w) \/ DisposeSettle(w) \/ DisposeNothing(w)
             \/ DisposeNilReceiver(w) \/ DisposeNilErr(w) \/ WorkerDone(w)

Closing(c) == \/ CloseCheck(c) \/ CloseLock(c) \/ CloseHandlers(c)
              \/ CloseLink(c) \/ CloseLinkNil(c) \/ CloseClear(c)

Next == \/ ListenStart \/ Listener
        \/ \E w \in Workers : \/ WorkerExit(w) \/ Worker(w)
                              \/ RenewTickNil(w) \/ RenewStop(w)
        \/ \E c \in Closers : ShutdownCancel(c) \/ ShutdownNil(c) \/ Closing(c)
        \/ \E m \in Msgs : Expire(m) \/ ReceiveElsewhere(m) \/ SettleElsewhere(m)
        \/ Restart

Spec == Init /\ [][Next]_vars


\* What the Go scheduler and the callees give: a runnable goroutine runs; a
\* select that finds ctx.Done ready again and again picks it in the end; a
\* cancelled ReceiveMessages returns; handlers, opens and closes return.
\* ReceiveMessages on a live context may block for ever.
Fairness ==
    /\ WF_vars(Listener /\ lpc # "recv")
    /\ WF_vars(ctxDone /\ (ReceiveMessages \/ ReceiveFails))
    /\ \A w \in Workers : WF_vars(Worker(w)) /\ SF_vars(WorkerExit(w))
    /\ \A c \in Closers : WF_vars(Closing(c))

FairSpec == Spec /\ Fairness

-----------------------------------------------------------------------------
(* Properties *)

Ids(s) == {s[i].id : i \in 1..Len(s)}

Distinct(s) == \A i, j \in 1..Len(s) : s[i].id = s[j].id => i = j

\* The WaitGroup counts exactly the messages handed over and not finished
\* (receiver.go:300, 274): it cannot go below zero, and wg.Wait cannot
\* return early or count a message twice.
WaitGroupBalance ==
    wg = Len(chan) + Cardinality(Busy) + (IF lpc = "send" THEN 1 ELSE 0)

\* wg.Wait is a barrier (receiver.go:303): outside the hand-over loop no
\* message is in the channel or with a worker, so no message waits for a
\* worker while another round is received, and Listen returns only when
\* nothing is in progress.
Barrier ==
    lpc \notin {"add", "send"} => pending = <<>> /\ chan = <<>> /\ Busy = {}

\* The dispatcher never blocks on `msgs <-` (receiver.go:301), even when
\* every worker has exited.
SendNeverBlocks == lpc = "send" => Len(chan) < nrecv

\* The lock of a message may run out while a worker handles it, and the
\* broker may deliver it again; still no message is twice in the hands of
\* this process (receiver.go:286-305).
NoDuplicateInFlight ==
    /\ Distinct(pending) /\ Distinct(chan)
    /\ Ids(pending) \cap Ids(chan) = {}
    /\ \A w \in Busy :
        /\ wmsg[w].id \notin Ids(pending) \cup Ids(chan)
        /\ \A v \in Busy : wmsg[v].id = wmsg[w].id => v = w

\* A message leaves the queue only the way the handler of its last delivery
\* decided (receiver.go:179-180, disposition.go:43-58): not on the verdict
\* of a delivery whose lock was lost, nor of another worker's message.
SettledAsDecided ==
    \A m \in Msgs :
        \A d \in {"complete", "deadletter"} :
            bst[m] = Outcome(d) =>
                [id |-> m, lock |-> delivery[m], d |-> d] \in verdicts

\* mtx is held from the lock to the clear (receiver.go:366-382) and by nobody
\* else: two Shutdowns are never both closing handlers and link, and none that
\* waits for mtx waits for one that has returned.
CloseExclusive ==
    \A c \in Closers : spc[c] \in {"handlers", "link", "clear"} <=> mtx = c

\* A handler runs only between its Open and its Close (receiver.go:353-358):
\* one that is closed under a running worker was closed by a Shutdown, and one
\* that never was open runs only if Listen is called again after a handler's
\* Open failed: open then takes a set r.receiver for opened handlers (331).
HandlerOpen ==
    \A w \in Workers : wpc[w] = "handle" =>
        \/ hstate[w] = "open"
        \/ /\ hstate[w] = "closed"
           /\ \E c \in Closers : spc[c] \in {"link", "clear", "returned"}
        \/ listens > 1 /\ \E v \in Workers : hstate[v] = "failed"

\* Until a Shutdown has come to its end and cleared what workers still use
\* (receiver.go:180, 221, 272, 380-384) nothing brings the process down, but a
\* handler that passes no error with a dead letter and a Shutdown that finds no
\* Listen to cancel (322): 280-282 counts on the WaitGroup alone to do so.
NoPanic == \/ panic \in {"no", "error value", "cancel"}
           \/ handlers = 0 /\ \E c \in Closers : spc[c] = "returned"

\* wg.Wait never waits for a message that nobody is left to process, until the
\* context is cancelled (receiver.go:250-278, 303): what is counted is about to
\* be sent, with a worker, or in the channel with a worker free to take it.
RoundMoves ==
    wg > 0 /\ ~ctxDone =>
        \/ lpc = "send" \/ Busy # {}
        \/ chan # <<>> /\ \E w \in Workers : wpc[w] = "idle"

\* receiver.go:280-281: the WaitGroup always resets to zero, so messages
\* continue to be processed.
WaitGroupResets == wg > 0 ~> (wg = 0 \/ ~Alive)

\* receiver.go:245: after a cancel every worker ends, having finished the
\* message it was processing, unless a new Listen or process took over.
WorkersEnd ==
    ctxDone ~> (~ctxDone \/ ~Alive \/ \A w \in Workers : wpc[w] = "off")

\* Every Shutdown returns: no caller is left waiting for mtx.
ShutdownReturns ==
    \A c \in Closers : spc[c] = "check" ~> (spc[c] \in {"returned", "idle"} \/ ~Alive)

-----------------------------------------------------------------------------
(* The receiver implements Delivery *)

InRound == Ids(pending) \cup Ids(chan) \cup {wmsg[w].id : w \in Busy}

\* The queue as a consumer sees it: no lock tokens.
Queue == [m \in Msgs |-> IF bst[m] = "locked" THEN "ours" ELSE bst[m]]

Verdict ==
    [m \in Msgs |->
        IF \E w \in Busy : wmsg[w].id = m /\ wres[w] # None
        THEN wres[CHOOSE w \in Busy : wmsg[w].id = m /\ wres[w] # None].d
        ELSE "undecided"]

Contract == INSTANCE Delivery
    WITH Limit <- N, queue <- Queue, round <- InRound, verdict <- Verdict

\* With its goroutines, channel, WaitGroup and lock tokens the receiver
\* does what Delivery promises, with or without Shutdown and restarts.
ImplementsDelivery == Contract!Spec

=============================================================================
