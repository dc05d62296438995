------------------------------ MODULE PeekLock ------------------------------
(***************************************************************************)
(* One delivery of a message against the clock: the peek lock the broker   *)
(* grants with it, the wait in the channel, and then either the deadline   *)
(* that setTimeout (azbus/message.go) puts on the handler's context, or    *)
(* the goroutine renewMessageLock (azbus/receiver.go).  Receiver has the   *)
(* goroutines without time; here one worker and its message have time.  A  *)
(* batch (azbus/batchreceiver.go) gets a deadline of its own, and its      *)
(* messages waited until all of it was there.  A Shutdown cancels the      *)
(* context everything here derives from, the renewal's too, and may find   *)
(* the handler at work.  What it closes then is in Receiver: here it only  *)
(* makes calls fail.                                                       *)
(* Time is the broker's; calls to it take at most Rtt.                     *)
(***************************************************************************)
EXTENDS Integers

CONSTANTS
    Lock,       \* how long the broker grants a lock for
    Wait,       \* bound: how long a message waits for a worker
    Gap,        \* bound: how long the scheduler may hold up a goroutine
    Rtt,        \* bound: how long a renewal or a settlement takes
    Configs,    \* receivers, handlers and brokers to consider
    MaxTime     \* bound: the clock

\* batch:     the message is handled with its batch
\* renew:     Cfg.RenewMessageLock
\* renewTime: Cfg.RenewMessageTime, or Cfg.BatchDeadline of a batch
\* known:     the broker says until when the message is locked
\* skew:      how far the process's clock is ahead of the broker's
\* obeys:     the handler returns when its context ends
\* mayFail:   a renewal may fail, though not two in succession
Config == [batch : BOOLEAN, renew : BOOLEAN, renewTime : Nat \ {0},
           known : BOOLEAN, skew : Int, obeys : BOOLEAN, mayFail : BOOLEAN]

ASSUME LockAssumption ==
    /\ Lock \in Nat /\ Wait \in Nat /\ Gap \in Nat /\ Rtt \in Nat
    /\ MaxTime \in Nat
    /\ Configs \subseteq Config

VARIABLES
    cfg,
    now,
    pc,             \* the message: queue, chan, taken, handle, settle,
                    \* measure, done
    owner,          \* who has the lock: none, us, other, settled
    received, lockedUntil,
    taken,          \* when the worker took the message
    started,        \* when processMessage started its measurement
    returned,       \* when the handler returned
    settled,        \* when the broker decided on the settlement
    deadline,       \* of the handler's context, on the process's clock
    maxDuration,
    rpc,            \* renewMessageLock: off, start, wait, call
    tickAt, tick,   \* the ticker: its next tick, one tick in its channel
    called,         \* when the call in progress began
    failed,         \* the last renewal failed
    outcome,        \* of the settlement: none, ok, lost, error
    warned,         \* processMessage logged its WARNING
    stopped, stoppedAt  \* Shutdown cancelled the context, and when

lockVars == <<owner, lockedUntil>>
timeVars == <<received, taken, started, returned, settled>>
workVars == <<pc, timeVars, deadline, maxDuration, outcome, warned>>
tickVars == <<rpc, tickAt, tick, called, failed>>
stopVars == <<stopped, stoppedAt>>
vars == <<cfg, now, lockVars, workVars, tickVars, stopVars>>

TypeOK ==
    /\ cfg \in Configs
    /\ now \in Nat
    /\ pc \in {"queue", "chan", "taken", "handle", "settle", "measure", "done"}
    /\ owner \in {"none", "us", "other", "settled"}
    /\ received \in Nat /\ lockedUntil \in Nat /\ taken \in Nat
    /\ started \in Nat /\ returned \in Nat /\ settled \in Nat
    /\ deadline \in Int /\ maxDuration \in Int
    /\ rpc \in {"off", "start", "wait", "call"}
    /\ tickAt \in Nat /\ tick \in BOOLEAN /\ called \in Nat
    /\ failed \in BOOLEAN
    /\ outcome \in {"none", "ok", "lost", "error"}
    /\ warned \in BOOLEAN
    /\ stopped \in BOOLEAN /\ stoppedAt \in Nat

Init ==
    /\ cfg \in Configs
    /\ now = 0 /\ pc = "queue" /\ owner = "none"
    /\ received = 0 /\ lockedUntil = 0 /\ taken = 0 /\ started = 0
    /\ returned = 0 /\ settled = 0 /\ deadline = 0 /\ maxDuration = 0
    /\ rpc = "off" /\ tickAt = 0 /\ tick = FALSE /\ called = 0 /\ failed = FALSE
    /\ outcome = "none" /\ warned = FALSE /\ stopped = FALSE /\ stoppedAt = 0

-----------------------------------------------------------------------------
\* The broker delivers and locks the message; it goes into the channel.
Receive ==
    /\ pc = "queue" /\ ~stopped /\ pc' = "chan"
    /\ owner' = "us" /\ lockedUntil' = now + Lock
    /\ received' = now
    /\ UNCHANGED <<cfg, now, taken, started, returned, settled, deadline,
                   maxDuration, outcome, warned, tickVars, stopVars>>

ProcessClock == now + cfg.skew

\* A batch has a fixed timeout, like a message that does not say until when
\* it is locked.
Fixed == cfg.batch \/ ~cfg.known

\* Mutant: the fixed timeout even if the message says until when it is locked.
SetTimeoutFixed == ProcessClock + cfg.renewTime

\* The deadline setTimeout gives the handler's context.
SetTimeout == IF Fixed THEN ProcessClock + cfg.renewTime ELSE lockedUntil

\* A worker takes the message: it starts the renewal's goroutine, or sets a
\* deadline and reads the clock for the time that leaves.
Take ==
    /\ pc = "chan" /\ pc' = "taken"
    /\ taken' = now
    /\ IF cfg.renew
       THEN rpc' = "start" /\ UNCHANGED <<deadline, maxDuration>>
       ELSE /\ deadline' = SetTimeout /\ maxDuration' = SetTimeout - ProcessClock
            /\ UNCHANGED rpc
    /\ UNCHANGED <<cfg, now, lockVars, received, started, returned, settled,
                   outcome, warned, tickAt, tick, called, failed, stopVars>>

\* After a Shutdown a worker's select may see ctx.Done first: the message
\* stays in the channel.
Abandon ==
    /\ pc = "chan" /\ stopped
    /\ pc' = "done"
    /\ UNCHANGED <<cfg, now, lockVars, timeVars, deadline, maxDuration,
                   outcome, warned, tickVars, stopVars>>

\* processMessage reads the clock again and calls the handler.
ProcessMessage ==
    /\ pc = "taken" /\ pc' = "handle"
    /\ started' = now
    /\ UNCHANGED <<cfg, now, lockVars, received, taken, returned, settled,
                   deadline, maxDuration, outcome, warned, tickVars, stopVars>>

CtxDone == stopped \/ (~cfg.renew /\ ProcessClock >= deadline)

HandlerReturn ==
    /\ pc = "handle" /\ pc' = "settle"
    /\ returned' = now
    /\ UNCHANGED <<cfg, now, lockVars, received, taken, started, settled,
                   deadline, maxDuration, outcome, warned, tickVars, stopVars>>

\* The settlement ignores the context's end; the broker accepts it from the
\* owner of the lock, or the call fails.
Settle ==
    /\ pc = "settle" /\ pc' = "measure"
    /\ settled' = now
    /\ \/ /\ owner = "us" /\ owner' = "settled" /\ outcome' = "ok"
       \/ /\ owner # "us" /\ UNCHANGED owner /\ outcome' = "lost"
       \/ UNCHANGED owner /\ outcome' = "error"
    /\ UNCHANGED <<cfg, now, lockedUntil, received, taken, started, returned,
                   deadline, maxDuration, warned, tickVars, stopVars>>

\* Mutant: a handler that took exactly its time is not overdue.
OverdueStrict == ~cfg.renew /\ ~cfg.batch /\ now - started > maxDuration

\* processMessage measures the handler and the settlement together; nobody
\* measures a batch.
Overdue == ~cfg.renew /\ ~cfg.batch /\ now - started >= maxDuration

\* The answer is here.  With processMessage the renewal's context ends.
Measure ==
    /\ pc = "measure" /\ pc' = "done"
    /\ warned' = Overdue
    /\ UNCHANGED <<cfg, now, lockVars, timeVars, deadline, maxDuration,
                   outcome, tickVars, stopVars>>

\* Shutdown cancels the context of the workers, and with it the renewal's and
\* the handler's, whatever they are doing.
Shutdown ==
    /\ ~stopped /\ stopped' = TRUE /\ stoppedAt' = now
    /\ UNCHANGED <<cfg, now, lockVars, workVars, tickVars>>

-----------------------------------------------------------------------------
(* renewMessageLock *)

StartTicker ==
    /\ rpc = "start" /\ rpc' = "wait"
    /\ tickAt' = now + cfg.renewTime
    /\ UNCHANGED <<cfg, now, lockVars, workVars, tick, called, failed, stopVars>>

\* The select finds a tick; with the context over it may still choose it.
RenewCall ==
    /\ rpc = "wait" /\ tick
    /\ rpc' = "call" /\ tick' = FALSE /\ called' = now
    /\ UNCHANGED <<cfg, now, lockVars, workVars, tickAt, failed, stopVars>>

RenewalMayFail ==
    (cfg.mayFail /\ ~failed) \/ owner # "us" \/ pc = "done" \/ stopped

\* Mutant: the error of a renewal ends the goroutine.
RenewFailsReturn ==
    /\ rpc = "call" /\ RenewalMayFail
    /\ rpc' = "off" /\ failed' = TRUE
    /\ UNCHANGED <<cfg, now, lockVars, workVars, tickAt, tick, called, stopVars>>

\* A failure is logged and nothing else; the next tick tries again.
RenewFails ==
    /\ rpc = "call" /\ RenewalMayFail
    /\ rpc' = "wait" /\ failed' = TRUE
    /\ UNCHANGED <<cfg, now, lockVars, workVars, tickAt, tick, called, stopVars>>

Renewed ==
    /\ rpc = "call" /\ rpc' = "wait"
    /\ owner = "us"
    /\ lockedUntil' = now + Lock /\ failed' = FALSE
    /\ UNCHANGED <<cfg, now, owner, workVars, tickAt, tick, called, stopVars>>

\* Mutant: the goroutine is told to stop only after a settlement.
RenewStopSettled ==
    /\ rpc = "wait" /\ pc = "done" /\ outcome = "ok"
    /\ rpc' = "off" /\ tick' = FALSE
    /\ UNCHANGED <<cfg, now, lockVars, workVars, tickAt, called, failed, stopVars>>

\* Its context is over: the message is done, or Shutdown cancelled the
\* worker's, which it derives from.  The handler may still be at work.
RenewStop ==
    /\ rpc = "wait" /\ (pc = "done" \/ stopped)
    /\ rpc' = "off" /\ tick' = FALSE
    /\ UNCHANGED <<cfg, now, lockVars, workVars, tickAt, called, failed, stopVars>>

-----------------------------------------------------------------------------
(* The broker and the clock *)

Expire ==
    /\ owner = "us" /\ now > lockedUntil
    /\ owner' = "none"
    /\ UNCHANGED <<cfg, now, lockedUntil, workVars, tickVars, stopVars>>

TakeElsewhere ==
    /\ owner = "none" /\ pc # "queue"
    /\ owner' = "other"
    /\ UNCHANGED <<cfg, now, lockedUntil, workVars, tickVars, stopVars>>

\* Nothing is overdue: what the scheduler, the network and an obedient
\* handler must have done by now is done.
Prompt ==
    /\ pc = "chan" => now < received + Wait
    /\ pc = "taken" => now < taken + Gap
    /\ pc = "handle" => ~(cfg.obeys /\ CtxDone)
    /\ pc \in {"settle", "measure"} => now < returned + Rtt
    /\ rpc = "start" => now < taken + Gap
    /\ ~(rpc = "wait" /\ tick)
    /\ rpc = "call" => now < called + Rtt

\* Time counts from the delivery until nothing is left to do.  A ticker drops
\* a tick that finds its channel full.
Tick ==
    /\ pc # "queue" /\ (pc = "done" => rpc # "off") /\ now < MaxTime /\ Prompt
    /\ now' = now + 1
    /\ IF rpc \in {"wait", "call"} /\ now + 1 = tickAt
       THEN tick' = TRUE /\ tickAt' = tickAt + cfg.renewTime
       ELSE UNCHANGED <<tick, tickAt>>
    /\ UNCHANGED <<cfg, lockVars, workVars, rpc, called, failed, stopVars>>

Next == \/ Receive \/ Take \/ Abandon \/ ProcessMessage \/ HandlerReturn
        \/ Settle \/ Measure \/ Shutdown
        \/ StartTicker \/ RenewCall \/ RenewFails \/ Renewed \/ RenewStop
        \/ Expire \/ TakeElsewhere \/ Tick

Spec == Init /\ [][Next]_vars

\* Goroutines start, calls return, and a select that finds ctx.Done ready
\* again and again picks it in the end.
FairSpec == /\ Spec
            /\ WF_vars(StartTicker) /\ WF_vars(RenewFails \/ Renewed)
            /\ SF_vars(RenewStop)

-----------------------------------------------------------------------------
(* Properties *)

\* From the delivery on: the wait in the channel, the start of the goroutine,
\* as many renewal times as it takes for one to succeed, and one call.
RenewalNeeds ==
    Wait + Gap + cfg.renewTime + (IF cfg.mayFail THEN cfg.renewTime ELSE 0) + Rtt

\* receiver.go:112-114: the renewal time is to be "comfortably less" than
\* the peek lock timeout.
RenewalFits == Rtt < cfg.renewTime /\ RenewalNeeds <= Lock

\* By how much it is less: so long the lock outlives the last renewal that a
\* Shutdown may have prevented.
Slack == Lock - RenewalNeeds

\* What a deadline needs instead: a handler that obeys it, a clock that is
\* not behind the broker's, and room for the wait if the timeout is fixed:
\* a batch's "should be shorter than the peak lock timeout"
\* (batchreceiver.go:152) by the time its first message waited for the last.
DeadlineFits ==
    /\ cfg.obeys /\ cfg.skew >= 0
    /\ Wait + Gap <= Lock
    /\ Fixed => Wait + cfg.renewTime <= Lock

\* While the handler runs nobody else can get the message (message.go:9-10,
\* receiver.go:202, batchreceiver.go:152-167): the deadline, or the renewal,
\* keeps ahead of the lock.  A Shutdown ends the renewal under the handler
\* (receiver.go:264, 323): then only what the timing had to spare is left.
HandledUnderLock ==
    pc = "handle" =>
        IF cfg.renew
        THEN RenewalFits => owner = "us" \/ (stopped /\ now > stoppedAt + Slack)
        ELSE DeadlineFits => owner = "us"

\* With renewal the lock outlives the handler until the settlement, so a
\* message comes back because its lock ran out only if a Shutdown ended its
\* renewal so long before.
SettledUnderLock ==
    cfg.renew /\ RenewalFits /\ outcome = "lost"
        => stopped /\ settled > stoppedAt + Slack

\* A settlement that lost its lock does not go unnoticed: processMessage
\* warns (receiver.go:190-195), unless the clock of the process is behind.
\* The time allowed is taken before the measurement starts (message.go:44,
\* receiver.go:174): a lock lost by less than that is not warned of.
LossIsWarned ==
    /\ outcome = "lost" /\ pc = "done"
    /\ ~cfg.renew /\ ~cfg.batch /\ cfg.skew >= 0
    /\ cfg.known \/ Wait + cfg.renewTime <= Lock
    => warned \/ settled < lockedUntil + (started - taken)

\* The renewal goroutine of a message ends when the message is done, and on
\* a Shutdown.
RenewalEnds == (pc = "done" \/ stopped) ~> rpc = "off"

=============================================================================
