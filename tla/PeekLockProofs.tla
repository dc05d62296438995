--------------------------- MODULE PeekLockProofs ---------------------------
(***************************************************************************)
(* For every lock duration, delay, skew and configuration: while the       *)
(* timing condition holds, a handler works under the lock; with renewal    *)
(* the settlement comes in time; and a loss is warned of.  A Shutdown ends *)
(* the renewal: then what the timing had to spare is left.                 *)
(***************************************************************************)
EXTENDS PeekLock, TLAPS

\* How many renewal times the next renewals may still lose.
Spare == IF cfg.mayFail /\ ~failed THEN cfg.renewTime ELSE 0

Working == pc \in {"taken", "handle", "settle"}

\* The message is locked and not settled.
Locked == pc \in {"chan", "taken", "handle", "settle"}

\* What is there before the worker has the message, and when the times were.
Waiting ==
    /\ pc = "queue" => owner = "none"
    /\ pc \in {"queue", "chan"} => rpc = "off" /\ ~tick /\ ~failed
    /\ pc = "chan" => /\ received <= now /\ now <= received + Wait
                      /\ lockedUntil = received + Lock
    /\ pc = "taken" => /\ now <= taken + Gap
                       /\ ~cfg.renew => lockedUntil = received + Lock
    /\ Working => /\ received <= taken /\ taken <= received + Wait
                  /\ taken <= now
    /\ pc \in {"handle", "settle"} => taken <= started /\ started <= now
    /\ pc \in {"queue", "chan", "taken", "handle", "settle"} => outcome = "none"
    /\ pc = "measure" => settled <= now
    /\ stopped => stoppedAt <= now

\* The lock outlives the next renewal that can succeed, and by Slack.
Ahead ==
    /\ rpc # "off"
    /\ failed => cfg.mayFail
    /\ rpc = "start" =>
         /\ ~tick /\ ~failed /\ now <= taken + Gap
         /\ lockedUntil = received + Lock
    /\ rpc = "wait" /\ ~tick =>
         /\ now < tickAt /\ tickAt <= now + cfg.renewTime
         /\ tickAt + Rtt + Spare + Slack <= lockedUntil
    /\ rpc = "wait" /\ tick =>
         /\ tickAt = now + cfg.renewTime
         /\ now + Rtt + Spare + Slack <= lockedUntil
    /\ rpc = "call" =>
         /\ ~tick /\ tickAt = called + cfg.renewTime
         /\ called <= now /\ now <= called + Rtt
         /\ called + Rtt + Spare + Slack <= lockedUntil

\* Until a Shutdown the lock is ours; from then on as long as it lasts.
RenewInv ==
    cfg.renew /\ RenewalFits =>
        /\ Locked /\ ~stopped => owner = "us"
        /\ Working /\ ~stopped => Ahead
        /\ Locked /\ stopped => stoppedAt + Slack <= lockedUntil
        /\ Locked /\ owner # "us" => now > lockedUntil
        /\ outcome = "lost" => stopped /\ settled > stoppedAt + Slack

\* The deadline does not come after the end of the lock.
DeadlineInv ==
    ~cfg.renew /\ DeadlineFits =>
        /\ pc = "chan" => owner = "us"
        /\ pc \in {"taken", "handle"} =>
             /\ owner = "us" /\ now <= lockedUntil
             /\ deadline <= lockedUntil + cfg.skew

\* The conditions of LossIsWarned.
Measured ==
    /\ ~cfg.renew /\ ~cfg.batch /\ cfg.skew >= 0
    /\ cfg.known \/ Wait + cfg.renewTime <= Lock

\* Without renewal the time allowed for a message ends with its lock.
WarnInv ==
    /\ ~cfg.renew => rpc = "off"
    /\ Measured =>
        /\ Working => taken + maxDuration <= lockedUntil
        /\ pc = "measure" /\ outcome = "lost" =>
             taken + maxDuration <= lockedUntil
        /\ LossIsWarned

Inv == TypeOK /\ Waiting /\ RenewInv /\ DeadlineInv /\ WarnInv

LEMMA ConfigType == TypeOK => cfg \in Config
  BY LockAssumption DEF TypeOK

LEMMA InvInit == Init => Inv
  <1> SUFFICES ASSUME Init PROVE Inv
    OBVIOUS
  <1>1. TypeOK
    <2>1. /\ tick \in BOOLEAN /\ failed \in BOOLEAN /\ warned \in BOOLEAN
          /\ stopped \in BOOLEAN
      BY Zenon DEF Init
    <2> QED
      BY <2>1, LockAssumption DEF Init, TypeOK
  <1>2. Waiting /\ RenewInv /\ DeadlineInv /\ WarnInv
    BY DEF Init, Waiting, RenewInv, DeadlineInv, WarnInv, Working, Locked,
       LossIsWarned
  <1> QED
    BY <1>1, <1>2 DEF Inv

LEMMA TypeStep == TypeOK /\ [Next]_vars => TypeOK'
  <1> SUFFICES ASSUME TypeOK, [Next]_vars PROVE TypeOK'
    OBVIOUS
  <1>a. /\ cfg.renewTime \in Nat \ {0} /\ cfg.skew \in Int
        /\ Lock \in Nat
    BY ConfigType, LockAssumption DEF Config
  <1>1. CASE Receive
    BY <1>a, <1>1 DEF TypeOK, Receive, tickVars, stopVars
  <1>2. CASE Take
    <2>1. /\ SetTimeout \in Int /\ SetTimeout - ProcessClock \in Int
      BY <1>a DEF TypeOK, SetTimeout, Fixed, ProcessClock
    <2>2. /\ deadline' \in Int /\ maxDuration' \in Int
          /\ rpc' \in {"off", "start", "wait", "call"}
      BY <1>2, <2>1 DEF TypeOK, Take
    <2> QED
      BY <1>2, <2>2 DEF TypeOK, Take, lockVars, stopVars
  <1>3. CASE Abandon \/ ProcessMessage \/ HandlerReturn
    BY <1>3 DEF TypeOK, Abandon, ProcessMessage, HandlerReturn, lockVars,
       timeVars, tickVars, stopVars
  <1>4. CASE Settle
    BY <1>4 DEF TypeOK, Settle, tickVars, stopVars
  <1>5. CASE Measure
    BY <1>5 DEF TypeOK, Measure, Overdue, lockVars, timeVars, tickVars, stopVars
  <1>6. CASE Shutdown
    BY <1>6 DEF TypeOK, Shutdown, lockVars, workVars, timeVars, tickVars
  <1>7. CASE StartTicker \/ RenewCall \/ RenewFails \/ Renewed \/ RenewStop
    <2>1. tick' \in BOOLEAN /\ failed' \in BOOLEAN /\ warned' \in BOOLEAN
          /\ stopped' \in BOOLEAN
      BY <1>7, Zenon DEF TypeOK, StartTicker, RenewCall, RenewFails, Renewed,
         RenewStop, workVars, stopVars
    <2>2. lockedUntil' \in Nat /\ called' \in Nat /\ tickAt' \in Nat
      BY <1>a, <1>7 DEF TypeOK, StartTicker, RenewCall, RenewFails, Renewed,
         RenewStop, lockVars
    <2> QED
      BY <1>7, <2>1, <2>2 DEF TypeOK, StartTicker, RenewCall, RenewFails,
         Renewed, RenewStop, lockVars, workVars, timeVars, stopVars
  <1>8. CASE Expire \/ TakeElsewhere
    BY <1>8 DEF TypeOK, Expire, TakeElsewhere, workVars, timeVars, tickVars,
       stopVars
  <1>9. CASE Tick
    <2>1. tick' \in BOOLEAN
      BY <1>9, Zenon DEF TypeOK, Tick
    <2>2. now' \in Nat /\ tickAt' \in Nat
      BY <1>a, <1>9 DEF TypeOK, Tick
    <2> QED
      BY <1>9, <2>1, <2>2 DEF TypeOK, Tick, lockVars, workVars, timeVars,
         stopVars
  <1>10. CASE UNCHANGED vars
    BY <1>10 DEF TypeOK, vars, lockVars, workVars, timeVars, tickVars, stopVars
  <1> QED
    BY <1>1, <1>2, <1>3, <1>4, <1>5, <1>6, <1>7, <1>8, <1>9, <1>10 DEF Next

\* The configuration never changes, so neither does what the timing needs.
LEMMA Constant ==
    [Next]_vars => /\ cfg' = cfg
                   /\ RenewalFits' = RenewalFits /\ Slack' = Slack
                   /\ DeadlineFits' = DeadlineFits /\ Measured' = Measured
  <1> SUFFICES ASSUME [Next]_vars PROVE cfg' = cfg
    BY DEF RenewalFits, Slack, RenewalNeeds, DeadlineFits, Fixed, Measured
  <1> QED
    BY DEF Next, vars, Receive, Take, Abandon, ProcessMessage, HandlerReturn,
       Settle, Measure, Shutdown, StartTicker, RenewCall, RenewFails, Renewed,
       RenewStop, Expire, TakeElsewhere, Tick

LEMMA WaitingStep == Inv /\ [Next]_vars => Waiting'
  <1> SUFFICES ASSUME Inv, [Next]_vars PROVE Waiting'
    OBVIOUS
  <1> USE LockAssumption DEF Inv, TypeOK, Waiting, Working
  <1>1. CASE Receive
    BY <1>1 DEF Receive, tickVars, stopVars
  <1>2. CASE Take
    BY <1>2 DEF Take, lockVars, stopVars
  <1>3. CASE Abandon
    BY <1>3 DEF Abandon, lockVars, timeVars, tickVars, stopVars
  <1>4. CASE ProcessMessage
    BY <1>4 DEF ProcessMessage, lockVars, tickVars, stopVars
  <1>5. CASE HandlerReturn
    BY <1>5 DEF HandlerReturn, lockVars, tickVars, stopVars
  <1>6. CASE Settle
    BY <1>6 DEF Settle, tickVars, stopVars
  <1>7. CASE Measure
    BY <1>7 DEF Measure, lockVars, timeVars, tickVars, stopVars
  <1>8. CASE Shutdown
    BY <1>8 DEF Shutdown, lockVars, workVars, timeVars, tickVars
  <1>9. CASE StartTicker \/ RenewCall \/ RenewFails \/ RenewStop
    BY <1>9 DEF StartTicker, RenewCall, RenewFails, RenewStop, lockVars,
       workVars, timeVars, stopVars
  <1>10. CASE Renewed
    <2>1. cfg.renew
      BY <1>10 DEF Renewed, WarnInv
    <2> QED
      BY <1>10, <2>1 DEF Renewed, workVars, timeVars, stopVars
  <1>11. CASE Expire \/ TakeElsewhere
    BY <1>11 DEF Expire, TakeElsewhere, workVars, timeVars, tickVars, stopVars
  <1>12. CASE Tick
    BY <1>12 DEF Tick, Prompt, lockVars, workVars, timeVars, stopVars
  <1>13. CASE UNCHANGED vars
    BY <1>13 DEF vars, lockVars, workVars, timeVars, tickVars, stopVars
  <1> QED
    BY <1>1, <1>2, <1>3, <1>4, <1>5, <1>6, <1>7, <1>8, <1>9, <1>10, <1>11,
       <1>12, <1>13 DEF Next

LEMMA RenewStep == Inv /\ [Next]_vars => RenewInv'
  <1> DEFINE Ours == Locked /\ ~stopped => owner = "us"
             Keeps == Working /\ ~stopped => Ahead
             Lasts == Locked /\ stopped => stoppedAt + Slack <= lockedUntil
             Gone == Locked /\ owner # "us" => now > lockedUntil
             Late == outcome = "lost" => stopped /\ settled > stoppedAt + Slack
  <1> SUFFICES ASSUME Inv, [Next]_vars, cfg.renew, RenewalFits,
                      cfg' = cfg, Slack' = Slack
               PROVE  Ours' /\ Keeps' /\ Lasts' /\ Gone' /\ Late'
    BY Constant DEF RenewInv
  <1>1. cfg \in Config
    BY ConfigType DEF Inv
  <1>2. /\ Rtt \in Nat /\ Lock \in Nat /\ Wait \in Nat /\ Gap \in Nat
        /\ cfg.renewTime \in Nat \ {0} /\ cfg.mayFail \in BOOLEAN
        /\ Rtt < cfg.renewTime
        /\ Slack \in Nat
        /\ Wait + Gap + cfg.renewTime
             + (IF cfg.mayFail THEN cfg.renewTime ELSE 0) + Rtt + Slack = Lock
    BY <1>1, LockAssumption DEF Config, RenewalFits, RenewalNeeds, Slack
  <1>3. Ours /\ Keeps /\ Lasts /\ Gone /\ Late
    BY DEF Inv, RenewInv
  \* Until a Shutdown the lock lasts for Slack from now on.
  <1>4. Locked /\ ~stopped => now + Slack <= lockedUntil
    BY <1>2, <1>3 DEF Inv, TypeOK, Waiting, Locked, Working, Ahead, Spare
  <1> USE <1>2, <1>3, <1>4 DEF Inv, TypeOK, Waiting, Working, Locked
  <1>5. CASE Receive
    BY <1>5 DEF Receive, tickVars, stopVars
  <1>6. CASE Take
    BY <1>6 DEF Take, lockVars, stopVars, Ahead
  <1>7. CASE Abandon
    BY <1>7 DEF Abandon, lockVars, timeVars, tickVars, stopVars
  <1>8. CASE ProcessMessage \/ HandlerReturn
    BY <1>8 DEF ProcessMessage, HandlerReturn, lockVars, tickVars, stopVars,
       Ahead, Spare
  <1>9. CASE Settle
    BY <1>9 DEF Settle, tickVars, stopVars
  <1>10. CASE Measure
    BY <1>10 DEF Measure, lockVars, timeVars, tickVars, stopVars
  <1>11. CASE Shutdown
    BY <1>11 DEF Shutdown, lockVars, workVars, timeVars, tickVars
  <1>12. CASE StartTicker
    BY <1>12 DEF StartTicker, lockVars, workVars, timeVars, stopVars, Ahead,
       Spare
  <1>13. CASE RenewCall
    BY <1>13 DEF RenewCall, lockVars, workVars, timeVars, stopVars, Ahead, Spare
  <1>14. CASE RenewFails
    BY <1>14 DEF RenewFails, RenewalMayFail, lockVars, workVars, timeVars,
       stopVars, Ahead, Spare
  <1>15. CASE Renewed
    BY <1>15 DEF Renewed, workVars, timeVars, stopVars, Ahead, Spare
  <1>16. CASE RenewStop
    BY <1>16 DEF RenewStop, lockVars, workVars, timeVars, stopVars
  <1>17. CASE Expire
    BY <1>17 DEF Expire, workVars, timeVars, tickVars, stopVars
  <1>18. CASE TakeElsewhere
    BY <1>18 DEF TakeElsewhere, workVars, timeVars, tickVars, stopVars
  <1>19. CASE Tick
    BY <1>19 DEF Tick, Prompt, lockVars, workVars, timeVars, stopVars, Ahead,
       Spare
  <1>20. CASE UNCHANGED vars
    BY <1>20 DEF vars, lockVars, workVars, timeVars, tickVars, stopVars, Ahead,
       Spare
  <1> QED
    BY <1>5, <1>6, <1>7, <1>8, <1>9, <1>10, <1>11, <1>12, <1>13, <1>14, <1>15,
       <1>16, <1>17, <1>18, <1>19, <1>20 DEF Next

LEMMA DeadlineStep == Inv /\ [Next]_vars => DeadlineInv'
  <1> SUFFICES ASSUME Inv, [Next]_vars, ~cfg.renew, DeadlineFits, cfg' = cfg
               PROVE  /\ (pc = "chan" => owner = "us")'
                      /\ (pc \in {"taken", "handle"} =>
                            /\ owner = "us" /\ now <= lockedUntil
                            /\ deadline <= lockedUntil + cfg.skew)'
    BY Constant DEF DeadlineInv
  <1>1. cfg \in Config
    BY ConfigType DEF Inv
  <1>2. /\ Lock \in Nat /\ Wait \in Nat /\ Gap \in Nat
        /\ cfg.renewTime \in Nat \ {0} /\ cfg.known \in BOOLEAN
        /\ cfg.batch \in BOOLEAN
        /\ cfg.obeys /\ cfg.skew \in Int /\ cfg.skew >= 0
        /\ Wait + Gap <= Lock
        /\ cfg.batch \/ ~cfg.known => Wait + cfg.renewTime <= Lock
    BY <1>1, LockAssumption DEF Config, DeadlineFits, Fixed
  <1>3. /\ pc = "chan" => owner = "us"
        /\ pc \in {"taken", "handle"} =>
             /\ owner = "us" /\ now <= lockedUntil
             /\ deadline <= lockedUntil + cfg.skew
        /\ rpc = "off"
    BY DEF Inv, DeadlineInv, WarnInv
  <1> USE <1>2, <1>3 DEF Inv, TypeOK, Waiting, Working
  <1>4. CASE Receive
    BY <1>4 DEF Receive, tickVars
  <1>5. CASE Take
    BY <1>5 DEF Take, lockVars, SetTimeout, Fixed, ProcessClock
  <1>6. CASE Abandon \/ ProcessMessage \/ HandlerReturn \/ Settle \/ Measure
    BY <1>6 DEF Abandon, ProcessMessage, HandlerReturn, Settle, Measure,
       lockVars
  <1>7. CASE Shutdown
    BY <1>7 DEF Shutdown, lockVars, workVars
  <1>8. CASE StartTicker \/ RenewCall \/ RenewFails \/ Renewed \/ RenewStop
    BY <1>8 DEF StartTicker, RenewCall, RenewFails, Renewed, RenewStop
  <1>9. CASE Expire \/ TakeElsewhere
    BY <1>9 DEF Expire, TakeElsewhere, workVars
  <1>10. CASE Tick
    BY <1>10 DEF Tick, Prompt, CtxDone, ProcessClock, lockVars, workVars
  <1>11. CASE UNCHANGED vars
    BY <1>11 DEF vars, lockVars, workVars
  <1> QED
    BY <1>4, <1>5, <1>6, <1>7, <1>8, <1>9, <1>10, <1>11 DEF Next

LEMMA WarnStep == Inv /\ [Next]_vars => WarnInv'
  <1> DEFINE Ends == Working => taken + maxDuration <= lockedUntil
             Lost == pc = "measure" /\ outcome = "lost" =>
                         taken + maxDuration <= lockedUntil
  <1> SUFFICES ASSUME Inv, [Next]_vars, cfg' = cfg
               PROVE  /\ (~cfg.renew => rpc = "off")'
                      /\ Measured => Ends' /\ Lost' /\ LossIsWarned'
    BY Constant DEF WarnInv
  <1>1. cfg \in Config
    BY ConfigType DEF Inv
  <1>2. /\ Lock \in Nat /\ Wait \in Nat
        /\ cfg.renewTime \in Nat \ {0} /\ cfg.known \in BOOLEAN
        /\ cfg.batch \in BOOLEAN /\ cfg.renew \in BOOLEAN
        /\ cfg.skew \in Int
    BY <1>1, LockAssumption DEF Config
  <1>3. (~cfg.renew => rpc = "off")'
    <2>1. ~cfg.renew => rpc = "off"
      BY DEF Inv, WarnInv
    <2> QED
      BY <2>1 DEF Next, vars, Receive, Take, Abandon, ProcessMessage,
         HandlerReturn, Settle, Measure, Shutdown, StartTicker, RenewCall,
         RenewFails, Renewed, RenewStop, Expire, TakeElsewhere, Tick, workVars,
         tickVars
  <1>4. ASSUME Measured PROVE Ends' /\ Lost' /\ LossIsWarned'
    <2>1. /\ ~cfg.renew /\ ~cfg.batch /\ cfg.skew >= 0 /\ rpc = "off"
          /\ cfg.known \/ Wait + cfg.renewTime <= Lock
          /\ Ends /\ Lost /\ LossIsWarned
      BY <1>4 DEF Inv, WarnInv, Measured
    <2> USE <1>2, <2>1 DEF Inv, TypeOK, Waiting, Working, LossIsWarned
    <2>2. CASE Receive
      BY <2>2 DEF Receive
    <2>3. CASE Take
      BY <2>3 DEF Take, lockVars, SetTimeout, Fixed, ProcessClock
    <2>4. CASE Abandon \/ ProcessMessage \/ HandlerReturn \/ Settle
      BY <2>4 DEF Abandon, ProcessMessage, HandlerReturn, Settle, lockVars,
         timeVars
    <2>5. CASE Measure
      <3>1. ~Overdue /\ outcome = "lost" =>
              settled < lockedUntil + (started - taken)
        BY <2>5 DEF Measure, Overdue
      <3>2. /\ pc' = "done" /\ warned' = Overdue
            /\ UNCHANGED <<lockedUntil, settled, started, taken, outcome>>
        BY <2>5 DEF Measure, lockVars, timeVars
      <3> QED
        BY <3>1, <3>2
    <2>6. CASE Shutdown
      BY <2>6 DEF Shutdown, lockVars, workVars, timeVars
    <2>7. CASE StartTicker \/ RenewCall \/ RenewFails \/ Renewed \/ RenewStop
      BY <2>7 DEF StartTicker, RenewCall, RenewFails, Renewed, RenewStop
    <2>8. CASE Expire \/ TakeElsewhere
      BY <2>8 DEF Expire, TakeElsewhere, workVars, timeVars
    <2>9. CASE Tick
      BY <2>9 DEF Tick, lockVars, workVars, timeVars
    <2>10. CASE UNCHANGED vars
      BY <2>10 DEF vars, lockVars, workVars, timeVars
    <2> QED
      BY <2>2, <2>3, <2>4, <2>5, <2>6, <2>7, <2>8, <2>9, <2>10 DEF Next
  <1> QED
    BY <1>3, <1>4

THEOREM Invariance == Spec => []Inv
  <1>1. Inv /\ [Next]_vars => Inv'
    BY TypeStep, WaitingStep, RenewStep, DeadlineStep, WarnStep DEF Inv
  <1> QED
    BY InvInit, <1>1, PTL DEF Spec

\* Every variable of the clock model keeps its type (message.go:36-52,
\* receiver.go:205-232).
THEOREM TypeCorrect == Spec => []TypeOK
  BY Invariance, PTL DEF Inv

\* Nobody else gets the message while its handler runs, for all durations
\* that satisfy RenewalFits or DeadlineFits; with renewal, until a Shutdown
\* and for Slack after it (receiver.go:112-114, 264, 323, message.go:9-10).
THEOREM HandledSafely == Spec => []HandledUnderLock
  <1>1. Inv => HandledUnderLock
    <2> SUFFICES ASSUME Inv, pc = "handle"
                 PROVE  /\ cfg.renew /\ RenewalFits =>
                             owner = "us" \/ (stopped /\ now > stoppedAt + Slack)
                        /\ ~cfg.renew /\ DeadlineFits => owner = "us"
      BY DEF HandledUnderLock
    <2>1. ASSUME cfg.renew, RenewalFits, owner # "us"
          PROVE  stopped /\ now > stoppedAt + Slack
      <3>1. stopped /\ stoppedAt + Slack <= lockedUntil /\ now > lockedUntil
        BY <2>1 DEF Inv, RenewInv, Locked
      <3>2. Slack \in Int
        BY ConfigType, LockAssumption DEF Inv, Config, Slack, RenewalNeeds
      <3> QED
        BY <3>1, <3>2 DEF Inv, TypeOK
    <2> QED
      BY <2>1 DEF Inv, DeadlineInv
  <1> QED
    BY Invariance, <1>1, PTL

\* With renewal a settlement finds the lock lost only if it came more than
\* Slack after a Shutdown (receiver.go:202-232, 264, 323).
THEOREM SettledSafely == Spec => []SettledUnderLock
  <1>1. Inv => SettledUnderLock
    BY DEF Inv, SettledUnderLock, RenewInv
  <1> QED
    BY Invariance, <1>1, PTL

\* Without renewal a lost lock is warned of, but for the time between the two
\* clock reads (receiver.go:174, 190-195, message.go:44).
THEOREM LossWarned == Spec => []LossIsWarned
  <1>1. Inv => LossIsWarned
    BY DEF Inv, LossIsWarned, WarnInv, Measured
  <1> QED
    BY Invariance, <1>1, PTL

=============================================================================
