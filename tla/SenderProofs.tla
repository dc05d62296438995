---------------------------- MODULE SenderProofs ----------------------------
(***************************************************************************)
(* The safety properties of Sender for any number of goroutines, links and *)
(* message sizes.                                                          *)
(***************************************************************************)
EXTENDS Sender, TLAPS

Call(p) == Open(p) \/ Send(p) \/ SendBatch(p) \/ NewMessageBatchNil(p) \/ Close(p)

\* Callers that take turns are never inside together.
Single ==
    serial => \A p, q \in Procs : pc[p] # "idle" /\ pc[q] # "idle" => p = q

\* The limit is the queue's, or 0 while nobody can come to compare with it.
Limits ==
    /\ limit \in {0, QueueLimit}
    /\ serial \/ reliable =>
         /\ sender # None => limit = QueueLimit
         /\ \A p \in Procs : pc[p] \in {"link", "size"} => limit = QueueLimit

\* In turn, what a goroutine knows of s.sender stays true.
Opened ==
    serial => \A p \in Procs :
        /\ pc[p] \in {"properties", "link"} => sender = None
        /\ pc[p] \in {"size", "send", "batch", "lock", "close", "clear"}
             => sender # None

\* In turn, the link of s.sender is the one that is open, until Close has
\* closed it.
Owned ==
    serial =>
        /\ links \ unclosed \subseteq {sender}
        /\ \A p \in Procs : pc[p] = "clear" => links \subseteq unclosed
        /\ (\A p \in Procs : pc[p] # "clear") /\ sender # None => sender \in links

Inv == /\ TypeOK /\ Single /\ Limits /\ Opened /\ Owned
       /\ WithinLimit /\ RefusedOnlyTooLarge /\ NoPanicInTurn

LEMMA InvInit == Init => Inv
  BY SenderAssumption DEF Init, Inv, TypeOK, Single, Limits, Opened, Owned,
     WithinLimit, RefusedOnlyTooLarge, NoPanicInTurn, Links

LEMMA TypeStep == Inv /\ [Next]_vars => TypeOK'
  <1> SUFFICES ASSUME Inv, [Next]_vars PROVE TypeOK'
    OBVIOUS
  <1>u. CASE UNCHANGED vars
    BY <1>u DEF vars, callers, linkVars, procVars, Inv, TypeOK, Links
  <1>n. CASE Next
    <2> PICK p \in Procs : Call(p) \/ Running(p)
      BY <1>n DEF Next, Call
    <2> USE SenderAssumption DEF Inv, TypeOK, Links, callers, linkVars
    <2>1. CASE Open(p)
      BY <2>1 DEF Open, Turn, Step
    <2>2. CASE Send(p)
      BY <2>2 DEF Send, Enter, Turn, Step
    <2>3. CASE SendBatch(p)
      BY <2>3 DEF SendBatch, Enter, Turn, Step
    <2>4. CASE NewMessageBatchNil(p)
      BY <2>4 DEF NewMessageBatchNil, Panic, procVars
    <2>5. CASE Close(p)
      BY <2>5 DEF Close, Turn, Step
    <2>6. CASE OpenAgain(p)
      BY <2>6 DEF OpenAgain, Step
    <2>7. CASE OpenClient(p)
      BY <2>7 DEF OpenClient, Step
    <2>8. CASE OpenClientFails(p)
      BY <2>8 DEF OpenClientFails, Return, Step
    <2>9. CASE Properties(p)
      BY <2>9 DEF Properties, Step
    <2>10. CASE PropertiesFail(p)
      BY <2>10 DEF PropertiesFail, Return, Step
    <2>11. CASE NewSender(p)
      BY <2>11 DEF NewSender, Step
    <2>12. CASE NewSenderFails(p)
      BY <2>12 DEF NewSenderFails, Return, Step
    <2>13. CASE Oversized(p)
      BY <2>13 DEF Oversized, TooLarge, Return, Step
    <2>14. CASE SizeOK(p)
      BY <2>14 DEF SizeOK, TooLarge, Step
    <2>15. CASE Transmit(p)
      BY <2>15 DEF Transmit, Return, Step
    <2>16. CASE TransmitNil(p)
      BY <2>16 DEF TransmitNil, Panic, procVars
    <2>17. CASE CloseLock(p)
      BY <2>17 DEF CloseLock, Step
    <2>18. CASE CloseLink(p)
      BY <2>18 DEF CloseLink, Step
    <2>19. CASE CloseNil(p)
      BY <2>19 DEF CloseNil, Panic, procVars
    <2>20. CASE CloseClear(p)
      BY <2>20 DEF CloseClear, Return, Step
    <2> QED
      BY <2>1, <2>2, <2>3, <2>4, <2>5, <2>6, <2>7, <2>8, <2>9, <2>10,
      <2>11, <2>12, <2>13, <2>14, <2>15, <2>16, <2>17, <2>18, <2>19, <2>20
      DEF Call, Running
  <1> QED
    BY <1>u, <1>n

LEMMA SingleStep == Inv /\ [Next]_vars => Single'
  <1> SUFFICES ASSUME Inv, [Next]_vars PROVE Single'
    OBVIOUS
  <1>u. CASE UNCHANGED vars
    BY <1>u DEF vars, callers, linkVars, procVars, Inv, TypeOK, Single
  <1>n. CASE Next
    <2> PICK p \in Procs : Call(p) \/ Running(p)
      BY <1>n DEF Next, Call
    <2> USE SenderAssumption DEF Inv, TypeOK, Single, callers, linkVars
    <2>1. CASE Open(p)
      BY <2>1 DEF Open, Turn, Step
    <2>2. CASE Send(p)
      BY <2>2 DEF Send, Enter, Turn, Step
    <2>3. CASE SendBatch(p)
      BY <2>3 DEF SendBatch, Enter, Turn, Step
    <2>4. CASE NewMessageBatchNil(p)
      BY <2>4 DEF NewMessageBatchNil, Panic, procVars
    <2>5. CASE Close(p)
      BY <2>5 DEF Close, Turn, Step
    <2>6. CASE OpenAgain(p)
      BY <2>6 DEF OpenAgain, Step
    <2>7. CASE OpenClient(p)
      BY <2>7 DEF OpenClient, Step
    <2>8. CASE OpenClientFails(p)
      BY <2>8 DEF OpenClientFails, Return, Step
    <2>9. CASE Properties(p)
      BY <2>9 DEF Properties, Step
    <2>10. CASE PropertiesFail(p)
      BY <2>10 DEF PropertiesFail, Return, Step
    <2>11. CASE NewSender(p)
      BY <2>11 DEF NewSender, Step
    <2>12. CASE NewSenderFails(p)
      BY <2>12 DEF NewSenderFails, Return, Step
    <2>13. CASE Oversized(p)
      BY <2>13 DEF Oversized, TooLarge, Return, Step
    <2>14. CASE SizeOK(p)
      BY <2>14 DEF SizeOK, TooLarge, Step
    <2>15. CASE Transmit(p)
      BY <2>15 DEF Transmit, Return, Step
    <2>16. CASE TransmitNil(p)
      BY <2>16 DEF TransmitNil, Panic, procVars
    <2>17. CASE CloseLock(p)
      BY <2>17 DEF CloseLock, Step
    <2>18. CASE CloseLink(p)
      BY <2>18 DEF CloseLink, Step
    <2>19. CASE CloseNil(p)
      BY <2>19 DEF CloseNil, Panic, procVars
    <2>20. CASE CloseClear(p)
      BY <2>20 DEF CloseClear, Return, Step
    <2> QED
      BY <2>1, <2>2, <2>3, <2>4, <2>5, <2>6, <2>7, <2>8, <2>9, <2>10,
      <2>11, <2>12, <2>13, <2>14, <2>15, <2>16, <2>17, <2>18, <2>19, <2>20
      DEF Call, Running
  <1> QED
    BY <1>u, <1>n

LEMMA LimitsStep == Inv /\ [Next]_vars => Limits'
  <1> SUFFICES ASSUME Inv, [Next]_vars PROVE Limits'
    OBVIOUS
  <1>u. CASE UNCHANGED vars
    BY <1>u DEF vars, callers, linkVars, procVars, Inv, TypeOK, Single, Limits, Opened
  <1>n. CASE Next
    <2> PICK p \in Procs : Call(p) \/ Running(p)
      BY <1>n DEF Next, Call
    <2> USE SenderAssumption DEF Inv, TypeOK, Single, Limits, Opened, callers, linkVars
    <2>1. CASE Open(p)
      BY <2>1 DEF Open, Turn, Step
    <2>2. CASE Send(p)
      BY <2>2 DEF Send, Enter, Turn, Step
    <2>3. CASE SendBatch(p)
      BY <2>3 DEF SendBatch, Enter, Turn, Step
    <2>4. CASE NewMessageBatchNil(p)
      BY <2>4 DEF NewMessageBatchNil, Panic, procVars
    <2>5. CASE Close(p)
      BY <2>5 DEF Close, Turn, Step
    <2>6. CASE OpenAgain(p)
      BY <2>6 DEF OpenAgain, Step
    <2>7. CASE OpenClient(p)
      BY <2>7 DEF OpenClient, Step
    <2>8. CASE OpenClientFails(p)
      BY <2>8 DEF OpenClientFails, Return, Step
    <2>9. CASE Properties(p)
      BY <2>9 DEF Properties, Step
    <2>10. CASE PropertiesFail(p)
      BY <2>10 DEF PropertiesFail, Return, Step
    <2>11. CASE NewSender(p)
      BY <2>11 DEF NewSender, Step
    <2>12. CASE NewSenderFails(p)
      BY <2>12 DEF NewSenderFails, Return, Step
    <2>13. CASE Oversized(p)
      BY <2>13 DEF Oversized, TooLarge, Return, Step
    <2>14. CASE SizeOK(p)
      BY <2>14 DEF SizeOK, TooLarge, Step
    <2>15. CASE Transmit(p)
      BY <2>15 DEF Transmit, Return, Step
    <2>16. CASE TransmitNil(p)
      BY <2>16 DEF TransmitNil, Panic, procVars
    <2>17. CASE CloseLock(p)
      BY <2>17 DEF CloseLock, Step
    <2>18. CASE CloseLink(p)
      BY <2>18 DEF CloseLink, Step
    <2>19. CASE CloseNil(p)
      BY <2>19 DEF CloseNil, Panic, procVars
    <2>20. CASE CloseClear(p)
      BY <2>20 DEF CloseClear, Return, Step
    <2> QED
      BY <2>1, <2>2, <2>3, <2>4, <2>5, <2>6, <2>7, <2>8, <2>9, <2>10,
      <2>11, <2>12, <2>13, <2>14, <2>15, <2>16, <2>17, <2>18, <2>19, <2>20
      DEF Call, Running
  <1> QED
    BY <1>u, <1>n

LEMMA OpenedStep == Inv /\ [Next]_vars => Opened'
  <1> SUFFICES ASSUME Inv, [Next]_vars PROVE Opened'
    OBVIOUS
  <1>u. CASE UNCHANGED vars
    BY <1>u DEF vars, callers, linkVars, procVars, Inv, TypeOK, Links, Single, Opened
  <1>n. CASE Next
    <2> PICK p \in Procs : Call(p) \/ Running(p)
      BY <1>n DEF Next, Call
    <2> USE SenderAssumption DEF Inv, TypeOK, Links, Single, Opened, callers, linkVars
    <2>1. CASE Open(p)
      BY <2>1 DEF Open, Turn, Step
    <2>2. CASE Send(p)
      BY <2>2 DEF Send, Enter, Turn, Step
    <2>3. CASE SendBatch(p)
      BY <2>3 DEF SendBatch, Enter, Turn, Step
    <2>4. CASE NewMessageBatchNil(p)
      BY <2>4 DEF NewMessageBatchNil, Panic, procVars
    <2>5. CASE Close(p)
      BY <2>5 DEF Close, Turn, Step
    <2>6. CASE OpenAgain(p)
      BY <2>6 DEF OpenAgain, Step
    <2>7. CASE OpenClient(p)
      BY <2>7 DEF OpenClient, Step
    <2>8. CASE OpenClientFails(p)
      BY <2>8 DEF OpenClientFails, Return, Step
    <2>9. CASE Properties(p)
      BY <2>9 DEF Properties, Step
    <2>10. CASE PropertiesFail(p)
      BY <2>10 DEF PropertiesFail, Return, Step
    <2>11. CASE NewSender(p)
      BY <2>11 DEF NewSender, Step
    <2>12. CASE NewSenderFails(p)
      BY <2>12 DEF NewSenderFails, Return, Step
    <2>13. CASE Oversized(p)
      BY <2>13 DEF Oversized, TooLarge, Return, Step
    <2>14. CASE SizeOK(p)
      BY <2>14 DEF SizeOK, TooLarge, Step
    <2>15. CASE Transmit(p)
      BY <2>15 DEF Transmit, Return, Step
    <2>16. CASE TransmitNil(p)
      BY <2>16 DEF TransmitNil, Panic, procVars
    <2>17. CASE CloseLock(p)
      BY <2>17 DEF CloseLock, Step
    <2>18. CASE CloseLink(p)
      BY <2>18 DEF CloseLink, Step
    <2>19. CASE CloseNil(p)
      BY <2>19 DEF CloseNil, Panic, procVars
    <2>20. CASE CloseClear(p)
      BY <2>20 DEF CloseClear, Return, Step
    <2> QED
      BY <2>1, <2>2, <2>3, <2>4, <2>5, <2>6, <2>7, <2>8, <2>9, <2>10,
      <2>11, <2>12, <2>13, <2>14, <2>15, <2>16, <2>17, <2>18, <2>19, <2>20
      DEF Call, Running
  <1> QED
    BY <1>u, <1>n

LEMMA OwnedStep == Inv /\ [Next]_vars => Owned'
  <1> SUFFICES ASSUME Inv, [Next]_vars PROVE Owned'
    OBVIOUS
  <1>u. CASE UNCHANGED vars
    BY <1>u DEF vars, callers, linkVars, procVars, Inv, TypeOK, Links, Single, Opened, Owned
  <1>n. CASE Next
    <2> PICK p \in Procs : Call(p) \/ Running(p)
      BY <1>n DEF Next, Call
    <2> USE SenderAssumption DEF Inv, TypeOK, Links, Single, Opened, Owned, callers, linkVars
    <2>1. CASE Open(p)
      BY <2>1 DEF Open, Turn, Step
    <2>2. CASE Send(p)
      BY <2>2 DEF Send, Enter, Turn, Step
    <2>3. CASE SendBatch(p)
      BY <2>3 DEF SendBatch, Enter, Turn, Step
    <2>4. CASE NewMessageBatchNil(p)
      BY <2>4 DEF NewMessageBatchNil, Panic, procVars
    <2>5. CASE Close(p)
      BY <2>5 DEF Close, Turn, Step
    <2>6. CASE OpenAgain(p)
      BY <2>6 DEF OpenAgain, Step
    <2>7. CASE OpenClient(p)
      BY <2>7 DEF OpenClient, Step
    <2>8. CASE OpenClientFails(p)
      BY <2>8 DEF OpenClientFails, Return, Step
    <2>9. CASE Properties(p)
      BY <2>9 DEF Properties, Step
    <2>10. CASE PropertiesFail(p)
      BY <2>10 DEF PropertiesFail, Return, Step
    <2>11. CASE NewSender(p)
      BY <2>11 DEF NewSender, Step
    <2>12. CASE NewSenderFails(p)
      BY <2>12 DEF NewSenderFails, Return, Step
    <2>13. CASE Oversized(p)
      BY <2>13 DEF Oversized, TooLarge, Return, Step
    <2>14. CASE SizeOK(p)
      BY <2>14 DEF SizeOK, TooLarge, Step
    <2>15. CASE Transmit(p)
      BY <2>15 DEF Transmit, Return, Step
    <2>16. CASE TransmitNil(p)
      BY <2>16 DEF TransmitNil, Panic, procVars
    <2>17. CASE CloseLock(p)
      BY <2>17 DEF CloseLock, Step
    <2>18. CASE CloseLink(p)
      BY <2>18 DEF CloseLink, Step
    <2>19. CASE CloseNil(p)
      BY <2>19 DEF CloseNil, Panic, procVars
    <2>20. CASE CloseClear(p)
      BY <2>20 DEF CloseClear, Return, Step
    <2> QED
      BY <2>1, <2>2, <2>3, <2>4, <2>5, <2>6, <2>7, <2>8, <2>9, <2>10,
      <2>11, <2>12, <2>13, <2>14, <2>15, <2>16, <2>17, <2>18, <2>19, <2>20
      DEF Call, Running
  <1> QED
    BY <1>u, <1>n

LEMMA WithinStep == Inv /\ [Next]_vars => WithinLimit'
  <1> SUFFICES ASSUME Inv, [Next]_vars PROVE WithinLimit'
    OBVIOUS
  <1>u. CASE UNCHANGED vars
    BY <1>u DEF vars, callers, linkVars, procVars, Inv, TypeOK, Limits, WithinLimit
  <1>n. CASE Next
    <2> PICK p \in Procs : Call(p) \/ Running(p)
      BY <1>n DEF Next, Call
    <2> USE SenderAssumption DEF Inv, TypeOK, Limits, WithinLimit, callers, linkVars
    <2>1. CASE Open(p)
      BY <2>1 DEF Open, Turn, Step
    <2>2. CASE Send(p)
      BY <2>2 DEF Send, Enter, Turn, Step
    <2>3. CASE SendBatch(p)
      BY <2>3 DEF SendBatch, Enter, Turn, Step
    <2>4. CASE NewMessageBatchNil(p)
      BY <2>4 DEF NewMessageBatchNil, Panic, procVars
    <2>5. CASE Close(p)
      BY <2>5 DEF Close, Turn, Step
    <2>6. CASE OpenAgain(p)
      BY <2>6 DEF OpenAgain, Step
    <2>7. CASE OpenClient(p)
      BY <2>7 DEF OpenClient, Step
    <2>8. CASE OpenClientFails(p)
      BY <2>8 DEF OpenClientFails, Return, Step
    <2>9. CASE Properties(p)
      BY <2>9 DEF Properties, Step
    <2>10. CASE PropertiesFail(p)
      BY <2>10 DEF PropertiesFail, Return, Step
    <2>11. CASE NewSender(p)
      BY <2>11 DEF NewSender, Step
    <2>12. CASE NewSenderFails(p)
      BY <2>12 DEF NewSenderFails, Return, Step
    <2>13. CASE Oversized(p)
      BY <2>13 DEF Oversized, TooLarge, Return, Step
    <2>14. CASE SizeOK(p)
      BY <2>14 DEF SizeOK, TooLarge, Step
    <2>15. CASE Transmit(p)
      BY <2>15 DEF Transmit, Return, Step
    <2>16. CASE TransmitNil(p)
      BY <2>16 DEF TransmitNil, Panic, procVars
    <2>17. CASE CloseLock(p)
      BY <2>17 DEF CloseLock, Step
    <2>18. CASE CloseLink(p)
      BY <2>18 DEF CloseLink, Step
    <2>19. CASE CloseNil(p)
      BY <2>19 DEF CloseNil, Panic, procVars
    <2>20. CASE CloseClear(p)
      BY <2>20 DEF CloseClear, Return, Step
    <2> QED
      BY <2>1, <2>2, <2>3, <2>4, <2>5, <2>6, <2>7, <2>8, <2>9, <2>10,
      <2>11, <2>12, <2>13, <2>14, <2>15, <2>16, <2>17, <2>18, <2>19, <2>20
      DEF Call, Running
  <1> QED
    BY <1>u, <1>n

LEMMA RefusedStep == Inv /\ [Next]_vars => RefusedOnlyTooLarge'
  <1> SUFFICES ASSUME Inv, [Next]_vars PROVE RefusedOnlyTooLarge'
    OBVIOUS
  <1>u. CASE UNCHANGED vars
    BY <1>u DEF vars, callers, linkVars, procVars, Inv, TypeOK, Limits, RefusedOnlyTooLarge
  <1>n. CASE Next
    <2> PICK p \in Procs : Call(p) \/ Running(p)
      BY <1>n DEF Next, Call
    <2> USE SenderAssumption DEF Inv, TypeOK, Limits, RefusedOnlyTooLarge, callers, linkVars
    <2>1. CASE Open(p)
      BY <2>1 DEF Open, Turn, Step
    <2>2. CASE Send(p)
      BY <2>2 DEF Send, Enter, Turn, Step
    <2>3. CASE SendBatch(p)
      BY <2>3 DEF SendBatch, Enter, Turn, Step
    <2>4. CASE NewMessageBatchNil(p)
      BY <2>4 DEF NewMessageBatchNil, Panic, procVars
    <2>5. CASE Close(p)
      BY <2>5 DEF Close, Turn, Step
    <2>6. CASE OpenAgain(p)
      BY <2>6 DEF OpenAgain, Step
    <2>7. CASE OpenClient(p)
      BY <2>7 DEF OpenClient, Step
    <2>8. CASE OpenClientFails(p)
      BY <2>8 DEF OpenClientFails, Return, Step
    <2>9. CASE Properties(p)
      BY <2>9 DEF Properties, Step
    <2>10. CASE PropertiesFail(p)
      BY <2>10 DEF PropertiesFail, Return, Step
    <2>11. CASE NewSender(p)
      BY <2>11 DEF NewSender, Step
    <2>12. CASE NewSenderFails(p)
      BY <2>12 DEF NewSenderFails, Return, Step
    <2>13. CASE Oversized(p)
      BY <2>13 DEF Oversized, TooLarge, Return, Step
    <2>14. CASE SizeOK(p)
      BY <2>14 DEF SizeOK, TooLarge, Step
    <2>15. CASE Transmit(p)
      BY <2>15 DEF Transmit, Return, Step
    <2>16. CASE TransmitNil(p)
      BY <2>16 DEF TransmitNil, Panic, procVars
    <2>17. CASE CloseLock(p)
      BY <2>17 DEF CloseLock, Step
    <2>18. CASE CloseLink(p)
      BY <2>18 DEF CloseLink, Step
    <2>19. CASE CloseNil(p)
      BY <2>19 DEF CloseNil, Panic, procVars
    <2>20. CASE CloseClear(p)
      BY <2>20 DEF CloseClear, Return, Step
    <2> QED
      BY <2>1, <2>2, <2>3, <2>4, <2>5, <2>6, <2>7, <2>8, <2>9, <2>10,
      <2>11, <2>12, <2>13, <2>14, <2>15, <2>16, <2>17, <2>18, <2>19, <2>20
      DEF Call, Running
  <1> QED
    BY <1>u, <1>n

LEMMA PanicStep == Inv /\ [Next]_vars => NoPanicInTurn'
  <1> SUFFICES ASSUME Inv, [Next]_vars PROVE NoPanicInTurn'
    OBVIOUS
  <1>u. CASE UNCHANGED vars
    BY <1>u DEF vars, callers, linkVars, procVars, Inv, TypeOK, Opened, NoPanicInTurn
  <1>n. CASE Next
    <2> PICK p \in Procs : Call(p) \/ Running(p)
      BY <1>n DEF Next, Call
    <2> USE SenderAssumption DEF Inv, TypeOK, Opened, NoPanicInTurn, callers, linkVars
    <2>1. CASE Open(p)
      BY <2>1 DEF Open, Turn, Step
    <2>2. CASE Send(p)
      BY <2>2 DEF Send, Enter, Turn, Step
    <2>3. CASE SendBatch(p)
      BY <2>3 DEF SendBatch, Enter, Turn, Step
    <2>4. CASE NewMessageBatchNil(p)
      BY <2>4 DEF NewMessageBatchNil, Panic, procVars
    <2>5. CASE Close(p)
      BY <2>5 DEF Close, Turn, Step
    <2>6. CASE OpenAgain(p)
      BY <2>6 DEF OpenAgain, Step
    <2>7. CASE OpenClient(p)
      BY <2>7 DEF OpenClient, Step
    <2>8. CASE OpenClientFails(p)
      BY <2>8 DEF OpenClientFails, Return, Step
    <2>9. CASE Properties(p)
      BY <2>9 DEF Properties, Step
    <2>10. CASE PropertiesFail(p)
      BY <2>10 DEF PropertiesFail, Return, Step
    <2>11. CASE NewSender(p)
      BY <2>11 DEF NewSender, Step
    <2>12. CASE NewSenderFails(p)
      BY <2>12 DEF NewSenderFails, Return, Step
    <2>13. CASE Oversized(p)
      BY <2>13 DEF Oversized, TooLarge, Return, Step
    <2>14. CASE SizeOK(p)
      BY <2>14 DEF SizeOK, TooLarge, Step
    <2>15. CASE Transmit(p)
      BY <2>15 DEF Transmit, Return, Step
    <2>16. CASE TransmitNil(p)
      BY <2>16 DEF TransmitNil, Panic, procVars
    <2>17. CASE CloseLock(p)
      BY <2>17 DEF CloseLock, Step
    <2>18. CASE CloseLink(p)
      BY <2>18 DEF CloseLink, Step
    <2>19. CASE CloseNil(p)
      BY <2>19 DEF CloseNil, Panic, procVars
    <2>20. CASE CloseClear(p)
      BY <2>20 DEF CloseClear, Return, Step
    <2> QED
      BY <2>1, <2>2, <2>3, <2>4, <2>5, <2>6, <2>7, <2>8, <2>9, <2>10,
      <2>11, <2>12, <2>13, <2>14, <2>15, <2>16, <2>17, <2>18, <2>19, <2>20
      DEF Call, Running
  <1> QED
    BY <1>u, <1>n

THEOREM Invariance == Spec => []Inv
  <1>1. Inv /\ [Next]_vars => Inv'
    BY TypeStep, SingleStep, LimitsStep, OpenedStep, OwnedStep, WithinStep,
       RefusedStep, PanicStep DEF Inv
  <1> QED
    BY InvInit, <1>1, PTL DEF Spec

\* Every variable of the sender keeps its type (sender.go:25-34).
THEOREM TypeCorrect == Spec => []TypeOK
  BY Invariance, PTL DEF Inv

\* However opens, closes and sends interleave, Send hands the broker nothing
\* over the queue's limit (sender.go:136).
THEOREM StaysWithinLimit == Spec => []WithinLimit
  BY Invariance, PTL DEF Inv

\* Callers that take turns, or a queue that always answers, are told "too
\* large" only of messages that are (sender.go:80, 136).
THEOREM RefusesOnlyTooLarge == Spec => []RefusedOnlyTooLarge
  BY Invariance, PTL DEF Inv

\* Between the calls of callers that take turns, s.sender is the one open
\* link (sender.go:63, 70, 96).
THEOREM KeepsOneLink == Spec => []OneLink
  <1>1. Inv => OneLink
    BY SenderAssumption DEF Inv, TypeOK, Owned, OneLink, Links
  <1> QED
    BY Invariance, <1>1, PTL

\* A nil sender is met only in a race with Close, or by NewMessageBatch
\* before any Open (sender.go:117-123).
THEOREM PanicsOnlyInRaces == Spec => []NoPanicInTurn
  BY Invariance, PTL DEF Inv

-----------------------------------------------------------------------------
(* The mutex of Close, which the other calls do not take *)

\* s.mtx is held by the goroutine between lock and clear and by nobody else:
\* a Close that waits waits for one that is on its way (sender.go:51-65).
MutexHeld == \A p \in Procs : pc[p] \in {"close", "clear"} <=> mtx = p

\* Open and the sends neither take the mutex nor come to where it is held.
LEMMA OthersMutex ==
  ASSUME TypeOK, NEW p \in Procs, Call(p) \/ Running(p),
         ~CloseLock(p), ~CloseLink(p), ~CloseNil(p), ~CloseClear(p)
  PROVE  /\ mtx' = mtx
         /\ \A q \in Procs : pc'[q] \in {"close", "clear"}
                               <=> pc[q] \in {"close", "clear"}
  <1> USE DEF TypeOK, Step, Return, Panic, procVars
  <1>1. CASE Open(p) \/ Close(p)
    BY <1>1 DEF Open, Close
  <1>2. CASE Send(p) \/ SendBatch(p)
    BY <1>2 DEF Send, SendBatch, Enter
  <1>3. CASE NewMessageBatchNil(p) \/ TransmitNil(p)
    BY <1>3 DEF NewMessageBatchNil, TransmitNil
  <1>4. CASE OpenAgain(p) \/ OpenClient(p) \/ OpenClientFails(p)
    BY <1>4 DEF OpenAgain, OpenClient, OpenClientFails
  <1>5. CASE Properties(p) \/ PropertiesFail(p) \/ NewSender(p) \/ NewSenderFails(p)
    BY <1>5 DEF Properties, PropertiesFail, NewSender, NewSenderFails
  <1>6. CASE Oversized(p) \/ SizeOK(p) \/ Transmit(p)
    BY <1>6 DEF Oversized, SizeOK, Transmit
  <1> QED
    BY <1>1, <1>2, <1>3, <1>4, <1>5, <1>6 DEF Call, Running

\* Whatever races with them, Closes exclude each other and leave the mutex free
\* (sender.go:51-65).
THEOREM MutexIsReleased == Spec => []MutexHeld
  <1>1. Init => MutexHeld
    BY SenderAssumption DEF Init, MutexHeld
  <1>2. TypeOK /\ MutexHeld /\ [Next]_vars => MutexHeld'
    <2> SUFFICES ASSUME TypeOK, MutexHeld, [Next]_vars PROVE MutexHeld'
      OBVIOUS
    <2>1. CASE UNCHANGED vars
      BY <2>1 DEF vars, procVars, MutexHeld
    <2>2. ASSUME NEW p \in Procs, Call(p) \/ Running(p) PROVE MutexHeld'
      <3> USE SenderAssumption DEF TypeOK, MutexHeld, Step, Return
      <3>1. CASE CloseLock(p)
        BY <3>1 DEF CloseLock
      <3>2. CASE CloseLink(p)
        BY <3>2 DEF CloseLink
      <3>3. CASE CloseNil(p)
        BY <3>3 DEF CloseNil, Panic, procVars
      <3>4. CASE CloseClear(p)
        BY <3>4 DEF CloseClear
      <3>5. CASE ~CloseLock(p) /\ ~CloseLink(p) /\ ~CloseNil(p) /\ ~CloseClear(p)
        BY <2>2, <3>5, OthersMutex
      <3> QED
        BY <3>1, <3>2, <3>3, <3>4, <3>5
    <2> QED
      BY <2>1, <2>2 DEF Next, Call
  <1> QED
    BY <1>1, <1>2, TypeCorrect, PTL DEF Spec

=============================================================================
