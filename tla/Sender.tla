------------------------------- MODULE Sender -------------------------------
(***************************************************************************)
(* The Sender of azbus/sender.go, shared by several goroutines: Open,      *)
(* Send, SendBatch, NewMessageBatch and Close.  Only Close takes mtx; Open *)
(* and the sends read and write s.sender and s.maxMessageSizeInBytes       *)
(* without it, so each such access is a step of its own.                   *)
(***************************************************************************)
EXTENDS Integers

CONSTANTS
    Procs,          \* goroutines that share the Sender
    None,
    QueueLimit,     \* the size limit the queue has
    Sizes,          \* of messages
    MaxLinks        \* bound: links opened

ASSUME SenderAssumption ==
    /\ None \notin Procs /\ None \notin Nat
    /\ QueueLimit \in Nat \ {0} /\ Sizes \subseteq Nat /\ MaxLinks \in Nat

Links == 1..MaxLinks

VARIABLES
    serial,     \* the callers take turns
    reliable,   \* the queue's properties can always be had
    sender,     \* s.sender: a link or None
    limit,      \* s.maxMessageSizeInBytes
    mtx,
    made,       \* links opened so far
    links,      \* links open at the broker
    unclosed,   \* links whose Close failed
    pc,         \* where each goroutine is; idle: outside the Sender
    after,      \* where Open returns to
    size,       \* of the message being sent
    result,     \* of the last call: none, ok, error, oversized
    panic       \* what brought the process down: no, send, batch, close

callers == <<serial, reliable>>
procVars == <<pc, after, size, result>>
linkVars == <<made, links, unclosed>>
vars == <<callers, sender, limit, mtx, linkVars, procVars, panic>>

TypeOK ==
    /\ serial \in BOOLEAN /\ reliable \in BOOLEAN
    /\ sender \in Links \cup {None}
    /\ limit \in Nat
    /\ mtx \in Procs \cup {None}
    /\ made \in 0..MaxLinks
    /\ links \subseteq Links /\ unclosed \subseteq Links
    /\ pc \in [Procs -> {"idle", "open", "properties", "link", "size", "send",
                         "batch", "lock", "close", "clear"}]
    /\ after \in [Procs -> {"idle", "size", "batch"}]
    /\ size \in [Procs -> Nat]
    /\ result \in [Procs -> {"none", "ok", "error", "oversized"}]
    /\ panic \in {"no", "send", "batch", "close"}

Init ==
    /\ serial \in BOOLEAN /\ reliable \in BOOLEAN
    /\ sender = None /\ limit = 0 /\ mtx = None
    /\ made = 0 /\ links = {} /\ unclosed = {}
    /\ pc = [p \in Procs |-> "idle"] /\ after = [p \in Procs |-> "idle"]
    /\ size = [p \in Procs |-> 0] /\ result = [p \in Procs |-> "none"]
    /\ panic = "no"

Alive == panic = "no"

-----------------------------------------------------------------------------
Step(p, from, to) ==
    /\ Alive /\ pc[p] = from
    /\ pc' = [pc EXCEPT ![p] = to]
    /\ UNCHANGED callers

\* The call of p returns r to its caller.
Return(p, from, r) ==
    /\ Step(p, from, "idle")
    /\ result' = [result EXCEPT ![p] = r]
    /\ after' = [after EXCEPT ![p] = "idle"]
    /\ UNCHANGED size

Panic(p, from, what) ==
    /\ Alive /\ pc[p] = from
    /\ panic' = what
    /\ UNCHANGED <<callers, sender, limit, mtx, linkVars, procVars>>

\* A caller may start: at any time, or when nobody else is inside.
Turn(p) ==
    /\ pc[p] = "idle"
    /\ serial => \A q \in Procs : pc[q] = "idle"

\* Mutant: a send that leaves it to its caller to Open.
EnterUnopened(p, next) ==
    /\ Turn(p) /\ Step(p, "idle", next)
    /\ after' = [after EXCEPT ![p] = next]
    /\ result' = [result EXCEPT ![p] = "none"]
    /\ UNCHANGED <<sender, limit, mtx, linkVars, panic>>

\* A call that needs a link goes on to `next`, through Open if there is none.
Enter(p, next) ==
    /\ Turn(p)
    /\ Step(p, "idle", IF sender = None THEN "open" ELSE next)
    /\ after' = [after EXCEPT ![p] = next]
    /\ result' = [result EXCEPT ![p] = "none"]
    /\ UNCHANGED <<sender, limit, mtx, linkVars, panic>>

Open(p) ==
    /\ Turn(p) /\ Step(p, "idle", "open")
    /\ after' = [after EXCEPT ![p] = "idle"]
    /\ result' = [result EXCEPT ![p] = "none"]
    /\ UNCHANGED <<sender, limit, mtx, linkVars, size, panic>>

Send(p) == \E n \in Sizes : Enter(p, "size") /\ size' = [size EXCEPT ![p] = n]

SendBatch(p) == Enter(p, "batch") /\ size' = [size EXCEPT ![p] = 0]

\* Unlike the sends it does not open the sender first.
NewMessageBatchNil(p) == Turn(p) /\ sender = None /\ Panic(p, "idle", "batch")

-----------------------------------------------------------------------------
(* Open *)

OpenAgain(p) ==
    /\ Step(p, "open", after[p])
    /\ sender # None
    /\ UNCHANGED <<sender, limit, mtx, linkVars, after, size, result, panic>>

\* Mutant: Open does not look whether the sender is open.
OpenClientAlways(p) ==
    /\ Step(p, "open", "properties")
    /\ UNCHANGED <<sender, limit, mtx, linkVars, after, size, result, panic>>

\* There is no sender yet: the service bus client, which is cached, comes
\* first, or cannot be created.
OpenClient(p) ==
    /\ sender = None
    /\ Step(p, "open", "properties")
    /\ UNCHANGED <<sender, limit, mtx, linkVars, after, size, result, panic>>

OpenClientFails(p) ==
    /\ sender = None
    /\ Return(p, "open", "error")
    /\ UNCHANGED <<sender, limit, mtx, linkVars, panic>>

Properties(p) ==
    /\ Step(p, "properties", "link")
    /\ limit' = QueueLimit
    /\ UNCHANGED <<sender, mtx, linkVars, after, size, result, panic>>

\* Mutant: an unknown limit does not stop Open.
PropertiesIgnored(p) ==
    /\ ~reliable /\ Step(p, "properties", "link")
    /\ limit' = 0
    /\ UNCHANGED <<sender, mtx, linkVars, after, size, result, panic>>

\* getQueueMaxMessageSize returns 0 and an error; Open stores both.
PropertiesFail(p) ==
    /\ ~reliable /\ Return(p, "properties", "error")
    /\ limit' = 0
    /\ UNCHANGED <<sender, mtx, linkVars, panic>>

NewSender(p) ==
    /\ made < MaxLinks /\ made' = made + 1
    /\ Step(p, "link", after[p])
    /\ links' = links \cup {made'} /\ sender' = made'
    /\ UNCHANGED <<limit, mtx, unclosed, after, size, result, panic>>

NewSenderFails(p) ==
    /\ Return(p, "link", "error")
    /\ UNCHANGED <<sender, limit, mtx, linkVars, panic>>

-----------------------------------------------------------------------------
(* Send and SendBatch, once open *)

\* Mutant: a message of the limit and one more passes.
TooLargeByMore(p) == size[p] > limit + 1

TooLarge(p) == size[p] > limit

Oversized(p) ==
    /\ TooLarge(p) /\ Return(p, "size", "oversized")
    /\ UNCHANGED <<sender, limit, mtx, linkVars, panic>>

SizeOK(p) ==
    /\ ~TooLarge(p) /\ Step(p, "size", "send")
    /\ UNCHANGED <<sender, limit, mtx, linkVars, after, size, result, panic>>

\* The broker takes the message or the batch, or the call fails; on a
\* closed link it can only fail.
Transmit(p) ==
    \E from \in {"send", "batch"} : \E r \in {"ok", "error"} :
        /\ sender # None /\ (sender \notin links => r = "error")
        /\ Return(p, from, r)
        /\ UNCHANGED <<sender, limit, mtx, linkVars, panic>>

\* s.sender was set when the call looked, and Close has cleared it since.
TransmitNil(p) ==
    /\ sender = None
    /\ Panic(p, "send", "send") \/ Panic(p, "batch", "send")

-----------------------------------------------------------------------------
(* Close *)

\* The nil check comes before the lock.
Close(p) ==
    /\ Turn(p) /\ sender # None
    /\ Step(p, "idle", "lock")
    /\ UNCHANGED <<sender, limit, mtx, linkVars, after, size, result, panic>>

CloseLock(p) ==
    /\ mtx = None /\ mtx' = p
    /\ Step(p, "lock", "close")
    /\ UNCHANGED <<sender, limit, linkVars, after, size, result, panic>>

CloseLink(p) ==
    /\ sender # None /\ Step(p, "close", "clear")
    /\ \/ links' = links \ {sender} /\ UNCHANGED unclosed
       \/ unclosed' = unclosed \cup {sender} /\ UNCHANGED links
    /\ UNCHANGED <<sender, limit, mtx, made, after, size, result, panic>>

CloseNil(p) == sender = None /\ Panic(p, "close", "close")

\* Mutant: no mtx.Unlock.
CloseClearLocked(p) ==
    /\ Return(p, "clear", "ok")
    /\ sender' = None
    /\ UNCHANGED <<limit, mtx, linkVars, panic>>

CloseClear(p) ==
    /\ Return(p, "clear", "ok")
    /\ sender' = None /\ mtx' = None
    /\ UNCHANGED <<limit, linkVars, panic>>

-----------------------------------------------------------------------------
Running(p) ==
    \/ OpenAgain(p) \/ OpenClient(p) \/ OpenClientFails(p)
    \/ Properties(p) \/ PropertiesFail(p) \/ NewSender(p) \/ NewSenderFails(p)
    \/ Oversized(p) \/ SizeOK(p) \/ Transmit(p) \/ TransmitNil(p)
    \/ CloseLock(p) \/ CloseLink(p) \/ CloseNil(p) \/ CloseClear(p)

Next == \E p \in Procs : \/ Open(p) \/ Send(p) \/ SendBatch(p)
                         \/ NewMessageBatchNil(p) \/ Close(p) \/ Running(p)

Spec == Init /\ [][Next]_vars

\* Goroutines run and calls to the broker return; nobody has to call.
FairSpec == Spec /\ \A p \in Procs : WF_vars(Running(p))

-----------------------------------------------------------------------------
(* Properties *)

\* Nothing over the queue's own limit is handed to the broker, whatever
\* opens, closes and failures the goroutines interleave (sender.go:136).
WithinLimit == \A p \in Procs : pc[p] = "send" => size[p] <= QueueLimit

\* "message is too large" (azadmin.go:15) is the truth.  It needs callers
\* that take turns or a queue that always answers: a racing Open that fails
\* stores a limit of 0 under an open sender (sender.go:80), and every
\* message is too large from then on.
RefusedOnlyTooLarge ==
    serial \/ reliable =>
        \A p \in Procs : result[p] = "oversized" => size[p] > QueueLimit

\* With callers that take turns the link of s.sender is open and no other,
\* but those whose Close failed (sender.go:63, 70, 96).
OneLink ==
    serial /\ (\A p \in Procs : pc[p] = "idle") =>
        /\ sender # None => sender \in links
        /\ links \ unclosed \subseteq {sender}

\* The sends open what they need ("boots & braces", sender.go:117-123): only
\* a race with Close, or NewMessageBatch before any Open, meets a nil sender.
NoPanicInTurn == serial => panic \in {"no", "batch"}

\* Every call returns, Closes that wait for mtx included.
CallsReturn == \A p \in Procs : pc[p] # "idle" ~> (pc[p] = "idle" \/ ~Alive)

=============================================================================
