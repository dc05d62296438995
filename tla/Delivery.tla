------------------------------ MODULE Delivery ------------------------------
(***************************************************************************)
(* What a peek lock receiver promises, whatever the number of goroutines   *)
(* behind it: it accepts messages in rounds of at most Limit, accepts      *)
(* nothing more until it has finished with every message of the round,     *)
(* gives each accepted message to a handler at most once in the round, and *)
(* settles a message only while it holds the lock and only the way the     *)
(* handler decided.  A message it does not settle goes back to the queue.  *)
(***************************************************************************)
EXTENDS Integers

CONSTANTS Msgs, Limit, Disposition

VARIABLES
    queue,      \* where the broker has each message
    round,      \* the messages accepted and not finished
    verdict     \* what the handlers decided on messages of the round

vars == <<queue, round, verdict>>

Undecided == "undecided"

TypeOK ==
    /\ queue \in [Msgs -> {"ready", "ours", "elsewhere", "completed",
                           "deadlettered", "gone"}]
    /\ round \subseteq Msgs
    /\ verdict \in [Msgs -> Disposition \cup {Undecided}]

Init ==
    /\ queue = [m \in Msgs |-> "ready"]
    /\ round = {}
    /\ verdict = [m \in Msgs |-> Undecided]

\* At least one and at most Limit messages.
Accept ==
    /\ round = {}
    /\ \E k \in 1..Limit : \E f \in [1..k -> {m \in Msgs : queue[m] = "ready"}] :
          round' = {f[i] : i \in 1..k}
    /\ queue' = [m \in Msgs |-> IF m \in round' THEN "ours" ELSE queue[m]]
    /\ UNCHANGED verdict

Decide(m, d) ==
    /\ m \in round /\ verdict[m] = Undecided
    /\ verdict' = [verdict EXCEPT ![m] = d]
    /\ UNCHANGED <<queue, round>>

Settle(m) ==
    /\ m \in round /\ queue[m] = "ours"
    /\ verdict[m] \in {"complete", "deadletter", "abandon"}
    /\ queue' = [queue EXCEPT ![m] = CASE verdict[m] = "complete" -> "completed"
                                       [] verdict[m] = "deadletter" -> "deadlettered"
                                       [] verdict[m] = "abandon" -> "ready"]
    /\ UNCHANGED <<round, verdict>>

Finish(m) ==
    /\ m \in round /\ verdict[m] # Undecided
    /\ round' = round \ {m}
    /\ verdict' = [verdict EXCEPT ![m] = Undecided]
    /\ UNCHANGED queue

\* The process dies with the round.
Forget ==
    /\ round' = {}
    /\ verdict' = [m \in Msgs |-> Undecided]
    /\ UNCHANGED queue

\* The broker: locks expire, other consumers receive and settle.
Elsewhere(m) ==
    /\ \/ queue[m] \in {"ours", "elsewhere"} /\ queue' = [queue EXCEPT ![m] = "ready"]
       \/ queue[m] = "ready"     /\ queue' = [queue EXCEPT ![m] = "elsewhere"]
       \/ queue[m] = "elsewhere" /\ queue' = [queue EXCEPT ![m] = "gone"]
    /\ UNCHANGED <<round, verdict>>

Next == \/ Accept \/ Forget
        \/ \E m \in Msgs : \/ \E d \in Disposition : Decide(m, d)
                           \/ Settle(m) \/ Finish(m) \/ Elsewhere(m)

Spec == Init /\ [][Next]_vars

-----------------------------------------------------------------------------
(* What a consumer may rely on *)

\* Nothing is accepted while a message of the last round is not finished
\* (receiver.go:286-305).
RoundsApart == [][round' \subseteq round \/ round = {}]_vars

\* A decision belongs to a message of the round, and stands until the message
\* is finished (receiver.go:179-180).
DecidedInRound == \A m \in Msgs : verdict[m] # Undecided => m \in round

VerdictStands ==
    [][\A m \in Msgs : verdict[m] # Undecided /\ m \in round' =>
            verdict'[m] = verdict[m]]_vars

\* A message leaves the queue on a decision to do so, made in this round
\* (disposition.go:43-58), or by another consumer, and does not come back.
SettledByDecision ==
    [][\A m \in Msgs : queue'[m] # queue[m] =>
        /\ queue'[m] = "completed" => m \in round /\ verdict[m] = "complete"
        /\ queue'[m] = "deadlettered" => m \in round /\ verdict[m] = "deadletter"
        /\ queue[m] \notin {"completed", "deadlettered", "gone"}]_vars

Promises ==
    RoundsApart /\ []DecidedInRound /\ VerdictStands /\ SettledByDecision

=============================================================================
