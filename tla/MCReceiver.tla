----------------------------- MODULE MCReceiver -----------------------------
(***************************************************************************)
(* Instances of Receiver for TLC.                                          *)
(***************************************************************************)
EXTENDS Receiver

\* What well behaved handlers return: an error with every dead letter.
GoodResults == {[d |-> "complete", err |-> FALSE], [d |-> "abandon", err |-> TRUE],
                [d |-> "deadletter", err |-> TRUE]}

\* A dead letter without an error, and a result nobody knows.
RoughResults == {[d |-> "complete", err |-> FALSE], [d |-> "deadletter", err |-> FALSE],
                 [d |-> "unknown", err |-> FALSE]}

OneResult == {[d |-> "complete", err |-> FALSE]}

=============================================================================
