------------------------------ MODULE MCSender ------------------------------
(***************************************************************************)
(* Instance of Sender for TLC: a limit of one unit, and messages at the    *)
(* limit and just above it.                                                *)
(***************************************************************************)
EXTENDS Sender, TLC

AtTheLimit == {QueueLimit, QueueLimit + 1}

Symmetry == Permutations(Procs)

=============================================================================
