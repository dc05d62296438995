------------------------------ MODULE Counter ------------------------------
(***************************************************************************)
(* What the Storer promises to clients that each read the number in a blob *)
(* and write the next one, however many requests they make for it: a call  *)
(* takes effect in one step, at most once, and no other call's effect is   *)
(* lost.  Only a client that may have to create the blob can empty it.     *)
(***************************************************************************)
EXTENDS Integers

CONSTANT Clients

VARIABLES
    value,      \* the number in the blob
    trying,     \* the clients in a call that has had no effect yet
    creators    \* the clients that may create the blob

vars == <<value, trying, creators>>

TypeOK == value \in Nat /\ trying \subseteq Clients /\ creators \subseteq Clients

Init == value = 0 /\ trying = {} /\ creators \in SUBSET Clients

Begin(c) ==
    /\ c \notin trying /\ trying' = trying \cup {c}
    /\ UNCHANGED <<value, creators>>

Increment(c) ==
    /\ c \in trying /\ trying' = trying \ {c}
    /\ value' = value + 1
    /\ UNCHANGED creators

GiveUp(c) ==
    /\ c \in trying /\ trying' = trying \ {c}
    /\ UNCHANGED <<value, creators>>

\* The blob is created as an empty one, by a call that goes on or gives up.
Wipe(c) ==
    /\ c \in trying \cap creators /\ value' = 0
    /\ trying' = trying \/ trying' = trying \ {c}
    /\ UNCHANGED creators

Next == \E c \in Clients : Begin(c) \/ Increment(c) \/ GiveUp(c) \/ Wipe(c)

Spec == Init /\ [][Next]_vars

=============================================================================
