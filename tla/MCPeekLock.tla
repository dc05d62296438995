----------------------------- MODULE MCPeekLock -----------------------------
(***************************************************************************)
(* An instance of PeekLock: a lock of 8, one unit of waiting and of delay, *)
(* two of scheduling, and configurations on both sides of the conditions   *)
(* RenewalFits and DeadlineFits.                                           *)
(***************************************************************************)
EXTENDS PeekLock

\* 4 just fits (1 + 2 + 4 + 1 = 8), 2 also survives a failed renewal
\* (1 + 2 + 2 + 2 + 1 = 8), 3 leaves 1 to spare and 5 does not fit.
RenewConfigs ==
    {[batch |-> FALSE, renew |-> TRUE, renewTime |-> r[1], known |-> TRUE,
      skew |-> 0, obeys |-> FALSE, mayFail |-> r[2]] :
        r \in {<<2, TRUE>>, <<3, FALSE>>, <<4, FALSE>>, <<5, FALSE>>}}

\* A fixed timeout of 7 just fits (1 + 7 = 8), one of 8 does not.  Without
\* it there is no renewTime to tell apart.
DeadlineConfigs ==
    {c \in [batch : BOOLEAN, renew : {FALSE}, renewTime : {7, 8},
            known : BOOLEAN, skew : {-1, 0, 2}, obeys : BOOLEAN,
            mayFail : {FALSE}] :
        /\ c.batch => ~c.known
        /\ c.known => c.renewTime = 8}

AllConfigs == RenewConfigs \cup DeadlineConfigs

=============================================================================
