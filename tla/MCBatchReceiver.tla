-------------------------- MODULE MCBatchReceiver --------------------------
(***************************************************************************)
(* Instance of BatchReceiver for TLC.  Every batch size but 0 is alike.    *)
(***************************************************************************)
EXTENDS BatchReceiver

=============================================================================
