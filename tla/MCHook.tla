------------------------------- MODULE MCHook -------------------------------
(* One fiber that reads twice, one that reads or connects. *)
EXTENDS Hook, TLC

CONSTANTS f1, f2

MCOps == (f1 :> {<<"io", "READ">>})
           @@ (f2 :> {<<"io", "READ">>, <<"connect", "WRITE">>})
MCMaxCalls == (f1 :> 2) @@ (f2 :> 1)
=============================================================================
