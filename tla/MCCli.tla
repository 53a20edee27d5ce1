------------------------------- MODULE MCCli -------------------------------
(* Two of three files have the same name. *)
EXTENDS Cli, TLC

CONSTANTS f1, f2, f3

SavedNames == (f1 :> "a") @@ (f2 :> "a") @@ (f3 :> "b")
============================================================================
