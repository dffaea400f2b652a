----------------------------- MODULE MCSession -----------------------------
(* A small instance of Session: two windows of one program, which have a    *)
(* class and a command in common but not their leaders and names.           *)
EXTENDS Session
CONSTANTS wa, wb
MCWindows == {wa, wb}
MCAttr ==
    (wa :> [id |-> "a", role |-> None, class |-> "c", cmd |-> "x",
            name |-> "n1"])
    @@ (wb :> [id |-> None, role |-> None, class |-> "c", cmd |-> "x",
               name |-> "n2"])
=============================================================================
