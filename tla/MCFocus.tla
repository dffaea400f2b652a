------------------------------- MODULE MCFocus --------------------------------
(* The focus: a root window, a frame, and a client in each of the two.     *)
EXTENDS Focus, TLC

CONSTANTS root, f, a, b

MCFrames == {root, f}
MCClients == {a, b}
MCHome == root :> None @@ f :> root @@ a :> f @@ b :> root
===============================================================================
