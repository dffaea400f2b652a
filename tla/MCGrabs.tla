------------------------------- MODULE MCGrabs -------------------------------
(* A small instance of Grabs: two frames, a client window, two menus.        *)
EXTENDS Grabs
CONSTANTS root, f1, f2, c, m1, m2
Button(p, d, k) == [press |-> p, drag |-> d, click |-> k]
\* The default bindings of frames and of menus, and less usual ones.
MCButtons ==
    {Button("none", "moveres", "none"), Button("moveres", "none", "kbresize"),
     Button("none", "tab", "none"), Button("pmenu", "none", "none"),
     Button("kbresize", "tab", "none"), Button("none", "kbresize", "none")}
=============================================================================
