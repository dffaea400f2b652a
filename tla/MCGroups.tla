------------------------------ MODULE MCGroups ------------------------------
(* A small instance of Groups: a client window and its dialog, which can be  *)
(* detached to the workspace, and another member of the workspace.           *)
EXTENDS Groups
CONSTANTS ws, cw, win, dlg, flt
MCRegions == {win, dlg, flt}
MCAsked ==
    (win :> {<<cw, "bottom">>})
    @@ (dlg :> {<<cw, "modal">>, <<cw, "transient">>})
    @@ (flt :> {<<ws, "bottom">>, <<ws, "normal">>})
\* Sound for safety: windows are alike.
Alike == Permutations(Windows)
=============================================================================
