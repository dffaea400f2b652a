SPECIFICATION Spec
CONSTANTS
    ws = ws
    cw = cw
    GroupsWS = {ws}
    GroupsCW = {cw}
    Windows = {v1, v2}
    win = win
    dlg = dlg
    flt = flt
    Regions <- MCRegions
    PHolders = {p1}
    None = None
    Asked <- MCAsked
SYMMETRY Alike
INVARIANTS
    ListsAgree
    ModalKeepsFocus
    ReturnsAsLeft
