\* One user: two requests for tokens, two handlers of its event and two edits
\* of its profile at once; three pairs of tokens, so that a token which two
\* requests exchanged is followed by another.
SPECIFICATION Spec
CONSTANTS
    Users = {u1}
    Requests = {r1, r2}
    Workers = {w1, w2}
    Editors = {e1, e2}
    Names = {n1}
    Blank = Blank
    NoUser = NoUser
    MaxTokens = 3
SYMMETRY MCSymmetry
INVARIANTS
    AccountsInv
    ReplayNeedsRace
    LogoutHolds
    EditsHold
CHECK_DEADLOCK FALSE
