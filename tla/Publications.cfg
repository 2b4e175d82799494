SPECIFICATION Spec
CONSTANTS
    Publication = {p}
    Text = {t1, t2}
    Call = {c1, c2, c3, c4}
    None = None
    Human = Human
    MaxClock = 2
    TokenTTL = 1
    MaxDamage = 1
SYMMETRY CallSymmetry
INVARIANTS
    AtMostOnePost
    NeverInvitesResend
    PublishedIsEvidence
    TokenOneTime
CHECK_DEADLOCK FALSE
