SPECIFICATION Spec
CONSTANTS
    Browsers = {b1, b2}
    Flows = {f1, f2}
    Requests = {q1, q2}
    Subjects = {s1, s2}
    Emails = {e1, e2, e3}
    Allowed = {e1, e2}
    Null = Null
SYMMETRY IdentitySymmetry
INVARIANTS
    CodeStaysWithBrowser
    UsersWereAllowed
    InactiveStayOut
    SignupsAreRecorded
