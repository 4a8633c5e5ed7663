SPECIFICATION Spec
CONSTANTS
    Credentials = {c1, c2}
    name = name
    inner = inner
    outer = outer
    ca = ca
    other = other
    Names = {name}
    Addresses = {inner, outer}
    Blocked = {inner}
    Bracketed = {inner}
    Authorities = {ca, other}
    Calls = {k1, k2}
    Databases = {d1}
    Offers <- MCOffers
    Null = Null
SYMMETRY Symmetry
INVARIANTS OnlyOptedInReachPrivate ReachesOwnHost TrustsOwnAuthority
