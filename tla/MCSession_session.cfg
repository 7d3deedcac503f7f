CONSTANTS
    Loads = {l}
    Writes = {w}
    Checks = {c1, c2}
    Logouts = {o1, o2}
    Accounts = {alice, bob}
    Nobody = Nobody
    MaxGrant = 2
    MaxQueue = 2
    Events = {"own", "sibling", "signin", "signout", "lose", "timeout"}
SPECIFICATION Spec
VIEW UpToGenerations
SYMMETRY Alike
INVARIANTS SignOutEnds ShowsOnlyMine PostsAsAuthor NeverStuck NothingWaitsForever
PROPERTIES SignedOutStays
