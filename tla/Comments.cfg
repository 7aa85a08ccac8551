\* Two users, two comments, two handlers at a time.
SPECIFICATION Spec
CONSTANTS
    alice = alice
    bob = bob
    c1 = c1
    c2 = c2
    r1 = r1
    r2 = r2
    Users = {alice, bob}
    Nobody = Nobody
    Ids = {c1, c2}
    Requests = {r1, r2}
    MaxEdits = 2
INVARIANTS TypeOK OwnWords
PROPERTIES HiddenUntilRestored DeletionSettles
