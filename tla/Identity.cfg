\* Three subjects, two of them with the same staff number; two requests at a time.
SPECIFICATION Spec
CONSTANTS
    ann = ann
    bob = bob
    bobby = bobby
    n1 = n1
    n2 = n2
    c1 = c1
    k1 = k1
    r1 = r1
    r2 = r2
    Subjects = {ann, bob, bobby}
    Staff = {n1, n2}
    Numbers <- MCNumbers
    AdminNames = {bobby, n1}
    Components = {c1}
    Comments = {k1}
    Requests = {r1, r2}
    NoUser = NoUser
SYMMETRY Symmetry
INVARIANTS TypeOK OneAccountEach SessionsBelong AdminsAreListed
PROPERTIES WorkStaysWithPerson LoginKeepsWork
