\* Three requests; the provider answers or refuses every discovery in the end.
SPECIFICATION AnsweringSpec
CONSTANTS
    Requests = {r1, r2, r3}
    Free = Free
INVARIANTS TypeOK ReadyNeverAsks
PROPERTIES AllAnswered LoginRecovers
