\* Databases with two releases in any spelling, from three ages of the schema;
\* start-up is cut off twice, anywhere.
SPECIFICATION Spec
CONSTANTS
    ann = ann
    bob = bob
    universal = universal
    mac = mac
    Bases = {1, 2}
    Platforms = {universal, mac}
    Universal = universal
    Users = {ann, bob, nobody}
    Nobody = nobody
    nobody = nobody
    Databases <- MCDatabases
    MaxCrashes = 2
INVARIANTS TypeOK NothingLost CreatorsKept SnapshotComplete
PROPERTY ComesUp
