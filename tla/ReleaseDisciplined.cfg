\* Submissions all carry a creator id; admins never suspend a live component
\* that has nothing pending.
SPECIFICATION Spec
CONSTANTS
    v1 = v1
    v2 = v2
    v3 = v3
    weird = weird
    universal = universal
    linux = linux
    alice = alice
    bob = bob
    nobody = nobody
    Versions = {v1, v2, v3, weird}
    Malformed <- MCMalformed
    Rank <- MCRank
    Platforms = {universal, linux}
    Universal = universal
    Publishers = {alice, bob}
    NoCreator = nobody
    NoVersion = NoVersion
    LegacyReleases = {v1}
    LiveReviews = {"approved"}
    ArtifactChoices = {TRUE}
    Identifiers <- MCIdentifiers
    MaxInt = 10
    MaxSubmissions = 4
SYMMETRY Symmetry
INVARIANTS ShelfShowsNewest OneOwner
PROPERTY ImplementsStorefront
