\* One creator; only a restart stands between two platform uploads.
SPECIFICATION Spec
CONSTANTS
    v1 = v1
    v2 = v2
    v3 = v3
    weird = weird
    universal = universal
    linux = linux
    alice = alice
    bob = bob
    nobody = nobody
    Versions = {v1, v2, v3, weird}
    Malformed <- MCMalformed
    Rank <- MCRank
    Platforms = {universal, linux}
    Universal = universal
    Publishers = {alice}
    NoCreator = nobody
    NoVersion = NoVersion
    LegacyReleases = {}
    LiveReviews = {"approved"}
    ArtifactChoices = {TRUE}
    Identifiers <- MCIdentifiers
    MaxInt = 10
    MaxSubmissions = 4
INVARIANT PlatformsMergeable
