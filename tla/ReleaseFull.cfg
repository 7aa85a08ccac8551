\* Admins do anything, submissions come from two creators and the admin token.
SPECIFICATION Spec
CONSTANTS
    v1 = v1
    v2 = v2
    v3 = v3
    weird = weird
    universal = universal
    linux = linux
    alice = alice
    bob = bob
    nobody = nobody
    Versions = {v1, v2, weird}
    Malformed <- MCMalformed
    Rank <- MCRank
    Platforms = {universal, linux}
    Universal = universal
    Publishers = {alice, nobody}
    NoCreator = nobody
    NoVersion = NoVersion
    LegacyReleases = {v1, v2}
    LiveReviews = {"pending", "approved", "rejected"}
    ArtifactChoices = {TRUE, FALSE}
    Identifiers <- MCIdentifiers
    MaxInt = 10
    MaxSubmissions = 3
INVARIANTS TypeOK ItemMirrorsLatest AtMostOnePending PublishedIsApproved CurrentReleaseRestorable AuditAgrees
PROPERTIES CatalogChangesOnlyByDecision PublishedReleaseImmutable
