\* One request of any kind while two releases of two platforms come and go.
SPECIFICATION ReadSpec
CONSTANTS
    v1 = v1
    v2 = v2
    universal = universal
    linux = linux
    alice = alice
    r1 = r1
    Versions = {v1, v2}
    Malformed = {}
    Rank <- MCRank
    Platforms = {universal, linux}
    Universal = universal
    Publishers = {alice}
    NoCreator = nobody
    NoVersion = none
    LegacyReleases = {}
    LiveReviews = {"approved"}
    ArtifactChoices = {TRUE}
    MaxSubmissions = 2
    Readers = {r1}
    NoRequest = norequest
INVARIANTS ReadTypeOK AnswersWerePublic AnswersAgree CountedOnce
