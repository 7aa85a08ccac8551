\* Two admins; one component with an active release and one update.
SPECIFICATION DeskSpec
CONSTANTS
    v1 = v1
    v2 = v2
    universal = universal
    alice = alice
    nobody = nobody
    ann = ann
    ben = ben
    Versions = {v1, v2}
    Malformed = {}
    Rank <- MCRank
    Platforms = {universal}
    Universal = universal
    Publishers = {alice}
    NoCreator = nobody
    NoVersion = NoVersion
    LegacyReleases = {}
    LiveReviews = {"pending", "approved", "rejected"}
    ArtifactChoices = {TRUE}
    MaxSubmissions = 2
    Admins = {ann, ben}
PROPERTY RejectionSparesActiveRelease
