\* One release, local storage, uploads for two platforms that merge or conflict, two
\* requests at once, two accepted.
SPECIFICATION FlowSpec
CONSTANTS
    v1 = v1
    ann = ann
    universal = universal
    mac = mac
    linux = linux
    macos = macos
    linux64 = linux64
    h1 = h1
    h2 = h2
    Versions = {v1}
    Malformed = {}
    Rank <- MCRank
    Platforms = {universal, mac, linux}
    Universal = universal
    Publishers = {ann}
    NoCreator = nobody
    NoVersion = none
    LegacyReleases = {}
    LiveReviews = {"approved"}
    ArtifactChoices = {TRUE}
    MaxSubmissions = 2
    Handlers = {h1, h2}
    Files = {1}
    Images = {1}
    AdpKeys = {macos, linux64}
    Uploads <- MCUploads
    AdpKeysOf <- MCAdpKeysOf
    Elsewhere = elsewhere
    InPlace = TRUE
SYMMETRY Symmetry
INVARIANTS FlowTypeOK NamedFilesAreStored
PROPERTIES LiveFilesFixed LiveReleaseSettles AcceptedUploadKept UploadsMerge
