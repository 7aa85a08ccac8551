---------------------------- MODULE CatalogReads ----------------------------
(***************************************************************************)
(* Requests that read the catalog, composed with the release lifecycle.    *)
(*                                                                         *)
(* An answer is put together from several queries, each of which sees the  *)
(* store as it is at that moment; submissions, decisions, withdrawals and  *)
(* restarts fall between them.  A request that counts (a detail view, a    *)
(* download) writes one row by one statement.                              *)
(***************************************************************************)
EXTENDS Release, Sequences

CONSTANTS
    Readers,      \* requests that may be running at once
    NoRequest     \* the operation of a reader without a request

VARIABLES
    reader,    \* the running requests and what their queries found so far
    offered    \* what was public at some moment of each request (for the properties)

readVars == <<reader, offered>>
allVars == <<vars, readVars>>

\* A part of an answer: of which release and submission, for which platform.
Kinds == {"item", "tags", "file", "spec", "release", "listedFile", "listedSpec"}
Part == [kind: Kinds, version: Versions, platform: Platforms,
         content: Content \cup {Backfilled}]
Whole(kind, v, content) ==
    [kind |-> kind, version |-> v, platform |-> Universal, content |-> content]
Of(kind, v, p, content) == [kind |-> kind, version |-> v, platform |-> p, content |-> content]

-----------------------------------------------------------------------------
(* What a query finds.  Every public query joins items and versions on their
   flags and statuses. *)

\* Mutant: the item's flag and status are all that is asked for.
PublicItemOnly(v) == OnShelf
\* v.published AND v.review_status = 'approved' AND i.published AND i.review_status = 'approved'
Public(v) == OnShelf /\ v \in PublishedReleases

FilesOf(v) ==
    {Of("file", v, p, artifacts[v][p]) : p \in {q \in Platforms : artifacts[v][q] # 0}}
SpecsOf(v) ==
    {Of("spec", v, p, platforms[v][p].content) : p \in {q \in Platforms : platforms[v][q].published}}

\* Everything anonymous readers may have at this moment.
PublicParts ==
    IF ~OnShelf THEN {}
    ELSE {Whole(kind, item.latest, item.content) : kind \in {"item", "tags"}}
         \cup UNION {FilesOf(v) \cup SpecsOf(v) \cup {Whole("release", v, versions[v].content)} :
                         v \in PublishedReleases}

-----------------------------------------------------------------------------
(* Requests: the order of their queries *)

\* Store.GetPublic, and ListPublic and ListFavorites for each item: the row, then
\* hydrateItems.  Names of creators and statistics are left out.
Page == <<"item", "tags", "files", "specs">>

Queries ==
    [page     |-> Page,
     versions |-> Page \o <<"releases", "listedFiles", "listedSpecs">>,
     resolve  |-> Page \o <<"ensure", "platform", "artifact">>,
     download |-> <<"latest", "artifact", "record">>,
     package  |-> Page \o <<"latest", "artifact", "manifest", "record">>,
     fetch    |-> <<"path">>,
     view     |-> <<"count">>]
Operations == DOMAIN Queries

MaxAttempts == 3   \* the first and one per entry of detailViewRetryDelays

Request == [op: Operations \cup {NoRequest}, at: 1 .. 9, want: Versions \cup {NoVersion},
            platform: Platforms, version: Versions \cup {NoVersion}, try: 1 .. MaxAttempts,
            found: SUBSET Part, counted: 0 .. MaxAttempts, failed: BOOLEAN]

Idle == [op |-> NoRequest, at |-> 1, want |-> NoVersion, platform |-> Universal,
         version |-> NoVersion, try |-> 1, found |-> {}, counted |-> 0, failed |-> FALSE]

Busy(r) == reader[r].op # NoRequest
Answered(r) == Busy(r) /\ reader[r].at > Len(Queries[reader[r].op])
At(r, query) ==
    /\ Busy(r) /\ ~Answered(r)
    /\ Queries[reader[r].op][reader[r].at] = query

Moves(r, request) == reader' = [reader EXCEPT ![r] = request] /\ UNCHANGED vars
Finds(q, parts) == [q EXCEPT !.at = q.at + 1, !.try = 1, !.found = q.found \cup parts]
Ends(r) == Moves(r, Idle)

\* platformFallbackCandidates; the prefixes of a longer key are left out.
Candidates(p) == IF p = Universal THEN <<Universal>> ELSE <<p, Universal>>

Begin(r) ==
    /\ ~Busy(r)
    /\ \E op \in Operations, p \in Platforms, v \in Versions \cup {NoVersion} :
          /\ op \notin {"resolve", "download", "package"} => p = Universal
          /\ op \notin {"resolve", "download"} => v = NoVersion
          /\ Moves(r, [Idle EXCEPT !.op = op, !.platform = p, !.want = v])

\* The row of items; without one that is public the answer is "not found".
QueryItem(r) ==
    /\ At(r, "item")
    /\ IF OnShelf
       THEN Moves(r, [Finds(reader[r], {Whole("item", item.latest, item.content)})
                        EXCEPT !.version = item.latest])
       ELSE Ends(r)

\* loadTagsForItems, and loadSkillProfilesForItems likewise: found by the item's id alone.
QueryTags(r) ==
    /\ At(r, "tags")
    /\ Moves(r, Finds(reader[r],
          IF OnShelf THEN {Whole("tags", item.latest, item.content)} ELSE {}))

\* Mutant: a file is assigned by the item's id.
QueryFilesById(r) ==
    /\ At(r, "files")
    /\ Moves(r, Finds(reader[r], IF Public(item.latest) THEN FilesOf(item.latest) ELSE {}))
\* loadAssetsForItems: the current release's files, if it is the one of the row read.
QueryFiles(r) ==
    /\ At(r, "files")
    /\ Moves(r, Finds(reader[r], IF item.latest = reader[r].version /\ Public(item.latest)
                                 THEN FilesOf(item.latest) ELSE {}))

\* loadPlatformsForItems, likewise.
QuerySpecs(r) ==
    /\ At(r, "specs")
    /\ Moves(r, Finds(reader[r], IF item.latest = reader[r].version /\ Public(item.latest)
                                 THEN SpecsOf(item.latest) ELSE {}))

\* ListVersions: the published releases, without regard to the item.
QueryReleases(r) ==
    /\ At(r, "releases")
    /\ Moves(r, Finds(reader[r],
          {Whole("release", v, versions[v].content) : v \in PublishedReleases}))

(* loadAssetsForVersions and loadPlatformsForVersions: rows of the releases
   listed, whatever has become of them. *)
Listed(r) == {part.version : part \in {x \in reader[r].found : x.kind = "release"}}
QueryListed(r) ==
    \/ /\ At(r, "listedFiles")
       /\ Moves(r, Finds(reader[r], UNION {{Of("listedFile", v, p, artifacts[v][p]) :
              p \in {q \in Platforms : artifacts[v][q] # 0}} : v \in Listed(r)}))
    \/ /\ At(r, "listedSpecs")
       /\ Moves(r, Finds(reader[r], UNION {{Of("listedSpec", v, p, platforms[v][p].content) :
              p \in {q \in Platforms : platforms[v][q].content # 0}} : v \in Listed(r)}))

\* EnsurePublishedVersion, for a request that names a version.
QueryEnsure(r) ==
    LET want == reader[r].want IN
    /\ At(r, "ensure")
    /\ IF want = NoVersion THEN Moves(r, Finds(reader[r], {}))
       ELSE IF Public(want) THEN Moves(r, [Finds(reader[r], {}) EXCEPT !.version = want])
       ELSE Ends(r)

\* GetArtifact's first query; a version in the request makes it unnecessary.
QueryLatest(r) ==
    LET want == reader[r].want IN
    /\ At(r, "latest")
    /\ IF want # NoVersion THEN Moves(r, [Finds(reader[r], {}) EXCEPT !.version = want])
       ELSE IF OnShelf THEN Moves(r, [Finds(reader[r], {}) EXCEPT !.version = item.latest])
       ELSE Ends(r)

(* GetPlatform and GetArtifact: one query per candidate, the first row wins.
   Without any, resolve answers with what it has and the others not at all. *)
QueryCandidate(r, query, parts(_)) ==
    LET keys == Candidates(reader[r].platform)
        key == keys[reader[r].try]
        v == reader[r].version
        rows == IF Public(v) THEN {part \in parts(v) : part.platform = key} ELSE {}
    IN
    /\ At(r, query)
    /\ IF rows # {} THEN Moves(r, Finds(reader[r], rows))
       ELSE IF reader[r].try < Len(keys) THEN Moves(r, [reader[r] EXCEPT !.try = @ + 1])
       ELSE IF reader[r].op = "resolve" THEN Moves(r, Finds(reader[r], {}))
       ELSE Ends(r)
QueryPlatform(r) == QueryCandidate(r, "platform", SpecsOf)
QueryArtifact(r) == QueryCandidate(r, "artifact", FilesOf)

\* GetADPYAML, for the version of the file; without one the package has none.
QueryManifest(r) ==
    LET v == reader[r].version IN
    /\ At(r, "manifest")
    /\ Moves(r, Finds(reader[r],
          IF Public(v) THEN {Whole("release", v, versions[v].content)} ELSE {}))

\* EnsurePublishedArtifactPath: any file whose release is public is served.
QueryPath(r) ==
    /\ At(r, "path")
    /\ \/ \E v \in Versions : Public(v) /\ \E file \in FilesOf(v) :
             Moves(r, Finds(reader[r], {file}))
       \/ Ends(r)

\* RecordDownload: one INSERT, whose failure nobody looks at.
Record(r) ==
    /\ At(r, "record")
    /\ \E n \in {0, 1} : Moves(r, [Finds(reader[r], {}) EXCEPT !.counted = @ + n])

-----------------------------------------------------------------------------
(* The detail view counter *)

Fails(request) == [request EXCEPT !.at = @ + 1, !.failed = TRUE]

\* Mutant: any error is tried again.
CountRetriesAll(r) ==
    LET q == reader[r] IN
    /\ At(r, "count")
    /\ \/ OnShelf /\ Moves(r, [Finds(q, {Whole("item", item.latest, item.content)})
                                  EXCEPT !.counted = @ + 1])
       \/ ~OnShelf /\ Ends(r)
       \/ \E n \in {0, IF OnShelf THEN 1 ELSE 0} :
             Moves(r, [(IF q.try < MaxAttempts THEN [q EXCEPT !.try = @ + 1] ELSE Fails(q))
                         EXCEPT !.counted = @ + n])
\* Mutant: one attempt more than there are delays.
CountRetriesPast(r) ==
    LET q == reader[r] IN
    /\ At(r, "count")
    /\ \/ OnShelf /\ Moves(r, [Finds(q, {Whole("item", item.latest, item.content)})
                                  EXCEPT !.counted = @ + 1])
       \/ ~OnShelf /\ Ends(r)
       \/ q.try <= MaxAttempts /\ Moves(r, [q EXCEPT !.try = @ + 1])
(* IncrementDetailViewCount: one UPDATE of a public item, tried again while the
   database is busy, in which case it has changed nothing.  Any other error, the
   deadline among them, ends it, and whether it was applied is not known. *)
Count(r) ==
    LET q == reader[r] IN
    /\ At(r, "count")
    /\ \/ OnShelf /\ Moves(r, [Finds(q, {Whole("item", item.latest, item.content)})
                                  EXCEPT !.counted = @ + 1])
       \/ ~OnShelf /\ Ends(r)
       \/ q.try < MaxAttempts /\ Moves(r, [q EXCEPT !.try = @ + 1])
       \/ \E n \in {0, IF OnShelf THEN 1 ELSE 0} : Moves(r, [Fails(q) EXCEPT !.counted = @ + n])

-----------------------------------------------------------------------------

\* The answer is written and the request over; its client may also be gone sooner.
Leave(r) == Busy(r) /\ Ends(r)

Query(r) ==
    \/ QueryItem(r) \/ QueryTags(r) \/ QueryFiles(r) \/ QuerySpecs(r)
    \/ QueryReleases(r) \/ QueryListed(r) \/ QueryEnsure(r) \/ QueryLatest(r)
    \/ QueryPlatform(r) \/ QueryArtifact(r) \/ QueryManifest(r) \/ QueryPath(r)
    \/ Record(r) \/ Count(r)

ReleaseSteps ==
    \/ Submit /\ UNCHANGED reader
    \/ (\E status \in Decisions : UpdateReview(status)) /\ UNCHANGED reader
    \/ Unpublish /\ UNCHANGED reader
    \/ Restart /\ reader' = [r \in Readers |-> Idle]

\* What was public since a request began grows with every state it lives through.
Witness ==
    offered' = [r \in Readers |-> IF reader'[r].op = NoRequest THEN {}
                                  ELSE offered[r] \cup PublicParts']

ReadInit ==
    /\ Init
    /\ reader = [r \in Readers |-> Idle]
    /\ offered = [r \in Readers |-> {}]

ReadNext ==
    /\ (\E r \in Readers : Begin(r) \/ Query(r) \/ Leave(r)) \/ ReleaseSteps
    /\ Witness

ReadSpec == ReadInit /\ [][ReadNext]_allVars

-----------------------------------------------------------------------------
(* Properties *)

ReadTypeOK ==
    /\ reader \in [Readers -> Request]
    /\ \A r \in Readers : offered[r] \subseteq Part

(* Whatever is approved or withdrawn while a request runs, nothing it answers
   was never public: each row, file, specification and manifest was on the shelf
   at some moment since the request began.  The version list is the exception
   it is in the code: its files and specifications are read without asking
   again, and only belong to a release that was public; a release that is
   withdrawn and submitted anew between the two queries shows unapproved ones. *)
AnswersWerePublic ==
    \A r \in Readers : \A part \in reader[r].found :
        IF part.kind \in {"listedFile", "listedSpec"}
        THEN \E other \in offered[r] : other.kind = "release" /\ other.version = part.version
        ELSE part \in offered[r]

(* The parts of an answer fit: the files and specifications of a page are of
   the version it names, and a file and a specification of one version
   and platform are of one submission, unless that version was
   withdrawn, submitted again and approved while the request ran.  (Tags and
   the skill profile may be of the next release; and where a corrected
   submission may bring no artifact, the file may be of the one before.) *)
Replaced(r, v) ==
    \E old, new \in offered[r] :
        /\ old.kind = "release" /\ old.version = v
        /\ new.kind = "release" /\ new.version = v
        /\ old.content # new.content
AnswersAgree ==
    \A r \in Readers :
        LET found == reader[r].found IN
        /\ \A part \in found : part.kind \in {"file", "spec"}
                               /\ reader[r].op \in {"page", "versions"} =>
              \E row \in found : row.kind = "item" /\ row.version = part.version
        /\ \A file, spec \in found :
              /\ file.kind = "file" /\ spec.kind = "spec"
              /\ file.version = spec.version /\ file.platform = spec.platform
              => file.content = spec.content \/ Replaced(r, file.version)

(* A detail view is counted once when the client is told so, never for an item
   that was not public, and at most once when it is told of an error, however
   busy the database was; a download at most once. *)
CountedOnce ==
    \A r \in Readers :
        LET q == reader[r] IN
        /\ q.counted <= 1
        /\ q.op = "view" /\ Answered(r) /\ ~q.failed => q.counted = 1
        /\ q.counted = 1 => \E part \in offered[r] : part.kind \in {"item", "file"}
=============================================================================
