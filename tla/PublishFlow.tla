---------------------------- MODULE PublishFlow ----------------------------
(***************************************************************************)
(* The publish handlers, from the request to Store.Publish, composed with  *)
(* the release lifecycle.                                                  *)
(*                                                                         *)
(* A handler checks the release with separate queries, stores the image    *)
(* and the artifact, reads the release's adp.yaml to merge its own into    *)
(* it, and only then runs Release's Publish, which checks again.  Between  *)
(* any two of these steps other handlers and admins act, and a handler may *)
(* end: refused, cut off, or by a crash.  Nothing stored is taken back.    *)
(***************************************************************************)
EXTENDS Release

CONSTANTS
    Handlers,      \* requests that may be running at once
    Files,         \* contents of artifacts; a file's name has its SHA-256
    Images,        \* contents of icons; an icon's name has the release only
    Uploads,       \* what requests bring: a platform, its artifact, an icon and an
                   \* adp.yaml with the entries its author wrote
    AdpKeys,       \* the places of adp.yaml a download can be named at
    AdpKeysOf,     \* those the market fills for a platform key
    Elsewhere,     \* stands for downloads outside the market
    InPlace        \* whether storing a file again truncates the one that is there
                   \* (local storage) or replaces it when it is complete (S3)

NoFile == 0
NoImage == 0
CutImage == -1   \* a file that was opened for writing and not finished

(* An entry of a manifest: where it sends the installer, the SHA-256 it demands
   and, for the properties only, whether the server wrote it or the author. *)
Entry == [from: Platforms \cup {Elsewhere}, file: Files, bound: BOOLEAN]
NoEntry == [from |-> Elsewhere, file |-> NoFile, bound |-> FALSE]
Manifest == [AdpKeys -> Entry \cup {NoEntry}]
NoManifest == [k \in AdpKeys |-> NoEntry]

ASSUME FlowAssumption ==
    /\ Files \subseteq Nat \ {0} /\ Files # {}
    /\ Images \subseteq Nat \ {0}
    /\ Uploads \subseteq [platform: Platforms, file: Files \cup {NoFile},
                         image: Images \cup {NoImage}, adp: BOOLEAN, own: Manifest]
    /\ \A u \in Uploads : /\ (u.file # NoFile) \in ArtifactChoices
                          /\ \A k \in AdpKeys : ~u.own[k].bound
    /\ AdpKeysOf \in [Platforms -> SUBSET AdpKeys]
    /\ InPlace \in BOOLEAN

VARIABLES
    handler,    \* the running requests
    media,      \* content of media/<type>/<id>/<version>/icon, per release
    files,      \* artifact files in storage, by release, platform and content
    path,       \* the file an artifacts row names
    manifest    \* adp.yaml of a versions row: what each place of it downloads

flowVars == <<handler, media, files, path, manifest>>
allVars == <<vars, flowVars>>

(* A file is "torn" when it was opened again although it was whole, or while
   another request was writing it, and is not complete since; "cut" when it was
   opened, never completed, and nobody wrote it at the time. *)
FileStates == {"absent", "cut", "torn", "whole"}

Stages == {"idle", "pending", "platform", "version",
           "image", "artifact", "writing", "manifest", "commit"}

\* truncated: the file being written has been opened by another request since.
Request == [stage: Stages, version: Versions \cup {NoVersion}, platform: Platforms,
            creator: Creators, file: Files \cup {NoFile}, image: Images \cup {NoImage},
            adp: BOOLEAN, own: Manifest, base: Manifest,
            foundLive: BOOLEAN, truncated: BOOLEAN]

Idle == [stage |-> "idle", version |-> NoVersion, platform |-> Universal,
         creator |-> NoCreator, file |-> NoFile, image |-> NoImage,
         adp |-> FALSE, own |-> NoManifest, base |-> NoManifest,
         foundLive |-> FALSE, truncated |-> FALSE]

FlowInit ==
    /\ Init
    /\ handler = [h \in Handlers |-> Idle]
    /\ media = [v \in Versions |-> NoImage]
    /\ files = [v \in Versions |-> [p \in Platforms |-> [f \in Files |->
                   IF artifacts[v][p] # 0 /\ f = (CHOOSE g \in Files : TRUE)
                   THEN "whole" ELSE "absent"]]]
    /\ path = [v \in Versions |-> [p \in Platforms |->
                   IF artifacts[v][p] # 0 THEN CHOOSE g \in Files : TRUE ELSE NoFile]]
    /\ manifest = [v \in Versions |-> NoManifest]

-----------------------------------------------------------------------------
(* The order of the handler's work: an absent part is skipped. *)

AfterArtifact(r) == IF r.adp THEN "manifest" ELSE "commit"
AfterImage(r) == IF r.file # NoFile THEN "artifact" ELSE AfterArtifact(r)
AfterChecks(r) == IF r.image # NoImage THEN "image" ELSE AfterImage(r)

Advance(h, stage) == handler' = [handler EXCEPT ![h].stage = stage]
End(h) == handler' = [handler EXCEPT ![h] = Idle]

\* ValidateRelease's first query: the item row does not forbid the release.
ItemAllows(v, c) == OwnerAllows(c) /\ (item.published => Newer(v, item.latest))

(* A request has been read and validated by itself (multipart with any of the
   three files, or JSON), and the first query lets it pass. *)
Receive(h) ==
    /\ handler[h].stage = "idle"
    /\ \E v \in Versions, c \in Publishers, u \in Uploads :
          /\ ItemAllows(v, c)
          /\ handler' = [handler EXCEPT ![h] =
                [Idle EXCEPT !.stage = "pending", !.version = v, !.creator = c,
                             !.platform = u.platform, !.file = u.file,
                             !.image = u.image, !.adp = u.adp, !.own = u.own]]
    /\ UNCHANGED <<vars, media, files, path, manifest>>

\* Second query: the newest pending release.
CheckPending(h) ==
    LET r == handler[h] IN
    /\ r.stage = "pending"
    /\ \A w \in NewestPending : w = r.version /\ ~DifferentCreators(versions[w].creator, r.creator)
    /\ handler' = [handler EXCEPT
          ![h].stage = IF NewestPending = {} THEN "version" ELSE "platform",
          ![h].foundLive = versions[r.version].published]
    /\ UNCHANGED <<vars, media, files, path, manifest>>

\* Third query, when the release is pending: has the platform been uploaded?
CheckPlatform(h) ==
    LET r == handler[h] IN
    /\ r.stage = "platform"
    /\ platforms[r.version][r.platform].content = 0
    /\ Advance(h, AfterChecks(r))
    /\ UNCHANGED <<vars, media, files, path, manifest>>

\* Mutant: a published version passes.
CheckVersionAny(h) ==
    LET r == handler[h] IN
    /\ r.stage = "version"
    /\ handler' = [handler EXCEPT ![h].stage = AfterChecks(r),
                                  ![h].foundLive = versions[r.version].published]
    /\ UNCHANGED <<vars, media, files, path, manifest>>
\* Third query, when nothing is pending: is the version out already?
CheckVersion(h) ==
    LET r == handler[h] IN
    /\ r.stage = "version"
    /\ ~versions[r.version].published
    /\ handler' = [handler EXCEPT ![h].stage = AfterChecks(r), ![h].foundLive = FALSE]
    /\ UNCHANGED <<vars, media, files, path, manifest>>

-----------------------------------------------------------------------------
(* Storage *)

(* saveMarketImage: the name is the release's (and the kind of image's: one kind
   is modelled), so a second upload overwrites the first; a copy into the file in
   place that is cut off leaves what was written. *)
StoreImage(h) ==
    LET r == handler[h] IN
    /\ r.stage = "image"
    /\ \/ /\ media' = [media EXCEPT ![r.version] = r.image]
          /\ handler' = [handler EXCEPT ![h].stage = AfterImage(r), ![h].image = NoImage,
                                        ![h].foundLive = FALSE]
       \/ /\ InPlace
          /\ media' = [media EXCEPT ![r.version] = CutImage]
          /\ End(h)
    /\ UNCHANGED <<vars, files, path, manifest>>

\* The requests that are writing the file a request brings.
WritersOf(r) ==
    {g \in Handlers : /\ handler[g].stage = "writing" /\ handler[g].version = r.version
                      /\ handler[g].platform = r.platform /\ handler[g].file = r.file}

(* saveAndValidateArtifact stores before the transaction, under a name that has
   the content's hash.  copyFile's os.Create: a file that is there is truncated,
   even one that a row names or that another request is writing. *)
OpenArtifact(h) ==
    LET r == handler[h]
        stored == files[r.version][r.platform][r.file]
        state == IF stored \in {"torn", "whole"} \/ WritersOf(r) # {} THEN "torn" ELSE "cut"
    IN
    /\ r.stage = "artifact"
    /\ files' = IF InPlace THEN [files EXCEPT ![r.version][r.platform][r.file] = state]
                ELSE files
    /\ handler' = [g \in Handlers |->
                      IF g = h THEN [r EXCEPT !.stage = "writing"]
                      ELSE [handler[g] EXCEPT !.truncated = @ \/ g \in WritersOf(r)]]
    /\ UNCHANGED <<vars, media, path, manifest>>

\* Mutant: the answer of Put is not looked at.
WriteArtifactUnchecked(h) ==
    LET r == handler[h] IN
    /\ r.stage = "writing"
    /\ Advance(h, AfterArtifact(r))
    /\ UNCHANGED <<vars, media, files, path, manifest>>
(* io.Copy, or S3's PUT, is through.  All who write one file write the same
   bytes, so the file is whole; except that whoever truncated it meanwhile may
   not have filled it up again, and may never do so. *)
WriteArtifact(h) ==
    LET r == handler[h]
        stored == files[r.version][r.platform][r.file]
    IN
    /\ r.stage = "writing"
    /\ \E state \in {"whole"} \cup (IF InPlace /\ r.truncated THEN {stored} ELSE {}) :
          files' = [files EXCEPT ![r.version][r.platform][r.file] = state]
    /\ handler' = [handler EXCEPT ![h].stage = AfterArtifact(r), ![h].truncated = FALSE]
    /\ UNCHANGED <<vars, media, path, manifest>>

-----------------------------------------------------------------------------
(* The manifest *)

\* Mutant: the download is named by the ADP key.
BoundByKey(r) ==
    [k \in AdpKeys |-> IF k \in AdpKeysOf[r.platform] /\ r.file # NoFile
                       THEN [from |-> k, file |-> r.file, bound |-> TRUE] ELSE r.own[k]]
(* bindADPArtifact: the uploaded file, at every ADP key of its platform in the
   package bound to it; what the author wrote elsewhere stays. *)
Bound(r) ==
    [k \in AdpKeys |-> IF k \in AdpKeysOf[r.platform] /\ r.file # NoFile
                       THEN [from |-> r.platform, file |-> r.file, bound |-> TRUE]
                       ELSE r.own[k]]

SameDownload(d, e) == d.from = e.from /\ d.file = e.file

\* mergeADPPackage refuses a key that both have with different values.
Conflict(a, b) ==
    \E k \in AdpKeys : a[k] # NoEntry /\ b[k] # NoEntry /\ ~SameDownload(a[k], b[k])

\* Mutant: the upload's own document replaces the stored one.
MergedReplaces(a, b) == b
\* mergeADPDocuments, of documents without a conflict.
Merged(a, b) == [k \in AdpKeys |-> IF a[k].bound \/ b[k] = NoEntry THEN a[k] ELSE b[k]]

(* normalizePublishADP: reads the manifest the versions row has now, pending or
   not, and merges; the result is written by the transaction, later. *)
ReadManifest(h) ==
    LET r == handler[h] IN
    /\ r.stage = "manifest"
    /\ ~Conflict(manifest[r.version], Bound(r))
    /\ handler' = [handler EXCEPT ![h].stage = "commit", ![h].base = manifest[r.version]]
    /\ UNCHANGED <<vars, media, files, path, manifest>>

(* Store.Publish, with the file and the manifest the handler brings.  Without
   an adp.yaml of its own the upload clears the release's. *)
Commit(h) ==
    LET r == handler[h] IN
    /\ r.stage = "commit"
    /\ Publish(r.version, r.platform, r.creator, r.file # NoFile)
    /\ path' = IF r.file = NoFile THEN path
               ELSE [path EXCEPT ![r.version][r.platform] = r.file]
    /\ manifest' = [manifest EXCEPT ![r.version] =
                      IF r.adp THEN Merged(r.base, Bound(r)) ELSE NoManifest]
    /\ End(h)
    /\ UNCHANGED <<media, files>>

(* A request ends without a result: a check refuses it, a file is missing or
   malformed, the manifests conflict, its context is cancelled. *)
Refuse(h) ==
    /\ handler[h].stage # "idle"
    /\ End(h)
    /\ UNCHANGED <<vars, media, files, path, manifest>>

\* A crash ends every request; start-up runs the backfills.
CrashAndRestart ==
    /\ handler' = [h \in Handlers |-> Idle]
    /\ Restart
    /\ UNCHANGED <<media, files, path, manifest>>

Admin ==
    /\ (\E status \in Decisions : UpdateReview(status)) \/ Unpublish
    /\ UNCHANGED flowVars

FlowNext ==
    \/ \E h \in Handlers :
          \/ Receive(h) \/ CheckPending(h) \/ CheckPlatform(h)
          \/ CheckVersion(h) \/ StoreImage(h) \/ OpenArtifact(h)
          \/ WriteArtifact(h) \/ ReadManifest(h) \/ Commit(h) \/ Refuse(h)
    \/ Admin
    \/ CrashAndRestart

FlowSpec == FlowInit /\ [][FlowNext]_allVars

-----------------------------------------------------------------------------
(* Properties *)

FlowTypeOK ==
    /\ handler \in [Handlers -> Request]
    /\ media \in [Versions -> Images \cup {NoImage, CutImage}]
    /\ files \in [Versions -> [Platforms -> [Files -> FileStates]]]
    /\ path \in [Versions -> [Platforms -> Files \cup {NoFile}]]
    /\ manifest \in [Versions -> Manifest]

\* Stored as a whole; in place, a second upload of it may spoil it since.
IsStored(v, p, f) ==
    files[v][p][f] = "whole" \/ (InPlace /\ files[v][p][f] = "torn")

(* Whatever was refused, cut off or lost in a crash: a row never names a file
   that was not stored, and what the server writes into a manifest never sends an
   installer to a download without a row or with a hash no stored file has.
   Files are written before the transaction and never removed; the reverse order
   would break it.  With S3 the file is whole; in local storage another upload of
   the very same bytes may have truncated it, and that is the only way. *)
NamedFilesAreStored ==
    \A v \in Versions :
        /\ \A p \in Platforms :
              artifacts[v][p] # 0 => path[v][p] # NoFile /\ IsStored(v, p, path[v][p])
        /\ \A k \in AdpKeys : manifest[v][k].bound =>
              LET e == manifest[v][k] IN
              /\ e.from \in Platforms
              /\ artifacts[v][e.from] # 0 /\ IsStored(v, e.from, e.file)

(* A published release keeps its manifest and the names of its files, whatever
   late uploads bring.  The file of that name changes only in the hands of a
   request that brings it and passed its checks before the approval: it finds the
   file there and, in place, truncates and writes it once more. *)
LiveFilesFixed ==
    [][\A v \in Versions : versions[v].published =>
          /\ manifest'[v] = manifest[v]
          /\ \A p \in Platforms :
                /\ path'[v][p] = path[v][p]
                /\ LET f == path[v][p] IN
                   f # NoFile /\ files'[v][p][f] # files[v][p][f] =>
                      /\ InPlace
                      /\ \E h \in Handlers :
                            /\ handler[h].stage \in {"artifact", "writing"}
                            /\ handler[h].version = v /\ handler[h].platform = p
                            /\ handler[h].file = f /\ ~handler[h].foundLive]_allVars

\* The requests for a release that their last check has let through, or may.
PassedChecks(v) ==
    {h \in Handlers : /\ handler[h].version = v
                      /\ handler[h].stage \notin {"idle", "pending", "version"}}

(* A published release comes to rest: once the requests that had passed their
   checks when it was approved have ended, nothing stored under its name changes
   any more (icon, files, manifest), and no request gets that far again. *)
LiveReleaseSettles ==
    [][\A v \in Versions : versions[v].published /\ PassedChecks(v) = {} =>
          /\ media'[v] = media[v] /\ files'[v] = files[v]
          /\ path'[v] = path[v] /\ manifest'[v] = manifest[v]
          /\ PassedChecks(v)' = {}]_allVars

(* Two uploads of one platform may both pass ValidateRelease; the second to
   commit is refused, so what the creator was told is stored stays in review. *)
AcceptedUploadKept ==
    [][\A v \in Versions, p \in Platforms :
          /\ versions[v].status = "pending" /\ versions'[v].status = "pending"
          /\ platforms[v][p].content \notin {0, Backfilled}
          => /\ platforms'[v][p].content = platforms[v][p].content
             /\ path'[v][p] = path[v][p]]_allVars

(* An upload that brings an adp.yaml and merged the manifest the release still
   has loses and changes no entry of it, the author's among them.  Two uploads that read it
   before either commits are not covered: the later one wins. *)
UploadsMerge ==
    [][\A h \in Handlers :
          LET r == handler[h] IN
          /\ r.stage = "commit" /\ r.adp /\ submissions' # submissions
          /\ handler'[h].stage = "idle"
          /\ r.base = manifest[r.version]
          => \A k \in AdpKeys : r.base[k] # NoEntry =>
                SameDownload(manifest'[r.version][k], r.base[k])]_allVars
=============================================================================
