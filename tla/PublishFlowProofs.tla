------------------------- MODULE PublishFlowProofs -------------------------
(***************************************************************************)
(* Proofs about the publish handlers, for any number of requests, uploads, *)
(* files, platforms and releases.                                          *)
(***************************************************************************)
EXTENDS PublishFlow, ReleaseProofs

USE DEF NoFile, NoImage, CutImage, Creators, Content

-----------------------------------------------------------------------------
(* The inductive invariant *)

\* A running request names a release, a creator and parts that Publish takes.
Named(r) ==
    r.stage # "idle" =>
        /\ r.version \in Versions
        /\ r.creator \in Publishers
        /\ (r.file # NoFile) \in ArtifactChoices

\* Past the checks a request has found its release not public: it is
\* pending, or CheckVersion looked.
FoundUnpublished(r) ==
    r.stage \notin {"idle", "pending", "version"} => ~r.foundLive

\* What a request is about to commit fits the manifest it merged with.
MergeFits(r) ==
    r.stage = "commit" /\ r.adp => ~Conflict(r.base, Bound(r))

\* Only a file that is being written is truncated under its writer.
Truncated(r) == r.truncated => r.stage = "writing"

\* No author signs for the server.
AuthorsOwn(r) == \A k \in AdpKeys : ~r.own[k].bound

Sound(r) ==
    /\ r \in Request /\ Named(r) /\ FoundUnpublished(r) /\ MergeFits(r)
    /\ Truncated(r) /\ AuthorsOwn(r)

FlowInv ==
    /\ LifecycleInv
    /\ FlowTypeOK
    /\ \A h \in Handlers : Sound(handler[h])

-----------------------------------------------------------------------------
(* Types *)

LEMMA NoManifestType == NoManifest \in Manifest
BY DEF NoManifest, Manifest

LEMMA IdleType == Idle \in Request
BY NoManifestType, InputsAssumption DEF Idle, Request, Stages

LEMMA BoundType ==
    ASSUME NEW r \in Request
    PROVE  Bound(r) \in Manifest
<1>1. /\ r.own \in Manifest /\ r.platform \in Platforms
      /\ r.file # NoFile => r.file \in Files
    BY DEF Request
<1>2. r.file # NoFile => [from |-> r.platform, file |-> r.file, bound |-> TRUE] \in Entry
    BY <1>1 DEF Entry
<1>3. \A k \in AdpKeys : Bound(r)[k] \in Entry \cup {NoEntry}
    BY <1>1, <1>2 DEF Bound, Manifest
<1> QED
    BY <1>3 DEF Bound, Manifest

LEMMA MergedType ==
    ASSUME NEW a \in Manifest, NEW b \in Manifest
    PROVE  Merged(a, b) \in Manifest
BY DEF Merged, Manifest

\* One stored file changes its state.
LEMMA FilesChanged ==
    ASSUME files \in [Versions -> [Platforms -> [Files -> FileStates]]],
           NEW v \in Versions, NEW p \in Platforms, NEW f,
           NEW state \in FileStates,
           files' = [files EXCEPT ![v][p][f] = state]
    PROVE  /\ files' \in [Versions -> [Platforms -> [Files -> FileStates]]]
           /\ f \in Files => files'[v][p][f] = state
           /\ \A w \in Versions, q \in Platforms, g \in Files :
                 <<w, q, g>> # <<v, p, f>> => files'[w][q][g] = files[w][q][g]
<1> DEFINE byPlatform == [files[v] EXCEPT ![p] = [files[v][p] EXCEPT ![f] = state]]
<1>1. [files[v][p] EXCEPT ![f] = state] \in [Files -> FileStates]
    OBVIOUS
<1>2. byPlatform \in [Platforms -> [Files -> FileStates]]
    BY <1>1
<1>3. files' = [files EXCEPT ![v] = byPlatform]
    OBVIOUS
<1>4. files' \in [Versions -> [Platforms -> [Files -> FileStates]]]
  <2> HIDE DEF byPlatform
  <2> QED
    BY <1>2, <1>3
<1> QED
    BY <1>3, <1>4

\* One request is replaced by another, the others stay.
LEMMA OneMoves ==
    ASSUME handler \in [Handlers -> Request], NEW h \in Handlers, NEW r \in Request,
           handler' = [handler EXCEPT ![h] = r]
    PROVE  /\ handler' \in [Handlers -> Request]
           /\ handler'[h] = r
           /\ \A g \in Handlers \ {h} : handler'[g] = handler[g]
OBVIOUS

LEMMA AfterTypes ==
    ASSUME NEW r \in Request
    PROVE  /\ AfterArtifact(r) \in {"manifest", "commit"}
           /\ AfterImage(r) \in {"artifact", "manifest", "commit"}
           /\ AfterChecks(r) \in {"image", "artifact", "manifest", "commit"}
           /\ r.adp => AfterArtifact(r) = "manifest"
           /\ r.adp => AfterImage(r) # "commit" /\ AfterChecks(r) # "commit"
BY DEF AfterArtifact, AfterImage, AfterChecks, Request

\* A step in which one request moves, soundly, keeps all of them sound.
LEMMA SoundMove ==
    ASSUME FlowInv, NEW h \in Handlers, NEW r,
           handler' = [handler EXCEPT ![h] = r], Sound(r)
    PROVE  /\ handler' \in [Handlers -> Request]
           /\ \A g \in Handlers : Sound(handler'[g])
<1>1. handler \in [Handlers -> Request] /\ r \in Request
    BY DEF FlowInv, FlowTypeOK, Sound
<1>2. /\ handler' \in [Handlers -> Request]
      /\ handler'[h] = r
      /\ \A g \in Handlers \ {h} : handler'[g] = handler[g]
    BY <1>1, OneMoves
<1>3. \A g \in Handlers \ {h} : Sound(handler'[g])
    BY <1>2 DEF FlowInv
<1> QED
    BY <1>2, <1>3

LEMMA IdleSound == Sound(Idle)
BY IdleType DEF Sound, Named, FoundUnpublished, MergeFits, Truncated, AuthorsOwn, Idle, NoManifest,
   NoEntry

\* A request that goes on to a stage other than commit, having found what it
\* had to find, is sound there.
LEMMA StageSound ==
    ASSUME NEW r \in Request, Sound(r), r.stage # "idle", NEW s \in Stages \ {"idle"},
           NEW live \in BOOLEAN, s \notin {"pending", "version"} => ~live,
           s = "commit" => ~r.adp, ~r.truncated
    PROVE  Sound([r EXCEPT !.stage = s, !.foundLive = live])
<1> DEFINE q == [r EXCEPT !.stage = s, !.foundLive = live]
<1>1. /\ q \in Request
      /\ q.stage = s /\ q.foundLive = live
      /\ q.version = r.version /\ q.creator = r.creator /\ q.file = r.file /\ q.adp = r.adp
      /\ q.truncated = r.truncated /\ q.own = r.own
    BY DEF Request
<1>2. Named(q)
    BY <1>1 DEF Sound, Named
<1>3. FoundUnpublished(q) /\ MergeFits(q) /\ Truncated(q) /\ AuthorsOwn(q)
    BY <1>1 DEF Sound, FoundUnpublished, MergeFits, Truncated, AuthorsOwn
<1> QED
    BY <1>1, <1>2, <1>3 DEF Sound

-----------------------------------------------------------------------------
(* Requests before their commit *)

LEMMA ReceiveSound ==
    ASSUME FlowInv, NEW h \in Handlers, Receive(h)
    PROVE  /\ handler' \in [Handlers -> Request]
           /\ \A g \in Handlers : Sound(handler'[g])
<1>1. PICK v \in Versions, c \in Publishers, u \in Uploads :
          handler' = [handler EXCEPT ![h] =
              [Idle EXCEPT !.stage = "pending", !.version = v, !.creator = c,
                           !.platform = u.platform, !.file = u.file,
                           !.image = u.image, !.adp = u.adp, !.own = u.own]]
    BY DEF Receive
<1> DEFINE r == [Idle EXCEPT !.stage = "pending", !.version = v, !.creator = c,
                             !.platform = u.platform, !.file = u.file,
                             !.image = u.image, !.adp = u.adp, !.own = u.own]
<1>2. /\ u \in [platform: Platforms, file: Files \cup {NoFile},
                image: Images \cup {NoImage}, adp: BOOLEAN, own: Manifest]
      /\ (u.file # NoFile) \in ArtifactChoices
      /\ \A k \in AdpKeys : ~u.own[k].bound
    BY FlowAssumption
<1>3. /\ r \in Request
      /\ r.stage = "pending" /\ r.version = v /\ r.creator = c /\ r.file = u.file
      /\ r.truncated = FALSE /\ r.own = u.own
    BY <1>2, NoManifestType DEF Idle, Request, Stages
<1>4. Sound(r)
    BY <1>2, <1>3 DEF Sound, Named, FoundUnpublished, MergeFits, Truncated,
           AuthorsOwn
<1> HIDE DEF r
<1> QED
    BY <1>1, <1>4, SoundMove DEF r

LEMMA CheckPendingSound ==
    ASSUME FlowInv, NEW h \in Handlers, CheckPending(h)
    PROVE  /\ handler' \in [Handlers -> Request]
           /\ \A g \in Handlers : Sound(handler'[g])
<1> DEFINE r == handler[h]
           s == IF NewestPending = {} THEN "version" ELSE "platform"
           live == versions[r.version].published
           q == [r EXCEPT !.stage = s, !.foundLive = live]
<1>1. r \in Request /\ Sound(r) /\ r.stage = "pending" /\ r.version \in Versions
      /\ ~r.truncated
    BY DEF FlowInv, FlowTypeOK, CheckPending, Sound, Named, Truncated
<1>2. live \in BOOLEAN
    BY <1>1 DEF FlowInv, LifecycleInv, TypeOK, VersionRow
<1>3. s = "platform" => ~live
  <2>1. s = "platform" => r.version \in NewestPending
    BY DEF CheckPending
  <2>2. r.version \in NewestPending => versions[r.version].status = "pending"
    BY DEF NewestPending, Pending
  <2> QED
    BY <1>1, <2>1, <2>2 DEF FlowInv, LifecycleInv, PublishedIsApproved
<1>4. s \in Stages \ {"idle"} /\ s # "commit" /\ (s \notin {"pending", "version"} => ~live)
    BY <1>3 DEF Stages
<1>5. handler' = [handler EXCEPT ![h] = q]
    BY DEF CheckPending
<1>6. Sound(q)
  <2> HIDE DEF r, s, live
  <2> QED
    BY <1>1, <1>2, <1>4, StageSound
<1> HIDE DEF q
<1> QED
    BY <1>5, <1>6, SoundMove

LEMMA CheckPlatformSound ==
    ASSUME FlowInv, NEW h \in Handlers, CheckPlatform(h)
    PROVE  /\ handler' \in [Handlers -> Request]
           /\ \A g \in Handlers : Sound(handler'[g])
<1> DEFINE r == handler[h]
           s == AfterChecks(r)
           q == [r EXCEPT !.stage = s, !.foundLive = FALSE]
<1>1. r \in Request /\ Sound(r) /\ r.stage = "platform" /\ r.foundLive = FALSE
      /\ ~r.truncated
    BY DEF FlowInv, FlowTypeOK, CheckPlatform, Sound, FoundUnpublished, Truncated, Request
<1>2. s \in Stages \ {"idle"} /\ (s = "commit" => ~r.adp)
    BY <1>1, AfterTypes DEF Stages
<1>3. q = [r EXCEPT !.stage = s]
    BY <1>1 DEF Request
<1>4. handler' = [handler EXCEPT ![h] = q]
  <2> HIDE DEF q, s
  <2> QED
    BY <1>3 DEF CheckPlatform, Advance, s
<1>5. Sound(q)
  <2> HIDE DEF r, s
  <2> QED
    BY <1>1, <1>2, StageSound
<1> HIDE DEF q
<1> QED
    BY <1>4, <1>5, SoundMove

LEMMA CheckVersionSound ==
    ASSUME FlowInv, NEW h \in Handlers, CheckVersion(h)
    PROVE  /\ handler' \in [Handlers -> Request]
           /\ \A g \in Handlers : Sound(handler'[g])
<1> DEFINE r == handler[h]
           s == AfterChecks(r)
           q == [r EXCEPT !.stage = s, !.foundLive = FALSE]
<1>1. r \in Request /\ Sound(r) /\ r.stage = "version" /\ ~r.truncated
    BY DEF FlowInv, FlowTypeOK, CheckVersion, Sound, Truncated
<1>2. s \in Stages \ {"idle"} /\ (s = "commit" => ~r.adp)
    BY <1>1, AfterTypes DEF Stages
<1>3. handler' = [handler EXCEPT ![h] = q]
    BY DEF CheckVersion
<1>4. Sound(q)
  <2> HIDE DEF r, s
  <2> QED
    BY <1>1, <1>2, StageSound
<1> HIDE DEF q
<1> QED
    BY <1>3, <1>4, SoundMove

\* A request that ends leaves its handler idle.
LEMMA EndSound ==
    ASSUME FlowInv, NEW h \in Handlers, End(h)
    PROVE  /\ handler' \in [Handlers -> Request]
           /\ \A g \in Handlers : Sound(handler'[g])
BY IdleSound, SoundMove DEF End

LEMMA StoreImageSound ==
    ASSUME FlowInv, NEW h \in Handlers, StoreImage(h)
    PROVE  /\ handler' \in [Handlers -> Request]
           /\ \A g \in Handlers : Sound(handler'[g])
<1> DEFINE r == handler[h]
           s == AfterImage(r)
           q == [r EXCEPT !.stage = s, !.image = NoImage, !.foundLive = FALSE]
<1>1. r \in Request /\ Sound(r) /\ r.stage = "image" /\ ~r.truncated
    BY DEF FlowInv, FlowTypeOK, StoreImage, Sound, Truncated
<1>2. CASE End(h)
    BY <1>2, EndSound
<1>3. CASE handler' = [handler EXCEPT ![h] = q]
  <2>1. s \in Stages \ {"idle"} /\ (s = "commit" => ~r.adp)
    BY <1>1, AfterTypes DEF Stages
  <2> DEFINE r2 == [r EXCEPT !.image = NoImage]
  <2>2. /\ r2 \in Request /\ r2.stage = r.stage /\ r2.version = r.version
        /\ r2.creator = r.creator /\ r2.file = r.file /\ r2.adp = r.adp
        /\ r2.foundLive = r.foundLive /\ r2.truncated = r.truncated /\ r2.own = r.own
        /\ q = [r2 EXCEPT !.stage = s, !.foundLive = FALSE]
    BY <1>1 DEF Request
  <2>3. Sound(r2)
    BY <1>1, <2>2 DEF Sound, Named, FoundUnpublished, MergeFits, Truncated,
           AuthorsOwn
  <2>4. Sound([r2 EXCEPT !.stage = s, !.foundLive = FALSE])
    <3> HIDE DEF r, s, r2
    <3> QED
      BY <1>1, <2>1, <2>2, <2>3, StageSound
  <2> HIDE DEF q, r2
  <2> QED
    BY <1>3, <2>2, <2>4, SoundMove
<1> QED
    BY <1>2, <1>3 DEF StoreImage

LEMMA OpenArtifactSound ==
    ASSUME FlowInv, NEW h \in Handlers, OpenArtifact(h)
    PROVE  /\ handler' \in [Handlers -> Request]
           /\ \A g \in Handlers : Sound(handler'[g])
<1>1. ASSUME NEW g \in Handlers
      PROVE  Sound(handler'[g])
  <2> DEFINE r == handler[g]
             q == [r EXCEPT !.stage = "writing", !.foundLive = FALSE]
             t == [r EXCEPT !.truncated = TRUE]
  <2>1. r \in Request /\ Sound(r)
    BY DEF FlowInv, FlowTypeOK
  <2>2. CASE g = h
    <3>1. r.stage = "artifact" /\ r.foundLive = FALSE /\ ~r.truncated
      BY <2>1, <2>2 DEF OpenArtifact, Sound, FoundUnpublished, Truncated, Request
    <3>2. q = [r EXCEPT !.stage = "writing"]
      BY <2>1, <3>1 DEF Request
    <3>3. handler'[g] = q
      <4> HIDE DEF q
      <4> QED
        BY <2>2, <3>2 DEF OpenArtifact
    <3>4. Sound(q)
      <4> HIDE DEF r
      <4> QED
        BY <2>1, <3>1, StageSound DEF Stages
    <3> QED
      BY <3>3, <3>4
  <2>3. CASE g # h /\ g \in WritersOf(handler[h])
    <3>0. handler'[g] = [r EXCEPT !.truncated = @ \/ g \in WritersOf(handler[h])]
      BY <2>3 DEF OpenArtifact
    <3>1. handler'[g] = t
      BY <2>1, <2>3, <3>0 DEF Request
    <3>2. r.stage = "writing"
      BY <2>3 DEF WritersOf
    <3>3. /\ t \in Request /\ t.stage = r.stage /\ t.version = r.version
          /\ t.creator = r.creator /\ t.file = r.file /\ t.foundLive = r.foundLive
          /\ t.own = r.own
      BY <2>1 DEF Request
    <3>4. Sound(t)
      BY <2>1, <3>2, <3>3 DEF Sound, Named, FoundUnpublished, MergeFits, Truncated,
           AuthorsOwn
    <3> QED
      BY <3>1, <3>4
  <2>4. CASE g # h /\ g \notin WritersOf(handler[h])
    <3>1. handler'[g] = [r EXCEPT !.truncated = @ \/ g \in WritersOf(handler[h])]
      BY <2>4 DEF OpenArtifact
    <3>2. handler'[g] = r
      BY <2>1, <2>4, <3>1 DEF Request
    <3> QED
      BY <2>1, <3>2
  <2> QED
    BY <2>2, <2>3, <2>4
<1>2. handler' \in [Handlers -> Request]
  <2>1. \A g \in Handlers : handler'[g] \in Request
    BY <1>1 DEF Sound
  <2>2. DOMAIN handler' = Handlers /\ handler' = [g \in Handlers |-> handler'[g]]
    BY DEF OpenArtifact
  <2> QED
    BY <2>1, <2>2
<1> QED
    BY <1>1, <1>2

LEMMA WriteArtifactSound ==
    ASSUME FlowInv, NEW h \in Handlers, WriteArtifact(h)
    PROVE  /\ handler' \in [Handlers -> Request]
           /\ \A g \in Handlers : Sound(handler'[g])
<1> DEFINE r == handler[h]
           s == AfterArtifact(r)
           r2 == [r EXCEPT !.truncated = FALSE]
           q == [r2 EXCEPT !.stage = s, !.foundLive = FALSE]
<1>1. r \in Request /\ Sound(r) /\ r.stage = "writing" /\ r.foundLive = FALSE
    BY DEF FlowInv, FlowTypeOK, WriteArtifact, Sound, FoundUnpublished, Request
<1>2. s \in Stages \ {"idle"} /\ (s = "commit" => ~r.adp)
    BY <1>1, AfterTypes DEF Stages
<1>3. /\ r2 \in Request /\ r2.stage = r.stage /\ r2.version = r.version
      /\ r2.creator = r.creator /\ r2.file = r.file /\ r2.adp = r.adp
      /\ r2.foundLive = r.foundLive /\ r2.truncated = FALSE /\ r2.own = r.own
      /\ q = [r EXCEPT !.stage = s, !.truncated = FALSE]
    BY <1>1 DEF Request
<1>4. Sound(r2)
    BY <1>1, <1>3 DEF Sound, Named, FoundUnpublished, MergeFits, Truncated,
           AuthorsOwn
<1>5. Sound(q)
  <2> HIDE DEF r, s, r2
  <2> QED
    BY <1>1, <1>2, <1>3, <1>4, StageSound
<1>6. handler' = [handler EXCEPT ![h] = q]
  <2> HIDE DEF q, r2, s
  <2> QED
    BY <1>3 DEF WriteArtifact, s
<1> HIDE DEF q
<1> QED
    BY <1>5, <1>6, SoundMove

LEMMA ReadManifestSound ==
    ASSUME FlowInv, NEW h \in Handlers, ReadManifest(h)
    PROVE  /\ handler' \in [Handlers -> Request]
           /\ \A g \in Handlers : Sound(handler'[g])
<1> DEFINE r == handler[h]
           q == [r EXCEPT !.stage = "commit", !.base = manifest[r.version]]
<1>1. /\ r \in Request /\ Sound(r) /\ r.stage = "manifest"
      /\ r.version \in Versions
      /\ ~Conflict(manifest[r.version], Bound(r))
      /\ handler' = [handler EXCEPT ![h] = q]
    BY DEF FlowInv, FlowTypeOK, ReadManifest, Sound, Named
<1>2. manifest[r.version] \in Manifest
    BY <1>1 DEF FlowInv, FlowTypeOK
<1>3. /\ q \in Request
      /\ q.stage = "commit" /\ q.base = manifest[r.version] /\ q.version = r.version
      /\ q.creator = r.creator /\ q.file = r.file /\ q.platform = r.platform
      /\ q.foundLive = r.foundLive /\ q.own = r.own /\ q.truncated = r.truncated
    BY <1>1, <1>2 DEF Request, Stages
<1>4. Bound(q) = Bound(r)
    BY <1>3 DEF Bound
<1>5. ~r.truncated
    BY <1>1 DEF Sound, Truncated
<1>6. Sound(q)
    BY <1>1, <1>3, <1>4, <1>5 DEF Sound, Named, FoundUnpublished, MergeFits, Truncated,
           AuthorsOwn
<1> HIDE DEF q
<1> QED
    BY <1>1, <1>6, SoundMove

-----------------------------------------------------------------------------
(* Every step *)

\* What the handlers do to the release's rows is what the lifecycle allows.
LEMMA CommitPublishes ==
    ASSUME FlowInv, NEW h \in Handlers, Commit(h)
    PROVE  /\ handler[h] \in Request
           /\ handler[h].version \in Versions
           /\ handler[h].creator \in Publishers
           /\ (handler[h].file # NoFile) \in ArtifactChoices
           /\ Submit
<1>1. /\ handler[h] \in Request
      /\ handler[h].version \in Versions
      /\ handler[h].creator \in Publishers
      /\ (handler[h].file # NoFile) \in ArtifactChoices
    BY DEF FlowInv, Sound, Named, Commit
<1>2. handler[h].platform \in Platforms
    BY <1>1 DEF Request
<1> QED
    BY <1>1, <1>2 DEF Commit, Submit

LEMMA FlowStep ==
    ASSUME FlowInv, [FlowNext]_allVars
    PROVE  [Next]_vars
<1>1. CASE \E h \in Handlers : Commit(h)
    BY <1>1, CommitPublishes DEF Next
<1>2. CASE \E h \in Handlers :
              \/ Receive(h) \/ CheckPending(h) \/ CheckPlatform(h)
              \/ CheckVersion(h) \/ StoreImage(h) \/ OpenArtifact(h)
              \/ WriteArtifact(h) \/ ReadManifest(h) \/ Refuse(h)
    BY <1>2
    DEF Receive, CheckPending, CheckPlatform, CheckVersion, StoreImage, OpenArtifact,
        WriteArtifact, ReadManifest, Refuse
<1>3. CASE Admin
    BY <1>3 DEF Admin, Next
<1>4. CASE CrashAndRestart
    BY <1>4 DEF CrashAndRestart, Next
<1>5. CASE UNCHANGED allVars
    BY <1>5 DEF allVars
<1> QED
    BY <1>1, <1>2, <1>3, <1>4, <1>5 DEF FlowNext

\* A request that opens or writes its artifact changes at most that file's state:
\* a whole or torn one becomes whole or, in place, torn.
LEMMA OneFileWritten ==
    ASSUME FlowInv, NEW h \in Handlers, OpenArtifact(h) \/ WriteArtifact(h)
    PROVE  /\ files' \in [Versions -> [Platforms -> [Files -> FileStates]]]
           /\ \A v \in Versions, p \in Platforms, f \in Files :
                 files'[v][p][f] # files[v][p][f] =>
                     /\ handler[h].version = v /\ handler[h].platform = p
                     /\ handler[h].file = f
                     /\ ~InPlace => files'[v][p][f] = "whole"
                     /\ files[v][p][f] \in {"torn", "whole"} =>
                           files'[v][p][f] \in {"torn", "whole"}
<1> DEFINE r == handler[h]
           v0 == r.version
           p0 == r.platform
           f0 == r.file
           stored == files[v0][p0][f0]
<1>1. /\ files \in [Versions -> [Platforms -> [Files -> FileStates]]]
      /\ v0 \in Versions /\ p0 \in Platforms /\ f0 \in Files \cup {NoFile}
    BY DEF FlowInv, FlowTypeOK, Sound, Named, Request, OpenArtifact, WriteArtifact
<1>2. \/ files' = files
      \/ \E state : /\ files' = [files EXCEPT ![v0][p0][f0] = state]
                    /\ state \in {"cut", "torn", "whole"} \/ state = stored
                    /\ ~InPlace => state = "whole"
                    /\ stored \in {"torn", "whole"} => state \in {"torn", "whole"}
  <2>1. CASE OpenArtifact(h)
    <3>1. CASE InPlace
      <4> DEFINE state == IF stored \in {"torn", "whole"} \/ WritersOf(r) # {}
                          THEN "torn" ELSE "cut"
      <4>1. files' = [files EXCEPT ![v0][p0][f0] = state]
        BY <2>1, <3>1 DEF OpenArtifact
      <4>2. state \in {"cut", "torn"} /\ (stored \in {"torn", "whole"} => state = "torn")
        OBVIOUS
      <4> HIDE DEF state
      <4> QED
        BY <3>1, <4>1, <4>2
    <3>2. CASE ~InPlace
      BY <2>1, <3>2 DEF OpenArtifact
    <3> QED
      BY <3>1, <3>2
  <2>2. CASE WriteArtifact(h)
    <3>1. PICK state \in {"whole"} \cup (IF InPlace /\ r.truncated THEN {stored} ELSE {}) :
              files' = [files EXCEPT ![v0][p0][f0] = state]
      BY <2>2 DEF WriteArtifact
    <3>2. state = "whole" \/ (InPlace /\ state = stored)
      OBVIOUS
    <3> QED
      BY <3>1, <3>2
  <2> QED
    BY <2>1, <2>2
<1> HIDE DEF r, v0, p0, f0
<1>3. CASE files' = files
  BY <1>1, <1>3
<1>4. CASE files' # files
  <2>1. PICK state : /\ files' = [files EXCEPT ![v0][p0][f0] = state]
                     /\ state \in {"cut", "torn", "whole"} \/ state = stored
                     /\ ~InPlace => state = "whole"
                     /\ stored \in {"torn", "whole"} => state \in {"torn", "whole"}
    BY <1>2, <1>4
  <2>2. f0 \in Files
    <3>1. CASE f0 \notin Files
      <4>1. [files[v0][p0] EXCEPT ![f0] = state] = files[v0][p0]
        BY <1>1, <3>1
      <4>2. [files[v0] EXCEPT ![p0] = [files[v0][p0] EXCEPT ![f0] = state]] = files[v0]
        BY <1>1, <4>1
      <4>3. files' = [files EXCEPT ![v0] = files[v0]]
        BY <2>1, <4>2
      <4> QED
        BY <1>1, <1>4, <4>3
    <3> QED
      BY <3>1
  <2>3. state \in FileStates
    BY <1>1, <2>1, <2>2 DEF FileStates
  <2>4. /\ files' \in [Versions -> [Platforms -> [Files -> FileStates]]]
        /\ files'[v0][p0][f0] = state
        /\ \A v \in Versions, p \in Platforms, f \in Files :
              <<v, p, f>> # <<v0, p0, f0>> => files'[v][p][f] = files[v][p][f]
    <3> HIDE DEF stored
    <3> QED
      BY <1>1, <2>1, <2>2, <2>3, FilesChanged
  <2> QED
    BY <2>1, <2>4 DEF r, v0, p0, f0
<1> QED
  BY <1>3, <1>4

LEMMA FlowInitInv == FlowInit => FlowInv
<1> SUFFICES ASSUME FlowInit PROVE FlowInv
    OBVIOUS
<1>1. LifecycleInv
    BY InitInv DEF FlowInit
<1>2. \A h \in Handlers : Sound(handler[h])
    BY IdleSound DEF FlowInit
<1>3. (CHOOSE g \in Files : TRUE) \in Files
    BY FlowAssumption
<1>4. FlowTypeOK
    BY <1>3, IdleType, NoManifestType DEF FlowInit, FlowTypeOK, FileStates
<1> QED
    BY <1>1, <1>2, <1>4 DEF FlowInv

LEMMA FlowNextInv ==
    ASSUME FlowInv, [FlowNext]_allVars
    PROVE  FlowInv'
<1>1. LifecycleInv'
    BY FlowStep, NextInv DEF FlowInv
<1>2. /\ handler' \in [Handlers -> Request]
      /\ \A g \in Handlers : Sound(handler'[g])
  <2>1. CASE \E h \in Handlers : Receive(h) \/ CheckPending(h) \/ CheckPlatform(h)
                                \/ CheckVersion(h)
    BY <2>1, ReceiveSound, CheckPendingSound, CheckPlatformSound, CheckVersionSound
  <2>2. CASE \E h \in Handlers : StoreImage(h) \/ OpenArtifact(h) \/ WriteArtifact(h)
                                \/ ReadManifest(h)
    BY <2>2, StoreImageSound, OpenArtifactSound, WriteArtifactSound, ReadManifestSound
  <2>3. CASE \E h \in Handlers : Commit(h) \/ Refuse(h)
    BY <2>3, EndSound DEF Commit, Refuse
  <2>4. CASE Admin \/ UNCHANGED allVars
    BY <2>4 DEF Admin, allVars, flowVars, FlowInv, FlowTypeOK
  <2>5. CASE CrashAndRestart
    BY <2>5, IdleSound, IdleType DEF CrashAndRestart
  <2> QED
    BY <2>1, <2>2, <2>3, <2>4, <2>5 DEF FlowNext
<1>3. /\ media' \in [Versions -> Images \cup {NoImage, CutImage}]
      /\ files' \in [Versions -> [Platforms -> [Files -> FileStates]]]
      /\ path' \in [Versions -> [Platforms -> Files \cup {NoFile}]]
      /\ manifest' \in [Versions -> Manifest]
  <2>0. /\ media \in [Versions -> Images \cup {NoImage, CutImage}]
        /\ files \in [Versions -> [Platforms -> [Files -> FileStates]]]
        /\ path \in [Versions -> [Platforms -> Files \cup {NoFile}]]
        /\ manifest \in [Versions -> Manifest]
    BY DEF FlowInv, FlowTypeOK
  <2>1. CASE \E h \in Handlers : StoreImage(h)
    <3>1. PICK h \in Handlers : StoreImage(h)
      BY <2>1
    <3>2. handler[h].image \in Images \cup {NoImage}
      BY DEF FlowInv, Sound, Request
    <3>3. media' \in [Versions -> Images \cup {NoImage, CutImage}]
      BY <2>0, <3>1, <3>2 DEF StoreImage
    <3> QED
      BY <2>0, <3>1, <3>3 DEF StoreImage
  <2>2. CASE \E h \in Handlers : OpenArtifact(h) \/ WriteArtifact(h)
    <3>1. PICK h \in Handlers : OpenArtifact(h) \/ WriteArtifact(h)
      BY <2>2
    <3>2. files' \in [Versions -> [Platforms -> [Files -> FileStates]]]
      BY <3>1, OneFileWritten
    <3> QED
      BY <2>0, <3>1, <3>2 DEF OpenArtifact, WriteArtifact
  <2>3. CASE \E h \in Handlers : Commit(h)
    <3>1. PICK h \in Handlers : Commit(h)
      BY <2>3
    <3>2. handler[h] \in Request
      BY <3>1, CommitPublishes
    <3>3. handler[h].base \in Manifest /\ handler[h].file \in Files \cup {NoFile}
      BY <3>2 DEF Request
    <3>4. Merged(handler[h].base, Bound(handler[h])) \in Manifest
      BY <3>2, <3>3, BoundType, MergedType
    <3> DEFINE m == IF handler[h].adp THEN Merged(handler[h].base, Bound(handler[h]))
                    ELSE NoManifest
    <3>a. m \in Manifest /\ manifest' = [manifest EXCEPT ![handler[h].version] = m]
      BY <3>1, <3>4, NoManifestType DEF Commit
    <3>5. manifest' \in [Versions -> Manifest]
      <4> HIDE DEF m
      <4> QED
        BY <2>0, <3>a
    <3>6. path' \in [Versions -> [Platforms -> Files \cup {NoFile}]]
      BY <2>0, <3>1, <3>3 DEF Commit
    <3> QED
      BY <2>0, <3>1, <3>5, <3>6 DEF Commit
  <2>4. CASE UNCHANGED <<media, files, path, manifest>>
    BY <2>0, <2>4
  <2> QED
    BY <2>1, <2>2, <2>3, <2>4
    DEF FlowNext, Receive, CheckPending, CheckPlatform, CheckVersion, ReadManifest, Refuse,
        Admin, CrashAndRestart, allVars, flowVars
<1> QED
    BY <1>1, <1>2, <1>3 DEF FlowInv, FlowTypeOK

(* Running requests are sound, whatever the order of steps. *)
THEOREM FlowInvariant == FlowSpec => []FlowInv
BY FlowInitInv, FlowNextInv, PTL DEF FlowSpec

(* Handlers, storage and manifests keep their shapes. *)
THEOREM FlowTypeCorrect == FlowSpec => []FlowTypeOK
<1>1. FlowInv => FlowTypeOK
  BY DEF FlowInv
<1> QED
  BY <1>1, FlowInvariant, PTL

(* The handlers, many at once, each in many steps and any of them cut off,
   implement the lifecycle in which a submission is one step: what is proved of
   Release holds for them. *)
THEOREM FlowImplementsRelease == FlowSpec => Spec
<1>1. FlowInit => Init
  BY DEF FlowInit
<1>2. FlowInv /\ [FlowNext]_allVars => [Next]_vars
  BY FlowStep
<1> QED
  BY <1>1, <1>2, FlowInvariant, PTL DEF FlowSpec, Spec

(* In a market without suspensions they so implement the storefront too. *)
THEOREM FlowImplementsStorefront == ASSUME Discipline PROVE FlowSpec => ImplementsStorefront
BY FlowImplementsRelease, StorefrontTheorem, PTL

-----------------------------------------------------------------------------
(* Accepted uploads *)

\* Only commits, decisions and restarts touch rows, and of paths and manifests
\* only commits.
LEMMA StepKinds ==
    ASSUME [FlowNext]_allVars
    PROVE  \/ \E h \in Handlers : Commit(h)
           \/ UNCHANGED <<vars, path, manifest>>
           \/ Admin
           \/ Restart /\ UNCHANGED <<media, files, path, manifest>>
BY DEF FlowNext, allVars, flowVars, Receive, CheckPending, CheckPlatform, CheckVersion,
       StoreImage, OpenArtifact, WriteArtifact, ReadManifest, Refuse, CrashAndRestart

LEMMA AcceptedStep ==
    ASSUME FlowInv, [FlowNext]_allVars, NEW v \in Versions, NEW p \in Platforms,
           versions[v].status = "pending", platforms[v][p].content \notin {0, Backfilled}
    PROVE  platforms'[v][p].content = platforms[v][p].content /\ path'[v][p] = path[v][p]
<1>0. TypeOK
    BY DEF FlowInv, LifecycleInv
<1>1. CASE \E h \in Handlers : Commit(h)
  <2>1. PICK h \in Handlers : Commit(h)
    BY <1>1
  <2> DEFINE r == handler[h]
             n == submissions + 1
  <2>2. /\ r.version \in Versions /\ r.platform \in Platforms
        /\ PendingAllows(r.version, r.platform, r.creator)
        /\ platforms' = [platforms EXCEPT ![r.version][r.platform] =
                            [published |-> FALSE, content |-> n]]
        /\ path' = path \/ path' = [path EXCEPT ![r.version][r.platform] = r.file]
    BY <2>1, CommitPublishes DEF Commit, Publish, PublishAllowed, Request
  <2>3. v \in NewestPending
    BY CandidateIsPending DEF FlowInv, Pending
  <2>4. v = r.version /\ p # r.platform
    BY <2>2, <2>3 DEF PendingAllows
  <2> HIDE DEF r, n
  <2> QED
    BY <1>0, <2>2, <2>4 DEF TypeOK, FlowInv, FlowTypeOK
<1>2. CASE UNCHANGED <<vars, path, manifest>>
    BY <1>2 DEF vars
<1>3. CASE Admin
  <2>1. \/ platforms' = platforms
        \/ \E w \in Versions, flag \in BOOLEAN : platforms' = PlatformsMarked(w, flag)
    <3>1. CASE \E status \in Decisions : UpdateReview(status)
      BY <3>1 DEF UpdateReview, ReviewCandidate, ReviewCurrent
    <3>2. CASE Unpublish
      BY <1>0, <3>2 DEF Unpublish, TypeOK, ItemRow
    <3> QED
      BY <1>3, <3>1, <3>2 DEF Admin
  <2> QED
    BY <1>0, <1>3, <2>1, MarkedKeepsContents DEF Admin, flowVars
<1>4. CASE Restart /\ UNCHANGED <<media, files, path, manifest>>
    BY <1>0, <1>4 DEF Restart, TypeOK
<1> QED
    BY <1>1, <1>2, <1>3, <1>4, StepKinds

(* For any number of requests, an upload that was accepted stays as it is while
   its release waits for review. *)
THEOREM AcceptedTheorem == FlowSpec => AcceptedUploadKept
<1>1. FlowInv /\ [FlowNext]_allVars =>
        [\A v \in Versions, p \in Platforms :
            /\ versions[v].status = "pending" /\ versions'[v].status = "pending"
            /\ platforms[v][p].content \notin {0, Backfilled}
            => /\ platforms'[v][p].content = platforms[v][p].content
               /\ path'[v][p] = path[v][p]]_allVars
  BY AcceptedStep
<1> QED
  BY <1>1, FlowInvariant, PTL DEF FlowSpec, AcceptedUploadKept

-----------------------------------------------------------------------------
(* Manifests *)

LEMMA MergeStep ==
    ASSUME FlowInv, [FlowNext]_allVars, NEW h \in Handlers,
           handler[h].stage = "commit", handler[h].adp, submissions' # submissions,
           handler'[h].stage = "idle", handler[h].base = manifest[handler[h].version],
           NEW k \in AdpKeys, handler[h].base[k] # NoEntry
    PROVE  SameDownload(manifest'[handler[h].version][k], handler[h].base[k])
<1> DEFINE r == handler[h]
<1>1. \E g \in Handlers : Commit(g)
    BY StepKinds
    DEF vars, Admin, UpdateReview, ReviewCandidate, ReviewCurrent, Unpublish, Restart
<1>2. PICK g \in Handlers : Commit(g)
    BY <1>1
<1>3. g = h
    BY <1>2 DEF Commit, End, FlowInv, FlowTypeOK
<1>4. /\ r \in Request /\ r.version \in Versions /\ r.base \in Manifest
      /\ ~Conflict(r.base, Bound(r))
    BY <1>2, <1>3, CommitPublishes DEF FlowInv, Sound, MergeFits, Request
<1>5. manifest' = [manifest EXCEPT ![r.version] = Merged(r.base, Bound(r))]
    BY <1>2, <1>3 DEF Commit
<1>6. manifest'[r.version] = Merged(r.base, Bound(r))
    BY <1>4, <1>5 DEF FlowInv, FlowTypeOK
<1>7. Bound(r)[k] # NoEntry => SameDownload(r.base[k], Bound(r)[k])
    BY <1>4 DEF Conflict
<1>8. Merged(r.base, Bound(r))[k] \in {r.base[k], Bound(r)[k]}
      /\ (Bound(r)[k] = NoEntry => Merged(r.base, Bound(r))[k] = r.base[k])
    BY DEF Merged
<1> QED
    BY <1>6, <1>7, <1>8 DEF SameDownload

(* An upload that merged the manifest the release still has changes nothing
   that is there. *)
THEOREM MergeTheorem == FlowSpec => UploadsMerge
<1>1. FlowInv /\ [FlowNext]_allVars =>
        [\A h \in Handlers :
            LET r == handler[h] IN
            /\ r.stage = "commit" /\ r.adp /\ submissions' # submissions
            /\ handler'[h].stage = "idle"
            /\ r.base = manifest[r.version]
            => \A k \in AdpKeys : r.base[k] # NoEntry =>
                  SameDownload(manifest'[r.version][k], r.base[k])]_allVars
  BY MergeStep
<1> QED
  BY <1>1, FlowInvariant, PTL DEF FlowSpec, UploadsMerge

-----------------------------------------------------------------------------
(* Files: one that was stored is whole, or is truncated by another upload of it *)

\* What the server wrote into a manifest is there: the row and the file.
EntriesStored(v, m) ==
    \A k \in AdpKeys : m[k].bound =>
        /\ m[k].from \in Platforms
        /\ artifacts[v][m[k].from] # 0 /\ IsStored(v, m[k].from, m[k].file)

(* A request past storing its artifact has it, and what it will merge with; so
   has one whose file was opened by another request while it writes it: that
   one finds its file torn, and may leave it so. *)
RequestStored(r) ==
    /\ \/ r.stage \in {"manifest", "commit"}
       \/ r.stage = "writing" /\ r.truncated /\ InPlace
       => (r.file # NoFile => IsStored(r.version, r.platform, r.file))
    /\ r.stage = "commit" /\ r.adp => EntriesStored(r.version, r.base)

\* A row names a file, and a file that is named, or was, is there.
RowsStored ==
    \A v \in Versions, p \in Platforms :
        /\ artifacts[v][p] # 0 => path[v][p] # NoFile
        /\ path[v][p] # NoFile => IsStored(v, p, path[v][p])

ManifestsStored == \A v \in Versions : EntriesStored(v, manifest[v])

StoredInv == RowsStored /\ ManifestsStored /\ \A h \in Handlers : RequestStored(handler[h])

\* The server's entries are of the files there are.
LEMMA EntryTypes ==
    ASSUME NEW m \in Manifest, NEW k \in AdpKeys, m[k].bound
    PROVE  m[k].file \in Files
<1>1. m[k] \in Entry \cup {NoEntry}
    BY DEF Manifest
<1> QED
    BY <1>1 DEF Entry, NoEntry

LEMMA StepKeepsStored ==
    ASSUME FlowInv, [FlowNext]_allVars,
           NEW v \in Versions, NEW p \in Platforms, NEW f \in Files, IsStored(v, p, f)
    PROVE  IsStored(v, p, f)'
<1>1. CASE \E h \in Handlers : OpenArtifact(h) \/ WriteArtifact(h)
  <2>1. PICK h \in Handlers : OpenArtifact(h) \/ WriteArtifact(h)
    BY <1>1
  <2>2. \/ files'[v][p][f] = files[v][p][f]
        \/ /\ ~InPlace => files'[v][p][f] = "whole"
           /\ files'[v][p][f] \in {"torn", "whole"}
    BY <2>1, OneFileWritten DEF IsStored
  <2> QED
    BY <2>2 DEF IsStored
<1>2. CASE files' = files
  BY <1>2 DEF IsStored
<1> QED
  BY <1>1, <1>2
  DEF FlowNext, allVars, flowVars, Receive, CheckPending, CheckPlatform, CheckVersion,
      StoreImage, ReadManifest, Refuse, CrashAndRestart, Admin, Commit

\* What is stored, or has a row, stays so.
LEMMA StorageGrows ==
    ASSUME FlowInv, [FlowNext]_allVars
    PROVE  /\ \A v \in Versions, p \in Platforms, f \in Files :
                 IsStored(v, p, f) => IsStored(v, p, f)'
           /\ \A v \in Versions, p \in Platforms :
                 artifacts[v][p] # 0 => artifacts'[v][p] # 0
<1>0. TypeOK
    BY DEF FlowInv, LifecycleInv
<1>1. \A v \in Versions, p \in Platforms, f \in Files : IsStored(v, p, f) => IsStored(v, p, f)'
    BY StepKeepsStored
<1>2. \A v \in Versions, p \in Platforms : artifacts[v][p] # 0 => artifacts'[v][p] # 0
  <2>1. CASE \E h \in Handlers : Commit(h)
    <3>1. PICK h \in Handlers : Commit(h)
      BY <2>1
    <3>2. \/ artifacts' = artifacts
          \/ artifacts' = [artifacts EXCEPT ![handler[h].version][handler[h].platform] =
                              submissions + 1]
      BY <3>1 DEF Commit, Publish
    <3>3. submissions + 1 # 0
      BY <1>0, InputsAssumption DEF TypeOK
    <3> DEFINE v0 == handler[h].version
               p0 == handler[h].platform
               n == submissions + 1
    <3>4. n # 0 /\ (artifacts' = artifacts \/ artifacts' = [artifacts EXCEPT ![v0][p0] = n])
      BY <3>2, <3>3
    <3> HIDE DEF v0, p0, n
    <3> SUFFICES ASSUME NEW v \in Versions, NEW p \in Platforms, artifacts[v][p] # 0
                 PROVE  artifacts'[v][p] # 0
      OBVIOUS
    <3>5. CASE artifacts' = artifacts
      BY <3>5
    <3>6. CASE artifacts' = [artifacts EXCEPT ![v0][p0] = n]
      <4>1. artifacts'[v] = IF v = v0 THEN [artifacts[v] EXCEPT ![p0] = n] ELSE artifacts[v]
        BY <1>0, <3>6 DEF TypeOK
      <4>2. artifacts[v] \in [Platforms -> Content]
        BY <1>0 DEF TypeOK
      <4> QED
        BY <3>4, <4>1, <4>2
    <3> QED
      BY <3>4, <3>5, <3>6
  <2>2. CASE artifacts' = artifacts
    BY <2>2
  <2> QED
    BY <2>1, <2>2, StepKinds
    DEF vars, Admin, UpdateReview, ReviewCandidate, ReviewCurrent, Unpublish, Restart
<1> QED
    BY <1>1, <1>2

LEMMA EntriesKept ==
    ASSUME FlowInv, [FlowNext]_allVars,
           NEW v \in Versions, NEW m \in Manifest, EntriesStored(v, m)
    PROVE  EntriesStored(v, m)'
BY StorageGrows, EntryTypes DEF EntriesStored

LEMMA RequestKept ==
    ASSUME FlowInv, [FlowNext]_allVars,
           NEW r \in Request, Sound(r), RequestStored(r)
    PROVE  RequestStored(r)'
<1>1. r.stage # "idle" => r.version \in Versions
    BY DEF Sound, Named
<1>2. /\ r.platform \in Platforms /\ r.base \in Manifest
      /\ r.file # NoFile => r.file \in Files
    BY DEF Request
<1>3. /\ r.stage \in {"manifest", "commit"} \/ (r.stage = "writing" /\ r.truncated /\ InPlace)
      /\ r.file # NoFile
      => IsStored(r.version, r.platform, r.file)'
    BY <1>1, <1>2, StorageGrows DEF RequestStored
<1>4. r.stage = "commit" /\ r.adp => EntriesStored(r.version, r.base)'
    BY <1>1, <1>2, EntriesKept DEF RequestStored
<1> QED
    BY <1>3, <1>4 DEF RequestStored

\* A request that has not stored an artifact yet goes where it needs none.
LEMMA BeforeStorage ==
    ASSUME NEW r \in Request, NEW q, q.adp = r.adp, q.file = r.file,
           \/ q.stage \in {"idle", "pending", "platform", "version"}
           \/ q.stage = AfterChecks(r)
           \/ q.stage = AfterImage(r)
    PROVE  RequestStored(q)'
BY DEF RequestStored, AfterChecks, AfterImage, AfterArtifact, Request

LEMMA RequestsStoredNext ==
    ASSUME FlowInv, StoredInv, [FlowNext]_allVars,
           NEW g \in Handlers, NEW q, q = handler'[g]
    PROVE  RequestStored(q)'
<1> DEFINE r == handler[g]
<1>0. /\ handler \in [Handlers -> Request]
      /\ r \in Request /\ Sound(r) /\ RequestStored(r)
    BY DEF FlowInv, FlowTypeOK, StoredInv
<1>1. CASE q = r
    BY <1>0, <1>1, RequestKept
<1>2. CASE q = Idle
    BY <1>2 DEF Idle, RequestStored
<1>3. CASE Receive(g)
  <2>1. q.stage = "pending"
    BY <1>0, <1>3 DEF Receive, Idle
  <2> QED
    BY <2>1 DEF RequestStored
<1>4. CASE CheckPending(g)
  <2>1. q.stage \in {"platform", "version"}
    BY <1>0, <1>4 DEF CheckPending, Request
  <2> QED
    BY <2>1 DEF RequestStored
<1>5. CASE CheckPlatform(g) \/ CheckVersion(g)
  <2>1. q.adp = r.adp /\ q.file = r.file /\ q.stage = AfterChecks(r)
    BY <1>0, <1>5 DEF CheckPlatform, CheckVersion, Advance, Request
  <2> QED
    BY <1>0, <2>1, BeforeStorage
<1>6. CASE StoreImage(g)
  <2>1. q = Idle \/ (q.adp = r.adp /\ q.file = r.file /\ q.stage = AfterImage(r))
    BY <1>0, <1>6 DEF StoreImage, End, Request
  <2> QED
    BY <1>0, <1>2, <2>1, BeforeStorage
<1>7. CASE OpenArtifact(g)
  <2>1. q = [r EXCEPT !.stage = "writing"] /\ r.stage = "artifact"
    BY <1>0, <1>7 DEF OpenArtifact
  <2>2. q.stage = "writing" /\ q.truncated = FALSE
    BY <1>0, <2>1 DEF Sound, Truncated, Request
  <2> QED
    BY <2>2 DEF RequestStored
<1>12. CASE WriteArtifact(g)
  <2>1. /\ q.adp = r.adp /\ q.file = r.file /\ q.version = r.version
        /\ q.platform = r.platform /\ q.stage = AfterArtifact(r) /\ r.stage = "writing"
    BY <1>0, <1>12 DEF WriteArtifact, Request
  <2>2. ASSUME r.file # NoFile
        PROVE  \/ files'[r.version][r.platform][r.file] = "whole"
               \/ InPlace /\ files'[r.version][r.platform][r.file] = "torn"
    <3>1. r.version \in Versions /\ r.platform \in Platforms /\ r.file \in Files
      BY <1>0, <2>1, <2>2 DEF Sound, Named, Request
    <3>2. PICK state : /\ files' = [files EXCEPT ![r.version][r.platform][r.file] = state]
                       /\ \/ state = "whole"
                          \/ /\ InPlace /\ r.truncated
                             /\ state = files[r.version][r.platform][r.file]
      BY <1>12 DEF WriteArtifact
    <3>3. files'[r.version][r.platform][r.file] = state
      <4> DEFINE v == r.version
                 p == r.platform
                 f == r.file
      <4>1. /\ v \in Versions /\ p \in Platforms /\ f \in Files
            /\ files \in [Versions -> [Platforms -> [Files -> FileStates]]]
            /\ files' = [files EXCEPT ![v][p][f] = state]
        BY <3>1, <3>2 DEF FlowInv, FlowTypeOK
      <4>2. files'[v][p][f] = state
        <5> HIDE DEF v, p, f
        <5> QED
          BY <4>1
      <4> QED
        BY <4>2
    <3>4. state = "whole" \/ (InPlace /\ state \in {"torn", "whole"})
      BY <1>0, <2>1, <2>2, <3>2 DEF RequestStored, IsStored
    <3> QED
      BY <3>3, <3>4
  <2>3. q.stage # "writing" /\ (q.stage = "commit" => ~q.adp)
    BY <1>0, <2>1, AfterTypes
  <2> QED
    BY <2>1, <2>2, <2>3 DEF RequestStored, IsStored
<1>8. CASE ReadManifest(g)
  <2>1. /\ q.stage = "commit" /\ q.base = manifest[r.version] /\ q.version = r.version
        /\ q.file = r.file /\ q.platform = r.platform /\ r.stage = "manifest"
    BY <1>0, <1>8 DEF ReadManifest, Request
  <2>2. r.version \in Versions /\ manifest[r.version] \in Manifest
    BY <1>0, <2>1 DEF Sound, Named, FlowInv, FlowTypeOK
  <2>3. EntriesStored(r.version, manifest[r.version])
    BY <2>2 DEF StoredInv, ManifestsStored
  <2>4. UNCHANGED <<artifacts, files>>
    BY <1>8 DEF ReadManifest, vars
  <2>5. r.file # NoFile => IsStored(r.version, r.platform, r.file)
    BY <1>0, <2>1 DEF RequestStored
  <2> QED
    BY <2>1, <2>3, <2>4, <2>5 DEF RequestStored, EntriesStored, IsStored
<1>9. CASE Commit(g) \/ Refuse(g) \/ CrashAndRestart
  <2>1. q = Idle
    BY <1>0, <1>9 DEF Commit, Refuse, CrashAndRestart, End
  <2> QED
    BY <1>2, <2>1
<1>10. CASE Admin \/ UNCHANGED allVars
    BY <1>1, <1>10 DEF Admin, flowVars, allVars
<1>11. ASSUME NEW h \in Handlers \ {g},
              \/ Receive(h) \/ CheckPending(h) \/ CheckPlatform(h)
              \/ CheckVersion(h) \/ StoreImage(h)
              \/ WriteArtifact(h) \/ ReadManifest(h) \/ Commit(h) \/ Refuse(h)
       PROVE  RequestStored(q)'
  <2>1. \E x : handler' = [handler EXCEPT ![h] = x]
    BY <1>11
    DEF Receive, CheckPending, CheckPlatform, CheckVersion, StoreImage, WriteArtifact,
        ReadManifest, Commit, Refuse, Advance, End
  <2>2. q = r
    BY <1>0, <2>1
  <2> QED
    BY <1>1, <2>2
<1>13. ASSUME NEW h \in Handlers \ {g}, OpenArtifact(h)
       PROVE  RequestStored(q)'
  <2>1. CASE g \notin WritersOf(handler[h])
    <3>1. q = [r EXCEPT !.truncated = @ \/ g \in WritersOf(handler[h])]
      BY <1>13 DEF OpenArtifact
    <3>2. q = r
      BY <1>0, <2>1, <3>1 DEF Request
    <3> QED
      BY <1>1, <3>2
  <2>2. CASE g \in WritersOf(handler[h])
    <3>1. /\ r.stage = "writing" /\ r.version = handler[h].version
          /\ r.platform = handler[h].platform /\ r.file = handler[h].file
      BY <2>2 DEF WritersOf
    <3>2. q = [r EXCEPT !.truncated = @ \/ g \in WritersOf(handler[h])]
      BY <1>13 DEF OpenArtifact
    <3>3. /\ q.stage = "writing" /\ q.version = r.version /\ q.platform = r.platform
          /\ q.file = r.file
      BY <1>0, <3>1, <3>2 DEF Request
    <3>4. ASSUME InPlace, r.file # NoFile
          PROVE  files'[r.version][r.platform][r.file] = "torn"
      <4>1. r.version \in Versions /\ r.platform \in Platforms /\ r.file \in Files
        BY <1>0, <3>1, <3>4 DEF Sound, Named, Request
      <4>2. files' = [files EXCEPT ![r.version][r.platform][r.file] = "torn"]
        <5>1. WritersOf(handler[h]) # {}
          BY <2>2
        <5> QED
          BY <1>13, <3>1, <3>4, <5>1 DEF OpenArtifact
      <4>3. files'[r.version][r.platform][r.file] = "torn"
        <5> DEFINE v == r.version
                   p == r.platform
                   f == r.file
        <5>1. /\ v \in Versions /\ p \in Platforms /\ f \in Files
              /\ files \in [Versions -> [Platforms -> [Files -> FileStates]]]
              /\ files' = [files EXCEPT ![v][p][f] = "torn"]
          BY <4>1, <4>2 DEF FlowInv, FlowTypeOK
        <5>2. files'[v][p][f] = "torn"
          <6> HIDE DEF v, p, f
          <6> QED
            BY <5>1
        <5> QED
          BY <5>2
      <4> QED
        BY <4>3
    <3> QED
      BY <3>3, <3>4 DEF RequestStored, IsStored
  <2> QED
    BY <2>1, <2>2
<1> QED
    BY <1>3, <1>4, <1>5, <1>6, <1>7, <1>8, <1>9, <1>10, <1>11, <1>12, <1>13 DEF FlowNext

LEMMA FlowInitStored == FlowInit => StoredInv
<1> SUFFICES ASSUME FlowInit PROVE StoredInv
    OBVIOUS
<1>1. (CHOOSE g \in Files : TRUE) \in Files
    BY FlowAssumption
<1>2. RowsStored
    BY <1>1, FlowAssumption DEF FlowInit, RowsStored, IsStored
<1>3. ManifestsStored
    BY DEF FlowInit, ManifestsStored, EntriesStored, NoManifest, NoEntry
<1>4. \A h \in Handlers : RequestStored(handler[h])
    BY DEF FlowInit, Idle, RequestStored
<1> QED
    BY <1>2, <1>3, <1>4 DEF StoredInv

\* What a commit writes names files that are there, and rows.
LEMMA CommitStored ==
    ASSUME FlowInv, StoredInv, [FlowNext]_allVars,
           NEW h \in Handlers, Commit(h)
    PROVE  RowsStored' /\ ManifestsStored'
<1> DEFINE r == handler[h]
           v0 == r.version
           p0 == r.platform
           f0 == r.file
           n == submissions + 1
<1>1. /\ r \in Request /\ v0 \in Versions /\ p0 \in Platforms
      /\ f0 \in Files \cup {NoFile} /\ r.base \in Manifest
      /\ r.stage = "commit" /\ RequestStored(r)
    BY CommitPublishes DEF Commit, StoredInv, Request
<1>0. AuthorsOwn(r)
    BY DEF FlowInv, Sound
<1>2. /\ artifacts \in [Versions -> [Platforms -> Content]]
      /\ path \in [Versions -> [Platforms -> Files \cup {NoFile}]]
      /\ manifest \in [Versions -> Manifest]
      /\ n # 0
    BY InputsAssumption DEF FlowInv, FlowTypeOK, LifecycleInv, TypeOK
<1>3. /\ files' = files
      /\ f0 = NoFile => artifacts' = artifacts /\ path' = path
      /\ f0 # NoFile => /\ artifacts' = [artifacts EXCEPT ![v0][p0] = n]
                        /\ path' = [path EXCEPT ![v0][p0] = f0]
      /\ manifest' = [manifest EXCEPT ![v0] =
                        IF r.adp THEN Merged(r.base, Bound(r)) ELSE NoManifest]
    BY DEF Commit, Publish
<1>4. f0 # NoFile => IsStored(v0, p0, f0)
    BY <1>1 DEF RequestStored
<1>5. /\ f0 # NoFile => artifacts'[v0][p0] # 0
      /\ \A v \in Versions, p \in Platforms :
            \/ artifacts'[v][p] = artifacts[v][p] /\ path'[v][p] = path[v][p]
            \/ v = v0 /\ p = p0 /\ f0 # NoFile /\ path'[v][p] = f0
  <2> HIDE DEF v0, p0, f0, n, r
  <2>1. CASE f0 = NoFile
    BY <1>3, <2>1
  <2>2. CASE f0 # NoFile
    BY <1>1, <1>2, <1>3, <2>2
  <2> QED
    BY <2>1, <2>2
<1>6. RowsStored'
  <2> HIDE DEF v0, p0, f0, n, r
  <2> QED
    BY <1>1, <1>3, <1>4, <1>5 DEF StoredInv, RowsStored, IsStored
<1>7. ASSUME NEW v \in Versions, NEW m, m = manifest'[v]
      PROVE  EntriesStored(v, m)'
  <2>1. CASE v # v0
    <3>1. m = manifest[v] /\ m \in Manifest
      BY <1>2, <1>3, <1>7, <2>1
    <3>2. EntriesStored(v, m)
      BY <3>1 DEF StoredInv, ManifestsStored
    <3> QED
      BY <3>1, <3>2, EntriesKept
  <2>2. CASE v = v0 /\ ~r.adp
    <3>1. m = NoManifest
      BY <1>1, <1>2, <1>3, <1>7, <2>2
    <3> QED
      BY <3>1 DEF EntriesStored, NoManifest, NoEntry
  <2>3. CASE v = v0 /\ r.adp
    <3>1. m = Merged(r.base, Bound(r))
      BY <1>1, <1>2, <1>3, <1>7, <2>3
    <3>2. PICK b \in Manifest : b = r.base
      BY <1>1
    <3>3. EntriesStored(v, b)'
      <4>1. EntriesStored(v, b)
        BY <1>1, <2>3, <3>2 DEF RequestStored
      <4> QED
        BY <3>2, <4>1, EntriesKept
    <3>4. ASSUME NEW k \in AdpKeys, m[k].bound
          PROVE  /\ m[k].from \in Platforms /\ artifacts'[v][m[k].from] # 0
                 /\ IsStored(v, m[k].from, m[k].file)'
      <4>1. CASE f0 # NoFile /\ m[k] = [from |-> p0, file |-> f0, bound |-> TRUE]
        <5>1. m[k].from = p0 /\ m[k].file = f0
          BY <4>1
        <5> QED
          BY <1>1, <1>3, <1>4, <1>5, <2>3, <4>1, <5>1 DEF IsStored
      <4>2. CASE m[k] = b[k]
        BY <3>3, <3>4, <4>2 DEF EntriesStored, IsStored
      <4>3. CASE m[k] = r.own[k]
        BY <1>0, <3>4, <4>3 DEF AuthorsOwn
      <4> QED
        BY <3>1, <3>2, <4>1, <4>2, <4>3 DEF Merged, Bound
    <3> QED
      BY <3>4 DEF EntriesStored, IsStored
  <2> QED
    BY <2>1, <2>2, <2>3
<1>8. ManifestsStored'
    BY <1>7 DEF ManifestsStored, EntriesStored, IsStored
<1> QED
    BY <1>6, <1>8

LEMMA StoredNext ==
    ASSUME FlowInv, StoredInv, [FlowNext]_allVars
    PROVE  StoredInv'
<1>1. ASSUME NEW g \in Handlers, NEW q, q = handler'[g]
      PROVE  RequestStored(q)'
    BY <1>1, RequestsStoredNext
<1>2. ASSUME NEW g \in Handlers
      PROVE  RequestStored(handler[g])'
  <2>1. PICK q : q = handler'[g]
    OBVIOUS
  <2>2. RequestStored(q)'
    BY <1>1, <2>1
  <2>3. ASSUME handler'[g].stage \in {"manifest", "commit"}, handler'[g].file # NoFile
        PROVE  IsStored(handler[g].version, handler[g].platform, handler[g].file)'
    BY <2>1, <2>2, <2>3 DEF RequestStored, IsStored
  <2>5. ASSUME handler'[g].stage = "writing", handler'[g].truncated, InPlace,
               handler'[g].file # NoFile
        PROVE  IsStored(handler[g].version, handler[g].platform, handler[g].file)'
    BY <2>1, <2>2, <2>5 DEF RequestStored, IsStored
  <2>4. ASSUME handler'[g].stage = "commit", handler'[g].adp
        PROVE  EntriesStored(handler[g].version, handler[g].base)'
    BY <2>1, <2>2, <2>4 DEF RequestStored, EntriesStored, IsStored
  <2> QED
    BY <2>3, <2>4, <2>5 DEF RequestStored, EntriesStored, IsStored
<1>3. RowsStored' /\ ManifestsStored'
  <2>1. CASE \E h \in Handlers : Commit(h)
    BY <2>1, CommitStored
  <2>2. CASE UNCHANGED <<artifacts, path, manifest>>
    <3>1. \A v \in Versions, p \in Platforms :
              path[v][p] # NoFile => path[v][p] \in Files
      BY DEF FlowInv, FlowTypeOK
    <3>2. RowsStored'
      BY <2>2, <3>1, StorageGrows DEF StoredInv, RowsStored, IsStored
    <3>3. ASSUME NEW v \in Versions, NEW m, m = manifest[v]
          PROVE  EntriesStored(v, m)'
      <4>1. m \in Manifest /\ EntriesStored(v, m)
        BY <3>3 DEF StoredInv, ManifestsStored, FlowInv, FlowTypeOK
      <4> QED
        BY <4>1, EntriesKept
    <3>4. ManifestsStored'
      BY <2>2, <3>3 DEF ManifestsStored, EntriesStored, IsStored
    <3> QED
      BY <3>2, <3>4
  <2> QED
    BY <2>1, <2>2, StepKinds
    DEF vars, flowVars, Admin, UpdateReview, ReviewCandidate, ReviewCurrent, Unpublish,
        Restart
<1> QED
    BY <1>2, <1>3 DEF StoredInv

LEMMA StoredInvariant == FlowSpec => [](FlowInv /\ StoredInv)
<1>1. FlowInv /\ StoredInv /\ [FlowNext]_allVars => StoredInv'
  BY StoredNext
<1> QED
  BY <1>1, FlowInitInv, FlowInitStored, FlowNextInv, PTL DEF FlowSpec

(* However requests interleave, fail or crash, what rows and the server's entries
   of manifests name was stored: with S3 it is whole, in local storage only
   another upload of the same file can have truncated it. *)
THEOREM NamedTheorem == FlowSpec => []NamedFilesAreStored
<1>1. StoredInv => NamedFilesAreStored
  BY DEF StoredInv, RowsStored, ManifestsStored, EntriesStored, NamedFilesAreStored
<1> QED
  BY <1>1, StoredInvariant, PTL

-----------------------------------------------------------------------------
(* Published releases *)

LEMMA LiveNamesStep ==
    ASSUME FlowInv, [FlowNext]_allVars, NEW v \in Versions, versions[v].published
    PROVE  manifest'[v] = manifest[v] /\ path'[v] = path[v]
<1>1. CASE \E h \in Handlers : Commit(h)
  <2>1. PICK h \in Handlers : Commit(h)
    BY <1>1
  <2>2. handler[h].version # v
    BY <2>1 DEF Commit, Publish, PublishAllowed, VersionAllows
  <2> QED
    BY <2>1, <2>2 DEF Commit, FlowInv, FlowTypeOK
<1>2. CASE UNCHANGED <<path, manifest>>
  BY <1>2
<1> QED
  BY <1>1, <1>2, StepKinds DEF Admin, flowVars

\* Files change in the hands of requests that passed their checks.
LEMMA FilesStep ==
    ASSUME FlowInv, [FlowNext]_allVars, NEW v \in Versions, NEW p \in Platforms,
           NEW f \in Files, files'[v][p][f] # files[v][p][f]
    PROVE  /\ ~InPlace => files'[v][p][f] = "whole"
           /\ \E h \in Handlers :
                 /\ handler[h].stage \in {"artifact", "writing"}
                 /\ handler[h].version = v /\ handler[h].platform = p
                 /\ handler[h].file = f /\ ~handler[h].foundLive
<1>1. PICK h \in Handlers : OpenArtifact(h) \/ WriteArtifact(h)
  BY DEF FlowNext, allVars, flowVars, Receive, CheckPending, CheckPlatform, CheckVersion,
         StoreImage, ReadManifest, Refuse, CrashAndRestart, Admin, Commit
<1>2. handler[h].stage \in {"artifact", "writing"}
  BY <1>1 DEF OpenArtifact, WriteArtifact
<1>3. ~handler[h].foundLive
  BY <1>2 DEF FlowInv, Sound, FoundUnpublished
<1> QED
  BY <1>1, <1>2, <1>3, OneFileWritten

LEMMA LiveFilesStep ==
    ASSUME FlowInv, StoredInv, [FlowNext]_allVars,
           NEW v \in Versions, versions[v].published
    PROVE  /\ manifest'[v] = manifest[v]
           /\ \A p \in Platforms :
                 /\ path'[v][p] = path[v][p]
                 /\ LET f == path[v][p] IN
                    f # NoFile /\ files'[v][p][f] # files[v][p][f] =>
                       /\ InPlace
                       /\ \E h \in Handlers :
                             /\ handler[h].stage \in {"artifact", "writing"}
                             /\ handler[h].version = v /\ handler[h].platform = p
                             /\ handler[h].file = f /\ ~handler[h].foundLive
<1>1. manifest'[v] = manifest[v] /\ path'[v] = path[v]
  BY LiveNamesStep
<1>2. ASSUME NEW p \in Platforms, NEW f, f = path[v][p], f # NoFile,
             files'[v][p][f] # files[v][p][f]
      PROVE  /\ InPlace
             /\ \E h \in Handlers :
                   /\ handler[h].stage \in {"artifact", "writing"}
                   /\ handler[h].version = v /\ handler[h].platform = p
                   /\ handler[h].file = f /\ ~handler[h].foundLive
  <2>1. f \in Files /\ IsStored(v, p, f)
    BY <1>2 DEF FlowInv, FlowTypeOK, StoredInv, RowsStored
  <2>2. ~InPlace => files[v][p][f] = "whole"
    BY <2>1 DEF IsStored
  <2> QED
    BY <1>2, <2>1, <2>2, FilesStep
<1> QED
  BY <1>1, <1>2

(* Nothing a late upload stores or commits reaches the manifest and the file names
   of a published release, and a file only as another copy of itself. *)
THEOREM LiveFilesTheorem == FlowSpec => LiveFilesFixed
<1>1. FlowInv /\ StoredInv /\ [FlowNext]_allVars =>
        [\A v \in Versions : versions[v].published =>
            /\ manifest'[v] = manifest[v]
            /\ \A p \in Platforms :
                  /\ path'[v][p] = path[v][p]
                  /\ LET f == path[v][p] IN
                     f # NoFile /\ files'[v][p][f] # files[v][p][f] =>
                        /\ InPlace
                        /\ \E h \in Handlers :
                              /\ handler[h].stage \in {"artifact", "writing"}
                              /\ handler[h].version = v /\ handler[h].platform = p
                              /\ handler[h].file = f /\ ~handler[h].foundLive]_allVars
  BY LiveFilesStep
<1> QED
  BY <1>1, StoredInvariant, PTL DEF FlowSpec, LiveFilesFixed

\* How a request can come to be past its checks, or be there already.
LEMMA RequestSteps ==
    ASSUME FlowInv, [FlowNext]_allVars, NEW g \in Handlers
    PROVE  \/ handler'[g] = Idle
           \/ handler'[g].stage = "pending"
           \/ CheckPending(g) /\ handler'[g].version = handler[g].version
           \/ CheckVersion(g) /\ handler'[g].version = handler[g].version
           \/ /\ handler'[g].version = handler[g].version
              /\ handler[g].stage \notin {"idle", "pending", "version"}
           \/ /\ handler'[g].version = handler[g].version
              /\ handler'[g].stage = handler[g].stage
<1> DEFINE r == handler[g]
<1>0. handler \in [Handlers -> Request] /\ r \in Request
    BY DEF FlowInv, FlowTypeOK
<1>1. CASE Receive(g)
    BY <1>0, <1>1 DEF Receive, Idle
<1>2. CASE CheckPending(g) \/ CheckVersion(g)
    BY <1>0, <1>2 DEF CheckPending, CheckVersion, Request
<1>3. CASE CheckPlatform(g) \/ StoreImage(g) \/ WriteArtifact(g) \/ ReadManifest(g)
           \/ Commit(g) \/ Refuse(g)
    BY <1>0, <1>3
    DEF CheckPlatform, StoreImage, WriteArtifact, ReadManifest, Commit, Refuse, Advance,
        End, Request
<1>4. CASE OpenArtifact(g)
    BY <1>0, <1>4 DEF OpenArtifact, Request
<1>5. CASE CrashAndRestart
    BY <1>5 DEF CrashAndRestart
<1>6. CASE Admin \/ UNCHANGED allVars
    BY <1>6 DEF Admin, flowVars, allVars
<1>7. ASSUME NEW h \in Handlers \ {g},
             \/ Receive(h) \/ CheckPending(h) \/ CheckPlatform(h)
             \/ CheckVersion(h) \/ StoreImage(h)
             \/ WriteArtifact(h) \/ ReadManifest(h) \/ Commit(h) \/ Refuse(h)
      PROVE  handler'[g] = r
    BY <1>0, <1>7
    DEF Receive, CheckPending, CheckPlatform, CheckVersion, StoreImage, WriteArtifact,
        ReadManifest, Commit, Refuse, Advance, End
<1>8. ASSUME NEW h \in Handlers \ {g}, OpenArtifact(h)
      PROVE  handler'[g].version = r.version /\ handler'[g].stage = r.stage
    BY <1>0, <1>8 DEF OpenArtifact, Request
<1> QED
    BY <1>1, <1>2, <1>3, <1>4, <1>5, <1>6, <1>7, <1>8 DEF FlowNext

LEMMA SettlesStep ==
    ASSUME FlowInv, [FlowNext]_allVars, NEW v \in Versions,
           versions[v].published, PassedChecks(v) = {}
    PROVE  /\ media'[v] = media[v] /\ files'[v] = files[v]
           /\ path'[v] = path[v] /\ manifest'[v] = manifest[v]
           /\ PassedChecks(v)' = {}
<1>1. \A h \in Handlers : handler[h].version = v =>
          handler[h].stage \in {"idle", "pending", "version"}
    BY DEF PassedChecks
<1>2. media'[v] = media[v]
  <2>1. CASE \E h \in Handlers : StoreImage(h)
    <3>1. PICK h \in Handlers : StoreImage(h)
      BY <2>1
    <3>2. handler[h].version # v
      BY <1>1, <3>1 DEF StoreImage
    <3> QED
      BY <3>1, <3>2 DEF StoreImage, FlowInv, FlowTypeOK
  <2>2. CASE media' = media
    BY <2>2
  <2> QED
    BY <2>1, <2>2
    DEF FlowNext, allVars, flowVars, Receive, CheckPending, CheckPlatform, CheckVersion,
        OpenArtifact, WriteArtifact, ReadManifest, Refuse, CrashAndRestart, Admin, Commit
<1>3. files'[v] = files[v]
  <2>1. \A p \in Platforms, f \in Files : files'[v][p][f] = files[v][p][f]
    BY <1>1, FilesStep
  <2>2. /\ files[v] \in [Platforms -> [Files -> FileStates]]
        /\ files'[v] \in [Platforms -> [Files -> FileStates]]
    BY FlowNextInv DEF FlowInv, FlowTypeOK
  <2>3. \A p \in Platforms : files'[v][p] = files[v][p]
    BY <2>1, <2>2
  <2> QED
    BY <2>2, <2>3
<1>4. ASSUME NEW g \in Handlers, handler'[g].version = v,
             handler'[g].stage \notin {"idle", "pending", "version"}
      PROVE  FALSE
  <2>1. CASE CheckPending(g) /\ handler'[g].version = handler[g].version
    <3>1. NewestPending # {}
      BY <1>4, <2>1 DEF CheckPending, FlowInv, FlowTypeOK, Request
    <3>2. v \in NewestPending
      BY <1>4, <2>1, <3>1 DEF CheckPending
    <3> QED
      BY <3>2 DEF NewestPending, Pending, FlowInv, LifecycleInv, PublishedIsApproved
  <2>2. CASE CheckVersion(g) /\ handler'[g].version = handler[g].version
    BY <1>4, <2>2 DEF CheckVersion
  <2> QED
    BY <1>1, <1>4, <2>1, <2>2, RequestSteps DEF Idle
<1>5. PassedChecks(v)' = {}
  BY <1>4 DEF PassedChecks
<1> QED
  BY <1>2, <1>3, <1>5, LiveNamesStep

(* For any number of requests a published release comes to rest when those that
   had passed their checks are through. *)
THEOREM SettlesTheorem == FlowSpec => LiveReleaseSettles
<1>1. FlowInv /\ [FlowNext]_allVars =>
        [\A v \in Versions : versions[v].published /\ PassedChecks(v) = {} =>
            /\ media'[v] = media[v] /\ files'[v] = files[v]
            /\ path'[v] = path[v] /\ manifest'[v] = manifest[v]
            /\ PassedChecks(v)' = {}]_allVars
  BY SettlesStep
<1> QED
  BY <1>1, FlowInvariant, PTL DEF FlowSpec, LiveReleaseSettles
=============================================================================
