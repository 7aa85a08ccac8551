--------------------------- MODULE MCPublishFlow ---------------------------
(* The instance of PublishFlow for TLC: one release, two platforms that ADP knows
   and the universal one, which stands for both. *)
EXTENDS PublishFlow, TLC

CONSTANTS v1, ann, universal, mac, linux, macos, linux64, h1, h2

MCRank == v1 :> 1
MCAdpKeysOf == universal :> {macos, linux64} @@ mac :> {macos} @@ linux :> {linux64}

Upload(p, icon, adp, own) ==
    [platform |-> p, file |-> 1, image |-> icon, adp |-> adp, own |-> own]
ByAuthor(from) == [from |-> from, file |-> 1, bound |-> FALSE]

(* A complete upload for mac, whose author names a download elsewhere at the
   platform's own key, which the market fills, and one of the market's at the
   other key, which may not be there yet; one for linux that goes with it, and
   one for mac that contradicts the one for linux. *)
MCUploads ==
    {Upload(mac, 1, TRUE, macos :> ByAuthor(Elsewhere) @@ linux64 :> ByAuthor(linux)),
     Upload(linux, 0, TRUE, NoManifest),
     Upload(mac, 0, TRUE, [NoManifest EXCEPT ![linux64] = ByAuthor(Elsewhere)])}

\* The requests are interchangeable.
Symmetry == Permutations({h1, h2})
=============================================================================
