----------------------------- MODULE ReviewDesk -----------------------------
(***************************************************************************)
(* The release lifecycle together with the admins' review pages.  A page   *)
(* shows one release (GetAdminReviewDetail); the decision posted from it   *)
(* names only the component, and the store decides which release it is     *)
(* about (UpdateReview).                                                   *)
(***************************************************************************)
EXTENDS Release

CONSTANT Admins  \* admins with a review page open on the component

VARIABLE page    \* the release each admin has on screen, NoVersion for none

deskVars == <<vars, page>>

\* latestVersionCandidate: the pending release, else the newest submission,
\* whatever became of it.
ShownForReview ==
    LET restorable == {v \in Versions : versions[v].content # 0}
        preferred == IF Candidate # {} THEN Candidate ELSE restorable
    IN  {v \in preferred : \A w \in preferred : versions[w].content <= versions[v].content}

DeskInit == Init /\ page = [a \in Admins |-> NoVersion]

\* GET /api/v1/admin/reviews/{type}/{id}
OpenPage(a) ==
    /\ \E v \in ShownForReview : page' = [page EXCEPT ![a] = v]
    /\ UNCHANGED vars

\* POST /api/v1/admin/reviews/{type}/{id}
PostDecision(a, status) ==
    /\ page[a] # NoVersion
    /\ UpdateReview(status)
    /\ page' = [page EXCEPT ![a] = NoVersion]

DeskNext ==
    \/ \E a \in Admins : OpenPage(a)
    \/ \E a \in Admins, status \in Decisions : PostDecision(a, status)
    \/ (Submit \/ Unpublish \/ Restart) /\ UNCHANGED page

DeskSpec == DeskInit /\ [][DeskNext]_deskVars

-----------------------------------------------------------------------------
(* server_test.go:2131, "rejection changed active catalog item": a rejection
   posted from the page of a release that is not public leaves the active
   release on the shelf. *)
RejectionSparesActiveRelease ==
    [][\A a \in Admins :
          /\ PostDecision(a, "rejected")
          /\ item.published
          /\ ~versions[page[a]].published
          => item' = item]_deskVars
=============================================================================
