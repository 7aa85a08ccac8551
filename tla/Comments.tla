------------------------------ MODULE Comments ------------------------------
(***************************************************************************)
(* Comments on one published component.  Creating, editing, deleting and   *)
(* moderating each read the database, decide, and then write, as separate  *)
(* statements outside any transaction: a handler is a process of two       *)
(* steps, and another handler's write may fall between them.               *)
(***************************************************************************)
EXTENDS Naturals

CONSTANTS
    Users,     \* signed-in users
    Nobody,    \* the owner of no comment; also a moderator's user here
    Ids,       \* comment ids (AUTOINCREMENT: never used twice)
    Requests,  \* handlers that may be running at the same time
    MaxEdits   \* bound: edits a comment is given

ASSUME CommentsAssumption == Nobody \notin Users /\ MaxEdits \in Nat

VARIABLES
    listed,    \* the component's item is published and approved (module Release)
    comments,  \* rows of item_comments
    handler    \* what each handler has read and is about to write

vars == <<listed, comments, handler>>

Statuses == {"visible", "hidden", "deleted"}
Verdicts == {"visible", "hidden"}

\* writer is the user whose words the row holds; edits tells texts apart.
Row == [status: Statuses \cup {"none"}, owner: Users \cup {Nobody},
        writer: Users \cup {Nobody}, edits: 0 .. MaxEdits]
NoComment == [status |-> "none", owner |-> Nobody, writer |-> Nobody, edits |-> 0]

Task == [op: {"idle", "create", "edit", "delete", "moderate"},
         user: Users \cup {Nobody}, id: Ids, verdict: Verdicts]

IdleTask(id) == [op |-> "idle", user |-> Nobody, id |-> id, verdict |-> "visible"]
Idle(r) == handler[r].op = "idle"
Starts(r, op, u, id, verdict) ==
    handler' = [handler EXCEPT ![r] = [op |-> op, user |-> u, id |-> id, verdict |-> verdict]]
Ends(r) == handler' = [handler EXCEPT ![r].op = "idle"]

Init ==
    /\ listed = TRUE
    /\ comments = [id \in Ids |-> NoComment]
    /\ \E id \in Ids : handler = [r \in Requests |-> IdleTask(id)]

-----------------------------------------------------------------------------
(* Store.CreateComment *)

CheckListed(r, u) ==
    /\ Idle(r) /\ listed
    /\ Starts(r, "create", u, handler[r].id, "visible")
    /\ UNCHANGED <<listed, comments>>

Insert(r) ==
    /\ handler[r].op = "create"
    /\ \E id \in Ids :
          /\ comments[id].status = "none"
          /\ comments' = [comments EXCEPT ![id] =
                [status |-> "visible", owner |-> handler[r].user,
                 writer |-> handler[r].user, edits |-> 0]]
    /\ Ends(r)
    /\ UNCHANGED listed

\* Mutant: the owner is read and not compared.
CheckEditableAnyone(r, u, id) ==
    /\ Idle(r)
    /\ comments[id].status = "visible"
    /\ Starts(r, "edit", u, id, "visible")
    /\ UNCHANGED <<listed, comments>>

(* Store.UpdateOwnComment: the status is checked, then only the text written. *)
CheckEditable(r, u, id) ==
    /\ Idle(r)
    /\ comments[id].owner = u
    /\ comments[id].status = "visible"
    /\ Starts(r, "edit", u, id, "visible")
    /\ UNCHANGED <<listed, comments>>

\* Mutant: the whole row that was read is written back.
EditWritesRowBack(r) ==
    LET id == handler[r].id IN
    /\ handler[r].op = "edit"
    /\ comments[id].edits < MaxEdits
    /\ comments' = [comments EXCEPT ![id].writer = handler[r].user,
                                   ![id].edits = @ + 1,
                                   ![id].status = "visible"]
    /\ Ends(r)
    /\ UNCHANGED listed

Edit(r) ==
    LET id == handler[r].id IN
    /\ handler[r].op = "edit"
    /\ comments[id].edits < MaxEdits
    /\ comments' = [comments EXCEPT ![id].writer = handler[r].user,
                                   ![id].edits = @ + 1]
    /\ Ends(r)
    /\ UNCHANGED listed

(* Store.DeleteOwnComment: a hidden comment can be deleted. *)
CheckDeletable(r, u, id) ==
    /\ Idle(r)
    /\ comments[id].owner = u
    /\ comments[id].status \notin {"none", "deleted"}
    /\ Starts(r, "delete", u, id, "visible")
    /\ UNCHANGED <<listed, comments>>

Delete(r) ==
    /\ handler[r].op = "delete"
    /\ comments' = [comments EXCEPT ![handler[r].id].status = "deleted"]
    /\ Ends(r)
    /\ UNCHANGED listed

\* Mutant: a deleted comment can be moderated.
CheckModeratableDeleted(r, id, verdict) ==
    /\ Idle(r)
    /\ comments[id].status # "none"
    /\ Starts(r, "moderate", Nobody, id, verdict)
    /\ UNCHANGED <<listed, comments>>

(* Store.ModerateComment: the write does not ask again whether the comment
   has been deleted meanwhile. *)
CheckModeratable(r, id, verdict) ==
    /\ Idle(r)
    /\ comments[id].status \notin {"none", "deleted"}
    /\ Starts(r, "moderate", Nobody, id, verdict)
    /\ UNCHANGED <<listed, comments>>

\* Mutant: the status is written as a review status.
ModerateAsReview(r) ==
    /\ handler[r].op = "moderate"
    /\ comments' = [comments EXCEPT ![handler[r].id].status =
          IF handler[r].verdict = "visible" THEN "approved" ELSE "rejected"]
    /\ Ends(r)
    /\ UNCHANGED listed

Moderate(r) ==
    /\ handler[r].op = "moderate"
    /\ comments' = [comments EXCEPT ![handler[r].id].status = handler[r].verdict]
    /\ Ends(r)
    /\ UNCHANGED listed

\* The client goes away between the two statements (r.Context() is cancelled).
Abandon(r) == ~Idle(r) /\ Ends(r) /\ UNCHANGED <<listed, comments>>

\* A review or an unpublish takes the component off the shelf or back.
Relist == listed' = ~listed /\ UNCHANGED <<comments, handler>>

Check(r) ==
    \/ \E u \in Users : CheckListed(r, u)
    \/ \E u \in Users, id \in Ids : CheckEditable(r, u, id) \/ CheckDeletable(r, u, id)
    \/ \E id \in Ids, verdict \in Verdicts : CheckModeratable(r, id, verdict)

Write(r) == Insert(r) \/ Edit(r) \/ Delete(r) \/ Moderate(r)

Next == Relist \/ \E r \in Requests : Check(r) \/ Write(r) \/ Abandon(r)

Spec == Init /\ [][Next]_vars

-----------------------------------------------------------------------------
(* Properties *)

\* Rows and handlers have their shapes.
TypeOK ==
    /\ listed \in BOOLEAN
    /\ comments \in [Ids -> Row]
    /\ handler \in [Requests -> Task]

(* Nobody's words appear under another name: however edits, moderations and
   deletions overlap, a comment says what its owner wrote (errCommentForbidden,
   "comment belongs to another user"). *)
OwnWords == \A id \in Ids : comments[id].writer = comments[id].owner

(* A comment a moderator hid is public again only by a moderator's decision:
   an edit or a deletion that read the row while it was visible does not undo
   the hiding. *)
HiddenUntilRestored ==
    [][\A id \in Ids :
          comments[id].status = "hidden" /\ comments'[id].status = "visible" =>
             \E r \in Requests : handler[r].verdict = "visible" /\ Moderate(r)]_vars

(* A deleted comment that nobody is moderating stays deleted: only a
   moderation that read it before the deletion can bring it back. *)
DeletionSettles ==
    [][\A id \in Ids :
          /\ comments[id].status = "deleted"
          /\ \A r \in Requests : handler[r].op = "moderate" => handler[r].id # id
          => /\ comments'[id].status = "deleted"
             /\ \A r \in Requests : handler'[r].op = "moderate" => handler'[r].id # id]_vars

(* errCommentHidden, "hidden comment cannot be edited": the text of a comment
   that is hidden does not change. *)
HiddenNotEdited ==
    [][\A id \in Ids : comments[id].status = "hidden" =>
          comments'[id].edits = comments[id].edits]_vars
=============================================================================
