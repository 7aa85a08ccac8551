--------------------------- MODULE CommentsProofs ---------------------------
(***************************************************************************)
(* Proofs about comments, for any number of users, comments and handlers.  *)
(***************************************************************************)
EXTENDS Comments, TLAPS

USE DEF Statuses, Verdicts

-----------------------------------------------------------------------------
(* Type correctness *)

LEMMA NextTypeOK == TypeOK /\ [Next]_vars => TypeOK'
<1> SUFFICES ASSUME TypeOK, [Next]_vars PROVE TypeOK'
  OBVIOUS
<1> USE CommentsAssumption DEF TypeOK
<1>1. CASE Relist
  BY <1>1 DEF Relist
<1>2. ASSUME NEW r \in Requests, Check(r)
      PROVE  TypeOK'
  <2>1. ASSUME NEW u \in Users, CheckListed(r, u)
        PROVE  TypeOK'
    BY <2>1 DEF CheckListed, Starts, Task
  <2>2. ASSUME NEW u \in Users, NEW id \in Ids, CheckEditable(r, u, id) \/ CheckDeletable(r, u, id)
        PROVE  TypeOK'
    BY <2>2 DEF CheckEditable, CheckDeletable, Starts, Task
  <2>3. ASSUME NEW id \in Ids, NEW verdict \in Verdicts, CheckModeratable(r, id, verdict)
        PROVE  TypeOK'
    BY <2>3 DEF CheckModeratable, Starts, Task
  <2> QED
    BY <1>2, <2>1, <2>2, <2>3 DEF Check
<1>3. ASSUME NEW r \in Requests, Write(r)
      PROVE  TypeOK'
  <2>1. handler' \in [Requests -> Task] /\ listed' = listed
    BY <1>3 DEF Write, Insert, Edit, Delete, Moderate, Ends, Task
  <2>2. handler[r] \in Task
    OBVIOUS
  <2>3. CASE Insert(r)
    <3>1. PICK id \in Ids : comments' = [comments EXCEPT ![id] =
                [status |-> "visible", owner |-> handler[r].user,
                 writer |-> handler[r].user, edits |-> 0]]
      BY <2>3 DEF Insert
    <3>2. [status |-> "visible", owner |-> handler[r].user,
           writer |-> handler[r].user, edits |-> 0] \in Row
      BY <2>2 DEF Task, Row
    <3>3. comments' \in [Ids -> Row]
      BY <3>1, <3>2
    <3> QED
      BY <2>1, <3>3
  <2>4. CASE Edit(r)
    <3>1. handler[r].id \in Ids /\ handler[r].user \in Users \cup {Nobody}
      BY <2>2 DEF Task
    <3>2. comments[handler[r].id].edits + 1 \in 0 .. MaxEdits
      BY <2>4, <3>1 DEF Edit, Row
    <3>3. comments' \in [Ids -> Row]
      BY <2>4, <3>1, <3>2 DEF Edit, Row
    <3> QED
      BY <2>1, <3>3
  <2>5. CASE Delete(r)
    <3>1. handler[r].id \in Ids
      BY <2>2 DEF Task
    <3>2. [comments[handler[r].id] EXCEPT !.status = "deleted"] \in Row
      BY <3>1 DEF Row
    <3>3. comments' \in [Ids -> Row]
      BY <2>5, <3>1, <3>2 DEF Delete
    <3> QED
      BY <2>1, <3>3
  <2>6. CASE Moderate(r)
    <3>1. handler[r].id \in Ids /\ handler[r].verdict \in Verdicts
      BY <2>2 DEF Task
    <3>2. [comments[handler[r].id] EXCEPT !.status = handler[r].verdict] \in Row
      BY <3>1 DEF Row
    <3>3. comments' \in [Ids -> Row]
      BY <2>6, <3>1, <3>2 DEF Moderate
    <3> QED
      BY <2>1, <3>3
  <2> QED
    BY <1>3, <2>3, <2>4, <2>5, <2>6 DEF Write
<1>4. ASSUME NEW r \in Requests, Abandon(r)
      PROVE  TypeOK'
  BY <1>4 DEF Abandon, Ends, Task
<1>5. CASE UNCHANGED vars
  BY <1>5 DEF vars
<1> QED
  BY <1>1, <1>2, <1>3, <1>4, <1>5 DEF Next

(* Rows and handlers have their shapes in every reachable state. *)
THEOREM CommentsTypeCorrect == Spec => []TypeOK
<1>1. Init => TypeOK
  BY CommentsAssumption DEF Init, TypeOK, NoComment, Row, IdleTask, Task
<1> QED
  BY <1>1, NextTypeOK, PTL DEF Spec

-----------------------------------------------------------------------------
(* Nobody's words appear under another name *)

(* Owners never change once a row exists, so the owner an edit compared is
   still the row's owner when it writes. *)
EditsOwn ==
    \A r \in Requests : handler[r].op = "edit" =>
        comments[handler[r].id].owner = handler[r].user /\ comments[handler[r].id].status # "none"

WordsInv == TypeOK /\ OwnWords /\ EditsOwn

LEMMA InitWords == Init => OwnWords /\ EditsOwn
BY DEF Init, OwnWords, EditsOwn, NoComment, IdleTask

LEMMA CheckWords ==
  ASSUME WordsInv, NEW r \in Requests, Check(r)
  PROVE  OwnWords' /\ EditsOwn'
<1> USE DEF WordsInv, TypeOK
<1>1. comments' = comments
  BY DEF Check, CheckListed, CheckEditable, CheckDeletable, CheckModeratable
<1>2. OwnWords'
  BY <1>1 DEF OwnWords
<1>3. \A s \in Requests \ {r} : handler'[s] = handler[s]
  BY DEF Check, CheckListed, CheckEditable, CheckDeletable, CheckModeratable, Starts
<1>4. handler'[r].op = "edit" =>
        comments[handler'[r].id].owner = handler'[r].user /\ comments[handler'[r].id].status # "none"
  BY DEF Check, CheckListed, CheckEditable, CheckDeletable, CheckModeratable, Starts
<1> QED
  BY <1>1, <1>2, <1>3, <1>4 DEF EditsOwn

LEMMA WriteWords ==
  ASSUME WordsInv, NEW r \in Requests, Write(r)
  PROVE  OwnWords' /\ EditsOwn'
<1> USE DEF WordsInv, TypeOK
<1>0. handler[r] \in Task /\ handler[r].id \in Ids
  BY DEF Task
<1>1. OwnWords'
  <2>1. CASE Insert(r)
    BY <2>1 DEF OwnWords, Insert
  <2>2. CASE Edit(r)
    BY <1>0, <2>2 DEF OwnWords, EditsOwn, Edit, Row
  <2>3. CASE Delete(r) \/ Moderate(r)
    BY <1>0, <2>3 DEF OwnWords, Delete, Moderate, Row
  <2> QED
    BY <2>1, <2>2, <2>3 DEF Write
<1>2. \A id \in Ids : comments[id].status # "none" =>
        comments'[id].owner = comments[id].owner /\ comments'[id].status # "none"
  <2>1. CASE Insert(r)
    BY <2>1 DEF Insert
  <2>2. CASE Edit(r)
    BY <1>0, <2>2 DEF Edit, Row
  <2>3. CASE Delete(r)
    BY <1>0, <2>3 DEF Delete, Row
  <2>4. CASE Moderate(r)
    <3>1. handler[r].verdict # "none"
      BY <1>0 DEF Task
    <3> QED
      BY <1>0, <2>4, <3>1 DEF Moderate, Row
  <2> QED
    BY <2>1, <2>2, <2>3, <2>4 DEF Write
<1>3. /\ handler'[r].op = "idle"
      /\ \A s \in Requests \ {r} : handler'[s] = handler[s]
  BY <1>0 DEF Write, Insert, Edit, Delete, Moderate, Ends, Task
<1>4. \A s \in Requests : handler[s].id \in Ids
  BY DEF Task
<1> QED
  BY <1>1, <1>2, <1>3, <1>4 DEF EditsOwn

LEMMA NextWords == WordsInv /\ [Next]_vars => WordsInv'
<1> SUFFICES ASSUME WordsInv, [Next]_vars PROVE OwnWords' /\ EditsOwn'
  BY NextTypeOK DEF WordsInv
<1>1. CASE Relist
  BY <1>1 DEF Relist, WordsInv, OwnWords, EditsOwn
<1>2. ASSUME NEW r \in Requests, Abandon(r)
      PROVE  OwnWords' /\ EditsOwn'
  <2>1. /\ comments' = comments
        /\ handler'[r].op = "idle"
        /\ \A s \in Requests \ {r} : handler'[s] = handler[s]
    BY <1>2 DEF WordsInv, TypeOK, Task, Abandon, Ends
  <2> QED
    BY <2>1 DEF WordsInv, OwnWords, EditsOwn
<1>3. CASE UNCHANGED vars
  BY <1>3 DEF vars, WordsInv, OwnWords, EditsOwn
<1> QED
  BY <1>1, <1>2, <1>3, CheckWords, WriteWords DEF Next

(* However handlers overlap, a comment says what its owner wrote. *)
THEOREM WordsTheorem == Spec => []OwnWords
<1>1. Init => WordsInv
  BY InitWords, CommentsAssumption
     DEF WordsInv, Init, TypeOK, NoComment, Row, IdleTask, Task
<1>2. WordsInv => OwnWords
  BY DEF WordsInv
<1> QED
  BY <1>1, <1>2, NextWords, PTL DEF Spec

-----------------------------------------------------------------------------
(* What a step may do to a hidden or to a deleted comment *)

(* Only Moderate, and only with the verdict it read, changes the status of a
   comment that is hidden or deleted to anything but deleted. *)
LEMMA WriteStatus ==
  ASSUME TypeOK, NEW r \in Requests, Write(r), NEW id \in Ids,
         comments[id].status # "none"
  PROVE  \/ comments'[id].status \in {comments[id].status, "deleted"}
         \/ /\ Moderate(r) /\ handler[r].op = "moderate" /\ handler[r].id = id
            /\ comments'[id].status = handler[r].verdict
<1> USE DEF TypeOK
<1>0. handler[r].id \in Ids
  BY DEF Task
<1>1. CASE Insert(r)
  BY <1>1 DEF Insert
<1>2. CASE Edit(r)
  BY <1>0, <1>2 DEF Edit, Row
<1>3. CASE Delete(r)
  BY <1>0, <1>3 DEF Delete, Row
<1>4. CASE Moderate(r)
  BY <1>0, <1>4 DEF Moderate, Row
<1> QED
  BY <1>1, <1>2, <1>3, <1>4 DEF Write

LEMMA OthersKeepComments ==
  ASSUME [Next]_vars, \A r \in Requests : ~Write(r)
  PROVE  comments' = comments
BY DEF Next, vars, Relist, Abandon, Check, CheckListed, CheckEditable, CheckDeletable,
       CheckModeratable

(* A hidden comment becomes visible by a moderation only. *)
THEOREM HiddenTheorem == Spec => HiddenUntilRestored
<1>1. TypeOK /\ [Next]_vars =>
        [\A id \in Ids :
          comments[id].status = "hidden" /\ comments'[id].status = "visible" =>
             \E r \in Requests : handler[r].verdict = "visible" /\ Moderate(r)]_vars
  BY WriteStatus, OthersKeepComments
<1> QED
  BY <1>1, CommentsTypeCorrect, PTL DEF Spec, HiddenUntilRestored

LEMMA NextSettles ==
  ASSUME TypeOK, [Next]_vars, NEW id \in Ids,
         comments[id].status = "deleted",
         \A r \in Requests : handler[r].op = "moderate" => handler[r].id # id
  PROVE  /\ comments'[id].status = "deleted"
         /\ \A r \in Requests : handler'[r].op = "moderate" => handler'[r].id # id
<1>1. comments'[id].status = "deleted"
  BY WriteStatus, OthersKeepComments
<1>2. ASSUME NEW r \in Requests, Check(r)
      PROVE  \A s \in Requests : handler'[s].op = "moderate" => handler'[s].id # id
  <2>1. \A s \in Requests \ {r} : handler'[s] = handler[s]
    BY <1>2 DEF TypeOK, Check, CheckListed, CheckEditable, CheckDeletable, CheckModeratable,
                Starts
  <2>2. handler'[r].op = "moderate" => handler'[r].id # id
    BY <1>2 DEF TypeOK, Check, CheckListed, CheckEditable, CheckDeletable, CheckModeratable,
                Starts
  <2> QED
    BY <2>1, <2>2
<1>3. ASSUME NEW r \in Requests, Write(r) \/ Abandon(r)
      PROVE  \A s \in Requests : handler'[s].op = "moderate" => handler'[s].id # id
  <2>1. /\ handler'[r].op = "idle"
        /\ \A s \in Requests \ {r} : handler'[s] = handler[s]
    BY <1>3 DEF TypeOK, Task, Write, Insert, Edit, Delete, Moderate, Abandon, Ends
  <2> QED
    BY <2>1
<1>4. CASE Relist \/ UNCHANGED vars
  BY <1>4 DEF Relist, vars
<1> QED
  BY <1>1, <1>2, <1>3, <1>4 DEF Next

(* A deleted comment nobody is moderating never comes back. *)
THEOREM SettledTheorem == Spec => DeletionSettles
<1>1. TypeOK /\ [Next]_vars =>
        [\A id \in Ids :
          /\ comments[id].status = "deleted"
          /\ \A r \in Requests : handler[r].op = "moderate" => handler[r].id # id
          => /\ comments'[id].status = "deleted"
             /\ \A r \in Requests : handler'[r].op = "moderate" => handler'[r].id # id]_vars
  BY NextSettles
<1> QED
  BY <1>1, CommentsTypeCorrect, PTL DEF Spec, DeletionSettles
=============================================================================
