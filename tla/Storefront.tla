----------------------------- MODULE Storefront -----------------------------
(***************************************************************************)
(* What the release lifecycle promises the public in a market whose admins *)
(* never suspend a live component: a component is off the shelf with       *)
(* nothing live, or it shows the newest of its live releases.  Releases go *)
(* live one at a time, each newer than the one shown, and only the one     *)
(* shown can be withdrawn.  Submissions and rejections are invisible here. *)
(***************************************************************************)
EXTENDS Integers

CONSTANTS Versions, Malformed, Rank, NoVersion

VARIABLES
    shown,  \* the release the catalog shows, NoVersion when off the shelf
    live    \* the releases the public can get

Newer(v, w) == v \notin Malformed /\ w \notin Malformed /\ Rank[v] > Rank[w]

\* The releases of S that may take the place of a withdrawn one.
Successors(S) == {v \in S \ Malformed : \A w \in S \ Malformed : ~Newer(w, v)}

ShowsNewest ==
    IF shown = NoVersion THEN live = {}
    ELSE shown \in live /\ \A v \in live : v = shown \/ Newer(shown, v)

Init == live \subseteq Versions /\ shown \in Versions \cup {NoVersion} /\ ShowsNewest

GoLive(v) ==
    /\ v \notin live
    /\ shown # NoVersion => Newer(v, shown)
    /\ shown' = v
    /\ live' = live \cup {v}

Withdraw ==
    /\ shown # NoVersion
    /\ live' = live \ {shown}
    /\ \/ Successors(live') = {} /\ shown' = NoVersion
       \/ shown' \in Successors(live')

Next == (\E v \in Versions : GoLive(v)) \/ Withdraw

Spec == Init /\ [][Next]_<<shown, live>>
=============================================================================
