------------------------------ MODULE Identity ------------------------------
(***************************************************************************)
(* OIDC accounts and what they own.  An account's id is the staff number   *)
(* the provider asserts, or a generated one until it asserts a number; the *)
(* login that brings the number re-keys the account and its components.    *)
(* Requests act under the id their session named when they started.        *)
(***************************************************************************)
EXTENDS FiniteSets

CONSTANTS
    Subjects,    \* the provider's subjects: the people who log in
    Staff,       \* staff numbers
    Numbers,     \* staff numbers the provider may assert of each subject
    AdminNames,  \* MARKET_OIDC_ADMIN_USER_IDS: subjects and staff numbers
    Components,  \* items, with their versions
    Comments,    \* comment ids
    Requests,    \* handlers that may be running at the same time
    NoUser       \* no user id; also no staff number in the claims

(* An account gets its generated id once, at its first login: the id is
   named by the subject.  *)
Ids == Subjects \cup Staff
Works == Components \cup Comments

ASSUME NamesAssumption ==
    /\ Subjects \cap Staff = {}
    /\ NoUser \notin Ids
    /\ Components \cap Comments = {}
    /\ AdminNames \subseteq Ids

(* Two subjects may carry the same number (an account made anew at the
   provider), but then it is the only one of both: a number that was taken
   from one person is not given to another. *)
ASSUME NumbersAssumption ==
    /\ Numbers \in [Subjects -> SUBSET Staff]
    /\ \A s, t \in Subjects : s # t =>
          \A n \in Numbers[s] \cap Numbers[t] : Numbers[s] = {n} /\ Numbers[t] = {n}

VARIABLES
    users,    \* ids with a row in users
    account,  \* user_identities: the user id of each subject
    admins,   \* ids with the role admin in user_roles
    session,  \* ids named by the unexpired session cookies in each person's browsers
    owner,    \* creator_id of a component, user_id of a comment
    author,   \* the person whose request wrote it (not stored by the program)
    handler   \* what each handler has read and is about to do

vars == <<users, account, admins, session, owner, author, handler>>

(* A handler holds the number its claims assert (login), the id of the
   account it logged in to (granted), or the id of its session (request). *)
IdleTask == [op |-> "idle", who |-> NoUser, id |-> NoUser]
Task == {IdleTask}
        \cup [op: {"login"}, who: Subjects, id: Staff \cup {NoUser}]
        \cup [op: {"granted", "request"}, who: Subjects, id: Ids]

Becomes(r, op, s, id) == handler' = [handler EXCEPT ![r] = [op |-> op, who |-> s, id |-> id]]
Ends(r) == handler' = [handler EXCEPT ![r] = IdleTask]
Idle(r) == handler[r].op = "idle"

Init ==
    /\ users = {} /\ admins = {}
    /\ account = [s \in Subjects |-> NoUser]
    /\ session = [s \in Subjects |-> {}]
    /\ owner = [w \in Works |-> NoUser]
    /\ author = [w \in Works |-> NoUser]
    /\ handler = [r \in Requests |-> IdleTask]

-----------------------------------------------------------------------------
(* Logging in: handleOIDCCallback *)

\* The code is exchanged and the ID token verified; its claims are kept.
Exchange(r, s, n) ==
    /\ Idle(r)
    /\ n \in Numbers[s] \cup {NoUser}
    /\ Becomes(r, "login", s, n)
    /\ UNCHANGED <<users, account, admins, session, owner, author>>

\* oidcAdminUserID: the subject or the staff number is on the list.
ListedAdmin(s, n) == s \in AdminNames \/ n \in AdminNames

\* user_roles: the roles the provider granted are replaced.
Granted(id, s, n) == IF ListedAdmin(s, n) THEN {id} ELSE {}

\* Mutants: no id is generated; an account that has the number is joined.
FirstLoginUnnumbered(r) ==
    LET s == handler[r].who
        n == handler[r].id
    IN
    /\ handler[r].op = "login" /\ account[s] = NoUser
    /\ n \notin users
    /\ users' = users \cup {n}
    /\ account' = [account EXCEPT ![s] = n]
    /\ admins' = (admins \ {n}) \cup Granted(n, s, n)
    /\ Becomes(r, "granted", s, n)
    /\ UNCHANGED <<session, owner, author>>
FirstLoginJoins(r) ==
    LET s == handler[r].who
        n == handler[r].id
        id == IF n = NoUser THEN s ELSE n
    IN
    /\ handler[r].op = "login" /\ account[s] = NoUser
    /\ users' = users \cup {id}
    /\ account' = [account EXCEPT ![s] = id]
    /\ admins' = (admins \ {id}) \cup Granted(id, s, n)
    /\ Becomes(r, "granted", s, id)
    /\ UNCHANGED <<session, owner, author>>

(* UpsertOIDCUser for a subject never seen: the users row is inserted under
   the number, or under a generated id; an id that exists refuses the login. *)
FirstLogin(r) ==
    LET s == handler[r].who
        n == handler[r].id
        id == IF n = NoUser THEN s ELSE n
    IN
    /\ handler[r].op = "login" /\ account[s] = NoUser
    /\ id \notin users
    /\ users' = users \cup {id}
    /\ account' = [account EXCEPT ![s] = id]
    /\ admins' = (admins \ {id}) \cup Granted(id, s, n)
    /\ Becomes(r, "granted", s, id)
    /\ UNCHANGED <<session, owner, author>>

\* Mutants of rekeyMarketUser: the old users row is kept; creators are forgotten.
RekeyedUsersKept(old, new) == users \cup {new}
RekeyedOwnersForgotten(old, new) == owner
\* rekeyMarketUser moves the users row, items and versions, but not item_comments.
RekeyedUsers(old, new) == (users \ {old}) \cup {new}
RekeyedOwners(old, new) ==
    [w \in Works |-> IF w \in Components /\ owner[w] = old THEN new ELSE owner[w]]

(* UpsertOIDCUser for a known subject: a number that is not the account's id
   re-keys it, unless somebody has it; the roles are replaced. *)
ReturningLogin(r) ==
    LET s == handler[r].who
        n == handler[r].id
        old == account[s]
        id == IF n = NoUser THEN old ELSE n
    IN
    /\ handler[r].op = "login" /\ old # NoUser
    /\ \/ id = old /\ UNCHANGED <<users, owner>>
       \/ /\ id # old /\ id \notin users
          /\ users' = RekeyedUsers(old, id)
          /\ owner' = RekeyedOwners(old, id)
    /\ account' = [t \in Subjects |-> IF account[t] = old THEN id ELSE account[t]]
    /\ admins' = (admins \ {old, id}) \cup Granted(id, s, n)
    /\ Becomes(r, "granted", s, id)
    /\ UNCHANGED <<session, author>>

\* GetMarketUser after the commit, then the cookie; a user re-keyed in between is not found.
IssueSession(r) ==
    LET s == handler[r].who IN
    /\ handler[r].op = "granted" /\ handler[r].id \in users
    /\ session' = [session EXCEPT ![s] = @ \cup {handler[r].id}]
    /\ Ends(r)
    /\ UNCHANGED <<users, account, admins, owner, author>>

\* handleOIDCLogout, or the session expires.
LoseSession(s, id) ==
    /\ id \in session[s]
    /\ session' = [session EXCEPT ![s] = @ \ {id}]
    /\ UNCHANGED <<users, account, admins, owner, author, handler>>

-----------------------------------------------------------------------------
(* Requests under a session *)

\* oidcUserFromRequest: the cookie's user must exist now.
Identify(r, s, id) ==
    /\ Idle(r)
    /\ id \in session[s] \cap users
    /\ Becomes(r, "request", s, id)
    /\ UNCHANGED <<users, account, admins, session, owner, author>>

\* Mutant: the component's creator is not compared.
PublishOverAnyone(r, c) ==
    /\ handler[r].op = "request"
    /\ owner' = [owner EXCEPT ![c] = handler[r].id]
    /\ author' = [author EXCEPT ![c] = handler[r].who]
    /\ Ends(r)
    /\ UNCHANGED <<users, account, admins, session>>
\* Store.Publish as far as creators go: a new component, or one's own.
Publish(r, c) ==
    /\ handler[r].op = "request"
    /\ owner[c] \in {NoUser, handler[r].id}
    /\ owner' = [owner EXCEPT ![c] = handler[r].id]
    /\ author' = [author EXCEPT ![c] = handler[r].who]
    /\ Ends(r)
    /\ UNCHANGED <<users, account, admins, session>>

\* Store.CreateComment on a new id, Store.UpdateOwnComment on one's own.
Comment(r, k) ==
    /\ handler[r].op = "request"
    /\ owner[k] \in {NoUser, handler[r].id}
    /\ owner' = [owner EXCEPT ![k] = handler[r].id]
    /\ author' = [author EXCEPT ![k] = handler[r].who]
    /\ Ends(r)
    /\ UNCHANGED <<users, account, admins, session>>

\* A check refuses the request, or its client is gone: nothing is written.
Abandon(r) ==
    /\ ~Idle(r)
    /\ Ends(r)
    /\ UNCHANGED <<users, account, admins, session, owner, author>>

LoginStep(r) ==
    \/ \E s \in Subjects, n \in Staff \cup {NoUser} : Exchange(r, s, n)
    \/ FirstLogin(r)
    \/ ReturningLogin(r)
    \/ IssueSession(r)

WorkStep(r) ==
    \/ \E s \in Subjects, id \in Ids : Identify(r, s, id)
    \/ \E c \in Components : Publish(r, c)
    \/ \E k \in Comments : Comment(r, k)

Next ==
    \/ \E r \in Requests : LoginStep(r) \/ WorkStep(r) \/ Abandon(r)
    \/ \E s \in Subjects, id \in Ids : LoseSession(s, id)

Spec == Init /\ [][Next]_vars

-----------------------------------------------------------------------------
(* Properties *)

\* Rows, cookies and handlers have their shapes.
TypeOK ==
    /\ users \subseteq Ids /\ admins \subseteq Ids
    /\ account \in [Subjects -> Ids \cup {NoUser}]
    /\ session \in [Subjects -> SUBSET Ids]
    /\ owner \in [Works -> Ids \cup {NoUser}]
    /\ author \in [Works -> Subjects \cup {NoUser}]
    /\ handler \in [Requests -> Task]

(* Every user row is the account of exactly one subject: however first logins,
   re-keying logins and shared staff numbers interleave, two subjects never
   end up in one account and no row is left without a subject. *)
OneAccountEach ==
    /\ \A s, t \in Subjects : account[s] = account[t] /\ account[s] # NoUser => s = t
    /\ users = {account[s] : s \in Subjects} \ {NoUser}

(* A session that is honoured acts for the person it was issued to: re-keying
   kills the old id's sessions and nobody is given an id that was in use. *)
SessionsBelong == \A s \in Subjects : session[s] \cap users \subseteq {account[s]}

(* The admin role is held only by accounts whose subject or staff number is on
   the list, and by no id that has no account. *)
AdminsAreListed ==
    /\ admins \subseteq users
    /\ \A s \in Subjects : account[s] \in admins =>
          s \in AdminNames \/ Numbers[s] \cap AdminNames # {}

(* A component or a comment stays its author's: whatever id a request runs
   under by the time it writes, it never overwrites another person's work. *)
WorkStaysWithPerson ==
    [][\A w \in Works : author[w] # NoUser => author'[w] = author[w]]_vars

(* Whoever owns a component under the id of the account keeps owning it: a
   login that re-keys takes the components along, and a request that still
   runs under the old id does not write it back. *)
Owns(w) == author[w] # NoUser /\ owner[w] = account[author[w]]
LoginKeepsWork == [][\A c \in Components : Owns(c) => Owns(c)']_vars
=============================================================================
