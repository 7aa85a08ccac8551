--------------------------- MODULE IdentityProofs ---------------------------
(***************************************************************************)
(* Proofs about accounts and what they own, for any number of subjects,    *)
(* staff numbers, components and overlapping requests.                     *)
(***************************************************************************)
EXTENDS Identity, TLAPS

USE DEF Ids, Works

-----------------------------------------------------------------------------
(* The inductive invariant.  An id a session, a handler or a row carries is
   or was the id of that person's account; while a number is the only one the
   provider asserts of a person, an account that got it keeps it. *)
Held(acc, s, id) ==
    /\ acc[s] # NoUser
    /\ id \in {s} \cup Numbers[s]
    /\ Numbers[s] = {id} => acc[s] = id

HeldAccounts == \A s \in Subjects : account[s] # NoUser => account[s] \in {s} \cup Numbers[s]
HeldSessions == \A s \in Subjects : \A id \in session[s] : Held(account, s, id)
HeldHandlers == \A r \in Requests :
    /\ handler[r].op = "login" => handler[r].id \in Numbers[handler[r].who] \cup {NoUser}
    /\ handler[r].op \in {"granted", "request"} => Held(account, handler[r].who, handler[r].id)
HeldWorks == \A w \in Works :
    /\ author[w] = NoUser <=> owner[w] = NoUser
    /\ author[w] # NoUser => Held(account, author[w], owner[w])

IdentityInv ==
    /\ TypeOK
    /\ OneAccountEach
    /\ SessionsBelong
    /\ AdminsAreListed
    /\ HeldAccounts
    /\ HeldSessions
    /\ HeldHandlers
    /\ HeldWorks

-----------------------------------------------------------------------------
(* Facts about ids *)

LEMMA TaskParts ==
  ASSUME NEW t \in Task
  PROVE  /\ t.op = "login" => t.who \in Subjects /\ t.id \in Staff \cup {NoUser}
         /\ t.op \in {"granted", "request"} => t.who \in Subjects /\ t.id \in Ids
         /\ t.op \in {"idle", "login", "granted", "request"}
BY DEF Task, IdleTask

(* An id that two people may have carried is the one number of both. *)
LEMMA CommonId ==
  ASSUME NEW s \in Subjects, NEW t \in Subjects, s # t,
         NEW id \in {s} \cup Numbers[s], id \in {t} \cup Numbers[t]
  PROVE  Numbers[s] = {id} /\ Numbers[t] = {id}
BY NamesAssumption, NumbersAssumption

(* Nobody carries an id that is or was somebody else's. *)
LEMMA HeldOnce ==
  ASSUME OneAccountEach, NEW s \in Subjects, NEW t \in Subjects, NEW id,
         Held(account, s, id), Held(account, t, id)
  PROVE  s = t
BY CommonId DEF Held, OneAccountEach

(* An id without an account is carried by nobody but those who may get it. *)
LEMMA FreshId ==
  ASSUME OneAccountEach, NEW s \in Subjects, NEW t \in Subjects, NEW id,
         id \notin users, Held(account, s, id), id \in {t} \cup Numbers[t]
  PROVE  s = t
BY CommonId DEF Held, OneAccountEach

-----------------------------------------------------------------------------
(* What a login does, first or returning: subject s has account new. *)
LogsIn(r, s, new) ==
    /\ new \in {s} \cup Numbers[s]
    /\ new = account[s] \/ new \notin users
    /\ \A x : Numbers[s] = {x} /\ account[s] = x => new = x
    /\ account' = [account EXCEPT ![s] = new]
    /\ users' = (users \ {account[s]}) \cup {new}
    /\ owner' = [w \in Works |-> IF w \in Components /\ owner[w] = account[s] /\ account[s] # NoUser
                                 THEN new ELSE owner[w]]
    /\ \/ admins' = admins \ {account[s], new}
       \/ /\ admins' = (admins \ {account[s], new}) \cup {new}
          /\ s \in AdminNames \/ Numbers[s] \cap AdminNames # {}
    /\ handler' = [handler EXCEPT ![r] = [op |-> "granted", who |-> s, id |-> new]]
    /\ UNCHANGED <<session, author>>

LEMMA FirstLogsIn ==
  ASSUME IdentityInv, NEW r \in Requests, FirstLogin(r)
  PROVE  \E s \in Subjects : \E new \in Ids : LogsIn(r, s, new)
<1> DEFINE s == handler[r].who
           n == handler[r].id
           new == IF n = NoUser THEN s ELSE n
<1> USE NamesAssumption, NumbersAssumption DEF IdentityInv, TypeOK
<1>1. s \in Subjects /\ n \in Staff \cup {NoUser}
  BY TaskParts DEF FirstLogin
<1>2. n \in Numbers[s] \cup {NoUser}
  BY DEF FirstLogin, HeldHandlers
<1>3. new \in {s} \cup Numbers[s] /\ new \in Ids
  BY <1>1, <1>2
<1>4. account[s] = NoUser /\ NoUser \notin users /\ NoUser \notin admins
  BY DEF FirstLogin
<1>5. users' = (users \ {account[s]}) \cup {new}
  BY <1>4 DEF FirstLogin
<1>6. owner' = [w \in Works |-> IF w \in Components /\ owner[w] = account[s] /\ account[s] # NoUser
                                THEN new ELSE owner[w]]
  <2>1. owner' = owner
    BY DEF FirstLogin
  <2> QED
    BY <1>4, <2>1
<1>7. \/ admins' = admins \ {account[s], new}
      \/ /\ admins' = (admins \ {account[s], new}) \cup {new}
         /\ s \in AdminNames \/ Numbers[s] \cap AdminNames # {}
  BY <1>2, <1>4 DEF FirstLogin, Granted, ListedAdmin
<1>8. handler' = [handler EXCEPT ![r] = [op |-> "granted", who |-> s, id |-> new]]
      /\ UNCHANGED <<session, author>>
  BY DEF FirstLogin, Becomes
<1>9. account' = [account EXCEPT ![s] = new] /\ new \notin users
  BY DEF FirstLogin
<1>10. \A x : Numbers[s] = {x} /\ account[s] = x => new = x
  BY <1>1, <1>4
<1>11. LogsIn(r, s, new)
  BY <1>3, <1>5, <1>6, <1>7, <1>8, <1>9, <1>10 DEF LogsIn
<1> QED
  BY <1>1, <1>3, <1>11

LEMMA ReturningLogsIn ==
  ASSUME IdentityInv, NEW r \in Requests, ReturningLogin(r)
  PROVE  \E s \in Subjects : \E new \in Ids : LogsIn(r, s, new)
<1> DEFINE s == handler[r].who
           n == handler[r].id
           old == account[s]
           new == IF n = NoUser THEN old ELSE n
<1> USE NamesAssumption, NumbersAssumption DEF IdentityInv, TypeOK
<1>1. s \in Subjects /\ n \in Staff \cup {NoUser}
  BY TaskParts DEF ReturningLogin
<1>2. n \in Numbers[s] \cup {NoUser}
  BY DEF ReturningLogin, HeldHandlers
<1>3. old # NoUser /\ old \in users /\ old \in {s} \cup Numbers[s]
  BY <1>1 DEF ReturningLogin, OneAccountEach, HeldAccounts
<1>4. new \in {s} \cup Numbers[s] /\ new \in Ids
  BY <1>1, <1>2, <1>3
<1>5. new = old \/ new \notin users
  BY DEF ReturningLogin
<1>6. users' = (users \ {old}) \cup {new}
  BY <1>3 DEF ReturningLogin, RekeyedUsers
<1>7. account' = [account EXCEPT ![s] = new]
  <2>1. \A t \in Subjects : account[t] = old => t = s
    BY <1>1, <1>3 DEF OneAccountEach
  <2>2. account' = [t \in Subjects |-> IF account[t] = old THEN new ELSE account[t]]
    BY DEF ReturningLogin
  <2> QED
    BY <1>1, <2>1, <2>2
<1>8. owner' = [w \in Works |-> IF w \in Components /\ owner[w] = old /\ old # NoUser
                                THEN new ELSE owner[w]]
  <2>1. CASE new = old
    <3>1. owner' = owner
      BY <2>1 DEF ReturningLogin
    <3> QED
      BY <2>1, <3>1
  <2>2. CASE new # old
    <3>1. owner' = RekeyedOwners(old, new)
      BY <2>2 DEF ReturningLogin
    <3> QED
      BY <1>3, <3>1 DEF RekeyedOwners
  <2> QED
    BY <2>1, <2>2
<1>9. \/ admins' = admins \ {old, new}
      \/ /\ admins' = (admins \ {old, new}) \cup {new}
         /\ s \in AdminNames \/ Numbers[s] \cap AdminNames # {}
  BY <1>2 DEF ReturningLogin, Granted, ListedAdmin
<1>10. \A x : Numbers[s] = {x} /\ old = x => new = x
  BY <1>2
<1>11. handler' = [handler EXCEPT ![r] = [op |-> "granted", who |-> s, id |-> new]]
       /\ UNCHANGED <<session, author>>
  BY DEF ReturningLogin, Becomes
<1>12. LogsIn(r, s, new)
  BY <1>4, <1>5, <1>6, <1>7, <1>8, <1>9, <1>10, <1>11 DEF LogsIn
<1> QED
  BY <1>1, <1>4, <1>12

(* A login takes no id away from those who carry it. *)
LEMMA LoginHeld ==
  ASSUME IdentityInv, NEW r \in Requests, NEW s \in Subjects, NEW new \in Ids,
         LogsIn(r, s, new)
  PROVE  /\ \A t \in Subjects : \A id : Held(account, t, id) => Held(account', t, id)
         /\ Held(account', s, new)
<1> USE NamesAssumption DEF IdentityInv, TypeOK
<1>1. account'[s] = new /\ new # NoUser
  BY DEF LogsIn
<1>2. \A t \in Subjects : t # s => account'[t] = account[t]
  BY DEF LogsIn
<1>3. Held(account', s, new)
  BY <1>1 DEF LogsIn, Held
<1>4. ASSUME NEW t \in Subjects, NEW id, Held(account, t, id)
      PROVE  Held(account', t, id)
  <2>1. CASE t # s
    BY <1>2, <1>4, <2>1 DEF Held
  <2>2. CASE t = s
    <3>1. Numbers[s] = {id} => account[s] = id
      BY <1>4, <2>2 DEF Held
    <3>2. Numbers[s] = {id} => account'[s] = id
      BY <1>1, <3>1 DEF LogsIn
    <3> QED
      BY <1>1, <1>4, <2>2, <3>2 DEF Held
  <2> QED
    BY <2>1, <2>2
<1> QED
  BY <1>3, <1>4

LEMMA LoginTypeOK ==
  ASSUME IdentityInv, NEW r \in Requests, NEW s \in Subjects, NEW new \in Ids,
         LogsIn(r, s, new)
  PROVE  TypeOK'
<1> USE NamesAssumption, NumbersAssumption DEF IdentityInv, TypeOK
<1>1. users' \subseteq Ids /\ admins' \subseteq Ids
  BY DEF LogsIn
<1>2. account' \in [Subjects -> Ids \cup {NoUser}]
  BY DEF LogsIn
<1>3. owner' \in [Works -> Ids \cup {NoUser}]
  BY DEF LogsIn
<1>4. handler' \in [Requests -> Task]
  <2>1. [op |-> "granted", who |-> s, id |-> new] \in Task
    BY DEF Task
  <2> QED
    BY <2>1 DEF LogsIn
<1> QED
  BY <1>1, <1>2, <1>3, <1>4 DEF LogsIn

LEMMA LoginAccounts ==
  ASSUME IdentityInv, NEW r \in Requests, NEW s \in Subjects, NEW new \in Ids,
         LogsIn(r, s, new)
  PROVE  OneAccountEach' /\ HeldAccounts' /\ AdminsAreListed'
<1> USE NamesAssumption DEF IdentityInv, TypeOK
<1>1. account'[s] = new /\ new # NoUser
  BY DEF LogsIn
<1>2. \A t \in Subjects : t # s => account'[t] = account[t]
  BY DEF LogsIn
<1>3. \A t \in Subjects : t # s => account[t] # new
  BY DEF LogsIn, OneAccountEach
<1>4. \A t, u \in Subjects : account'[t] = account'[u] /\ account'[t] # NoUser => t = u
  BY <1>1, <1>2, <1>3 DEF OneAccountEach
<1>5. users' = {account'[t] : t \in Subjects} \ {NoUser}
  <2>1. \A id \in users' : id # NoUser /\ \E t \in Subjects : account'[t] = id
    BY <1>1, <1>2 DEF LogsIn, OneAccountEach
  <2>2. \A t \in Subjects : account'[t] # NoUser => account'[t] \in users'
    BY <1>1, <1>2, <1>3 DEF LogsIn, OneAccountEach
  <2> QED
    BY <2>1, <2>2
<1>6. HeldAccounts'
  BY <1>1, <1>2 DEF LogsIn, HeldAccounts
<1>7. admins' \subseteq users'
  BY DEF LogsIn, AdminsAreListed
<1>8. ASSUME NEW t \in Subjects, account'[t] \in admins'
      PROVE  t \in AdminNames \/ Numbers[t] \cap AdminNames # {}
  <2>1. CASE t = s
    BY <1>1, <1>8, <2>1 DEF LogsIn
  <2>2. CASE t # s
    BY <1>2, <1>3, <1>8, <2>2 DEF LogsIn, AdminsAreListed
  <2> QED
    BY <2>1, <2>2
<1> QED
  BY <1>4, <1>5, <1>6, <1>7, <1>8 DEF OneAccountEach, AdminsAreListed

LEMMA LoginSessions ==
  ASSUME IdentityInv, NEW r \in Requests, NEW s \in Subjects, NEW new \in Ids,
         LogsIn(r, s, new)
  PROVE  SessionsBelong' /\ HeldSessions'
<1> USE DEF IdentityInv, TypeOK
<1>1. account'[s] = new /\ \A t \in Subjects : t # s => account'[t] = account[t]
  BY DEF LogsIn
<1>2. HeldSessions'
  BY LoginHeld DEF LogsIn, HeldSessions
<1>3. ASSUME NEW t \in Subjects, NEW id \in session[t], id \in users'
      PROVE  id = account'[t]
  <2>1. Held(account, t, id)
    BY DEF HeldSessions
  <2>2. CASE id \in users
    <3>1. id = account[t]
      BY <2>2 DEF SessionsBelong
    <3>2. CASE t = s
      BY <1>1, <1>3, <3>1, <3>2 DEF LogsIn
    <3>3. CASE t # s
      BY <1>1, <3>1, <3>3
    <3> QED
      BY <3>2, <3>3
  <2>3. CASE id \notin users
    <3>1. id = new
      BY <1>3, <2>3 DEF LogsIn
    <3>2. t = s
      BY <2>1, <2>3, <3>1, FreshId DEF LogsIn
    <3> QED
      BY <1>1, <3>1, <3>2
  <2> QED
    BY <2>2, <2>3
<1> QED
  BY <1>2, <1>3 DEF SessionsBelong, LogsIn

(* A component follows its owner's account; nobody else's work is moved. *)
LEMMA LoginWorks ==
  ASSUME IdentityInv, NEW r \in Requests, NEW s \in Subjects, NEW new \in Ids,
         LogsIn(r, s, new)
  PROVE  HeldWorks' /\ \A c \in Components : Owns(c) => Owns(c)'
<1> USE NamesAssumption DEF IdentityInv, TypeOK
<1>1. account'[s] = new /\ new # NoUser /\ author' = author
  BY DEF LogsIn
<1>2. \A t \in Subjects : t # s => account'[t] = account[t]
  BY DEF LogsIn
<1>3. \A w \in Works : owner'[w] = IF w \in Components /\ owner[w] = account[s] /\ account[s] # NoUser
                                   THEN new ELSE owner[w]
  BY DEF LogsIn
<1>4. ASSUME NEW w \in Works, author[w] # NoUser
      PROVE  Held(account', author'[w], owner'[w])
  <2>1. author[w] \in Subjects /\ Held(account, author[w], owner[w])
    BY <1>4 DEF HeldWorks
  <2>2. CASE owner'[w] = owner[w]
    BY <1>1, <2>1, <2>2, LoginHeld
  <2>3. CASE owner'[w] # owner[w]
    <3>1. owner[w] = account[s] /\ account[s] # NoUser /\ owner'[w] = new
      BY <1>3, <2>3
    <3>2. Held(account, s, owner[w])
      BY <3>1 DEF Held, HeldAccounts
    <3>3. author[w] = s
      BY <2>1, <3>2, HeldOnce
    <3> QED
      BY <1>1, <3>1, <3>3, LoginHeld
  <2> QED
    BY <2>2, <2>3
<1>5. HeldWorks'
  <2>1. \A w \in Works : author'[w] = NoUser <=> owner'[w] = NoUser
    BY <1>1, <1>3 DEF HeldWorks
  <2>2. \A w \in Works : author'[w] # NoUser => Held(account', author'[w], owner'[w])
    BY <1>1, <1>4
  <2> QED
    BY <2>1, <2>2 DEF HeldWorks
<1>6. ASSUME NEW c \in Components, Owns(c)
      PROVE  Owns(c)'
  <2>1. c \in Works /\ author[c] \in Subjects /\ owner[c] = account[author[c]]
    BY <1>6 DEF Owns
  <2>2. account[author[c]] # NoUser
    BY <1>6, <2>1 DEF Owns, HeldWorks, Held
  <2>3. CASE author[c] = s
    BY <1>1, <1>3, <1>6, <2>1, <2>2, <2>3 DEF Owns
  <2>4. CASE author[c] # s
    <3>1. owner[c] # account[s]
      BY <2>1, <2>2, <2>4 DEF OneAccountEach
    <3> QED
      BY <1>1, <1>2, <1>3, <1>6, <2>1, <2>4, <3>1 DEF Owns
  <2> QED
    BY <2>3, <2>4
<1> QED
  BY <1>5, <1>6

LEMMA LoginInv ==
  ASSUME IdentityInv, NEW r \in Requests, FirstLogin(r) \/ ReturningLogin(r)
  PROVE  /\ IdentityInv'
         /\ author' = author
         /\ \A c \in Components : Owns(c) => Owns(c)'
<1>1. PICK s \in Subjects, new \in Ids : LogsIn(r, s, new)
  BY FirstLogsIn, ReturningLogsIn
<1>2. TypeOK'
  BY <1>1, LoginTypeOK
<1>3. OneAccountEach' /\ HeldAccounts' /\ AdminsAreListed'
  BY <1>1, LoginAccounts
<1>4. SessionsBelong' /\ HeldSessions'
  BY <1>1, LoginSessions
<1>5. HeldWorks' /\ \A c \in Components : Owns(c) => Owns(c)'
  BY <1>1, LoginWorks
<1>6. HeldHandlers'
  <2>1. handler' = [handler EXCEPT ![r] = [op |-> "granted", who |-> s, id |-> new]]
    BY <1>1 DEF LogsIn
  <2>2. ASSUME NEW q \in Requests, handler'[q].op \in {"granted", "request"}
        PROVE  Held(account', handler'[q].who, handler'[q].id)
    <3>1. CASE q = r
      BY <1>1, <2>1, <3>1, LoginHeld DEF IdentityInv, TypeOK
    <3>2. CASE q # r
      <4>1. handler'[q] = handler[q]
        BY <2>1, <3>2 DEF IdentityInv, TypeOK
      <4>2. handler[q].who \in Subjects
        BY <2>2, <4>1, TaskParts DEF IdentityInv, TypeOK
      <4>3. Held(account, handler[q].who, handler[q].id)
        BY <2>2, <4>1 DEF IdentityInv, HeldHandlers
      <4> QED
        BY <1>1, <4>1, <4>2, <4>3, LoginHeld
    <3> QED
      BY <3>1, <3>2
  <2>3. ASSUME NEW q \in Requests, handler'[q].op = "login"
        PROVE  handler'[q].id \in Numbers[handler'[q].who] \cup {NoUser}
    BY <2>1, <2>3 DEF IdentityInv, TypeOK, HeldHandlers
  <2> QED
    BY <2>2, <2>3 DEF HeldHandlers
<1> QED
  BY <1>1, <1>2, <1>3, <1>4, <1>5, <1>6 DEF IdentityInv, LogsIn

-----------------------------------------------------------------------------
(* The steps that leave accounts alone *)
AccountsKept == UNCHANGED <<users, account, admins>>

LEMMA KeptHeld ==
  ASSUME AccountsKept
  PROVE  /\ \A s \in Subjects : \A id : Held(account, s, id) => Held(account', s, id)
         /\ OneAccountEach => OneAccountEach'
         /\ HeldAccounts => HeldAccounts'
         /\ AdminsAreListed => AdminsAreListed'
BY DEF AccountsKept, Held, OneAccountEach, HeldAccounts, AdminsAreListed

(* A handler moves on to a task that names an id its person carries. *)
LEMMA TakesTask ==
  ASSUME IdentityInv, AccountsKept, NEW r \in Requests, NEW t \in Task,
         handler' = [handler EXCEPT ![r] = t],
         t.op = "login" => t.id \in Numbers[t.who] \cup {NoUser},
         t.op \in {"granted", "request"} => Held(account, t.who, t.id)
  PROVE  HeldHandlers' /\ handler' \in [Requests -> Task]
<1> USE DEF IdentityInv, TypeOK
<1>1. handler' \in [Requests -> Task]
  OBVIOUS
<1>2. ASSUME NEW q \in Requests
      PROVE  /\ handler'[q].op = "login" => handler'[q].id \in Numbers[handler'[q].who] \cup {NoUser}
             /\ handler'[q].op \in {"granted", "request"} => Held(account, handler'[q].who, handler'[q].id)
  BY DEF HeldHandlers
<1>3. ASSUME NEW q \in Requests, handler'[q].op \in {"granted", "request"}
      PROVE  Held(account', handler'[q].who, handler'[q].id)
  <2>1. handler'[q].who \in Subjects
    BY <1>1, <1>3, TaskParts
  <2> QED
    BY <1>2, <1>3, <2>1, KeptHeld
<1> QED
  BY <1>1, <1>2, <1>3 DEF HeldHandlers

LEMMA ExchangeInv ==
  ASSUME IdentityInv, NEW r \in Requests, NEW s \in Subjects, NEW n \in Staff \cup {NoUser},
         Exchange(r, s, n)
  PROVE  IdentityInv'
<1> DEFINE t == [op |-> "login", who |-> s, id |-> n]
<1>1. t \in Task /\ AccountsKept /\ UNCHANGED <<session, owner, author>>
  BY DEF Task, Exchange, AccountsKept
<1>2. HeldHandlers' /\ handler' \in [Requests -> Task]
  BY <1>1, TakesTask DEF Exchange, Becomes
<1>3. HeldSessions' /\ HeldWorks' /\ SessionsBelong'
  BY <1>1 DEF IdentityInv, HeldSessions, HeldWorks, SessionsBelong, AccountsKept
<1> QED
  BY <1>1, <1>2, <1>3, KeptHeld DEF IdentityInv, TypeOK, AccountsKept

(* An id that has an account is carried by the person of that account alone. *)
LEMMA HeldExisting ==
  ASSUME IdentityInv, NEW s \in Subjects, NEW id \in users, Held(account, s, id)
  PROVE  id = account[s]
<1>1. PICK t \in Subjects : account[t] = id /\ id # NoUser
  BY DEF IdentityInv, OneAccountEach
<1>2. Held(account, t, id)
  BY <1>1 DEF IdentityInv, Held, HeldAccounts
<1> QED
  BY <1>1, <1>2, HeldOnce DEF IdentityInv

LEMMA EndsTask ==
  ASSUME IdentityInv, AccountsKept, NEW r \in Requests, Ends(r)
  PROVE  HeldHandlers' /\ handler' \in [Requests -> Task]
BY TakesTask DEF Ends, Task, IdleTask

LEMMA IssueSessionInv ==
  ASSUME IdentityInv, NEW r \in Requests, IssueSession(r)
  PROVE  IdentityInv'
<1> DEFINE s == handler[r].who
           id == handler[r].id
<1>1. AccountsKept /\ UNCHANGED <<owner, author>> /\ Ends(r)
  BY DEF IssueSession, AccountsKept
<1>2. s \in Subjects /\ id \in Ids /\ id \in users /\ Held(account, s, id)
  BY TaskParts DEF IssueSession, IdentityInv, TypeOK, HeldHandlers
<1>3. id = account[s]
  BY <1>2, HeldExisting
<1>4. session' = [session EXCEPT ![s] = @ \cup {id}]
  BY DEF IssueSession
<1>5. SessionsBelong' /\ HeldSessions' /\ session' \in [Subjects -> SUBSET Ids]
  BY <1>1, <1>2, <1>3, <1>4 DEF IdentityInv, TypeOK, SessionsBelong, HeldSessions, AccountsKept
<1>6. HeldHandlers' /\ handler' \in [Requests -> Task]
  BY <1>1, EndsTask
<1>7. HeldWorks'
  BY <1>1 DEF IdentityInv, HeldWorks, AccountsKept
<1> QED
  BY <1>1, <1>5, <1>6, <1>7, KeptHeld DEF IdentityInv, TypeOK, AccountsKept

LEMMA LoseSessionInv ==
  ASSUME IdentityInv, NEW s \in Subjects, NEW id \in Ids, LoseSession(s, id)
  PROVE  IdentityInv'
<1>1. AccountsKept /\ UNCHANGED <<owner, author, handler>>
  BY DEF LoseSession, AccountsKept
<1>2. session' \in [Subjects -> SUBSET Ids] /\ \A t \in Subjects : session'[t] \subseteq session[t]
  BY DEF LoseSession, IdentityInv, TypeOK
<1>3. SessionsBelong' /\ HeldSessions'
  BY <1>1, <1>2 DEF IdentityInv, SessionsBelong, HeldSessions, AccountsKept
<1>4. HeldHandlers' /\ HeldWorks'
  BY <1>1 DEF IdentityInv, HeldHandlers, HeldWorks, AccountsKept
<1> QED
  BY <1>1, <1>2, <1>3, <1>4, KeptHeld DEF IdentityInv, TypeOK, AccountsKept

LEMMA IdentifyInv ==
  ASSUME IdentityInv, NEW r \in Requests, NEW s \in Subjects, NEW id \in Ids,
         Identify(r, s, id)
  PROVE  IdentityInv'
<1> DEFINE t == [op |-> "request", who |-> s, id |-> id]
<1>1. t \in Task /\ AccountsKept /\ UNCHANGED <<session, owner, author>>
  BY DEF Task, Identify, AccountsKept
<1>2. Held(account, s, id)
  BY DEF Identify, IdentityInv, HeldSessions
<1>3. HeldHandlers' /\ handler' \in [Requests -> Task]
  BY <1>1, <1>2, TakesTask DEF Identify, Becomes
<1>4. HeldSessions' /\ HeldWorks' /\ SessionsBelong'
  BY <1>1 DEF IdentityInv, HeldSessions, HeldWorks, SessionsBelong, AccountsKept
<1> QED
  BY <1>1, <1>3, <1>4, KeptHeld DEF IdentityInv, TypeOK, AccountsKept

LEMMA AbandonInv ==
  ASSUME IdentityInv, NEW r \in Requests, Abandon(r)
  PROVE  IdentityInv'
<1>1. AccountsKept /\ UNCHANGED <<session, owner, author>> /\ Ends(r)
  BY DEF Abandon, AccountsKept
<1>2. HeldHandlers' /\ handler' \in [Requests -> Task]
  BY <1>1, EndsTask
<1>3. HeldSessions' /\ HeldWorks' /\ SessionsBelong'
  BY <1>1 DEF IdentityInv, HeldSessions, HeldWorks, SessionsBelong, AccountsKept
<1> QED
  BY <1>1, <1>2, <1>3, KeptHeld DEF IdentityInv, TypeOK, AccountsKept

(* What a handler writes is new, or was its own person's. *)
LEMMA WriteInv ==
  ASSUME IdentityInv, NEW r \in Requests, NEW w \in Works,
         Publish(r, w) \/ Comment(r, w)
  PROVE  /\ IdentityInv'
         /\ \A x \in Works : author[x] # NoUser => author'[x] = author[x]
         /\ \A c \in Components : Owns(c) => Owns(c)'
<1> DEFINE s == handler[r].who
           id == handler[r].id
<1> USE NamesAssumption
<1>1. AccountsKept /\ session' = session /\ Ends(r)
  BY DEF Publish, Comment, AccountsKept
<1>2. s \in Subjects /\ id \in Ids /\ Held(account, s, id)
  BY TaskParts DEF Publish, Comment, IdentityInv, TypeOK, HeldHandlers
<1>3. /\ owner[w] \in {NoUser, id}
      /\ owner' = [owner EXCEPT ![w] = id]
      /\ author' = [author EXCEPT ![w] = s]
  BY DEF Publish, Comment
<1>4. s # NoUser /\ id # NoUser
  BY <1>2
<1>5. author[w] # NoUser => author[w] = s /\ owner[w] = id
  <2>1. HAVE author[w] # NoUser
  <2>2. author[w] \in Subjects /\ Held(account, author[w], owner[w]) /\ owner[w] = id
    BY <1>3, <2>1 DEF IdentityInv, TypeOK, HeldWorks
  <2> QED
    BY <1>2, <2>2, HeldOnce DEF IdentityInv
<1>6. \A x \in Works : author[x] # NoUser => author'[x] = author[x] /\ owner'[x] = owner[x]
  BY <1>3, <1>5 DEF IdentityInv, TypeOK
<1>7. HeldHandlers' /\ handler' \in [Requests -> Task]
  BY <1>1, EndsTask
<1>8. HeldSessions' /\ SessionsBelong'
  BY <1>1 DEF IdentityInv, HeldSessions, SessionsBelong, AccountsKept
<1>9. HeldWorks'
  <2>1. account' = account
    BY <1>1 DEF AccountsKept
  <2> QED
    BY <1>2, <1>3, <1>4, <2>1 DEF IdentityInv, TypeOK, HeldWorks
<1>10. /\ owner' \in [Works -> Ids \cup {NoUser}]
       /\ author' \in [Works -> Subjects \cup {NoUser}]
  BY <1>2, <1>3 DEF IdentityInv, TypeOK
<1>11. \A c \in Components : Owns(c) => Owns(c)'
  BY <1>1, <1>6 DEF AccountsKept, Owns, IdentityInv, TypeOK
<1> QED
  BY <1>1, <1>6, <1>7, <1>8, <1>9, <1>10, <1>11, KeptHeld DEF IdentityInv, TypeOK, AccountsKept

LEMMA StutterInv ==
  ASSUME IdentityInv, UNCHANGED vars
  PROVE  IdentityInv'
<1>1. AccountsKept /\ UNCHANGED <<session, owner, author, handler>>
  BY DEF vars, AccountsKept
<1>2. HeldHandlers' /\ HeldSessions' /\ HeldWorks' /\ SessionsBelong'
  BY <1>1 DEF IdentityInv, HeldHandlers, HeldSessions, HeldWorks, SessionsBelong, AccountsKept
<1> QED
  BY <1>1, <1>2, KeptHeld DEF IdentityInv, TypeOK, AccountsKept

-----------------------------------------------------------------------------
(* The invariant, and what follows *)
LEMMA InitInv == Init => IdentityInv
<1> SUFFICES ASSUME Init
             PROVE  IdentityInv
  OBVIOUS
<1> USE NamesAssumption DEF Init
<1>1. TypeOK
  BY DEF TypeOK, Task
<1>2. OneAccountEach /\ SessionsBelong /\ AdminsAreListed
  BY DEF OneAccountEach, SessionsBelong, AdminsAreListed
<1>3. HeldAccounts /\ HeldSessions /\ HeldHandlers /\ HeldWorks
  BY DEF HeldAccounts, HeldSessions, HeldHandlers, HeldWorks, IdleTask
<1> QED
  BY <1>1, <1>2, <1>3 DEF IdentityInv

\* Everything a step does that the properties speak of.
StepKeeps ==
    /\ \A w \in Works : author[w] # NoUser => author'[w] = author[w]
    /\ \A c \in Components : Owns(c) => Owns(c)'

LEMMA StepInv ==
  ASSUME IdentityInv, [Next]_vars
  PROVE  IdentityInv' /\ StepKeeps
<1> DEFINE WorksKept == UNCHANGED <<account, owner, author>>
<1>1. WorksKept => StepKeeps
  BY DEF StepKeeps, Owns
<1>2. ASSUME NEW r \in Requests, LoginStep(r)
      PROVE  IdentityInv' /\ StepKeeps
  <2>1. ASSUME NEW s \in Subjects, NEW n \in Staff \cup {NoUser}, Exchange(r, s, n)
        PROVE  IdentityInv' /\ StepKeeps
    BY <1>1, <2>1, ExchangeInv DEF Exchange
  <2>2. CASE FirstLogin(r) \/ ReturningLogin(r)
    BY <2>2, LoginInv DEF StepKeeps
  <2>3. CASE IssueSession(r)
    BY <1>1, <2>3, IssueSessionInv DEF IssueSession
  <2> QED
    BY <1>2, <2>1, <2>2, <2>3 DEF LoginStep
<1>3. ASSUME NEW r \in Requests, WorkStep(r)
      PROVE  IdentityInv' /\ StepKeeps
  <2>1. ASSUME NEW s \in Subjects, NEW id \in Ids, Identify(r, s, id)
        PROVE  IdentityInv' /\ StepKeeps
    BY <1>1, <2>1, IdentifyInv DEF Identify
  <2>2. ASSUME NEW w \in Works, Publish(r, w) \/ Comment(r, w)
        PROVE  IdentityInv' /\ StepKeeps
    BY <2>2, WriteInv DEF StepKeeps
  <2> QED
    BY <1>3, <2>1, <2>2 DEF WorkStep
<1>4. ASSUME NEW r \in Requests, Abandon(r)
      PROVE  IdentityInv' /\ StepKeeps
  BY <1>1, <1>4, AbandonInv DEF Abandon
<1>5. ASSUME NEW s \in Subjects, NEW id \in Ids, LoseSession(s, id)
      PROVE  IdentityInv' /\ StepKeeps
  BY <1>1, <1>5, LoseSessionInv DEF LoseSession
<1>6. CASE UNCHANGED vars
  BY <1>1, <1>6, StutterInv DEF vars
<1> QED
  BY <1>2, <1>3, <1>4, <1>5, <1>6 DEF Next

LEMMA IdentityInvariance == Spec => []IdentityInv
BY InitInv, StepInv, PTL DEF Spec

(* Rows, cookies and handlers keep their shapes. *)
THEOREM IdentityTypeCorrect == Spec => []TypeOK
BY IdentityInvariance, PTL DEF IdentityInv

(* UpsertOIDCUser: two subjects never share an account. *)
THEOREM AccountsTheorem == Spec => []OneAccountEach
BY IdentityInvariance, PTL DEF IdentityInv

(* oidcUserFromRequest: a session that is honoured acts for its own person. *)
THEOREM SessionsTheorem == Spec => []SessionsBelong
BY IdentityInvariance, PTL DEF IdentityInv

(* oidcAdminUserID: only listed people's accounts have the admin role. *)
THEOREM AdminsTheorem == Spec => []AdminsAreListed
BY IdentityInvariance, PTL DEF IdentityInv

(* Store.Publish, CreateComment, UpdateOwnComment: nobody overwrites the work
   of another person, whatever re-keying happens while the request runs. *)
THEOREM WorkTheorem == Spec => WorkStaysWithPerson
<1>1. IdentityInv /\ [Next]_vars =>
        [\A w \in Works : author[w] # NoUser => author'[w] = author[w]]_vars
  BY StepInv DEF StepKeeps
<1> QED
  BY <1>1, IdentityInvariance, PTL DEF Spec, WorkStaysWithPerson

(* rekeyMarketUser: the owner of a component still owns it after any login. *)
THEOREM KeepsTheorem == Spec => LoginKeepsWork
<1>1. IdentityInv /\ [Next]_vars => [\A c \in Components : Owns(c) => Owns(c)']_vars
  BY StepInv DEF StepKeeps
<1> QED
  BY <1>1, IdentityInvariance, PTL DEF Spec, LoginKeepsWork
=============================================================================
