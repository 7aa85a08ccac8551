------------------------------ MODULE OIDCInit ------------------------------
(***************************************************************************)
(* Late initialisation of the OIDC client.  Open tries the provider's      *)
(* discovery once and serves without it; each login tries again, holding   *)
(* oidcMu while the provider is asked.  Every other request reads the      *)
(* client under the same mutex to recognise a session.                     *)
(***************************************************************************)
CONSTANTS
    Requests,  \* requests in progress at the same time
    Free       \* holder of an unlocked mutex

ASSUME FreeAssumption == Free \notin Requests

VARIABLES
    provider,  \* "up", "refusing" (fails at once) or "silent" (does not answer)
    serving,   \* Open has returned
    client,    \* a.oidc # nil
    oidcMu,    \* the request that holds the mutex, or Free
    request    \* what each request does and how far it is

vars == <<provider, serving, client, oidcMu, request>>

Providers == {"up", "refusing", "silent"}
Kinds == {"login", "catalog"}
Stages == {"none", "waiting", "discovering", "served", "unavailable"}

Init ==
    /\ provider \in Providers
    /\ serving = FALSE /\ client = FALSE
    /\ oidcMu = Free
    /\ request = [r \in Requests |-> [kind |-> "catalog", stage |-> "none"]]

ToStage(r, stage) == request' = [request EXCEPT ![r].stage = stage]

\* Open: discovery without the mutex; a failure is logged and start-up goes on.
Open ==
    /\ ~serving /\ provider # "silent"
    /\ serving' = TRUE
    /\ client' = (provider = "up")
    /\ UNCHANGED <<provider, oidcMu, request>>

Arrive(r, kind) ==
    /\ serving
    /\ request[r].stage = "none"
    /\ request' = [request EXCEPT ![r] = [kind |-> kind, stage |-> "waiting"]]
    /\ UNCHANGED <<provider, serving, client, oidcMu>>

(* currentOIDCClient: lock, read, unlock.  With or without a client the
   request is served, as a signed-in or an anonymous one. *)
Identify(r) ==
    /\ request[r] = [kind |-> "catalog", stage |-> "waiting"]
    /\ oidcMu = Free
    /\ ToStage(r, "served")
    /\ UNCHANGED <<provider, serving, client, oidcMu>>

\* Mutants of ensureOIDCClient: discovery is repeated although there is a
\* client; discovery is left to start-up.
EnsureAlwaysDiscovers(r) ==
    /\ request[r] = [kind |-> "login", stage |-> "waiting"]
    /\ oidcMu = Free
    /\ oidcMu' = r /\ ToStage(r, "discovering")
    /\ UNCHANGED <<provider, serving, client>>
EnsureNeverRetries(r) ==
    /\ request[r] = [kind |-> "login", stage |-> "waiting"]
    /\ oidcMu = Free
    /\ ToStage(r, IF client THEN "served" ELSE "unavailable")
    /\ UNCHANGED <<provider, serving, client, oidcMu>>

(* ensureOIDCClient: lock; with a client unlock and go on, without one keep
   the mutex and ask the provider. *)
Ensure(r) ==
    /\ request[r] = [kind |-> "login", stage |-> "waiting"]
    /\ oidcMu = Free
    /\ \/ client /\ ToStage(r, "served") /\ UNCHANGED oidcMu
       \/ ~client /\ oidcMu' = r /\ ToStage(r, "discovering")
    /\ UNCHANGED <<provider, serving, client>>

\* Mutant: the error path returns without unlocking.
DiscoverLeaksLock(r) ==
    /\ request[r].stage = "discovering"
    /\ \/ provider = "up" /\ client' = TRUE /\ ToStage(r, "served") /\ oidcMu' = Free
       \/ provider = "refusing" /\ ToStage(r, "unavailable") /\ UNCHANGED <<client, oidcMu>>
    /\ UNCHANGED <<provider, serving>>

(* newOIDCClient returns while the mutex is held; the request's context is
   the only limit on how long that takes. *)
Discover(r) ==
    /\ request[r].stage = "discovering"
    /\ oidcMu' = Free
    /\ \/ provider = "up" /\ client' = TRUE /\ ToStage(r, "served")
       \/ provider = "refusing" /\ ToStage(r, "unavailable") /\ UNCHANGED client
    /\ UNCHANGED <<provider, serving>>

\* The browser gives up: discovery is cancelled, and a lock is never awaited
\* with the context.
Disconnect(r) ==
    /\ request[r].stage = "discovering"
    /\ oidcMu' = Free
    /\ ToStage(r, "none")
    /\ UNCHANGED <<provider, serving, client>>

Leave(r) ==
    /\ request[r].stage \in {"served", "unavailable"}
    /\ ToStage(r, "none")
    /\ UNCHANGED <<provider, serving, client, oidcMu>>

ProviderChanges == provider' \in Providers /\ UNCHANGED <<serving, client, oidcMu, request>>

Server(r) == Identify(r) \/ Ensure(r) \/ Discover(r) \/ Leave(r)

Next ==
    \/ Open
    \/ ProviderChanges
    \/ \E r \in Requests :
          \/ \E kind \in Kinds : Arrive(r, kind)
          \/ Server(r)
          \/ Disconnect(r)

Spec == Init /\ [][Next]_vars

(* The scheduler runs every goroutine that can run, and sync.Mutex in its
   starvation mode hands the lock to a waiter that has been passed over:
   strong fairness for the steps that take it.  Nothing makes the provider
   speak or the browser give up. *)
Fairness ==
    /\ WF_vars(Open)
    /\ \A r \in Requests : /\ SF_vars(Identify(r)) /\ SF_vars(Ensure(r))
                           /\ WF_vars(Discover(r)) /\ WF_vars(Leave(r))

FairSpec == Spec /\ Fairness

\* A provider that answers every discovery sooner or later.
ProviderAnswers ==
    /\ []<>(provider # "silent")
    /\ \A r \in Requests : SF_vars(Discover(r))

AnsweringSpec == FairSpec /\ ProviderAnswers

-----------------------------------------------------------------------------
(* Properties *)

\* The mutex is held exactly by the request that is asking the provider.
TypeOK ==
    /\ provider \in Providers
    /\ serving \in BOOLEAN /\ client \in BOOLEAN
    /\ request \in [Requests -> [kind: Kinds, stage: Stages]]
    /\ \A r \in Requests : request[r].stage = "discovering" <=> oidcMu = r
    /\ oidcMu \in Requests \cup {Free}

(* While there is a client nobody asks the provider again, so a provider that
   fails later takes neither the catalog nor the sessions with it. *)
ReadyNeverAsks == client => oidcMu = Free

(* Every request is answered as long as the provider answers (or refuses)
   every discovery: no path leaves the mutex locked. *)
AllAnswered ==
    \A r \in Requests : request[r].stage = "waiting" ~> request[r].stage # "waiting"

(* Logins recover without a restart: once the provider stays up, none is
   turned away any more. *)
LoginRecovers ==
    <>[](provider = "up") =>
        <>[](\A r \in Requests : request[r].stage # "unavailable")

(* "The catalog should remain available while a remote OIDC provider
   recovers" (Open, server.go:50): whatever the provider does, a catalog
   request that arrived is answered. *)
CatalogAvailable ==
    \A r \in Requests :
        request[r] = [kind |-> "catalog", stage |-> "waiting"] ~> request[r].stage = "served"
=============================================================================
