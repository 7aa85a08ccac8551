----------------------------- MODULE OIDCProofs -----------------------------
(***************************************************************************)
(* Proofs about late OIDC initialisation, for any number of requests.      *)
(***************************************************************************)
EXTENDS OIDCInit, TLAPS

USE DEF Providers, Kinds, Stages, ToStage

(* Before Open returns nobody asks for anything: no request can hold the
   mutex when Open sets the client. *)
StartsQuiet == ~serving => \A r \in Requests : request[r].stage = "none"

OIDCInv == TypeOK /\ ReadyNeverAsks /\ StartsQuiet

LEMMA InitOIDC == Init => OIDCInv
<1> SUFFICES ASSUME Init PROVE OIDCInv
  OBVIOUS
<1>1. [kind |-> "catalog", stage |-> "none"] \in [kind: Kinds, stage: Stages]
  OBVIOUS
<1>2. request \in [Requests -> [kind: Kinds, stage: Stages]]
  BY <1>1 DEF Init
<1>3. \A r \in Requests : request[r].stage = "none" /\ r # Free
  BY FreeAssumption DEF Init
<1> QED
  BY <1>2, <1>3 DEF Init, OIDCInv, TypeOK, ReadyNeverAsks, StartsQuiet

LEMMA NextOIDC == OIDCInv /\ [Next]_vars => OIDCInv'
<1> SUFFICES ASSUME OIDCInv, [Next]_vars PROVE OIDCInv'
  OBVIOUS
<1> USE FreeAssumption DEF OIDCInv, TypeOK, ReadyNeverAsks, StartsQuiet
<1>1. CASE Open
  <2>1. oidcMu = Free
    BY <1>1 DEF Open
  <2> QED
    BY <1>1, <2>1 DEF Open
<1>2. CASE ProviderChanges
  BY <1>2 DEF ProviderChanges
<1>3. ASSUME NEW r \in Requests, NEW kind \in Kinds, Arrive(r, kind)
      PROVE  OIDCInv'
  BY <1>3 DEF Arrive
<1>4. ASSUME NEW r \in Requests, Identify(r)
      PROVE  OIDCInv'
  BY <1>4 DEF Identify
<1>5. ASSUME NEW r \in Requests, Ensure(r)
      PROVE  OIDCInv'
  <2>1. CASE client /\ ToStage(r, "served") /\ UNCHANGED oidcMu
    BY <1>5, <2>1 DEF Ensure
  <2>2. CASE ~client /\ oidcMu' = r /\ ToStage(r, "discovering")
    BY <1>5, <2>2 DEF Ensure
  <2> QED
    BY <1>5, <2>1, <2>2 DEF Ensure
<1>6. ASSUME NEW r \in Requests, Discover(r)
      PROVE  OIDCInv'
  <2>1. CASE provider = "up" /\ client' = TRUE /\ ToStage(r, "served")
    BY <1>6, <2>1 DEF Discover
  <2>2. CASE provider = "refusing" /\ ToStage(r, "unavailable") /\ UNCHANGED client
    BY <1>6, <2>2 DEF Discover
  <2> QED
    BY <1>6, <2>1, <2>2 DEF Discover
<1>7. ASSUME NEW r \in Requests, Disconnect(r)
      PROVE  OIDCInv'
  BY <1>7 DEF Disconnect
<1>8. ASSUME NEW r \in Requests, Leave(r)
      PROVE  OIDCInv'
  BY <1>8 DEF Leave
<1>9. CASE UNCHANGED vars
  BY <1>9 DEF vars
<1> QED
  BY <1>1, <1>2, <1>3, <1>4, <1>5, <1>6, <1>7, <1>8, <1>9 DEF Next, Server

(* The mutex is held exactly by the request that asks the provider. *)
THEOREM OIDCTypeCorrect == Spec => []TypeOK
<1>1. OIDCInv => TypeOK
  BY DEF OIDCInv
<1> QED
  BY <1>1, InitOIDC, NextOIDC, PTL DEF Spec

(* Once there is a client the provider is never asked again. *)
THEOREM ReadyTheorem == Spec => []ReadyNeverAsks
<1>1. OIDCInv => ReadyNeverAsks
  BY DEF OIDCInv
<1> QED
  BY <1>1, InitOIDC, NextOIDC, PTL DEF Spec
=============================================================================
