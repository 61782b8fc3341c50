---------------------------- MODULE ClientQueries ----------------------------
(***************************************************************************)
(* Queries of the clients' cvars (mplayer.cpp, and the hooks and mutil     *)
(* functions that use it): for each player the name of the cvar that is    *)
(* being queried, and the counter of the ids that tell the answers to      *)
(* pfnQueryClientCvarValue2 apart.                                         *)
(*                                                                         *)
(* Plugins and the game DLL run within ClientConnect, ClientDisconnect and *)
(* ServerDeactivate as well as in between, and may query a client or take  *)
(* an id at any of these points: the engine's calls are taken apart at the *)
(* point where Metamod's own code runs.                                    *)
(*                                                                         *)
(* The engine and the clients are external: a client answers or does not,  *)
(* and leaves with or without a call of ClientDisconnect (without, when it *)
(* has not been put in the server yet).                                    *)
(***************************************************************************)
EXTENDS Integers, FiniteSets

CONSTANTS
  MaxClients,  \* gpGlobals->maxClients
  MaxEdicts,   \* bound on the entities that a query may name
  Cvar,        \* names of cvars
  MaxRequests  \* bound on the ids taken in one map

ASSUME ClientsAssumption  == MaxClients \in Nat /\ MaxEdicts \in Nat
ASSUME RequestsAssumption == MaxRequests \in Nat

\* ENTINDEX of the entity that a query names: 0 is the world.
Edict  == 0..MaxEdicts
Player == 1..MaxClients

\* is_querying_cvar returns nullptr; and a query for nullptr.
None == "none"

ASSUME CvarAssumption == None \notin Cvar

\* A player's slot, as far as the engine's calls tell: ClientConnect is under
\* way or has accepted the client, ClientDisconnect is under way.
Client == {"free", "connecting", "connected", "leaving"}

VARIABLES
  queried, \* what is_querying_cvar returns: m_isQueried and g_cvarName
  counter, \* g_requestid_counter
  client,  \* the engine's and the client's side of each slot
  ending,  \* ServerDeactivate has been called and has not returned
  \* History of this map: the last cvar asked of the client since its
  \* ClientConnect; the clients that have a query to answer; the ids taken.
  asked, unanswered, taken

vars    == <<queried, counter, client, ending, asked, unanswered, taken>>
history == <<asked, unanswered, taken>>

Init ==
  /\ queried = [p \in Player |-> None]
  /\ counter = 0
  /\ client = [p \in Player |-> "free"]
  /\ ending = FALSE
  /\ asked = [p \in Player |-> None]
  /\ unanswered = {}
  /\ taken = {}

\* Mutant: the index is not compared with maxClients.
SetQueryUnchecked(e, cvar) ==
  queried' = IF cvar = None THEN queried
             ELSE [p \in DOMAIN queried \cup {e} |-> IF p = e THEN cvar ELSE queried[p]]

\* set_player_cvar_query
SetQuery(e, cvar) ==
  queried' = IF e \in Player /\ cvar # None THEN [queried EXCEPT ![e] = cvar] ELSE queried

\* pfnQueryClientCvarValue, of the game DLL or a plugin: noted before a plugin
\* may supersede it, and sent by the engine to clients that are there.
QueryClientCvarValue(e, cvar, superceded) ==
  /\ SetQuery(e, cvar)
  /\ IF e \in Player /\ cvar # None
     THEN /\ asked' = [asked EXCEPT ![e] = cvar]
          /\ unanswered' = IF superceded \/ client[e] = "free" THEN unanswered ELSE unanswered \cup {e}
     ELSE UNCHANGED <<asked, unanswered>>
  /\ UNCHANGED <<counter, client, ending, taken>>

\* pfnCvarValue: the list of players is not told.
CvarValue(p) ==
  /\ p \in unanswered
  /\ unanswered' = unanswered \ {p}
  /\ UNCHANGED <<queried, counter, client, ending, asked, taken>>

\* mutil_MakeRequestId, without the offset that all ids have.
MakeRequestId ==
  /\ counter < MaxRequests
  /\ counter' = counter + 1
  /\ taken' = taken \cup {counter'}
  /\ UNCHANGED <<queried, client, ending, asked, unanswered>>

----------------------------------------------------------------------------
(* Calls of the engine.                                                    *)

\* A new client: what was asked of the one before it is past.
Forget(p) ==
  /\ asked' = [asked EXCEPT ![p] = None]
  /\ unanswered' = unanswered \ {p}

\* mm_ClientConnect, before any plugin is called.  A client may connect again
\* without having left, as all do after a change of level.
ClientConnect(p) ==
  /\ client[p] \in {"free", "connected"}
  /\ client' = [client EXCEPT ![p] = "connecting"]
  /\ queried' = [queried EXCEPT ![p] = None]
  /\ Forget(p)
  /\ UNCHANGED <<counter, ending, taken>>

\* Mutant: the hook runs after the plugins.
ClientConnectPost(p, accepted) ==
  /\ client[p] = "connecting"
  /\ client' = [client EXCEPT ![p] = IF accepted THEN "connected" ELSE "free"]
  /\ queried' = [queried EXCEPT ![p] = None]
  /\ UNCHANGED <<counter, ending, history>>

\* The plugins and the game DLL have answered.
ClientConnectReturns(p, accepted) ==
  /\ client[p] = "connecting"
  /\ client' = [client EXCEPT ![p] = IF accepted THEN "connected" ELSE "free"]
  /\ UNCHANGED <<queried, counter, ending, history>>

\* mm_ClientDisconnect, before any plugin is called.
ClientDisconnect(p) ==
  /\ client[p] = "connected"
  /\ client' = [client EXCEPT ![p] = "leaving"]
  /\ queried' = [queried EXCEPT ![p] = None]
  /\ UNCHANGED <<counter, ending, history>>

\* ClientDisconnect has returned, or the client left before it was put in the
\* server and is not disconnected.
SlotFreed(p) ==
  /\ client[p] \in {"connected", "leaving"}
  /\ client' = [client EXCEPT ![p] = "free"]
  /\ UNCHANGED <<queried, counter, ending, history>>

\* Mutant: the counter starts again before plugins are called and refreshed.
ServerDeactivateResets ==
  /\ ~ending
  /\ ending' = TRUE
  /\ counter' = 0
  /\ UNCHANGED <<queried, client, history>>

\* mm_ServerDeactivate: the plugins, the game DLL and, in refresh, plugins that
\* are attached and detached may query and take ids.
ServerDeactivate ==
  /\ ~ending
  /\ ending' = TRUE
  /\ UNCHANGED <<queried, counter, client, history>>

\* Mutant: the queries of the players are not cleared.
ServerDeactivateKeepsQueries ==
  /\ ending
  /\ ending' = FALSE
  /\ counter' = 0
  /\ asked' = [p \in Player |-> None]
  /\ unanswered' = {}
  /\ taken' = {}
  /\ UNCHANGED <<queried, client>>

\* mm_ServerDeactivate after refresh: clear_all_cvar_queries, and the counter.
ServerDeactivateReturns ==
  /\ ending
  /\ ending' = FALSE
  /\ queried' = [p \in Player |-> None]
  /\ counter' = 0
  /\ asked' = [p \in Player |-> None]
  /\ unanswered' = {}
  /\ taken' = {}
  /\ UNCHANGED client

Next ==
  \/ \E e \in Edict, cvar \in Cvar \cup {None}, superceded \in BOOLEAN :
       QueryClientCvarValue(e, cvar, superceded)
  \/ MakeRequestId
  \/ \E p \in Player : \/ CvarValue(p)
                       \/ ClientConnect(p)
                       \/ \E accepted \in BOOLEAN : ClientConnectReturns(p, accepted)
                       \/ ClientDisconnect(p)
                       \/ SlotFreed(p)
  \/ ServerDeactivate
  \/ ServerDeactivateReturns

Spec == Init /\ [][Next]_vars

----------------------------------------------------------------------------
(* Properties.                                                             *)

\* Every variable has its type.
TypeOK ==
  /\ queried \in [Player -> Cvar \cup {None}]
  /\ counter \in 0..MaxRequests
  /\ client \in [Player -> Client]
  /\ ending \in BOOLEAN
  /\ asked \in [Player -> Cvar \cup {None}]
  /\ unanswered \subseteq Player
  /\ taken \subseteq 1..MaxRequests

\* The clients that ClientConnect has been called for.
Present == {p \in Player : client[p] \in {"connecting", "connected"}}

\* is_querying_cvar never names a query of a client that had the slot before,
\* or of the map before, whichever way the client left and whatever plugins
\* ask while they are told of it; of several queries it names the last.
NotedAsked == \A p \in Present : queried[p] # None => queried[p] = asked[p]

\* No query of a client is forgotten before its answer is there, be it one
\* made while the client connects.
PendingNoted == \A p \in Present : p \in unanswered => queried[p] # None

\* An id is taken once in a map, also by plugins that come and go at its end.
FreshIds == [][counter' > counter => counter' \notin taken]_vars
=============================================================================
