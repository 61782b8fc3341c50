-------------------------- MODULE ClientQueriesProofs --------------------------
(***************************************************************************)
(* Theorems about ClientQueries for any number of clients, cvars and       *)
(* request ids.  The inductive invariant adds to the properties that a     *)
(* query noted for a client that is there is exactly the last one asked,   *)
(* that whoever has to answer was asked, and that the ids taken are those  *)
(* up to the counter.                                                      *)
(***************************************************************************)
EXTENDS ClientQueries, TLAPS

\* The slot of a client that is there.
SlotOK(p) == p \in Present => queried[p] = asked[p] /\ (p \in unanswered => asked[p] # None)

IInv ==
  /\ TypeOK
  /\ \A p \in Player : SlotOK(p)
  /\ taken = 1..counter

----------------------------------------------------------------------------
(* Every step keeps the invariant.                                         *)

LEMMA InitIInv == Init => IInv
<1> SUFFICES ASSUME Init PROVE IInv
  OBVIOUS
<1>1. taken = 1..counter /\ counter \in 0..MaxRequests /\ taken \subseteq 1..MaxRequests
  BY RequestsAssumption DEF Init
<1>2. TypeOK
  BY <1>1 DEF Init, TypeOK, Client
<1>3. \A p \in Player : SlotOK(p)
  BY DEF Init, SlotOK, Present
<1> QED BY <1>1, <1>2, <1>3 DEF IInv

\* A query is noted, for the player it names and only there.
LEMMA QueryStep ==
  ASSUME IInv, NEW e \in Edict, NEW cvar \in Cvar \cup {None}, NEW superceded \in BOOLEAN,
         QueryClientCvarValue(e, cvar, superceded)
  PROVE  IInv'
<1>1. CASE e \in Player /\ cvar # None
  <2>1. /\ queried' = [queried EXCEPT ![e] = cvar] /\ asked' = [asked EXCEPT ![e] = cvar]
        /\ unanswered' = unanswered \/ unanswered' = unanswered \cup {e}
        /\ UNCHANGED <<counter, client, ending, taken>>
    BY <1>1 DEF QueryClientCvarValue, SetQuery
  <2>2. TypeOK'
    BY <1>1, <2>1 DEF IInv, TypeOK
  <2>3. ASSUME NEW p \in Player PROVE SlotOK(p)'
    <3>1. CASE p = e
      BY <1>1, <2>1, <3>1 DEF IInv, TypeOK, SlotOK
    <3>2. CASE p # e
      BY <2>1, <3>2 DEF IInv, TypeOK, SlotOK, Present
    <3> QED BY <3>1, <3>2
  <2> QED BY <2>1, <2>2, <2>3 DEF IInv
<1>2. CASE ~(e \in Player /\ cvar # None)
  <2>1. UNCHANGED vars
    BY <1>2 DEF QueryClientCvarValue, SetQuery, vars
  <2> QED BY <2>1 DEF vars, IInv, TypeOK, SlotOK, Present
<1> QED BY <1>1, <1>2

LEMMA CvarValueStep ==
  ASSUME IInv, NEW p \in Player, CvarValue(p)
  PROVE  IInv'
BY DEF CvarValue, IInv, TypeOK, SlotOK, Present

\* The counter grows by one, and so does what has been taken.
LEMMA MakeRequestIdStep ==
  ASSUME IInv, MakeRequestId
  PROVE  IInv' /\ counter' \notin taken
<1>1. /\ counter \in 0..MaxRequests /\ counter < MaxRequests /\ counter' = counter + 1
      /\ taken = 1..counter /\ taken' = taken \cup {counter'}
      /\ UNCHANGED <<queried, client, ending, asked, unanswered>>
  BY DEF MakeRequestId, IInv, TypeOK
<1>2. counter' \in 0..MaxRequests /\ taken' = 1..counter' /\ counter' \notin taken
  BY <1>1, RequestsAssumption
<1>3. taken' \subseteq 1..MaxRequests
  BY <1>2, RequestsAssumption
<1> QED BY <1>1, <1>2, <1>3 DEF IInv, TypeOK, SlotOK, Present

LEMMA ClientConnectStep ==
  ASSUME IInv, NEW p \in Player, ClientConnect(p)
  PROVE  IInv'
<1>1. /\ client' = [client EXCEPT ![p] = "connecting"]
      /\ queried' = [queried EXCEPT ![p] = None] /\ asked' = [asked EXCEPT ![p] = None]
      /\ unanswered' = unanswered \ {p} /\ UNCHANGED <<counter, ending, taken>>
  BY DEF ClientConnect, Forget
<1>2. TypeOK'
  BY <1>1 DEF IInv, TypeOK, Client
<1>3. ASSUME NEW q \in Player PROVE SlotOK(q)'
  <2>1. CASE q = p
    BY <1>1, <2>1 DEF IInv, TypeOK, SlotOK
  <2>2. CASE q # p
    BY <1>1, <2>2 DEF IInv, TypeOK, SlotOK, Present
  <2> QED BY <2>1, <2>2
<1> QED BY <1>1, <1>2, <1>3 DEF IInv

\* A client that was connecting is there or gone; one that is there leaves.
LEMMA ClientStep ==
  ASSUME IInv, NEW p \in Player,
         \/ \E accepted \in BOOLEAN : ClientConnectReturns(p, accepted)
         \/ ClientDisconnect(p)
         \/ SlotFreed(p)
  PROVE  IInv'
<1>1. PICK st \in Client : /\ client' = [client EXCEPT ![p] = st]
                           /\ st = "connected" => client[p] = "connecting"
                           /\ st # "connecting"
  BY DEF ClientConnectReturns, ClientDisconnect, SlotFreed, Client
<1>2. /\ UNCHANGED <<counter, ending, asked, unanswered, taken>>
      /\ \A q \in Player : q # p => queried'[q] = queried[q]
      /\ st = "connected" => queried' = queried
      /\ queried' \in [Player -> Cvar \cup {None}]
  BY <1>1 DEF ClientConnectReturns, ClientDisconnect, SlotFreed, IInv, TypeOK, history
<1>3. TypeOK'
  BY <1>1, <1>2 DEF IInv, TypeOK
<1>4. ASSUME NEW q \in Player PROVE SlotOK(q)'
  <2>1. CASE q = p
    BY <1>1, <1>2, <2>1 DEF IInv, TypeOK, SlotOK, Present
  <2>2. CASE q # p
    BY <1>1, <1>2, <2>2 DEF IInv, TypeOK, SlotOK, Present
  <2> QED BY <2>1, <2>2
<1> QED BY <1>2, <1>3, <1>4 DEF IInv

LEMMA MapEndStep ==
  ASSUME IInv, ServerDeactivate \/ ServerDeactivateReturns
  PROVE  IInv' /\ ~(counter' > counter)
<1>1. counter \in Nat
  BY RequestsAssumption DEF IInv, TypeOK
<1>2. CASE ServerDeactivate
  BY <1>1, <1>2 DEF ServerDeactivate, history, IInv, TypeOK, SlotOK, Present
<1>3. CASE ServerDeactivateReturns
  <2>1. /\ counter' = 0 /\ taken' = {} /\ UNCHANGED client /\ unanswered' = {} /\ ending' = FALSE
        /\ queried' = [p \in Player |-> None] /\ asked' = [p \in Player |-> None]
    BY <1>3 DEF ServerDeactivateReturns
  <2>2. taken' = 1..counter' /\ counter' \in 0..MaxRequests /\ taken' \subseteq 1..MaxRequests
        /\ ~(counter' > counter)
    BY <1>1, <2>1, RequestsAssumption
  <2>3. TypeOK'
    BY <2>1, <2>2 DEF IInv, TypeOK
  <2>4. ASSUME NEW p \in Player PROVE SlotOK(p)'
    BY <2>1 DEF SlotOK
  <2> QED BY <2>2, <2>3, <2>4 DEF IInv
<1> QED BY <1>2, <1>3

\* IInv is inductive, and an id that is taken is new.
THEOREM NextIInv == IInv /\ [Next]_vars => IInv' /\ (counter' > counter => counter' \notin taken)
<1> SUFFICES ASSUME IInv, [Next]_vars
             PROVE  IInv' /\ (counter' > counter => counter' \notin taken)
  OBVIOUS
<1>1. counter \in Nat
  BY RequestsAssumption DEF IInv, TypeOK
<1>2. CASE UNCHANGED vars
  BY <1>1, <1>2 DEF vars, IInv, TypeOK, SlotOK, Present
<1>3. CASE MakeRequestId
  BY <1>3, MakeRequestIdStep
<1>4. CASE ServerDeactivate \/ ServerDeactivateReturns
  BY <1>4, MapEndStep
<1>5. ASSUME NEW e \in Edict, NEW cvar \in Cvar \cup {None}, NEW superceded \in BOOLEAN,
             QueryClientCvarValue(e, cvar, superceded)
      PROVE  IInv' /\ counter' = counter
  BY <1>5, QueryStep DEF QueryClientCvarValue
<1>6. ASSUME NEW p \in Player,
             \/ CvarValue(p) \/ ClientConnect(p) \/ ClientDisconnect(p) \/ SlotFreed(p)
             \/ \E accepted \in BOOLEAN : ClientConnectReturns(p, accepted)
      PROVE  IInv' /\ counter' = counter
  <2>1. IInv'
    BY <1>6, CvarValueStep, ClientConnectStep, ClientStep
  <2>2. counter' = counter
    BY <1>6 DEF CvarValue, ClientConnect, ClientDisconnect, SlotFreed, ClientConnectReturns
  <2> QED BY <2>1, <2>2
<1>7. ~(counter > counter)
  BY <1>1
<1> QED BY <1>2, <1>3, <1>4, <1>5, <1>6, <1>7 DEF Next

\* IInv holds for ever.
THEOREM Invariance == Spec => []IInv
<1>1. IInv /\ [Next]_vars => IInv'
  BY NextIInv
<1> QED BY <1>1, InitIInv, PTL DEF Spec

----------------------------------------------------------------------------
(* What follows from it.                                                   *)

\* Type correctness.
THEOREM TypeCorrect == Spec => []TypeOK
<1>1. IInv => TypeOK
  BY DEF IInv
<1> QED BY <1>1, Invariance, PTL

\* The query that is_querying_cvar names is the client's own, of this map, and
\* the last one.
THEOREM NotedAskedHolds == Spec => []NotedAsked
<1>1. IInv => NotedAsked
  BY DEF IInv, NotedAsked, SlotOK, Present
<1> QED BY <1>1, Invariance, PTL

\* A query that waits for its answer is noted.
THEOREM PendingNotedHolds == Spec => []PendingNoted
<1>1. IInv => PendingNoted
  BY DEF IInv, PendingNoted, SlotOK, Present
<1> QED BY <1>1, Invariance, PTL

\* No request id is taken twice in a map.
THEOREM FreshIdsHolds == Spec => FreshIds
<1>1. IInv /\ [Next]_vars => (counter' > counter => counter' \notin taken)
  BY NextIInv
<1> QED BY <1>1, Invariance, PTL DEF FreshIds, Spec
=============================================================================
