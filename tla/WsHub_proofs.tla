---------------------------- MODULE WsHub_proofs ----------------------------
(* Proofs about WsHub. The invariants are proved in layers, each from the    *)
(* ones before it: shape and index first (they need no arithmetic), then the *)
(* count and the limits, then timers and the hand-over of prices. And about  *)
(* InitialPrice, the prices of one slab as a client of the hub sees them.    *)
EXTENDS WsHub, InitialPrice, FiniteSetTheorems, SequenceTheorems, TLAPS

(* TypeOK without the counter: that it stays a natural number follows only   *)
(* from its being exact.                                                     *)
Shape ==
    /\ sock \in [Clients -> {"gone", "open", "closing"}]
    /\ authenticated \in [Clients -> BOOLEAN]
    /\ boundTo \in [Clients -> Slabs \union {NoSlab}]
    /\ subs \in [Clients -> SUBSET Channels]
    /\ slabClients \in [Slabs -> SUBSET Clients]
    /\ pending \subseteq Slabs /\ timers \subseteq Slabs /\ armed \subseteq Slabs
    /\ listening \in BOOLEAN
    /\ owed \subseteq Clients \X Slabs

(* A client whose socket is gone left nothing behind in its own set.         *)
GoneHasNothing == \A c \in Clients : sock[c] = "gone" => subs[c] = {}

Structure == Shape /\ GoneHasNothing /\ SlabIndexExact

----------------------------------------------------------------------------
(* Adding channels and indexing their slabs keeps the index exact.           *)
LEMMA AddKeepsIndex ==
    ASSUME NEW c \in Clients, NEW chs \in SUBSET Channels,
           Shape, SlabIndexExact,
           subs' = [subs EXCEPT ![c] = subs[c] \union chs],
           AddClientToSlabs(c, SlabsOf(chs))
    PROVE  SlabIndexExact'
  <1> SUFFICES ASSUME NEW s \in Slabs
               PROVE  slabClients'[s] = {d \in Clients : s \in SlabsOf(subs'[d])}
    BY DEF SlabIndexExact, SlabsOf
  <1>1. slabClients[s] = {d \in Clients : s \in SlabsOf(subs[d])}
    BY DEF SlabIndexExact
  <1>2. \A d \in Clients : subs'[d] = IF d = c THEN subs[c] \union chs ELSE subs[d]
    BY DEF Shape
  <1>3. SlabsOf(subs[c] \union chs) = SlabsOf(subs[c]) \union SlabsOf(chs)
    BY DEF SlabsOf
  <1>4. slabClients'[s] = IF s \in SlabsOf(chs) THEN slabClients[s] \union {c}
                                                ELSE slabClients[s]
    BY DEF AddClientToSlabs
  <1> QED  BY <1>1, <1>2, <1>3, <1>4

(* Removing channels and leaving the slabs S keeps the index exact when S    *)
(* holds every slab left without a channel and none that still has one.      *)
LEMMA RemoveKeepsIndex ==
    ASSUME NEW c \in Clients, NEW chs, NEW S,
           Shape, SlabIndexExact,
           subs' = [subs EXCEPT ![c] = subs[c] \ chs],
           SlabsOf(subs[c]) \ SlabsOf(subs[c] \ chs) \subseteq S,
           S \intersect SlabsOf(subs[c] \ chs) = {},
           RemoveClientFromSlabs(c, S)
    PROVE  SlabIndexExact'
  <1> SUFFICES ASSUME NEW s \in Slabs
               PROVE  slabClients'[s] = {d \in Clients : s \in SlabsOf(subs'[d])}
    BY DEF SlabIndexExact, SlabsOf
  <1>1. slabClients[s] = {d \in Clients : s \in SlabsOf(subs[d])}
    BY DEF SlabIndexExact
  <1>2. \A d \in Clients : subs'[d] = IF d = c THEN subs[c] \ chs ELSE subs[d]
    BY DEF Shape
  <1>3. SlabsOf(subs[c] \ chs) \subseteq SlabsOf(subs[c])
    BY DEF SlabsOf
  <1>4. slabClients'[s] = IF s \in S THEN slabClients[s] \ {c} ELSE slabClients[s]
    BY DEF RemoveClientFromSlabs
  <1> QED  BY <1>1, <1>2, <1>3, <1>4

(* The empty hub has the structure.                                          *)
LEMMA StructureInit == Init => Structure
  BY TokensBind DEF Init, Structure, Shape, GoneHasNothing, SlabIndexExact, SlabsOf, Channels

(* The slabs of a nonempty set of one slab's channels.                       *)
LEMMA OneSlab ==
    ASSUME NEW s, NEW chs, chs # {}, chs \subseteq ChannelsOf(s)
    PROVE  SlabsOf(chs) = {s}
  BY DEF SlabsOf, ChannelsOf

(* Every handler keeps index, subscriptions and shape in step.               *)
LEMMA StructureStep == Structure /\ [Next]_vars => Structure'
  <1> SUFFICES ASSUME Structure, [Next]_vars PROVE Structure'
    OBVIOUS
  <1> USE DEF Structure
  <1>1. ASSUME NEW c \in Clients, Register(c) PROVE Structure'
    <2>1. Shape' BY <1>1, TokensBind DEF Register, Shape, batching
    <2>2. GoneHasNothing' BY <1>1 DEF Register, GoneHasNothing, Shape
    <2>3. SlabIndexExact' BY <1>1 DEF Register, SlabIndexExact, SlabsOf
    <2> QED  BY <2>1, <2>2, <2>3
  <1>2. ASSUME NEW c \in Clients, Authenticate(c) PROVE Structure'
    <2>1. Shape' BY <1>2, TokensBind DEF Authenticate, Shape, batching
    <2>2. GoneHasNothing' BY <1>2 DEF Authenticate, GoneHasNothing
    <2>3. SlabIndexExact' BY <1>2 DEF Authenticate, SlabIndexExact, SlabsOf
    <2> QED  BY <2>1, <2>2, <2>3
  <1>3. ASSUME NEW c \in Clients, StartClosing(c) PROVE Structure'
    <2>1. Shape' BY <1>3 DEF StartClosing, Shape, batching, identity
    <2>2. GoneHasNothing' BY <1>3 DEF StartClosing, GoneHasNothing, Shape
    <2>3. SlabIndexExact' BY <1>3 DEF StartClosing, SlabIndexExact, SlabsOf
    <2> QED  BY <2>1, <2>2, <2>3
  <1>4. ASSUME NEW c \in Clients, Close(c) PROVE Structure'
    <2>1. Shape' BY <1>4 DEF Close, Shape, RemoveClientFromSlabs
    <2>2. GoneHasNothing' BY <1>4 DEF Close, GoneHasNothing, Shape
    <2>3. SlabIndexExact'
      <3>1. subs' = [subs EXCEPT ![c] = subs[c] \ subs[c]] BY <1>4 DEF Close
      <3>2. SlabsOf(subs[c] \ subs[c]) = {} BY DEF SlabsOf
      <3>3. RemoveClientFromSlabs(c, SlabsOf(subs[c])) BY <1>4 DEF Close
      <3> QED  BY <3>1, <3>2, <3>3, RemoveKeepsIndex
    <2> QED  BY <2>1, <2>2, <2>3
  <1>5. ASSUME NEW c \in Clients, SubscribeChannels(c) PROVE Structure'
    <2> PICK chs \in SUBSET (Channels \ subs[c]) :
           /\ chs # {}
           /\ \A s \in SlabsOf(chs) : MayUse(c, s)
           /\ subs' = [subs EXCEPT ![c] = subs[c] \union chs]
           /\ AddClientToSlabs(c, SlabsOf(chs))
           /\ UNCHANGED <<sock, identity, batching, listening, owed>>
      BY <1>5 DEF SubscribeChannels
    <2>1. Shape' BY DEF Shape, AddClientToSlabs, batching, identity
    <2>2. sock[c] # "gone" BY DEF SlabsOf, MayUse
    <2>3. GoneHasNothing' BY <2>2 DEF GoneHasNothing, Shape
    <2>4. SlabIndexExact' BY AddKeepsIndex
    <2> QED  BY <2>1, <2>3, <2>4
  <1>6. ASSUME NEW c \in Clients, NEW s \in Slabs, SubscribeSlab(c, s) PROVE Structure'
    <2> PICK chs \in SUBSET (ChannelsOf(s) \ subs[c]) :
           /\ chs # {}
           /\ subs' = [subs EXCEPT ![c] = subs[c] \union chs]
      BY <1>6 DEF SubscribeSlab
    <2>1. chs \in SUBSET Channels BY DEF Channels, ChannelsOf
    <2>2. Shape' BY <1>6, <2>1 DEF SubscribeSlab, Shape, AddClientToSlabs, batching, identity
    <2>3. GoneHasNothing' BY <1>6 DEF SubscribeSlab, MayUse, GoneHasNothing, Shape
    <2>4. AddClientToSlabs(c, SlabsOf(chs)) BY <1>6, OneSlab DEF SubscribeSlab
    <2>5. SlabIndexExact' BY <2>1, <2>4, AddKeepsIndex
    <2> QED  BY <2>2, <2>3, <2>5
  <1>7. ASSUME NEW c \in Clients, UnsubscribeChannels(c) PROVE Structure'
    <2> PICK chs \in SUBSET subs[c] :
           /\ subs' = [subs EXCEPT ![c] = subs[c] \ chs]
           /\ RemoveClientFromSlabs(c, SlabsLeft(c, chs))
           /\ owed' = {p \in owed : ~(p[1] = c /\ <<"price", p[2]>> \in chs)}
           /\ UNCHANGED <<sock, identity, listening>>
      BY <1>7 DEF UnsubscribeChannels
    <2>1. Shape' BY DEF Shape, RemoveClientFromSlabs, identity
    <2>2. GoneHasNothing' BY DEF GoneHasNothing, Shape
    <2>3. SlabsOf(subs[c]) \subseteq SlabsOf(chs) \union SlabsOf(subs[c] \ chs)
      BY DEF SlabsOf
    <2>4. SlabIndexExact' BY <2>3, RemoveKeepsIndex DEF SlabsLeft
    <2> QED  BY <2>1, <2>2, <2>4
  <1>8. ASSUME NEW c \in Clients, NEW s \in Slabs, UnsubscribeSlab(c, s) PROVE Structure'
    <2>1. Shape' BY <1>8 DEF UnsubscribeSlab, Shape, RemoveClientFromSlabs, identity
    <2>2. GoneHasNothing' BY <1>8 DEF UnsubscribeSlab, GoneHasNothing, Shape
    <2>3. {s} \intersect SlabsOf(subs[c] \ HeldOf(c, s)) = {}
      BY DEF SlabsOf, ChannelsOf, HeldOf, Shape, Channels
    <2>4. SlabsOf(subs[c]) \ SlabsOf(subs[c] \ HeldOf(c, s)) \subseteq {s}
      BY DEF SlabsOf, ChannelsOf, HeldOf, Shape, Channels
    <2>5. subs' = [subs EXCEPT ![c] = subs[c] \ HeldOf(c, s)]
      BY <1>8 DEF UnsubscribeSlab
    <2>6. SlabIndexExact' BY <1>8, <2>3, <2>4, <2>5, RemoveKeepsIndex DEF UnsubscribeSlab
    <2> QED  BY <2>1, <2>2, <2>6
  <1>9. ASSUME NEW s \in Slabs, PriceUpdated(s) PROVE Structure'
    <2>1. Shape' BY <1>9 DEF PriceUpdated, Shape, batching, identity
    <2>2. GoneHasNothing' BY <1>9 DEF PriceUpdated, GoneHasNothing
    <2>3. SlabIndexExact' BY <1>9 DEF PriceUpdated, SlabIndexExact, SlabsOf
    <2> QED  BY <2>1, <2>2, <2>3
  <1>10. ASSUME NEW s \in Slabs, FlushPriceUpdate(s) PROVE Structure'
    <2>1. Shape' BY <1>10 DEF FlushPriceUpdate, Shape, identity
    <2>2. GoneHasNothing' BY <1>10 DEF FlushPriceUpdate, GoneHasNothing
    <2>3. SlabIndexExact' BY <1>10 DEF FlushPriceUpdate, SlabIndexExact, SlabsOf
    <2> QED  BY <2>1, <2>2, <2>3
  <1>11. ASSUME Cleanup PROVE Structure'
    <2>1. Shape' BY <1>11 DEF Cleanup, Shape, identity
    <2>2. GoneHasNothing' BY <1>11 DEF Cleanup, GoneHasNothing
    <2>3. SlabIndexExact' BY <1>11 DEF Cleanup, SlabIndexExact, SlabsOf
    <2> QED  BY <2>1, <2>2, <2>3
  <1>12. CASE UNCHANGED vars
    BY <1>12 DEF vars, identity, batching, Shape, GoneHasNothing, SlabIndexExact, SlabsOf
  <1> QED
    BY <1>1, <1>2, <1>3, <1>4, <1>5, <1>6, <1>7, <1>8, <1>9, <1>10, <1>11, <1>12 DEF Next

(* Slab index and shape hold throughout: connectionsPerSlab is exactly the   *)
(* clients' subscriptions read from the other side.                          *)
THEOREM IndexCorrect == Spec => []SlabIndexExact
  <1>1. Structure => SlabIndexExact BY DEF Structure
  <1> QED  BY <1>1, StructureInit, StructureStep, PTL DEF Spec

(* The inductive invariant the other proofs rest on: the types of the maps,  *)
(* no state of a departed client, and the exact index.                       *)
THEOREM StructureHolds == Spec => []Structure
  BY StructureInit, StructureStep, PTL DEF Spec

----------------------------------------------------------------------------
(* The count of subscriptions. A union of disjoint finite sets has as many   *)
(* elements as both of them.                                                 *)
LEMMA DisjointUnionCount ==
    ASSUME NEW S, NEW T, IsFiniteSet(S), IsFiniteSet(T), S \intersect T = {}
    PROVE  /\ Cardinality(S) \in Nat /\ Cardinality(T) \in Nat
           /\ Cardinality(S \union T) = Cardinality(S) + Cardinality(T)
  <1>1. Cardinality(S) \in Nat BY FS_CardinalityType
  <1>2. Cardinality(T) \in Nat BY FS_CardinalityType
  <1>3. Cardinality(S \intersect T) = 0 BY FS_EmptySet
  <1>4. Cardinality(S \union T)
          = Cardinality(S) + Cardinality(T) - Cardinality(S \intersect T)
    BY FS_Union
  <1> QED  BY <1>1, <1>2, <1>3, <1>4

(* Cardinality of what is left without a subset.                             *)
LEMMA SubsetDifferenceCount ==
    ASSUME NEW S, NEW T, IsFiniteSet(S), T \subseteq S
    PROVE  Cardinality(S \ T) = Cardinality(S) - Cardinality(T)
  <1>1. S \intersect T = T OBVIOUS
  <1>2. Cardinality(S \ T) = Cardinality(S) - Cardinality(S \intersect T)
    BY FS_Difference
  <1> QED  BY <1>1, <1>2

(* There are finitely many subscriptions.                                    *)
LEMMA FinitePairs ==
    ASSUME Shape
    PROVE  /\ IsFiniteSet(Channels)
           /\ IsFiniteSet(SubscriptionPairs)
           /\ \A c \in Clients : IsFiniteSet(subs[c])
  <1>1. IsFiniteSet(ChannelTypes)
    <2>1. IsFiniteSet({"price"}) BY FS_Singleton
    <2>2. IsFiniteSet({"price"} \union {"trades"}) BY <2>1, FS_AddElement
    <2>3. IsFiniteSet(({"price"} \union {"trades"}) \union {"funding"})
      BY <2>2, FS_AddElement
    <2>4. ChannelTypes = ({"price"} \union {"trades"}) \union {"funding"}
      BY DEF ChannelTypes
    <2> QED  BY <2>3, <2>4
  <1>2. IsFiniteSet(Channels) BY <1>1, SlabsFinite, FS_Product DEF Channels
  <1>3. IsFiniteSet(Clients \X Channels) BY <1>2, ClientsFinite, FS_Product
  <1>4. IsFiniteSet(SubscriptionPairs) BY <1>3, FS_Subset DEF SubscriptionPairs
  <1>5. \A c \in Clients : IsFiniteSet(subs[c]) BY <1>2, FS_Subset DEF Shape
  <1> QED  BY <1>2, <1>4, <1>5

(* The subscriptions of one client are as many as its channels.              *)
LEMMA PairsOfOneClient ==
    ASSUME NEW c, NEW chs, IsFiniteSet(chs)
    PROVE  /\ IsFiniteSet({c} \X chs)
           /\ Cardinality({c} \X chs) = Cardinality(chs)
  <1>1. IsFiniteSet({c}) /\ Cardinality({c}) = 1 BY FS_Singleton
  <1>2. Cardinality(chs) \in Nat BY FS_CardinalityType
  <1> QED  BY <1>1, <1>2, FS_Product

(* A client that gains chs raises the number of pairs by Cardinality(chs).   *)
LEMMA CountAdd ==
    ASSUME Shape, NEW c \in Clients, NEW chs \in SUBSET (Channels \ subs[c]),
           subs' = [subs EXCEPT ![c] = subs[c] \union chs]
    PROVE  /\ IsFiniteSet(chs)
           /\ Cardinality(SubscriptionPairs') = Cardinality(SubscriptionPairs) + Cardinality(chs)
           /\ Cardinality(subs'[c]) = Cardinality(subs[c]) + Cardinality(chs)
  <1>1. IsFiniteSet(chs) BY FinitePairs, FS_Subset
  <1>2. SubscriptionPairs' = SubscriptionPairs \union ({c} \X chs)
    BY DEF SubscriptionPairs, Shape
  <1>3. SubscriptionPairs \intersect ({c} \X chs) = {}
    BY DEF SubscriptionPairs
  <1>4. IsFiniteSet({c} \X chs) /\ Cardinality({c} \X chs) = Cardinality(chs)
    BY <1>1, PairsOfOneClient
  <1>5. Cardinality(SubscriptionPairs') = Cardinality(SubscriptionPairs) + Cardinality(chs)
    BY <1>2, <1>3, <1>4, FinitePairs, DisjointUnionCount
  <1>6. subs'[c] = subs[c] \union chs /\ subs[c] \intersect chs = {} BY DEF Shape
  <1>7. Cardinality(subs'[c]) = Cardinality(subs[c]) + Cardinality(chs)
    BY <1>1, <1>6, FinitePairs, DisjointUnionCount
  <1> QED  BY <1>1, <1>5, <1>7

(* A client that loses chs lowers it by the number of them it held.          *)
LEMMA CountRemove ==
    ASSUME Shape, NEW c \in Clients, NEW chs,
           subs' = [subs EXCEPT ![c] = subs[c] \ chs]
    PROVE  /\ Cardinality(subs[c] \intersect chs) \in Nat
           /\ Cardinality(subs[c] \intersect chs) <= Cardinality(SubscriptionPairs)
           /\ Cardinality(SubscriptionPairs')
                = Cardinality(SubscriptionPairs) - Cardinality(subs[c] \intersect chs)
  <1> DEFINE held == subs[c] \intersect chs
  <1>1. IsFiniteSet(held) BY FinitePairs, FS_Subset
  <1>2. SubscriptionPairs' = SubscriptionPairs \ ({c} \X held)
    BY DEF SubscriptionPairs, Shape
  <1>3. {c} \X held \subseteq SubscriptionPairs
    BY DEF SubscriptionPairs, Shape
  <1>4. IsFiniteSet({c} \X held) /\ Cardinality({c} \X held) = Cardinality(held)
    BY <1>1, PairsOfOneClient
  <1>5. Cardinality(SubscriptionPairs) \in Nat /\ Cardinality(held) \in Nat
    BY <1>1, FinitePairs, FS_CardinalityType
  <1>6. Cardinality(SubscriptionPairs') = Cardinality(SubscriptionPairs) - Cardinality(held)
    BY <1>2, <1>4, <1>3, FinitePairs, SubsetDifferenceCount
  <1>8. Cardinality(held) <= Cardinality(SubscriptionPairs)
    BY <1>4, <1>3, FinitePairs, FS_Subset
  <1> QED  BY <1>5, <1>6, <1>8

(* No subscription is held at the start.                                     *)
LEMMA CountInit == Init => SubCountExact
  <1> SUFFICES ASSUME Init PROVE SubCountExact OBVIOUS
  <1>1. SubscriptionPairs = {} BY DEF Init, SubscriptionPairs
  <1> QED  BY <1>1, FS_EmptySet DEF Init, SubCountExact

(* Every handler changes the counter by what it adds to or drops from the    *)
(* subscriptions.                                                            *)
LEMMA CountStep == Structure /\ SubCountExact /\ [Next]_vars => SubCountExact'
  <1> SUFFICES ASSUME Structure, SubCountExact, [Next]_vars PROVE SubCountExact'
    OBVIOUS
  <1> USE DEF Structure
  <1>1. ASSUME NEW c \in Clients, SubscribeChannels(c) PROVE SubCountExact'
    <2> PICK chs \in SUBSET (Channels \ subs[c]) :
           /\ subs' = [subs EXCEPT ![c] = subs[c] \union chs]
           /\ globalSubs' = globalSubs + Cardinality(chs)
      BY <1>1 DEF SubscribeChannels
    <2> QED  BY CountAdd DEF SubCountExact
  <1>2. ASSUME NEW c \in Clients, NEW s \in Slabs, SubscribeSlab(c, s) PROVE SubCountExact'
    <2> PICK chs \in SUBSET (ChannelsOf(s) \ subs[c]) :
           /\ subs' = [subs EXCEPT ![c] = subs[c] \union chs]
           /\ globalSubs' = globalSubs + Cardinality(chs)
      BY <1>2 DEF SubscribeSlab
    <2>1. chs \in SUBSET (Channels \ subs[c]) BY DEF ChannelsOf, Channels
    <2> QED  BY <2>1, CountAdd DEF SubCountExact
  <1>3. ASSUME NEW c \in Clients, UnsubscribeChannels(c) PROVE SubCountExact'
    <2> PICK chs \in SUBSET subs[c] :
           /\ subs' = [subs EXCEPT ![c] = subs[c] \ chs]
           /\ globalSubs' = globalSubs - Cardinality(chs)
      BY <1>3 DEF UnsubscribeChannels
    <2>1. subs[c] \intersect chs = chs OBVIOUS
    <2> QED  BY <2>1, CountRemove DEF SubCountExact
  <1>4. ASSUME NEW c \in Clients, NEW s \in Slabs, UnsubscribeSlab(c, s) PROVE SubCountExact'
    <2>1. /\ subs' = [subs EXCEPT ![c] = subs[c] \ HeldOf(c, s)]
          /\ globalSubs' = globalSubs - Cardinality(HeldOf(c, s))
      BY <1>4 DEF UnsubscribeSlab
    <2> QED  BY <2>1, CountRemove DEF SubCountExact, HeldOf
  <1>5. ASSUME NEW c \in Clients, Close(c) PROVE SubCountExact'
    <2>1. /\ subs' = [subs EXCEPT ![c] = subs[c] \ subs[c]]
          /\ globalSubs' = IF globalSubs >= Cardinality(subs[c])
                             THEN globalSubs - Cardinality(subs[c]) ELSE 0
      BY <1>5 DEF Close, CountWithout
    <2>2. subs[c] \intersect subs[c] = subs[c] OBVIOUS
    <2>3. Cardinality(SubscriptionPairs) \in Nat BY FinitePairs, FS_CardinalityType
    <2> QED  BY <2>1, <2>2, <2>3, CountRemove DEF SubCountExact
  <1>6. CASE UNCHANGED <<subs, globalSubs>>
    BY <1>6 DEF SubCountExact, SubscriptionPairs
  <1> QED
    BY <1>1, <1>2, <1>3, <1>4, <1>5, <1>6
       DEF Next, vars, Register, Authenticate, StartClosing, PriceUpdated,
           FlushPriceUpdate, Cleanup

(* globalSubscriptionCount is the number of subscriptions held, whatever the *)
(* clients do: the Math.max(0, ...) of the close handler never bites.        *)
THEOREM CountCorrect == Spec => []SubCountExact
  BY StructureHolds, CountInit, CountStep, PTL DEF Spec

(* Every variable keeps its type; the counter never goes below zero.         *)
THEOREM TypeCorrect == Spec => []TypeOK
  <1>1. Structure /\ SubCountExact => TypeOK
    BY FinitePairs, FS_CardinalityType DEF Structure, Shape, SubCountExact, TypeOK
  <1> QED  BY <1>1, StructureHolds, CountCorrect, PTL

----------------------------------------------------------------------------
(* The limits. One more element raises a cardinality by one at most.         *)
LEMMA AddOneCount ==
    ASSUME NEW S, NEW x, NEW k \in Nat, IsFiniteSet(S), Cardinality(S) < k
    PROVE  Cardinality(S \union {x}) <= k
  <1>1. Cardinality(S) \in Nat BY FS_CardinalityType
  <1>2. Cardinality(S \union {x}) = IF x \in S THEN Cardinality(S) ELSE Cardinality(S) + 1
    BY FS_AddElement
  <1> QED  BY <1>1, <1>2

(* A subset of a finite set is no larger.                                    *)
LEMMA SmallerCount ==
    ASSUME NEW S, NEW T, NEW k \in Nat, IsFiniteSet(S), T \subseteq S,
           Cardinality(S) <= k
    PROVE  Cardinality(T) <= k
  <1>1. Cardinality(S) \in Nat BY FS_CardinalityType
  <1>2. IsFiniteSet(T) /\ Cardinality(T) <= Cardinality(S) BY FS_Subset
  <1>3. Cardinality(T) \in Nat BY <1>2, FS_CardinalityType
  <1> QED  BY <1>1, <1>2, <1>3

(* The clients in a slab are finitely many.                                  *)
LEMMA SlabClientsFinite ==
    ASSUME Shape, NEW s \in Slabs
    PROVE  IsFiniteSet(slabClients[s])
  BY ClientsFinite, FS_Subset DEF Shape

(* Joining slabs that have room keeps every slab within its limit.           *)
LEMMA JoinKeepsSlabLimit ==
    ASSUME Shape, WithinLimits, NEW c \in Clients, NEW S,
           \A s \in S : Cardinality(slabClients[s]) < MaxPerSlab,
           AddClientToSlabs(c, S), NEW s \in Slabs
    PROVE  Cardinality(slabClients'[s]) <= MaxPerSlab
  <1>1. CASE s \in S
    <2>1. slabClients'[s] = slabClients[s] \union {c} BY <1>1 DEF AddClientToSlabs
    <2>2. Cardinality(slabClients[s]) < MaxPerSlab BY <1>1
    <2>3. MaxPerSlab \in Nat BY LimitsPositive
    <2> QED  BY <2>1, <2>2, <2>3, SlabClientsFinite, AddOneCount
  <1>2. CASE s \notin S
    BY <1>2 DEF AddClientToSlabs, WithinLimits
  <1> QED  BY <1>1, <1>2

(* Leaving slabs cannot exceed a slab limit.                                 *)
LEMMA LeaveKeepsSlabLimit ==
    ASSUME Shape, WithinLimits, NEW c \in Clients, NEW S,
           RemoveClientFromSlabs(c, S), NEW s \in Slabs
    PROVE  Cardinality(slabClients'[s]) <= MaxPerSlab
  <1>1. Cardinality(slabClients[s]) <= MaxPerSlab BY DEF WithinLimits
  <1>2. slabClients'[s] \subseteq slabClients[s] BY DEF RemoveClientFromSlabs
  <1>3. MaxPerSlab \in Nat BY LimitsPositive
  <1> QED  BY <1>1, <1>2, <1>3, SlabClientsFinite, SmallerCount

(* Dropping channels cannot exceed a limit.                                  *)
LEMMA RemoveKeepsCounts ==
    ASSUME Shape, WithinLimits, NEW c \in Clients, NEW chs,
           subs' = [subs EXCEPT ![c] = subs[c] \ chs]
    PROVE  /\ Cardinality(SubscriptionPairs') <= MaxGlobal
           /\ \A d \in Clients : Cardinality(subs'[d]) <= MaxPerClient
  <1>1. MaxGlobal \in Nat /\ MaxPerClient \in Nat BY LimitsPositive
  <1>2. SubscriptionPairs' \subseteq SubscriptionPairs BY DEF SubscriptionPairs, Shape
  <1>3. Cardinality(SubscriptionPairs) <= MaxGlobal BY DEF WithinLimits
  <1>4. Cardinality(SubscriptionPairs') <= MaxGlobal
    BY <1>1, <1>2, <1>3, FinitePairs, SmallerCount
  <1>5. ASSUME NEW d \in Clients PROVE Cardinality(subs'[d]) <= MaxPerClient
    <2>1. subs'[d] \subseteq subs[d] BY DEF Shape
    <2>2. Cardinality(subs[d]) <= MaxPerClient BY DEF WithinLimits
    <2> QED  BY <1>1, <2>1, <2>2, FinitePairs, SmallerCount
  <1> QED  BY <1>4, <1>5

(* Adding channels that fit cannot either, given that the counter is exact.  *)
LEMMA AddKeepsCounts ==
    ASSUME Shape, SubCountExact, WithinLimits, NEW c \in Clients,
           NEW chs \in SUBSET (Channels \ subs[c]),
           globalSubs + Cardinality(chs) <= MaxGlobal,
           Cardinality(subs[c]) + Cardinality(chs) <= MaxPerClient,
           subs' = [subs EXCEPT ![c] = subs[c] \union chs]
    PROVE  /\ Cardinality(SubscriptionPairs') <= MaxGlobal
           /\ \A d \in Clients : Cardinality(subs'[d]) <= MaxPerClient
  <1>1. Cardinality(SubscriptionPairs') <= MaxGlobal BY CountAdd DEF SubCountExact
  <1>2. Cardinality(subs'[c]) <= MaxPerClient BY CountAdd
  <1>3. \A d \in Clients \ {c} : subs'[d] = subs[d] BY DEF Shape
  <1> QED  BY <1>1, <1>2, <1>3 DEF WithinLimits

(* The empty hub is within its limits.                                       *)
LEMMA LimitsInit == Init => WithinLimits
  <1> SUFFICES ASSUME Init PROVE WithinLimits OBVIOUS
  <1>1. SubscriptionPairs = {} BY DEF Init, SubscriptionPairs
  <1> QED  BY <1>1, FS_EmptySet, LimitsPositive DEF Init, WithinLimits

(* No handler takes the hub past a limit while the counter is exact.         *)
LEMMA LimitsStep ==
    Structure /\ SubCountExact /\ WithinLimits /\ [Next]_vars => WithinLimits'
  <1> SUFFICES ASSUME Structure, SubCountExact, WithinLimits, [Next]_vars
               PROVE  WithinLimits'
    OBVIOUS
  <1> USE DEF Structure
  <1>1. ASSUME NEW c \in Clients, SubscribeChannels(c) PROVE WithinLimits'
    <2> PICK chs \in SUBSET (Channels \ subs[c]) :
           /\ globalSubs + Cardinality(chs) <= MaxGlobal
           /\ Cardinality(subs[c]) + Cardinality(chs) <= MaxPerClient
           /\ \A s \in SlabsOf(chs) : Cardinality(slabClients[s]) < MaxPerSlab
           /\ subs' = [subs EXCEPT ![c] = subs[c] \union chs]
           /\ AddClientToSlabs(c, SlabsOf(chs))
      BY <1>1 DEF SubscribeChannels, HasRoom
    <2> QED  BY AddKeepsCounts, JoinKeepsSlabLimit DEF WithinLimits
  <1>2. ASSUME NEW c \in Clients, NEW s \in Slabs, SubscribeSlab(c, s) PROVE WithinLimits'
    <2> PICK chs \in SUBSET (ChannelsOf(s) \ subs[c]) :
           /\ globalSubs + Cardinality(chs) <= MaxGlobal
           /\ Cardinality(subs[c]) + Cardinality(chs) <= MaxPerClient
           /\ subs' = [subs EXCEPT ![c] = subs[c] \union chs]
      BY <1>2 DEF SubscribeSlab, HasRoom
    <2>1. chs \in SUBSET (Channels \ subs[c]) BY DEF ChannelsOf, Channels
    <2>2. /\ \A r \in {s} : Cardinality(slabClients[r]) < MaxPerSlab
          /\ AddClientToSlabs(c, {s})
      BY <1>2 DEF SubscribeSlab
    <2> QED  BY <2>1, <2>2, AddKeepsCounts, JoinKeepsSlabLimit DEF WithinLimits
  <1>3. ASSUME NEW c \in Clients, UnsubscribeChannels(c) PROVE WithinLimits'
    <2> PICK chs \in SUBSET subs[c] :
           /\ subs' = [subs EXCEPT ![c] = subs[c] \ chs]
           /\ RemoveClientFromSlabs(c, SlabsLeft(c, chs))
      BY <1>3 DEF UnsubscribeChannels
    <2> QED  BY RemoveKeepsCounts, LeaveKeepsSlabLimit DEF WithinLimits
  <1>4. ASSUME NEW c \in Clients, NEW s \in Slabs, UnsubscribeSlab(c, s) PROVE WithinLimits'
    <2>1. /\ subs' = [subs EXCEPT ![c] = subs[c] \ HeldOf(c, s)]
          /\ RemoveClientFromSlabs(c, {s})
      BY <1>4 DEF UnsubscribeSlab
    <2> QED  BY <2>1, RemoveKeepsCounts, LeaveKeepsSlabLimit DEF WithinLimits
  <1>5. ASSUME NEW c \in Clients, Close(c) PROVE WithinLimits'
    <2>1. /\ subs' = [subs EXCEPT ![c] = subs[c] \ subs[c]]
          /\ RemoveClientFromSlabs(c, SlabsOf(subs[c]))
      BY <1>5 DEF Close
    <2> QED  BY <2>1, RemoveKeepsCounts, LeaveKeepsSlabLimit DEF WithinLimits
  <1>6. CASE UNCHANGED <<subs, slabClients>>
    BY <1>6 DEF WithinLimits, SubscriptionPairs
  <1> QED
    BY <1>1, <1>2, <1>3, <1>4, <1>5, <1>6
       DEF Next, vars, Register, Authenticate, StartClosing, PriceUpdated,
           FlushPriceUpdate, Cleanup

(* No interleaving of messages and disconnects takes the server, a client or *)
(* a slab past its limit, although every check but one reads a counter kept  *)
(* apart from the sets it stands for.                                        *)
THEOREM LimitsCorrect == Spec => []WithinLimits
  BY StructureHolds, CountCorrect, LimitsInit, LimitsStep, PTL DEF Spec
----------------------------------------------------------------------------
(* Batching: timers and what is owed.                                        *)
Batching == TimersExact /\ NoLostUpdate

(* The last client of a slab takes the pending update and the timer along.   *)
LEMMA LeaveKeepsTimers ==
    ASSUME Shape, TimersExact, NEW c \in Clients, NEW S,
           RemoveClientFromSlabs(c, S), listening' = listening
    PROVE  TimersExact'
  <1> DEFINE emptied == {s \in S : slabClients[s] = {c}}
  <1>1. pending' = pending \ emptied /\ timers' = timers \ emptied
    BY DEF RemoveClientFromSlabs, Emptied
  <1>2. armed' = armed \ (emptied \intersect timers) BY DEF RemoveClientFromSlabs, Emptied
  <1>3. pending' = timers' /\ timers' = armed' BY <1>1, <1>2 DEF TimersExact
  <1>4. ASSUME NEW s \in armed' PROVE listening' /\ slabClients'[s] # {}
    <2>1. s \in armed /\ s \notin emptied BY <1>2, <1>4 DEF TimersExact
    <2>2. s \in Slabs /\ slabClients[s] # {} /\ listening BY <2>1 DEF TimersExact, Shape
    <2>3. slabClients'[s] = IF s \in S THEN slabClients[s] \ {c} ELSE slabClients[s]
      BY <2>2 DEF RemoveClientFromSlabs
    <2> QED  BY <2>1, <2>2, <2>3
  <1> QED  BY <1>3, <1>4 DEF TimersExact

(* Whatever is owed to the others survives a client's leaving: they are in   *)
(* the index of the slab, so it is not emptied.                              *)
LEMMA LeaveKeepsOwed ==
    ASSUME Structure, NoLostUpdate, TimersExact, NEW c \in Clients, NEW chs, NEW S,
           subs' = [subs EXCEPT ![c] = subs[c] \ chs],
           \A d \in Clients \ {c} : sock'[d] = sock[d],
           \A p \in owed' : p \in owed /\ (p[1] = c =>
               sock'[c] = "open" /\ <<"price", p[2]>> \notin chs /\ p[2] \notin S),
           RemoveClientFromSlabs(c, S)
    PROVE  NoLostUpdate'
  <1> SUFFICES ASSUME NEW p \in owed'
               PROVE  /\ p[2] \in pending' \intersect armed'
                      /\ p[1] \in Recipients("price", p[2])'
    BY DEF NoLostUpdate
  <1>1. p \in owed /\ p[2] \in pending /\ p[2] \in armed
        /\ p[1] \in Recipients("price", p[2])
    BY DEF NoLostUpdate
  <1>2. p[1] \in Clients /\ p[2] \in Slabs BY <1>1 DEF Structure, Shape
  <1>3. p[1] \in slabClients[p[2]] /\ sock[p[1]] = "open"
        /\ <<"price", p[2]>> \in subs[p[1]]
    BY <1>1 DEF Recipients
  <1>4. p[1] = c => p[2] \notin S OBVIOUS
  <1>5. ~(p[2] \in S /\ slabClients[p[2]] = {c}) BY <1>3, <1>4
  <1>6. p[2] \in pending' \intersect armed'
    BY <1>1, <1>5 DEF RemoveClientFromSlabs, Emptied
  <1>7. p[1] \in slabClients'[p[2]]
    BY <1>2, <1>3, <1>4 DEF RemoveClientFromSlabs
  <1>8. sock'[p[1]] = "open" BY <1>2, <1>3
  <1>9. <<"price", p[2]>> \in subs'[p[1]] BY <1>2, <1>3 DEF Structure, Shape
  <1> QED  BY <1>6, <1>7, <1>8, <1>9 DEF Recipients

(* What was owed stays owed when subscriptions and the index only grow.      *)
LEMMA GrowKeepsBatching ==
    ASSUME Structure, Batching, UNCHANGED <<pending, timers, armed, listening, owed>>,
           \A c \in Clients : sock[c] = "open" => sock'[c] = "open",
           \A c \in Clients : subs[c] \subseteq subs'[c],
           \A s \in Slabs : slabClients[s] \subseteq slabClients'[s]
    PROVE  Batching'
  <1>1. TimersExact' BY DEF Batching, TimersExact, Structure, Shape
  <1>2. NoLostUpdate'
    <2> SUFFICES ASSUME NEW p \in owed
                 PROVE  /\ p[2] \in pending \intersect armed
                        /\ p[1] \in Recipients("price", p[2])'
      BY DEF NoLostUpdate
    <2>1. p[2] \in pending \intersect armed /\ p[1] \in Recipients("price", p[2])
      BY DEF Batching, NoLostUpdate
    <2>2. p[1] \in Clients /\ p[2] \in Slabs BY DEF Structure, Shape
    <2> QED  BY <2>1, <2>2 DEF Recipients
  <1> QED  BY <1>1, <1>2 DEF Batching

(* Nothing is pending at the start.                                          *)
LEMMA BatchingInit == Init => Batching
  BY DEF Init, Batching, TimersExact, NoLostUpdate

(* Every handler keeps pending map, timer map, Node timers and what is owed  *)
(* in step.                                                                  *)
LEMMA BatchingStep == Structure /\ Batching /\ [Next]_vars => Batching'
  <1> SUFFICES ASSUME Structure, Batching, [Next]_vars PROVE Batching'
    OBVIOUS
  <1>1. ASSUME NEW c \in Clients, Register(c) PROVE Batching'
    <2>1. UNCHANGED <<pending, timers, armed, listening, owed, subs, slabClients>>
      BY <1>1 DEF Register, batching
    <2>2. \A d \in Clients : sock[d] = "open" => sock'[d] = "open"
      BY <1>1 DEF Register, Structure, Shape
    <2> QED  BY <2>1, <2>2, GrowKeepsBatching
  <1>2. ASSUME NEW c \in Clients, Authenticate(c) PROVE Batching'
    <2>1. UNCHANGED <<pending, timers, armed, listening, owed, subs, slabClients, sock>>
      BY <1>2 DEF Authenticate, batching
    <2> QED  BY <2>1, GrowKeepsBatching
  <1>3. ASSUME NEW c \in Clients, StartClosing(c) PROVE Batching'
    <2>1. TimersExact' BY <1>3 DEF StartClosing, batching, Batching, TimersExact
    <2>2. NoLostUpdate'
      BY <1>3 DEF StartClosing, batching, Batching, NoLostUpdate, Recipients,
                  Structure, Shape
    <2> QED  BY <2>1, <2>2 DEF Batching
  <1>4. ASSUME NEW c \in Clients, Close(c) PROVE Batching'
    <2>1. /\ RemoveClientFromSlabs(c, SlabsOf(subs[c]))
          /\ subs' = [subs EXCEPT ![c] = subs[c] \ subs[c]]
          /\ owed' = {p \in owed : p[1] # c}
          /\ listening' = listening
          /\ \A d \in Clients \ {c} : sock'[d] = sock[d]
      BY <1>4 DEF Close, Structure, Shape
    <2>2. TimersExact' BY <2>1, LeaveKeepsTimers DEF Structure, Batching
    <2>3. NoLostUpdate' BY <2>1, LeaveKeepsOwed DEF Batching
    <2> QED  BY <2>2, <2>3 DEF Batching
  <1>5. ASSUME NEW c \in Clients, SubscribeChannels(c) PROVE Batching'
    <2> PICK chs \in SUBSET (Channels \ subs[c]) :
           /\ subs' = [subs EXCEPT ![c] = subs[c] \union chs]
           /\ AddClientToSlabs(c, SlabsOf(chs))
           /\ UNCHANGED <<sock, identity, batching, listening, owed>>
      BY <1>5 DEF SubscribeChannels
    <2>1. \A d \in Clients : subs[d] \subseteq subs'[d] BY DEF Structure, Shape
    <2>2. \A s \in Slabs : slabClients[s] \subseteq slabClients'[s] BY DEF AddClientToSlabs
    <2> QED  BY <2>1, <2>2, GrowKeepsBatching DEF batching
  <1>6. ASSUME NEW c \in Clients, NEW s \in Slabs, SubscribeSlab(c, s) PROVE Batching'
    <2> PICK chs : subs' = [subs EXCEPT ![c] = subs[c] \union chs]
      BY <1>6 DEF SubscribeSlab
    <2>1. \A d \in Clients : subs[d] \subseteq subs'[d] BY DEF Structure, Shape
    <2>2. \A r \in Slabs : slabClients[r] \subseteq slabClients'[r]
      BY <1>6 DEF SubscribeSlab, AddClientToSlabs
    <2>3. UNCHANGED <<sock, pending, timers, armed, listening, owed>>
      BY <1>6 DEF SubscribeSlab, batching
    <2> QED  BY <2>1, <2>2, <2>3, GrowKeepsBatching
  <1>7. ASSUME NEW c \in Clients, UnsubscribeChannels(c) PROVE Batching'
    <2> PICK chs \in SUBSET subs[c] :
           /\ subs' = [subs EXCEPT ![c] = subs[c] \ chs]
           /\ RemoveClientFromSlabs(c, SlabsLeft(c, chs))
           /\ owed' = {p \in owed : ~(p[1] = c /\ <<"price", p[2]>> \in chs)}
           /\ UNCHANGED <<sock, identity, listening>>
      BY <1>7 DEF UnsubscribeChannels
    <2>1. TimersExact' BY LeaveKeepsTimers DEF Structure, Batching
    <2>2. ASSUME NEW p \in owed', p[1] = c
          PROVE  /\ sock'[c] = "open" /\ <<"price", p[2]>> \notin chs
                 /\ p[2] \notin SlabsLeft(c, chs)
      <3>1. p \in owed /\ <<"price", p[2]>> \notin chs BY <2>2
      <3>2. c \in Recipients("price", p[2]) BY <2>2, <3>1 DEF Batching, NoLostUpdate
      <3>3. sock[c] = "open" /\ <<"price", p[2]>> \in subs[c] \ chs
        BY <3>1, <3>2 DEF Recipients
      <3>4. p[2] \in SlabsOf(subs[c] \ chs) BY <3>3 DEF SlabsOf
      <3> QED  BY <3>1, <3>3, <3>4 DEF SlabsLeft
    <2>3. NoLostUpdate' BY <2>2, LeaveKeepsOwed DEF Batching
    <2> QED  BY <2>1, <2>3 DEF Batching
  <1>8. ASSUME NEW c \in Clients, NEW s \in Slabs, UnsubscribeSlab(c, s) PROVE Batching'
    <2>1. /\ subs' = [subs EXCEPT ![c] = subs[c] \ HeldOf(c, s)]
          /\ RemoveClientFromSlabs(c, {s})
          /\ owed' = owed \ {<<c, s>>}
          /\ sock' = sock /\ listening' = listening
      BY <1>8 DEF UnsubscribeSlab
    <2>2. TimersExact' BY <2>1, LeaveKeepsTimers DEF Structure, Batching
    <2>3. ASSUME NEW p \in owed', p[1] = c
          PROVE  /\ sock'[c] = "open" /\ <<"price", p[2]>> \notin ChannelsOf(s)
                 /\ p[2] \notin {s}
      <3>1. p \in owed /\ p[2] # s BY <2>1, <2>3 DEF Structure, Shape
      <3>2. c \in Recipients("price", p[2]) BY <2>3, <3>1 DEF Batching, NoLostUpdate
      <3> QED  BY <2>1, <3>1, <3>2 DEF Recipients, ChannelsOf
    <2>4. NoLostUpdate' BY <2>1, <2>3, LeaveKeepsOwed DEF Batching, HeldOf
    <2> QED  BY <2>2, <2>4 DEF Batching
  <1>9. ASSUME NEW s \in Slabs, PriceUpdated(s) PROVE Batching'
    <2>1. TimersExact'
      BY <1>9 DEF PriceUpdated, batching, Batching, TimersExact, Structure, Shape
    <2>2. NoLostUpdate'
      <3> SUFFICES ASSUME NEW p \in owed'
                   PROVE  /\ p[2] \in pending' \intersect armed'
                          /\ p[1] \in Recipients("price", p[2])'
        BY DEF NoLostUpdate
      <3>1. Recipients("price", p[2])' = Recipients("price", p[2])
        BY <1>9 DEF PriceUpdated, Recipients
      <3>2. CASE p \in owed
        BY <1>9, <3>1, <3>2 DEF PriceUpdated, batching, Batching, NoLostUpdate
      <3>3. CASE p \notin owed
        <4>1. p \in Clients \X {s} /\ sock[p[1]] = "open" /\ <<"price", s>> \in subs[p[1]]
          BY <1>9, <3>3 DEF PriceUpdated
        <4>2. p[1] \in slabClients[s]
          BY <4>1 DEF Structure, SlabIndexExact, SlabsOf
        <4>3. p[1] \in Recipients("price", p[2]) BY <4>1, <4>2 DEF Recipients
        <4>4. s \in pending' \intersect armed'
          BY <1>9, <4>2 DEF PriceUpdated, Batching, TimersExact
        <4> QED  BY <3>1, <4>1, <4>3, <4>4
      <3> QED  BY <3>2, <3>3
    <2> QED  BY <2>1, <2>2 DEF Batching
  <1>10. ASSUME NEW s \in Slabs, FlushPriceUpdate(s) PROVE Batching'
    <2>1. /\ s \in pending
          /\ pending' = pending \ {s} /\ timers' = timers \ {s} /\ armed' = armed \ {s}
          /\ owed' = owed \ (Recipients("price", s) \X {s})
          /\ UNCHANGED <<sock, subs, slabClients, listening>>
      BY <1>10 DEF FlushPriceUpdate, Batching, TimersExact
    <2>2. TimersExact' BY <2>1 DEF Batching, TimersExact
    <2>3. NoLostUpdate'
      <3> SUFFICES ASSUME NEW p \in owed'
                   PROVE  /\ p[2] \in pending' \intersect armed'
                          /\ p[1] \in Recipients("price", p[2])'
        BY DEF NoLostUpdate
      <3>1. p \in owed /\ p[2] \in pending \intersect armed
            /\ p[1] \in Recipients("price", p[2])
        BY <2>1 DEF Batching, NoLostUpdate
      <3>2. p[2] # s BY <2>1, <3>1 DEF Structure, Shape
      <3>3. Recipients("price", p[2])' = Recipients("price", p[2])
        BY <2>1 DEF Recipients
      <3> QED  BY <2>1, <3>1, <3>2, <3>3
    <2> QED  BY <2>2, <2>3 DEF Batching
  <1>11. ASSUME Cleanup PROVE Batching'
    BY <1>11 DEF Cleanup, Batching, TimersExact, NoLostUpdate
  <1>12. CASE UNCHANGED vars
    BY <1>12 DEF vars, Batching, TimersExact, NoLostUpdate, Recipients
  <1> QED
    BY <1>1, <1>2, <1>3, <1>4, <1>5, <1>6, <1>7, <1>8, <1>9, <1>10, <1>11, <1>12 DEF Next

(* The batching invariant, by induction on the steps.                        *)
LEMMA BatchingHolds == Spec => []Batching
  BY StructureHolds, BatchingInit, BatchingStep, PTL DEF Spec

(* One timer per pending slab and none for a slab without clients, after any *)
(* sequence of events, departures and the shutdown's cleanup.                *)
THEOREM TimersCorrect == Spec => []TimersExact
  <1>1. Batching => TimersExact BY DEF Batching
  <1> QED  BY <1>1, BatchingHolds, PTL

(* Coalescing and departures lose no subscriber's last price.                *)
THEOREM UpdatesSurvive == Spec => []NoLostUpdate
  <1>1. Batching => NoLostUpdate BY DEF Batching
  <1> QED  BY <1>1, BatchingHolds, PTL
----------------------------------------------------------------------------
(* Who may hold a subscription.                                              *)
GateInv ==
    /\ \A c \in Clients : sock[c] = "gone" => ~authenticated[c]
    /\ AuthRequired => \A c \in Clients : ~authenticated[c] => subs[c] = {}

(* No handler gives an unauthenticated client a subscription when tokens are *)
(* required.                                                                 *)
LEMMA GateStep == Structure /\ GateInv /\ [Next]_vars => GateInv'
  <1> SUFFICES ASSUME Structure, GateInv, [Next]_vars PROVE GateInv'
    OBVIOUS
  <1> USE DEF Structure, Shape, GateInv
  <1>1. ASSUME NEW c \in Clients, Register(c) PROVE GateInv'
    BY <1>1 DEF Register, GoneHasNothing
  <1>2. ASSUME NEW c \in Clients, Authenticate(c) PROVE GateInv'
    BY <1>2 DEF Authenticate
  <1>3. ASSUME NEW c \in Clients, StartClosing(c) PROVE GateInv'
    BY <1>3 DEF StartClosing, identity
  <1>4. ASSUME NEW c \in Clients, Close(c) PROVE GateInv'
    BY <1>4 DEF Close
  <1>5. ASSUME NEW c \in Clients, SubscribeChannels(c) PROVE GateInv'
    <2> PICK chs \in SUBSET (Channels \ subs[c]) :
           /\ chs # {}
           /\ \A s \in SlabsOf(chs) : MayUse(c, s)
           /\ subs' = [subs EXCEPT ![c] = subs[c] \union chs]
           /\ UNCHANGED <<sock, identity>>
      BY <1>5 DEF SubscribeChannels
    <2>1. AuthRequired => authenticated[c] BY DEF SlabsOf, MayUse
    <2> QED  BY <2>1 DEF identity
  <1>6. ASSUME NEW c \in Clients, NEW s \in Slabs, SubscribeSlab(c, s) PROVE GateInv'
    <2> PICK chs : subs' = [subs EXCEPT ![c] = subs[c] \union chs]
      BY <1>6 DEF SubscribeSlab
    <2>1. (AuthRequired => authenticated[c]) /\ UNCHANGED <<sock, identity>>
      BY <1>6 DEF SubscribeSlab, MayUse
    <2> QED  BY <2>1 DEF identity
  <1>7. ASSUME NEW c \in Clients, UnsubscribeChannels(c) PROVE GateInv'
    BY <1>7 DEF UnsubscribeChannels, identity
  <1>8. ASSUME NEW c \in Clients, NEW s \in Slabs, UnsubscribeSlab(c, s) PROVE GateInv'
    BY <1>8 DEF UnsubscribeSlab, identity
  <1>9. CASE UNCHANGED <<sock, authenticated, subs>>
    BY <1>9
  <1> QED
    BY <1>1, <1>2, <1>3, <1>4, <1>5, <1>6, <1>7, <1>8, <1>9
       DEF Next, vars, identity, PriceUpdated, FlushPriceUpdate, Cleanup

(* The authentication invariant, by induction on the steps.                  *)
LEMMA GateHolds == Spec => []GateInv
  <1>1. Init => GateInv BY DEF Init, GateInv
  <1> QED  BY <1>1, GateStep, StructureHolds, PTL DEF Spec

(* With WS_AUTH_REQUIRED no subscription is ever held without a valid token. *)
THEOREM AuthGateHolds == Spec => []AuthGate
  <1>1. Structure /\ GateInv => AuthGate
    BY DEF Structure, SlabIndexExact, GateInv, AuthGate, SlabsOf
  <1> QED  BY <1>1, GateHolds, StructureHolds, PTL

(* When every token is bound to a market and tokens are required, a client   *)
(* is bound from the moment it may subscribe.                                *)
BoundInv ==
    /\ \A c \in Clients : authenticated[c] => boundTo[c] # NoSlab
    /\ SlabBinding

(* With tokens that all name a market, no handler takes a client outside its *)
(* market.                                                                   *)
LEMMA BoundStep ==
    ASSUME AuthRequired, NoSlab \notin TokenSlabs,
           Structure, GateInv, BoundInv, [Next]_vars
    PROVE  BoundInv'
  <1> USE DEF Structure, Shape, GateInv, BoundInv, SlabBinding
  <1>1. ASSUME NEW c \in Clients, Register(c) PROVE BoundInv'
    <2>1. subs[c] = {} BY <1>1 DEF Register, GoneHasNothing
    <2> QED  BY <1>1, <2>1, SMTT(30) DEF Register, SlabsOf
  <1>2. ASSUME NEW c \in Clients, Authenticate(c) PROVE BoundInv'
    <2>1. SlabsOf(subs[c]) \subseteq {boundTo'[c]}
      <3>1. CASE authenticated[c]
        BY <1>2, <3>1 DEF Authenticate
      <3>2. CASE ~authenticated[c]
        BY <3>2 DEF SlabsOf
      <3> QED  BY <3>1, <3>2
    <2>2. boundTo'[c] # NoSlab BY <1>2 DEF Authenticate
    <2>3. /\ subs' = subs
          /\ \A d \in Clients \ {c} : boundTo'[d] = boundTo[d] /\ authenticated'[d] = authenticated[d]
      BY <1>2 DEF Authenticate
    <2> QED  BY <2>1, <2>2, <2>3
  <1>3. ASSUME NEW c \in Clients, StartClosing(c) PROVE BoundInv'
    BY <1>3 DEF StartClosing, identity
  <1>4. ASSUME NEW c \in Clients, Close(c) PROVE BoundInv'
    BY <1>4 DEF Close, SlabsOf
  <1>5. ASSUME NEW c \in Clients, SubscribeChannels(c) PROVE BoundInv'
    <2> PICK chs \in SUBSET (Channels \ subs[c]) :
           /\ \A s \in SlabsOf(chs) : MayUse(c, s)
           /\ subs' = [subs EXCEPT ![c] = subs[c] \union chs]
           /\ UNCHANGED <<sock, identity>>
      BY <1>5 DEF SubscribeChannels
    <2>1. SlabsOf(subs[c] \union chs) = SlabsOf(subs[c]) \union SlabsOf(chs)
      BY DEF SlabsOf
    <2>2. \A s \in SlabsOf(chs) : boundTo[c] \in {NoSlab, s} BY DEF MayUse
    <2> QED  BY <2>1, <2>2 DEF identity
  <1>6. ASSUME NEW c \in Clients, NEW s \in Slabs, SubscribeSlab(c, s) PROVE BoundInv'
    <2> PICK chs \in SUBSET (ChannelsOf(s) \ subs[c]) :
           /\ chs # {}
           /\ subs' = [subs EXCEPT ![c] = subs[c] \union chs]
      BY <1>6 DEF SubscribeSlab
    <2>1. SlabsOf(subs[c] \union chs) = SlabsOf(subs[c]) \union {s}
      BY OneSlab, SMTT(30) DEF SlabsOf
    <2>2. boundTo[c] \in {NoSlab, s} /\ UNCHANGED <<sock, identity>>
      BY <1>6 DEF SubscribeSlab, MayUse
    <2> QED  BY <2>1, <2>2 DEF identity
  <1>7. ASSUME NEW c \in Clients, UnsubscribeChannels(c) PROVE BoundInv'
    <2> PICK chs \in SUBSET subs[c] : subs' = [subs EXCEPT ![c] = subs[c] \ chs]
      BY <1>7 DEF UnsubscribeChannels
    <2>1. UNCHANGED identity BY <1>7 DEF UnsubscribeChannels
    <2>2. SlabsOf(subs[c] \ chs) \subseteq SlabsOf(subs[c]) BY DEF SlabsOf
    <2> QED  BY <2>1, <2>2 DEF identity
  <1>8. ASSUME NEW c \in Clients, NEW s \in Slabs, UnsubscribeSlab(c, s) PROVE BoundInv'
    BY <1>8, SMTT(30) DEF UnsubscribeSlab, identity, SlabsOf
  <1>9. CASE UNCHANGED <<authenticated, boundTo, subs>>
    BY <1>9
  <1> QED
    BY <1>1, <1>2, <1>3, <1>4, <1>5, <1>6, <1>7, <1>8, <1>9
       DEF Next, vars, identity, PriceUpdated, FlushPriceUpdate, Cleanup

(* The slab-binding invariant of the auth handler holds where the production *)
(* default (tokens required) meets tokens that all name a market. Without    *)
(* either, the run that checks SlabBinding finds it broken.                  *)
THEOREM BindingHolds ==
    ASSUME AuthRequired, NoSlab \notin TokenSlabs
    PROVE  Spec => []SlabBinding
  <1>1. Init => BoundInv BY DEF Init, BoundInv, SlabBinding
  <1>2. Structure /\ GateInv /\ BoundInv /\ [Next]_vars => BoundInv' BY BoundStep
  <1>3. BoundInv => SlabBinding BY DEF BoundInv
  <1> QED  BY <1>1, <1>2, <1>3, GateHolds, StructureHolds, PTL DEF Spec

----------------------------------------------------------------------------
(* The hub implements the price feed.                                        *)

(* A step about one client is a change of what it listens to.                *)
LEMMA StepIsChange ==
    ASSUME Structure, Structure', Batching, Batching', NEW c \in Clients,
           \A d \in Clients \ {c} : sock'[d] = sock[d] /\ subs'[d] = subs[d],
           listening' = listening, owed' \subseteq owed,
           \A p \in owed \ owed' : p[1] = c /\
               ~(sock'[c] = "open" /\ <<"price", p[2]>> \in subs'[c])
    PROVE  Feed!ChangeListening(c)
  <1> DEFINE now == {s \in Slabs : sock'[c] = "open" /\ <<"price", s>> \in subs'[c]}
  <1>1. Listens' = {p \in Listens : p[1] # c} \union ({c} \X now)
    BY DEF Listens
  <1>2. owed' \subseteq Listens'
    BY DEF Batching, NoLostUpdate, Recipients, Listens, Structure, Shape
  <1>3. \A p \in owed \ owed' : p \notin Listens' BY DEF Listens
  <1>4. owed' = owed \intersect Listens' BY <1>2, <1>3
  <1>5. now \in SUBSET Slabs OBVIOUS
  <1> QED  BY <1>1, <1>4, <1>5 DEF Feed!ChangeListening

(* Nobody listens and nothing is owed at the start.                          *)
LEMMA RefinementInit == Init => Feed!Init
  BY DEF Init, Feed!Init, Listens

(* Every handler is a step of the price feed or leaves it alone.             *)
LEMMA RefinementStep ==
    Structure /\ Structure' /\ Batching /\ Batching' /\ [Next]_vars
      => [Feed!Next]_(Feed!vars)
  <1> SUFFICES ASSUME Structure, Structure', Batching, Batching', [Next]_vars
               PROVE  Feed!Next \/ UNCHANGED Feed!vars
    OBVIOUS
  <1> DEFINE OneClient(c) ==
        /\ \A d \in Clients \ {c} : sock'[d] = sock[d] /\ subs'[d] = subs[d]
        /\ listening' = listening /\ owed' \subseteq owed
        /\ \A p \in owed \ owed' : p[1] = c /\
             ~(sock'[c] = "open" /\ <<"price", p[2]>> \in subs'[c])
  <1>1. ASSUME NEW c \in Clients, OneClient(c) PROVE Feed!Next
    BY <1>1, StepIsChange DEF Feed!Next
  <1> USE DEF Structure, Shape
  <1>2. ASSUME NEW c \in Clients, Register(c) PROVE OneClient(c)
    BY <1>2 DEF Register
  <1>3. ASSUME NEW c \in Clients, Authenticate(c) PROVE OneClient(c)
    BY <1>3 DEF Authenticate
  <1>4. ASSUME NEW c \in Clients, StartClosing(c) PROVE OneClient(c)
    BY <1>4 DEF StartClosing
  <1>5. ASSUME NEW c \in Clients, Close(c) PROVE OneClient(c)
    BY <1>5 DEF Close
  <1>6. ASSUME NEW c \in Clients, SubscribeChannels(c) PROVE OneClient(c)
    BY <1>6 DEF SubscribeChannels
  <1>7. ASSUME NEW c \in Clients, NEW s \in Slabs, SubscribeSlab(c, s) PROVE OneClient(c)
    BY <1>7 DEF SubscribeSlab
  <1>8. ASSUME NEW c \in Clients, UnsubscribeChannels(c) PROVE OneClient(c)
    BY <1>8 DEF UnsubscribeChannels
  <1>9. ASSUME NEW c \in Clients, NEW s \in Slabs, UnsubscribeSlab(c, s) PROVE OneClient(c)
    <2>1. /\ subs' = [subs EXCEPT ![c] = subs[c] \ HeldOf(c, s)]
          /\ owed' = owed \ {<<c, s>>}
          /\ UNCHANGED <<sock, listening>>
      BY <1>9 DEF UnsubscribeSlab
    <2>2. <<"price", s>> \in ChannelsOf(s) BY DEF ChannelsOf, ChannelTypes
    <2> QED  BY <2>1, <2>2 DEF HeldOf
  <1>10. ASSUME NEW s \in Slabs, PriceUpdated(s) PROVE Feed!Next
    <2>1. Listens' = Listens BY <1>10 DEF PriceUpdated, Listens
    <2>2. owed' = owed \union {p \in Listens : p[2] = s}
      BY <1>10 DEF PriceUpdated, Listens
    <2>3. Feed!Publish(s) BY <1>10, <2>1, <2>2 DEF PriceUpdated, Feed!Publish
    <2> QED  BY <2>3 DEF Feed!Next
  <1>11. ASSUME NEW s \in Slabs, FlushPriceUpdate(s) PROVE Feed!Next
    <2>1. owed' = owed \ (Recipients("price", s) \X {s}) /\ UNCHANGED <<sock, subs, listening>>
      BY <1>11 DEF FlushPriceUpdate, Batching, TimersExact
    <2>2. \A p \in owed : p[2] = s => p[1] \in Recipients("price", s)
      BY DEF Batching, NoLostUpdate
    <2>3. owed' = {p \in owed : p[2] # s} BY <2>1, <2>2
    <2>4. Listens' = Listens BY <2>1 DEF Listens
    <2>5. Feed!HandOver(s) BY <2>1, <2>3, <2>4 DEF Feed!HandOver
    <2> QED  BY <2>5 DEF Feed!Next
  <1>12. ASSUME Cleanup PROVE Feed!Next
    BY <1>12 DEF Cleanup, Listens, Feed!Stop, Feed!Next
  <1>13. CASE UNCHANGED vars
    BY <1>13 DEF vars, Feed!vars, Listens
  <1> HIDE DEF OneClient
  <1> QED
    BY <1>1, <1>2, <1>3, <1>4, <1>5, <1>6, <1>7, <1>8, <1>9, <1>10, <1>11, <1>12, <1>13
       DEF Next

(* Every behaviour of the hub is one of the price feed, its fairness apart.  *)
THEOREM HubImplementsFeed == Spec => Feed!Init /\ [][Feed!Next]_(Feed!vars)
  BY RefinementInit, RefinementStep, StructureHolds, BatchingHolds, PTL DEF Spec
----------------------------------------------------------------------------
(* InitialPrice: what the client has been shown against what is on its way   *)
(* to it, and what its queries and batches have left.                        *)

(* What is on its way. The inserts in the channel are the newest ones; of    *)
(* what was inserted before them, one is pending while the timer runs.       *)
Delivery ==
    /\ \A i \in 1..Len(inserts) : inserts[i] \in 1..newest
    /\ inserts # <<>> => channel = "joined" /\ inserts[Len(inserts)] = newest
    /\ batched <= newest /\ shown <= newest /\ dropped <= newest
    /\ timer # Off => batched # 0
    /\ \A h \in Handlers : /\ read[h] # Unread => read[h] <= newest
                           /\ queue[h] # 1 => read[h] = Unread

(* The newest price has been shown or dropped, or something is still to show *)
(* it: an insert, a batch, or a query that has not read yet or has read this *)
(* price.                                                                    *)
Underway ==
    open /\ subscribed /\ ~missed =>
        \/ newest \in {shown, dropped}
        \/ inserts # <<>>
        \/ timer # Off /\ batched = newest
        \/ \E h \in Handlers : queue[h] > 0 /\ read[h] \in {Unread, newest}

(* How outdated a price is, against what is left until it is sent: one in    *)
(* the channel is not outdated.                                              *)
Fresh ==
    /\ \A p \in 0..MaxPrices : p >= newest => outdated[p] = 0
    /\ \A i \in 1..Len(inserts) : outdated[inserts[i]] = 0
    /\ timer # Off => outdated[batched] + timer <= Batch
    /\ \A h \in Handlers : read[h] # Unread => outdated[read[h]] + left[h] <= Timeout
    /\ RegressionBounded

(* How long the slab is not subscribed to, against what is left of the       *)
(* queries of a message: each has its own timeout.                           *)
Quiet ==
    /\ subscribed => away = 0
    /\ \A h \in Handlers :
         queue[h] > 0 => away + left[h] + (queue[h] - 1) * Timeout <= MaxChannels * Timeout
    /\ QuietAfterUnsubscribe

IInv == PriceTypeOK /\ Delivery /\ Underway /\ Fresh /\ Quiet

USE WaitsPositive, BatchBeforeTimeout DEF Off, Unread

LEMMA LongestNat == MaxChannels * Timeout \in Nat /\ Longest \in Nat
  BY DEF Longest

LEMMA Init_IInv == PriceInit => IInv
  <1> SUFFICES ASSUME PriceInit PROVE IInv  OBVIOUS
  <1> USE LongestNat DEF PriceInit
  <1>1. {open, subscribed, missed} \subseteq BOOLEAN
    BY Zenon
  <1>2. PriceTypeOK
    BY <1>1 DEF PriceTypeOK
  <1>3. Delivery /\ Underway
    BY DEF Delivery, Underway
  <1>4. Fresh /\ Quiet
    BY DEF Fresh, Quiet, RegressionBounded, QuietAfterUnsubscribe
  <1> QED  BY <1>2, <1>3, <1>4 DEF IInv
----------------------------------------------------------------------------
(* What the operators that the actions share do.                             *)
LEMMA SendEffect ==
    ASSUME PriceTypeOK, NEW p \in 0..MaxPrices, Send(p)
    PROVE  /\ shown' \in {shown, p} /\ shown' >= shown
           /\ dropped' \in {dropped, p} /\ dropped' >= dropped
           /\ open => shown' >= p \/ dropped' >= p
           /\ lag' \in {lag, outdated[p]}
           /\ late' \in {late, away}
  <1>1. /\ shown \in 0..MaxPrices /\ dropped \in 0..MaxPrices
        /\ late \in 0..Longest /\ away \in 0..Longest
    BY DEF PriceTypeOK
  <1>2. CASE open
    BY <1>1, <1>2, LongestNat DEF Send, Larger
  <1>3. CASE ~open
    BY <1>1, <1>3 DEF Send, sends
  <1> QED  BY <1>2, <1>3

LEMMA NextQueryEffect ==
    ASSUME PriceTypeOK, NEW h \in Handlers, NextQuery(h), queue[h] > 0
    PROVE  /\ queue' \in [Handlers -> 0..MaxChannels]
           /\ left' \in [Handlers -> 0..Timeout]
           /\ read' \in [Handlers -> 0..Unread]
           /\ \A k \in Handlers :
                /\ queue'[k] = IF k = h THEN queue[h] - 1 ELSE queue[k]
                /\ left'[k] = IF k = h THEN IF queue[h] > 1 THEN Timeout ELSE 0
                                       ELSE left[k]
                /\ read'[k] = IF k = h THEN Unread ELSE read[k]
  <1>1. /\ queue \in [Handlers -> 0..MaxChannels]
        /\ left \in [Handlers -> 0..Timeout]
        /\ read \in [Handlers -> 0..Unread]
    BY DEF PriceTypeOK
  <1> QED  BY <1>1 DEF NextQuery

LEMMA OlderEffect ==
    ASSUME NEW n \in 0..Longest
    PROVE  Older(n) \in 0..Longest /\ Older(n) <= n + 1
  BY LongestNat DEF Older
----------------------------------------------------------------------------
(* The types, variable by variable.                                          *)
LEMMA FlagsStep ==
    ASSUME PriceTypeOK, PriceNext PROVE {open, subscribed, missed}' \subseteq BOOLEAN
  <1>1. open' \in {open, FALSE} /\ subscribed' \in {subscribed, TRUE, FALSE}
    BY DEF PriceNext, Start, ChannelDrops, ChannelJoins, Insert, PriceArrives,
           FlushPrice, SubscribeLegacy, Subscribed, Unsubscribe, ClientCloses,
           Subscribe, OtherQueryEnds, QueryRead, QueryAnswered, QueryFails, Tick,
           client
  <1>2. \/ missed' \in {missed, TRUE, FALSE} 
        \/ missed' = (missed \/ subscribed)
        \/ missed' = (missed \/ (subscribed /\ channel # "joined"))
    BY DEF PriceNext, Start, ChannelDrops, ChannelJoins, Insert, PriceArrives,
           FlushPrice, SubscribeLegacy, Subscribed, Unsubscribe, ClientCloses,
           Subscribe, OtherQueryEnds, QueryRead, QueryAnswered, QueryFails, Tick
  <1> QED  BY <1>1, <1>2, Zenon DEF PriceTypeOK

LEMMA WorldStep ==
    ASSUME PriceTypeOK, PriceNext
    PROVE  /\ newest' \in 0..MaxPrices /\ outdated' \in [0..MaxPrices -> 0..Longest]
           /\ channel' \in {"idle", "joined", "down", "failed"}
           /\ inserts' \in Seq(1..MaxPrices)
  <1>0. /\ newest \in 0..MaxPrices /\ outdated \in [0..MaxPrices -> 0..Longest]
        /\ channel \in {"idle", "joined", "down", "failed"}
        /\ inserts \in Seq(1..MaxPrices)
    BY DEF PriceTypeOK
  <1>1. CASE UNCHANGED world
    BY <1>0, <1>1 DEF world
  <1>2. CASE Start \/ ChannelDrops \/ ChannelJoins
    <2>1. newest' = newest /\ outdated' = outdated
      BY <1>2 DEF Start, ChannelDrops, ChannelJoins
    <2>2. inserts' = inserts \/ inserts' = <<>>
      BY <1>2 DEF Start, ChannelDrops, ChannelJoins
    <2>3. channel' \in {"joined", "down", "failed"}
      BY <1>2 DEF Start, ChannelDrops, ChannelJoins
    <2>4. inserts' \in Seq(1..MaxPrices)
      <3>1. <<>> \in Seq(1..MaxPrices)
        OBVIOUS
      <3> QED  BY <1>0, <2>2, <3>1, Zenon
    <2> QED  BY <1>0, <2>1, <2>3, <2>4
  <1>3. CASE Insert
    <2>1. newest \in 0..MaxPrices /\ newest < MaxPrices /\ newest' = newest + 1
      BY <1>0, <1>3 DEF Insert
    <2>2. newest' \in 1..MaxPrices
      BY <2>1
    <2>3. inserts' \in Seq(1..MaxPrices)
      <3>1. Append(inserts, newest') \in Seq(1..MaxPrices)
        BY <1>0, <2>2
      <3> QED  BY <1>0, <1>3, <3>1, Zenon DEF Insert
    <2>4. UNCHANGED <<outdated, channel>>
      BY <1>3 DEF Insert
    <2> QED  BY <1>0, <2>2, <2>3, <2>4
  <1>4. CASE PriceArrives
    BY <1>0, <1>4 DEF PriceArrives
  <1>5. CASE Tick
    <2>1. outdated' = [p \in 0..MaxPrices |->
                          IF p < newest THEN Older(outdated[p]) ELSE 0]
      BY <1>5 DEF Tick
    <2>2. 0 \in 0..Longest
      BY LongestNat
    <2>3. \A p \in 0..MaxPrices : Older(outdated[p]) \in 0..Longest
      BY <1>0, OlderEffect
    <2>4. outdated' \in [0..MaxPrices -> 0..Longest]
      BY <2>1, <2>2, <2>3, Zenon
    <2> QED  BY <1>0, <1>5, <2>4 DEF Tick
  <1>6. \/ UNCHANGED world \/ Start \/ ChannelDrops \/ ChannelJoins \/ Insert
        \/ PriceArrives \/ Tick
    BY DEF PriceNext, FlushPrice, SubscribeLegacy, Subscribed, Unsubscribe, ClientCloses,
           Subscribe, OtherQueryEnds, QueryRead, QueryAnswered, QueryFails
  <1> QED  BY <1>1, <1>2, <1>3, <1>4, <1>5, <1>6

LEMMA BatchesStep ==
    ASSUME PriceTypeOK, PriceNext PROVE batched' \in 0..MaxPrices /\ timer' \in 0..Off
  <1>0. batched \in 0..MaxPrices /\ timer \in 0..Off /\ inserts \in Seq(1..MaxPrices)
    BY DEF PriceTypeOK
  <1>1. CASE UNCHANGED batches
    BY <1>0, <1>1 DEF batches
  <1>2. CASE PriceArrives
    BY <1>0, <1>2 DEF PriceArrives, batches
  <1>3. CASE FlushPrice
    BY <1>0, <1>3 DEF FlushPrice
  <1>4. CASE Tick
    BY <1>0, <1>4 DEF Tick
  <1>5. UNCHANGED batches \/ PriceArrives \/ FlushPrice \/ Tick
    BY DEF PriceNext, Start, ChannelDrops, ChannelJoins, Insert, SubscribeLegacy,
           Subscribed, Unsubscribe, ClientCloses, Subscribe, OtherQueryEnds, QueryRead,
           QueryAnswered, QueryFails
  <1> QED  BY <1>1, <1>2, <1>3, <1>4, <1>5

LEMMA HandlingStep ==
    ASSUME PriceTypeOK, PriceNext
    PROVE  /\ queue' \in [Handlers -> 0..MaxChannels]
           /\ left' \in [Handlers -> 0..Timeout] /\ read' \in [Handlers -> 0..Unread]
  <1>0. /\ newest \in 0..MaxPrices
        /\ queue \in [Handlers -> 0..MaxChannels]
        /\ left \in [Handlers -> 0..Timeout] /\ read \in [Handlers -> 0..Unread]
    BY DEF PriceTypeOK
  <1>1. CASE UNCHANGED handling
    BY <1>0, <1>1 DEF handling
  <1>2. ASSUME NEW h \in Handlers, Subscribe(h)
        PROVE  /\ queue' \in [Handlers -> 0..MaxChannels]
               /\ left' \in [Handlers -> 0..Timeout]
               /\ read' \in [Handlers -> 0..Unread]
    <2>1. PICK n \in 1..MaxChannels : queue' = [queue EXCEPT ![h] = n]
      BY <1>2 DEF Subscribe
    <2>2. left' = [left EXCEPT ![h] = Timeout] /\ read' = read
      BY <1>2 DEF Subscribe
    <2> QED  BY <1>0, <2>1, <2>2
  <1>6. ASSUME NEW h \in Handlers, QueryRead(h)
        PROVE  /\ queue' \in [Handlers -> 0..MaxChannels]
               /\ left' \in [Handlers -> 0..Timeout]
               /\ read' \in [Handlers -> 0..Unread]
    BY <1>0, <1>6 DEF QueryRead
  <1>3. CASE \E h \in Handlers : NextQuery(h) /\ queue[h] > 0
    BY <1>3, NextQueryEffect
  <1>4. CASE Tick
    BY <1>0, <1>4 DEF Tick
  <1>5. \/ UNCHANGED handling \/ Tick
        \/ \E h \in Handlers : \/ Subscribe(h) \/ QueryRead(h)
                               \/ NextQuery(h) /\ queue[h] > 0
    <2>1. ASSUME NEW h \in Handlers,
                 OtherQueryEnds(h) \/ QueryAnswered(h) \/ QueryFails(h)
          PROVE  NextQuery(h) /\ queue[h] > 0
      BY <1>0, <2>1 DEF OtherQueryEnds, QueryAnswered, QueryFails
    <2> QED  BY <2>1 DEF PriceNext, Start, ChannelDrops, ChannelJoins, Insert, PriceArrives,
                         FlushPrice, SubscribeLegacy, Unsubscribe, ClientCloses
  <1> QED  BY <1>1, <1>2, <1>3, <1>4, <1>5, <1>6

LEMMA HistoryStep ==
    ASSUME PriceTypeOK, PriceNext
    PROVE  {shown, dropped}' \subseteq 0..MaxPrices /\ {lag, away, late}' \subseteq 0..Longest
  <1>0. /\ outdated \in [0..MaxPrices -> 0..Longest]
        /\ batched \in 0..MaxPrices /\ read \in [Handlers -> 0..Unread]
        /\ shown \in 0..MaxPrices /\ dropped \in 0..MaxPrices
        /\ lag \in 0..Longest /\ away \in 0..Longest /\ late \in 0..Longest
    BY DEF PriceTypeOK
  <1>1. \/ \E p \in 0..MaxPrices : Send(p)
        \/ /\ shown' \in {shown, 0} /\ dropped' \in {dropped, 0}
           /\ UNCHANGED <<lag, late>>
    <2>1. CASE FlushPrice
      BY <1>0, <2>1 DEF FlushPrice, sends
    <2>2. ASSUME NEW h \in Handlers, QueryAnswered(h)
          PROVE  (\E p \in 0..MaxPrices : Send(p)) \/ UNCHANGED sends
      <3>1. read[h] \in 0..MaxPrices
        BY <1>0, <2>2 DEF QueryAnswered
      <3> QED  BY <2>2, <3>1 DEF QueryAnswered
    <2> QED  BY <2>1, <2>2
             DEF PriceNext, Start, ChannelDrops, ChannelJoins, Insert, PriceArrives,
                 SubscribeLegacy, Subscribed, Unsubscribe, ClientCloses, Subscribe,
                 OtherQueryEnds, QueryRead, QueryFails, Tick, sends
  <1>2. away' \in {away, 0, Older(away)}
    BY DEF PriceNext, Start, ChannelDrops, ChannelJoins, Insert, PriceArrives,
           FlushPrice, SubscribeLegacy, Subscribed, Unsubscribe, ClientCloses,
           Subscribe, OtherQueryEnds, QueryRead, QueryAnswered, QueryFails, Tick
  <1>3. away' \in 0..Longest
    <2>1. Older(away) \in 0..Longest
      BY <1>0, OlderEffect
    <2>2. 0 \in 0..Longest
      BY LongestNat
    <2> QED  BY <1>0, <1>2, <2>1, <2>2, Zenon
  <1>4. /\ shown' \in 0..MaxPrices /\ dropped' \in 0..MaxPrices
        /\ lag' \in 0..Longest /\ late' \in 0..Longest
    BY <1>0, <1>1, SendEffect
  <1> QED  BY <1>3, <1>4

LEMMA TypeStep == ASSUME PriceTypeOK, PriceNext PROVE PriceTypeOK'
  BY FlagsStep, WorldStep, BatchesStep, HandlingStep, HistoryStep DEF PriceTypeOK
----------------------------------------------------------------------------
(* What is on its way, action by action.                                     *)
LEMMA DeliveryStep == ASSUME PriceTypeOK, Delivery, PriceNext PROVE Delivery'
  <1>0. /\ newest \in 0..MaxPrices /\ inserts \in Seq(1..MaxPrices)
        /\ batched \in 0..MaxPrices
        /\ shown \in 0..MaxPrices /\ dropped \in 0..MaxPrices
        /\ read \in [Handlers -> 0..Unread] /\ queue \in [Handlers -> 0..MaxChannels]
    BY DEF PriceTypeOK
  <1>1. CASE Start \/ ChannelDrops \/ ChannelJoins
    BY <1>0, <1>1 DEF Start, ChannelDrops, ChannelJoins, Delivery, batches, handling, sends
  <1>2. CASE Insert
    BY <1>0, <1>2 DEF Insert, Delivery, batches, handling, sends
  <1>3. CASE PriceArrives
    BY <1>0, <1>3 DEF PriceArrives, Delivery, batches, handling, sends
  <1>4. CASE FlushPrice
    BY <1>0, <1>4, SendEffect DEF FlushPrice, Delivery, world, handling, sends
  <1>5. CASE SubscribeLegacy \/ Unsubscribe \/ ClientCloses
    BY <1>0, <1>5 DEF SubscribeLegacy, Subscribed, Unsubscribe, ClientCloses, Delivery,
                      world, batches, handling, sends
  <1>6. ASSUME NEW h \in Handlers, Subscribe(h)
        PROVE  Delivery'
    BY <1>0, <1>6 DEF Subscribe, Subscribed, Delivery, world, batches
  <1>7. ASSUME NEW h \in Handlers, OtherQueryEnds(h) \/ QueryFails(h)
        PROVE  Delivery'
    <2>1. NextQuery(h) /\ queue[h] > 0 /\ UNCHANGED <<world, batches, sends>>
      BY <1>0, <1>7 DEF OtherQueryEnds, QueryFails
    <2>2. \A k \in Handlers : read'[k] \in {Unread, read[k]} /\ (k # h => queue'[k] = queue[k])
      BY <2>1, NextQueryEffect
    <2>3. read'[h] = Unread
      BY <2>1, NextQueryEffect
    <2> QED  BY <2>1, <2>2, <2>3 DEF Delivery, world, batches, sends
  <1>8. ASSUME NEW h \in Handlers, QueryRead(h)
        PROVE  Delivery'
    BY <1>0, <1>8 DEF QueryRead, Delivery, world, batches, sends
  <1>9. ASSUME NEW h \in Handlers, QueryAnswered(h)
        PROVE  Delivery'
    <2>1. NextQuery(h) /\ queue[h] > 0 /\ UNCHANGED <<world, batches>>
      BY <1>9 DEF QueryAnswered
    <2>2. /\ \A k \in Handlers : read'[k] \in {Unread, read[k]}
                                /\ (k # h => queue'[k] = queue[k])
          /\ read'[h] = Unread
      BY <2>1, NextQueryEffect
    <2>3. shown' \in {shown, read[h]} /\ dropped' \in {dropped, read[h]}
      <3>1. CASE UNCHANGED sends
        BY <3>1 DEF sends
      <3>2. CASE Send(read[h])
        BY <1>9, <3>2 DEF QueryAnswered, Send, Larger, sends
      <3> QED  BY <1>9, <3>1, <3>2 DEF QueryAnswered
    <2>4. shown' <= newest /\ dropped' <= newest
      BY <1>9, <2>3 DEF QueryAnswered, Delivery
    <2> QED  BY <2>1, <2>2, <2>4 DEF Delivery, world, batches
  <1>10. CASE Tick
    BY <1>0, <1>10 DEF Tick, Delivery, sends
  <1> QED  BY <1>1, <1>2, <1>3, <1>4, <1>5, <1>6, <1>7, <1>8, <1>9, <1>10 DEF PriceNext

(* Something still shows the newest price, action by action.                 *)
LEMMA UnderwayStep == ASSUME PriceTypeOK, Delivery, Underway, PriceNext PROVE Underway'
  <1>0. /\ newest \in 0..MaxPrices /\ inserts \in Seq(1..MaxPrices)
        /\ batched \in 0..MaxPrices /\ timer \in 0..Off
        /\ shown \in 0..MaxPrices /\ dropped \in 0..MaxPrices
        /\ read \in [Handlers -> 0..Unread] /\ queue \in [Handlers -> 0..MaxChannels]
    BY DEF PriceTypeOK
  <1> SUFFICES ASSUME open', subscribed', ~missed'
               PROVE  \/ newest' \in {shown', dropped'}
                      \/ inserts' # <<>>
                      \/ timer' # Off /\ batched' = newest'
                      \/ \E h \in Handlers : queue'[h] > 0 /\ read'[h] \in {Unread, newest'}
    BY DEF Underway
  <1>1. CASE Start \/ ChannelDrops \/ ChannelJoins
    BY <1>1 DEF Start, ChannelDrops, ChannelJoins, Underway, batches, client, handling, sends
  <1>2. CASE Insert
    <2>1. inserts' = Append(inserts, newest')
      BY <1>2 DEF Insert, client
    <2>2. inserts' # <<>>
      BY <1>0, <2>1
    <2> QED  BY <2>2
  <1>3. CASE PriceArrives
    <2>1. CASE inserts' # <<>>
      BY <2>1
    <2>2. CASE inserts' = <<>>
      <3>1. Len(inserts) = 1
        <4>1. inserts # <<>> /\ Tail(inserts) = <<>>
          BY <1>3, <2>2 DEF PriceArrives
        <4>2. Len(Tail(inserts)) = Len(inserts) - 1 /\ Len(inserts) \in Nat
          BY <1>0, <4>1, HeadTailProperties
        <4> QED  BY <4>1, <4>2
      <3>2. batched' = newest /\ timer' # Off /\ newest' = newest
        BY <1>0, <1>3, <3>1 DEF PriceArrives, Delivery, client
      <3> QED  BY <3>2
    <2> QED  BY <2>1, <2>2
  <1>4. CASE FlushPrice
    <2>1. Send(batched) /\ open /\ subscribed /\ ~missed /\ UNCHANGED <<world, handling>>
      BY <1>4 DEF FlushPrice, client
    <2>2. /\ shown' \in {shown, batched} /\ shown' >= shown
          /\ dropped' \in {dropped, batched} /\ dropped' >= dropped
          /\ shown' >= batched \/ dropped' >= batched
      BY <1>0, <2>1, SendEffect
    <2>3. newest \in {shown, dropped, batched} => newest \in {shown', dropped'}
      BY <1>0, <2>2 DEF Delivery
    <2> QED  BY <2>1, <2>3 DEF Underway, world, handling
  <1>5. CASE SubscribeLegacy \/ Unsubscribe \/ ClientCloses
    BY <1>5 DEF SubscribeLegacy, Subscribed, Unsubscribe, ClientCloses
  <1>6. ASSUME NEW h \in Handlers, Subscribe(h)
        PROVE  \E k \in Handlers : queue'[k] > 0 /\ read'[k] \in {Unread, newest'}
    <2>1. PICK n \in 1..MaxChannels : queue' = [queue EXCEPT ![h] = n]
      BY <1>6 DEF Subscribe
    <2>2. queue[h] = 0 /\ read' = read
      BY <1>6 DEF Subscribe
    <2>3. queue'[h] > 0 /\ read'[h] = Unread
      BY <1>0, <2>1, <2>2 DEF Delivery
    <2> QED  BY <2>3
  <1>7. ASSUME NEW h \in Handlers, OtherQueryEnds(h)
        PROVE  \E k \in Handlers : queue'[k] > 0 /\ read'[k] \in {Unread, newest'}
    <2>1. NextQuery(h) /\ queue[h] > 1
      BY <1>7 DEF OtherQueryEnds
    <2>2. queue'[h] > 0 /\ read'[h] = Unread
      BY <1>0, <2>1, NextQueryEffect
    <2> QED  BY <2>2
  <1>8. CASE \E h \in Handlers : QueryFails(h)
    BY <1>8 DEF QueryFails
  <1>9. ASSUME NEW h \in Handlers, QueryRead(h)
        PROVE  \E k \in Handlers : queue'[k] > 0 /\ read'[k] \in {Unread, newest'}
    <2>1. queue'[h] > 0 /\ read'[h] = newest'
      BY <1>0, <1>9 DEF QueryRead, world
    <2> QED  BY <2>1
  <1>10. ASSUME NEW h \in Handlers, QueryAnswered(h)
         PROVE  \/ newest' \in {shown', dropped'}
                \/ inserts' # <<>>
                \/ timer' # Off /\ batched' = newest'
                \/ \E k \in Handlers : queue'[k] > 0 /\ read'[k] \in {Unread, newest'}
    <2>1. /\ open /\ subscribed /\ ~missed /\ UNCHANGED <<world, batches>>
          /\ NextQuery(h) /\ queue[h] > 0 /\ read[h] # Unread
          /\ read[h] \in 0..MaxPrices
      BY <1>0, <1>10 DEF QueryAnswered, client
    <2>2. \A k \in Handlers : k # h => queue'[k] = queue[k] /\ read'[k] = read[k]
      BY <2>1, NextQueryEffect
    <2>3. newest \in {shown, dropped, read[h]} => newest \in {shown', dropped'}
      <3>1. CASE read[h] = 0
        BY <1>0, <1>10, <3>1 DEF QueryAnswered, sends, Delivery
      <3>2. CASE read[h] # 0
        <4>1. /\ shown' \in {shown, read[h]} /\ shown' >= shown
              /\ dropped' \in {dropped, read[h]} /\ dropped' >= dropped
              /\ shown' >= read[h] \/ dropped' >= read[h]
          BY <1>10, <2>1, <3>2, SendEffect DEF QueryAnswered
        <4>2. shown <= newest /\ dropped <= newest /\ read[h] <= newest
          BY <2>1 DEF Delivery
        <4> QED  BY <1>0, <2>1, <4>1, <4>2
      <3> QED  BY <3>1, <3>2
    <2> QED  BY <2>1, <2>2, <2>3 DEF Underway, world, batches
  <1>11. CASE Tick
    <2>1. timer # Off => timer' # Off
      BY <1>0, <1>11 DEF Tick
    <2> QED  BY <1>11, <2>1 DEF Tick, Underway, client, sends
  <1> QED  BY <1>1, <1>2, <1>3, <1>4, <1>5, <1>6, <1>7, <1>8, <1>9, <1>10, <1>11
           DEF PriceNext
----------------------------------------------------------------------------
(* How outdated what is on its way is, action by action.                     *)
LEMMA FreshStep == ASSUME PriceTypeOK, Delivery, Fresh, PriceNext PROVE Fresh'
  <1>0. /\ newest \in 0..MaxPrices /\ inserts \in Seq(1..MaxPrices)
        /\ batched \in 0..MaxPrices /\ timer \in 0..Off
        /\ read \in [Handlers -> 0..Unread] /\ queue \in [Handlers -> 0..MaxChannels]
        /\ left \in [Handlers -> 0..Timeout]
        /\ outdated \in [0..MaxPrices -> 0..Longest]
    BY DEF PriceTypeOK
  <1> USE DEF RegressionBounded
  <1>1. CASE Start \/ ChannelDrops \/ ChannelJoins
    <2>1. /\ UNCHANGED <<newest, outdated, batched, timer, left, read, lag>>
          /\ inserts' = inserts \/ inserts' = <<>>
      BY <1>1 DEF Start, ChannelDrops, ChannelJoins, batches, handling, sends
    <2> QED  BY <2>1 DEF Fresh
  <1>2. CASE Insert
    <2>1. /\ UNCHANGED <<outdated, batched, timer, left, read, lag>>
          /\ newest' = newest + 1 /\ newest < MaxPrices
      BY <1>2 DEF Insert, batches, handling, sends
    <2>2. outdated[newest'] = 0
      BY <1>0, <2>1 DEF Fresh
    <2>3. \A i \in 1..Len(inserts') : inserts'[i] = newest' \/ \E j \in 1..Len(inserts) : inserts'[i] = inserts[j]
      BY <1>0, <1>2 DEF Insert
    <2>4. \A i \in 1..Len(inserts') : outdated[inserts'[i]] = 0
      BY <2>2, <2>3 DEF Fresh
    <2>5. \A p \in 0..MaxPrices : p >= newest' => outdated[p] = 0
      BY <1>0, <2>1 DEF Fresh
    <2> QED  BY <2>1, <2>4, <2>5 DEF Fresh
  <1>3. CASE PriceArrives
    <2>1. /\ UNCHANGED <<newest, outdated, left, read, lag>>
          /\ inserts # <<>> /\ inserts' = Tail(inserts)
          /\ \/ UNCHANGED <<batched, timer>>
             \/ batched' = inserts[1] /\ timer' \in {timer, Batch}
      BY <1>0, <1>3 DEF PriceArrives, batches, handling, sends
    <2>2. 1 \in 1..Len(inserts) /\ timer' \in 0..Off
      <3>1. Len(inserts) \in Nat \ {0}
        BY <1>0, <2>1, EmptySeq
      <3> QED  BY <1>0, <2>1, <3>1
    <2>3. \A i \in 1..Len(inserts') : i + 1 \in 1..Len(inserts) /\ inserts'[i] = inserts[i + 1]
      BY <1>0, <2>1, HeadTailProperties
    <2>4. \A i \in 1..Len(inserts') : outdated[inserts'[i]] = 0
      BY <2>3 DEF Fresh
    <2>5. timer' # Off => outdated[batched'] + timer' <= Batch
      BY <2>1, <2>2 DEF Fresh
    <2> QED  BY <2>1, <2>4, <2>5 DEF Fresh
  <1>4. CASE FlushPrice
    <2>1. lag' \in {lag, outdated[batched]}
      BY <1>0, <1>4, SendEffect DEF FlushPrice, sends
    <2>2. lag' <= Timeout
      BY <1>0, <1>4, <2>1 DEF FlushPrice, Fresh
    <2> QED  BY <1>0, <1>4, <2>2 DEF FlushPrice, Fresh, world, handling
  <1>5. CASE SubscribeLegacy \/ Unsubscribe \/ ClientCloses
    BY <1>0, <1>5 DEF SubscribeLegacy, Subscribed, Unsubscribe, ClientCloses, Fresh,
                      world, batches, handling, sends
  <1>6. ASSUME NEW h \in Handlers, Subscribe(h)
        PROVE  Fresh'
    <2>1. read[h] = Unread
      BY <1>0, <1>6 DEF Subscribe, Delivery
    <2> QED  BY <1>0, <1>6, <2>1 DEF Subscribe, Subscribed, Fresh, world, batches
  <1>7. ASSUME NEW h \in Handlers, OtherQueryEnds(h) \/ QueryFails(h)
        PROVE  Fresh'
    <2>1. NextQuery(h) /\ queue[h] > 0 /\ UNCHANGED <<world, batches, sends>>
      BY <1>0, <1>7 DEF OtherQueryEnds, QueryFails
    <2>2. \A k \in Handlers : \/ read'[k] = Unread
                              \/ read'[k] = read[k] /\ left'[k] = left[k]
      BY <2>1, NextQueryEffect
    <2> QED  BY <2>1, <2>2 DEF Fresh, world, batches, sends
  <1>8. ASSUME NEW h \in Handlers, QueryRead(h)
        PROVE  Fresh'
    BY <1>0, <1>8 DEF QueryRead, Fresh, world, batches, sends
  <1>9. ASSUME NEW h \in Handlers, QueryAnswered(h)
        PROVE  Fresh'
    <2>1. /\ NextQuery(h) /\ queue[h] > 0 /\ UNCHANGED <<world, batches>>
          /\ read[h] # Unread
      BY <1>0, <1>9 DEF QueryAnswered
    <2>2. \A k \in Handlers : \/ read'[k] = Unread
                              \/ read'[k] = read[k] /\ left'[k] = left[k]
      BY <2>1, NextQueryEffect
    <2>3. lag' \in {lag, outdated[read[h]]}
      BY <1>0, <1>9, <2>1, SendEffect DEF QueryAnswered, sends
    <2>4. lag' <= Timeout
      BY <1>0, <2>1, <2>3 DEF Fresh
    <2> QED  BY <2>1, <2>2, <2>4 DEF Fresh, world, batches
  <1>10. CASE Tick
    <2>1. \A p \in 0..MaxPrices : /\ outdated'[p] \in Nat /\ outdated'[p] <= outdated[p] + 1
                                  /\ p >= newest => outdated'[p] = 0
      <3>1. \A p \in 0..MaxPrices :
              outdated'[p] = IF p < newest THEN Older(outdated[p]) ELSE 0
        BY <1>10 DEF Tick
      <3>2. \A p \in 0..MaxPrices : outdated[p] \in 0..Longest
        BY <1>0
      <3>3. \A p \in 0..MaxPrices : /\ Older(outdated[p]) \in Nat
                                    /\ Older(outdated[p]) <= outdated[p] + 1
        BY <3>2, OlderEffect, LongestNat
      <3>4. newest \in Nat /\ \A p \in 0..MaxPrices : p \in Nat /\ outdated[p] \in Nat
        BY <1>0, <3>2, LongestNat
      <3> QED  BY <3>1, <3>3, <3>4
    <2>2. timer' # Off => timer # Off /\ timer' = timer - 1
      BY <1>0, <1>10 DEF Tick
    <2>3. \A h \in Handlers : read[h] # Unread => left[h] > 0 /\ left'[h] = left[h] - 1
      BY <1>0, <1>10 DEF Tick, Aborted, Delivery
    <2>4. UNCHANGED <<newest, inserts, batched, read, lag>> /\ inserts = <<>>
      BY <1>10 DEF Tick, sends
    <2>5. timer' # Off => outdated'[batched'] + timer' <= Batch
      BY <1>0, <2>1, <2>2, <2>4 DEF Fresh
    <2>6. ASSUME NEW h \in Handlers, read'[h] # Unread
          PROVE  outdated'[read'[h]] + left'[h] <= Timeout
      <3>1. read[h] \in 0..MaxPrices /\ left[h] \in Nat /\ outdated[read[h]] \in Nat
        BY <1>0, <2>4, <2>6
      <3>2. outdated[read[h]] + left[h] <= Timeout
        BY <2>4, <2>6 DEF Fresh
      <3>3. outdated'[read[h]] \in Nat /\ outdated'[read[h]] <= outdated[read[h]] + 1
        BY <2>1, <3>1
      <3>4. left[h] > 0 /\ left'[h] = left[h] - 1 /\ read'[h] = read[h]
        BY <2>3, <2>4, <2>6
      <3> QED  BY <3>1, <3>2, <3>3, <3>4
    <2> QED  BY <2>1, <2>4, <2>5, <2>6 DEF Fresh
  <1> QED  BY <1>1, <1>2, <1>3, <1>4, <1>5, <1>6, <1>7, <1>8, <1>9, <1>10 DEF PriceNext

(* How long the slab has been left, action by action.                        *)
LEMMA Budget == \A n \in Nat : /\ n * Timeout \in Nat
                               /\ (n + 1) * Timeout = n * Timeout + Timeout
                               /\ n <= MaxChannels => n * Timeout <= MaxChannels * Timeout
  OBVIOUS

LEMMA QuietStep == ASSUME PriceTypeOK, Quiet, PriceNext PROVE Quiet'
  <1>0. /\ queue \in [Handlers -> 0..MaxChannels] /\ left \in [Handlers -> 0..Timeout]
        /\ away \in 0..Longest /\ late \in 0..Longest
        /\ batched \in 0..MaxPrices /\ read \in [Handlers -> 0..Unread]
    BY DEF PriceTypeOK
  <1>L. Longest \in Nat /\ MaxChannels * Timeout \in Nat
    BY LongestNat
  <1>a. subscribed => away = 0
    BY DEF Quiet
  <1>b. \A h \in Handlers :
          queue[h] > 0 => away + left[h] + (queue[h] - 1) * Timeout <= MaxChannels * Timeout
    BY DEF Quiet
  <1>c. late <= MaxChannels * Timeout
    BY DEF Quiet, QuietAfterUnsubscribe
  <1> USE DEF QuietAfterUnsubscribe
  <1>1. CASE \/ Start \/ ChannelDrops \/ ChannelJoins \/ Insert \/ PriceArrives
             \/ Unsubscribe \/ ClientCloses
    BY <1>1 DEF Start, ChannelDrops, ChannelJoins, Insert, PriceArrives, Unsubscribe,
                ClientCloses, Quiet, client, handling, sends
  <1>2. CASE FlushPrice
    <2>1. late' \in {late, away} /\ (late' # late => subscribed)
      BY <1>0, <1>2, SendEffect DEF FlushPrice, sends
    <2>2. late' <= MaxChannels * Timeout
      BY <1>L, <1>a, <1>c, <2>1
    <2> QED  BY <1>2, <2>2 DEF FlushPrice, Quiet, client, handling
  <1>3. CASE SubscribeLegacy
    <2>1. away' = 0 /\ UNCHANGED <<queue, left, late>>
      BY <1>3 DEF SubscribeLegacy, Subscribed, handling
    <2>2. ASSUME NEW h \in Handlers, queue[h] > 0
          PROVE  0 + left[h] + (queue[h] - 1) * Timeout <= MaxChannels * Timeout
      <3>1. queue[h] - 1 \in Nat /\ left[h] \in Nat /\ away \in Nat
        BY <1>0, <1>L, <2>2
      <3> QED  BY <1>L, <1>b, <2>2, <3>1, Budget
    <2> QED  BY <1>c, <2>1, <2>2 DEF Quiet
  <1>4. ASSUME NEW h \in Handlers, Subscribe(h)
        PROVE  Quiet'
    <2>1. away' = 0 /\ left' = [left EXCEPT ![h] = Timeout] /\ late' = late
      BY <1>4 DEF Subscribe, Subscribed
    <2>2. PICK n \in 1..MaxChannels : queue' = [queue EXCEPT ![h] = n]
      BY <1>4 DEF Subscribe
    <2>3. ASSUME NEW k \in Handlers, queue'[k] > 0
          PROVE  0 + left'[k] + (queue'[k] - 1) * Timeout <= MaxChannels * Timeout
      <3>1. CASE k = h
        <4>1. queue'[k] = n /\ left'[k] = Timeout
          BY <1>0, <2>1, <2>2, <3>1
        <4>2. (n - 1) * Timeout + Timeout <= MaxChannels * Timeout /\ (n - 1) * Timeout \in Nat
          <5>1. n - 1 \in Nat /\ n \in Nat /\ n <= MaxChannels /\ (n - 1) + 1 = n
            OBVIOUS
          <5> QED  BY <1>L, <5>1, Budget
        <4> QED  BY <1>L, <4>1, <4>2
      <3>2. CASE k # h
        <4>1. queue'[k] = queue[k] /\ left'[k] = left[k]
          BY <1>0, <2>1, <2>2, <3>2
        <4>2. queue[k] - 1 \in Nat /\ left[k] \in Nat /\ away \in Nat
          BY <1>0, <1>L, <2>3, <4>1
        <4> QED  BY <1>L, <1>b, <2>3, <4>1, <4>2, Budget
      <3> QED  BY <3>1, <3>2
    <2> QED  BY <1>c, <2>1, <2>3 DEF Quiet
  <1>5. ASSUME NEW h \in Handlers,
               OtherQueryEnds(h) \/ QueryFails(h) \/ QueryAnswered(h)
        PROVE  Quiet'
    <2>1. NextQuery(h) /\ queue[h] > 0 /\ UNCHANGED <<subscribed, away>>
      BY <1>0, <1>5 DEF OtherQueryEnds, QueryFails, QueryAnswered, client
    <2>2. ASSUME NEW k \in Handlers, queue'[k] > 0
          PROVE  away + left'[k] + (queue'[k] - 1) * Timeout <= MaxChannels * Timeout
      <3>1. CASE k = h
        <4>1. queue[h] > 1 /\ queue'[h] = queue[h] - 1 /\ left'[h] = Timeout
          BY <1>0, <2>1, <2>2, <3>1, NextQueryEffect
        <4>2. /\ queue[h] - 2 \in Nat /\ left[h] \in Nat /\ away \in Nat
              /\ (queue[h] - 2) + 1 = queue[h] - 1
          BY <1>0, <1>L, <4>1
        <4>3. (queue[h] - 1) * Timeout = (queue[h] - 2) * Timeout + Timeout
          BY <4>2, Budget
        <4> QED  BY <1>L, <1>b, <2>1, <3>1, <4>1, <4>2, <4>3, Budget
      <3>2. CASE k # h
        BY <1>b, <2>1, <2>2, <3>2, NextQueryEffect
      <3> QED  BY <3>1, <3>2
    <2>3. late' <= MaxChannels * Timeout
      <3>1. late' \in {late, away}
        BY <1>0, <1>5, SendEffect DEF OtherQueryEnds, QueryFails, QueryAnswered, sends
      <3>2. queue[h] - 1 \in Nat /\ left[h] \in Nat /\ away \in Nat
        BY <1>0, <1>L, <2>1
      <3>3. away <= MaxChannels * Timeout
        BY <1>L, <1>b, <2>1, <3>2, Budget
      <3> QED  BY <1>c, <3>1, <3>3
    <2> QED  BY <1>a, <2>1, <2>2, <2>3 DEF Quiet
  <1>6. ASSUME NEW h \in Handlers, QueryRead(h)
        PROVE  Quiet'
    BY <1>6 DEF QueryRead, Quiet, client, sends
  <1>7. CASE Tick
    <2>1. UNCHANGED <<subscribed, queue, late>> /\ away' \in {0, Older(away)}
          /\ (subscribed => away' = 0)
      BY <1>7 DEF Tick, client, sends
    <2>2. away' \in Nat /\ away' <= away + 1
      BY <1>0, <1>L, <2>1, OlderEffect
    <2>3. ASSUME NEW h \in Handlers, queue[h] > 0
          PROVE  away' + left'[h] + (queue[h] - 1) * Timeout <= MaxChannels * Timeout
      <3>1. left[h] > 0 /\ left'[h] = left[h] - 1
        BY <1>0, <1>7, <2>3 DEF Tick, Aborted
      <3>2. queue[h] - 1 \in Nat /\ left[h] \in Nat /\ away \in Nat
        BY <1>0, <1>L, <2>3
      <3> QED  BY <1>L, <1>b, <2>2, <2>3, <3>1, <3>2, Budget
    <2> QED  BY <1>c, <2>1, <2>3 DEF Quiet
  <1> QED  BY <1>1, <1>2, <1>3, <1>4, <1>5, <1>6, <1>7 DEF PriceNext

LEMMA IInvStep == IInv /\ [PriceNext]_priceVars => IInv'
  <1> SUFFICES ASSUME IInv, [PriceNext]_priceVars PROVE IInv'  OBVIOUS
  <1>1. CASE PriceNext
    BY <1>1, TypeStep, DeliveryStep, UnderwayStep, FreshStep, QuietStep DEF IInv
  <1>2. CASE UNCHANGED priceVars
    BY <1>2 DEF priceVars, world, batches, client, handling, sends, IInv, PriceTypeOK, Delivery,
                Underway, Fresh, Quiet, RegressionBounded, QuietAfterUnsubscribe
  <1> QED  BY <1>1, <1>2

(* The strengthening of the three properties below is inductive.             *)
THEOREM AlwaysIInv == PriceSpec => []IInv
  BY Init_IInv, IInvStep, PTL DEF PriceSpec
----------------------------------------------------------------------------
(* The types hold forever.                                                   *)
THEOREM PriceTypeCorrect == PriceSpec => []PriceTypeOK
  <1>1. IInv => PriceTypeOK  BY DEF IInv
  <1> QED  BY <1>1, AlwaysIInv, PTL

(* However the queries of subscribe messages, inserts, batches and           *)
(* unsubscribes interleave, no price sent has been outdated for longer than  *)
(* the timeout of the query that read it (handleSubscribe, flushPriceUpdate).*)
THEOREM RegressionIsBounded == PriceSpec => []RegressionBounded
  <1>1. IInv => RegressionBounded  BY DEF IInv, Fresh
  <1> QED  BY <1>1, AlwaysIInv, PTL

(* Between initial queries and broadcasts no price is lost: what settles     *)
(* without a failure has shown the newest, or the client's send buffer was   *)
(* full when that price was to be sent (safeSend, flushPriceUpdate).         *)
THEOREM NothingIsLost == PriceSpec => []NothingLost
  <1>1. IInv => NothingLost
    <2> SUFFICES ASSUME IInv, Settled PROVE newest \in {shown, dropped}
      BY DEF NothingLost
    <2>1. ~\E h \in Handlers : queue[h] > 0
      BY DEF Settled
    <2> QED  BY <2>1 DEF IInv, Underway, Settled
  <1> QED  BY <1>1, AlwaysIInv, PTL

(* A message for a slab that is not subscribed to comes at most a timeout    *)
(* per channel of a subscribe message after the unsubscribe.                 *)
THEOREM QuietIsKept == PriceSpec => []QuietAfterUnsubscribe
  <1>1. IInv => QuietAfterUnsubscribe  BY DEF IInv, Quiet
  <1> QED  BY <1>1, AlwaysIInv, PTL
=============================================================================
