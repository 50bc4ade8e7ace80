---------------------------- MODULE PushHubProofs ----------------------------
(***************************************************************************)
(* What holds of the hub for any number of users and connections and any   *)
(* caps: no goroutine panics on a closed channel, and slots are accounted  *)
(* for.                                                                    *)
(***************************************************************************)
EXTENDS PushHub, FiniteSetTheorems, TLAPS

AnyUser == CHOOSE u \in Users : TRUE

LEMMA AnyUserExists == AnyUser \in Users
BY ConstantsAssumption DEF AnyUser

\* The loop has a message for a connection.
LEMMA Handling ==
  ASSUME TypeOK, loop.op \in {"register", "unregister"}
  PROVE  loop.c \in Conns /\ loop = [op |-> loop.op, c |-> loop.c]
BY DEF TypeOK, Idle

LEMMA TypeInit == Init => TypeOK
<1> SUFFICES ASSUME Init PROVE TypeOK
  OBVIOUS
<1>1. of \in [Conns -> Users]
  BY AnyUserExists DEF Init, AnyUser
<1>2. 0 \in 0..MaxDrops /\ 0 \in 0..Buffer
  BY ConstantsAssumption
<1> QED
  BY <1>1, <1>2 DEF Init, TypeOK

\* The variables a step leaves alone keep their types.
LEMMA ReleaseType ==
  ASSUME TypeOK, NEW u \in Users, releaseReservedLocked(u)
  PROVE  pendingGlobal' \in Nat /\ pending' \in [Users -> Nat]
BY DEF TypeOK, releaseReservedLocked

LEMMA TypeStep == TypeOK /\ [Next]_vars => TypeOK'
<1> SUFFICES ASSUME TypeOK, [Next]_vars PROVE TypeOK'
  OBVIOUS
<1> USE DEF slots, sockets, channels
<1>1. ASSUME NEW u \in Users, PushToUser(u) PROVE TypeOK'
  <2> DEFINE full == {c \in UserClients(u) : queued[c] = Buffer}
  <2>1. UserClients(u) \subseteq Conns
    BY DEF UserClients, TypeOK
  <2>2. queued' \in [Conns -> 0..Buffer]
    <3>1. queued' = [c \in Conns |-> IF c \in UserClients(u) \ full
                                       THEN queued[c] + 1 ELSE queued[c]]
      BY <1>1 DEF PushToUser, Send
    <3>2. ASSUME NEW c \in Conns PROVE queued'[c] \in 0..Buffer
      BY <3>1, <3>2, ConstantsAssumption DEF TypeOK
    <3> QED
      BY <3>1, <3>2
  <2>3. drops' \in [Conns -> 0..MaxDrops]
    <3>1. drops' = [c \in Conns |-> IF c \in full THEN drops[c] + 1 ELSE drops[c]]
      BY <1>1 DEF PushToUser, Send
    <3>2. \A c \in full : drops[c] < MaxDrops
      BY <1>1 DEF PushToUser, Send
    <3>3. ASSUME NEW c \in Conns PROVE drops'[c] \in 0..MaxDrops
      BY <3>1, <3>2, <3>3, ConstantsAssumption DEF TypeOK
    <3> QED
      BY <3>1, <3>3
  <2>4. behind' \subseteq Conns /\ panicked' \in BOOLEAN
    BY <1>1, <2>1 DEF PushToUser, Send, TypeOK
  <2> QED
    BY <1>1, <2>2, <2>3, <2>4 DEF PushToUser, Send, TypeOK
<1>2. ASSUME NEW c \in Conns, NEW u \in Users, Authenticate(c, u) PROVE TypeOK'
  BY <1>2 DEF Authenticate, TypeOK
<1>3. ASSUME NEW c \in Conns, reserveSlot(c) PROVE TypeOK'
  BY <1>3 DEF reserveSlot, TypeOK
<1>4. ASSUME NEW c \in Conns, Upgrade(c) PROVE TypeOK'
  <2>1. of[c] \in Users
    BY DEF TypeOK
  <2> QED
    BY <1>4, <2>1, ReleaseType DEF Upgrade, TypeOK
<1>5. ASSUME NEW c \in Conns, StartPumps(c) PROVE TypeOK'
  BY <1>5 DEF StartPumps, TypeOK
<1>6. ASSUME NEW c \in Conns, ReceiveRegister(c) PROVE TypeOK'
  BY <1>6 DEF ReceiveRegister, TypeOK
<1>7. ASSUME NEW c \in Conns, ReceiveUnregister(c) PROVE TypeOK'
  BY <1>7, ConstantsAssumption DEF ReceiveUnregister, TypeOK
<1>8. ASSUME NEW c \in Conns, PeerGone(c) PROVE TypeOK'
  BY <1>8 DEF PeerGone, TypeOK
<1>9. ASSUME NEW c \in Conns, readPump(c) PROVE TypeOK'
  BY <1>9 DEF readPump, TypeOK
<1>10. ASSUME NEW c \in Conns, writePump(c) PROVE TypeOK'
  BY <1>10, ConstantsAssumption
     DEF writePump, WriteMessage, SeeClosed, Ping, EndWrite, TypeOK
<1>11. ASSUME NEW c \in Conns, Collect(c) PROVE TypeOK'
  <2>1. 0 \in 0..Buffer
    BY ConstantsAssumption
  <2> QED
    BY <1>11, <2>1, AnyUserExists DEF Collect, TypeOK, AnyUser
<1>12. CASE Register
  <2>1. loop.c \in Conns /\ of[loop.c] \in Users
    BY <1>12, Handling DEF Register, TypeOK
  <2> QED
    BY <1>12, <2>1, ReleaseType DEF Register, TypeOK
<1>13. CASE Unregister
  <2>1. loop.c \in Conns
    BY <1>13, Handling DEF Unregister
  <2>2. panicked' \in BOOLEAN
    BY <1>13 DEF Unregister, CloseSend, TypeOK
  <2> QED
    BY <1>13, <2>1, <2>2 DEF Unregister, CloseSend, TypeOK
<1>14. CASE UNCHANGED vars
  BY <1>14 DEF vars, TypeOK
<1> QED
  BY <1>1, <1>2, <1>3, <1>4, <1>5, <1>6, <1>7, <1>8, <1>9, <1>10, <1>11, <1>12, <1>13,
     <1>14 DEF Next

\* The hub's maps, counters, channels and pumps keep their types.
THEOREM TypeCorrect == Spec => []TypeOK
BY TypeInit, TypeStep, PTL DEF Spec

-----------------------------------------------------------------------------
(***************************************************************************)
(* No panic                                                                *)
(***************************************************************************)
\* Connections the hub has not received yet.
Early == {"free", "reserve", "upgrade", "register"}
Registering(c) == loop = [op |-> "register", c |-> c]

\* A registered client has an open channel, and so has one that is about to be
\* registered, which happens once: before the hub receives a connection it is neither
\* registered nor closed.
ChannelsOpen ==
  /\ clients \cap closed = {}
  /\ \A c \in Conns :
       stage[c] \in Early \/ Registering(c) => c \notin clients \cup closed
  /\ \A c \in Conns : stage[c] \in Early => ~Registering(c)

SafeChannels == TypeOK /\ ChannelsOpen /\ NeverPanics

LEMMA ChannelsInit == Init => ChannelsOpen /\ NeverPanics
BY DEF Init, ChannelsOpen, NeverPanics, Registering, Idle

LEMMA ChannelsStep ==
  ASSUME SafeChannels, [Next]_vars
  PROVE  ChannelsOpen' /\ NeverPanics'
<1> USE DEF SafeChannels, slots, sockets, channels
<1>1. ASSUME NEW u \in Users, PushToUser(u) PROVE ChannelsOpen' /\ NeverPanics'
  <2>1. UserClients(u) \cap closed = {}
    BY DEF UserClients, ChannelsOpen
  <2>2. NeverPanics'
    BY <1>1, <2>1 DEF PushToUser, Send, NeverPanics
  <2>3. UNCHANGED <<stage, clients, loop, closed>>
    BY <1>1 DEF PushToUser, Send
  <2> QED
    BY <2>2, <2>3 DEF ChannelsOpen, Registering
<1>2. ASSUME NEW c \in Conns, NEW u \in Users, Authenticate(c, u)
      PROVE  ChannelsOpen' /\ NeverPanics'
  BY <1>2 DEF Authenticate, ChannelsOpen, NeverPanics, TypeOK, Registering, Early
<1>3. ASSUME NEW c \in Conns, reserveSlot(c) PROVE ChannelsOpen' /\ NeverPanics'
  BY <1>3 DEF reserveSlot, ChannelsOpen, NeverPanics, TypeOK, Registering, Early
<1>4. ASSUME NEW c \in Conns, Upgrade(c) PROVE ChannelsOpen' /\ NeverPanics'
  BY <1>4 DEF Upgrade, ChannelsOpen, NeverPanics, TypeOK, Registering, Early
<1>5. ASSUME NEW c \in Conns, StartPumps(c) PROVE ChannelsOpen' /\ NeverPanics'
  BY <1>5 DEF StartPumps, ChannelsOpen, NeverPanics, TypeOK, Registering, Early
<1>6. ASSUME NEW c \in Conns, ReceiveRegister(c) PROVE ChannelsOpen' /\ NeverPanics'
  <2>1. stage[c] \in Early /\ c \notin clients \cup closed
    BY <1>6 DEF ReceiveRegister, ChannelsOpen, Early
  <2>2. \A d \in Conns : stage'[d] \in Early => stage[d] \in Early /\ d # c
    BY <1>6 DEF ReceiveRegister, TypeOK, Early
  <2>3. \A d \in Conns : Registering(d)' => d = c
    BY <1>6 DEF ReceiveRegister, Registering
  <2> QED
    BY <1>6, <2>1, <2>2, <2>3 DEF ReceiveRegister, ChannelsOpen, NeverPanics
<1>7. ASSUME NEW c \in Conns, ReceiveUnregister(c) PROVE ChannelsOpen' /\ NeverPanics'
  <2>1. \A d \in Conns : ~Registering(d)'
    BY <1>7 DEF ReceiveUnregister, Registering
  <2> QED
    BY <1>7, <2>1 DEF ReceiveUnregister, ChannelsOpen, NeverPanics
<1>8. ASSUME NEW c \in Conns, PeerGone(c) \/ readPump(c) \/ writePump(c)
      PROVE  ChannelsOpen' /\ NeverPanics'
  <2>1. UNCHANGED <<stage, clients, loop, closed, panicked>>
    BY <1>8 DEF PeerGone, readPump, writePump
  <2> QED
    BY <2>1 DEF ChannelsOpen, NeverPanics, Registering
<1>9. ASSUME NEW c \in Conns, Collect(c) PROVE ChannelsOpen' /\ NeverPanics'
  <2>1. c \notin clients /\ ~Registering(c)
    BY <1>9 DEF Collect, TornDown, Registering
  <2>2. \A d \in Conns : stage'[d] \in Early => stage[d] \in Early \/ d = c
    BY <1>9 DEF Collect, TypeOK
  <2>3. closed' = closed \ {c} /\ UNCHANGED <<clients, loop, panicked>>
    BY <1>9 DEF Collect
  <2> QED
    BY <2>1, <2>2, <2>3 DEF ChannelsOpen, NeverPanics, Registering
<1>10. CASE Register
  <2>1. loop.c \in Conns /\ Registering(loop.c)
    BY <1>10, Handling DEF Register, Registering
  <2>2. loop.c \notin closed /\ stage[loop.c] \notin Early
    BY <2>1 DEF ChannelsOpen
  <2>3. \A d \in Conns : ~Registering(d)'
    BY <1>10 DEF Register, Registering, Idle
  <2> QED
    BY <1>10, <2>1, <2>2, <2>3 DEF Register, ChannelsOpen, NeverPanics
<1>11. CASE Unregister
  <2>1. loop.c \in Conns
    BY <1>11, Handling DEF Unregister
  <2>2. \A d \in Conns : ~Registering(d)'
    BY <1>11 DEF Unregister, Registering, Idle
  <2>3. CASE loop.c \in clients
    <3>1. loop.c \notin closed /\ stage[loop.c] \notin Early
      BY <2>1, <2>3 DEF ChannelsOpen
    <3>2. NeverPanics'
      BY <1>11, <2>3, <3>1 DEF Unregister, CloseSend, NeverPanics
    <3> QED
      BY <1>11, <2>2, <2>3, <3>1, <3>2 DEF Unregister, CloseSend, ChannelsOpen
  <2>4. CASE loop.c \notin clients
    BY <1>11, <2>2, <2>4 DEF Unregister, ChannelsOpen, NeverPanics
  <2> QED
    BY <2>3, <2>4
<1>12. CASE UNCHANGED vars
  BY <1>12 DEF vars, ChannelsOpen, NeverPanics, Registering
<1> QED
  BY <1>1, <1>2, <1>3, <1>4, <1>5, <1>6, <1>7, <1>8, <1>9, <1>10, <1>11, <1>12 DEF Next

\* However often and in whatever order a read pump and pushes unregister a client, its
\* send channel is closed once and no push writes to it afterwards.
THEOREM NoPanic == Spec => []NeverPanics
<1>1. Init => SafeChannels
  BY TypeInit, ChannelsInit DEF SafeChannels
<1>2. SafeChannels /\ [Next]_vars => SafeChannels'
  BY TypeStep, ChannelsStep DEF SafeChannels
<1>3. SafeChannels => NeverPanics
  BY DEF SafeChannels
<1> QED
  BY <1>1, <1>2, <1>3, PTL DEF Spec

-----------------------------------------------------------------------------
(***************************************************************************)
(* Slots                                                                   *)
(***************************************************************************)
HeldBy(u) == {c \in Holding : of[c] = u}

\* Everything that is counted is a finite set of connections.
LEMMA Counted ==
  ASSUME NEW S \in SUBSET Conns
  PROVE  IsFiniteSet(S) /\ Cardinality(S) \in Nat
BY ConstantsAssumption, FS_Subset, FS_CardinalityType

LEMMA OneMore ==
  ASSUME NEW S \in SUBSET Conns, NEW c \in Conns, c \notin S
  PROVE  Cardinality(S \cup {c}) = Cardinality(S) + 1
BY Counted, FS_AddElement

LEMMA OneLess ==
  ASSUME NEW S \in SUBSET Conns, NEW c \in S
  PROVE  Cardinality(S \ {c}) = Cardinality(S) - 1 /\ Cardinality(S) > 0
<1>1. Cardinality(S \ {c}) = Cardinality(S) - 1
  BY Counted, FS_RemoveElement
<1>2. Cardinality(S \ {c}) \in Nat /\ Cardinality(S) \in Nat
  BY Counted
<1> QED
  BY <1>1, <1>2

LEMMA NoMore ==
  ASSUME NEW S \in SUBSET Conns, NEW T \in SUBSET S
  PROVE  Cardinality(T) <= Cardinality(S)
BY Counted, FS_Subset

LEMMA HoldingConns == Holding \subseteq Conns
BY DEF Holding

\* A step that takes and gives no slot.
LEMMA SlotsKept ==
  ASSUME TypeOK, TypeOK', SlotsAccounted, UNCHANGED slots, Holding' = Holding,
         clients' \subseteq clients, \A c \in Holding \cup clients : of'[c] = of[c]
  PROVE  SlotsAccounted'
<1>1. pendingGlobal' = Cardinality(Holding)'
  BY DEF SlotsAccounted, slots
<1>2. \A u \in Users : HeldBy(u)' = HeldBy(u)
  BY DEF HeldBy
<1>3. \A u \in Users : pending'[u] = Cardinality(HeldBy(u))'
  BY <1>2 DEF SlotsAccounted, slots, HeldBy
<1>4. Cardinality(clients') <= Cardinality(clients)
  BY NoMore DEF TypeOK
<1>5. ASSUME NEW u \in Users
      PROVE  Cardinality(UserClients(u))' <= Cardinality(UserClients(u))
  <2>1. UserClients(u)' \subseteq UserClients(u) /\ UserClients(u) \subseteq Conns
    BY DEF UserClients, TypeOK
  <2> QED
    BY <2>1, NoMore
<1>6. /\ Cardinality(clients) \in Nat /\ Cardinality(clients') \in Nat
      /\ \A u \in Users : /\ Cardinality(UserClients(u)) \in Nat
                          /\ Cardinality(UserClients(u))' \in Nat
  BY Counted DEF TypeOK, UserClients
<1>7. MaxConnections > 0 => Cardinality(clients') + pendingGlobal' <= MaxConnections
  BY <1>4, <1>6, ConstantsAssumption DEF SlotsAccounted, TypeOK, slots
<1>8. MaxConnectionsPerUser > 0 =>
        \A u \in Users : Cardinality(UserClients(u))' + pending'[u] <= MaxConnectionsPerUser
  BY <1>5, <1>6, ConstantsAssumption DEF SlotsAccounted, TypeOK, slots
<1> QED
  BY <1>1, <1>3, <1>7, <1>8 DEF SlotsAccounted, HeldBy

\* A handshake reserves a slot.
LEMMA SlotTaken ==
  ASSUME TypeOK, SlotsAccounted, NEW c \in Conns, c \notin Holding, SlotFree(of[c]),
         pendingGlobal' = pendingGlobal + 1, pending' = [pending EXCEPT ![of[c]] = @ + 1],
         Holding' = Holding \cup {c}, UNCHANGED <<clients, of>>
  PROVE  SlotsAccounted'
<1>0. of[c] \in Users
  BY DEF TypeOK
<1>1. pendingGlobal' = Cardinality(Holding)'
  BY HoldingConns, OneMore DEF SlotsAccounted
<1>2. ASSUME NEW u \in Users PROVE pending'[u] = Cardinality(HeldBy(u))'
  <2>1. HeldBy(u) \subseteq Conns /\ c \notin HeldBy(u)
    BY HoldingConns DEF HeldBy
  <2>2. pending[u] = Cardinality(HeldBy(u))
    BY DEF SlotsAccounted, HeldBy
  <2>3. CASE u = of[c]
    <3>1. HeldBy(u)' = HeldBy(u) \cup {c}
      BY <2>3 DEF HeldBy
    <3> QED
      BY <2>1, <2>2, <2>3, <3>1, OneMore DEF TypeOK
  <2>4. CASE u # of[c]
    <3>1. HeldBy(u)' = HeldBy(u)
      BY <2>4 DEF HeldBy
    <3> QED
      BY <2>2, <2>4, <3>1 DEF TypeOK
  <2> QED
    BY <2>3, <2>4
<1>3. Cardinality(clients) \in Nat /\ \A u \in Users : Cardinality(UserClients(u)) \in Nat
  BY Counted DEF TypeOK, UserClients
<1>4. MaxConnections > 0 => Cardinality(clients') + pendingGlobal' <= MaxConnections
  BY <1>3, ConstantsAssumption DEF SlotFree, TypeOK
<1>5. MaxConnectionsPerUser > 0 =>
        \A u \in Users : Cardinality(UserClients(u))' + pending'[u] <= MaxConnectionsPerUser
  <2> SUFFICES ASSUME MaxConnectionsPerUser > 0, NEW u \in Users
               PROVE  Cardinality(UserClients(u))' + pending'[u] <= MaxConnectionsPerUser
    OBVIOUS
  <2>1. UserClients(u)' = UserClients(u)
    BY DEF UserClients
  <2>2. CASE u = of[c]
    BY <1>3, <2>1, <2>2, ConstantsAssumption DEF SlotFree, TypeOK
  <2>3. CASE u # of[c]
    BY <2>1, <2>3 DEF SlotsAccounted, TypeOK
  <2> QED
    BY <2>2, <2>3
<1> QED
  BY <1>1, <1>2, <1>4, <1>5 DEF SlotsAccounted, HeldBy

\* A handshake gives its slot back: its connection is a client now, or it failed.
LEMMA SlotGiven ==
  ASSUME TypeOK, SlotsAccounted, NEW c \in Holding, releaseReservedLocked(of[c]),
         Holding' = Holding \ {c}, UNCHANGED of,
         UNCHANGED clients \/ (c \notin clients /\ clients' = clients \cup {c})
  PROVE  SlotsAccounted'
<1>0. c \in Conns /\ of[c] \in Users
  BY HoldingConns DEF TypeOK
<1>1. pendingGlobal > 0 /\ pendingGlobal' = pendingGlobal - 1
  BY HoldingConns, OneLess DEF SlotsAccounted, releaseReservedLocked
<1>2. pendingGlobal' = Cardinality(Holding)'
  BY <1>1, HoldingConns, OneLess DEF SlotsAccounted
<1>3. \A u \in Users : pending[u] = Cardinality(HeldBy(u)) /\ HeldBy(u) \subseteq Conns
  BY HoldingConns DEF SlotsAccounted, HeldBy
<1>4. pending[of[c]] > 0
  <2>1. c \in HeldBy(of[c])
    BY DEF HeldBy
  <2> QED
    BY <1>0, <1>3, <2>1, OneLess
<1>5. pending' = [pending EXCEPT ![of[c]] = @ - 1]
  <2>1. pending[of[c]] \in Nat
    BY <1>0 DEF TypeOK
  <2>2. (IF pending[of[c]] <= 1 THEN 0 ELSE pending[of[c]] - 1) = pending[of[c]] - 1
    BY <1>4, <2>1
  <2> QED
    BY <2>2 DEF releaseReservedLocked
<1>6. ASSUME NEW u \in Users PROVE pending'[u] = Cardinality(HeldBy(u))'
  <2>1. CASE u = of[c]
    <3>1. HeldBy(u)' = HeldBy(u) \ {c} /\ c \in HeldBy(u)
      BY <2>1 DEF HeldBy
    <3> QED
      BY <1>3, <1>5, <2>1, <3>1, OneLess DEF TypeOK
  <2>2. CASE u # of[c]
    <3>1. HeldBy(u)' = HeldBy(u)
      BY <2>2 DEF HeldBy
    <3> QED
      BY <1>3, <1>5, <2>2, <3>1 DEF TypeOK
  <2> QED
    BY <2>1, <2>2
<1>7. Cardinality(clients) \in Nat /\ \A u \in Users : Cardinality(UserClients(u)) \in Nat
  BY Counted DEF TypeOK, UserClients
<1>8. MaxConnections > 0 => Cardinality(clients') + pendingGlobal' <= MaxConnections
  <2>1. Cardinality(clients') = Cardinality(clients)
          \/ Cardinality(clients') = Cardinality(clients) + 1
    BY <1>0, OneMore DEF TypeOK
  <2> QED
    BY <1>1, <1>7, <2>1, ConstantsAssumption DEF SlotsAccounted, TypeOK
<1>9. MaxConnectionsPerUser > 0 =>
        \A u \in Users : Cardinality(UserClients(u))' + pending'[u] <= MaxConnectionsPerUser
  <2> SUFFICES ASSUME MaxConnectionsPerUser > 0, NEW u \in Users
               PROVE  Cardinality(UserClients(u))' + pending'[u] <= MaxConnectionsPerUser
    OBVIOUS
  <2>0. UserClients(u) \subseteq Conns
    BY DEF UserClients, TypeOK
  <2>1. Cardinality(UserClients(u)) + pending[u] <= MaxConnectionsPerUser
    BY DEF SlotsAccounted
  <2>2. CASE u = of[c]
    <3>1. UserClients(u)' = UserClients(u)
            \/ (c \notin UserClients(u) /\ UserClients(u)' = UserClients(u) \cup {c})
      BY <2>2 DEF UserClients
    <3>2. Cardinality(UserClients(u))' <= Cardinality(UserClients(u)) + 1
      BY <1>0, <1>7, <2>0, <3>1, OneMore
    <3>3. Cardinality(UserClients(u))' \in Nat
      BY <1>0, <2>0, <3>1, Counted
    <3> QED
      BY <1>5, <1>7, <2>1, <2>2, <3>2, <3>3, ConstantsAssumption DEF TypeOK
  <2>3. CASE u # of[c]
    <3>1. UserClients(u)' = UserClients(u)
      BY <2>3 DEF UserClients
    <3> QED
      BY <1>5, <2>1, <2>3, <3>1 DEF TypeOK
  <2> QED
    BY <2>2, <2>3
<1> QED
  BY <1>2, <1>6, <1>8, <1>9 DEF SlotsAccounted, HeldBy

LEMMA SlotsInit == Init => SlotsAccounted
<1> SUFFICES ASSUME Init PROVE SlotsAccounted
  OBVIOUS
<1>1. Holding = {}
  BY DEF Init, Holding, Idle
<1>2. \A u \in Users : UserClients(u) = {}
  BY DEF Init, UserClients
<1>3. \A u \in Users : HeldBy(u) = {}
  BY <1>1 DEF HeldBy
<1>4. Cardinality({}) = 0
  BY FS_EmptySet
<1> QED
  BY <1>1, <1>2, <1>3, <1>4, ConstantsAssumption DEF Init, SlotsAccounted, HeldBy

LEMMA SlotsStep ==
  ASSUME SafeChannels, SlotsAccounted, [Next]_vars
  PROVE  SlotsAccounted'
<1> USE DEF slots, sockets, channels
<1>0. TypeOK /\ TypeOK' /\ ChannelsOpen
  BY TypeStep DEF SafeChannels
<1>1. ASSUME NEW u \in Users, PushToUser(u) PROVE SlotsAccounted'
  <2>1. Holding' = Holding
    BY <1>1 DEF PushToUser, Holding
  <2> QED
    BY <1>0, <1>1, <2>1, SlotsKept DEF PushToUser
<1>2. ASSUME NEW c \in Conns, NEW u \in Users, Authenticate(c, u) PROVE SlotsAccounted'
  <2>1. c \notin Holding /\ c \notin clients
    BY <1>0, <1>2 DEF Authenticate, Holding, ChannelsOpen, Early, Registering
  <2>2. Holding' = Holding
    BY <1>0, <1>2 DEF Authenticate, Holding, TypeOK
  <2>3. \A d \in Holding \cup clients : of'[d] = of[d]
    BY <1>0, <1>2, <2>1, HoldingConns DEF Authenticate, TypeOK
  <2> QED
    BY <1>0, <1>2, <2>2, <2>3, SlotsKept DEF Authenticate
<1>3. ASSUME NEW c \in Conns, reserveSlot(c) PROVE SlotsAccounted'
  <2>1. c \notin Holding
    BY <1>0, <1>3 DEF reserveSlot, Holding, ChannelsOpen, Early, Registering
  <2>2. CASE SlotFree(of[c])
    <3>1. Holding' = Holding \cup {c}
      BY <1>0, <1>3, <2>2 DEF reserveSlot, Holding, TypeOK
    <3> QED
      BY <1>0, <1>3, <2>1, <2>2, <3>1, SlotTaken DEF reserveSlot
  <2>3. CASE ~SlotFree(of[c])
    <3>1. Holding' = Holding
      BY <1>0, <1>3, <2>1, <2>3 DEF reserveSlot, Holding, TypeOK
    <3> QED
      BY <1>0, <1>3, <2>3, <3>1, SlotsKept DEF reserveSlot
  <2> QED
    BY <2>2, <2>3
<1>4. ASSUME NEW c \in Conns, Upgrade(c) PROVE SlotsAccounted'
  <2>1. c \in Holding /\ ~Registering(c)
    BY <1>0, <1>4 DEF Upgrade, Holding, ChannelsOpen, Early
  <2>2. CASE stage' = [stage EXCEPT ![c] = "register"] /\ UNCHANGED slots
    <3>1. Holding' = Holding
      BY <1>0, <1>4, <2>1, <2>2 DEF Upgrade, Holding, TypeOK
    <3> QED
      BY <1>0, <1>4, <2>2, <3>1, SlotsKept DEF Upgrade
  <2>3. CASE stage' = [stage EXCEPT ![c] = "free"] /\ releaseReservedLocked(of[c])
    <3>1. Holding' = Holding \ {c}
      BY <1>0, <1>4, <2>1, <2>3 DEF Upgrade, Holding, TypeOK, Registering
    <3> QED
      BY <1>0, <1>4, <2>1, <2>3, <3>1, SlotGiven DEF Upgrade
  <2> QED
    BY <1>4, <2>2, <2>3 DEF Upgrade
<1>5. ASSUME NEW c \in Conns, StartPumps(c) PROVE SlotsAccounted'
  <2>1. Holding' = Holding
    BY <1>0, <1>5 DEF StartPumps, Holding, TypeOK
  <2> QED
    BY <1>0, <1>5, <2>1, SlotsKept DEF StartPumps
<1>6. ASSUME NEW c \in Conns, ReceiveRegister(c) PROVE SlotsAccounted'
  <2>1. Holding' = Holding
    BY <1>0, <1>6 DEF ReceiveRegister, Holding, TypeOK, Idle
  <2> QED
    BY <1>0, <1>6, <2>1, SlotsKept DEF ReceiveRegister
<1>7. ASSUME NEW c \in Conns, ReceiveUnregister(c) PROVE SlotsAccounted'
  <2>1. Holding' = Holding
    BY <1>7 DEF ReceiveUnregister, Holding, Idle
  <2> QED
    BY <1>0, <1>7, <2>1, SlotsKept DEF ReceiveUnregister
<1>8. ASSUME NEW c \in Conns, PeerGone(c) \/ readPump(c) \/ writePump(c)
      PROVE  SlotsAccounted'
  <2>1. UNCHANGED <<stage, of, clients, slots, loop>>
    BY <1>8 DEF PeerGone, readPump, writePump
  <2>2. Holding' = Holding
    BY <2>1 DEF Holding
  <2> QED
    BY <1>0, <2>1, <2>2, SlotsKept
<1>9. ASSUME NEW c \in Conns, Collect(c) PROVE SlotsAccounted'
  <2>1. c \notin Holding /\ c \notin clients
    BY <1>9 DEF Collect, TornDown, Holding
  <2>2. Holding' = Holding
    BY <1>0, <1>9, <2>1 DEF Collect, Holding, TypeOK
  <2>3. \A d \in Holding \cup clients : of'[d] = of[d]
    BY <1>0, <1>9, <2>1, HoldingConns DEF Collect, TypeOK
  <2> QED
    BY <1>0, <1>9, <2>2, <2>3, SlotsKept DEF Collect
<1>10. CASE Register
  <2>1. loop.c \in Conns /\ Registering(loop.c)
    BY <1>0, <1>10, Handling DEF Register, Registering
  <2>2. loop.c \in Holding /\ loop.c \notin clients /\ stage[loop.c] \notin Early
    BY <1>0, <2>1 DEF Holding, Registering, ChannelsOpen
  <2>3. Holding' = Holding \ {loop.c}
    BY <1>10, <2>1, <2>2 DEF Register, Holding, Registering, Early, Idle
  <2> QED
    BY <1>0, <1>10, <2>2, <2>3, SlotGiven DEF Register
<1>11. CASE Unregister
  <2>1. Holding' = Holding
    BY <1>11 DEF Unregister, Holding, Idle
  <2> QED
    BY <1>0, <1>11, <2>1, SlotsKept DEF Unregister
<1>12. CASE UNCHANGED vars
  <2>1. UNCHANGED <<stage, of, clients, slots, loop>>
    BY <1>12 DEF vars
  <2>2. Holding' = Holding
    BY <2>1 DEF Holding
  <2> QED
    BY <1>0, <2>1, <2>2, SlotsKept
<1> QED
  BY <1>1, <1>2, <1>3, <1>4, <1>5, <1>6, <1>7, <1>8, <1>9, <1>10, <1>11, <1>12 DEF Next

\* The pending counters of the hub are the handshakes that hold a slot, and with the
\* registered clients they stay within both caps, whichever way handshakes end.
THEOREM SlotsHold == Spec => []SlotsAccounted
<1> DEFINE IInv == SafeChannels /\ SlotsAccounted
<1>1. Init => IInv
  BY TypeInit, ChannelsInit, SlotsInit DEF SafeChannels
<1>2. IInv /\ [Next]_vars => IInv'
  BY TypeStep, ChannelsStep, SlotsStep DEF SafeChannels
<1>3. IInv => SlotsAccounted
  OBVIOUS
<1> HIDE DEF IInv
<1> QED
  BY <1>1, <1>2, <1>3, PTL DEF Spec

=============================================================================
