------------------------ MODULE WsConnections_proofs ------------------------
(* Proofs about WsConnections: where a socket is in its life, the limits of  *)
(* the in-memory store, and the balance of the per-IP counters.              *)
EXTENDS WsConnections, Functions, FiniteSetTheorems, TLAPS

(* A socket is being admitted, or registered, or neither; its flags agree    *)
(* until it is registered. No upgrade begins at a client whose socket has    *)
(* closed.                                                                   *)
Shape ==
    \A c \in Conns :
        /\ step[c] # "done" => c \notin clients /\ ~Upgrading(c)
        /\ step[c] \notin {"done", "ban"} => authenticated[c] = initially[c]
        /\ sock[c] = "none" => c \notin clients /\ ~Upgrading(c) /\ step[c] = "done"
        /\ c \in clients /\ sock[c] = "closed" => ~Upgrading(c)

(* With the in-memory store a handler runs alone until it ends, so that what *)
(* an admission has checked still holds when it registers the client.        *)
Alone ==
    ~remote =>
        /\ \A c \in Conns : step[c] # "done" =>
             /\ sock[c] \in {"open", "closing"}
             /\ Cardinality(clients) < MaxConnections
             /\ \A d \in Conns : ~Upgrading(d) /\ (d # c => step[d] = "done")
        /\ \A c, d \in Conns : Upgrading(c) /\ Upgrading(d) => c = d
        /\ Cardinality(clients) <= MaxConnections

LifeInv == TypeOK /\ Shape /\ Alone /\ NoGhost /\ UpgradeSettles
----------------------------------------------------------------------------
(* What the actions share.                                                   *)
USE ConnsFinite, ModeBoolean, BudgetsPositive

LEMMA StandingNat == ASSUME NEW k PROVE Standing(k) \in Nat
  <1>1. IsFiniteSet({c \in Conns : k = Key(k[1], c) /\ CountedIn(c, k[1])})
    BY FS_Subset
  <1> QED  BY <1>1, FS_CardinalityType DEF Standing

LEMMA PlusNat == ASSUME NEW n \in Nat, NEW by \in {1, -1} PROVE Plus(n, by) \in Nat
  BY DEF Plus

LEMMA WrittenType ==
    ASSUME TypeOK, NEW k \in Keys, NEW by \in {1, -1}, Written(k, by)
    PROVE  /\ {count, fallback, miscounts}' \subseteq [Keys -> Nat]
           /\ faults' \in 0..MaxFaults
  <1>0. /\ count \in [Keys -> Nat] /\ fallback \in [Keys -> Nat]
        /\ miscounts \in [Keys -> Nat] /\ faults \in 0..MaxFaults
    BY DEF TypeOK
  <1>1. PICK executed, failed \in BOOLEAN :
          /\ Fault(failed)
          /\ count' = IF executed THEN [count EXCEPT ![k] = Plus(@, by)] ELSE count
          /\ fallback' = IF failed THEN [fallback EXCEPT ![k] = Plus(@, by)] ELSE fallback
          /\ miscounts' = IF failed THEN [miscounts EXCEPT ![k] = @ + 1] ELSE miscounts
    BY DEF Written
  <1>2. faults' \in 0..MaxFaults
    BY <1>0, <1>1 DEF Fault
  <1>3. Plus(count[k], by) \in Nat /\ Plus(fallback[k], by) \in Nat
    BY <1>0, PlusNat
  <1>4. count' \in [Keys -> Nat] /\ fallback' \in [Keys -> Nat]
    BY <1>0, <1>1, <1>3
  <1>5. miscounts' \in [Keys -> Nat]
    BY <1>0, <1>1
  <1> QED  BY <1>2, <1>4, <1>5

LEMMA OvertakenType ==
    ASSUME TypeOK, NEW c \in Conns, NEW happens \in BOOLEAN, Overtaken(c, happens)
    PROVE  miscounts' \in [Keys -> Nat] /\ faults' \in 0..MaxFaults
  <1>0. miscounts \in [Keys -> Nat] /\ faults \in 0..MaxFaults
    BY DEF TypeOK
  <1>1. faults' \in 0..MaxFaults
    BY <1>0 DEF Overtaken, Fault
  <1>2. \A k \in Keys :
          miscounts[k] + (IF happens /\ k[2] = IpOf[c] THEN 1 ELSE 0) \in Nat
    BY <1>0
  <1>3. miscounts' \in [Keys -> Nat]
    BY <1>2 DEF Overtaken
  <1> QED  BY <1>1, <1>3

LEMMA KeyIn == ASSUME NEW c \in Conns, NEW kind \in Kinds PROVE Key(kind, c) \in Keys
  BY DEF Key, Keys

LEMMA KindIn == ASSUME NEW c \in Conns PROVE Kind(c) \in Kinds
  BY DEF Kind, Kinds
----------------------------------------------------------------------------
(* The types, variable by variable.                                          *)
LEMMA StoreStep ==
    ASSUME TypeOK, Next
    PROVE  /\ remote' \in BOOLEAN /\ faults' \in 0..MaxFaults
           /\ {count, fallback, decrements, miscounts}' \subseteq [Keys -> Nat]
  <1>0. /\ count \in [Keys -> Nat] /\ fallback \in [Keys -> Nat]
        /\ decrements \in [Keys -> Nat] /\ miscounts \in [Keys -> Nat]
        /\ faults \in 0..MaxFaults /\ remote \in BOOLEAN
    BY DEF TypeOK
  <1>1. CASE UNCHANGED store
    BY <1>0, <1>1 DEF store
  <1>2. ASSUME NEW kind, NEW c, NEW n, Counted(kind, c, n)
        PROVE  /\ faults' \in 0..MaxFaults
               /\ UNCHANGED <<remote, count, fallback, decrements, miscounts>>
    BY <1>0, <1>2 DEF Counted, Fault
  <1>3. ASSUME NEW k \in Keys, NEW by \in {1, -1}, Written(k, by),
               UNCHANGED <<remote, decrements>>
        PROVE  /\ remote' \in BOOLEAN /\ faults' \in 0..MaxFaults
               /\ {count, fallback, decrements, miscounts}' \subseteq [Keys -> Nat]
    BY <1>0, <1>3, WrittenType
  <1>4. CASE \E c \in Conns, kind \in Kinds : Incremented(kind, c) \/ Decremented(kind, c)
    BY <1>3, <1>4, KeyIn DEF Incremented, Decremented
  <1>5. ASSUME NEW c \in Conns, AuthMessage(c)
        PROVE  /\ remote' \in BOOLEAN /\ faults' \in 0..MaxFaults
               /\ {count, fallback, decrements, miscounts}' \subseteq [Keys -> Nat]
    <2>1. Overtaken(c, Upgrading(c) /\ ~initially[c])
          /\ UNCHANGED <<remote, count, fallback, decrements>>
      BY <1>5 DEF AuthMessage
    <2>2. (Upgrading(c) /\ ~initially[c]) \in BOOLEAN
      OBVIOUS
    <2> QED  BY <1>0, <2>1, <2>2, OvertakenType
  <1>6. ASSUME NEW c \in Conns, Released(c)
        PROVE  /\ remote' \in BOOLEAN /\ faults' \in 0..MaxFaults
               /\ {count, fallback, decrements, miscounts}' \subseteq [Keys -> Nat]
    <2>1. Upgrading(c) \in BOOLEAN
      BY DEF Upgrading
    <2>2. miscounts' \in [Keys -> Nat] /\ faults' \in 0..MaxFaults
      BY <1>6, <2>1, OvertakenType DEF Released
    <2>3. Key(Kind(c), c) \in Keys
      BY KeyIn, KindIn
    <2>4. Plus(count[Key(Kind(c), c)], -1) \in Nat
      BY <1>0, <2>3, PlusNat
    <2>5. count' \in [Keys -> Nat] /\ decrements' \in [Keys -> Nat]
      BY <1>0, <1>6, <2>3, <2>4 DEF Released
    <2> QED  BY <1>0, <1>6, <2>2, <2>5 DEF Released
  <1>7. ASSUME NEW k \in Keys, DecrementSettles(k)
        PROVE  /\ remote' \in BOOLEAN /\ faults' \in 0..MaxFaults
               /\ {count, fallback, decrements, miscounts}' \subseteq [Keys -> Nat]
    <2>1. decrements' \in [Keys -> Nat]
      BY <1>0, <1>7 DEF DecrementSettles
    <2> QED  BY <1>0, <1>7, <2>1, WrittenType DEF DecrementSettles
  <1>8. CASE Crash
    <2>1. miscounts' \in [Keys -> Nat]
      BY <1>0, <1>8, StandingNat DEF Crash
    <2>2. Zero \in [Keys -> Nat]
      BY DEF Zero
    <2>3. faults' \in 0..MaxFaults
      BY <1>0, <1>8 DEF Crash
    <2> QED  BY <1>0, <1>8, <2>1, <2>2, <2>3 DEF Crash
  <1>13. ASSUME NEW k \in Keys, CountExpires(k)
         PROVE  /\ remote' \in BOOLEAN /\ faults' \in 0..MaxFaults
                /\ {count, fallback, decrements, miscounts}' \subseteq [Keys -> Nat]
    <2>1. miscounts[k] + Standing(k) + decrements[k] \in Nat
      BY <1>0, StandingNat
    <2>2. miscounts' \in [Keys -> Nat] /\ count' \in [Keys -> Nat]
      BY <1>0, <1>13, <2>1 DEF CountExpires
    <2>3. faults' \in 0..MaxFaults
      BY <1>0, <1>13 DEF CountExpires, Fault
    <2> QED  BY <1>0, <1>13, <2>2, <2>3 DEF CountExpires
  <1>14. ASSUME NEW c \in Conns, Register(c)
         PROVE  /\ remote' \in BOOLEAN /\ faults' \in 0..MaxFaults
                /\ {count, fallback, decrements, miscounts}' \subseteq [Keys -> Nat]
    <2>1. Key(Kind(c), c) \in Keys
      BY KeyIn, KindIn
    <2>2. miscounts' \in [Keys -> Nat]
      BY <1>0, <1>14, <2>1 DEF Register
    <2> QED  BY <1>0, <1>14, <2>2 DEF Register
  <1>9. ASSUME NEW c \in Conns, Admission(c)
        PROVE  \/ UNCHANGED store \/ Register(c)
               \/ \E kind \in Kinds : \E n : Counted(kind, c, n)
               \/ \E kind \in Kinds : Incremented(kind, c)
    BY <1>9, KindIn DEF Admission, Connect, BanAnswered, AuthCountAnswered,
                        UnauthCountAnswered, AdmissionIncrement, Kinds
  <1>10. ASSUME NEW c \in Conns, Upgrade(c)
         PROVE  \/ UNCHANGED store \/ AuthMessage(c)
                \/ \E kind \in Kinds : \E n : Counted(kind, c, n)
                \/ \E kind \in Kinds : Incremented(kind, c) \/ Decremented(kind, c)
    BY <1>10 DEF Upgrade, UpgradeCountAnswered, UpgradeDecrement, UpgradeIncrement,
                 UpgradeMark, Kinds
  <1>11. ASSUME NEW c \in Conns,
                BeginClosing(c) \/ Close(c) \/ CloseUnregistered(c) \/ Forget(c)
         PROVE  UNCHANGED store \/ Released(c)
    BY <1>11 DEF BeginClosing, Close, CloseUnregistered, Forget
  <1>12. CASE \E c, kind, n : Counted(kind, c, n)
    BY <1>0, <1>2, <1>12
  <1> QED  BY <1>1, <1>4, <1>5, <1>6, <1>7, <1>8, <1>9, <1>10, <1>11, <1>12, <1>13,
              <1>14 DEF Next

LEMMA FlagsStep ==
    ASSUME TypeOK, Next
    PROVE  authenticated' \in [Conns -> BOOLEAN] /\ initially' \in [Conns -> BOOLEAN]
  <1>0. authenticated \in [Conns -> BOOLEAN] /\ initially \in [Conns -> BOOLEAN]
    BY DEF TypeOK
  <1>1. CASE UNCHANGED flags
    BY <1>0, <1>1 DEF flags
  <1>2. ASSUME NEW c \in Conns, BanAnswered(c)
        PROVE  authenticated' \in [Conns -> BOOLEAN] /\ initially' \in [Conns -> BOOLEAN]
    <2>1. CASE UNCHANGED flags
      BY <1>1, <2>1
    <2>2. CASE ~UNCHANGED flags
      <3>1. PICK valid \in BOOLEAN :
              /\ authenticated' = [authenticated EXCEPT ![c] = valid]
              /\ initially' = [initially EXCEPT ![c] = valid]
        BY <1>2, <2>2 DEF BanAnswered
      <3> QED  BY <1>0, <3>1, Zenon
    <2> QED  BY <2>1, <2>2
  <1>3. ASSUME NEW c \in Conns, AuthMessage(c)
        PROVE  authenticated' \in [Conns -> BOOLEAN] /\ initially' \in [Conns -> BOOLEAN]
    BY <1>0, <1>3, Zenon DEF AuthMessage
  <1>4. ASSUME NEW c \in Conns, NEW i \in Messages, UpgradeMark(c, i)
        PROVE  authenticated' \in [Conns -> BOOLEAN] /\ initially' \in [Conns -> BOOLEAN]
    BY <1>0, <1>4, Zenon DEF UpgradeMark
  <1>5. ASSUME NEW c \in Conns, Gone(c)
        PROVE  authenticated' \in [Conns -> BOOLEAN] /\ initially' \in [Conns -> BOOLEAN]
    <2>1. (authenticated[c] /\ ~Idle(c)) \in BOOLEAN /\ (initially[c] /\ ~Idle(c)) \in BOOLEAN
      BY Zenon
    <2> QED  BY <1>0, <1>5, <2>1, Zenon DEF Gone
  <1>6. CASE Crash
    BY <1>6, Zenon DEF Crash, All
  <1> QED  BY <1>1, <1>2, <1>3, <1>4, <1>5, <1>6
           DEF Next, Admission, Upgrade, Connect, AuthCountAnswered, UnauthCountAnswered,
               AdmissionIncrement, Register, UpgradeCountAnswered, UpgradeDecrement,
               UpgradeIncrement, BeginClosing, Close, CloseUnregistered, Forget,
               DecrementSettles, CountExpires

LEMMA SockStep ==
    ASSUME TypeOK, Next PROVE sock' \in [Conns -> {"none", "open", "closing", "closed"}]
  <1>0. sock \in [Conns -> {"none", "open", "closing", "closed"}]
    BY DEF TypeOK
  <1>1. ASSUME NEW c \in Conns, StartClose(c) \/ Gone(c) \/ UNCHANGED sock
        PROVE  sock' \in [Conns -> {"none", "open", "closing", "closed"}]
    BY <1>0, <1>1 DEF StartClose, Gone
  <1>2. ASSUME NEW c \in Conns, Connect(c)
        PROVE  sock' \in [Conns -> {"none", "open", "closing", "closed"}]
    BY <1>0, <1>2 DEF Connect
  <1>3. CASE Crash
    BY <1>3 DEF Crash, All
  <1>4. CASE UNCHANGED sock
    BY <1>0, <1>4
  <1> QED  BY <1>1, <1>2, <1>3, <1>4
           DEF Next, Admission, Upgrade, BanAnswered, AuthCountAnswered,
               UnauthCountAnswered, AdmissionIncrement, Register, AuthMessage,
               UpgradeCountAnswered, UpgradeDecrement, UpgradeIncrement, UpgradeMark,
               BeginClosing, Close, CloseUnregistered, Forget, DecrementSettles, CountExpires,
               Reject

LEMMA HandlersStep ==
    ASSUME TypeOK, Next
    PROVE  /\ step' \in [Conns -> AdmissionSteps \union {"done"}]
           /\ upgrade' \in [Conns -> [Messages -> UpgradeSteps \union {"none"}]]
           /\ clients' \subseteq Conns
  <1>0. /\ step \in [Conns -> AdmissionSteps \union {"done"}]
        /\ upgrade \in [Conns -> [Messages -> UpgradeSteps \union {"none"}]]
        /\ clients \subseteq Conns
    BY DEF TypeOK
  <1>1. step' \in [Conns -> AdmissionSteps \union {"done"}]
    <2>1. ASSUME NEW c \in Conns, NEW a \in AdmissionSteps \union {"done"}, GoTo(c, a)
          PROVE  step' \in [Conns -> AdmissionSteps \union {"done"}]
      BY <1>0, <2>1 DEF GoTo
    <2>2. \/ UNCHANGED step \/ Crash
          \/ \E c \in Conns : \E a \in AdmissionSteps \union {"done"} : GoTo(c, a)
      BY DEF Next, Admission, Upgrade, Connect, BanAnswered, AuthCountAnswered,
             UnauthCountAnswered, AdmissionIncrement, Register, AuthMessage,
             UpgradeCountAnswered, UpgradeDecrement, UpgradeIncrement, UpgradeMark,
             BeginClosing, Close, CloseUnregistered, Forget, DecrementSettles,
             CountExpires, Reject, AdmissionSteps
    <2>3. CASE Crash
      BY <2>3 DEF Crash, All
    <2> QED  BY <1>0, <2>1, <2>2, <2>3
  <1>2. upgrade' \in [Conns -> [Messages -> UpgradeSteps \union {"none"}]]
    <2>1. ASSUME NEW c \in Conns, NEW i \in Messages, NEW u \in UpgradeSteps \union {"none"},
                 upgrade' = [upgrade EXCEPT ![c][i] = u]
          PROVE  upgrade' \in [Conns -> [Messages -> UpgradeSteps \union {"none"}]]
      BY <1>0, <2>1
    <2>2. \/ UNCHANGED upgrade \/ Crash
          \/ \E c \in Conns, i \in Messages : \E u \in UpgradeSteps \union {"none"} :
               upgrade' = [upgrade EXCEPT ![c][i] = u]
      BY ZenonT(60) DEF Next, Admission, Upgrade, Connect, BanAnswered, AuthCountAnswered,
             UnauthCountAnswered, AdmissionIncrement, Register, AuthMessage,
             UpgradeCountAnswered, UpgradeDecrement, UpgradeIncrement, UpgradeMark,
             BeginClosing, Close, CloseUnregistered, Forget, DecrementSettles,
             CountExpires, UpgradeSteps
    <2>3. CASE Crash
      BY <2>3 DEF Crash, All
    <2> QED  BY <1>0, <2>1, <2>2, <2>3
  <1>3. clients' \subseteq Conns
    BY <1>0 DEF Next, Admission, Upgrade, Connect, BanAnswered, AuthCountAnswered,
             UnauthCountAnswered, AdmissionIncrement, Register, AuthMessage,
             UpgradeCountAnswered, UpgradeDecrement, UpgradeIncrement, UpgradeMark,
             BeginClosing, Close, CloseUnregistered, Forget, DecrementSettles,
             CountExpires, Crash
  <1> QED  BY <1>1, <1>2, <1>3

LEMMA TypeStep == ASSUME TypeOK, Next PROVE TypeOK'
  BY StoreStep, FlagsStep, SockStep, HandlersStep DEF TypeOK
----------------------------------------------------------------------------
(* Where a socket is in its life, action by action.                          *)
LEMMA UpgradeSet ==
    ASSUME TypeOK, NEW c \in Conns, NEW i \in Messages, NEW u,
           upgrade' = [upgrade EXCEPT ![c][i] = u]
    PROVE  /\ \A d \in Conns, j \in Messages :
                upgrade'[d][j] = IF d = c /\ j = i THEN u ELSE upgrade[d][j]
           /\ \A d \in Conns : d # c => (Upgrading(d)' <=> Upgrading(d))
           /\ u # "none" => Upgrading(c)'
  <1>1. upgrade \in [Conns -> [Messages -> UpgradeSteps \union {"none"}]]
    BY DEF TypeOK
  <1>2. \A d \in Conns, j \in Messages :
          upgrade'[d][j] = IF d = c /\ j = i THEN u ELSE upgrade[d][j]
    BY <1>1
  <1> QED  BY <1>2 DEF Upgrading

LEMMA SameUpgrades ==
    ASSUME UNCHANGED upgrade PROVE \A d \in Conns : Upgrading(d)' <=> Upgrading(d)
  BY DEF Upgrading

LEMMA ShapeStep == ASSUME TypeOK, Shape, Next PROVE Shape'
  <1>0. /\ step \in [Conns -> AdmissionSteps \union {"done"}]
        /\ sock \in [Conns -> {"none", "open", "closing", "closed"}]
        /\ authenticated \in [Conns -> BOOLEAN] /\ initially \in [Conns -> BOOLEAN]
        /\ clients \subseteq Conns
    BY DEF TypeOK
  <1> USE DEF Shape
  <1>1. ASSUME NEW c \in Conns, Connect(c)
        PROVE  Shape'
    BY <1>0, <1>1, SameUpgrades DEF Connect, GoTo, flags
  <1>2. ASSUME NEW c \in Conns, BanAnswered(c)
        PROVE  Shape'
    <2>1. CASE Reject(c) /\ UNCHANGED flags
      BY <1>0, <1>2, <2>1, SameUpgrades DEF BanAnswered, Reject, StartClose, GoTo, flags
    <2>2. CASE ~(Reject(c) /\ UNCHANGED flags)
      <3>1. PICK valid \in BOOLEAN :
              /\ authenticated' = [authenticated EXCEPT ![c] = valid]
              /\ initially' = [initially EXCEPT ![c] = valid]
              /\ GoTo(c, "auth count") /\ UNCHANGED <<sock, clients, upgrade>>
        BY <1>2, <2>2 DEF BanAnswered
      <3>2. authenticated'[c] = initially'[c]
        BY <1>0, <3>1, Zenon
      <3>3. \A d \in Conns : d # c => /\ authenticated'[d] = authenticated[d]
                                     /\ initially'[d] = initially[d]
                                     /\ step'[d] = step[d]
        BY <1>0, <3>1 DEF GoTo
      <3>4. step[c] = "ban" /\ step'[c] = "auth count"
        BY <1>0, <1>2, <3>1 DEF BanAnswered, GoTo
      <3> QED  BY <3>1, <3>2, <3>3, <3>4, SameUpgrades
    <2> QED  BY <2>1, <2>2
  <1>3. ASSUME NEW c \in Conns, AuthCountAnswered(c) \/ UnauthCountAnswered(c)
        PROVE  Shape'
    BY <1>0, <1>3, SameUpgrades
       DEF AuthCountAnswered, UnauthCountAnswered, Reject, StartClose, GoTo, flags
  <1>4. ASSUME NEW c \in Conns, AdmissionIncrement(c)
        PROVE  Shape'
    BY <1>0, <1>4, SameUpgrades DEF AdmissionIncrement, GoTo, flags
  <1>5. ASSUME NEW c \in Conns, Register(c)
        PROVE  Shape'
    BY <1>0, <1>5, SameUpgrades DEF Register, GoTo, flags
  <1>6. ASSUME NEW c \in Conns, AuthMessage(c)
        PROVE  Shape'
    <2>1. \A d \in Conns : d # c => (Upgrading(d)' <=> Upgrading(d))
      <3>1. PICK i \in Messages :
              upgrade' = upgrade \/ upgrade' = [upgrade EXCEPT ![c][i] = "auth count"]
        BY <1>6 DEF AuthMessage
      <3> QED  BY <3>1, UpgradeSet, SameUpgrades
    <2> QED  BY <1>0, <1>6, <2>1 DEF AuthMessage
  <1>7. ASSUME NEW c \in Conns, NEW i \in Messages,
               \/ UpgradeCountAnswered(c, i) \/ UpgradeDecrement(c, i)
               \/ UpgradeIncrement(c, i) \/ UpgradeMark(c, i)
        PROVE  Shape'
    <2>1. \A d \in Conns : d # c => (Upgrading(d)' <=> Upgrading(d))
      <3>1. \E u : upgrade' = [upgrade EXCEPT ![c][i] = u]
        BY <1>7 DEF UpgradeCountAnswered, UpgradeDecrement, UpgradeIncrement, UpgradeMark
      <3> QED  BY <3>1, UpgradeSet
    <2>2. Upgrading(c)
      BY <1>7 DEF Upgrading, UpgradeCountAnswered, UpgradeDecrement, UpgradeIncrement,
                  UpgradeMark
    <2>3. /\ step' = step /\ clients' = clients /\ authenticated' = authenticated
          /\ \A d \in Conns : d # c => sock'[d] = sock[d] /\ initially'[d] = initially[d]
          /\ sock'[c] = "none" => sock[c] = "none"
          /\ sock'[c] = "closed" => sock[c] = "closed"
      BY <1>0, <1>7 DEF UpgradeCountAnswered, UpgradeDecrement, UpgradeIncrement,
                        UpgradeMark, StartClose, flags
    <2> QED  BY <2>1, <2>2, <2>3
  <1>8. ASSUME NEW c \in Conns, BeginClosing(c)
        PROVE  Shape'
    BY <1>0, <1>8, SameUpgrades DEF BeginClosing, StartClose, flags
  <1>9. ASSUME NEW c \in Conns, Close(c) \/ CloseUnregistered(c) \/ Forget(c)
        PROVE  Shape'
    <2>1. /\ UNCHANGED <<step, upgrade>> /\ Gone(c)
          /\ clients' \subseteq clients \ {c}
      BY <1>0, <1>9 DEF Close, CloseUnregistered, Forget
    <2> QED  BY <1>0, <2>1, SameUpgrades DEF Gone, Idle
  <1>10. ASSUME NEW k \in Keys, DecrementSettles(k) \/ CountExpires(k)
         PROVE  Shape'
    BY <1>10, SameUpgrades DEF DecrementSettles, CountExpires, flags
  <1>11. CASE Crash
    BY <1>11 DEF Crash, All, Upgrading
  <1> QED  BY <1>1, <1>2, <1>3, <1>4, <1>5, <1>6, <1>7, <1>8, <1>9, <1>10, <1>11
           DEF Next, Admission, Upgrade

(* With the in-memory store a handler runs alone, action by action.          *)
LEMMA AloneStep ==
    ASSUME TypeOK, Shape, Alone, NoGhost, Next PROVE Alone' /\ NoGhost'
  <1>0. /\ step \in [Conns -> AdmissionSteps \union {"done"}]
        /\ sock \in [Conns -> {"none", "open", "closing", "closed"}]
        /\ clients \subseteq Conns
    BY DEF TypeOK
  <1>f. IsFiniteSet(clients) /\ Cardinality(clients) \in Nat
    BY <1>0, FS_Subset, FS_CardinalityType
  <1>r. remote' = remote
    BY ZenonT(60) DEF Next, Admission, Upgrade, Connect, BanAnswered, AuthCountAnswered,
           UnauthCountAnswered, AdmissionIncrement, Register, AuthMessage,
           UpgradeCountAnswered, UpgradeDecrement, UpgradeIncrement, UpgradeMark,
           BeginClosing, Close, CloseUnregistered, Forget, DecrementSettles, CountExpires,
           Crash, Counted, Incremented, Decremented, Released, store
  <1> SUFFICES ASSUME ~remote PROVE Alone' /\ NoGhost'
    BY <1>r DEF Alone, NoGhost
  <1> USE <1>r DEF Alone, NoGhost
  <1>1. ASSUME NEW c \in Conns, Connect(c)
        PROVE  Alone' /\ NoGhost'
    <2>1. Quiet /\ UNCHANGED <<clients, upgrade>> /\ c \notin clients
      BY <1>1 DEF Connect, IOEvent
    <2>2. CASE Full
      BY <1>0, <1>1, <2>1, <2>2, SameUpgrades DEF Connect, Quiet
    <2>3. CASE ~Full
      <3>1. Cardinality(clients) < MaxConnections
        BY <1>f, <2>3 DEF Full
      <3>2. /\ sock' = [sock EXCEPT ![c] = "open"]
            /\ step' = [step EXCEPT ![c] = "ban"]
        BY <1>1, <2>3 DEF Connect, GoTo
      <3> QED  BY <1>0, <1>1, <2>1, <3>1, <3>2, SameUpgrades DEF Quiet
    <2> QED  BY <2>2, <2>3
  <1>2. ASSUME NEW c \in Conns,
               \/ BanAnswered(c) \/ AuthCountAnswered(c) \/ UnauthCountAnswered(c)
               \/ AdmissionIncrement(c)
        PROVE  Alone' /\ NoGhost'
    <2>1. /\ step[c] # "done" /\ UNCHANGED <<clients, upgrade>>
          /\ StartClose(c) \/ UNCHANGED sock
          /\ \E a : GoTo(c, a)
      BY <1>2 DEF BanAnswered, AuthCountAnswered, UnauthCountAnswered,
                  AdmissionIncrement, Reject
    <2>2. \A d \in Conns : /\ d # c => step'[d] = step[d] /\ sock'[d] = sock[d]
                           /\ sock[d] \in {"open", "closing"} => sock'[d] \in {"open", "closing"}
      BY <1>0, <2>1 DEF GoTo, StartClose
    <2> QED  BY <1>0, <2>1, <2>2, SameUpgrades DEF Shape
  <1>3. ASSUME NEW c \in Conns, Register(c)
        PROVE  Alone' /\ NoGhost'
    <2>1. /\ step[c] # "done" /\ clients' = clients \union {c}
          /\ UNCHANGED <<sock, upgrade>>
          /\ step' = [step EXCEPT ![c] = "done"]
      BY <1>3 DEF Register, GoTo
    <2>2. \A d \in Conns : step'[d] = "done"
      BY <1>0, <2>1
    <2>3. Cardinality(clients') <= MaxConnections
      <3>1. c \notin clients /\ Cardinality(clients) < MaxConnections
        BY <2>1 DEF Shape
      <3>2. Cardinality(clients \union {c}) = Cardinality(clients) + 1
        BY <1>f, <3>1, FS_AddElement
      <3> QED  BY <1>f, <2>1, <3>1, <3>2
    <2> QED  BY <2>1, <2>2, <2>3, SameUpgrades
  <1>4. ASSUME NEW c \in Conns, AuthMessage(c)
        PROVE  Alone' /\ NoGhost'
    <2>1. \A d \in Conns : step[d] = "done" /\ (d # c => ~Upgrading(d))
      BY <1>4 DEF AuthMessage, IOEvent, Quiet, SameChunk
    <2>2. \A d \in Conns : d # c => (Upgrading(d)' <=> Upgrading(d))
      <3>1. PICK i \in Messages :
              upgrade' = upgrade \/ upgrade' = [upgrade EXCEPT ![c][i] = "auth count"]
        BY <1>4 DEF AuthMessage
      <3> QED  BY <3>1, UpgradeSet, SameUpgrades
    <2> QED  BY <1>4, <2>1, <2>2 DEF AuthMessage
  <1>5. ASSUME NEW c \in Conns, NEW i \in Messages,
               \/ UpgradeCountAnswered(c, i) \/ UpgradeDecrement(c, i)
               \/ UpgradeIncrement(c, i) \/ UpgradeMark(c, i)
        PROVE  Alone' /\ NoGhost'
    <2>1. \A d \in Conns : d # c => (Upgrading(d)' <=> Upgrading(d))
      <3>1. \E u : upgrade' = [upgrade EXCEPT ![c][i] = u]
        BY <1>5 DEF UpgradeCountAnswered, UpgradeDecrement, UpgradeIncrement, UpgradeMark
      <3> QED  BY <3>1, UpgradeSet
    <2>2. Upgrading(c)
      BY <1>5 DEF Upgrading, UpgradeCountAnswered, UpgradeDecrement, UpgradeIncrement,
                  UpgradeMark
    <2>3. UNCHANGED <<step, clients>> /\ (StartClose(c) \/ UNCHANGED sock)
      BY <1>5 DEF UpgradeCountAnswered, UpgradeDecrement, UpgradeIncrement, UpgradeMark
    <2>4. \A d \in Conns : sock'[d] = "closed" => sock[d] = "closed"
      BY <1>0, <2>3 DEF StartClose
    <2>5. \A d \in Conns : step[d] = "done" /\ (d # c => ~Upgrading(d))
      BY <2>2
    <2>6. Cardinality(clients) <= MaxConnections /\ \A d \in clients : sock[d] # "closed"
      OBVIOUS
    <2> QED  BY <1>0, <2>1, <2>3, <2>4, <2>5, <2>6
  <1>6. ASSUME NEW c \in Conns, BeginClosing(c)
        PROVE  Alone' /\ NoGhost'
    BY <1>0, <1>6, SameUpgrades DEF BeginClosing, StartClose, IOEvent, Quiet
  <1>7. ASSUME NEW c \in Conns, Close(c) \/ CloseUnregistered(c) \/ Forget(c)
        PROVE  Alone' /\ NoGhost'
    <2>1. /\ UNCHANGED <<step, upgrade>> /\ step[c] = "done"
          /\ clients' = clients \ {c} /\ clients' \subseteq clients
          /\ \A d \in Conns : d # c => sock'[d] = sock[d]
      BY <1>0, <1>7 DEF Close, CloseUnregistered, Forget, Gone, Idle, IOEvent, Quiet
    <2>2. /\ Cardinality(clients') \in Nat
          /\ Cardinality(clients') <= Cardinality(clients)
      BY <1>f, <2>1, FS_Subset, FS_CardinalityType
    <2>3. \A d \in Conns : Upgrading(d)' <=> Upgrading(d)
      BY <2>1, SameUpgrades
    <2>4. ASSUME NEW d \in Conns, step'[d] # "done"
          PROVE  /\ sock'[d] \in {"open", "closing"}
                 /\ Cardinality(clients') < MaxConnections
                 /\ \A e \in Conns : ~Upgrading(e)' /\ (e # d => step'[e] = "done")
      <3>1. /\ step[d] # "done" /\ d # c /\ sock[d] \in {"open", "closing"}
            /\ Cardinality(clients) < MaxConnections
            /\ \A e \in Conns : ~Upgrading(e) /\ (e # d => step[e] = "done")
        BY <2>1, <2>4
      <3> QED  BY <1>f, <2>1, <2>2, <2>3, <3>1
    <2>5. Cardinality(clients') <= MaxConnections
      <3>1. Cardinality(clients) <= MaxConnections
        OBVIOUS
      <3> QED  BY <1>f, <2>2, <3>1
    <2>6. \A d, e \in Conns : Upgrading(d)' /\ Upgrading(e)' => d = e
      BY <2>3
    <2>7. \A d \in clients' : sock'[d] # "closed"
      BY <1>0, <2>1
    <2> QED  BY <2>4, <2>5, <2>6, <2>7
  <1>8. ASSUME NEW k \in Keys, DecrementSettles(k)
        PROVE  Alone' /\ NoGhost'
    BY <1>8, SameUpgrades DEF DecrementSettles
  <1>9. ~Crash /\ \A k \in Keys : ~CountExpires(k)
    BY DEF Crash, CountExpires
  <1> QED  BY <1>1, <1>2, <1>3, <1>4, <1>5, <1>6, <1>7, <1>8, <1>9
           DEF Next, Admission, Upgrade

(* A client that has authenticated by message, action by action.             *)
LEMMA SettlesStep ==
    ASSUME TypeOK, Shape, UpgradeSettles, Next PROVE UpgradeSettles'
  <1>0. /\ step \in [Conns -> AdmissionSteps \union {"done"}]
        /\ sock \in [Conns -> {"none", "open", "closing", "closed"}]
        /\ authenticated \in [Conns -> BOOLEAN] /\ initially \in [Conns -> BOOLEAN]
        /\ clients \subseteq Conns
    BY DEF TypeOK
  <1>u. upgrade \in [Conns -> [Messages -> UpgradeSteps \union {"none"}]]
    BY DEF TypeOK
  <1> USE DEF UpgradeSettles
  <1>1. ASSUME NEW c \in Conns, Connect(c) \/ BanAnswered(c)
        PROVE  UpgradeSettles'
    <2>1. /\ c \notin clients /\ UNCHANGED <<clients, upgrade>>
          /\ \A d \in Conns : d # c => /\ sock'[d] = sock[d]
                                       /\ authenticated'[d] = authenticated[d]
                                       /\ initially'[d] = initially[d]
      BY <1>0, <1>1 DEF Connect, BanAnswered, Reject, StartClose, flags, Shape
    <2> QED  BY <1>0, <2>1, SameUpgrades
  <1>2. ASSUME NEW c \in Conns,
               \/ AuthCountAnswered(c) \/ UnauthCountAnswered(c) \/ AdmissionIncrement(c)
        PROVE  UpgradeSettles'
    <2>1. /\ UNCHANGED <<clients, upgrade, authenticated, initially>>
          /\ StartClose(c) \/ UNCHANGED sock
      BY <1>2 DEF AuthCountAnswered, UnauthCountAnswered, AdmissionIncrement, Reject, flags
    <2>2. \A d \in Conns : sock'[d] = "open" => sock[d] = "open"
      BY <1>0, <2>1 DEF StartClose
    <2> QED  BY <1>0, <2>1, <2>2, SameUpgrades
  <1>3. ASSUME NEW c \in Conns, Register(c)
        PROVE  UpgradeSettles'
    <2>1. authenticated[c] = initially[c]
      BY <1>3 DEF Register, Shape
    <2>2. ~(authenticated[c] /\ ~initially[c])
      BY <1>0, <2>1, Zenon
    <2>3. /\ UNCHANGED <<sock, authenticated, initially, upgrade>>
          /\ clients' = clients \union {c}
      BY <1>3 DEF Register, flags
    <2> QED  BY <1>0, <2>2, <2>3, SameUpgrades
  <1>4. ASSUME NEW c \in Conns, AuthMessage(c)
        PROVE  UpgradeSettles'
    <2>1. PICK i \in Messages :
            IF initially[c] THEN UNCHANGED upgrade
                            ELSE upgrade' = [upgrade EXCEPT ![c][i] = "auth count"]
      BY <1>4 DEF AuthMessage
    <2>2. \A d \in Conns : d # c => (Upgrading(d)' <=> Upgrading(d))
      BY <2>1, UpgradeSet, SameUpgrades
    <2>3. initially[c] \/ Upgrading(c)'
      <3>1. initially[c] \/ upgrade' = [upgrade EXCEPT ![c][i] = "auth count"]
        BY <2>1
      <3>2. initially[c] \/ upgrade'[c][i] = "auth count"
        BY <1>u, <3>1
      <3> QED  BY <3>2 DEF Upgrading
    <2>4. \A d \in Conns : d # c => authenticated'[d] = authenticated[d]
      BY <1>0, <1>4 DEF AuthMessage
    <2> QED  BY <1>0, <1>4, <2>2, <2>3, <2>4 DEF AuthMessage
  <1>5. ASSUME NEW c \in Conns, NEW i \in Messages,
               UpgradeDecrement(c, i) \/ UpgradeIncrement(c, i)
        PROVE  UpgradeSettles'
    <2>1. /\ \A d \in Conns : d # c => (Upgrading(d)' <=> Upgrading(d))
          /\ Upgrading(c)'
      BY <1>5, UpgradeSet DEF UpgradeDecrement, UpgradeIncrement
    <2> QED  BY <1>0, <1>5, <2>1 DEF UpgradeDecrement, UpgradeIncrement, flags
  <1>6. ASSUME NEW c \in Conns, NEW i \in Messages, UpgradeCountAnswered(c, i)
        PROVE  UpgradeSettles'
    <2>1. /\ UNCHANGED <<clients, authenticated, initially>>
          /\ \/ StartClose(c) /\ upgrade' = [upgrade EXCEPT ![c][i] = "none"]
             \/ UNCHANGED sock /\ upgrade' = [upgrade EXCEPT ![c][i] = "decrement"]
      BY <1>6 DEF UpgradeCountAnswered, flags
    <2>2. \A d \in Conns : d # c => (Upgrading(d)' <=> Upgrading(d))
      BY <2>1, UpgradeSet
    <2>3. \A d \in Conns : d # c => sock'[d] = sock[d]
      BY <1>0, <2>1 DEF StartClose
    <2>4. Upgrading(c)' \/ sock'[c] # "open"
      <3>1. CASE StartClose(c)
        BY <1>0, <3>1 DEF StartClose
      <3>2. CASE upgrade' = [upgrade EXCEPT ![c][i] = "decrement"]
        <4>1. upgrade'[c][i] = "decrement"
          BY <1>u, <3>2
        <4> QED  BY <4>1 DEF Upgrading
      <3> QED  BY <2>1, <3>1, <3>2
    <2> QED  BY <1>0, <2>1, <2>2, <2>3, <2>4
  <1>7. ASSUME NEW c \in Conns, NEW i \in Messages, UpgradeMark(c, i)
        PROVE  UpgradeSettles'
    <2>1. \A d \in Conns : d # c => (Upgrading(d)' <=> Upgrading(d))
      BY <1>7, UpgradeSet DEF UpgradeMark
    <2>2. initially'[c] /\ \A d \in Conns : d # c => initially'[d] = initially[d]
      BY <1>0, <1>7, Zenon DEF UpgradeMark
    <2> QED  BY <1>0, <1>7, <2>1, <2>2 DEF UpgradeMark
  <1>8. ASSUME NEW c \in Conns, BeginClosing(c)
        PROVE  UpgradeSettles'
    BY <1>0, <1>8, SameUpgrades DEF BeginClosing, StartClose, flags
  <1>9. ASSUME NEW c \in Conns, Close(c) \/ CloseUnregistered(c) \/ Forget(c)
        PROVE  UpgradeSettles'
    <2>1. /\ UNCHANGED upgrade /\ clients' = clients \ {c}
          /\ Gone(c)
      BY <1>0, <1>9 DEF Close, CloseUnregistered, Forget
    <2>2. \A d \in Conns : d # c => /\ sock'[d] = sock[d]
                                    /\ authenticated'[d] = authenticated[d]
                                    /\ initially'[d] = initially[d]
      BY <1>0, <2>1 DEF Gone
    <2> QED  BY <1>0, <2>1, <2>2, SameUpgrades
  <1>10. ASSUME NEW k \in Keys, DecrementSettles(k) \/ CountExpires(k)
         PROVE  UpgradeSettles'
    <2>1. UNCHANGED <<sock, clients, authenticated, initially, upgrade>>
      BY <1>10 DEF DecrementSettles, CountExpires, flags
    <2> QED  BY <1>0, <2>1, SameUpgrades
  <1>11. CASE Crash
    BY <1>11 DEF Crash
  <1> QED  BY <1>1, <1>2, <1>3, <1>4, <1>5, <1>6, <1>7, <1>8, <1>9, <1>10, <1>11
           DEF Next, Admission, Upgrade
----------------------------------------------------------------------------
LEMMA LifeInit == ASSUME Init PROVE LifeInv
  <1>1. TypeOK
    <2>1. Zero \in [Keys -> Nat]
      BY DEF Zero
    <2>2. sock \in [Conns -> {"none", "open", "closing", "closed"}]
      BY DEF Init, All
    <2>3. step \in [Conns -> AdmissionSteps \union {"done"}]
      BY DEF Init, All
    <2>4. authenticated \in [Conns -> BOOLEAN] /\ initially \in [Conns -> BOOLEAN]
      BY DEF Init, All
    <2>5. upgrade \in [Conns -> [Messages -> UpgradeSteps \union {"none"}]]
      BY DEF Init, All
    <2>6. faults \in 0..MaxFaults /\ clients \subseteq Conns /\ remote \in BOOLEAN
      BY DEF Init
    <2> QED  BY <2>1, <2>2, <2>3, <2>4, <2>5, <2>6 DEF Init, TypeOK
  <1>2. /\ clients = {} /\ \A c \in Conns : step[c] = "done" /\ ~Upgrading(c)
    BY DEF Init, All, Upgrading
  <1>3. Cardinality(clients) = 0
    BY <1>2, FS_EmptySet
  <1>4. Shape /\ UpgradeSettles /\ NoGhost
    BY <1>2 DEF Shape, UpgradeSettles, NoGhost
  <1>5. Alone
    BY <1>2, <1>3 DEF Alone
  <1> QED  BY <1>1, <1>4, <1>5 DEF LifeInv

LEMMA LifeStep == ASSUME LifeInv, [Next]_vars PROVE LifeInv'
  <1>1. CASE Next
    BY <1>1, TypeStep, ShapeStep, AloneStep, SettlesStep DEF LifeInv
  <1>2. CASE UNCHANGED vars
    <2>1. TypeOK'
      BY <1>2 DEF LifeInv, TypeOK, vars
    <2>2. \A c \in Conns : Upgrading(c)' <=> Upgrading(c)
      BY <1>2, SameUpgrades DEF vars
    <2>3. Shape' /\ UpgradeSettles' /\ NoGhost'
      BY <1>2, <2>2 DEF LifeInv, Shape, UpgradeSettles, NoGhost, vars, TypeOK
    <2>4. Alone'
      BY <1>2, <2>2 DEF LifeInv, Alone, vars
    <2> QED  BY <2>1, <2>3, <2>4 DEF LifeInv
  <1> QED  BY <1>1, <1>2

(* What the theorems about a client's life rest on is inductive.             *)
THEOREM AlwaysLifeInv == Spec => []LifeInv
  BY LifeInit, LifeStep, PTL DEF Spec

(* Every variable keeps its type, whatever fails and in whatever order the   *)
(* handlers of the sockets are resumed.                                      *)
THEOREM TypeCorrect == Spec => []TypeOK
  <1>1. LifeInv => TypeOK
    BY DEF LifeInv
  <1> QED  BY <1>1, AlwaysLifeInv, PTL

(* With the in-memory store, no client is registered for a socket that has   *)
(* closed: nothing comes between an admission's last check and Register.     *)
THEOREM NoGhostStays == Spec => []NoGhost
  <1>1. LifeInv => NoGhost
    BY DEF LifeInv
  <1> QED  BY <1>1, AlwaysLifeInv, PTL

(* A client that authenticated by message is, once its handler has ended, in *)
(* the auth budget, or its socket is no longer open.                         *)
THEOREM UpgradesSettle == Spec => []UpgradeSettles
  <1>1. LifeInv => UpgradeSettles
    BY DEF LifeInv
  <1> QED  BY <1>1, AlwaysLifeInv, PTL
----------------------------------------------------------------------------
(* The balance of the per-IP counters (WsConnections.CountsBalance).         *)
In(c, S) == \E i \in Messages : upgrade[c][i] \in S
ToDecrement == {"auth count", "decrement"}
ToIncrement == {"auth count", "decrement", "increment"}

(* A socket counted as unauthenticated that no upgrade will decrement, and a *)
(* client that an upgrade will count as authenticated and that is not yet.   *)
Settled(c) == CountedIn(c, "unauth") /\ ~In(c, ToDecrement)
Coming(c) == c \in clients /\ In(c, ToIncrement) /\ ~CountedIn(c, "auth")

SettledAt(ip) == Cardinality({c \in Conns : IpOf[c] = ip /\ Settled(c)})
ComingAt(ip) == Cardinality({c \in Conns : IpOf[c] = ip /\ Coming(c)})
Owed(ip, S) ==
    {m \in Conns \X Messages : IpOf[m[1]] = ip /\ upgrade[m[1]][m[2]] \in S}
OwedAt(ip, S) == Cardinality(Owed(ip, S))

Total(k) == count[k] + fallback[k]

UnauthBalanced(ip) ==
    LET k == <<"unauth", ip>>
    IN  /\ SettledAt(ip) + OwedAt(ip, ToDecrement) + decrements[k]
             <= Total(k) + miscounts[k]
        /\ Total(k) <= Standing(k) + decrements[k] + miscounts[k]
        /\ fallback[k] <= miscounts[k]
        /\ SettledAt(ip) + OwedAt(ip, ToDecrement) <= Standing(k) + miscounts[k]
AuthBalanced(ip) ==
    LET k == <<"auth", ip>>
    IN  /\ Standing(k) + decrements[k] <= Total(k) + miscounts[k]
        /\ Total(k) + OwedAt(ip, ToIncrement)
             <= Standing(k) + ComingAt(ip) + decrements[k] + miscounts[k]
        /\ fallback[k] + OwedAt(ip, ToIncrement) <= ComingAt(ip) + miscounts[k]
Balanced == \A ip \in Ips : UnauthBalanced(ip) /\ AuthBalanced(ip)

BalanceInv == TypeOK /\ Shape /\ Balanced
----------------------------------------------------------------------------
(* Counting: one element of a set changes, or a set is covered by another.   *)
Bit(b) == IF b THEN 1 ELSE 0

LEMMA OneDiffers ==
    ASSUME NEW S, NEW T, NEW x, IsFiniteSet(S), IsFiniteSet(T), S \ {x} = T \ {x}
    PROVE  Cardinality(T) = Cardinality(S) + Bit(x \in T) - Bit(x \in S)
  <1>1. /\ Cardinality(S \ {x}) = IF x \in S THEN Cardinality(S)-1 ELSE Cardinality(S)
        /\ Cardinality(T \ {x}) = IF x \in T THEN Cardinality(T)-1 ELSE Cardinality(T)
    BY FS_RemoveElement
  <1>2. Cardinality(S) \in Nat /\ Cardinality(T) \in Nat
    BY FS_CardinalityType
  <1>3. /\ Bit(x \in S) = IF x \in S THEN 1 ELSE 0
        /\ Bit(x \in T) = IF x \in T THEN 1 ELSE 0
    BY Zenon DEF Bit
  <1>4. Cardinality(S \ {x}) = Cardinality(T \ {x})
    OBVIOUS
  <1> QED  BY <1>1, <1>2, <1>3, <1>4

LEMMA ConnsChange ==
    ASSUME NEW S \in SUBSET Conns, NEW T \in SUBSET Conns, NEW c \in Conns,
           \A d \in Conns : d # c => (d \in S <=> d \in T)
    PROVE  /\ Cardinality(S) \in Nat /\ Cardinality(T) \in Nat
           /\ Cardinality(T) = Cardinality(S) + Bit(c \in T) - Bit(c \in S)
  <1>1. IsFiniteSet(S) /\ IsFiniteSet(T) /\ S \ {c} = T \ {c}
    BY FS_Subset
  <1> QED  BY <1>1, OneDiffers, FS_CardinalityType

LEMMA MessagesFinite == IsFiniteSet(Conns \X Messages)
  <1>1. IsFiniteSet(Messages)
    BY FS_Interval DEF Messages
  <1> QED  BY <1>1, FS_Product

LEMMA Covered ==
    ASSUME NEW ip, NEW S
    PROVE  LET T == {c \in Conns : IpOf[c] = ip /\ In(c, S)}
           IN  IsFiniteSet(T) /\ Cardinality(T) <= OwedAt(ip, S)
  <1> DEFINE T == {c \in Conns : IpOf[c] = ip /\ In(c, S)}
             f == [m \in Owed(ip, S) |-> m[1]]
  <1>1. IsFiniteSet(Owed(ip, S))
    BY MessagesFinite, FS_Subset DEF Owed
  <1>2. f \in [Owed(ip, S) -> T]
    BY DEF Owed, In
  <1>3. ASSUME NEW c \in T
        PROVE  \E m \in Owed(ip, S) : f[m] = c
    <2>1. PICK i \in Messages : upgrade[c][i] \in S
      BY DEF In
    <2>2. <<c, i>> \in Owed(ip, S)
      BY <2>1 DEF Owed
    <2> QED  BY <2>2
  <1>4. f \in Surjection(Owed(ip, S), T)
    BY <1>2, <1>3 DEF Surjection
  <1> QED  BY <1>1, <1>4, FS_Surjection DEF OwedAt
----------------------------------------------------------------------------
(* What the counts are when only the socket c moves.                         *)
LEMMA StandingMoves ==
    ASSUME NEW c \in Conns, NEW ip \in Ips, NEW kind \in Kinds,
           \A d \in Conns : d # c => (CountedIn(d, kind)' <=> CountedIn(d, kind))
    PROVE  LET k == <<kind, ip>>
           IN  /\ Standing(k) \in Nat /\ Standing(k)' \in Nat
               /\ ip # IpOf[c] => Standing(k)' = Standing(k)
               /\ ip = IpOf[c] => Standing(k)' = Standing(k) + Bit(CountedIn(c, kind)')
                                                           - Bit(CountedIn(c, kind))
  <1> DEFINE k == <<kind, ip>>
             S == {d \in Conns : k = Key(k[1], d) /\ CountedIn(d, k[1])}
             T == {d \in Conns : k = Key(k[1], d) /\ CountedIn(d, k[1])'}
  <1>1. S = {d \in Conns : IpOf[d] = ip /\ CountedIn(d, kind)}
    BY DEF Key
  <1>2. T = {d \in Conns : IpOf[d] = ip /\ CountedIn(d, kind)'}
    BY DEF Key
  <1>3. Standing(k) = Cardinality(S) /\ Standing(k)' = Cardinality(T)
    BY DEF Standing, Key
  <1> HIDE DEF S, T
  <1>4. S \in SUBSET Conns /\ T \in SUBSET Conns
    BY <1>1, <1>2
  <1>5. \A d \in Conns : d # c => (d \in S <=> d \in T)
    BY <1>1, <1>2
  <1>6. /\ Cardinality(S) \in Nat /\ Cardinality(T) \in Nat
        /\ Cardinality(T) = Cardinality(S) + Bit(c \in T) - Bit(c \in S)
    BY <1>4, <1>5, ConnsChange
  <1>7. CASE ip # IpOf[c]
    <2>1. c \notin S /\ c \notin T
      BY <1>1, <1>2, <1>7
    <2>2. S = T
      BY <1>4, <1>5, <2>1
    <2> QED  BY <1>3, <1>6, <1>7, <2>2
  <1>8. CASE ip = IpOf[c]
    <2>1. (c \in S <=> CountedIn(c, kind)) /\ (c \in T <=> CountedIn(c, kind)')
      BY <1>1, <1>2, <1>8
    <2>2. Bit(c \in S) = Bit(CountedIn(c, kind)) /\ Bit(c \in T) = Bit(CountedIn(c, kind)')
      BY <2>1, Zenon DEF Bit
    <2> QED  BY <1>3, <1>6, <1>8, <2>2
  <1> QED  BY <1>7, <1>8

LEMMA SettledMoves ==
    ASSUME NEW c \in Conns, NEW ip \in Ips,
           \A d \in Conns : d # c => (Settled(d)' <=> Settled(d))
    PROVE  /\ SettledAt(ip) \in Nat /\ SettledAt(ip)' \in Nat
           /\ ip # IpOf[c] => SettledAt(ip)' = SettledAt(ip)
           /\ ip = IpOf[c] =>
                SettledAt(ip)' = SettledAt(ip) + Bit(Settled(c)') - Bit(Settled(c))
  <1> DEFINE S == {d \in Conns : IpOf[d] = ip /\ Settled(d)}
             T == {d \in Conns : IpOf[d] = ip /\ Settled(d)'}
  <1>1. SettledAt(ip) = Cardinality(S) /\ SettledAt(ip)' = Cardinality(T)
    BY DEF SettledAt
  <1>2. S \in SUBSET Conns /\ T \in SUBSET Conns
    OBVIOUS
  <1>3. \A d \in Conns : d # c => (d \in S <=> d \in T)
    OBVIOUS
  <1>4. /\ c \in S <=> IpOf[c] = ip /\ Settled(c)
        /\ c \in T <=> IpOf[c] = ip /\ Settled(c)'
    OBVIOUS
  <1> HIDE DEF S, T
  <1>5. /\ Cardinality(S) \in Nat /\ Cardinality(T) \in Nat
        /\ Cardinality(T) = Cardinality(S) + Bit(c \in T) - Bit(c \in S)
    BY <1>2, <1>3, ConnsChange
  <1>6. CASE ip # IpOf[c]
    <2>1. S = T
      BY <1>2, <1>3, <1>4, <1>6
    <2> QED  BY <1>1, <1>5, <1>6, <2>1
  <1>7. CASE ip = IpOf[c]
    <2>1. Bit(c \in S) = Bit(Settled(c)) /\ Bit(c \in T) = Bit(Settled(c)')
      BY <1>4, <1>7, Zenon DEF Bit
    <2> QED  BY <1>1, <1>5, <1>7, <2>1
  <1> QED  BY <1>6, <1>7
LEMMA ComingMoves ==
    ASSUME NEW c \in Conns, NEW ip \in Ips,
           \A d \in Conns : d # c => (Coming(d)' <=> Coming(d))
    PROVE  /\ ComingAt(ip) \in Nat /\ ComingAt(ip)' \in Nat
           /\ ip # IpOf[c] => ComingAt(ip)' = ComingAt(ip)
           /\ ip = IpOf[c] =>
                ComingAt(ip)' = ComingAt(ip) + Bit(Coming(c)') - Bit(Coming(c))
  <1> DEFINE S == {d \in Conns : IpOf[d] = ip /\ Coming(d)}
             T == {d \in Conns : IpOf[d] = ip /\ Coming(d)'}
  <1>1. ComingAt(ip) = Cardinality(S) /\ ComingAt(ip)' = Cardinality(T)
    BY DEF ComingAt
  <1>2. S \in SUBSET Conns /\ T \in SUBSET Conns
    OBVIOUS
  <1>3. \A d \in Conns : d # c => (d \in S <=> d \in T)
    OBVIOUS
  <1>4. /\ c \in S <=> IpOf[c] = ip /\ Coming(c)
        /\ c \in T <=> IpOf[c] = ip /\ Coming(c)'
    OBVIOUS
  <1> HIDE DEF S, T
  <1>5. /\ Cardinality(S) \in Nat /\ Cardinality(T) \in Nat
        /\ Cardinality(T) = Cardinality(S) + Bit(c \in T) - Bit(c \in S)
    BY <1>2, <1>3, ConnsChange
  <1>6. CASE ip # IpOf[c]
    <2>1. S = T
      BY <1>2, <1>3, <1>4, <1>6
    <2> QED  BY <1>1, <1>5, <1>6, <2>1
  <1>7. CASE ip = IpOf[c]
    <2>1. Bit(c \in S) = Bit(Coming(c)) /\ Bit(c \in T) = Bit(Coming(c)')
      BY <1>4, <1>7, Zenon DEF Bit
    <2> QED  BY <1>1, <1>5, <1>7, <2>1
  <1> QED  BY <1>6, <1>7

UpgradeTo(c, i, u) == upgrade' = [upgrade EXCEPT ![c][i] = u]

LEMMA OwedMoves ==
    ASSUME TypeOK, NEW c \in Conns, NEW i \in Messages, NEW u, NEW ip \in Ips, NEW S,
           UpgradeTo(c, i, u)
    PROVE  /\ OwedAt(ip, S) \in Nat /\ OwedAt(ip, S)' \in Nat
           /\ ip # IpOf[c] => OwedAt(ip, S)' = OwedAt(ip, S)
           /\ ip = IpOf[c] =>
                OwedAt(ip, S)' = OwedAt(ip, S) + Bit(u \in S) - Bit(upgrade[c][i] \in S)
  <1> DEFINE W == Owed(ip, S)
             V == {m \in Conns \X Messages :
                     IpOf[m[1]] = ip /\ upgrade'[m[1]][m[2]] \in S}
  <1>1. OwedAt(ip, S) = Cardinality(W) /\ OwedAt(ip, S)' = Cardinality(V)
    BY DEF OwedAt, Owed
  <1>2. W \in SUBSET (Conns \X Messages) /\ V \in SUBSET (Conns \X Messages)
    BY DEF Owed
  <1>3. IsFiniteSet(W) /\ IsFiniteSet(V)
    BY <1>2, MessagesFinite, FS_Subset
  <1>4. \A d \in Conns, j \in Messages :
          upgrade'[d][j] = IF d = c /\ j = i THEN u ELSE upgrade[d][j]
    BY DEF TypeOK, UpgradeTo
  <1>5. ASSUME NEW m \in Conns \X Messages, m # <<c, i>>
        PROVE  m \in W <=> m \in V
    <2>1. PICK d \in Conns, j \in Messages : m = <<d, j>>
      OBVIOUS
    <2>2. upgrade'[m[1]][m[2]] = upgrade[m[1]][m[2]]
      BY <1>4, <1>5, <2>1
    <2> QED  BY <2>2 DEF Owed
  <1>6. /\ <<c, i>> \in W <=> IpOf[c] = ip /\ upgrade[c][i] \in S
        /\ <<c, i>> \in V <=> IpOf[c] = ip /\ u \in S
    BY <1>4 DEF Owed
  <1> HIDE DEF W, V
  <1>7. W \ {<<c, i>>} = V \ {<<c, i>>}
    BY <1>2, <1>5
  <1>8. /\ Cardinality(W) \in Nat /\ Cardinality(V) \in Nat
        /\ Cardinality(V) = Cardinality(W) + Bit(<<c, i>> \in V) - Bit(<<c, i>> \in W)
    BY <1>3, <1>7, OneDiffers, FS_CardinalityType
  <1>9. CASE ip # IpOf[c]
    <2>1. <<c, i>> \notin W /\ <<c, i>> \notin V
      BY <1>6, <1>9
    <2>2. \A m \in Conns \X Messages : m \in W <=> m \in V
      BY <1>5, <2>1
    <2>3. W = V
      BY <1>2, <2>2
    <2> QED  BY <1>1, <1>8, <1>9, <2>3
  <1>10. CASE ip = IpOf[c]
    <2>1. /\ Bit(<<c, i>> \in W) = Bit(upgrade[c][i] \in S)
          /\ Bit(<<c, i>> \in V) = Bit(u \in S)
      BY <1>6, <1>10, Zenon DEF Bit
    <2> QED  BY <1>1, <1>8, <1>10, <2>1
  <1> QED  BY <1>9, <1>10

LEMMA OwedSame ==
    ASSUME NEW ip, NEW S, UNCHANGED upgrade
    PROVE  /\ OwedAt(ip, S) \in Nat /\ OwedAt(ip, S)' = OwedAt(ip, S)
  <1>1. IsFiniteSet(Owed(ip, S))
    BY MessagesFinite, FS_Subset DEF Owed
  <1> QED  BY <1>1, FS_CardinalityType DEF OwedAt, Owed

(* A socket that an action does not touch stands where it stood.             *)
LEMMA Untouched ==
    ASSUME NEW d \in Conns,
           step'[d] = step[d] \/ {step[d], step'[d]} \cap {"register"} = {},
           d \in clients' <=> d \in clients,
           sock'[d] = "closed" <=> sock[d] = "closed",
           initially'[d] = initially[d],
           \A i \in Messages : upgrade'[d][i] = upgrade[d][i]
    PROVE  /\ \A kind \in Kinds : CountedIn(d, kind)' <=> CountedIn(d, kind)
           /\ Settled(d)' <=> Settled(d)
           /\ Coming(d)' <=> Coming(d)
  <1>1. \A S : In(d, S)' <=> In(d, S)
    BY DEF In
  <1>2. \A kind \in Kinds : CountedIn(d, kind)' <=> CountedIn(d, kind)
    BY DEF CountedIn, Kind
  <1> QED  BY <1>1, <1>2 DEF Settled, Coming, Kinds

(* Where the socket an action is about stands.                               *)
LEMMA ClientStands ==
    ASSUME NEW c \in Conns, step[c] # "register", NEW kind
    PROVE  CountedIn(c, kind) <=>
             /\ c \in clients /\ sock[c] # "closed"
             /\ \/ In(c, {"mark"}) /\ kind = "auth"
                \/ ~In(c, {"mark"}) /\ ~In(c, {"increment"}) /\ Kind(c) = kind
  BY DEF CountedIn, In

LEMMA ClientStandsNext ==
    ASSUME NEW c \in Conns, step'[c] # "register", NEW kind
    PROVE  CountedIn(c, kind)' <=>
             /\ c \in clients' /\ sock'[c] # "closed"
             /\ \/ In(c, {"mark"})' /\ kind = "auth"
                \/ ~In(c, {"mark"})' /\ ~In(c, {"increment"})' /\ Kind(c)' = kind
  BY DEF CountedIn, In
----------------------------------------------------------------------------
(* What a step does to the counts of the sockets of an IP.                   *)
UKey(ip) == <<"unauth", ip>>
AKey(ip) == <<"auth", ip>>

OnlyOf(c) ==
    \A d \in Conns : d # c =>
        /\ step'[d] = step[d]
        /\ d \in clients' <=> d \in clients
        /\ initially'[d] = initially[d]
        /\ \A i \in Messages : upgrade'[d][i] = upgrade[d][i]

(* No other socket closes, and none that has closed is used again.           *)
OnlySocket(c) == \A d \in Conns : d # c => (sock'[d] = "closed" <=> sock[d] = "closed")

LEMMA OtherSockets ==
    ASSUME TypeOK, NEW c \in Conns,
           \/ Admission(c) \/ Upgrade(c) \/ BeginClosing(c) \/ Close(c)
           \/ CloseUnregistered(c) \/ Forget(c)
    PROVE  OnlySocket(c)
  <1>1. \/ UNCHANGED sock \/ StartClose(c) \/ Gone(c)
        \/ \E s : sock' = [sock EXCEPT ![c] = s]
    BY DEF Admission, Connect, BanAnswered, AuthCountAnswered, UnauthCountAnswered,
           AdmissionIncrement, Register, Reject, Upgrade, AuthMessage,
           UpgradeCountAnswered, UpgradeDecrement, UpgradeIncrement, UpgradeMark,
           BeginClosing, Close, CloseUnregistered, Forget
  <1>2. sock \in [Conns -> {"none", "open", "closing", "closed"}]
    BY DEF TypeOK
  <1> QED  BY <1>1, <1>2 DEF StartClose, Gone, OnlySocket

LEMMA UpgradeKeepsSocket ==
    ASSUME TypeOK, NEW c \in Conns, NEW i \in Messages,
           \/ UpgradeCountAnswered(c, i) \/ UpgradeDecrement(c, i)
           \/ UpgradeIncrement(c, i) \/ UpgradeMark(c, i)
    PROVE  OnlySocket(c) /\ (sock'[c] = "closed" <=> sock[c] = "closed")
  <1>1. UNCHANGED sock \/ StartClose(c)
    BY DEF UpgradeCountAnswered, UpgradeDecrement, UpgradeIncrement, UpgradeMark
  <1>2. sock \in [Conns -> {"none", "open", "closing", "closed"}]
    BY DEF TypeOK
  <1> QED  BY <1>1, <1>2 DEF StartClose, OnlySocket

LEMMA OnlyMoves ==
    ASSUME NEW c \in Conns, OnlyOf(c), OnlySocket(c), NEW ip \in Ips
    PROVE  /\ {Bit(CountedIn(c, "unauth")), Bit(CountedIn(c, "auth")),
                Bit(Settled(c)), Bit(Coming(c))} \subseteq {0, 1}
           /\ {Bit(CountedIn(c, "unauth")'), Bit(CountedIn(c, "auth")'),
                Bit(Settled(c)'), Bit(Coming(c)')} \subseteq {0, 1}
           /\ {Standing(UKey(ip)), Standing(AKey(ip)), SettledAt(ip), ComingAt(ip)}
                \subseteq Nat
           /\ {Standing(UKey(ip))', Standing(AKey(ip))', SettledAt(ip)', ComingAt(ip)'}
                \subseteq Nat
           /\ ip # IpOf[c] =>
                /\ Standing(UKey(ip))' = Standing(UKey(ip))
                /\ Standing(AKey(ip))' = Standing(AKey(ip))
                /\ SettledAt(ip)' = SettledAt(ip) /\ ComingAt(ip)' = ComingAt(ip)
           /\ ip = IpOf[c] =>
                /\ Standing(UKey(ip))' = Standing(UKey(ip))
                     + Bit(CountedIn(c, "unauth")') - Bit(CountedIn(c, "unauth"))
                /\ Standing(AKey(ip))' = Standing(AKey(ip))
                     + Bit(CountedIn(c, "auth")') - Bit(CountedIn(c, "auth"))
                /\ SettledAt(ip)' = SettledAt(ip) + Bit(Settled(c)') - Bit(Settled(c))
                /\ ComingAt(ip)' = ComingAt(ip) + Bit(Coming(c)') - Bit(Coming(c))
  <1>1. ASSUME NEW d \in Conns, d # c
        PROVE  /\ \A kind \in Kinds : CountedIn(d, kind)' <=> CountedIn(d, kind)
               /\ Settled(d)' <=> Settled(d)
               /\ Coming(d)' <=> Coming(d)
    BY <1>1, Untouched DEF OnlyOf, OnlySocket
  <1>2. "auth" \in Kinds /\ "unauth" \in Kinds
    BY DEF Kinds
  <1>3. /\ {Standing(UKey(ip)), Standing(UKey(ip))'} \subseteq Nat
        /\ ip # IpOf[c] => Standing(UKey(ip))' = Standing(UKey(ip))
        /\ ip = IpOf[c] => Standing(UKey(ip))' = Standing(UKey(ip))
               + Bit(CountedIn(c, "unauth")') - Bit(CountedIn(c, "unauth"))
    BY <1>1, <1>2, StandingMoves DEF UKey
  <1>4. /\ {Standing(AKey(ip)), Standing(AKey(ip))'} \subseteq Nat
        /\ ip # IpOf[c] => Standing(AKey(ip))' = Standing(AKey(ip))
        /\ ip = IpOf[c] => Standing(AKey(ip))' = Standing(AKey(ip))
               + Bit(CountedIn(c, "auth")') - Bit(CountedIn(c, "auth"))
    BY <1>1, <1>2, StandingMoves DEF AKey
  <1>5. /\ {SettledAt(ip), SettledAt(ip)'} \subseteq Nat
        /\ ip # IpOf[c] => SettledAt(ip)' = SettledAt(ip)
        /\ ip = IpOf[c] => SettledAt(ip)' = SettledAt(ip)
               + Bit(Settled(c)') - Bit(Settled(c))
    BY <1>1, SettledMoves
  <1>6. /\ {ComingAt(ip), ComingAt(ip)'} \subseteq Nat
        /\ ip # IpOf[c] => ComingAt(ip)' = ComingAt(ip)
        /\ ip = IpOf[c] => ComingAt(ip)' = ComingAt(ip) + Bit(Coming(c)') - Bit(Coming(c))
    BY <1>1, ComingMoves
  <1>7. /\ {Bit(CountedIn(c, "unauth")), Bit(CountedIn(c, "auth")),
             Bit(Settled(c)), Bit(Coming(c))} \subseteq {0, 1}
        /\ {Bit(CountedIn(c, "unauth")'), Bit(CountedIn(c, "auth")'),
             Bit(Settled(c)'), Bit(Coming(c)')} \subseteq {0, 1}
    BY Zenon DEF Bit
  <1> QED  BY <1>3, <1>4, <1>5, <1>6, <1>7

LEMMA BitValues ==
    ASSUME NEW b \in BOOLEAN PROVE (b => Bit(b) = 1) /\ (~b => Bit(b) = 0)
  BY Zenon DEF Bit

LEMMA StoreTyped ==
    ASSUME TypeOK, TypeOK', NEW ip \in Ips
    PROVE  \A k \in {UKey(ip), AKey(ip)} :
             /\ {count[k], fallback[k], decrements[k], miscounts[k]} \subseteq Nat
             /\ {count'[k], fallback'[k], decrements'[k], miscounts'[k]} \subseteq Nat
  <1>1. /\ {count, fallback, decrements, miscounts} \subseteq [Keys -> Nat]
        /\ {count', fallback', decrements', miscounts'} \subseteq [Keys -> Nat]
    BY DEF TypeOK
  <1>2. {UKey(ip), AKey(ip)} \subseteq Keys
    BY DEF UKey, AKey, Keys, Kinds
  <1> QED  BY <1>1, <1>2

(* A change of a counter, whether the call fails or not. A counter that was  *)
(* zero stays so; then only the fallback's is left.                          *)
LEMMA WrittenEffect ==
    ASSUME TypeOK, TypeOK', NEW k \in Keys, NEW by \in {1, -1}, Written(k, by)
    PROVE  /\ \A j \in Keys : j # k =>
                /\ Total(j)' = Total(j) /\ fallback'[j] = fallback[j]
                /\ miscounts'[j] = miscounts[j]
           /\ miscounts[k] <= miscounts'[k]
           /\ fallback'[k] + miscounts[k] <= fallback[k] + miscounts'[k]
           /\ Total(k) + by + miscounts[k] <= Total(k)' + miscounts'[k]
           /\ \/ Total(k)' + miscounts[k] <= Total(k) + by + miscounts'[k]
              \/ Total(k)' = fallback'[k]
  <1>0. {count, fallback, miscounts} \subseteq [Keys -> Nat]
    BY DEF TypeOK
  <1>1. PICK executed, failed \in BOOLEAN :
          /\ executed \/ failed
          /\ count' = IF executed THEN [count EXCEPT ![k] = Plus(@, by)] ELSE count
          /\ fallback' = IF failed THEN [fallback EXCEPT ![k] = Plus(@, by)] ELSE fallback
          /\ miscounts' = IF failed THEN [miscounts EXCEPT ![k] = @ + 1] ELSE miscounts
    BY DEF Written
  <1>2. \A j \in Keys : j # k =>
          /\ count'[j] = count[j] /\ fallback'[j] = fallback[j]
          /\ miscounts'[j] = miscounts[j]
    BY <1>0, <1>1
  <1>3. /\ count'[k] = IF executed THEN Plus(count[k], by) ELSE count[k]
        /\ fallback'[k] = IF failed THEN Plus(fallback[k], by) ELSE fallback[k]
        /\ miscounts'[k] = IF failed THEN miscounts[k] + 1 ELSE miscounts[k]
    BY <1>0, <1>1
  <1>4. count[k] \in Nat /\ fallback[k] \in Nat /\ miscounts[k] \in Nat
    BY <1>0
  <1>5. CASE by = 1
    BY <1>1, <1>2, <1>3, <1>4, <1>5 DEF Total, Plus
  <1>6. CASE by = -1
    BY <1>1, <1>2, <1>3, <1>4, <1>6 DEF Total, Plus
  <1> QED  BY <1>5, <1>6

(* The counts of an IP that no socket of the step has.                       *)
LEMMA Elsewhere ==
    ASSUME TypeOK, TypeOK', Balanced, NEW c \in Conns, OnlyOf(c), OnlySocket(c),
           NEW ip \in Ips, ip # IpOf[c],
           OwedAt(ip, ToDecrement)' = OwedAt(ip, ToDecrement),
           OwedAt(ip, ToIncrement)' = OwedAt(ip, ToIncrement),
           \A k \in {UKey(ip), AKey(ip)} :
             /\ Total(k)' = Total(k) /\ fallback'[k] = fallback[k]
             /\ decrements'[k] = decrements[k] /\ miscounts'[k] = miscounts[k]
    PROVE  UnauthBalanced(ip)' /\ AuthBalanced(ip)'
  <1>1. /\ Standing(UKey(ip))' = Standing(UKey(ip))
        /\ Standing(AKey(ip))' = Standing(AKey(ip))
        /\ SettledAt(ip)' = SettledAt(ip) /\ ComingAt(ip)' = ComingAt(ip)
    BY OnlyMoves
  <1>2. UnauthBalanced(ip) /\ AuthBalanced(ip)
    BY DEF Balanced
  <1>3. UnauthBalanced(ip)'
    BY <1>1, <1>2 DEF UnauthBalanced, UKey
  <1>4. AuthBalanced(ip)'
    BY <1>1, <1>2 DEF AuthBalanced, AKey
  <1> QED  BY <1>3, <1>4

(* What a step of the socket c may do to the counts of its IP. A counter     *)
(* that was taken below one holds what the fallback holds.                   *)
UnauthMoves(c) ==
    LET ip == IpOf[c]
        k == UKey(ip)
    IN  /\ Bit(Settled(c)') + OwedAt(ip, ToDecrement)' + decrements'[k]
             + Total(k) + miscounts[k]
             <= Bit(Settled(c)) + OwedAt(ip, ToDecrement) + decrements[k]
                + Total(k)' + miscounts'[k]
        /\ \/ Total(k)' + Bit(CountedIn(c, "unauth")) + decrements[k] + miscounts[k]
                <= Total(k) + Bit(CountedIn(c, "unauth")') + decrements'[k] + miscounts'[k]
           \/ Total(k)' = fallback'[k]
        /\ fallback'[k] + miscounts[k] <= fallback[k] + miscounts'[k]
        /\ Bit(Settled(c)') + OwedAt(ip, ToDecrement)' + Bit(CountedIn(c, "unauth"))
             + miscounts[k]
             <= Bit(Settled(c)) + OwedAt(ip, ToDecrement) + Bit(CountedIn(c, "unauth")')
                + miscounts'[k]
AuthMoves(c) ==
    LET ip == IpOf[c]
        k == AKey(ip)
    IN  /\ Bit(CountedIn(c, "auth")') + decrements'[k] + Total(k) + miscounts[k]
             <= Bit(CountedIn(c, "auth")) + decrements[k] + Total(k)' + miscounts'[k]
        /\ \/ Total(k)' + OwedAt(ip, ToIncrement)'
                + Bit(CountedIn(c, "auth")) + Bit(Coming(c)) + decrements[k] + miscounts[k]
                <= Total(k) + OwedAt(ip, ToIncrement)
                   + Bit(CountedIn(c, "auth")') + Bit(Coming(c)')
                   + decrements'[k] + miscounts'[k]
           \/ Total(k)' = fallback'[k]
        /\ fallback'[k] + OwedAt(ip, ToIncrement)' + Bit(Coming(c)) + miscounts[k]
             <= fallback[k] + OwedAt(ip, ToIncrement) + Bit(Coming(c)') + miscounts'[k]

(* It keeps the balance of every IP.                                         *)
LEMMA StepOf ==
    ASSUME TypeOK, TypeOK', Balanced, NEW c \in Conns, OnlyOf(c), OnlySocket(c),
           \A ip \in Ips, S \in {ToDecrement, ToIncrement} :
             /\ OwedAt(ip, S) \in Nat /\ OwedAt(ip, S)' \in Nat
             /\ ip # IpOf[c] => OwedAt(ip, S)' = OwedAt(ip, S),
           \A ip \in Ips : ip # IpOf[c] => \A k \in {UKey(ip), AKey(ip)} :
             /\ Total(k)' = Total(k) /\ fallback'[k] = fallback[k]
             /\ decrements'[k] = decrements[k] /\ miscounts'[k] = miscounts[k],
           UnauthMoves(c), AuthMoves(c)
    PROVE  Balanced'
  <1>1. ASSUME NEW ip \in Ips, ip # IpOf[c]
        PROVE  UnauthBalanced(ip)' /\ AuthBalanced(ip)'
    BY <1>1, Elsewhere
  <1>2. ASSUME NEW ip \in Ips, ip = IpOf[c]
        PROVE  UnauthBalanced(ip)' /\ AuthBalanced(ip)'
    <2>1. /\ UnauthBalanced(ip) /\ AuthBalanced(ip)
          /\ OwedAt(ip, ToDecrement) \in Nat /\ OwedAt(ip, ToDecrement)' \in Nat
          /\ OwedAt(ip, ToIncrement) \in Nat /\ OwedAt(ip, ToIncrement)' \in Nat
      BY DEF Balanced
    <2>3. \A k \in {UKey(ip), AKey(ip)} :
            /\ fallback[k] \in Nat /\ decrements[k] \in Nat /\ miscounts[k] \in Nat
            /\ fallback'[k] \in Nat /\ decrements'[k] \in Nat /\ miscounts'[k] \in Nat
            /\ Total(k) \in Nat /\ Total(k)' \in Nat
      BY StoreTyped DEF Total
    <2>4. /\ {Bit(CountedIn(c, "unauth")), Bit(CountedIn(c, "auth")),
               Bit(Settled(c)), Bit(Coming(c))} \subseteq {0, 1}
          /\ {Bit(CountedIn(c, "unauth")'), Bit(CountedIn(c, "auth")'),
               Bit(Settled(c)'), Bit(Coming(c)')} \subseteq {0, 1}
          /\ {Standing(UKey(ip)), Standing(AKey(ip)), SettledAt(ip), ComingAt(ip)}
                \subseteq Nat
          /\ {Standing(UKey(ip))', Standing(AKey(ip))', SettledAt(ip)', ComingAt(ip)'}
                \subseteq Nat
          /\ Standing(UKey(ip))' = Standing(UKey(ip))
               + Bit(CountedIn(c, "unauth")') - Bit(CountedIn(c, "unauth"))
          /\ Standing(AKey(ip))' = Standing(AKey(ip))
               + Bit(CountedIn(c, "auth")') - Bit(CountedIn(c, "auth"))
          /\ SettledAt(ip)' = SettledAt(ip) + Bit(Settled(c)') - Bit(Settled(c))
          /\ ComingAt(ip)' = ComingAt(ip) + Bit(Coming(c)') - Bit(Coming(c))
      BY <1>2, OnlyMoves
    <2>5. UnauthBalanced(ip)'
      BY <1>2, <2>1, <2>3, <2>4 DEF UnauthBalanced, UnauthMoves, UKey
    <2>6. AuthBalanced(ip)'
      BY <1>2, <2>1, <2>3, <2>4 DEF AuthBalanced, AuthMoves, AKey
    <2> QED  BY <2>5, <2>6
  <1> QED  BY <1>1, <1>2 DEF Balanced
----------------------------------------------------------------------------
(* The actions, one by one.                                                  *)
LEMMA OwedTyped ==
    ASSUME TypeOK, NEW c \in Conns,
           UNCHANGED upgrade \/ \E i \in Messages : \E u : UpgradeTo(c, i, u)
    PROVE  \A ip \in Ips, S \in {ToDecrement, ToIncrement} :
             /\ OwedAt(ip, S) \in Nat /\ OwedAt(ip, S)' \in Nat
             /\ ip # IpOf[c] => OwedAt(ip, S)' = OwedAt(ip, S)
  <1>1. CASE UNCHANGED upgrade
    BY <1>1, OwedSame
  <1>2. CASE \E i \in Messages : \E u : UpgradeTo(c, i, u)
    <2>1. PICK i \in Messages : \E u : UpgradeTo(c, i, u)
      BY <1>2
    <2>2. PICK u : UpgradeTo(c, i, u)
      BY <2>1
    <2> QED  BY <2>2, OwedMoves
  <1> QED  BY <1>1, <1>2

LEMMA Resting ==
    ASSUME NEW c, ~Upgrading(c), NEW S, "none" \notin S PROVE ~In(c, S)
  BY DEF Upgrading, In

LEMMA RestingNext ==
    ASSUME NEW c, ~Upgrading(c)', NEW S, "none" \notin S PROVE ~In(c, S)'
  BY DEF Upgrading, In

LEMMA Goes ==
    ASSUME TypeOK, NEW c \in Conns, NEW i \in Messages, NEW u,
           UpgradeTo(c, i, u), NEW S
    PROVE  /\ u \in S => In(c, S)'
           /\ upgrade[c][i] \in S => In(c, S)
           /\ u \notin S => (In(c, S)' => In(c, S))
           /\ upgrade[c][i] \notin S => (In(c, S) => In(c, S)')
  <1>1. \A j \in Messages : upgrade'[c][j] = IF j = i THEN u ELSE upgrade[c][j]
    BY DEF TypeOK, UpgradeTo
  <1> QED  BY <1>1 DEF In

LEMMA SameBits ==
    ASSUME NEW c, CountedIn(c, "unauth")' <=> CountedIn(c, "unauth"),
           CountedIn(c, "auth")' <=> CountedIn(c, "auth"),
           Settled(c)' <=> Settled(c), Coming(c)' <=> Coming(c)
    PROVE  /\ Bit(CountedIn(c, "unauth")') = Bit(CountedIn(c, "unauth"))
           /\ Bit(CountedIn(c, "auth")') = Bit(CountedIn(c, "auth"))
           /\ Bit(Settled(c)') = Bit(Settled(c)) /\ Bit(Coming(c)') = Bit(Coming(c))
  BY Zenon DEF Bit

LEMMA BitTypes ==
    ASSUME NEW c
    PROVE  /\ {Bit(CountedIn(c, "unauth")), Bit(CountedIn(c, "auth")),
                Bit(Settled(c)), Bit(Coming(c))} \subseteq {0, 1}
           /\ {Bit(CountedIn(c, "unauth")'), Bit(CountedIn(c, "auth")'),
                Bit(Settled(c)'), Bit(Coming(c)')} \subseteq {0, 1}
  BY Zenon DEF Bit

(* The socket of the step stands where it stood.                             *)
LEMMA Still ==
    ASSUME TypeOK, TypeOK', Balanced, NEW c \in Conns, OnlyOf(c), OnlySocket(c),
           UNCHANGED <<upgrade, count, fallback, decrements, miscounts>>,
           CountedIn(c, "unauth")' <=> CountedIn(c, "unauth"),
           CountedIn(c, "auth")' <=> CountedIn(c, "auth"),
           Coming(c)' <=> Coming(c)
    PROVE  Balanced'
  <1>1. Settled(c)' <=> Settled(c)
    BY DEF Settled, In
  <1>2. /\ Bit(CountedIn(c, "unauth")') = Bit(CountedIn(c, "unauth"))
        /\ Bit(CountedIn(c, "auth")') = Bit(CountedIn(c, "auth"))
        /\ Bit(Settled(c)') = Bit(Settled(c)) /\ Bit(Coming(c)') = Bit(Coming(c))
    BY <1>1, SameBits
  <1>3. \A ip \in Ips, S \in {ToDecrement, ToIncrement} :
           OwedAt(ip, S) \in Nat /\ OwedAt(ip, S)' = OwedAt(ip, S)
    BY OwedSame
  <1>4. \A k : Total(k)' = Total(k)
    BY DEF Total
  <1>5. IpOf[c] \in Ips
    OBVIOUS
  <1>6. \A k \in {UKey(IpOf[c]), AKey(IpOf[c])} :
          /\ fallback[k] \in Nat /\ decrements[k] \in Nat /\ miscounts[k] \in Nat
          /\ Total(k) \in Nat
    BY <1>5, StoreTyped DEF Total
  <1>7. UnauthMoves(c) /\ AuthMoves(c)
    BY <1>2, <1>3, <1>4, <1>5, <1>6, BitTypes DEF UnauthMoves, AuthMoves
  <1> QED  BY <1>3, <1>4, <1>7, StepOf

LEMMA StillActions ==
    ASSUME TypeOK, TypeOK', Shape, Balanced, NEW c \in Conns,
           \/ Connect(c) \/ BanAnswered(c) \/ AuthCountAnswered(c) \/ UnauthCountAnswered(c)
           \/ BeginClosing(c) \/ CloseUnregistered(c) \/ Forget(c)
           \/ Register(c) /\ sock[c] # "closed"
           \/ AuthMessage(c) /\ initially[c]
    PROVE  Balanced'
  <1>0. /\ step \in [Conns -> AdmissionSteps \union {"done"}]
        /\ sock \in [Conns -> {"none", "open", "closing", "closed"}]
        /\ initially \in [Conns -> BOOLEAN] /\ clients \subseteq Conns
    BY DEF TypeOK
  <1>s. OnlySocket(c)
    BY OtherSockets DEF Admission, Upgrade
  <1>1. CASE Connect(c) \/ BanAnswered(c) \/ AuthCountAnswered(c) \/ UnauthCountAnswered(c)
    <2>1. /\ UNCHANGED <<clients, upgrade, count, fallback, decrements, miscounts>>
          /\ step[c] # "register" /\ step'[c] # "register"
          /\ \A d \in Conns : d # c => step'[d] = step[d]
          /\ c \notin clients
      BY <1>0, <1>1 DEF Connect, BanAnswered, AuthCountAnswered, UnauthCountAnswered,
                        Counted, Reject, GoTo, store, Shape
    <2>2. \A d \in Conns : d # c => initially'[d] = initially[d]
      BY <1>0, <1>1, Zenon DEF Connect, BanAnswered, AuthCountAnswered,
                               UnauthCountAnswered, flags
    <2>3. OnlyOf(c)
      BY <2>1, <2>2 DEF OnlyOf
    <2>4. \A kind \in {"auth", "unauth"} : ~CountedIn(c, kind) /\ ~CountedIn(c, kind)'
      BY <2>1, ClientStands, ClientStandsNext
    <2>5. ~Coming(c) /\ ~Coming(c)'
      BY <2>1 DEF Coming
    <2> QED  BY <1>s, <2>1, <2>3, <2>4, <2>5, Still
  <1>2. CASE Register(c) /\ sock[c] # "closed"
    <2>1. /\ UNCHANGED <<sock, initially, upgrade, count, fallback, decrements, miscounts>>
          /\ step[c] = "register" /\ step'[c] = "done"
          /\ \A d \in Conns : d # c => step'[d] = step[d]
          /\ clients' = clients \union {c} /\ c \notin clients
          /\ ~Upgrading(c)
      BY <1>0, <1>2 DEF Register, GoTo, store, flags, Shape
    <2>2. OnlyOf(c)
      BY <2>1 DEF OnlyOf
    <2>3. /\ ~In(c, {"mark"})' /\ ~In(c, {"increment"})'
          /\ ~In(c, ToIncrement) /\ ~In(c, ToIncrement)'
      BY <2>1, Resting DEF ToIncrement, In
    <2>4. \A kind : CountedIn(c, kind)' <=> Kind(c)' = kind
      BY <1>2, <2>1, <2>3, ClientStandsNext
    <2>5. \A kind : CountedIn(c, kind) <=> Kind(c) = kind
      BY <2>1 DEF CountedIn
    <2>6. Kind(c)' = Kind(c)
      BY <2>1 DEF Kind
    <2>7. ~Coming(c) /\ ~Coming(c)'
      BY <2>3 DEF Coming
    <2> QED  BY <1>s, <2>1, <2>2, <2>4, <2>5, <2>6, <2>7, Still
  <1>3. CASE BeginClosing(c) \/ (AuthMessage(c) /\ initially[c])
    <2>1. UNCHANGED <<step, clients, initially, upgrade, count, fallback, decrements>>
      BY <1>3 DEF BeginClosing, AuthMessage, store, flags
    <2>2. UNCHANGED miscounts
      <3>1. CASE BeginClosing(c)
        BY <3>1 DEF BeginClosing, store
      <3>2. CASE AuthMessage(c) /\ initially[c]
        <4>1. miscounts' = [k \in Keys |-> miscounts[k] + 0]
          BY <3>2 DEF AuthMessage, Overtaken
        <4>2. miscounts \in [Keys -> Nat]
          BY DEF TypeOK
        <4> QED  BY <4>1, <4>2
      <3> QED  BY <1>3, <3>1, <3>2
    <2>3. sock'[c] = "closed" <=> sock[c] = "closed"
      BY <1>0, <1>3 DEF BeginClosing, StartClose, AuthMessage
    <2>4. /\ OnlyOf(c)
          /\ \A kind : CountedIn(c, kind)' <=> CountedIn(c, kind)
      BY <2>1, <2>3 DEF OnlyOf, CountedIn, Kind
    <2>5. Coming(c)' <=> Coming(c)
      BY <2>1, <2>4 DEF Coming, In
    <2> QED  BY <1>s, <2>1, <2>2, <2>4, <2>5, Still
  <1>4. CASE CloseUnregistered(c) \/ Forget(c)
    <2>1. /\ UNCHANGED <<step, clients, upgrade, count, fallback, decrements, miscounts>>
          /\ c \notin clients
          /\ initially' = [initially EXCEPT ![c] = @ /\ ~Idle(c)]
      BY <1>4 DEF CloseUnregistered, Forget, Gone, store
    <2>2. /\ \A d \in Conns : d # c => initially'[d] = initially[d]
          /\ ~Idle(c) => (initially'[c] <=> initially[c])
      BY <1>0, <2>1, Zenon
    <2>3. /\ OnlyOf(c)
          /\ Coming(c)' <=> Coming(c)
      BY <2>1, <2>2 DEF OnlyOf, Coming
    <2>4. \A kind : CountedIn(c, kind) <=> step[c] = "register" /\ Kind(c) = kind
      BY <2>1 DEF CountedIn
    <2>5. \A kind : CountedIn(c, kind)' <=> step[c] = "register" /\ Kind(c)' = kind
      BY <2>1 DEF CountedIn
    <2>6. step[c] = "register" => Kind(c)' = Kind(c)
      BY <2>2 DEF Idle, Kind
    <2>7. \A kind : CountedIn(c, kind)' <=> CountedIn(c, kind)
      BY <2>4, <2>5, <2>6
    <2> QED  BY <1>s, <2>1, <2>3, <2>7, Still
  <1> QED  BY <1>1, <1>2, <1>3, <1>4

LEMMA Numbers ==
    ASSUME TypeOK, TypeOK', NEW c \in Conns
    PROVE  \A k \in {UKey(IpOf[c]), AKey(IpOf[c])} :
             /\ count[k] \in Nat /\ fallback[k] \in Nat /\ decrements[k] \in Nat
             /\ miscounts[k] \in Nat /\ Total(k) \in Nat
             /\ count'[k] \in Nat /\ fallback'[k] \in Nat /\ decrements'[k] \in Nat
             /\ miscounts'[k] \in Nat /\ Total(k)' \in Nat
  <1>1. IpOf[c] \in Ips
    OBVIOUS
  <1> QED  BY <1>1, StoreTyped DEF Total

LEMMA KeysOf ==
    /\ \A ip \in Ips : UKey(ip) \in Keys /\ AKey(ip) \in Keys
    /\ \A ip, other \in Ips : UKey(ip) # AKey(other)
    /\ \A ip, other \in Ips : ip # other => UKey(ip) # UKey(other) /\ AKey(ip) # AKey(other)
    /\ \A c : Key("unauth", c) = UKey(IpOf[c]) /\ Key("auth", c) = AKey(IpOf[c])
  BY DEF UKey, AKey, Keys, Kinds, Key

LEMMA OvertakenEffect ==
    ASSUME TypeOK, NEW c \in Conns, NEW happens \in BOOLEAN, Overtaken(c, happens),
           NEW ip \in Ips
    PROVE  \A k \in {UKey(ip), AKey(ip)} :
             miscounts'[k] = miscounts[k] + IF happens /\ ip = IpOf[c] THEN 1 ELSE 0
  <1>1. \A k \in {UKey(ip), AKey(ip)} : k \in Keys /\ k[2] = ip
    BY DEF UKey, AKey, Keys, Kinds
  <1> QED  BY <1>1 DEF Overtaken

LEMMA OthersKeep ==
    ASSUME TypeOK, NEW c \in Conns, NEW i \in Messages, NEW u, UpgradeTo(c, i, u)
    PROVE  \A d \in Conns, j \in Messages : d # c => upgrade'[d][j] = upgrade[d][j]
  BY DEF TypeOK, UpgradeTo

LEMMA StepSets ==
    /\ "none" \notin ToDecrement /\ "none" \notin ToIncrement
    /\ "none" \notin {"mark"} /\ "none" \notin {"increment"}
    /\ "auth count" \in ToDecrement /\ "auth count" \in ToIncrement
    /\ "auth count" \notin {"mark"} /\ "auth count" \notin {"increment"}
    /\ "decrement" \in ToDecrement /\ "decrement" \in ToIncrement
    /\ "decrement" \notin {"mark"} /\ "decrement" \notin {"increment"}
    /\ "increment" \notin ToDecrement /\ "increment" \in ToIncrement
    /\ "increment" \notin {"mark"} /\ "increment" \in {"increment"}
    /\ "mark" \notin ToDecrement /\ "mark" \notin ToIncrement
    /\ "mark" \in {"mark"} /\ "mark" \notin {"increment"}
  BY DEF ToDecrement, ToIncrement

LEMMA OwedOneMore ==
    ASSUME TypeOK, NEW c \in Conns, NEW i \in Messages, NEW u, UpgradeTo(c, i, u),
           NEW S, upgrade[c][i] \notin S, u \in S
    PROVE  /\ OwedAt(IpOf[c], S) \in Nat /\ OwedAt(IpOf[c], S)' \in Nat
           /\ OwedAt(IpOf[c], S)' = OwedAt(IpOf[c], S) + 1
  <1>1. /\ OwedAt(IpOf[c], S) \in Nat /\ OwedAt(IpOf[c], S)' \in Nat
        /\ OwedAt(IpOf[c], S)' = OwedAt(IpOf[c], S)
             + Bit(u \in S) - Bit(upgrade[c][i] \in S)
    BY IpOf[c] \in Ips, OwedMoves
  <1>2. Bit(u \in S) = 1 /\ Bit(upgrade[c][i] \in S) = 0
    BY Zenon DEF Bit
  <1> QED  BY <1>1, <1>2

LEMMA OwedOneLess ==
    ASSUME TypeOK, NEW c \in Conns, NEW i \in Messages, NEW u, UpgradeTo(c, i, u),
           NEW S, upgrade[c][i] \in S, u \notin S
    PROVE  /\ OwedAt(IpOf[c], S) \in Nat /\ OwedAt(IpOf[c], S)' \in Nat
           /\ OwedAt(IpOf[c], S)' = OwedAt(IpOf[c], S) - 1
  <1>1. /\ OwedAt(IpOf[c], S) \in Nat /\ OwedAt(IpOf[c], S)' \in Nat
        /\ OwedAt(IpOf[c], S)' = OwedAt(IpOf[c], S)
             + Bit(u \in S) - Bit(upgrade[c][i] \in S)
    BY IpOf[c] \in Ips, OwedMoves
  <1>2. Bit(u \in S) = 0 /\ Bit(upgrade[c][i] \in S) = 1
    BY Zenon DEF Bit
  <1> QED  BY <1>1, <1>2

LEMMA OwedStillIn ==
    ASSUME TypeOK, NEW c \in Conns, NEW i \in Messages, NEW u, UpgradeTo(c, i, u),
           NEW S, upgrade[c][i] \in S, u \in S
    PROVE  /\ OwedAt(IpOf[c], S) \in Nat /\ OwedAt(IpOf[c], S)' \in Nat
           /\ OwedAt(IpOf[c], S)' = OwedAt(IpOf[c], S)
  <1>1. /\ OwedAt(IpOf[c], S) \in Nat /\ OwedAt(IpOf[c], S)' \in Nat
        /\ OwedAt(IpOf[c], S)' = OwedAt(IpOf[c], S)
             + Bit(u \in S) - Bit(upgrade[c][i] \in S)
    BY IpOf[c] \in Ips, OwedMoves
  <1>2. Bit(u \in S) = 1 /\ Bit(upgrade[c][i] \in S) = 1
    BY Zenon DEF Bit
  <1> QED  BY <1>1, <1>2

LEMMA OwedStillOut ==
    ASSUME TypeOK, NEW c \in Conns, NEW i \in Messages, NEW u, UpgradeTo(c, i, u),
           NEW S, upgrade[c][i] \notin S, u \notin S
    PROVE  /\ OwedAt(IpOf[c], S) \in Nat /\ OwedAt(IpOf[c], S)' \in Nat
           /\ OwedAt(IpOf[c], S)' = OwedAt(IpOf[c], S)
  <1>1. /\ OwedAt(IpOf[c], S) \in Nat /\ OwedAt(IpOf[c], S)' \in Nat
        /\ OwedAt(IpOf[c], S)' = OwedAt(IpOf[c], S)
             + Bit(u \in S) - Bit(upgrade[c][i] \in S)
    BY IpOf[c] \in Ips, OwedMoves
  <1>2. Bit(u \in S) = 0 /\ Bit(upgrade[c][i] \in S) = 0
    BY Zenon DEF Bit
  <1> QED  BY <1>1, <1>2

LEMMA ComingGrows ==
    ASSUME NEW c, Coming(c) => Coming(c)' PROVE Bit(Coming(c)) <= Bit(Coming(c)')
  <1>1. CASE Coming(c)
    <2>1. Bit(Coming(c)) = 1 /\ Bit(Coming(c)') = 1
      BY <1>1, Zenon DEF Bit
    <2> QED  BY <2>1
  <1>2. CASE ~Coming(c)
    <2>1. Bit(Coming(c)) = 0
      BY <1>2, Zenon DEF Bit
    <2> QED  BY <2>1, BitTypes
  <1> QED  BY <1>1, <1>2

(* The first message of a client that is being upgraded puts it from Settled *)
(* to Coming; a second one may be one too many.                              *)
LEMMA AuthMessageBalanced ==
    ASSUME TypeOK, TypeOK', Shape, Balanced, NEW c \in Conns, AuthMessage(c), ~initially[c]
    PROVE  Balanced'
  <1>1. /\ c \in clients /\ step[c] = "done" /\ sock[c] # "closed"
        /\ UNCHANGED <<sock, step, clients, initially, count, fallback, decrements>>
        /\ Overtaken(c, Upgrading(c) /\ ~initially[c])
    BY DEF AuthMessage, Shape
  <1>s. OnlySocket(c)
    BY <1>1 DEF OnlySocket
  <1>2. PICK i \in Messages :
          upgrade[c][i] = "none" /\ UpgradeTo(c, i, "auth count")
    BY DEF AuthMessage, UpgradeTo
  <1>3. OnlyOf(c)
    BY <1>1, <1>2, OthersKeep DEF OnlyOf
  <1>4. /\ In(c, ToDecrement)' /\ In(c, ToIncrement)'
        /\ In(c, {"mark"})' <=> In(c, {"mark"})
        /\ In(c, {"increment"})' <=> In(c, {"increment"})
    BY <1>2, Goes, StepSets
  <1>5. Kind(c) = "unauth" /\ Kind(c)' = "unauth"
    BY <1>1 DEF Kind
  <1>6. \A kind \in {"auth", "unauth"} : CountedIn(c, kind)' <=> CountedIn(c, kind)
    BY <1>1, <1>4, <1>5, ClientStands, ClientStandsNext
  <1>7. /\ ~Settled(c)'
        /\ Coming(c)' <=> ~CountedIn(c, "auth")
    BY <1>1, <1>4, <1>6 DEF Settled, Coming
  <1>8. /\ Bit(CountedIn(c, "unauth")') = Bit(CountedIn(c, "unauth"))
        /\ Bit(CountedIn(c, "auth")') = Bit(CountedIn(c, "auth"))
        /\ Bit(Settled(c)') = 0
    BY <1>6, <1>7, Zenon DEF Bit
  <1>9. /\ OwedAt(IpOf[c], ToDecrement) \in Nat /\ OwedAt(IpOf[c], ToIncrement) \in Nat
        /\ OwedAt(IpOf[c], ToDecrement)' = OwedAt(IpOf[c], ToDecrement) + 1
        /\ OwedAt(IpOf[c], ToIncrement)' = OwedAt(IpOf[c], ToIncrement) + 1
    BY <1>2, OwedOneMore, StepSets
  <1>10. \A k : Total(k)' = Total(k)
    BY <1>1 DEF Total
  <1>11. (Upgrading(c) /\ ~initially[c]) \in BOOLEAN
    OBVIOUS
  <1>12. \A ip \in Ips : \A k \in {UKey(ip), AKey(ip)} :
           miscounts'[k] = miscounts[k]
             + IF (Upgrading(c) /\ ~initially[c]) /\ ip = IpOf[c] THEN 1 ELSE 0
    BY <1>1, <1>11, OvertakenEffect
  <1>13. \A k \in {UKey(IpOf[c]), AKey(IpOf[c])} :
           /\ Upgrading(c) => miscounts'[k] = miscounts[k] + 1
           /\ ~Upgrading(c) => miscounts'[k] = miscounts[k]
    BY <1>12, Numbers
  <1>14. UnauthMoves(c) /\ AuthMoves(c)
    <2>1. CASE Upgrading(c)
      <3>1. Bit(Coming(c)) <= Bit(Coming(c)')
        BY <1>7, ComingGrows DEF Coming
      <3> QED  BY <1>1, <1>8, <1>9, <1>10, <1>13, <2>1, <3>1, BitTypes, Numbers
               DEF UnauthMoves, AuthMoves
    <2>2. CASE ~Upgrading(c)
      <3>1. /\ ~In(c, ToDecrement) /\ ~In(c, ToIncrement)
            /\ ~In(c, {"mark"}) /\ ~In(c, {"increment"})
        BY <2>2, Resting, StepSets
      <3>2. CountedIn(c, "unauth") /\ ~CountedIn(c, "auth")
        BY <1>1, <1>5, <3>1, ClientStands
      <3>3. Settled(c) /\ ~Coming(c) /\ Coming(c)'
        BY <1>7, <3>1, <3>2 DEF Settled, Coming
      <3>4. Bit(Settled(c)) = 1 /\ Bit(Coming(c)) = 0 /\ Bit(Coming(c)') = 1
        BY <3>3, Zenon DEF Bit
      <3> QED  BY <1>1, <1>8, <1>9, <1>10, <1>13, <2>2, <3>4, BitTypes, Numbers
               DEF UnauthMoves, AuthMoves
    <2> QED  BY <2>1, <2>2
  <1>15. \A ip \in Ips : ip # IpOf[c] => \A k \in {UKey(ip), AKey(ip)} :
           /\ Total(k)' = Total(k) /\ fallback'[k] = fallback[k]
           /\ decrements'[k] = decrements[k] /\ miscounts'[k] = miscounts[k]
    BY <1>1, <1>10, <1>12, StoreTyped
  <1>16. \A ip \in Ips, S \in {ToDecrement, ToIncrement} :
             /\ OwedAt(ip, S) \in Nat /\ OwedAt(ip, S)' \in Nat
             /\ ip # IpOf[c] => OwedAt(ip, S)' = OwedAt(ip, S)
    BY <1>2, OwedTyped
  <1> QED  BY <1>s, <1>3, <1>14, <1>15, <1>16, StepOf

(* An upgrade's client is registered and past its admission, or gone.        *)
LEMMA UpgradingStands ==
    ASSUME Shape, NEW c \in Conns, NEW i \in Messages, upgrade[c][i] # "none",
           UNCHANGED <<step, clients>>, sock'[c] = "closed" <=> sock[c] = "closed"
    PROVE  /\ step[c] # "register" /\ step'[c] # "register"
           /\ \A kind \in {"auth", "unauth"} :
                /\ CountedIn(c, kind) <=>
                     /\ c \in clients
                     /\ \/ In(c, {"mark"}) /\ kind = "auth"
                        \/ ~In(c, {"mark"}) /\ ~In(c, {"increment"}) /\ Kind(c) = kind
                /\ CountedIn(c, kind)' <=>
                     /\ c \in clients
                     /\ \/ In(c, {"mark"})' /\ kind = "auth"
                        \/ ~In(c, {"mark"})' /\ ~In(c, {"increment"})' /\ Kind(c)' = kind
  <1>1. /\ step[c] = "done" /\ step'[c] = "done"
        /\ c \in clients => sock[c] # "closed" /\ sock'[c] # "closed"
    BY DEF Shape, Upgrading
  <1> QED  BY <1>1, ClientStands, ClientStandsNext

LEMMA ComingAndCounted ==
    ASSUME NEW c
    PROVE  /\ Bit(CountedIn(c, "auth")) + Bit(Coming(c)) <= 1
           /\ CountedIn(c, "auth") \/ Coming(c) =>
                Bit(CountedIn(c, "auth")) + Bit(Coming(c)) = 1
           /\ CountedIn(c, "auth")' \/ Coming(c)' =>
                Bit(CountedIn(c, "auth")') + Bit(Coming(c)') = 1
           /\ ~CountedIn(c, "auth") /\ ~Coming(c) =>
                Bit(CountedIn(c, "auth")) + Bit(Coming(c)) = 0
  <1>1. ~(CountedIn(c, "auth") /\ Coming(c)) /\ ~(CountedIn(c, "auth")' /\ Coming(c)')
    BY DEF Coming
  <1>2. /\ CountedIn(c, "auth") => Bit(CountedIn(c, "auth")) = 1
        /\ ~CountedIn(c, "auth") => Bit(CountedIn(c, "auth")) = 0
        /\ CountedIn(c, "auth")' => Bit(CountedIn(c, "auth")') = 1
        /\ ~CountedIn(c, "auth")' => Bit(CountedIn(c, "auth")') = 0
        /\ Coming(c) => Bit(Coming(c)) = 1
        /\ ~Coming(c) => Bit(Coming(c)) = 0
        /\ Coming(c)' => Bit(Coming(c)') = 1
        /\ ~Coming(c)' => Bit(Coming(c)') = 0
    BY Zenon DEF Bit
  <1> QED  BY <1>1, <1>2

LEMMA NoBit ==
    ASSUME NEW c
    PROVE  /\ ~CountedIn(c, "unauth") => Bit(CountedIn(c, "unauth")) = 0
           /\ ~CountedIn(c, "unauth")' => Bit(CountedIn(c, "unauth")') = 0
           /\ ~Settled(c) => Bit(Settled(c)) = 0
           /\ ~Settled(c)' => Bit(Settled(c)') = 0
           /\ ~CountedIn(c, "auth")' => Bit(CountedIn(c, "auth")') = 0
           /\ CountedIn(c, "auth") => Bit(CountedIn(c, "auth")) = 1
  BY Zenon DEF Bit

LEMMA WrittenElsewhere ==
    ASSUME TypeOK, TypeOK', NEW c \in Conns, NEW kind \in Kinds, NEW by \in {1, -1},
           Written(Key(kind, c), by), UNCHANGED decrements
    PROVE  \A ip \in Ips : ip # IpOf[c] => \A k \in {UKey(ip), AKey(ip)} :
             /\ Total(k)' = Total(k) /\ fallback'[k] = fallback[k]
             /\ decrements'[k] = decrements[k] /\ miscounts'[k] = miscounts[k]
  <1>1. Key(kind, c) \in Keys
    BY KeyIn
  <1>2. ASSUME NEW ip \in Ips, ip # IpOf[c], NEW k \in {UKey(ip), AKey(ip)}
        PROVE  k \in Keys /\ k # Key(kind, c)
    BY <1>2 DEF UKey, AKey, Keys, Key, Kinds
  <1> QED  BY <1>1, <1>2, WrittenEffect

LEMMA UpgradeCountBalanced ==
    ASSUME TypeOK, TypeOK', Shape, Balanced, NEW c \in Conns, NEW i \in Messages,
           UpgradeCountAnswered(c, i)
    PROVE  Balanced'
  <1>1. /\ upgrade[c][i] = "auth count"
        /\ UNCHANGED <<step, clients, initially, count, fallback, decrements, miscounts>>
        /\ UpgradeTo(c, i, "none") \/ UpgradeTo(c, i, "decrement")
    BY DEF UpgradeCountAnswered, Counted, flags, UpgradeTo
  <1>s. OnlySocket(c) /\ (sock'[c] = "closed" <=> sock[c] = "closed")
    BY UpgradeKeepsSocket
  <1>2. OnlyOf(c)
    BY <1>1, OthersKeep DEF OnlyOf
  <1>3. /\ In(c, ToDecrement) /\ In(c, ToIncrement)
        /\ In(c, {"mark"})' <=> In(c, {"mark"})
        /\ In(c, {"increment"})' <=> In(c, {"increment"})
    BY <1>1, Goes, StepSets
  <1>4. Kind(c)' = Kind(c)
    BY <1>1 DEF Kind
  <1>5. \A kind \in {"auth", "unauth"} : CountedIn(c, kind)' <=> CountedIn(c, kind)
    BY <1>s, <1>1, <1>3, <1>4, UpgradingStands
  <1>6. ~Settled(c)
    BY <1>3 DEF Settled
  <1>7. /\ Bit(CountedIn(c, "unauth")') = Bit(CountedIn(c, "unauth"))
        /\ Bit(CountedIn(c, "auth")') = Bit(CountedIn(c, "auth"))
        /\ Bit(Settled(c)) = 0
    BY <1>5, <1>6, Zenon DEF Bit
  <1>8. \A k : Total(k)' = Total(k)
    BY <1>1 DEF Total
  <1>u. decrements' = decrements /\ miscounts' = miscounts /\ fallback' = fallback
    BY <1>1
  <1>t. /\ {Bit(CountedIn(c, "unauth")), Bit(CountedIn(c, "auth")), Bit(Coming(c)),
            Bit(Settled(c)'), Bit(Coming(c)')} \subseteq {0, 1}
        /\ \A k \in {UKey(IpOf[c]), AKey(IpOf[c])} :
             /\ fallback[k] \in Nat /\ decrements[k] \in Nat
             /\ miscounts[k] \in Nat /\ Total(k) \in Nat
    BY BitTypes, Numbers
  <1>9. UnauthMoves(c) /\ AuthMoves(c)
    <2>1. CASE UpgradeTo(c, i, "none")
      <3>1. /\ OwedAt(IpOf[c], ToDecrement) \in Nat /\ OwedAt(IpOf[c], ToIncrement) \in Nat
            /\ OwedAt(IpOf[c], ToDecrement)' = OwedAt(IpOf[c], ToDecrement) - 1
            /\ OwedAt(IpOf[c], ToIncrement)' = OwedAt(IpOf[c], ToIncrement) - 1
        BY <1>1, <2>1, OwedOneLess, StepSets, ZenonT(60)
      <3>2. UnauthMoves(c)
        BY <1>u, <1>7, <1>8, <3>1, <1>t DEF UnauthMoves
      <3>3. AuthMoves(c)
        BY <1>u, <1>7, <1>8, <3>1, <1>t DEF AuthMoves
      <3> QED  BY <3>2, <3>3
    <2>2. CASE UpgradeTo(c, i, "decrement")
      <3>1. /\ OwedAt(IpOf[c], ToDecrement) \in Nat /\ OwedAt(IpOf[c], ToIncrement) \in Nat
            /\ OwedAt(IpOf[c], ToDecrement)' = OwedAt(IpOf[c], ToDecrement)
            /\ OwedAt(IpOf[c], ToIncrement)' = OwedAt(IpOf[c], ToIncrement)
        BY <1>1, <2>2, OwedStillIn, StepSets
      <3>2. In(c, ToDecrement)' /\ In(c, ToIncrement)'
        BY <2>2, Goes, StepSets
      <3>3. ~Settled(c)' /\ (Coming(c) => Coming(c)')
        BY <1>1, <1>5, <3>2 DEF Settled, Coming
      <3>4. Bit(Settled(c)') = 0 /\ Bit(Coming(c)) <= Bit(Coming(c)')
        BY <3>3, NoBit, ComingGrows
      <3>5. UnauthMoves(c)
        BY <1>u, <1>7, <1>8, <3>1, <3>4, <1>t DEF UnauthMoves
      <3>6. AuthMoves(c)
        BY <1>u, <1>7, <1>8, <3>1, <3>4, <1>t DEF AuthMoves
      <3> QED  BY <3>5, <3>6
    <2> QED  BY <1>1, <2>1, <2>2
  <1>10. \A ip \in Ips, S \in {ToDecrement, ToIncrement} :
             /\ OwedAt(ip, S) \in Nat /\ OwedAt(ip, S)' \in Nat
             /\ ip # IpOf[c] => OwedAt(ip, S)' = OwedAt(ip, S)
    BY <1>1, OwedTyped
  <1> QED  BY <1>s, <1>1, <1>2, <1>8, <1>9, <1>10, StepOf

LEMMA UpgradeMarkBalanced ==
    ASSUME TypeOK, TypeOK', Shape, Balanced, NEW c \in Conns, NEW i \in Messages,
           UpgradeMark(c, i)
    PROVE  Balanced'
  <1>1. /\ upgrade[c][i] = "mark"
        /\ UNCHANGED <<step, clients, count, fallback, decrements, miscounts>>
        /\ UpgradeTo(c, i, "none")
    BY DEF UpgradeMark, store, UpgradeTo
  <1>s. OnlySocket(c) /\ (sock'[c] = "closed" <=> sock[c] = "closed")
    BY UpgradeKeepsSocket
  <1>2. /\ initially'[c]
        /\ \A d \in Conns : d # c => initially'[d] = initially[d]
    BY Zenon DEF UpgradeMark, TypeOK
  <1>3. OnlyOf(c)
    BY <1>1, <1>2, OthersKeep DEF OnlyOf
  <1>4. In(c, {"mark"})
    BY <1>1, Goes, StepSets
  <1>5. Kind(c)' = "auth"
    BY <1>2 DEF Kind
  <1>6. In(c, {"increment"})' => In(c, ToIncrement)'
    BY DEF In, ToIncrement
  <1>7. /\ ~CountedIn(c, "unauth") /\ ~CountedIn(c, "unauth")'
        /\ c \in clients <=> CountedIn(c, "auth")
        /\ CountedIn(c, "auth")' => c \in clients
        /\ c \in clients => CountedIn(c, "auth")' \/ In(c, {"increment"})'
    BY <1>s, <1>1, <1>4, <1>5, UpgradingStands
  <1>8. /\ ~Settled(c) /\ ~Settled(c)' /\ ~Coming(c)
        /\ CountedIn(c, "auth") => CountedIn(c, "auth")' \/ Coming(c)'
    BY <1>1, <1>6, <1>7 DEF Settled, Coming
  <1>9. /\ Bit(CountedIn(c, "unauth")) = 0 /\ Bit(CountedIn(c, "unauth")') = 0
        /\ Bit(Settled(c)) = 0 /\ Bit(Settled(c)') = 0
        /\ Bit(CountedIn(c, "auth")') <= Bit(CountedIn(c, "auth"))
        /\ Bit(Coming(c)) = 0
        /\ Bit(CountedIn(c, "auth")) <= Bit(CountedIn(c, "auth")') + Bit(Coming(c)')
    BY <1>7, <1>8, NoBit, ComingGrows, ComingAndCounted, BitTypes
  <1>10. /\ OwedAt(IpOf[c], ToDecrement) \in Nat /\ OwedAt(IpOf[c], ToIncrement) \in Nat
         /\ OwedAt(IpOf[c], ToDecrement)' = OwedAt(IpOf[c], ToDecrement)
         /\ OwedAt(IpOf[c], ToIncrement)' = OwedAt(IpOf[c], ToIncrement)
    BY <1>1, OwedStillOut, StepSets, ZenonT(60)
  <1>11. \A k : Total(k)' = Total(k)
    BY <1>1 DEF Total
  <1>12. UnauthMoves(c) /\ AuthMoves(c)
    BY <1>1, <1>9, <1>10, <1>11, BitTypes, Numbers DEF UnauthMoves, AuthMoves
  <1>13. \A ip \in Ips, S \in {ToDecrement, ToIncrement} :
             /\ OwedAt(ip, S) \in Nat /\ OwedAt(ip, S)' \in Nat
             /\ ip # IpOf[c] => OwedAt(ip, S)' = OwedAt(ip, S)
    BY <1>1, OwedTyped
  <1> QED  BY <1>s, <1>1, <1>3, <1>11, <1>12, <1>13, StepOf

LEMMA UpgradeDecrementBalanced ==
    ASSUME TypeOK, TypeOK', Shape, Balanced, NEW c \in Conns, NEW i \in Messages,
           UpgradeDecrement(c, i)
    PROVE  Balanced'
  <1>1. /\ upgrade[c][i] = "decrement" /\ UpgradeTo(c, i, "increment")
        /\ UNCHANGED <<step, clients, initially, decrements>>
        /\ Written(Key("unauth", c), -1)
    BY DEF UpgradeDecrement, Decremented, flags, UpgradeTo
  <1>s. OnlySocket(c) /\ (sock'[c] = "closed" <=> sock[c] = "closed")
    BY UpgradeKeepsSocket
  <1>2. OnlyOf(c)
    BY <1>1, OthersKeep DEF OnlyOf
  <1>3. /\ In(c, ToDecrement) /\ In(c, ToIncrement) /\ In(c, ToIncrement)'
        /\ In(c, {"mark"})' <=> In(c, {"mark"})
        /\ In(c, {"increment"})'
    BY <1>1, Goes, StepSets
  <1>4. Kind(c)' = Kind(c)
    BY <1>1 DEF Kind
  <1>5. /\ ~CountedIn(c, "unauth")'
        /\ CountedIn(c, "auth")' => CountedIn(c, "auth")
    BY <1>s, <1>1, <1>3, <1>4, UpgradingStands
  <1>6. /\ ~Settled(c) /\ ~Settled(c)'
        /\ Coming(c) => Coming(c)'
        /\ CountedIn(c, "auth") => Coming(c)' \/ CountedIn(c, "auth")'
    <2>1. CountedIn(c, "auth") => c \in clients
      BY <1>s, <1>1, UpgradingStands
    <2> QED  BY <1>1, <1>3, <1>5, <2>1 DEF Settled, Coming
  <1>7. /\ Bit(Settled(c)) = 0 /\ Bit(Settled(c)') = 0
        /\ Bit(CountedIn(c, "unauth")') = 0
        /\ Bit(Coming(c)) <= Bit(Coming(c)')
        /\ Bit(CountedIn(c, "auth")') <= Bit(CountedIn(c, "auth"))
        /\ Bit(CountedIn(c, "auth")) + Bit(Coming(c))
             <= Bit(CountedIn(c, "auth")') + Bit(Coming(c)')
    BY <1>5, <1>6, NoBit, ComingGrows, ComingAndCounted, BitTypes
  <1>8. /\ OwedAt(IpOf[c], ToDecrement) \in Nat
        /\ OwedAt(IpOf[c], ToDecrement)' = OwedAt(IpOf[c], ToDecrement) - 1
    BY <1>1, OwedOneLess, StepSets, ZenonT(60)
  <1>9. /\ OwedAt(IpOf[c], ToIncrement) \in Nat
        /\ OwedAt(IpOf[c], ToIncrement)' = OwedAt(IpOf[c], ToIncrement)
    BY <1>1, OwedStillIn, StepSets
  <1>10. \A k : decrements'[k] = decrements[k]
    BY <1>1
  <1>t. /\ {Bit(CountedIn(c, "unauth")), Bit(CountedIn(c, "auth")), Bit(Coming(c)),
            Bit(CountedIn(c, "auth")'), Bit(Coming(c)')} \subseteq {0, 1}
        /\ \A k \in {UKey(IpOf[c]), AKey(IpOf[c])} :
             /\ fallback[k] \in Nat /\ decrements[k] \in Nat
             /\ miscounts[k] \in Nat /\ Total(k) \in Nat
             /\ fallback'[k] \in Nat
             /\ miscounts'[k] \in Nat /\ Total(k)' \in Nat
    BY BitTypes, Numbers
  <1>11. LET k == UKey(IpOf[c])
         IN  /\ fallback'[k] + miscounts[k] <= fallback[k] + miscounts'[k]
             /\ miscounts[k] <= miscounts'[k]
             /\ Total(k) - 1 + miscounts[k] <= Total(k)' + miscounts'[k]
             /\ \/ Total(k)' + miscounts[k] <= Total(k) - 1 + miscounts'[k]
                \/ Total(k)' = fallback'[k]
    <2>1. UKey(IpOf[c]) \in Keys /\ Written(UKey(IpOf[c]), -1)
      BY <1>1, KeysOf
    <2> QED  BY <1>t, <2>1, WrittenEffect
  <1>12. LET k == AKey(IpOf[c])
         IN  /\ Total(k)' = Total(k) /\ fallback'[k] = fallback[k]
             /\ miscounts'[k] = miscounts[k]
    <2>1. UKey(IpOf[c]) \in Keys /\ Written(UKey(IpOf[c]), -1)
      BY <1>1, KeysOf
    <2>2. AKey(IpOf[c]) \in Keys /\ AKey(IpOf[c]) # UKey(IpOf[c])
      BY KeysOf
    <2> QED  BY <2>1, <2>2, WrittenEffect
  <1>13. UnauthMoves(c)
    BY <1>7, <1>8, <1>10, <1>11, <1>t DEF UnauthMoves
  <1>14. AuthMoves(c)
    BY <1>7, <1>9, <1>10, <1>12, <1>t DEF AuthMoves
  <1>15. \A ip \in Ips, S \in {ToDecrement, ToIncrement} :
             /\ OwedAt(ip, S) \in Nat /\ OwedAt(ip, S)' \in Nat
             /\ ip # IpOf[c] => OwedAt(ip, S)' = OwedAt(ip, S)
    BY <1>1, OwedTyped
  <1>16. \A ip \in Ips : ip # IpOf[c] => \A k \in {UKey(ip), AKey(ip)} :
           /\ Total(k)' = Total(k) /\ fallback'[k] = fallback[k]
           /\ decrements'[k] = decrements[k] /\ miscounts'[k] = miscounts[k]
    BY <1>1, "unauth" \in Kinds, WrittenElsewhere DEF Kinds
  <1> QED  BY <1>s, <1>2, <1>13, <1>14, <1>15, <1>16, StepOf

LEMMA UpgradeIncrementBalanced ==
    ASSUME TypeOK, TypeOK', Shape, Balanced, NEW c \in Conns, NEW i \in Messages,
           UpgradeIncrement(c, i)
    PROVE  Balanced'
  <1>1. /\ upgrade[c][i] = "increment" /\ UpgradeTo(c, i, "mark")
        /\ UNCHANGED <<step, clients, initially, decrements>>
        /\ Written(Key("auth", c), 1)
    BY DEF UpgradeIncrement, Incremented, flags, UpgradeTo
  <1>s. OnlySocket(c) /\ (sock'[c] = "closed" <=> sock[c] = "closed")
    BY UpgradeKeepsSocket
  <1>2. OnlyOf(c)
    BY <1>1, OthersKeep DEF OnlyOf
  <1>3. In(c, {"increment"}) /\ In(c, {"mark"})'
    BY <1>1, Goes, StepSets
  <1>4. /\ ~CountedIn(c, "unauth") /\ ~CountedIn(c, "unauth")'
        /\ CountedIn(c, "auth") => CountedIn(c, "auth")'
        /\ c \in clients <=> CountedIn(c, "auth")'
    BY <1>s, <1>1, <1>3, UpgradingStands
  <1>5. /\ ~Settled(c) /\ ~Settled(c)'
        /\ Coming(c) => CountedIn(c, "auth")'
    BY <1>4 DEF Settled, Coming
  <1>6. /\ Bit(Settled(c)) = 0 /\ Bit(Settled(c)') = 0
        /\ Bit(CountedIn(c, "unauth")) = 0 /\ Bit(CountedIn(c, "unauth")') = 0
        /\ Bit(CountedIn(c, "auth")) + Bit(Coming(c))
             <= Bit(CountedIn(c, "auth")') + Bit(Coming(c)')
    BY <1>4, <1>5, NoBit, ComingAndCounted, BitTypes
  <1>7. /\ OwedAt(IpOf[c], ToIncrement) \in Nat
        /\ OwedAt(IpOf[c], ToIncrement)' = OwedAt(IpOf[c], ToIncrement) - 1
    BY <1>1, OwedOneLess, StepSets
  <1>8. /\ OwedAt(IpOf[c], ToDecrement) \in Nat
        /\ OwedAt(IpOf[c], ToDecrement)' = OwedAt(IpOf[c], ToDecrement)
    BY <1>1, OwedStillOut, StepSets
  <1>9. \A k : decrements'[k] = decrements[k]
    BY <1>1
  <1>t. /\ {Bit(CountedIn(c, "unauth")), Bit(CountedIn(c, "auth")), Bit(Coming(c)),
            Bit(CountedIn(c, "auth")'), Bit(Coming(c)')} \subseteq {0, 1}
        /\ \A k \in {UKey(IpOf[c]), AKey(IpOf[c])} :
             /\ fallback[k] \in Nat /\ decrements[k] \in Nat
             /\ miscounts[k] \in Nat /\ Total(k) \in Nat
             /\ fallback'[k] \in Nat
             /\ miscounts'[k] \in Nat /\ Total(k)' \in Nat
    BY BitTypes, Numbers
  <1>10. AKey(IpOf[c]) \in Keys /\ Written(AKey(IpOf[c]), 1)
    BY <1>1, KeysOf
  <1>11. LET k == AKey(IpOf[c])
         IN  /\ fallback'[k] + miscounts[k] <= fallback[k] + miscounts'[k]
             /\ Total(k) + 1 + miscounts[k] <= Total(k)' + miscounts'[k]
             /\ \/ Total(k)' + miscounts[k] <= Total(k) + 1 + miscounts'[k]
                \/ Total(k)' = fallback'[k]
    BY <1>t, <1>10, WrittenEffect
  <1>12. LET k == UKey(IpOf[c])
         IN  /\ Total(k)' = Total(k) /\ fallback'[k] = fallback[k]
             /\ miscounts'[k] = miscounts[k]
    <2>1. UKey(IpOf[c]) \in Keys /\ AKey(IpOf[c]) # UKey(IpOf[c])
      BY KeysOf
    <2> QED  BY <1>10, <2>1, WrittenEffect
  <1>13. UnauthMoves(c)
    BY <1>6, <1>8, <1>9, <1>12, <1>t DEF UnauthMoves
  <1>14. AuthMoves(c)
    BY <1>6, <1>7, <1>9, <1>11, <1>t DEF AuthMoves
  <1>15. \A ip \in Ips, S \in {ToDecrement, ToIncrement} :
             /\ OwedAt(ip, S) \in Nat /\ OwedAt(ip, S)' \in Nat
             /\ ip # IpOf[c] => OwedAt(ip, S)' = OwedAt(ip, S)
    BY <1>1, OwedTyped
  <1>16. \A ip \in Ips : ip # IpOf[c] => \A k \in {UKey(ip), AKey(ip)} :
           /\ Total(k)' = Total(k) /\ fallback'[k] = fallback[k]
           /\ decrements'[k] = decrements[k] /\ miscounts'[k] = miscounts[k]
    BY <1>1, "auth" \in Kinds, WrittenElsewhere DEF Kinds
  <1> QED  BY <1>s, <1>2, <1>13, <1>14, <1>15, <1>16, StepOf

LEMMA AdmissionIncrementBalanced ==
    ASSUME TypeOK, TypeOK', Shape, Balanced, NEW c \in Conns, AdmissionIncrement(c)
    PROVE  Balanced'
  <1>1. /\ step[c] = "increment" /\ step'[c] = "register" /\ c \notin clients
        /\ \A d \in Conns : d # c => step'[d] = step[d]
        /\ UNCHANGED <<clients, initially, upgrade, decrements>>
        /\ Written(Key(Kind(c), c), 1) /\ ~Upgrading(c)
    BY DEF AdmissionIncrement, Incremented, flags, GoTo, Shape, TypeOK
  <1>s. OnlySocket(c)
    BY OtherSockets DEF Admission
  <1>2. OnlyOf(c)
    BY <1>1 DEF OnlyOf
  <1>3. ~In(c, ToDecrement)'
    BY <1>1, Resting, StepSets DEF In
  <1>4. /\ ~CountedIn(c, "unauth") /\ ~CountedIn(c, "auth")
        /\ CountedIn(c, "unauth")' <=> Kind(c) = "unauth"
        /\ CountedIn(c, "auth")' <=> Kind(c) = "auth"
    BY <1>1 DEF CountedIn, Kind
  <1>5. /\ ~Settled(c) /\ (Settled(c)' <=> Kind(c) = "unauth")
        /\ ~Coming(c) /\ ~Coming(c)'
    BY <1>1, <1>3, <1>4 DEF Settled, Coming
  <1>6. /\ Bit(CountedIn(c, "unauth")) = 0 /\ Bit(CountedIn(c, "auth")) = 0
        /\ Bit(Settled(c)) = 0 /\ Bit(Coming(c)) = 0 /\ Bit(Coming(c)') = 0
        /\ Kind(c) = "unauth" => /\ Bit(CountedIn(c, "unauth")') = 1
                                /\ Bit(Settled(c)') = 1
        /\ Kind(c) # "unauth" => /\ Bit(CountedIn(c, "unauth")') = 0
                                /\ Bit(Settled(c)') = 0
        /\ Kind(c) = "auth" => Bit(CountedIn(c, "auth")') = 1
        /\ Kind(c) # "auth" => Bit(CountedIn(c, "auth")') = 0
    BY <1>4, <1>5, Zenon DEF Bit
  <1>7. /\ OwedAt(IpOf[c], ToDecrement) \in Nat /\ OwedAt(IpOf[c], ToIncrement) \in Nat
        /\ OwedAt(IpOf[c], ToDecrement)' = OwedAt(IpOf[c], ToDecrement)
        /\ OwedAt(IpOf[c], ToIncrement)' = OwedAt(IpOf[c], ToIncrement)
    BY <1>1, OwedSame
  <1>8. \A k : decrements'[k] = decrements[k]
    BY <1>1
  <1>t. /\ \A k \in {UKey(IpOf[c]), AKey(IpOf[c])} :
             /\ fallback[k] \in Nat /\ decrements[k] \in Nat
             /\ miscounts[k] \in Nat /\ Total(k) \in Nat
             /\ fallback'[k] \in Nat
             /\ miscounts'[k] \in Nat /\ Total(k)' \in Nat
    BY Numbers
  <1>9. /\ UKey(IpOf[c]) \in Keys /\ AKey(IpOf[c]) \in Keys
        /\ UKey(IpOf[c]) # AKey(IpOf[c])
    BY KeysOf
  <1>10. ASSUME NEW k \in Keys, NEW j \in Keys, j # k, Written(k, 1),
                k \in {UKey(IpOf[c]), AKey(IpOf[c])}
         PROVE  /\ fallback'[k] + miscounts[k] <= fallback[k] + miscounts'[k]
                /\ miscounts[k] <= miscounts'[k]
                /\ Total(k) + 1 + miscounts[k] <= Total(k)' + miscounts'[k]
                /\ \/ Total(k)' + miscounts[k] <= Total(k) + 1 + miscounts'[k]
                   \/ Total(k)' = fallback'[k]
                /\ Total(j)' = Total(j) /\ fallback'[j] = fallback[j]
                /\ miscounts'[j] = miscounts[j]
    BY <1>t, <1>10, WrittenEffect
  <1>11. UnauthMoves(c) /\ AuthMoves(c)
    <2>1. CASE Kind(c) = "unauth"
      <3>1. Written(UKey(IpOf[c]), 1)
        BY <1>1, <2>1, KeysOf
      <3>2. UnauthMoves(c)
        BY <1>6, <1>7, <1>8, <1>t, <1>9, <1>10, <2>1, <3>1 DEF UnauthMoves
      <3>3. AuthMoves(c)
        BY <1>6, <1>7, <1>8, <1>t, <1>9, <1>10, <2>1, <3>1 DEF AuthMoves
      <3> QED  BY <3>2, <3>3
    <2>2. CASE Kind(c) = "auth"
      <3>1. Written(AKey(IpOf[c]), 1)
        BY <1>1, <2>2, KeysOf
      <3>2. UnauthMoves(c)
        BY <1>6, <1>7, <1>8, <1>t, <1>9, <1>10, <2>2, <3>1 DEF UnauthMoves
      <3>3. AuthMoves(c)
        BY <1>6, <1>7, <1>8, <1>t, <1>9, <1>10, <2>2, <3>1 DEF AuthMoves
      <3> QED  BY <3>2, <3>3
    <2> QED  BY <2>1, <2>2, KindIn DEF Kinds
  <1>12. \A ip \in Ips, S \in {ToDecrement, ToIncrement} :
             /\ OwedAt(ip, S) \in Nat /\ OwedAt(ip, S)' \in Nat
             /\ ip # IpOf[c] => OwedAt(ip, S)' = OwedAt(ip, S)
    BY <1>1, OwedTyped
  <1>13. \A ip \in Ips : ip # IpOf[c] => \A k \in {UKey(ip), AKey(ip)} :
           /\ Total(k)' = Total(k) /\ fallback'[k] = fallback[k]
           /\ decrements'[k] = decrements[k] /\ miscounts'[k] = miscounts[k]
    BY <1>1, KindIn, WrittenElsewhere
  <1> QED  BY <1>s, <1>2, <1>11, <1>12, <1>13, StepOf

(* The admission of a socket that has closed meanwhile leaves a count that   *)
(* no socket stands in.                                                      *)
LEMMA RegisterBalanced ==
    ASSUME TypeOK, TypeOK', Shape, Balanced, NEW c \in Conns, Register(c)
    PROVE  Balanced'
  <1>0. /\ step \in [Conns -> AdmissionSteps \union {"done"}]
        /\ miscounts \in [Keys -> Nat]
    BY DEF TypeOK
  <1>1. CASE sock[c] # "closed"
    BY <1>1, StillActions
  <1>2. CASE sock[c] = "closed"
    <2>1. /\ UNCHANGED <<sock, initially, upgrade, count, fallback, decrements>>
          /\ step[c] = "register" /\ step'[c] = "done"
          /\ \A d \in Conns : d # c => step'[d] = step[d]
          /\ clients' = clients \union {c} /\ ~Upgrading(c)
          /\ miscounts' = [miscounts EXCEPT ![Key(Kind(c), c)] = @ + 1]
      BY <1>0, <1>2 DEF Register, GoTo, flags, Shape
    <2>2. OnlyOf(c) /\ OnlySocket(c)
      BY <2>1 DEF OnlyOf, OnlySocket
    <2>3. ~In(c, ToDecrement) /\ ~In(c, ToIncrement) /\ ~In(c, ToIncrement)'
      BY <2>1, Resting, StepSets DEF In
    <2>4. /\ ~CountedIn(c, "unauth")' /\ ~CountedIn(c, "auth")'
          /\ CountedIn(c, "unauth") <=> Kind(c) = "unauth"
          /\ CountedIn(c, "auth") => Kind(c) = "auth"
      <3>1. \A kind : ~CountedIn(c, kind)'
        BY <1>2, <2>1, ClientStandsNext
      <3>2. c \notin clients
        BY <2>1 DEF Shape
      <3> QED  BY <2>1, <3>1, <3>2 DEF CountedIn
    <2>5. /\ ~Settled(c)' /\ (Settled(c) <=> CountedIn(c, "unauth"))
          /\ ~Coming(c) /\ ~Coming(c)'
      BY <2>3, <2>4 DEF Settled, Coming
    <2>6. /\ Bit(CountedIn(c, "unauth")') = 0 /\ Bit(CountedIn(c, "auth")') = 0
          /\ Bit(Settled(c)') = 0 /\ Bit(Coming(c)) = 0 /\ Bit(Coming(c)') = 0
          /\ Bit(Settled(c)) = Bit(CountedIn(c, "unauth"))
          /\ Kind(c) # "unauth" => Bit(CountedIn(c, "unauth")) = 0
          /\ Kind(c) # "auth" => Bit(CountedIn(c, "auth")) = 0
      BY <2>4, <2>5, Zenon DEF Bit
    <2>7. /\ OwedAt(IpOf[c], ToDecrement) \in Nat /\ OwedAt(IpOf[c], ToIncrement) \in Nat
          /\ OwedAt(IpOf[c], ToDecrement)' = OwedAt(IpOf[c], ToDecrement)
          /\ OwedAt(IpOf[c], ToIncrement)' = OwedAt(IpOf[c], ToIncrement)
      BY <2>1, OwedSame
    <2>8. \A k : /\ Total(k)' = Total(k) /\ fallback'[k] = fallback[k]
                 /\ decrements'[k] = decrements[k]
      BY <2>1 DEF Total
    <2>9. /\ Key(Kind(c), c) \in Keys
          /\ Kind(c) = "unauth" => Key(Kind(c), c) = UKey(IpOf[c])
          /\ Kind(c) = "auth" => Key(Kind(c), c) = AKey(IpOf[c])
          /\ Kind(c) \in {"auth", "unauth"}
      BY KeysOf, KeyIn, KindIn DEF Kinds
    <2>10. \A k \in Keys : miscounts'[k] = miscounts[k] + (IF k = Key(Kind(c), c) THEN 1 ELSE 0)
      BY <1>0, <2>1
    <2>11. /\ UKey(IpOf[c]) \in Keys /\ AKey(IpOf[c]) \in Keys
           /\ UKey(IpOf[c]) # AKey(IpOf[c])
      BY KeysOf
    <2>12. UnauthMoves(c)
      <3>1. CASE Kind(c) = "unauth"
        <4>1. miscounts'[UKey(IpOf[c])] = miscounts[UKey(IpOf[c])] + 1
          BY <2>9, <2>10, <2>11, <3>1
        <4> QED  BY <2>6, <2>7, <2>8, <4>1, BitTypes, Numbers DEF UnauthMoves
      <3>2. CASE Kind(c) # "unauth"
        <4>1. miscounts'[UKey(IpOf[c])] = miscounts[UKey(IpOf[c])]
          BY <2>9, <2>10, <2>11, <3>2, Numbers
        <4> QED  BY <2>6, <2>7, <2>8, <3>2, <4>1, BitTypes, Numbers DEF UnauthMoves
      <3> QED  BY <3>1, <3>2
    <2>13. AuthMoves(c)
      <3>1. CASE Kind(c) = "auth"
        <4>1. miscounts'[AKey(IpOf[c])] = miscounts[AKey(IpOf[c])] + 1
          BY <2>9, <2>10, <2>11, <3>1
        <4> QED  BY <2>6, <2>7, <2>8, <4>1, BitTypes, Numbers DEF AuthMoves
      <3>2. CASE Kind(c) # "auth"
        <4>1. miscounts'[AKey(IpOf[c])] = miscounts[AKey(IpOf[c])]
          BY <2>9, <2>10, <2>11, <3>2, Numbers
        <4> QED  BY <2>6, <2>7, <2>8, <3>2, <4>1, BitTypes, Numbers DEF AuthMoves
      <3> QED  BY <3>1, <3>2
    <2>14. \A ip \in Ips, S \in {ToDecrement, ToIncrement} :
               /\ OwedAt(ip, S) \in Nat /\ OwedAt(ip, S)' \in Nat
               /\ ip # IpOf[c] => OwedAt(ip, S)' = OwedAt(ip, S)
      BY <2>1, OwedTyped
    <2>15. \A ip \in Ips : ip # IpOf[c] => \A k \in {UKey(ip), AKey(ip)} :
             /\ Total(k)' = Total(k) /\ fallback'[k] = fallback[k]
             /\ decrements'[k] = decrements[k] /\ miscounts'[k] = miscounts[k]
      <3>1. ASSUME NEW ip \in Ips, ip # IpOf[c], NEW k \in {UKey(ip), AKey(ip)}
            PROVE  miscounts'[k] = miscounts[k]
        <4>1. k \in Keys /\ k # Key(Kind(c), c)
          BY <3>1 DEF UKey, AKey, Keys, Key, Kinds
        <4> QED  BY <2>10, <3>1, <4>1, StoreTyped
      <3> QED  BY <2>8, <3>1
    <2> QED  BY <2>2, <2>12, <2>13, <2>14, <2>15, StepOf
  <1> QED  BY <1>1, <1>2

LEMMA CloseBalanced ==
    ASSUME TypeOK, TypeOK', Shape, Balanced, NEW c \in Conns, Close(c)
    PROVE  Balanced'
  <1>1. /\ c \in clients /\ step[c] = "done" /\ sock[c] # "closed"
        /\ clients' = clients \ {c}
        /\ UNCHANGED <<step, upgrade, fallback>>
        /\ initially' = [initially EXCEPT ![c] = @ /\ ~Idle(c)]
        /\ Released(c) /\ Overtaken(c, Upgrading(c))
    BY DEF Close, Gone, Shape, Released
  <1>2. \A d \in Conns : d # c => initially'[d] = initially[d]
    BY <1>1, Zenon DEF TypeOK
  <1>3. OnlyOf(c) /\ OnlySocket(c)
    BY <1>1, <1>2, OtherSockets DEF OnlyOf
  <1>4. /\ ~CountedIn(c, "unauth")' /\ ~CountedIn(c, "auth")'
        /\ ~Settled(c)' /\ ~Coming(c)'
    BY <1>1, ClientStandsNext DEF Settled, Coming
  <1>5. /\ Bit(CountedIn(c, "unauth")') = 0 /\ Bit(CountedIn(c, "auth")') = 0
        /\ Bit(Settled(c)') = 0 /\ Bit(Coming(c)') = 0
    BY <1>4, Zenon DEF Bit
  <1>6. /\ OwedAt(IpOf[c], ToDecrement) \in Nat /\ OwedAt(IpOf[c], ToIncrement) \in Nat
        /\ OwedAt(IpOf[c], ToDecrement)' = OwedAt(IpOf[c], ToDecrement)
        /\ OwedAt(IpOf[c], ToIncrement)' = OwedAt(IpOf[c], ToIncrement)
    BY <1>1, OwedSame
  <1>7. PICK K \in Keys : K = Key(Kind(c), c)
    BY KeyIn, KindIn
  <1>8. \A j \in Keys : j # K => Total(j)' = Total(j) /\ decrements'[j] = decrements[j]
    BY <1>1, <1>7 DEF Released, Total, TypeOK
  <1>9. /\ count[K] \in Nat /\ fallback[K] \in Nat /\ decrements[K] \in Nat
        /\ count \in [Keys -> Nat] /\ decrements \in [Keys -> Nat]
    BY <1>7 DEF TypeOK
  <1>10. /\ Total(K) + decrements'[K] <= Total(K)' + decrements[K] + 1
         /\ \/ Total(K)' + decrements[K] + 1 <= Total(K) + decrements'[K]
            \/ Total(K)' = fallback'[K]
    <2>0. fallback'[K] = fallback[K]
      BY <1>1
    <2>1. CASE remote
      <3>1. count'[K] = count[K] /\ decrements'[K] = decrements[K] + 1
        BY <1>1, <1>7, <1>9, <2>1 DEF Released
      <3> QED  BY <1>9, <2>0, <3>1 DEF Total
    <2>2. CASE ~remote
      <3>1. count'[K] = Plus(count[K], -1) /\ decrements'[K] = decrements[K]
        BY <1>1, <1>7, <1>9, <2>2 DEF Released
      <3>2. count'[K] = IF count[K] = 0 THEN 0 ELSE count[K] - 1
        BY <1>9, <3>1 DEF Plus
      <3> QED  BY <1>9, <2>0, <3>1, <3>2 DEF Total
    <2> QED  BY <2>1, <2>2
  <1>t. /\ {Bit(CountedIn(c, "unauth")), Bit(CountedIn(c, "auth")), Bit(Coming(c)),
            Bit(Settled(c))} \subseteq {0, 1}
        /\ Bit(CountedIn(c, "auth")) + Bit(Coming(c)) <= 1
        /\ \A k \in {UKey(IpOf[c]), AKey(IpOf[c])} :
             /\ fallback[k] \in Nat /\ decrements[k] \in Nat
             /\ miscounts[k] \in Nat /\ Total(k) \in Nat
             /\ fallback'[k] \in Nat /\ decrements'[k] \in Nat
             /\ miscounts'[k] \in Nat /\ Total(k)' \in Nat
    BY BitTypes, Numbers, ComingAndCounted
  <1>11. \A ip \in Ips : \A k \in {UKey(ip), AKey(ip)} :
           miscounts'[k] = miscounts[k] + IF Upgrading(c) /\ ip = IpOf[c] THEN 1 ELSE 0
    <2>1. Upgrading(c) \in BOOLEAN
      BY DEF Upgrading
    <2> QED  BY <1>1, <2>1, OvertakenEffect
  <1>12. \A k \in {UKey(IpOf[c]), AKey(IpOf[c])} :
           /\ Upgrading(c) => miscounts'[k] = miscounts[k] + 1
           /\ ~Upgrading(c) => miscounts'[k] = miscounts[k]
           /\ fallback'[k] = fallback[k]
    BY <1>1, <1>t, <1>11
  <1>13. ~Upgrading(c) =>
           /\ Kind(c) = "unauth" => /\ Bit(CountedIn(c, "unauth")) = 1
                                   /\ Bit(Settled(c)) = 1
                                   /\ Bit(CountedIn(c, "auth")) = 0
           /\ Kind(c) = "auth" => /\ Bit(CountedIn(c, "unauth")) = 0
                                 /\ Bit(Settled(c)) = 0
                                 /\ Bit(CountedIn(c, "auth")) = 1
           /\ Bit(Coming(c)) = 0
    <2>1. ~Upgrading(c) =>
            /\ CountedIn(c, "unauth") <=> Kind(c) = "unauth"
            /\ CountedIn(c, "auth") <=> Kind(c) = "auth"
            /\ Settled(c) <=> Kind(c) = "unauth"
            /\ ~Coming(c)
      BY <1>1, Resting, StepSets, ClientStands DEF Settled, Coming
    <2>2. "auth" # "unauth"
      OBVIOUS
    <2>3. /\ CountedIn(c, "unauth") => Bit(CountedIn(c, "unauth")) = 1
          /\ ~CountedIn(c, "unauth") => Bit(CountedIn(c, "unauth")) = 0
          /\ CountedIn(c, "auth") => Bit(CountedIn(c, "auth")) = 1
          /\ ~CountedIn(c, "auth") => Bit(CountedIn(c, "auth")) = 0
          /\ Settled(c) => Bit(Settled(c)) = 1
          /\ ~Settled(c) => Bit(Settled(c)) = 0
          /\ ~Coming(c) => Bit(Coming(c)) = 0
      BY Zenon DEF Bit
    <2> QED  BY <2>1, <2>2, <2>3
  <1>14. /\ UKey(IpOf[c]) \in Keys /\ AKey(IpOf[c]) \in Keys
         /\ UKey(IpOf[c]) # AKey(IpOf[c])
         /\ Kind(c) = "unauth" => K = UKey(IpOf[c])
         /\ Kind(c) = "auth" => K = AKey(IpOf[c])
         /\ Kind(c) \in {"auth", "unauth"}
    BY <1>7, KeysOf, KindIn DEF Kinds
  <1>15. UnauthMoves(c)
    <2>1. CASE Kind(c) = "unauth"
      <3>1. LET k == UKey(IpOf[c])
            IN  /\ Total(k) + decrements'[k] <= Total(k)' + decrements[k] + 1
                /\ \/ Total(k)' + decrements[k] + 1 <= Total(k) + decrements'[k]
                   \/ Total(k)' = fallback'[k]
        BY <1>10, <1>14, <2>1
      <3> QED  BY <1>5, <1>6, <1>t, <1>12, <1>13, <1>14, <2>1, <3>1 DEF UnauthMoves
    <2>2. CASE Kind(c) = "auth"
      BY <1>5, <1>6, <1>8, <1>t, <1>12, <1>13, <1>14, <2>2 DEF UnauthMoves
    <2> QED  BY <1>14, <2>1, <2>2
  <1>16. AuthMoves(c)
    <2>1. CASE Kind(c) = "unauth"
      BY <1>5, <1>6, <1>8, <1>t, <1>12, <1>13, <1>14, <2>1 DEF AuthMoves
    <2>2. CASE Kind(c) = "auth"
      <3>1. LET k == AKey(IpOf[c])
            IN  /\ Total(k) + decrements'[k] <= Total(k)' + decrements[k] + 1
                /\ \/ Total(k)' + decrements[k] + 1 <= Total(k) + decrements'[k]
                   \/ Total(k)' = fallback'[k]
        BY <1>10, <1>14, <2>2
      <3> QED  BY <1>5, <1>6, <1>t, <1>12, <1>13, <1>14, <2>2, <3>1 DEF AuthMoves
    <2> QED  BY <1>14, <2>1, <2>2
  <1>17. \A ip \in Ips, S \in {ToDecrement, ToIncrement} :
             /\ OwedAt(ip, S) \in Nat /\ OwedAt(ip, S)' \in Nat
             /\ ip # IpOf[c] => OwedAt(ip, S)' = OwedAt(ip, S)
    BY <1>1, OwedTyped
  <1>18. \A ip \in Ips : ip # IpOf[c] => \A k \in {UKey(ip), AKey(ip)} :
           /\ Total(k)' = Total(k) /\ fallback'[k] = fallback[k]
           /\ decrements'[k] = decrements[k] /\ miscounts'[k] = miscounts[k]
    <2>1. ASSUME NEW ip \in Ips, ip # IpOf[c], NEW k \in {UKey(ip), AKey(ip)}
          PROVE  k \in Keys /\ k # K
      BY <1>14, <2>1, KeysOf
    <2>2. ASSUME NEW ip \in Ips, ip # IpOf[c], NEW k \in {UKey(ip), AKey(ip)}
          PROVE  miscounts'[k] = miscounts[k]
      BY <1>11, <2>2, StoreTyped
    <2> QED  BY <1>1, <1>8, <2>1, <2>2
  <1> QED  BY <1>3, <1>15, <1>16, <1>17, <1>18, StepOf

LEMMA CountTypes ==
    ASSUME NEW ip \in Ips
    PROVE  /\ SettledAt(ip) \in Nat /\ ComingAt(ip) \in Nat
           /\ OwedAt(ip, ToDecrement) \in Nat /\ OwedAt(ip, ToIncrement) \in Nat
           /\ Standing(UKey(ip)) \in Nat /\ Standing(AKey(ip)) \in Nat
  <1>1. /\ IsFiniteSet({c \in Conns : IpOf[c] = ip /\ Settled(c)})
        /\ IsFiniteSet({c \in Conns : IpOf[c] = ip /\ Coming(c)})
    BY FS_Subset
  <1>2. \A S : IsFiniteSet(Owed(ip, S))
    BY MessagesFinite, FS_Subset DEF Owed
  <1> QED  BY <1>1, <1>2, StandingNat, FS_CardinalityType DEF SettledAt, ComingAt, OwedAt

LEMMA SocketsSame ==
    ASSUME UNCHANGED <<sock, step, clients, initially, upgrade>>, NEW ip \in Ips
    PROVE  /\ Standing(UKey(ip))' = Standing(UKey(ip))
           /\ Standing(AKey(ip))' = Standing(AKey(ip))
           /\ SettledAt(ip)' = SettledAt(ip) /\ ComingAt(ip)' = ComingAt(ip)
           /\ OwedAt(ip, ToDecrement)' = OwedAt(ip, ToDecrement)
           /\ OwedAt(ip, ToIncrement)' = OwedAt(ip, ToIncrement)
  <1>1. \A c \in Conns : \A kind : CountedIn(c, kind)' <=> CountedIn(c, kind)
    BY DEF CountedIn, Kind
  <1>2. \A c \in Conns : (Settled(c)' <=> Settled(c)) /\ (Coming(c)' <=> Coming(c))
    BY <1>1 DEF Settled, Coming, In
  <1>3. \A k : {c \in Conns : k = Key(k[1], c) /\ CountedIn(c, k[1])}'
                = {c \in Conns : k = Key(k[1], c) /\ CountedIn(c, k[1])}
    BY <1>1 DEF Key
  <1>4. \A k : Standing(k)' = Standing(k)
    BY <1>3 DEF Standing
  <1>5. Standing(UKey(ip))' = Standing(UKey(ip)) /\ Standing(AKey(ip))' = Standing(AKey(ip))
    BY <1>4 DEF UKey, AKey
  <1>6. SettledAt(ip)' = SettledAt(ip) /\ ComingAt(ip)' = ComingAt(ip)
    BY <1>2 DEF SettledAt, ComingAt
  <1> QED  BY <1>5, <1>6, OwedSame

LEMMA SettlesBalanced ==
    ASSUME TypeOK, TypeOK', Balanced, NEW key \in Keys, DecrementSettles(key)
    PROVE  Balanced'
  <1>1. /\ decrements[key] > 0
        /\ decrements' = [decrements EXCEPT ![key] = @ - 1]
        /\ Written(key, -1)
        /\ UNCHANGED <<sock, step, clients, initially, upgrade>>
    BY DEF DecrementSettles, flags
  <1>2. /\ \A k \in Keys : k # key => decrements'[k] = decrements[k]
        /\ decrements'[key] = decrements[key] - 1
    BY <1>1 DEF TypeOK
  <1>3. ASSUME NEW ip \in Ips
        PROVE  UnauthBalanced(ip)' /\ AuthBalanced(ip)'
    <2>1. UnauthBalanced(ip) /\ AuthBalanced(ip)
      BY DEF Balanced
    <2>t. \A k \in {UKey(ip), AKey(ip)} :
             /\ fallback[k] \in Nat /\ decrements[k] \in Nat
             /\ miscounts[k] \in Nat /\ Total(k) \in Nat
             /\ fallback'[k] \in Nat /\ decrements'[k] \in Nat
             /\ miscounts'[k] \in Nat /\ Total(k)' \in Nat
      BY StoreTyped DEF Total
    <2>2. ASSUME NEW k \in {UKey(ip), AKey(ip)}
          PROVE  \/ /\ Total(k)' = Total(k) /\ fallback'[k] = fallback[k]
                    /\ miscounts'[k] = miscounts[k] /\ decrements'[k] = decrements[k]
                 \/ /\ decrements'[k] = decrements[k] - 1
                    /\ miscounts[k] <= miscounts'[k]
                    /\ fallback'[k] + miscounts[k] <= fallback[k] + miscounts'[k]
                    /\ Total(k) - 1 + miscounts[k] <= Total(k)' + miscounts'[k]
                    /\ \/ Total(k)' + miscounts[k] <= Total(k) - 1 + miscounts'[k]
                       \/ Total(k)' = fallback'[k]
      <3>1. k \in Keys
        BY KeysOf
      <3>2. CASE k # key
        BY <1>1, <1>2, <3>1, <3>2, WrittenEffect
      <3>3. CASE k = key
        <4>1. /\ miscounts[key] <= miscounts'[key]
              /\ fallback'[key] + miscounts[key] <= fallback[key] + miscounts'[key]
              /\ Total(key) + (-1) + miscounts[key] <= Total(key)' + miscounts'[key]
              /\ \/ Total(key)' + miscounts[key] <= Total(key) + (-1) + miscounts'[key]
                 \/ Total(key)' = fallback'[key]
          BY <1>1, WrittenEffect
        <4>2. Total(key) + (-1) = Total(key) - 1
          BY <2>t, <3>3
        <4> QED  BY <1>2, <3>3, <4>1, <4>2
      <3> QED  BY <3>2, <3>3
    <2>3. /\ Standing(UKey(ip))' = Standing(UKey(ip))
          /\ Standing(AKey(ip))' = Standing(AKey(ip))
          /\ SettledAt(ip)' = SettledAt(ip) /\ ComingAt(ip)' = ComingAt(ip)
          /\ OwedAt(ip, ToDecrement)' = OwedAt(ip, ToDecrement)
          /\ OwedAt(ip, ToIncrement)' = OwedAt(ip, ToIncrement)
      BY <1>1, SocketsSame
    <2>4. UnauthBalanced(ip)'
      BY <2>1, <2>t, <2>2, <2>3, CountTypes DEF UnauthBalanced, UKey
    <2>5. AuthBalanced(ip)'
      BY <2>1, <2>t, <2>2, <2>3, CountTypes DEF AuthBalanced, AKey
    <2> QED  BY <2>4, <2>5
  <1> QED  BY <1>3 DEF Balanced

(* A counter that has expired holds nothing: all that stood in it and all    *)
(* that is on its way to it may be miscounted.                               *)
LEMMA ExpiresBalanced ==
    ASSUME TypeOK, TypeOK', Balanced, NEW key \in Keys, CountExpires(key)
    PROVE  Balanced'
  <1>1. /\ count' = [count EXCEPT ![key] = 0]
        /\ miscounts' = [miscounts EXCEPT ![key] = @ + Standing(key) + decrements[key]]
        /\ UNCHANGED <<sock, step, clients, initially, upgrade, fallback, decrements>>
    BY DEF CountExpires, flags
  <1>2. /\ \A k \in Keys : k # key => count'[k] = count[k] /\ miscounts'[k] = miscounts[k]
        /\ count'[key] = 0
        /\ miscounts'[key] = miscounts[key] + Standing(key) + decrements[key]
        /\ \A k : fallback'[k] = fallback[k] /\ decrements'[k] = decrements[k]
    BY <1>1 DEF TypeOK
  <1>3. ASSUME NEW ip \in Ips
        PROVE  UnauthBalanced(ip)' /\ AuthBalanced(ip)'
    <2>1. UnauthBalanced(ip) /\ AuthBalanced(ip)
      BY DEF Balanced
    <2>2. \A k \in {UKey(ip), AKey(ip)} :
             /\ count[k] \in Nat /\ fallback[k] \in Nat /\ decrements[k] \in Nat
             /\ miscounts[k] \in Nat /\ Total(k) = count[k] + fallback[k]
             /\ Total(k)' = count'[k] + fallback'[k]
             /\ fallback'[k] = fallback[k] /\ decrements'[k] = decrements[k]
      BY <1>2, StoreTyped DEF Total
    <2>3. ASSUME NEW k \in {UKey(ip), AKey(ip)}
          PROVE  \/ count'[k] = count[k] /\ miscounts'[k] = miscounts[k]
                 \/ /\ count'[k] = 0
                    /\ miscounts'[k] = miscounts[k] + Standing(k) + decrements[k]
      BY <1>2, KeysOf
    <2>4. /\ Standing(UKey(ip))' = Standing(UKey(ip))
          /\ Standing(AKey(ip))' = Standing(AKey(ip))
          /\ SettledAt(ip)' = SettledAt(ip) /\ ComingAt(ip)' = ComingAt(ip)
          /\ OwedAt(ip, ToDecrement)' = OwedAt(ip, ToDecrement)
          /\ OwedAt(ip, ToIncrement)' = OwedAt(ip, ToIncrement)
      BY <1>1, SocketsSame
    <2>5. UnauthBalanced(ip)'
      BY <2>1, <2>2, <2>3, <2>4, CountTypes DEF UnauthBalanced, UKey
    <2>6. AuthBalanced(ip)'
      BY <2>1, <2>2, <2>3, <2>4, CountTypes DEF AuthBalanced, AKey
    <2> QED  BY <2>5, <2>6
  <1> QED  BY <1>3 DEF Balanced

(* Nothing stands, nothing is owed: as at the start and after a crash.       *)
Nobody ==
    /\ clients = {}
    /\ \A c \in Conns : step[c] = "done" /\ ~Upgrading(c)

NobodyCounted ==
    \A ip \in Ips :
        /\ SettledAt(ip) = 0 /\ ComingAt(ip) = 0
        /\ OwedAt(ip, ToDecrement) = 0 /\ OwedAt(ip, ToIncrement) = 0
        /\ Standing(UKey(ip)) = 0 /\ Standing(AKey(ip)) = 0

LEMMA NobodyCounts == Nobody => NobodyCounted
  <1> SUFFICES ASSUME Nobody, NEW ip \in Ips
               PROVE  /\ SettledAt(ip) = 0 /\ ComingAt(ip) = 0
                      /\ OwedAt(ip, ToDecrement) = 0 /\ OwedAt(ip, ToIncrement) = 0
                      /\ Standing(UKey(ip)) = 0 /\ Standing(AKey(ip)) = 0
    BY DEF NobodyCounted
  <1>1. \A c \in Conns : \A kind : ~CountedIn(c, kind)
    BY DEF Nobody, CountedIn
  <1>2. \A k : {c \in Conns : k = Key(k[1], c) /\ CountedIn(c, k[1])} = {}
    BY <1>1
  <1>3. /\ {c \in Conns : IpOf[c] = ip /\ Settled(c)} = {}
        /\ {c \in Conns : IpOf[c] = ip /\ Coming(c)} = {}
    BY <1>1 DEF Settled, Coming, Nobody
  <1>4. \A c \in Conns, i \in Messages : upgrade[c][i] = "none"
    BY DEF Nobody, Upgrading
  <1>5. Owed(ip, ToDecrement) = {} /\ Owed(ip, ToIncrement) = {}
    BY <1>4, StepSets DEF Owed
  <1> QED  BY <1>2, <1>3, <1>5, FS_EmptySet DEF Standing, SettledAt, ComingAt, OwedAt

LEMMA ComingOwed == ASSUME NEW ip \in Ips PROVE ComingAt(ip) <= OwedAt(ip, ToIncrement)
  <1> DEFINE S == {c \in Conns : IpOf[c] = ip /\ Coming(c)}
             T == {c \in Conns : IpOf[c] = ip /\ In(c, ToIncrement)}
  <1>1. S \in SUBSET T
    BY DEF Coming
  <1>2. IsFiniteSet(T) /\ Cardinality(T) <= OwedAt(ip, ToIncrement)
    BY Covered
  <1>3. Cardinality(S) <= Cardinality(T)
    BY <1>1, <1>2, FS_Subset
  <1>4. Cardinality(T) \in Nat /\ ComingAt(ip) = Cardinality(S)
    BY <1>2, FS_CardinalityType DEF ComingAt
  <1> QED  BY <1>2, <1>3, <1>4, CountTypes

LEMMA StandingOwed ==
    ASSUME NEW ip \in Ips
    PROVE  Standing(UKey(ip)) <= SettledAt(ip) + OwedAt(ip, ToDecrement)
  <1> DEFINE S == {c \in Conns : IpOf[c] = ip /\ CountedIn(c, "unauth")}
             T == {c \in Conns : IpOf[c] = ip /\ Settled(c)}
             V == {c \in Conns : IpOf[c] = ip /\ In(c, ToDecrement)}
  <1>1. S \in SUBSET (T \union V)
    BY DEF Settled
  <1>2. IsFiniteSet(V) /\ Cardinality(V) <= OwedAt(ip, ToDecrement)
    BY Covered
  <1>3. IsFiniteSet(T)
    BY FS_Subset
  <1>4. Standing(UKey(ip)) = Cardinality(S)
    <2>1. {c \in Conns : UKey(ip) = Key(UKey(ip)[1], c) /\ CountedIn(c, UKey(ip)[1])} = S
      BY DEF UKey, Key
    <2> QED  BY <2>1 DEF Standing
  <1>5. SettledAt(ip) = Cardinality(T)
    BY DEF SettledAt
  <1> HIDE DEF S, T, V
  <1>6. /\ IsFiniteSet(T \union V)
        /\ Cardinality(T \union V) = Cardinality(T) + Cardinality(V) - Cardinality(T \cap V)
    BY <1>2, <1>3, FS_Union
  <1>7. IsFiniteSet(T \cap V)
    <2>1. (T \cap V) \in SUBSET T
      OBVIOUS
    <2> QED  BY <1>3, <2>1, FS_Subset
  <1>8. Cardinality(S) <= Cardinality(T \union V)
    BY <1>1, <1>6, FS_Subset
  <1>9. /\ Cardinality(T) \in Nat /\ Cardinality(V) \in Nat
        /\ Cardinality(T \cap V) \in Nat
    BY <1>2, <1>3, <1>7, FS_CardinalityType
  <1> QED  BY <1>2, <1>4, <1>5, <1>6, <1>8, <1>9, CountTypes

LEMMA CrashBalanced == ASSUME TypeOK, TypeOK', Balanced, Crash PROVE Balanced'
  <1>1. NobodyCounted'
    <2>1. Nobody'
      BY DEF Nobody, Crash, All, Upgrading
    <2> QED  BY <2>1, NobodyCounts, PTL
  <1>2. /\ \A k \in Keys : fallback'[k] = 0 /\ decrements'[k] = 0 /\ count'[k] = count[k]
        /\ \A k \in Keys : miscounts'[k] = miscounts[k] + Standing(k) + decrements[k]
    BY DEF Crash, Zero
  <1>3. ASSUME NEW ip \in Ips
        PROVE  UnauthBalanced(ip)' /\ AuthBalanced(ip)'
    <2>1. UnauthBalanced(ip) /\ AuthBalanced(ip)
      BY DEF Balanced
    <2>2. \A k \in {UKey(ip), AKey(ip)} :
             /\ count[k] \in Nat /\ fallback[k] \in Nat /\ decrements[k] \in Nat
             /\ miscounts[k] \in Nat /\ Total(k) = count[k] + fallback[k]
             /\ Total(k)' = count'[k] + fallback'[k]
      BY StoreTyped DEF Total
    <2>3. \A k \in {UKey(ip), AKey(ip)} :
             /\ fallback'[k] = 0 /\ decrements'[k] = 0 /\ count'[k] = count[k]
             /\ miscounts'[k] = miscounts[k] + Standing(k) + decrements[k]
      BY <1>2, KeysOf
    <2>4. /\ SettledAt(ip)' = 0 /\ ComingAt(ip)' = 0
          /\ OwedAt(ip, ToDecrement)' = 0 /\ OwedAt(ip, ToIncrement)' = 0
          /\ Standing(UKey(ip))' = 0 /\ Standing(AKey(ip))' = 0
      BY <1>1 DEF NobodyCounted
    <2>5. UnauthBalanced(ip)'
      BY <2>1, <2>2, <2>3, <2>4, CountTypes DEF UnauthBalanced, UKey
    <2>6. AuthBalanced(ip)'
      BY <2>1, <2>2, <2>3, <2>4, CountTypes, ComingOwed DEF AuthBalanced, AKey
    <2> QED  BY <2>5, <2>6
  <1> QED  BY <1>3 DEF Balanced
----------------------------------------------------------------------------
LEMMA BalanceInit == ASSUME Init PROVE BalanceInv
  <1>1. TypeOK /\ Shape
    BY LifeInit DEF LifeInv
  <1>2. NobodyCounted
    <2>1. Nobody
      BY DEF Init, Nobody, All, Upgrading
    <2> QED  BY <2>1, NobodyCounts
  <1>3. \A k \in Keys :
          count[k] = 0 /\ fallback[k] = 0 /\ decrements[k] = 0 /\ miscounts[k] = 0
    BY DEF Init, Zero
  <1>4. ASSUME NEW ip \in Ips
        PROVE  UnauthBalanced(ip) /\ AuthBalanced(ip)
    <2>1. /\ SettledAt(ip) = 0 /\ ComingAt(ip) = 0
          /\ OwedAt(ip, ToDecrement) = 0 /\ OwedAt(ip, ToIncrement) = 0
          /\ Standing(UKey(ip)) = 0 /\ Standing(AKey(ip)) = 0
      BY <1>2 DEF NobodyCounted
    <2>2. \A k \in {UKey(ip), AKey(ip)} :
            /\ Total(k) = 0 /\ fallback[k] = 0 /\ decrements[k] = 0 /\ miscounts[k] = 0
      BY <1>3, KeysOf DEF Total
    <2> QED  BY <2>1, <2>2 DEF UnauthBalanced, AuthBalanced, UKey, AKey
  <1> QED  BY <1>1, <1>4 DEF Balanced, BalanceInv

LEMMA BalanceStep == ASSUME BalanceInv, [Next]_vars PROVE BalanceInv'
  <1>1. TypeOK /\ Shape /\ Balanced
    BY DEF BalanceInv
  <1>2. CASE Next
    <2>1. TypeOK' /\ Shape'
      BY <1>1, <1>2, TypeStep, ShapeStep
    <2>2. ASSUME NEW c \in Conns, Admission(c) PROVE Balanced'
      BY <1>1, <2>1, <2>2, StillActions, AdmissionIncrementBalanced, RegisterBalanced
         DEF Admission
    <2>3. ASSUME NEW c \in Conns, Upgrade(c) PROVE Balanced'
      <3>1. CASE AuthMessage(c)
        BY <1>1, <2>1, <3>1, StillActions, AuthMessageBalanced
      <3>2. ASSUME NEW i \in Messages,
                   \/ UpgradeCountAnswered(c, i) \/ UpgradeDecrement(c, i)
                   \/ UpgradeIncrement(c, i) \/ UpgradeMark(c, i)
            PROVE  Balanced'
        BY <1>1, <2>1, <3>2, UpgradeCountBalanced, UpgradeDecrementBalanced,
           UpgradeIncrementBalanced, UpgradeMarkBalanced
      <3> QED  BY <2>3, <3>1, <3>2 DEF Upgrade
    <2>4. ASSUME NEW c \in Conns,
                 BeginClosing(c) \/ Close(c) \/ CloseUnregistered(c) \/ Forget(c)
          PROVE  Balanced'
      BY <1>1, <2>1, <2>4, StillActions, CloseBalanced
    <2>5. ASSUME NEW k \in Keys, DecrementSettles(k) \/ CountExpires(k)
          PROVE  Balanced'
      BY <1>1, <2>1, <2>5, SettlesBalanced, ExpiresBalanced
    <2>6. ASSUME Crash PROVE Balanced'
      BY <1>1, <2>1, <2>6, CrashBalanced
    <2>7. Balanced'
      BY <1>2, <2>2, <2>3, <2>4, <2>5, <2>6 DEF Next
    <2> QED  BY <2>1, <2>7 DEF BalanceInv
  <1>3. CASE UNCHANGED vars
    <2>1. TypeOK' /\ Shape'
      <3>1. TypeOK'
        BY <1>1, <1>3 DEF TypeOK, vars
      <3>2. \A c \in Conns : Upgrading(c)' <=> Upgrading(c)
        BY <1>3, SameUpgrades DEF vars
      <3> QED  BY <1>1, <1>3, <3>1, <3>2 DEF Shape, vars
    <2>2. ASSUME NEW ip \in Ips
          PROVE  UnauthBalanced(ip)' /\ AuthBalanced(ip)'
      <3>1. /\ UNCHANGED <<sock, step, clients, initially, upgrade>>
            /\ UNCHANGED <<count, fallback, decrements, miscounts>>
        BY <1>3 DEF vars
      <3>2. UnauthBalanced(ip) /\ AuthBalanced(ip)
        BY <1>1 DEF Balanced
      <3> QED  BY <3>1, <3>2, SocketsSame DEF UnauthBalanced, AuthBalanced, UKey, AKey, Total
    <2> QED  BY <2>1, <2>2 DEF Balanced, BalanceInv
  <1> QED  BY <1>2, <1>3

(* The strengthened balance is inductive: beside what stands in a counter it *)
(* follows what suspended upgrades still owe it.                             *)
THEOREM AlwaysBalanced == Spec => []BalanceInv
  BY BalanceInit, BalanceStep, PTL DEF Spec

(* The per-IP counters stay balanced, for any number of sockets, addresses,  *)
(* pipelined auth messages, failing calls, expiries of the counters in Redis *)
(* and crashes: a counter is off from the live sockets that stand in it by   *)
(* no more than the recorded miscounts.                                      *)
THEOREM CountsStayBalanced == Spec => []CountsBalance
  <1>1. BalanceInv => CountsBalance
    <2> SUFFICES ASSUME BalanceInv, NEW k \in Keys
                 PROVE  count[k] + fallback[k] - Standing(k) - decrements[k]
                          \in -miscounts[k]..miscounts[k]
      BY DEF CountsBalance
    <2>1. PICK ip \in Ips : k = UKey(ip) \/ k = AKey(ip)
      BY DEF Keys, Kinds, UKey, AKey
    <2>2. UnauthBalanced(ip) /\ AuthBalanced(ip) /\ k \in Keys
      BY DEF BalanceInv, Balanced
    <2>3. /\ count[k] \in Nat /\ fallback[k] \in Nat /\ decrements[k] \in Nat
          /\ miscounts[k] \in Nat /\ Standing(k) \in Nat
      BY StandingNat DEF BalanceInv, TypeOK
    <2>4. CASE k = UKey(ip)
      <3>1. /\ SettledAt(ip) + OwedAt(ip, ToDecrement) + decrements[k]
                 <= count[k] + fallback[k] + miscounts[k]
            /\ count[k] + fallback[k] <= Standing(k) + decrements[k] + miscounts[k]
            /\ Standing(k) <= SettledAt(ip) + OwedAt(ip, ToDecrement)
        BY <2>2, <2>4, StandingOwed DEF UnauthBalanced, UKey, Total
      <3> QED  BY <2>3, <3>1, CountTypes
    <2>5. CASE k = AKey(ip)
      <3>1. /\ Standing(k) + decrements[k] <= count[k] + fallback[k] + miscounts[k]
            /\ count[k] + fallback[k] + OwedAt(ip, ToIncrement)
                 <= Standing(k) + ComingAt(ip) + decrements[k] + miscounts[k]
            /\ ComingAt(ip) <= OwedAt(ip, ToIncrement)
        BY <2>2, <2>5, ComingOwed DEF AuthBalanced, AKey, Total
      <3> QED  BY <2>3, <3>1, CountTypes
    <2> QED  BY <2>1, <2>4, <2>5
  <1> QED  BY <1>1, AlwaysBalanced, PTL
----------------------------------------------------------------------------
(* The limits of the in-memory store (WsConnections.LimitsHold), while no    *)
(* call of it can fail.                                                      *)
(* A socket that is, or is about to be, a client counted as unauthenticated; *)
(* one whose place in the auth counter is taken.                             *)
Candidate(c) ==
    Kind(c) = "unauth" /\ (c \in clients \/ step[c] \in {"increment", "register"})
Backed(c) ==
    \/ step[c] = "register" /\ Kind(c) = "auth"
    \/ c \in clients /\ (Kind(c) = "auth" \/ In(c, {"mark"}))
CandidatesAt(ip) == Cardinality({c \in Conns : IpOf[c] = ip /\ Candidate(c)})
BackedAt(ip) == Cardinality({c \in Conns : IpOf[c] = ip /\ Backed(c)})

(* Past the check of the auth count, and not yet counted.                    *)
Passed == {"decrement", "increment"}

LocalStore == \A k \in Keys : fallback[k] = 0 /\ decrements[k] = 0
AuthPromise ==
    \A c \in Conns : step[c] = "increment" /\ Kind(c) = "auth" =>
        count[AKey(IpOf[c])] < MaxPerIp + miscounts[AKey(IpOf[c])]

(* Sockets within their budgets, places of upgrades that have passed the     *)
(* check included; one upgrade of an IP at a time, but for pipelined ones.   *)
LimitsAt(ip) ==
    /\ CandidatesAt(ip) <= MaxUnauthPerIp + miscounts[UKey(ip)]
    /\ count[AKey(ip)] + OwedAt(ip, Passed) <= MaxPerIp + miscounts[AKey(ip)]
    /\ OwedAt(ip, UpgradeSteps) <= 1 + miscounts[AKey(ip)]
    /\ BackedAt(ip) <= count[AKey(ip)]
Limits == \A ip \in Ips : LimitsAt(ip)

(* Who asks for the unauth count has not authenticated.                      *)
UnauthAsked == \A c \in Conns : step[c] = "unauth count" => ~initially[c]

LimitInv ==
    /\ LifeInv /\ BalanceInv /\ UnauthAsked
    /\ ~remote => LocalStore /\ AuthPromise /\ Limits
----------------------------------------------------------------------------
LEMMA SomeAt ==
    ASSUME NEW ip \in Ips
    PROVE  /\ CandidatesAt(ip) \in Nat /\ BackedAt(ip) \in Nat
           /\ CandidatesAt(ip)' \in Nat /\ BackedAt(ip)' \in Nat
  <1>1. /\ IsFiniteSet({c \in Conns : IpOf[c] = ip /\ Candidate(c)})
        /\ IsFiniteSet({c \in Conns : IpOf[c] = ip /\ Backed(c)})
        /\ IsFiniteSet({c \in Conns : IpOf[c] = ip /\ Candidate(c)'})
        /\ IsFiniteSet({c \in Conns : IpOf[c] = ip /\ Backed(c)'})
    BY FS_Subset
  <1> QED  BY <1>1, FS_CardinalityType DEF CandidatesAt, BackedAt

LEMMA FewerCandidates ==
    ASSUME \A c \in Conns : Candidate(c)' => Candidate(c), NEW ip \in Ips
    PROVE  CandidatesAt(ip)' <= CandidatesAt(ip)
  <1> DEFINE S == {c \in Conns : IpOf[c] = ip /\ Candidate(c)}
             T == {c \in Conns : IpOf[c] = ip /\ Candidate(c)'}
  <1>1. IsFiniteSet(S) /\ T \in SUBSET S
    BY FS_Subset
  <1>2. Cardinality(T) <= Cardinality(S)
    BY <1>1, FS_Subset
  <1> QED  BY <1>2 DEF CandidatesAt

LEMMA FewerBacked ==
    ASSUME \A c \in Conns : Backed(c)' => Backed(c), NEW ip \in Ips
    PROVE  BackedAt(ip)' <= BackedAt(ip)
  <1> DEFINE S == {c \in Conns : IpOf[c] = ip /\ Backed(c)}
             T == {c \in Conns : IpOf[c] = ip /\ Backed(c)'}
  <1>1. IsFiniteSet(S) /\ T \in SUBSET S
    BY FS_Subset
  <1>2. Cardinality(T) <= Cardinality(S)
    BY <1>1, FS_Subset
  <1> QED  BY <1>2 DEF BackedAt

(* One more at most, and that at the IP of the socket that joins.            *)
LEMMA OneMore ==
    ASSUME NEW S, IsFiniteSet(S), NEW x, NEW T \in SUBSET (S \union {x})
    PROVE  Cardinality(T) <= Cardinality(S) + 1
  <1>1. Cardinality(S) \in Nat
    BY FS_CardinalityType
  <1>2. /\ IsFiniteSet(S \union {x})
        /\ Cardinality(S \union {x})
             = IF x \in S THEN Cardinality(S) ELSE Cardinality(S) + 1
    BY FS_AddElement
  <1>3. Cardinality(T) <= Cardinality(S \union {x}) /\ IsFiniteSet(T)
    BY <1>2, FS_Subset
  <1>4. Cardinality(T) \in Nat
    BY <1>3, FS_CardinalityType
  <1> QED  BY <1>1, <1>2, <1>3, <1>4

LEMMA OneMoreBacked ==
    ASSUME NEW c \in Conns, \A d \in Conns : d # c => (Backed(d)' => Backed(d)), NEW ip \in Ips
    PROVE  /\ ip # IpOf[c] => BackedAt(ip)' <= BackedAt(ip)
           /\ BackedAt(ip)' <= BackedAt(ip) + 1
  <1> DEFINE S == {d \in Conns : IpOf[d] = ip /\ Backed(d)}
             T == {d \in Conns : IpOf[d] = ip /\ Backed(d)'}
  <1>1. IsFiniteSet(S)
    BY FS_Subset
  <1>2. T \in SUBSET (S \union {c}) /\ (ip # IpOf[c] => T \in SUBSET S)
    OBVIOUS
  <1>3. BackedAt(ip) = Cardinality(S) /\ BackedAt(ip)' = Cardinality(T)
    BY DEF BackedAt
  <1> HIDE DEF S, T
  <1>4. Cardinality(T) <= Cardinality(S) + 1
    BY <1>1, <1>2, OneMore
  <1>5. ip # IpOf[c] => Cardinality(T) <= Cardinality(S)
    BY <1>1, <1>2, FS_Subset
  <1> QED  BY <1>3, <1>4, <1>5

LEMMA OneMoreCandidates ==
    ASSUME NEW c \in Conns, \A d \in Conns : d # c => (Candidate(d)' => Candidate(d)), NEW ip \in Ips
    PROVE  /\ ip # IpOf[c] => CandidatesAt(ip)' <= CandidatesAt(ip)
           /\ CandidatesAt(ip)' <= CandidatesAt(ip) + 1
  <1> DEFINE S == {d \in Conns : IpOf[d] = ip /\ Candidate(d)}
             T == {d \in Conns : IpOf[d] = ip /\ Candidate(d)'}
  <1>1. IsFiniteSet(S)
    BY FS_Subset
  <1>2. T \in SUBSET (S \union {c}) /\ (ip # IpOf[c] => T \in SUBSET S)
    OBVIOUS
  <1>3. CandidatesAt(ip) = Cardinality(S) /\ CandidatesAt(ip)' = Cardinality(T)
    BY DEF CandidatesAt
  <1> HIDE DEF S, T
  <1>4. Cardinality(T) <= Cardinality(S) + 1
    BY <1>1, <1>2, OneMore
  <1>5. ip # IpOf[c] => Cardinality(T) <= Cardinality(S)
    BY <1>1, <1>2, FS_Subset
  <1> QED  BY <1>3, <1>4, <1>5

(* A client that leaves gives its place back.                                *)
LEMMA OneBackedLess ==
    ASSUME NEW c \in Conns, \A d \in Conns : Backed(d)' => Backed(d),
           Backed(c), ~Backed(c)'
    PROVE  BackedAt(IpOf[c])' + 1 <= BackedAt(IpOf[c])
  <1> DEFINE S == {d \in Conns : IpOf[d] = IpOf[c] /\ Backed(d)}
             T == {d \in Conns : IpOf[d] = IpOf[c] /\ Backed(d)'}
  <1>1. IsFiniteSet(S) /\ c \in S /\ T \in SUBSET (S \ {c})
    BY FS_Subset
  <1>2. IsFiniteSet(S \ {c}) /\ Cardinality(S \ {c}) = Cardinality(S) - 1
    BY <1>1, FS_RemoveElement
  <1>3. Cardinality(T) <= Cardinality(S \ {c})
    BY <1>1, <1>2, FS_Subset
  <1>4. Cardinality(S) \in Nat /\ Cardinality(T) \in Nat
    <2>1. IsFiniteSet(T)
      BY <1>1, <1>2, FS_Subset
    <2> QED  BY <1>1, <2>1, FS_CardinalityType
  <1>5. BackedAt(IpOf[c]) = Cardinality(S) /\ BackedAt(IpOf[c])' = Cardinality(T)
    BY DEF BackedAt
  <1> HIDE DEF S, T
  <1> QED  BY <1>2, <1>3, <1>4, <1>5
----------------------------------------------------------------------------
(* Calls of the in-memory store do not fail.                                 *)
LEMMA WrittenLocal ==
    ASSUME ~remote, NEW k, NEW by, Written(k, by)
    PROVE  /\ count' = [count EXCEPT ![k] = Plus(@, by)]
           /\ UNCHANGED <<fallback, miscounts>>
  BY DEF Written

LEMMA CountedLocal ==
    ASSUME ~remote, NEW kind, NEW c, NEW n, Counted(kind, c, n)
    PROVE  n = count[Key(kind, c)] /\ UNCHANGED <<count, fallback, decrements, miscounts>>
  BY DEF Counted

LEMMA OvertakenGrows ==
    ASSUME TypeOK, NEW c, NEW happens \in BOOLEAN, Overtaken(c, happens)
    PROVE  \A k \in Keys : miscounts[k] <= miscounts'[k]
  BY DEF Overtaken, TypeOK

LEMMA LocalStoreStep ==
    ASSUME TypeOK, ~remote, LocalStore, Next
    PROVE  /\ UNCHANGED <<remote, fallback, decrements>>
           /\ \A k \in Keys : miscounts[k] <= miscounts'[k]
  <1>0. miscounts \in [Keys -> Nat]
    BY DEF TypeOK
  <1>1. ASSUME UNCHANGED <<remote, fallback, decrements, miscounts>>
        PROVE  /\ UNCHANGED <<remote, fallback, decrements>>
               /\ \A k \in Keys : miscounts[k] <= miscounts'[k]
    BY <1>0, <1>1
  <1>2. ASSUME NEW c \in Conns, Admission(c), ~Register(c)
        PROVE  UNCHANGED <<remote, fallback, decrements, miscounts>>
    <2>1. ASSUME NEW kind, NEW n, Counted(kind, c, n)
          PROVE  UNCHANGED <<remote, fallback, decrements, miscounts>>
      BY <2>1 DEF Counted
    <2>2. CASE AdmissionIncrement(c)
      BY <2>2, WrittenLocal DEF AdmissionIncrement, Incremented
    <2>3. CASE AuthCountAnswered(c) \/ UnauthCountAnswered(c)
      BY <2>1, <2>3 DEF AuthCountAnswered, UnauthCountAnswered
    <2> QED  BY <1>2, <2>2, <2>3 DEF Admission, Connect, BanAnswered, store
  <1>3. ASSUME NEW c \in Conns, NEW i \in Messages,
               \/ UpgradeCountAnswered(c, i) \/ UpgradeDecrement(c, i)
               \/ UpgradeIncrement(c, i) \/ UpgradeMark(c, i)
        PROVE  UNCHANGED <<remote, fallback, decrements, miscounts>>
    <2>1. ASSUME NEW kind, NEW n, Counted(kind, c, n)
          PROVE  UNCHANGED <<remote, fallback, decrements, miscounts>>
      BY <2>1 DEF Counted
    <2>2. CASE UpgradeDecrement(c, i) \/ UpgradeIncrement(c, i)
      BY <2>2, WrittenLocal DEF UpgradeDecrement, UpgradeIncrement, Incremented, Decremented
    <2>3. CASE UpgradeCountAnswered(c, i)
      BY <2>1, <2>3 DEF UpgradeCountAnswered
    <2>4. CASE UpgradeMark(c, i)
      BY <2>4 DEF UpgradeMark, store
    <2> QED  BY <1>3, <2>2, <2>3, <2>4
  <1>4. ASSUME NEW c \in Conns, AuthMessage(c)
        PROVE  /\ UNCHANGED <<remote, fallback, decrements>>
               /\ \A k \in Keys : miscounts[k] <= miscounts'[k]
    <2>1. (Upgrading(c) /\ ~initially[c]) \in BOOLEAN
      OBVIOUS
    <2> QED  BY <1>4, <2>1, OvertakenGrows DEF AuthMessage
  <1>5. ASSUME NEW c \in Conns, Close(c)
        PROVE  /\ UNCHANGED <<remote, fallback, decrements>>
               /\ \A k \in Keys : miscounts[k] <= miscounts'[k]
    <2>1. Upgrading(c) \in BOOLEAN
      BY DEF Upgrading
    <2> QED  BY <1>5, <2>1, OvertakenGrows DEF Close, Released
  <1>6. ASSUME NEW c \in Conns, BeginClosing(c) \/ CloseUnregistered(c) \/ Forget(c)
        PROVE  UNCHANGED <<remote, fallback, decrements, miscounts>>
    BY <1>6 DEF BeginClosing, CloseUnregistered, Forget, store
  <1>8. ASSUME NEW c \in Conns, Register(c)
        PROVE  /\ UNCHANGED <<remote, fallback, decrements>>
               /\ \A k \in Keys : miscounts[k] <= miscounts'[k]
    BY <1>0, <1>8 DEF Register
  <1>7. ~Crash /\ \A k \in Keys : ~DecrementSettles(k) /\ ~CountExpires(k)
    <2>1. \A k \in Keys : DecrementSettles(k) => decrements[k] > 0
      BY DEF DecrementSettles
    <2>2. \A k \in Keys : decrements[k] = 0
      BY DEF LocalStore
    <2>3. \A k \in Keys : ~DecrementSettles(k)
      BY <2>1, <2>2
    <2>4. ~Crash /\ \A k \in Keys : ~CountExpires(k)
      BY DEF Crash, CountExpires
    <2> QED  BY <2>3, <2>4
  <1> QED  BY <1>1, <1>2, <1>3, <1>4, <1>5, <1>6, <1>7, <1>8 DEF Next, Upgrade

LEMMA UnauthAskedStep ==
    ASSUME TypeOK, Shape, UnauthAsked, Next PROVE UnauthAsked'
  <1>0. /\ step \in [Conns -> AdmissionSteps \union {"done"}]
        /\ initially \in [Conns -> BOOLEAN] /\ authenticated \in [Conns -> BOOLEAN]
    BY DEF TypeOK
  <1> USE DEF UnauthAsked
  <1>1. ASSUME NEW c \in Conns, AuthCountAnswered(c)
        PROVE  UnauthAsked'
    <2>1. /\ step[c] = "auth count" /\ UNCHANGED initially
          /\ \/ ~authenticated[c] /\ step' = [step EXCEPT ![c] = "unauth count"]
             \/ step' = [step EXCEPT ![c] = "done"]
             \/ step' = [step EXCEPT ![c] = "increment"]
      BY <1>1 DEF AuthCountAnswered, Reject, GoTo, flags
    <2>2. authenticated[c] = initially[c]
      BY <2>1 DEF Shape
    <2> QED  BY <1>0, <2>1, <2>2
  <1>2. ASSUME NEW c \in Conns,
               \/ Connect(c) \/ BanAnswered(c) \/ UnauthCountAnswered(c)
               \/ AdmissionIncrement(c) \/ Register(c)
        PROVE  UnauthAsked'
    <2>1. /\ \A d \in Conns : d # c => step'[d] = step[d] /\ initially'[d] = initially[d]
          /\ step'[c] # "unauth count"
      <3>1. \A d \in Conns : d # c => initially'[d] = initially[d]
        BY <1>0, <1>2, Zenon DEF Connect, BanAnswered, UnauthCountAnswered,
                                 AdmissionIncrement, Register, flags
      <3>2. /\ \A d \in Conns : d # c => step'[d] = step[d]
            /\ step'[c] # "unauth count"
        BY <1>0, <1>2 DEF Connect, BanAnswered, UnauthCountAnswered,
                          AdmissionIncrement, Register, Reject, GoTo
      <3> QED  BY <3>1, <3>2
    <2> QED  BY <2>1
  <1>3. ASSUME NEW c \in Conns, NEW i \in Messages,
               \/ UpgradeCountAnswered(c, i) \/ UpgradeDecrement(c, i)
               \/ UpgradeIncrement(c, i) \/ UpgradeMark(c, i)
        PROVE  UnauthAsked'
    <2>1. step[c] = "done"
      BY <1>3 DEF Shape, Upgrading, UpgradeCountAnswered, UpgradeDecrement,
                  UpgradeIncrement, UpgradeMark
    <2>2. UNCHANGED step
      BY <1>3 DEF UpgradeCountAnswered, UpgradeDecrement, UpgradeIncrement, UpgradeMark
    <2>3. \A d \in Conns : d # c => initially'[d] = initially[d]
      BY <1>0, <1>3, Zenon DEF UpgradeCountAnswered, UpgradeDecrement, UpgradeIncrement,
                               UpgradeMark, flags
    <2> QED  BY <2>1, <2>2, <2>3
  <1>4. ASSUME NEW c \in Conns, AuthMessage(c) \/ BeginClosing(c)
        PROVE  UnauthAsked'
    BY <1>4 DEF AuthMessage, BeginClosing, flags
  <1>5. ASSUME NEW c \in Conns, Close(c) \/ CloseUnregistered(c) \/ Forget(c)
        PROVE  UnauthAsked'
    <2>1. UNCHANGED step /\ Gone(c)
      BY <1>5 DEF Close, CloseUnregistered, Forget
    <2>2. \A d \in Conns : initially'[d] => initially[d]
      BY <1>0, <2>1, Zenon DEF Gone
    <2> QED  BY <2>1, <2>2
  <1>6. ASSUME NEW k \in Keys, DecrementSettles(k) \/ CountExpires(k)
        PROVE  UnauthAsked'
    BY <1>6 DEF DecrementSettles, CountExpires, flags
  <1>7. CASE Crash
    BY <1>7 DEF Crash, All
  <1> QED  BY <1>1, <1>2, <1>3, <1>4, <1>5, <1>6, <1>7 DEF Next, Admission, Upgrade

(* An admission that has found room in the auth budget is alone until it has *)
(* taken its place.                                                          *)
LEMMA AuthPromiseStep ==
    ASSUME TypeOK, TypeOK', Shape, Alone, UnauthAsked, ~remote, LocalStore, AuthPromise, Next
    PROVE  AuthPromise'
  <1>0. /\ step \in [Conns -> AdmissionSteps \union {"done"}]
        /\ initially \in [Conns -> BOOLEAN] /\ authenticated \in [Conns -> BOOLEAN]
        /\ {count, miscounts} \subseteq [Keys -> Nat]
        /\ {count', miscounts'} \subseteq [Keys -> Nat]
    BY DEF TypeOK
  <1> SUFFICES ASSUME NEW d \in Conns, step'[d] = "increment", Kind(d)' = "auth"
               PROVE  count'[AKey(IpOf[d])]
                        < MaxPerIp + miscounts'[AKey(IpOf[d])]
    BY DEF AuthPromise
  <1>k. AKey(IpOf[d]) \in Keys /\ Key("auth", d) = AKey(IpOf[d])
    BY KeysOf
  <1>1. CASE AuthCountAnswered(d)
    <2>1. PICK n \in Answers("auth", d) :
            /\ Counted("auth", d, n)
            /\ IF ~authenticated[d]
                 THEN GoTo(d, "unauth count") /\ UNCHANGED sock
                 ELSE IF Spent("auth", n)
                        THEN Reject(d)
                        ELSE GoTo(d, "increment") /\ UNCHANGED sock
      BY <1>1 DEF AuthCountAnswered
    <2>2. ~Spent("auth", n)
      BY <1>0, <2>1 DEF GoTo, Reject
    <2>3. n = count[AKey(IpOf[d])] /\ UNCHANGED <<count, miscounts>>
      BY <1>k, <2>1, CountedLocal
    <2>4. ~(n >= MaxPerIp)
      BY <2>2 DEF Spent, Budget
    <2> QED  BY <1>0, <1>k, <2>3, <2>4
  <1>2. CASE UnauthCountAnswered(d)
    <2>1. step[d] = "unauth count" /\ UNCHANGED initially
      BY <1>2 DEF UnauthCountAnswered, flags
    <2> QED  BY <2>1 DEF UnauthAsked, Kind
  <1>3. CASE step[d] = "increment" /\ UNCHANGED <<step, count, miscounts>>
               /\ initially'[d] = initially[d]
    BY <1>3 DEF AuthPromise, Kind
  <1>4. ASSUME NEW c \in Conns, Admission(c)
        PROVE  \/ AuthCountAnswered(d) \/ UnauthCountAnswered(d)
    <2>1. CASE c = d
      <3>1. CASE Connect(c)
        BY <1>0, <2>1, <3>1 DEF Connect, GoTo
      <3>2. CASE BanAnswered(c) \/ AdmissionIncrement(c) \/ Register(c)
        BY <1>0, <2>1, <3>2 DEF BanAnswered, AdmissionIncrement, Register, GoTo, Reject
      <3> QED  BY <1>4, <2>1, <3>1, <3>2 DEF Admission
    <2>2. CASE c # d
      <3>1. step'[d] = step[d]
        BY <1>0, <1>4, <2>2 DEF Admission, Connect, BanAnswered, AuthCountAnswered,
             UnauthCountAnswered, AdmissionIncrement, Register, GoTo, Reject
      <3>2. step[c] # "done" \/ Quiet
        BY <1>4 DEF Admission, Connect, BanAnswered, AuthCountAnswered,
             UnauthCountAnswered, AdmissionIncrement, Register, IOEvent
      <3>3. step[d] = "done"
        BY <2>2, <3>2 DEF Alone, Quiet
      <3> QED  BY <3>1, <3>3
    <2> QED  BY <2>1, <2>2
  <1>5. ASSUME NEW c \in Conns, Upgrade(c) \/ BeginClosing(c) \/ Close(c)
                                 \/ CloseUnregistered(c)
        PROVE  FALSE
    <2>1. UNCHANGED step
      BY <1>5 DEF Upgrade, AuthMessage, UpgradeCountAnswered, UpgradeDecrement,
             UpgradeIncrement, UpgradeMark, BeginClosing, Close, CloseUnregistered
    <2>2. Upgrading(c) \/ Quiet \/ SameChunk(c)
      BY <1>5 DEF Upgrade, AuthMessage, UpgradeCountAnswered, UpgradeDecrement,
             UpgradeIncrement, UpgradeMark, BeginClosing, Close, CloseUnregistered,
             IOEvent, Upgrading
    <2>3. step[d] = "done"
      BY <2>2 DEF Alone, Quiet, SameChunk
    <2> QED  BY <2>1, <2>3
  <1>6. ASSUME NEW c \in Conns, Forget(c)
        PROVE  /\ step[d] = "increment" /\ UNCHANGED <<step, count, miscounts>>
               /\ initially'[d] = initially[d]
    <2>1. /\ UNCHANGED <<step, count, miscounts>> /\ step[c] = "done"
          /\ initially' = [initially EXCEPT ![c] = @ /\ ~Idle(c)]
      BY <1>6 DEF Forget, Gone, Idle, store
    <2>2. c # d /\ step[d] = "increment"
      BY <2>1
    <2>3. initially'[d] = initially[d]
      BY <1>0, <2>1, <2>2, Zenon
    <2> QED  BY <2>1, <2>2, <2>3
  <1>7. ~Crash /\ \A k \in Keys : ~DecrementSettles(k) /\ ~CountExpires(k)
    <2>1. \A k \in Keys : DecrementSettles(k) => decrements[k] > 0
      BY DEF DecrementSettles
    <2>2. \A k \in Keys : decrements[k] = 0
      BY DEF LocalStore
    <2>3. \A k \in Keys : ~DecrementSettles(k)
      BY <2>1, <2>2
    <2>4. ~Crash /\ \A k \in Keys : ~CountExpires(k)
      BY DEF Crash, CountExpires
    <2> QED  BY <2>3, <2>4
  <1> QED  BY <1>1, <1>2, <1>3, <1>4, <1>5, <1>6, <1>7 DEF Next

(* A step that starts no admission or upgrade of more, and counts nothing.   *)
LEMMA Steady ==
    ASSUME TypeOK, TypeOK', Limits, UNCHANGED <<upgrade, count>>,
           \A k \in Keys : miscounts[k] <= miscounts'[k],
           \A c \in Conns : Candidate(c)' => Candidate(c),
           \A c \in Conns : Backed(c)' => Backed(c)
    PROVE  Limits'
  <1>1. ASSUME NEW ip \in Ips
        PROVE  LimitsAt(ip)'
    <2>1. LimitsAt(ip)
      BY DEF Limits
    <2>2. \A k \in {UKey(ip), AKey(ip)} :
            /\ count[k] \in Nat /\ miscounts[k] \in Nat /\ miscounts'[k] \in Nat
            /\ miscounts[k] <= miscounts'[k] /\ count'[k] = count[k]
      BY StoreTyped, KeysOf
    <2>3. /\ CandidatesAt(ip)' <= CandidatesAt(ip) /\ BackedAt(ip)' <= BackedAt(ip)
          /\ CandidatesAt(ip) \in Nat /\ BackedAt(ip) \in Nat
          /\ CandidatesAt(ip)' \in Nat /\ BackedAt(ip)' \in Nat
      BY FewerCandidates, FewerBacked, SomeAt
    <2>4. /\ OwedAt(ip, Passed)' = OwedAt(ip, Passed) /\ OwedAt(ip, Passed) \in Nat
          /\ OwedAt(ip, UpgradeSteps)' = OwedAt(ip, UpgradeSteps)
          /\ OwedAt(ip, UpgradeSteps) \in Nat
      BY OwedSame
    <2> QED  BY <2>1, <2>2, <2>3, <2>4 DEF LimitsAt, UKey, AKey
  <1> QED  BY <1>1 DEF Limits

(* A step about one socket concerns the limits of its IP only.               *)
LEMMA AtOneIp ==
    ASSUME TypeOK, TypeOK', Limits, NEW c \in Conns,
           \A k \in Keys : miscounts[k] <= miscounts'[k],
           \A d \in Conns : d # c => (Candidate(d)' => Candidate(d)),
           \A d \in Conns : d # c => (Backed(d)' => Backed(d)),
           \A ip \in Ips : ip # IpOf[c] =>
               /\ count'[AKey(ip)] = count[AKey(ip)]
               /\ OwedAt(ip, Passed) \in Nat /\ OwedAt(ip, UpgradeSteps) \in Nat
               /\ OwedAt(ip, Passed)' = OwedAt(ip, Passed)
               /\ OwedAt(ip, UpgradeSteps)' = OwedAt(ip, UpgradeSteps),
           LimitsAt(IpOf[c])'
    PROVE  Limits'
  <1>1. ASSUME NEW ip \in Ips, ip # IpOf[c]
        PROVE  LimitsAt(ip)'
    <2>1. LimitsAt(ip)
      BY DEF Limits
    <2>2. /\ \A k \in {UKey(ip), AKey(ip)} :
               /\ count[k] \in Nat /\ miscounts[k] \in Nat /\ miscounts'[k] \in Nat
               /\ miscounts[k] <= miscounts'[k]
          /\ count'[AKey(ip)] = count[AKey(ip)]
      BY <1>1, StoreTyped, KeysOf
    <2>3. /\ CandidatesAt(ip)' <= CandidatesAt(ip) /\ BackedAt(ip)' <= BackedAt(ip)
          /\ CandidatesAt(ip) \in Nat /\ BackedAt(ip) \in Nat
          /\ CandidatesAt(ip)' \in Nat /\ BackedAt(ip)' \in Nat
      BY <1>1, OneMoreCandidates, OneMoreBacked, SomeAt
    <2>4. /\ OwedAt(ip, Passed)' = OwedAt(ip, Passed) /\ OwedAt(ip, Passed) \in Nat
          /\ OwedAt(ip, UpgradeSteps)' = OwedAt(ip, UpgradeSteps)
          /\ OwedAt(ip, UpgradeSteps) \in Nat
      BY <1>1
    <2> QED  BY <2>1, <2>2, <2>3, <2>4 DEF LimitsAt, UKey, AKey
  <1>2. \A ip \in Ips : LimitsAt(ip)'
    BY <1>1
  <1> QED  BY <1>2 DEF Limits

LEMMA SameStanding ==
    ASSUME NEW c \in Conns, OnlyOf(c)
    PROVE  \A d \in Conns : d # c =>
             (Candidate(d)' <=> Candidate(d)) /\ (Backed(d)' <=> Backed(d))
  <1>1. ASSUME NEW d \in Conns, d # c
        PROVE  (Candidate(d)' <=> Candidate(d)) /\ (Backed(d)' <=> Backed(d))
    <2>1. /\ step'[d] = step[d] /\ (d \in clients' <=> d \in clients)
          /\ Kind(d)' = Kind(d) /\ (In(d, {"mark"})' <=> In(d, {"mark"}))
      BY <1>1 DEF OnlyOf, Kind, In
    <2> QED  BY <2>1 DEF Candidate, Backed
  <1> QED  BY <1>1

(* The steps that count nothing and start no upgrade.                        *)
LEMMA SteadyActions ==
    ASSUME TypeOK, TypeOK', Shape, Alone, ~remote, LocalStore, Limits, NEW c \in Conns,
           \/ Connect(c) \/ BanAnswered(c) \/ AuthCountAnswered(c) \/ Register(c)
           \/ BeginClosing(c) \/ CloseUnregistered(c) \/ Forget(c)
    PROVE  Limits'
  <1>0. /\ step \in [Conns -> AdmissionSteps \union {"done"}]
        /\ initially \in [Conns -> BOOLEAN] /\ miscounts \in [Keys -> Nat]
    BY DEF TypeOK
  <1>1. UNCHANGED <<upgrade, count, miscounts>>
    <2>1. CASE Register(c)
      <3>1. sock[c] # "closed"
        BY <2>1 DEF Register, Alone
      <3> QED  BY <2>1, <3>1 DEF Register
    <2>2. CASE ~Register(c)
      BY <2>2, Zenon DEF Connect, BanAnswered, AuthCountAnswered, Counted, BeginClosing,
         CloseUnregistered, Forget, store
    <2> QED  BY <2>1, <2>2
  <1>2. \A d \in Conns : d # c =>
          /\ step'[d] = step[d] /\ (d \in clients' <=> d \in clients)
          /\ initially'[d] = initially[d]
    <2>1. \A d \in Conns : d # c => step'[d] = step[d]
      BY <1>0 DEF Connect, BanAnswered, AuthCountAnswered, Register, BeginClosing,
         CloseUnregistered, Forget, GoTo, Reject
    <2>2. \A d \in Conns : d # c => (d \in clients' <=> d \in clients)
      BY DEF Connect, BanAnswered, AuthCountAnswered, Register, BeginClosing,
         CloseUnregistered, Forget
    <2>3. \A d \in Conns : d # c => initially'[d] = initially[d]
      BY <1>0, Zenon DEF Connect, BanAnswered, AuthCountAnswered, Register, BeginClosing,
         CloseUnregistered, Forget, Gone, flags
    <2> QED  BY <2>1, <2>2, <2>3
  <1>3. OnlyOf(c)
    BY <1>1, <1>2 DEF OnlyOf
  <1>4. (Candidate(c)' => Candidate(c)) /\ (Backed(c)' => Backed(c))
    <2>1. CASE Connect(c) \/ BeginClosing(c)
      <3>1. /\ UNCHANGED <<clients, initially>> /\ step'[c] \in {step[c], "ban"}
        BY <1>0, <2>1 DEF Connect, BeginClosing, GoTo, flags
      <3> QED  BY <1>1, <3>1 DEF Candidate, Backed, Kind, In
    <2>2. CASE BanAnswered(c)
      <3>1. c \notin clients' /\ step'[c] \in {"done", "auth count"}
        BY <1>0, <2>2 DEF Shape, BanAnswered, Reject, GoTo
      <3> QED  BY <3>1 DEF Candidate, Backed
    <2>3. CASE AuthCountAnswered(c)
      <3>1. /\ step[c] = "auth count" /\ UNCHANGED <<clients, initially>>
            /\ \/ step' = [step EXCEPT ![c] = "unauth count"]
               \/ step' = [step EXCEPT ![c] = "done"]
               \/ authenticated[c] /\ step' = [step EXCEPT ![c] = "increment"]
        BY <2>3 DEF AuthCountAnswered, Reject, GoTo, flags
      <3>2. /\ c \notin clients'
            /\ \/ step'[c] \in {"unauth count", "done"}
               \/ step'[c] = "increment" /\ initially'[c]
        BY <1>0, <3>1 DEF Shape
      <3> QED  BY <3>2 DEF Candidate, Backed, Kind
    <2>4. CASE Register(c)
      <3>1. /\ step[c] = "register" /\ step'[c] = "done" /\ ~Upgrading(c)
            /\ UNCHANGED <<initially, upgrade>>
        BY <1>0, <2>4 DEF Shape, Register, GoTo, flags
      <3>2. ~In(c, {"mark"})'
        BY <3>1 DEF In, Upgrading
      <3> QED  BY <3>1, <3>2 DEF Candidate, Backed, Kind
    <2>5. CASE CloseUnregistered(c) \/ Forget(c)
      <3>1. /\ UNCHANGED <<step, clients>> /\ c \notin clients
            /\ initially'[c] = (initially[c] /\ ~Idle(c))
        BY <1>0, <2>5, Zenon DEF CloseUnregistered, Forget, Gone
      <3>2. Idle(c) => step[c] = "done"
        BY DEF Idle
      <3> QED  BY <3>1, <3>2 DEF Candidate, Backed, Kind
    <2> QED  BY <2>1, <2>2, <2>3, <2>4, <2>5
  <1>5. \A d \in Conns : (Candidate(d)' => Candidate(d)) /\ (Backed(d)' => Backed(d))
    BY <1>3, <1>4, SameStanding
  <1>6. \A k \in Keys : miscounts[k] <= miscounts'[k]
    BY <1>0, <1>1
  <1> QED  BY <1>1, <1>5, <1>6, Steady

(* Whoever is counted as unauthenticated stands in that counter, while no    *)
(* upgrade is suspended: the count that an admission reads covers them all.  *)
LEMMA CandidatesCounted ==
    ASSUME TypeOK, Balanced, ~remote, NoGhost, LocalStore, NEW ip \in Ips,
           \A d \in Conns : ~Upgrading(d),
           \A d \in Conns : step[d] \notin {"increment", "register"}
    PROVE  CandidatesAt(ip) <= count[UKey(ip)] + miscounts[UKey(ip)]
  <1> DEFINE S == {d \in Conns : IpOf[d] = ip /\ Candidate(d)}
             T == {d \in Conns : UKey(ip) = Key(UKey(ip)[1], d) /\ CountedIn(d, UKey(ip)[1])}
  <1>1. ASSUME NEW d \in Conns, IpOf[d] = ip, Candidate(d)
        PROVE  d \in T
    <2>1. d \in clients /\ Kind(d) = "unauth" /\ sock[d] # "closed"
      BY <1>1 DEF Candidate, NoGhost
    <2>2. \A i \in Messages : upgrade[d][i] = "none"
      BY DEF Upgrading
    <2>3. CountedIn(d, "unauth")
      BY <2>1, <2>2 DEF CountedIn
    <2> QED  BY <1>1, <2>3 DEF UKey, Key
  <1>2. S \in SUBSET T /\ T \in SUBSET Conns
    BY <1>1
  <1>3. CandidatesAt(ip) = Cardinality(S) /\ Standing(UKey(ip)) = Cardinality(T)
    BY DEF CandidatesAt, Standing
  <1> HIDE DEF S, T
  <1>4. CandidatesAt(ip) <= Standing(UKey(ip))
    BY <1>2, <1>3, FS_Subset
  <1>5. /\ fallback[UKey(ip)] = 0 /\ decrements[UKey(ip)] = 0
        /\ count[UKey(ip)] \in Nat /\ miscounts[UKey(ip)] \in Nat
    BY KeysOf DEF LocalStore, TypeOK
  <1>6. SettledAt(ip) + OwedAt(ip, ToDecrement) + decrements[UKey(ip)]
             <= Total(UKey(ip)) + miscounts[UKey(ip)]
    BY DEF Balanced, UnauthBalanced, UKey
  <1>7. Total(UKey(ip)) = count[UKey(ip)]
    BY <1>5 DEF Total
  <1> QED  BY <1>4, <1>5, <1>6, <1>7, StandingOwed, CountTypes, SomeAt

(* The unauth count has room: the socket is the only one on its way.         *)
LEMMA UnauthCountLimits ==
    ASSUME TypeOK, TypeOK', Shape, Alone, NoGhost, Balanced, ~remote, LocalStore, Limits,
           NEW c \in Conns, UnauthCountAnswered(c)
    PROVE  Limits'
  <1>0. step \in [Conns -> AdmissionSteps \union {"done"}] /\ miscounts \in [Keys -> Nat]
    BY DEF TypeOK
  <1>1. /\ step[c] = "unauth count" /\ c \notin clients
        /\ UNCHANGED <<upgrade, count, miscounts, clients, initially>>
    BY DEF UnauthCountAnswered, Counted, flags, Shape
  <1>2. \A d \in Conns : d # c => step'[d] = step[d]
    BY <1>0 DEF UnauthCountAnswered, Reject, GoTo
  <1>3. OnlyOf(c)
    BY <1>1, <1>2 DEF OnlyOf
  <1>4. \A d \in Conns : d # c => (Candidate(d)' => Candidate(d)) /\ (Backed(d)' => Backed(d))
    BY <1>3, SameStanding
  <1>5. \A k \in Keys : miscounts[k] <= miscounts'[k]
    <2>1. \A k \in Keys : miscounts'[k] = miscounts[k] /\ miscounts[k] \in Nat
      BY <1>0, <1>1
    <2> QED  BY <2>1
  <1>6. CASE step'[c] = "done"
    <2>1. (Candidate(c)' => Candidate(c)) /\ (Backed(c)' => Backed(c))
      BY <1>1, <1>6 DEF Candidate, Backed
    <2>2. \A d \in Conns : (Candidate(d)' => Candidate(d)) /\ (Backed(d)' => Backed(d))
      BY <1>4, <2>1
    <2> QED  BY <1>1, <1>5, <2>2, Steady
  <1>7. CASE step'[c] # "done"
    <2>1. PICK n \in Answers("unauth", c) :
            /\ Counted("unauth", c, n)
            /\ IF Spent("unauth", n) THEN Reject(c) ELSE GoTo(c, "increment") /\ UNCHANGED sock
      BY DEF UnauthCountAnswered
    <2>2. ~Spent("unauth", n) /\ step'[c] = "increment"
      BY <1>0, <1>7, <2>1 DEF GoTo, Reject
    <2>3. n = count[UKey(IpOf[c])]
      BY <2>1, CountedLocal, KeysOf
    <2>4. ~(count[UKey(IpOf[c])] >= MaxUnauthPerIp)
      BY <2>2, <2>3 DEF Spent, Budget
    <2>5. /\ \A d \in Conns : ~Upgrading(d)
          /\ \A d \in Conns : step[d] \notin {"increment", "register"}
      BY <1>1 DEF Alone
    <2>6. IpOf[c] \in Ips
      OBVIOUS
    <2>7. CandidatesAt(IpOf[c]) <= count[UKey(IpOf[c])] + miscounts[UKey(IpOf[c])]
      BY <2>5, <2>6, CandidatesCounted
    <2>8. /\ CandidatesAt(IpOf[c])' <= CandidatesAt(IpOf[c]) + 1
          /\ CandidatesAt(IpOf[c]) \in Nat /\ CandidatesAt(IpOf[c])' \in Nat
          /\ BackedAt(IpOf[c]) \in Nat /\ BackedAt(IpOf[c])' \in Nat
      BY <1>4, <2>6, OneMoreCandidates, SomeAt
    <2>9. BackedAt(IpOf[c])' <= BackedAt(IpOf[c])
      <3>1. Backed(c)' => Backed(c)
        BY <1>1, <2>2 DEF Backed
      <3>2. \A d \in Conns : Backed(d)' => Backed(d)
        BY <1>4, <3>1
      <3> QED  BY <2>6, <3>2, FewerBacked
    <2>10. \A ip \in Ips, S \in {Passed, UpgradeSteps} :
              OwedAt(ip, S) \in Nat /\ OwedAt(ip, S)' = OwedAt(ip, S)
      BY <1>1, OwedSame
    <2>11. LimitsAt(IpOf[c])
      BY DEF Limits
    <2>12. \A k \in {UKey(IpOf[c]), AKey(IpOf[c])} :
             /\ count[k] \in Nat /\ miscounts[k] \in Nat
             /\ count'[k] = count[k] /\ miscounts'[k] = miscounts[k]
      BY <1>1, Numbers
    <2>13. LimitsAt(IpOf[c])'
      <3>1. CandidatesAt(IpOf[c])' <= MaxUnauthPerIp + miscounts'[UKey(IpOf[c])]
        BY <2>4, <2>7, <2>8, <2>12
      <3>2. /\ count'[AKey(IpOf[c])] + OwedAt(IpOf[c], Passed)'
                  <= MaxPerIp + miscounts'[AKey(IpOf[c])]
            /\ OwedAt(IpOf[c], UpgradeSteps)' <= 1 + miscounts'[AKey(IpOf[c])]
            /\ BackedAt(IpOf[c])' <= count'[AKey(IpOf[c])]
        BY <2>6, <2>8, <2>9, <2>10, <2>11, <2>12 DEF LimitsAt
      <3> QED  BY <3>1, <3>2 DEF LimitsAt, UKey, AKey
    <2> QED  BY <1>1, <1>4, <1>5, <2>10, <2>13, AtOneIp
  <1> QED  BY <1>6, <1>7

(* The count that an admission has checked is the one it increments.         *)
LEMMA AdmissionIncrementLimits ==
    ASSUME TypeOK, TypeOK', Shape, Alone, ~remote, AuthPromise, Limits,
           NEW c \in Conns, AdmissionIncrement(c)
    PROVE  Limits'
  <1>0. /\ step \in [Conns -> AdmissionSteps \union {"done"}]
        /\ miscounts \in [Keys -> Nat] /\ count \in [Keys -> Nat]
    BY DEF TypeOK
  <1>1. /\ step[c] = "increment" /\ c \notin clients
        /\ step' = [step EXCEPT ![c] = "register"]
        /\ UNCHANGED <<upgrade, clients, initially>>
        /\ Written(Key(Kind(c), c), 1)
    BY DEF AdmissionIncrement, Incremented, GoTo, flags, Shape
  <1>2. /\ count' = [count EXCEPT ![Key(Kind(c), c)] = Plus(@, 1)]
        /\ UNCHANGED miscounts
    BY <1>1, WrittenLocal
  <1>3. OnlyOf(c) /\ step'[c] = "register" /\ Kind(c)' = Kind(c)
    BY <1>0, <1>1 DEF OnlyOf, Kind
  <1>4. \A d \in Conns : d # c => (Candidate(d)' => Candidate(d)) /\ (Backed(d)' => Backed(d))
    BY <1>3, SameStanding
  <1>5. \A k \in Keys : miscounts[k] <= miscounts'[k]
    BY <1>0, <1>2
  <1>6. IpOf[c] \in Ips /\ AKey(IpOf[c]) \in Keys
    BY KeysOf
  <1>7. Candidate(c)' => Candidate(c)
    BY <1>1, <1>3 DEF Candidate
  <1>8. /\ CandidatesAt(IpOf[c])' <= CandidatesAt(IpOf[c])
        /\ CandidatesAt(IpOf[c]) \in Nat /\ CandidatesAt(IpOf[c])' \in Nat
        /\ BackedAt(IpOf[c]) \in Nat /\ BackedAt(IpOf[c])' \in Nat
    <2>1. \A d \in Conns : Candidate(d)' => Candidate(d)
      BY <1>4, <1>7
    <2> QED  BY <1>6, <2>1, FewerCandidates, SomeAt
  <1>9. \A ip \in Ips : ip # IpOf[c] => count'[AKey(ip)] = count[AKey(ip)]
    <2>1. \A ip \in Ips : ip # IpOf[c] => AKey(ip) # Key(Kind(c), c) /\ AKey(ip) \in Keys
      BY DEF AKey, Key, Keys, Kinds
    <2> QED  BY <1>0, <1>2, <2>1
  <1>10. \A ip \in Ips, S \in {Passed, UpgradeSteps} :
           OwedAt(ip, S) \in Nat /\ OwedAt(ip, S)' = OwedAt(ip, S)
    BY <1>1, OwedSame
  <1>11. LimitsAt(IpOf[c])
    BY DEF Limits
  <1>12. OwedAt(IpOf[c], Passed) = 0
    <2>1. \A d \in Conns, i \in Messages : upgrade[d][i] = "none"
      BY <1>1 DEF Alone, Upgrading
    <2>2. Owed(IpOf[c], Passed) = {}
      BY <2>1 DEF Owed, Passed
    <2> QED  BY <2>2, FS_EmptySet DEF OwedAt
  <1>13. \A k \in {UKey(IpOf[c]), AKey(IpOf[c])} :
           /\ count[k] \in Nat /\ miscounts[k] \in Nat
           /\ count'[k] \in Nat /\ miscounts'[k] = miscounts[k]
    BY <1>2, Numbers
  <1>14. LimitsAt(IpOf[c])'
    <2>1. CASE Kind(c) = "auth"
      <3>1. count'[AKey(IpOf[c])] = count[AKey(IpOf[c])] + 1
        <4>1. Key(Kind(c), c) = AKey(IpOf[c])
          BY <2>1, KeysOf
        <4>2. count'[AKey(IpOf[c])] = Plus(count[AKey(IpOf[c])], 1)
          BY <1>0, <1>2, <1>6, <4>1
        <4> QED  BY <1>13, <4>2 DEF Plus
      <3>2. count[AKey(IpOf[c])] < MaxPerIp + miscounts[AKey(IpOf[c])]
        BY <1>1, <2>1 DEF AuthPromise
      <3>3. BackedAt(IpOf[c])' <= BackedAt(IpOf[c]) + 1
        BY <1>4, <1>6, OneMoreBacked
      <3>4. /\ CandidatesAt(IpOf[c])' <= MaxUnauthPerIp + miscounts'[UKey(IpOf[c])]
            /\ OwedAt(IpOf[c], UpgradeSteps)' <= 1 + miscounts'[AKey(IpOf[c])]
        BY <1>6, <1>8, <1>10, <1>11, <1>13 DEF LimitsAt
      <3>5. count'[AKey(IpOf[c])] + OwedAt(IpOf[c], Passed)'
                  <= MaxPerIp + miscounts'[AKey(IpOf[c])]
        BY <1>6, <1>10, <1>12, <1>13, <3>1, <3>2
      <3>6. BackedAt(IpOf[c])' <= count'[AKey(IpOf[c])]
        BY <1>8, <1>11, <1>13, <3>1, <3>3 DEF LimitsAt
      <3> QED  BY <3>4, <3>5, <3>6 DEF LimitsAt, UKey, AKey
    <2>2. CASE Kind(c) # "auth"
      <3>1. count'[AKey(IpOf[c])] = count[AKey(IpOf[c])]
        <4>1. Key(Kind(c), c) # AKey(IpOf[c])
          BY <2>2 DEF Key, AKey
        <4> QED  BY <1>0, <1>2, <1>6, <4>1
      <3>2. Backed(c)' => Backed(c)
        BY <1>1, <1>3, <2>2 DEF Backed
      <3>3. \A d \in Conns : Backed(d)' => Backed(d)
        BY <1>4, <3>2
      <3>4. BackedAt(IpOf[c])' <= BackedAt(IpOf[c])
        BY <1>6, <3>3, FewerBacked
      <3> QED  BY <1>6, <1>8, <1>10, <1>11, <1>13, <3>1, <3>4 DEF LimitsAt, UKey, AKey
    <2> QED  BY <2>1, <2>2
  <1> QED  BY <1>4, <1>5, <1>9, <1>10, <1>14, AtOneIp
----------------------------------------------------------------------------
(* What the steps of an upgrade have in common: only the socket c moves.     *)
LEMMA UpgradeStep ==
    ASSUME TypeOK, TypeOK', Limits, NEW c \in Conns, NEW i \in Messages, NEW u,
           UpgradeTo(c, i, u), UNCHANGED <<step, clients>>,
           \A d \in Conns : d # c => initially'[d] = initially[d],
           \A k \in Keys : miscounts[k] <= miscounts'[k],
           \A ip \in Ips : ip # IpOf[c] => count'[AKey(ip)] = count[AKey(ip)],
           LimitsAt(IpOf[c])'
    PROVE  Limits'
  <1>1. OnlyOf(c)
    BY OthersKeep DEF OnlyOf
  <1>2. \A d \in Conns : d # c => (Candidate(d)' => Candidate(d)) /\ (Backed(d)' => Backed(d))
    BY <1>1, SameStanding
  <1>3. \A ip \in Ips, S \in {Passed, UpgradeSteps} :
          /\ OwedAt(ip, S) \in Nat
          /\ ip # IpOf[c] => OwedAt(ip, S)' = OwedAt(ip, S)
    BY OwedMoves
  <1> QED  BY <1>2, <1>3, AtOneIp

(* Nothing changes in the counts of sockets by the steps of an upgrade but   *)
(* the last two.                                                             *)
LEMMA UpgradeKeeps ==
    ASSUME TypeOK, NEW c \in Conns, NEW i \in Messages, NEW u, UpgradeTo(c, i, u),
           UNCHANGED <<step, clients, initially>>, upgrade[c][i] # "mark", u # "mark"
    PROVE  \A ip \in Ips :
             /\ CandidatesAt(ip)' <= CandidatesAt(ip) /\ BackedAt(ip)' <= BackedAt(ip)
             /\ CandidatesAt(ip) \in Nat /\ BackedAt(ip) \in Nat
             /\ CandidatesAt(ip)' \in Nat /\ BackedAt(ip)' \in Nat
  <1>1. \A d \in Conns, j \in Messages :
          upgrade'[d][j] = IF d = c /\ j = i THEN u ELSE upgrade[d][j]
    BY DEF TypeOK, UpgradeTo
  <1>2. \A d \in Conns : In(d, {"mark"})' <=> In(d, {"mark"})
    BY <1>1 DEF In
  <1>3. \A d \in Conns : (Candidate(d)' => Candidate(d)) /\ (Backed(d)' => Backed(d))
    BY <1>2 DEF Candidate, Backed, Kind
  <1> QED  BY <1>3, FewerCandidates, FewerBacked, SomeAt

LEMMA PassedOwed ==
    ASSUME NEW ip
    PROVE  OwedAt(ip, Passed)' <= OwedAt(ip, UpgradeSteps)'
  <1>1. IsFiniteSet(Owed(ip, UpgradeSteps)')
    BY MessagesFinite, FS_Subset DEF Owed
  <1>2. Owed(ip, Passed)' \in SUBSET Owed(ip, UpgradeSteps)'
    BY DEF Owed, Passed, UpgradeSteps
  <1> QED  BY <1>1, <1>2, FS_Subset DEF OwedAt

LEMMA LimitSets ==
    /\ "none" \notin Passed /\ "none" \notin UpgradeSteps
    /\ "auth count" \notin Passed /\ "auth count" \in UpgradeSteps
    /\ "decrement" \in Passed /\ "decrement" \in UpgradeSteps
    /\ "increment" \in Passed /\ "increment" \in UpgradeSteps
    /\ "mark" \notin Passed /\ "mark" \in UpgradeSteps
  BY DEF Passed, UpgradeSteps

(* A second upgrade at an IP can only be one of the same client, and is then *)
(* recorded as a possible miscount.                                          *)
LEMMA AuthMessageLimits ==
    ASSUME TypeOK, TypeOK', Shape, ~remote, Limits, NEW c \in Conns, AuthMessage(c)
    PROVE  Limits'
  <1>1. /\ UNCHANGED <<step, clients, initially, count>>
        /\ Overtaken(c, Upgrading(c) /\ ~initially[c])
        /\ IOEvent \/ SameChunk(c)
    BY DEF AuthMessage
  <1>2. \A k \in Keys : miscounts[k] <= miscounts'[k]
    <2>1. (Upgrading(c) /\ ~initially[c]) \in BOOLEAN
      OBVIOUS
    <2> QED  BY <1>1, <2>1, OvertakenGrows
  <1>3. CASE initially[c]
    <2>1. UNCHANGED upgrade
      BY <1>3 DEF AuthMessage
    <2>2. \A d \in Conns : (Candidate(d)' => Candidate(d)) /\ (Backed(d)' => Backed(d))
      BY <1>1, <2>1 DEF Candidate, Backed, Kind, In
    <2> QED  BY <1>1, <1>2, <2>1, <2>2, Steady
  <1>4. CASE ~initially[c]
    <2>1. PICK i \in Messages : upgrade[c][i] = "none" /\ UpgradeTo(c, i, "auth count")
      BY <1>4 DEF AuthMessage, UpgradeTo
    <2>2. IpOf[c] \in Ips
      OBVIOUS
    <2>3. /\ OwedAt(IpOf[c], UpgradeSteps) \in Nat /\ OwedAt(IpOf[c], Passed) \in Nat
          /\ OwedAt(IpOf[c], UpgradeSteps)' = OwedAt(IpOf[c], UpgradeSteps) + 1
          /\ OwedAt(IpOf[c], Passed)' = OwedAt(IpOf[c], Passed)
      <3>1. /\ upgrade[c][i] \notin UpgradeSteps /\ "auth count" \in UpgradeSteps
            /\ upgrade[c][i] \notin Passed /\ "auth count" \notin Passed
        BY <2>1, LimitSets
      <3> QED  BY <2>1, <3>1, OwedOneMore, OwedStillOut
    <2>4. /\ CandidatesAt(IpOf[c])' <= CandidatesAt(IpOf[c])
          /\ BackedAt(IpOf[c])' <= BackedAt(IpOf[c])
          /\ CandidatesAt(IpOf[c]) \in Nat /\ BackedAt(IpOf[c]) \in Nat
          /\ CandidatesAt(IpOf[c])' \in Nat /\ BackedAt(IpOf[c])' \in Nat
      BY <1>1, <2>1, <2>2, UpgradeKeeps
    <2>5. /\ \A k \in {UKey(IpOf[c]), AKey(IpOf[c])} :
               /\ count[k] \in Nat /\ miscounts[k] \in Nat /\ miscounts'[k] \in Nat
               /\ count'[k] = count[k] /\ miscounts[k] <= miscounts'[k]
          /\ \A ip \in Ips : count'[AKey(ip)] = count[AKey(ip)]
      BY <1>1, <1>2, Numbers, KeysOf
    <2>6. OwedAt(IpOf[c], UpgradeSteps) + 1 <= 1 + miscounts'[AKey(IpOf[c])]
      <3>1. CASE Upgrading(c)
        <4>1. miscounts'[AKey(IpOf[c])] = miscounts[AKey(IpOf[c])] + 1
          <5>1. (Upgrading(c) /\ ~initially[c]) = TRUE
            BY <1>4, <3>1 DEF Upgrading
          <5>2. Overtaken(c, TRUE)
            BY <1>1, <5>1
          <5> QED  BY <2>2, <5>2, OvertakenEffect
        <4>2. LimitsAt(IpOf[c])
          BY DEF Limits
        <4> QED  BY <2>2, <2>3, <2>5, <4>1, <4>2 DEF LimitsAt
      <3>2. CASE ~Upgrading(c)
        <4>1. \A d \in Conns : ~Upgrading(d)
          BY <1>1, <3>2 DEF IOEvent, Quiet, SameChunk
        <4>2. Owed(IpOf[c], UpgradeSteps) = {}
          BY <4>1 DEF Owed, Upgrading, UpgradeSteps
        <4>3. OwedAt(IpOf[c], UpgradeSteps) = 0
          BY <4>2, FS_EmptySet DEF OwedAt
        <4> QED  BY <2>5, <4>3
      <3> QED  BY <3>1, <3>2
    <2>7. LimitsAt(IpOf[c])
      BY DEF Limits
    <2>8. LimitsAt(IpOf[c])'
      BY <2>2, <2>3, <2>4, <2>5, <2>6, <2>7 DEF LimitsAt, UKey, AKey
    <2> QED  BY <1>1, <1>2, <2>1, <2>5, <2>8, UpgradeStep
  <1> QED  BY <1>3, <1>4

(* The check of the auth count reserves nothing: it is the only upgrade of   *)
(* its IP, but for recorded ones, that makes its answer still true when the  *)
(* counter is incremented.                                                   *)
LEMMA UpgradeCountLimits ==
    ASSUME TypeOK, TypeOK', ~remote, Limits, NEW c \in Conns, NEW i \in Messages,
           UpgradeCountAnswered(c, i)
    PROVE  Limits'
  <1>1. /\ upgrade[c][i] = "auth count"
        /\ UNCHANGED <<step, clients, initially, count, miscounts>>
    BY DEF UpgradeCountAnswered, Counted, flags
  <1>2. \/ UpgradeTo(c, i, "none")
        \/ UpgradeTo(c, i, "decrement") /\ count[AKey(IpOf[c])] < MaxPerIp
    <2>1. PICK n \in Answers("auth", c) :
            /\ Counted("auth", c, n)
            /\ IF Spent("auth", n) THEN UpgradeTo(c, i, "none")
                                   ELSE UpgradeTo(c, i, "decrement")
      BY DEF UpgradeCountAnswered, UpgradeTo
    <2>2. n = count[AKey(IpOf[c])]
      BY <2>1, CountedLocal, KeysOf
    <2>3. ~Spent("auth", n) => ~(count[AKey(IpOf[c])] >= MaxPerIp)
      BY <2>2 DEF Spent, Budget
    <2> QED  BY <2>1, <2>3, Numbers
  <1>3. IpOf[c] \in Ips
    OBVIOUS
  <1>4. /\ CandidatesAt(IpOf[c])' <= CandidatesAt(IpOf[c])
        /\ BackedAt(IpOf[c])' <= BackedAt(IpOf[c])
        /\ CandidatesAt(IpOf[c]) \in Nat /\ BackedAt(IpOf[c]) \in Nat
        /\ CandidatesAt(IpOf[c])' \in Nat /\ BackedAt(IpOf[c])' \in Nat
    BY <1>1, <1>2, <1>3, UpgradeKeeps
  <1>5. /\ \A k \in {UKey(IpOf[c]), AKey(IpOf[c])} :
             /\ count[k] \in Nat /\ miscounts[k] \in Nat
             /\ count'[k] = count[k] /\ miscounts'[k] = miscounts[k]
        /\ \A ip \in Ips : count'[AKey(ip)] = count[AKey(ip)]
    BY <1>1, Numbers
  <1>6. \A k \in Keys : miscounts[k] <= miscounts'[k]
    <2>1. \A k \in Keys : miscounts'[k] = miscounts[k] /\ miscounts[k] \in Nat
      BY <1>1 DEF TypeOK
    <2> QED  BY <2>1
  <1>7. LimitsAt(IpOf[c])
    BY DEF Limits
  <1>8. CASE UpgradeTo(c, i, "none")
    <2>1. /\ OwedAt(IpOf[c], UpgradeSteps) \in Nat /\ OwedAt(IpOf[c], Passed) \in Nat
          /\ OwedAt(IpOf[c], UpgradeSteps)' = OwedAt(IpOf[c], UpgradeSteps) - 1
          /\ OwedAt(IpOf[c], Passed)' = OwedAt(IpOf[c], Passed)
      <3>1. /\ upgrade[c][i] \in UpgradeSteps /\ "none" \notin UpgradeSteps
            /\ upgrade[c][i] \notin Passed /\ "none" \notin Passed
        BY <1>1, LimitSets
      <3> QED  BY <1>8, <3>1, OwedOneLess, OwedStillOut
    <2>2. LimitsAt(IpOf[c])'
      BY <1>3, <1>4, <1>5, <1>7, <2>1 DEF LimitsAt, UKey, AKey
    <2> QED  BY <1>1, <1>5, <1>6, <1>8, <2>2, UpgradeStep
  <1>9. CASE UpgradeTo(c, i, "decrement") /\ count[AKey(IpOf[c])] < MaxPerIp
    <2>1. /\ OwedAt(IpOf[c], UpgradeSteps) \in Nat /\ OwedAt(IpOf[c], Passed) \in Nat
          /\ OwedAt(IpOf[c], UpgradeSteps)' = OwedAt(IpOf[c], UpgradeSteps)
          /\ OwedAt(IpOf[c], Passed)' = OwedAt(IpOf[c], Passed) + 1
      <3>1. /\ upgrade[c][i] \in UpgradeSteps /\ "decrement" \in UpgradeSteps
            /\ upgrade[c][i] \notin Passed /\ "decrement" \in Passed
        BY <1>1, LimitSets
      <3> QED  BY <1>9, <3>1, OwedStillIn, OwedOneMore
    <2>2. OwedAt(IpOf[c], Passed)' <= OwedAt(IpOf[c], UpgradeSteps)'
      BY PassedOwed
    <2>3. LimitsAt(IpOf[c])'
      BY <1>3, <1>4, <1>5, <1>7, <1>9, <2>1, <2>2 DEF LimitsAt, UKey, AKey
    <2> QED  BY <1>1, <1>5, <1>6, <1>9, <2>3, UpgradeStep
  <1> QED  BY <1>2, <1>8, <1>9

LEMMA WrittenAuth ==
    ASSUME TypeOK, ~remote, NEW c \in Conns, NEW kind \in Kinds, NEW by, Written(Key(kind, c), by)
    PROVE  /\ UNCHANGED miscounts
           /\ \A ip \in Ips : ip # IpOf[c] => count'[AKey(ip)] = count[AKey(ip)]
           /\ kind = "unauth" => count'[AKey(IpOf[c])] = count[AKey(IpOf[c])]
           /\ kind = "auth" => count'[AKey(IpOf[c])] = Plus(count[AKey(IpOf[c])], by)
           /\ \A k \in Keys : miscounts[k] <= miscounts'[k]
  <1>1. /\ count' = [count EXCEPT ![Key(kind, c)] = Plus(@, by)]
        /\ UNCHANGED miscounts
    BY WrittenLocal
  <1>2. \A ip \in Ips :
          /\ AKey(ip) \in Keys
          /\ AKey(ip) = Key(kind, c) <=> ip = IpOf[c] /\ kind = "auth"
    BY DEF AKey, Key, Keys, Kinds
  <1>3. count \in [Keys -> Nat] /\ miscounts \in [Keys -> Nat] /\ IpOf[c] \in Ips
    BY DEF TypeOK
  <1>4. \A ip \in Ips : ip # IpOf[c] \/ kind = "unauth" => count'[AKey(ip)] = count[AKey(ip)]
    BY <1>1, <1>2, <1>3
  <1>5. kind = "auth" => count'[AKey(IpOf[c])] = Plus(count[AKey(IpOf[c])], by)
    BY <1>1, <1>2, <1>3
  <1>6. \A k \in Keys : miscounts[k] <= miscounts'[k]
    <2>1. \A k \in Keys : miscounts'[k] = miscounts[k] /\ miscounts[k] \in Nat
      BY <1>1, <1>3
    <2> QED  BY <2>1
  <1> QED  BY <1>1, <1>3, <1>4, <1>5, <1>6

LEMMA UpgradeDecrementLimits ==
    ASSUME TypeOK, TypeOK', ~remote, Limits, NEW c \in Conns, NEW i \in Messages,
           UpgradeDecrement(c, i)
    PROVE  Limits'
  <1>1. /\ upgrade[c][i] = "decrement" /\ UpgradeTo(c, i, "increment")
        /\ UNCHANGED <<step, clients, initially>>
        /\ Written(Key("unauth", c), -1)
    BY DEF UpgradeDecrement, Decremented, flags, UpgradeTo
  <1>2. /\ UNCHANGED miscounts
        /\ \A ip \in Ips : count'[AKey(ip)] = count[AKey(ip)]
        /\ \A k \in Keys : miscounts[k] <= miscounts'[k]
    <2>1. "unauth" \in Kinds
      BY DEF Kinds
    <2> QED  BY <1>1, <2>1, WrittenAuth
  <1>3. IpOf[c] \in Ips
    OBVIOUS
  <1>4. /\ CandidatesAt(IpOf[c])' <= CandidatesAt(IpOf[c])
        /\ BackedAt(IpOf[c])' <= BackedAt(IpOf[c])
        /\ CandidatesAt(IpOf[c]) \in Nat /\ BackedAt(IpOf[c]) \in Nat
        /\ CandidatesAt(IpOf[c])' \in Nat /\ BackedAt(IpOf[c])' \in Nat
    BY <1>1, <1>3, UpgradeKeeps
  <1>5. /\ count[AKey(IpOf[c])] \in Nat /\ count'[AKey(IpOf[c])] = count[AKey(IpOf[c])]
        /\ \A k \in {UKey(IpOf[c]), AKey(IpOf[c])} :
             miscounts[k] \in Nat /\ miscounts'[k] = miscounts[k]
    BY <1>2, <1>3, Numbers
  <1>6. /\ OwedAt(IpOf[c], UpgradeSteps) \in Nat /\ OwedAt(IpOf[c], Passed) \in Nat
        /\ OwedAt(IpOf[c], UpgradeSteps)' = OwedAt(IpOf[c], UpgradeSteps)
        /\ OwedAt(IpOf[c], Passed)' = OwedAt(IpOf[c], Passed)
    <2>1. /\ upgrade[c][i] \in UpgradeSteps /\ "increment" \in UpgradeSteps
          /\ upgrade[c][i] \in Passed /\ "increment" \in Passed
      BY <1>1, LimitSets
    <2> QED  BY <1>1, <2>1, OwedStillIn
  <1>7. LimitsAt(IpOf[c])
    BY DEF Limits
  <1>8. LimitsAt(IpOf[c])'
    BY <1>3, <1>4, <1>5, <1>6, <1>7 DEF LimitsAt, UKey, AKey
  <1> QED  BY <1>1, <1>2, <1>8, UpgradeStep

(* The place that the check left is taken.                                   *)
LEMMA UpgradeIncrementLimits ==
    ASSUME TypeOK, TypeOK', ~remote, Limits, NEW c \in Conns, NEW i \in Messages,
           UpgradeIncrement(c, i)
    PROVE  Limits'
  <1>1. /\ upgrade[c][i] = "increment" /\ UpgradeTo(c, i, "mark")
        /\ UNCHANGED <<step, clients, initially>>
        /\ Written(Key("auth", c), 1)
    BY DEF UpgradeIncrement, Incremented, flags, UpgradeTo
  <1>2. /\ UNCHANGED miscounts
        /\ \A ip \in Ips : ip # IpOf[c] => count'[AKey(ip)] = count[AKey(ip)]
        /\ \A k \in Keys : miscounts[k] <= miscounts'[k]
        /\ count'[AKey(IpOf[c])] = Plus(count[AKey(IpOf[c])], 1)
    <2>1. "auth" \in Kinds
      BY DEF Kinds
    <2> QED  BY <1>1, <2>1, WrittenAuth
  <1>3. IpOf[c] \in Ips
    OBVIOUS
  <1>4. /\ CandidatesAt(IpOf[c])' <= CandidatesAt(IpOf[c])
        /\ BackedAt(IpOf[c])' <= BackedAt(IpOf[c]) + 1
        /\ CandidatesAt(IpOf[c]) \in Nat /\ BackedAt(IpOf[c]) \in Nat
        /\ CandidatesAt(IpOf[c])' \in Nat /\ BackedAt(IpOf[c])' \in Nat
    <2>1. OnlyOf(c)
      BY <1>1, OthersKeep DEF OnlyOf
    <2>2. \A d \in Conns : d # c => (Candidate(d)' => Candidate(d)) /\ (Backed(d)' => Backed(d))
      BY <2>1, SameStanding
    <2>3. Candidate(c)' => Candidate(c)
      BY <1>1 DEF Candidate, Kind
    <2>4. \A d \in Conns : Candidate(d)' => Candidate(d)
      BY <2>2, <2>3
    <2> QED  BY <1>3, <2>2, <2>4, FewerCandidates, OneMoreBacked, SomeAt
  <1>5. /\ count[AKey(IpOf[c])] \in Nat
        /\ count'[AKey(IpOf[c])] = count[AKey(IpOf[c])] + 1
        /\ \A k \in {UKey(IpOf[c]), AKey(IpOf[c])} :
             miscounts[k] \in Nat /\ miscounts'[k] = miscounts[k]
    <2>1. /\ count[AKey(IpOf[c])] \in Nat
          /\ \A k \in {UKey(IpOf[c]), AKey(IpOf[c])} :
               miscounts[k] \in Nat /\ miscounts'[k] = miscounts[k]
      BY <1>2, Numbers
    <2> QED  BY <1>2, <2>1 DEF Plus
  <1>6. /\ OwedAt(IpOf[c], UpgradeSteps) \in Nat /\ OwedAt(IpOf[c], Passed) \in Nat
        /\ OwedAt(IpOf[c], UpgradeSteps)' = OwedAt(IpOf[c], UpgradeSteps)
        /\ OwedAt(IpOf[c], Passed)' = OwedAt(IpOf[c], Passed) - 1
    <2>1. /\ upgrade[c][i] \in UpgradeSteps /\ "mark" \in UpgradeSteps
          /\ upgrade[c][i] \in Passed /\ "mark" \notin Passed
      BY <1>1, LimitSets
    <2> QED  BY <1>1, <2>1, OwedStillIn, OwedOneLess
  <1>7. LimitsAt(IpOf[c])
    BY DEF Limits
  <1>8. LimitsAt(IpOf[c])'
    BY <1>3, <1>4, <1>5, <1>6, <1>7 DEF LimitsAt, UKey, AKey
  <1> QED  BY <1>1, <1>2, <1>8, UpgradeStep

LEMMA UpgradeMarkLimits ==
    ASSUME TypeOK, TypeOK', Shape, Limits, NEW c \in Conns, NEW i \in Messages,
           UpgradeMark(c, i)
    PROVE  Limits'
  <1>1. /\ upgrade[c][i] = "mark" /\ UpgradeTo(c, i, "none")
        /\ UNCHANGED <<step, clients, count, miscounts>>
    BY DEF UpgradeMark, store, UpgradeTo
  <1>2. /\ initially'[c]
        /\ \A d \in Conns : d # c => initially'[d] = initially[d]
    BY Zenon DEF UpgradeMark, TypeOK
  <1>3. IpOf[c] \in Ips
    OBVIOUS
  <1>4. /\ CandidatesAt(IpOf[c])' <= CandidatesAt(IpOf[c])
        /\ BackedAt(IpOf[c])' <= BackedAt(IpOf[c])
        /\ CandidatesAt(IpOf[c]) \in Nat /\ BackedAt(IpOf[c]) \in Nat
        /\ CandidatesAt(IpOf[c])' \in Nat /\ BackedAt(IpOf[c])' \in Nat
    <2>1. OnlyOf(c)
      BY <1>1, <1>2, OthersKeep DEF OnlyOf
    <2>2. \A d \in Conns : d # c => (Candidate(d)' => Candidate(d)) /\ (Backed(d)' => Backed(d))
      BY <2>1, SameStanding
    <2>3. In(c, {"mark"})
      BY <1>1 DEF In
    <2>4. (Candidate(c)' => Candidate(c)) /\ (Backed(c)' => Backed(c))
      <3>1. ~Candidate(c)'
        BY <1>2 DEF Candidate, Kind
      <3>2. step[c] = "done"
        BY <1>1 DEF Shape, Upgrading
      <3>3. (Backed(c)' => c \in clients) /\ (c \in clients => Backed(c))
        BY <1>1, <2>3, <3>2 DEF Backed
      <3> QED  BY <3>1, <3>3
    <2>5. \A d \in Conns : (Candidate(d)' => Candidate(d)) /\ (Backed(d)' => Backed(d))
      BY <2>2, <2>4
    <2> QED  BY <1>3, <2>5, FewerCandidates, FewerBacked, SomeAt
  <1>5. /\ \A k \in {UKey(IpOf[c]), AKey(IpOf[c])} :
             /\ count[k] \in Nat /\ miscounts[k] \in Nat
             /\ count'[k] = count[k] /\ miscounts'[k] = miscounts[k]
        /\ \A ip \in Ips : count'[AKey(ip)] = count[AKey(ip)]
    BY <1>1, Numbers
  <1>6. \A k \in Keys : miscounts[k] <= miscounts'[k]
    <2>1. \A k \in Keys : miscounts'[k] = miscounts[k] /\ miscounts[k] \in Nat
      BY <1>1 DEF TypeOK
    <2> QED  BY <2>1
  <1>7. /\ OwedAt(IpOf[c], UpgradeSteps) \in Nat /\ OwedAt(IpOf[c], Passed) \in Nat
        /\ OwedAt(IpOf[c], UpgradeSteps)' = OwedAt(IpOf[c], UpgradeSteps) - 1
        /\ OwedAt(IpOf[c], Passed)' = OwedAt(IpOf[c], Passed)
    <2>1. /\ upgrade[c][i] \in UpgradeSteps /\ "none" \notin UpgradeSteps
          /\ upgrade[c][i] \notin Passed /\ "none" \notin Passed
      BY <1>1, LimitSets
    <2> QED  BY <1>1, <2>1, OwedOneLess, OwedStillOut
  <1>8. LimitsAt(IpOf[c])
    BY DEF Limits
  <1>9. LimitsAt(IpOf[c])'
    BY <1>3, <1>4, <1>5, <1>7, <1>8 DEF LimitsAt, UKey, AKey
  <1> QED  BY <1>1, <1>2, <1>5, <1>6, <1>9, UpgradeStep

(* A close finds no handler suspended; it gives back the place of a client   *)
(* that has one, so that the counter it decrements is not zero.              *)
LEMMA CloseLimits ==
    ASSUME TypeOK, TypeOK', Shape, ~remote, Limits, NEW c \in Conns, Close(c)
    PROVE  Limits'
  <1>1. /\ c \in clients /\ step[c] = "done" /\ Quiet
        /\ clients' = clients \ {c}
        /\ UNCHANGED <<step, upgrade>>
        /\ initially' = [initially EXCEPT ![c] = @ /\ ~Idle(c)]
        /\ count' = [count EXCEPT ![Key(Kind(c), c)] = Plus(@, -1)]
        /\ Overtaken(c, Upgrading(c))
    BY DEF Close, Gone, Shape, Released, IOEvent
  <1>2. \A d \in Conns : d # c => initially'[d] = initially[d]
    BY <1>1, Zenon DEF TypeOK
  <1>3. OnlyOf(c)
    BY <1>1, <1>2 DEF OnlyOf
  <1>4. \A k \in Keys : miscounts[k] <= miscounts'[k]
    <2>1. Upgrading(c) \in BOOLEAN
      BY DEF Upgrading
    <2> QED  BY <1>1, <2>1, OvertakenGrows
  <1>5. ~Candidate(c)' /\ ~Backed(c)'
    BY <1>1 DEF Candidate, Backed
  <1>6. \A d \in Conns : (Candidate(d)' => Candidate(d)) /\ (Backed(d)' => Backed(d))
    BY <1>3, <1>5, SameStanding
  <1>7. IpOf[c] \in Ips /\ count \in [Keys -> Nat] /\ count' \in [Keys -> Nat]
    BY DEF TypeOK
  <1>8. \A ip \in Ips :
          /\ AKey(ip) \in Keys
          /\ AKey(ip) = Key(Kind(c), c) <=> ip = IpOf[c] /\ Kind(c) = "auth"
    BY DEF AKey, Key, Keys, Kinds
  <1>9. \A ip \in Ips : ip # IpOf[c] => count'[AKey(ip)] = count[AKey(ip)]
    BY <1>1, <1>7, <1>8
  <1>10. \A ip \in Ips, S \in {Passed, UpgradeSteps} :
           OwedAt(ip, S) \in Nat /\ OwedAt(ip, S)' = OwedAt(ip, S)
    BY <1>1, OwedSame
  <1>11. LimitsAt(IpOf[c])
    BY DEF Limits
  <1>12. /\ CandidatesAt(IpOf[c])' <= CandidatesAt(IpOf[c])
         /\ BackedAt(IpOf[c])' <= BackedAt(IpOf[c])
         /\ CandidatesAt(IpOf[c]) \in Nat /\ BackedAt(IpOf[c]) \in Nat
         /\ CandidatesAt(IpOf[c])' \in Nat /\ BackedAt(IpOf[c])' \in Nat
    BY <1>6, <1>7, FewerCandidates, FewerBacked, SomeAt
  <1>13. /\ count[AKey(IpOf[c])] \in Nat /\ count'[AKey(IpOf[c])] \in Nat
         /\ \A k \in {UKey(IpOf[c]), AKey(IpOf[c])} :
              miscounts[k] \in Nat /\ miscounts'[k] \in Nat /\ miscounts[k] <= miscounts'[k]
    BY <1>4, <1>7, Numbers, KeysOf
  <1>14. /\ CandidatesAt(IpOf[c])' <= MaxUnauthPerIp + miscounts'[UKey(IpOf[c])]
         /\ OwedAt(IpOf[c], UpgradeSteps)' <= 1 + miscounts'[AKey(IpOf[c])]
    BY <1>7, <1>10, <1>11, <1>12, <1>13 DEF LimitsAt
  <1>15. /\ count'[AKey(IpOf[c])] <= count[AKey(IpOf[c])]
         /\ BackedAt(IpOf[c])' <= count'[AKey(IpOf[c])]
    <2>1. CASE Kind(c) = "auth"
      <3>1. Backed(c)
        BY <1>1, <2>1 DEF Backed
      <3>2. BackedAt(IpOf[c])' + 1 <= BackedAt(IpOf[c])
        BY <1>5, <1>6, <3>1, OneBackedLess
      <3>3. BackedAt(IpOf[c]) <= count[AKey(IpOf[c])]
        BY <1>11 DEF LimitsAt
      <3>4. count'[AKey(IpOf[c])] = Plus(count[AKey(IpOf[c])], -1)
        <4>1. Key(Kind(c), c) = AKey(IpOf[c]) /\ AKey(IpOf[c]) \in Keys
          BY <1>7, <1>8, <2>1
        <4> QED  BY <1>1, <1>7, <4>1
      <3>5. count'[AKey(IpOf[c])] = count[AKey(IpOf[c])] - 1
        BY <1>12, <1>13, <3>2, <3>3, <3>4 DEF Plus
      <3> QED  BY <1>12, <1>13, <3>2, <3>3, <3>5
    <2>2. CASE Kind(c) # "auth"
      <3>1. count'[AKey(IpOf[c])] = count[AKey(IpOf[c])]
        <4>1. Key(Kind(c), c) # AKey(IpOf[c]) /\ AKey(IpOf[c]) \in Keys
          BY <1>7, <1>8, <2>2
        <4> QED  BY <1>1, <1>7, <4>1
      <3> QED  BY <1>11, <1>12, <1>13, <3>1 DEF LimitsAt
    <2> QED  BY <2>1, <2>2
  <1>16. count'[AKey(IpOf[c])] + OwedAt(IpOf[c], Passed)'
            <= MaxPerIp + miscounts'[AKey(IpOf[c])]
    BY <1>7, <1>10, <1>11, <1>13, <1>15 DEF LimitsAt
  <1>17. LimitsAt(IpOf[c])'
    BY <1>14, <1>15, <1>16 DEF LimitsAt, UKey, AKey
  <1> QED  BY <1>4, <1>6, <1>9, <1>10, <1>17, AtOneIp

LEMMA LimitsStep ==
    ASSUME TypeOK, TypeOK', Shape, Alone, NoGhost, Balanced, ~remote,
           LocalStore, AuthPromise, Limits, Next
    PROVE  Limits'
  <1>1. ASSUME NEW c \in Conns, Admission(c) PROVE Limits'
    BY <1>1, SteadyActions, UnauthCountLimits, AdmissionIncrementLimits DEF Admission
  <1>2. ASSUME NEW c \in Conns, Upgrade(c) PROVE Limits'
    <2>1. ASSUME NEW i \in Messages,
                 \/ UpgradeCountAnswered(c, i) \/ UpgradeDecrement(c, i)
                 \/ UpgradeIncrement(c, i) \/ UpgradeMark(c, i)
          PROVE  Limits'
      BY <2>1, UpgradeCountLimits, UpgradeDecrementLimits, UpgradeIncrementLimits,
         UpgradeMarkLimits
    <2> QED  BY <1>2, <2>1, AuthMessageLimits DEF Upgrade
  <1>3. ASSUME NEW c \in Conns, BeginClosing(c) \/ Close(c) \/ CloseUnregistered(c) \/ Forget(c)
        PROVE  Limits'
    BY <1>3, SteadyActions, CloseLimits
  <1>4. \A k \in Keys : ~DecrementSettles(k)
    <2>1. \A k \in Keys : DecrementSettles(k) => decrements[k] > 0
      BY DEF DecrementSettles
    <2>2. \A k \in Keys : decrements[k] = 0
      BY DEF LocalStore
    <2> QED  BY <2>1, <2>2
  <1>5. ~Crash /\ \A k \in Keys : ~CountExpires(k)
    BY DEF Crash, CountExpires
  <1> QED  BY <1>1, <1>2, <1>3, <1>4, <1>5 DEF Next
----------------------------------------------------------------------------
LEMMA LimitInit == ASSUME Init PROVE LimitInv
  <1>1. LifeInv /\ BalanceInv
    BY LifeInit, BalanceInit
  <1>2. UnauthAsked /\ AuthPromise
    BY DEF Init, All, UnauthAsked, AuthPromise
  <1>3. LocalStore /\ \A k \in Keys : count[k] = 0 /\ miscounts[k] = 0
    BY DEF Init, Zero, LocalStore
  <1>4. ASSUME NEW ip \in Ips
        PROVE  LimitsAt(ip)
    <2>1. \A c \in Conns : ~Candidate(c) /\ ~Backed(c)
      BY DEF Init, All, Candidate, Backed
    <2>2. /\ {c \in Conns : IpOf[c] = ip /\ Candidate(c)} = {}
          /\ {c \in Conns : IpOf[c] = ip /\ Backed(c)} = {}
      BY <2>1
    <2>3. \A c \in Conns, i \in Messages : upgrade[c][i] = "none"
      BY DEF Init, All
    <2>4. Owed(ip, Passed) = {} /\ Owed(ip, UpgradeSteps) = {}
      BY <2>3, LimitSets DEF Owed
    <2>5. /\ CandidatesAt(ip) = 0 /\ BackedAt(ip) = 0
          /\ OwedAt(ip, Passed) = 0 /\ OwedAt(ip, UpgradeSteps) = 0
      BY <2>2, <2>4, FS_EmptySet DEF CandidatesAt, BackedAt, OwedAt
    <2>6. count[AKey(ip)] = 0 /\ miscounts[AKey(ip)] = 0 /\ miscounts[UKey(ip)] = 0
      BY <1>3, KeysOf
    <2> QED  BY <2>5, <2>6 DEF LimitsAt, UKey, AKey
  <1> QED  BY <1>1, <1>2, <1>3, <1>4 DEF Limits, LimitInv

LEMMA LimitStep == ASSUME LimitInv, [Next]_vars PROVE LimitInv'
  <1>1. LifeInv' /\ BalanceInv'
    BY LifeStep, BalanceStep DEF LimitInv
  <1>2. TypeOK /\ TypeOK' /\ Shape /\ Alone /\ NoGhost /\ Balanced /\ UnauthAsked
    BY <1>1 DEF LimitInv, LifeInv, BalanceInv
  <1>3. CASE Next
    <2>1. UnauthAsked'
      BY <1>2, <1>3, UnauthAskedStep
    <2>2. UNCHANGED remote
      <3>1. ASSUME NEW kind, NEW c, Incremented(kind, c) \/ Decremented(kind, c)
            PROVE  UNCHANGED remote
        BY <3>1 DEF Incremented, Decremented
      <3>2. ASSUME NEW kind, NEW c, NEW n, Counted(kind, c, n)
            PROVE  UNCHANGED remote
        BY <3>2 DEF Counted
      <3>3. ASSUME NEW c \in Conns, Admission(c) PROVE UNCHANGED remote
        BY <3>1, <3>2, <3>3 DEF Admission, Connect, BanAnswered, AuthCountAnswered,
           UnauthCountAnswered, AdmissionIncrement, Register, store
      <3>4. ASSUME NEW c \in Conns, Upgrade(c) PROVE UNCHANGED remote
        BY <3>1, <3>2, <3>4 DEF Upgrade, AuthMessage, UpgradeCountAnswered,
           UpgradeDecrement, UpgradeIncrement, UpgradeMark, store
      <3>5. ASSUME NEW c \in Conns,
                   BeginClosing(c) \/ Close(c) \/ CloseUnregistered(c) \/ Forget(c)
            PROVE  UNCHANGED remote
        BY <3>5 DEF BeginClosing, Close, CloseUnregistered, Forget, Released, store
      <3>6. ASSUME NEW k \in Keys, DecrementSettles(k) \/ CountExpires(k)
            PROVE  UNCHANGED remote
        BY <3>6 DEF DecrementSettles, CountExpires
      <3>7. Crash => UNCHANGED remote
        BY DEF Crash
      <3> QED  BY <1>3, <3>3, <3>4, <3>5, <3>6, <3>7 DEF Next
    <2>3. ASSUME ~remote
          PROVE  LocalStore' /\ AuthPromise' /\ Limits'
      <3>1. LocalStore /\ AuthPromise /\ Limits
        BY <2>3 DEF LimitInv
      <3>2. LocalStore'
        BY <1>2, <1>3, <2>3, <3>1, LocalStoreStep DEF LocalStore
      <3>3. AuthPromise'
        BY <1>2, <1>3, <2>3, <3>1, AuthPromiseStep
      <3>4. Limits'
        BY <1>2, <1>3, <2>3, <3>1, LimitsStep
      <3> QED  BY <3>2, <3>3, <3>4
    <2> QED  BY <1>1, <2>1, <2>2, <2>3 DEF LimitInv
  <1>4. CASE UNCHANGED vars
    <2>1. /\ UNCHANGED <<remote, step, clients, initially, upgrade, count>>
          /\ UNCHANGED <<fallback, decrements, miscounts>>
      BY <1>4 DEF vars
    <2>2. UnauthAsked'
      BY <1>2, <2>1 DEF UnauthAsked
    <2>3. ASSUME ~remote
          PROVE  LocalStore' /\ AuthPromise' /\ Limits'
      <3>1. LocalStore /\ AuthPromise /\ Limits
        BY <2>3 DEF LimitInv
      <3>2. LocalStore' /\ AuthPromise'
        BY <2>1, <3>1 DEF LocalStore, AuthPromise, Kind, AKey
      <3>3. \A d \in Conns : (Candidate(d)' => Candidate(d)) /\ (Backed(d)' => Backed(d))
        BY <2>1 DEF Candidate, Backed, Kind, In
      <3>4. \A k \in Keys : miscounts[k] <= miscounts'[k]
        <4>1. \A k \in Keys : miscounts'[k] = miscounts[k] /\ miscounts[k] \in Nat
          BY <1>2, <2>1 DEF TypeOK
        <4> QED  BY <4>1
      <3> QED  BY <1>2, <2>1, <3>1, <3>2, <3>3, <3>4, Steady
    <2> QED  BY <1>1, <2>1, <2>2, <2>3 DEF LimitInv
  <1> QED  BY <1>3, <1>4

(* Budgets, what suspended handlers have been promised of them, and the      *)
(* counts they were promised by are inductive together.                      *)
THEOREM AlwaysLimited == Spec => []LimitInv
  BY LimitInit, LimitStep, PTL DEF Spec

(* With the in-memory store no number of sockets, addresses and interleaved  *)
(* handlers exceeds the limits: MAX_WS_CONNECTIONS over all, and at an IP    *)
(* either budget, but for what pipelined auth messages have miscounted.      *)
THEOREM LimitsAlwaysHold == Spec => []LimitsHold
  <1>1. LimitInv => LimitsHold
    <2> SUFFICES ASSUME LimitInv, ~remote
                 PROVE  /\ Cardinality(clients) <= MaxConnections
                        /\ \A k \in Keys :
                             Cardinality({c \in clients : k = Key(Kind(c), c)})
                                 <= Budget(k[1]) + miscounts[k]
      BY DEF LimitsHold
    <2>1. TypeOK /\ Alone /\ Limits
      BY DEF LimitInv, LifeInv
    <2>2. Cardinality(clients) <= MaxConnections
      BY <2>1 DEF Alone
    <2>3. ASSUME NEW k \in Keys
          PROVE  Cardinality({c \in clients : k = Key(Kind(c), c)}) <= Budget(k[1]) + miscounts[k]
      <3> DEFINE S == {c \in clients : k = Key(Kind(c), c)}
      <3>1. PICK ip \in Ips : k = UKey(ip) \/ k = AKey(ip)
        BY DEF Keys, Kinds, UKey, AKey
      <3>2. /\ LimitsAt(ip) /\ count[AKey(ip)] \in Nat
            /\ miscounts[UKey(ip)] \in Nat /\ miscounts[AKey(ip)] \in Nat
        BY <2>1, KeysOf DEF Limits, TypeOK
      <3>3. OwedAt(ip, Passed) \in Nat
        <4>1. IsFiniteSet(Owed(ip, Passed))
          BY MessagesFinite, FS_Subset DEF Owed
        <4> QED  BY <4>1, FS_CardinalityType DEF OwedAt
      <3>4. clients \subseteq Conns
        BY <2>1 DEF TypeOK
      <3>5. CASE k = UKey(ip)
        <4> DEFINE T == {c \in Conns : IpOf[c] = ip /\ Candidate(c)}
        <4>1. S \in SUBSET T /\ IsFiniteSet(T)
          <5>1. \A c \in clients : k = Key(Kind(c), c) => IpOf[c] = ip /\ Kind(c) = "unauth"
            BY <3>5 DEF UKey, Key
          <5> QED  BY <3>4, <5>1, FS_Subset DEF Candidate
        <4>2. CandidatesAt(ip) = Cardinality(T)
          BY DEF CandidatesAt
        <4>3. Budget(k[1]) = MaxUnauthPerIp
          BY <3>5 DEF Budget, UKey
        <4> HIDE DEF S, T
        <4>4. Cardinality(S) <= CandidatesAt(ip) /\ Cardinality(S) \in Nat
          <5>1. Cardinality(S) <= Cardinality(T) /\ IsFiniteSet(S)
            BY <4>1, FS_Subset
          <5> QED  BY <4>2, <5>1, FS_CardinalityType
        <4>5. Cardinality(S) <= Budget(k[1]) + miscounts[k]
          BY <3>2, <3>5, <4>3, <4>4, SomeAt DEF LimitsAt
        <4> QED  BY <4>5 DEF S
      <3>6. CASE k = AKey(ip)
        <4> DEFINE T == {c \in Conns : IpOf[c] = ip /\ Backed(c)}
        <4>1. S \in SUBSET T /\ IsFiniteSet(T)
          <5>1. \A c \in clients : k = Key(Kind(c), c) => IpOf[c] = ip /\ Kind(c) = "auth"
            BY <3>6 DEF AKey, Key
          <5> QED  BY <3>4, <5>1, FS_Subset DEF Backed
        <4>2. BackedAt(ip) = Cardinality(T)
          BY DEF BackedAt
        <4>3. Budget(k[1]) = MaxPerIp
          BY <3>6 DEF Budget, AKey
        <4> HIDE DEF S, T
        <4>4. Cardinality(S) <= BackedAt(ip) /\ Cardinality(S) \in Nat
          <5>1. Cardinality(S) <= Cardinality(T) /\ IsFiniteSet(S)
            BY <4>1, FS_Subset
          <5> QED  BY <4>2, <5>1, FS_CardinalityType
        <4>5. Cardinality(S) <= Budget(k[1]) + miscounts[k]
          BY <3>2, <3>3, <3>6, <4>3, <4>4, SomeAt DEF LimitsAt
        <4> QED  BY <4>5 DEF S
      <3> QED  BY <3>1, <3>5, <3>6
    <2> QED  BY <2>2, <2>3
  <1> QED  BY <1>1, AlwaysLimited, PTL
=============================================================================
