-------------------------- MODULE DriverLockProofs --------------------------
(***************************************************************************)
(* Theorems about driver_lock, for any number of tasks, drivers, pins and  *)
(* setups.                                                                 *)
(***************************************************************************)
EXTENDS DriverLock, TLAPS

(***************************************************************************)
(* The inductive invariant                                                 *)
(***************************************************************************)
\* A task inside driver_lock holds driver_mtx.
Excluded == \A t \in Tasks : pc[t] \in {"inside", "owner", "unit"} => driver_mtx = t

\* A task inside driver_lock works on a claim.
Working == \A t \in Tasks : pc[t] \in {"inside", "owner", "unit"} => claims[t] # << >>

\* A task about to write the owner of a lock writes a free one; a task about to
\* write its unit has written the owner.
Writing ==
    \A t \in Tasks :
        /\ pc[t] \in {"owner", "unit"} => Head(claims[t]).target \in Pins
        /\ pc[t] = "owner" => lock[Head(claims[t]).target].owner = NoDriver
        /\ pc[t] = "unit" =>
              lock[Head(claims[t]).target].owner = Head(claims[t]).driver

Held(c) == c.target \in Pins /\ Settled(c.target) /\ IsMine(c)

\* What was granted is held, by setups in progress and by configured units.
GrantsHold ==
    /\ \A t \in Tasks : \A c \in granted[t] : Held(c)
    /\ \A s \in configured : \A c \in s.granted : Held(c)

\* What was refused is held by another unit.
RefusalsHold == \A c \in refused : c.target \in Pins /\ Settled(c.target) /\ ~IsMine(c)

\* A pin that a setup in progress cannot do without was granted, is unheard of,
\* or is still to be claimed; a setup that is over accounts for all of them.
NeededTracked ==
    \A t \in Tasks : pc[t] # "idle" => \A i \in DOMAIN setup[t] :
        setup[t][i].target \in Pins /\ setup[t][i].must =>
            \/ setup[t][i] \in granted[t]
            \/ setup[t][i] \in unheard[t]
            \/ \E j \in DOMAIN claims[t] : claims[t][j] = setup[t][i]

ConfiguredTracked ==
    \A s \in configured : \A i \in DOMAIN s.setup :
        s.setup[i].target \in Pins /\ s.setup[i].must =>
            s.setup[i] \in s.granted \cup s.unheard

IInv ==
    /\ TypeOK /\ Excluded /\ Working /\ Writing
    /\ GrantsHold /\ RefusalsHold
    /\ NeededTracked /\ ConfiguredTracked

(***************************************************************************)
(* Types                                                                   *)
(***************************************************************************)
LEMMA HeadOfClaims ==
    ASSUME NEW s \in Seq(Claim), s # << >>
    PROVE  Head(s) \in Claim /\ Tail(s) \in Seq(Claim)
  OBVIOUS

LEMMA TypeInit == Init => TypeOK
  BY DEF Init, TypeOK, Free, LockValue

LEMMA TypeStep == TypeOK /\ Working /\ Writing /\ [Next]_vars => TypeOK'
<1> SUFFICES ASSUME TypeOK, Working, Writing, [Next]_vars PROVE TypeOK'
  OBVIOUS
<1>0. CASE UNCHANGED vars
  BY <1>0 DEF TypeOK, vars, Settled
<1>1. ASSUME NEW t \in Tasks, NEW s \in Setups, Begin(t, s) PROVE TypeOK'
  BY <1>1, DriverLockAssumption DEF TypeOK, Begin
<1>2. ASSUME NEW t \in Tasks, Enter(t) PROVE TypeOK'
  BY <1>2 DEF TypeOK, Enter
<1>3. ASSUME NEW t \in Tasks, LockOpen(t) PROVE TypeOK'
  <2>1. Tail(claims[t]) \in Seq(Claim)
    BY <1>3, HeadOfClaims DEF TypeOK, LockOpen, Working
  <2> QED BY <1>3, <2>1 DEF TypeOK, LockOpen, Leave
<1>5. ASSUME NEW t \in Tasks, LockAgain(t) PROVE TypeOK'
  <2>1. Head(claims[t]) \in Claim /\ Tail(claims[t]) \in Seq(Claim)
    BY <1>5, HeadOfClaims DEF TypeOK, LockAgain, Working
  <2> QED BY <1>5, <2>1 DEF TypeOK, LockAgain, Leave
<1>6. ASSUME NEW t \in Tasks, LockRevoked(t) PROVE TypeOK'
  <2>1. Head(claims[t]) \in Claim
    BY <1>6, HeadOfClaims DEF TypeOK, LockRevoked, Working
  <2>2. << >> \in Seq(Claim)
    OBVIOUS
  <2> QED BY <1>6, <2>1, <2>2 DEF TypeOK, LockRevoked, Abandon
<1>11. ASSUME NEW t \in Tasks, LockLost(t) PROVE TypeOK'
  <2> DEFINE c == Head(claims[t])
  <2>1. c \in Claim /\ claims[t] \in Seq(Claim)
    BY <1>11, HeadOfClaims DEF TypeOK, LockLost, Working
  <2>2. PICK n \in 1 .. Len(claims[t]) :
          /\ claims' = [claims EXCEPT ![t] = SubSeq(@, n + 1, Len(@))]
          /\ unheard' = [unheard EXCEPT ![t] = @ \cup {claims[t][i] : i \in 1 .. n}]
    BY <1>11 DEF LockLost
  <2>3. SubSeq(claims[t], n + 1, Len(claims[t])) \in Seq(Claim)
    BY <2>1
  <2>4. {claims[t][i] : i \in 1 .. n} \subseteq Claim
    BY <2>1
  <2>5. /\ claims' \in [Tasks -> Seq(Claim)]
        /\ unheard' \in [Tasks -> SUBSET Claim]
    BY <2>2, <2>3, <2>4 DEF TypeOK
  <2> HIDE DEF c
  <2>6. /\ refused' = refused \cup {c} /\ driver_mtx' = Nobody
        /\ pc' = [pc EXCEPT ![t] = "claim"]
        /\ UNCHANGED <<lock, setup, granted, configured>>
    BY <1>11 DEF LockLost, c
  <2> QED BY <2>1, <2>5, <2>6 DEF TypeOK
<1>7. ASSUME NEW t \in Tasks, LockIgnored(t) PROVE TypeOK'
  <2>1. Head(claims[t]) \in Claim /\ Tail(claims[t]) \in Seq(Claim)
    BY <1>7, HeadOfClaims DEF TypeOK, LockIgnored, Working
  <2> QED BY <1>7, <2>1 DEF TypeOK, LockIgnored, Leave
<1>4. ASSUME NEW t \in Tasks, LockFree(t) PROVE TypeOK'
  BY <1>4 DEF TypeOK, LockFree
<1>8. ASSUME NEW t \in Tasks, LockOwner(t) PROVE TypeOK'
  <2>1. Head(claims[t]) \in Claim
    BY <1>8, HeadOfClaims DEF TypeOK, LockOwner, Working
  <2>2. lock' \in [Pins -> LockValue]
    <3> DEFINE c == Head(claims[t])
    <3>1. /\ c.target \in Pins /\ c.driver \in Drivers
          /\ lock' = [lock EXCEPT ![c.target].owner = c.driver]
          /\ lock \in [Pins -> LockValue]
      BY <1>8, <2>1 DEF TypeOK, LockOwner, Claim, Writing
    <3> HIDE DEF c
    <3>2. [lock[c.target] EXCEPT !.owner = c.driver] \in LockValue
      BY <3>1 DEF LockValue
    <3> QED BY <3>1, <3>2
  <2> QED BY <1>8, <2>2 DEF TypeOK, LockOwner
<1>9. ASSUME NEW t \in Tasks, LockUnit(t) PROVE TypeOK'
  <2>1. Head(claims[t]) \in Claim /\ Tail(claims[t]) \in Seq(Claim)
    BY <1>9, HeadOfClaims DEF TypeOK, LockUnit, Working
  <2>2. lock' \in [Pins -> LockValue]
    <3> DEFINE c == Head(claims[t])
    <3>1. /\ c.target \in Pins /\ c.unit \in Nat
          /\ lock' = [lock EXCEPT ![c.target].unit = c.unit]
          /\ lock \in [Pins -> LockValue]
      BY <1>9, <2>1 DEF TypeOK, LockUnit, Claim, Writing
    <3> HIDE DEF c
    <3>2. [lock[c.target] EXCEPT !.unit = c.unit] \in LockValue
      BY <3>1 DEF LockValue
    <3> QED BY <3>1, <3>2
  <2> QED BY <1>9, <2>1, <2>2 DEF TypeOK, LockUnit, Leave
<1>10. ASSUME NEW t \in Tasks, Configure(t) PROVE TypeOK'
  BY <1>10 DEF TypeOK, Configure
<1> QED
  BY <1>0, <1>1, <1>2, <1>3, <1>4, <1>5, <1>6, <1>7, <1>8, <1>9, <1>10, <1>11
     DEF Next

(***************************************************************************)
(* Locks                                                                   *)
(***************************************************************************)
\* No step of any task changes a lock that is settled, nor unsettles it.
LEMMA SettledStep ==
    ASSUME IInv, [Next]_vars, NEW p \in Pins, Settled(p)
    PROVE  lock'[p] = lock[p] /\ Settled(p)'
<1> USE DEF IInv, TypeOK
<1>0. CASE UNCHANGED vars
  BY <1>0 DEF vars, Settled
<1>1. ASSUME NEW t \in Tasks, LockOwner(t) PROVE lock'[p] = lock[p] /\ Settled(p)'
  BY <1>1 DEF LockOwner, Settled, Writing
<1>2. ASSUME NEW t \in Tasks, LockUnit(t) PROVE lock'[p] = lock[p] /\ Settled(p)'
  BY <1>2 DEF LockUnit, Leave, Settled, Writing
<1>3. ASSUME NEW t \in Tasks, NEW s \in Setups, Begin(t, s)
      PROVE lock'[p] = lock[p] /\ Settled(p)'
  BY <1>3 DEF Begin, Settled
<1>4. ASSUME NEW t \in Tasks,
             \/ Enter(t) \/ LockOpen(t) \/ LockAgain(t)
             \/ LockRevoked(t) \/ LockLost(t) \/ LockIgnored(t) \/ LockFree(t)
             \/ Configure(t)
      PROVE lock'[p] = lock[p] /\ Settled(p)'
  <2>1. /\ lock' = lock
        /\ pc' \in [Tasks -> {"idle", "claim", "inside", "owner", "unit"}]
        /\ pc'[t] # "unit"
        /\ \A u \in Tasks \ {t} : pc'[u] = pc[u] /\ claims'[u] = claims[u]
    BY <1>4 DEF Enter, LockOpen, LockAgain, LockRevoked, LockLost, LockIgnored,
                LockFree, Configure, Leave, Abandon
  <2> QED BY <2>1 DEF Settled
<1> QED BY <1>0, <1>1, <1>2, <1>3, <1>4 DEF Next

\* A held claim stays held.
LEMMA HeldStep ==
    ASSUME IInv, [Next]_vars, NEW c, Held(c)
    PROVE  Held(c)'
BY SettledStep DEF Held, IsMine

\* The task in the critical section sees no lock half written.
LEMMA SettledInside ==
    ASSUME IInv, NEW t \in Tasks, pc[t] = "inside", NEW p \in Pins,
           lock[p].owner # NoDriver
    PROVE  Settled(p)
BY DEF IInv, TypeOK, Excluded, Settled

(***************************************************************************)
(* The inductive step                                                      *)
(***************************************************************************)
LEMMA ControlStep == IInv /\ [Next]_vars => (Excluded /\ Working /\ Writing)'
<1> SUFFICES ASSUME IInv, [Next]_vars PROVE (Excluded /\ Working /\ Writing)'
  OBVIOUS
<1> USE DriverLockAssumption DEF IInv, TypeOK, Excluded, Working, Writing
<1>0. CASE UNCHANGED vars
  BY <1>0 DEF vars
<1>1. ASSUME NEW t \in Tasks, NEW s \in Setups, Begin(t, s)
      PROVE (Excluded /\ Working /\ Writing)'
  BY <1>1 DEF Begin
<1>2. ASSUME NEW t \in Tasks, Enter(t) PROVE (Excluded /\ Working /\ Writing)'
  BY <1>2 DEF Enter
<1>3. ASSUME NEW t \in Tasks,
             LockOpen(t) \/ LockAgain(t) \/ LockIgnored(t)
      PROVE (Excluded /\ Working /\ Writing)'
  BY <1>3 DEF LockOpen, LockAgain, LockIgnored, Leave
<1>4. ASSUME NEW t \in Tasks, LockRevoked(t) PROVE (Excluded /\ Working /\ Writing)'
  BY <1>4 DEF LockRevoked, Abandon
<1>9. ASSUME NEW t \in Tasks, LockLost(t) PROVE (Excluded /\ Working /\ Writing)'
  <2>1. /\ pc' = [pc EXCEPT ![t] = "claim"] /\ lock' = lock /\ driver_mtx = t
        /\ \A u \in Tasks \ {t} : claims'[u] = claims[u]
    BY <1>9 DEF LockLost
  <2>2. \A u \in Tasks : pc'[u] \notin {"inside", "owner", "unit"}
    BY <2>1
  <2> QED BY <2>2
<1>8. ASSUME NEW t \in Tasks, LockFree(t) PROVE (Excluded /\ Working /\ Writing)'
  BY <1>8 DEF LockFree
<1>5. ASSUME NEW t \in Tasks, LockOwner(t) PROVE (Excluded /\ Working /\ Writing)'
  BY <1>5 DEF LockOwner
<1>6. ASSUME NEW t \in Tasks, LockUnit(t) PROVE (Excluded /\ Working /\ Writing)'
  BY <1>6 DEF LockUnit, Leave
<1>7. ASSUME NEW t \in Tasks, Configure(t) PROVE (Excluded /\ Working /\ Writing)'
  BY <1>7 DEF Configure
<1> QED BY <1>0, <1>1, <1>2, <1>3, <1>4, <1>5, <1>6, <1>7, <1>8, <1>9 DEF Next

LEMMA HoldStep == IInv /\ [Next]_vars => (GrantsHold /\ RefusalsHold)'
<1> SUFFICES ASSUME IInv, [Next]_vars PROVE (GrantsHold /\ RefusalsHold)'
  OBVIOUS
<1>a. /\ \A t \in Tasks : \A c \in granted[t] : Held(c)'
      /\ \A s \in configured : \A c \in s.granted : Held(c)'
  BY HeldStep DEF IInv, GrantsHold
<1>b. \A c \in refused : c.target \in Pins /\ Settled(c.target)' /\ ~IsMine(c)'
  BY SettledStep DEF IInv, RefusalsHold, IsMine
<1>c. ASSUME NEW t \in Tasks, pc[t] \in {"inside", "owner", "unit"}
      PROVE  Head(claims[t]) \in Claim
  BY <1>c, HeadOfClaims DEF IInv, TypeOK, Working
<1>0. CASE UNCHANGED vars
  BY <1>0, <1>a, <1>b DEF vars, GrantsHold, RefusalsHold
<1>1. ASSUME NEW t \in Tasks,
             \/ \E s \in Setups : Begin(t, s)
             \/ Enter(t) \/ LockOpen(t) \/ LockFree(t) \/ LockOwner(t)
      PROVE (GrantsHold /\ RefusalsHold)'
  <2>1. /\ \A u \in Tasks : granted'[u] \subseteq granted[u]
        /\ configured' = configured /\ refused' = refused
    BY <1>1 DEF Begin, Enter, LockOpen, LockFree, LockOwner, IInv, TypeOK
  <2> QED BY <2>1, <1>a, <1>b DEF GrantsHold, RefusalsHold
<1>2. ASSUME NEW t \in Tasks, LockAgain(t) \/ LockUnit(t)
      PROVE (GrantsHold /\ RefusalsHold)'
  <2>0. PICK c \in Claim : c = Head(claims[t])
    BY <1>2, <1>c DEF LockAgain, LockUnit
  <2>1. /\ granted' = [granted EXCEPT ![t] = @ \cup {c}]
        /\ configured' = configured /\ refused' = refused
    BY <1>2, <2>0 DEF LockAgain, LockUnit
  <2>2. Held(c)'
    <3>1. CASE LockAgain(t)
      <4>1. pc[t] = "inside" /\ c.target \in Pins /\ IsMine(c)
        BY <3>1, <2>0 DEF LockAgain
      <4>2. lock[c.target].owner # NoDriver
        BY <4>1, DriverLockAssumption DEF IsMine, Claim
      <4>3. Held(c)
        BY <4>1, <4>2, SettledInside DEF Held
      <4> QED BY <4>3, HeldStep
    <3>2. CASE LockUnit(t)
      <4>1. c.target \in Pins /\ lock[c.target].owner = c.driver
        BY <3>2, <2>0 DEF LockUnit, IInv, Writing
      <4>2. lock'[c.target] = [owner |-> c.driver, unit |-> c.unit]
        BY <3>2, <2>0, <4>1 DEF LockUnit, IInv, TypeOK, LockValue
      <4>3. \A u \in Tasks : pc'[u] # "unit"
        BY <3>2 DEF LockUnit, Leave, IInv, TypeOK, Excluded
      <4>4. c.driver # NoDriver
        BY DriverLockAssumption DEF Claim
      <4> QED BY <4>1, <4>2, <4>3, <4>4 DEF Held, Settled, IsMine
    <3> QED BY <1>2, <3>1, <3>2
  <2>3. \A u \in Tasks : \A d \in granted'[u] : Held(d)'
    BY <2>1, <2>2, <1>a DEF IInv, TypeOK
  <2> QED BY <2>1, <2>3, <1>a, <1>b DEF GrantsHold, RefusalsHold
<1>3. ASSUME NEW t \in Tasks, LockRevoked(t) \/ LockLost(t) \/ LockIgnored(t)
      PROVE (GrantsHold /\ RefusalsHold)'
  <2>0. PICK c \in Claim : c = Head(claims[t])
    BY <1>3, <1>c DEF LockRevoked, LockLost, LockIgnored
  <2>1. /\ refused' = refused \cup {c} /\ configured' = configured
        /\ \A u \in Tasks : granted'[u] \subseteq granted[u]
    BY <1>3, <2>0 DEF LockRevoked, LockLost, LockIgnored, Abandon, IInv, TypeOK
  <2>2. c.target \in Pins /\ pc[t] = "inside" /\ lock[c.target].owner # NoDriver
        /\ ~IsMine(c)
    BY <1>3, <2>0 DEF LockRevoked, LockLost, LockIgnored, IsTaken
  <2>3. c.target \in Pins /\ Settled(c.target)' /\ ~IsMine(c)'
    BY <2>2, SettledInside, SettledStep DEF IsMine
  <2> QED BY <2>1, <2>3, <1>a, <1>b DEF GrantsHold, RefusalsHold
<1>4. ASSUME NEW t \in Tasks, Configure(t) PROVE (GrantsHold /\ RefusalsHold)'
  BY <1>4, <1>a, <1>b DEF Configure, GrantsHold, RefusalsHold, IInv, TypeOK
<1> QED BY <1>0, <1>1, <1>2, <1>3, <1>4 DEF Next

LEMMA NeededStep == IInv /\ [Next]_vars => (NeededTracked /\ ConfiguredTracked)'
<1> SUFFICES ASSUME IInv, [Next]_vars PROVE (NeededTracked /\ ConfiguredTracked)'
  OBVIOUS
<1> DEFINE Goal == NeededTracked /\ ConfiguredTracked
<1>0. CASE UNCHANGED vars
  BY <1>0 DEF vars, IInv, NeededTracked, ConfiguredTracked
<1>1. ASSUME NEW t \in Tasks, NEW s \in Setups, Begin(t, s) PROVE Goal'
  BY <1>1 DEF Begin, IInv, TypeOK, NeededTracked, ConfiguredTracked
<1>2. ASSUME NEW t \in Tasks, Enter(t) \/ LockFree(t) \/ LockOwner(t) PROVE Goal'
  <2>1. UNCHANGED <<setup, claims, granted, unheard, configured>>
    BY <1>2 DEF Enter, LockFree, LockOwner
  <2>2. \A u \in Tasks : pc'[u] = "idle" <=> pc[u] = "idle"
    BY <1>2 DEF Enter, LockFree, LockOwner, IInv, TypeOK
  <2> QED BY <2>1, <2>2 DEF IInv, NeededTracked, ConfiguredTracked
<1>3. ASSUME NEW t \in Tasks, LockRevoked(t) PROVE Goal'
  BY <1>3 DEF LockRevoked, Abandon, IInv, TypeOK, NeededTracked, ConfiguredTracked
<1>4. ASSUME NEW t \in Tasks,
             \/ LockOpen(t) \/ LockAgain(t)
             \/ LockIgnored(t) \/ LockUnit(t)
      PROVE Goal'
  <2> DEFINE c == Head(claims[t])
  <2>1. claims[t] \in Seq(Claim) /\ claims[t] # << >> /\ pc[t] # "idle"
    BY <1>4 DEF LockOpen, LockAgain, LockIgnored, LockUnit,
                IInv, TypeOK, Working
  <2>2. \A j \in DOMAIN claims[t] :
            claims[t][j] = c \/ \E k \in DOMAIN claims'[t] : claims'[t][k] = claims[t][j]
    <3>1. \A j \in DOMAIN claims[t] :
            claims[t][j] = c
            \/ \E k \in DOMAIN Tail(claims[t]) : Tail(claims[t])[k] = claims[t][j]
      <4> TAKE j \in DOMAIN claims[t]
      <4>1. CASE j = 1
        BY <4>1, <2>1
      <4>2. CASE j # 1
        <5>1. j - 1 \in DOMAIN Tail(claims[t]) /\ Tail(claims[t])[j - 1] = claims[t][j]
          BY <4>2, <2>1
        <5> QED BY <5>1
      <4> QED BY <4>1, <4>2
    <3> QED BY <1>4, <3>1 DEF LockOpen, LockAgain, LockIgnored, LockUnit, Leave,
                              IInv, TypeOK
  <2>3. /\ granted[t] \subseteq granted'[t]
        /\ c.target \in Pins /\ c.must => c \in granted'[t]
    BY <1>4, DriverLockAssumption DEF LockOpen, LockAgain, LockIgnored,
       LockUnit, IInv, TypeOK
  <2>4. /\ \A u \in Tasks \ {t} :
              pc'[u] = pc[u] /\ claims'[u] = claims[u] /\ granted'[u] = granted[u]
        /\ setup' = setup /\ unheard' = unheard /\ configured' = configured
    BY <1>4 DEF LockOpen, LockAgain, LockIgnored, LockUnit, Leave,
       IInv, TypeOK
  <2> HIDE DEF c
  <2>5. NeededTracked'
    BY <2>1, <2>2, <2>3, <2>4 DEF NeededTracked, IInv
  <2> QED BY <2>4, <2>5 DEF ConfiguredTracked, IInv
<1>6. ASSUME NEW t \in Tasks, LockLost(t) PROVE Goal'
  <2>0. claims[t] \in Seq(Claim) /\ pc[t] # "idle"
    BY <1>6 DEF LockLost, IInv, TypeOK
  <2>1. PICK n \in 1 .. Len(claims[t]) :
          /\ claims' = [claims EXCEPT ![t] = SubSeq(@, n + 1, Len(@))]
          /\ unheard' = [unheard EXCEPT ![t] = @ \cup {claims[t][i] : i \in 1 .. n}]
    BY <1>6 DEF LockLost
  <2>2. claims'[t] = SubSeq(claims[t], n + 1, Len(claims[t]))
        /\ unheard'[t] = unheard[t] \cup {claims[t][i] : i \in 1 .. n}
    BY <2>1 DEF IInv, TypeOK
  <2>3. ASSUME NEW j \in DOMAIN claims[t]
        PROVE  \/ claims[t][j] \in unheard'[t]
               \/ \E k \in DOMAIN claims'[t] : claims'[t][k] = claims[t][j]
    <3>1. CASE j \in 1 .. n
      BY <3>1, <2>2
    <3>2. CASE j \notin 1 .. n
      <4>1. j - n \in DOMAIN claims'[t] /\ claims'[t][j - n] = claims[t][j]
        BY <3>2, <2>0, <2>2
      <4> QED BY <4>1
    <3> QED BY <3>1, <3>2
  <2>4. /\ \A u \in Tasks \ {t} : pc'[u] = pc[u] /\ claims'[u] = claims[u]
                                   /\ unheard'[u] = unheard[u]
        /\ setup' = setup /\ granted' = granted /\ configured' = configured
    BY <1>6, <2>1 DEF LockLost, IInv, TypeOK
  <2>5. NeededTracked'
    <3> SUFFICES ASSUME NEW u \in Tasks, pc'[u] # "idle", NEW i \in DOMAIN setup[u],
                        setup[u][i].target \in Pins /\ setup[u][i].must
                 PROVE  \/ setup[u][i] \in granted[u]
                        \/ setup[u][i] \in unheard'[u]
                        \/ \E j \in DOMAIN claims'[u] : claims'[u][j] = setup[u][i]
      BY <2>4 DEF NeededTracked
    <3>1. CASE u # t
      BY <3>1, <2>4 DEF NeededTracked, IInv
    <3>2. CASE u = t
      <4>1. \/ setup[t][i] \in granted[t] \cup unheard[t]
            \/ \E j \in DOMAIN claims[t] : claims[t][j] = setup[t][i]
        BY <3>2, <2>0 DEF NeededTracked, IInv
      <4>2. unheard[t] \subseteq unheard'[t]
        BY <2>2
      <4> QED BY <3>2, <4>1, <4>2, <2>3
    <3> QED BY <3>1, <3>2
  <2> QED BY <2>4, <2>5 DEF ConfiguredTracked, IInv
<1>5. ASSUME NEW t \in Tasks, Configure(t) PROVE Goal'
  <2>1. \A i \in DOMAIN setup[t] :
           setup[t][i].target \in Pins /\ setup[t][i].must =>
               setup[t][i] \in granted[t] \cup unheard[t]
    <3>1. pc[t] # "idle" /\ DOMAIN claims[t] = {}
      BY <1>5 DEF Configure
    <3> QED BY <3>1 DEF IInv, NeededTracked
  <2> QED BY <1>5, <2>1 DEF Configure, IInv, TypeOK, NeededTracked, ConfiguredTracked
<1> QED BY <1>0, <1>1, <1>2, <1>3, <1>4, <1>5, <1>6 DEF Next

LEMMA InvInit == Init => IInv
BY TypeInit DEF Init, IInv, Excluded, Working, Writing, GrantsHold, RefusalsHold,
   NeededTracked, ConfiguredTracked

LEMMA InvStep == IInv /\ [Next]_vars => IInv'
BY TypeStep, ControlStep, HoldStep, NeededStep DEF IInv

LEMMA Invariance == Spec => []IInv
BY InvInit, InvStep, PTL DEF Spec

(***************************************************************************)
(* Theorems                                                                *)
(***************************************************************************)
\* The variables of driver_lock and of the setups keep their types.
THEOREM TypeCorrect == Spec => []TypeOK
BY Invariance, PTL DEF IInv

\* Units that are both configured share no pin, whatever setups ran, in however
\* many tasks, and however driver_lock's two writes were interleaved with them.
THEOREM ExclusivePins == Spec => []PinsAreExclusive
<1>1. ASSUME NEW c, NEW d, IsMine(c), IsMine(d), c.target = d.target
      PROVE  c.driver = d.driver /\ c.unit = d.unit
  <2>1. /\ lock[c.target].owner = c.driver /\ lock[c.target].unit = c.unit
        /\ lock[d.target].owner = d.driver /\ lock[d.target].unit = d.unit
    BY <1>1 DEF IsMine
  <2> QED BY <2>1, <1>1
<1>2. IInv => PinsAreExclusive
  BY <1>1 DEF IInv, GrantsHold, Held, PinsAreExclusive
<1> QED BY <1>2, Invariance, PTL

\* A refusal of driver_lock always has another unit to blame, for good.
THEOREM JustifiedRefusals == Spec => []RefusalsAreJustified
<1>1. IInv => RefusalsAreJustified
  BY DEF IInv, RefusalsHold, IsMine, RefusalsAreJustified
<1> QED BY <1>1, Invariance, PTL

\* A configured unit holds its pins for good, whatever setups ran before and
\* after it, except an ADC channel's and those whose error was never allocated.
THEOREM UsedPinsHeld == Spec => []UsedPinsAreHeld
<1>1. IInv => UsedPinsAreHeld
  BY DEF IInv, ConfiguredTracked, GrantsHold, Held, UsedPinsAreHeld
<1> QED BY <1>1, Invariance, PTL

\* driver_lock never changes a lock it has granted.
THEOREM KeptLocks == Spec => LocksAreKept
<1>1. IInv /\ [Next]_vars => [\A p \in Pins : Settled(p) => lock'[p] = lock[p]]_vars
  BY SettledStep
<1> QED BY <1>1, Invariance, PTL DEF Spec, LocksAreKept
=============================================================================
