--------------------------- MODULE PresenceProofs ---------------------------
(***************************************************************************)
(* Whoever holds a registration is online, for any number of trackers,     *)
(* registrations and faults.                                               *)
(***************************************************************************)
EXTENDS Presence, FiniteSetTheorems, TLAPS

\* What a proof needs of the constants: finitely many registrations, each made with a tracker.
Constants == /\ IsFiniteSet(Registration) /\ Home \in [Registration -> Tracker] /\ 0 \notin Tracker

\* The registrations that have incremented the count and have not decremented it.
Counts == {"counted", "live", "leaving"}
Owing(f) == {r \in Registration : f[r] \in Counts}

PresenceTypeOK ==
    /\ count \in Nat /\ routing \in Tracker \cup {0} /\ lapsed \in BOOLEAN
    /\ reg \in [Registration -> {"none", "counted", "live", "leaving", "gone", "failed", "dead"}]
    /\ loop \subseteq {r \in Registration : reg[r] = "live"}
    /\ tracker \in [Tracker -> {"open", "closing", "closed"}]

\* The inductive invariant: the count covers all who owe a decrement, so that one who leaves never
\* deletes the key under another.
CountCovers ==
    /\ PresenceTypeOK
    /\ count > 0 => routing # 0
    /\ ~lapsed => Cardinality(Owing(reg)) <= count
    /\ ~Redis => /\ ~lapsed /\ loop = {}
                 /\ \A r \in Owing(reg) : reg[r] = "live" /\ routing = Home[r]

\* A registration that begins adds at most one to those that owe.
LEMMA OwingGrows ==
    ASSUME IsFiniteSet(Registration), NEW f, NEW g, NEW r \in Registration,
           \A q \in Registration : q # r => g[q] = f[q]
    PROVE  /\ Cardinality(Owing(f)) \in Nat /\ Cardinality(Owing(g)) \in Nat
           /\ Cardinality(Owing(g)) <= Cardinality(Owing(f)) + 1
<1>1. IsFiniteSet(Owing(f)) /\ IsFiniteSet(Owing(g))
  BY FS_Subset DEF Owing
<1>2. Owing(g) \subseteq Owing(f) \cup {r}
  BY DEF Owing
<1>3. IsFiniteSet(Owing(f) \cup {r}) /\ Cardinality(Owing(f) \cup {r}) <= Cardinality(Owing(f)) + 1
  <2>1. Cardinality(Owing(f)) \in Nat
    BY <1>1, FS_CardinalityType
  <2>2. /\ IsFiniteSet(Owing(f) \cup {r})
        /\ Cardinality(Owing(f) \cup {r}) = IF r \in Owing(f) THEN Cardinality(Owing(f)) ELSE Cardinality(Owing(f)) + 1
    BY <1>1, FS_AddElement, Zenon
  <2> QED BY <2>1, <2>2
<1>4. Cardinality(Owing(g)) <= Cardinality(Owing(f) \cup {r})
  BY <1>2, <1>3, FS_Subset
<1> QED BY <1>1, <1>3, <1>4, FS_CardinalityType

\* Registrations that end take nothing from the others.
LEMMA OwingShrinks ==
    ASSUME IsFiniteSet(Registration), NEW f, NEW g, Owing(g) \subseteq Owing(f)
    PROVE  /\ Cardinality(Owing(f)) \in Nat /\ Cardinality(Owing(g)) \in Nat
           /\ Cardinality(Owing(g)) <= Cardinality(Owing(f))
<1>1. IsFiniteSet(Owing(f)) /\ IsFiniteSet(Owing(g))
  BY FS_Subset DEF Owing
<1> QED BY <1>1, FS_Subset, FS_CardinalityType

\* One that ends takes one away.
LEMMA OwingLoses ==
    ASSUME IsFiniteSet(Registration), NEW f, NEW g, NEW r \in Owing(f), r \notin Owing(g),
           \A q \in Registration : q # r => g[q] = f[q]
    PROVE  /\ Cardinality(Owing(f)) \in Nat /\ Cardinality(Owing(g)) \in Nat
           /\ Cardinality(Owing(g)) = Cardinality(Owing(f)) - 1
           /\ Cardinality(Owing(g)) = 0 => Owing(g) = {}
<1>1. IsFiniteSet(Owing(f)) /\ IsFiniteSet(Owing(g))
  BY FS_Subset DEF Owing
<1>2. Owing(g) = Owing(f) \ {r}
  BY DEF Owing
<1> QED BY <1>1, <1>2, FS_RemoveElement, FS_EmptySet, FS_CardinalityType

\* With anybody who owes there is at least one.
LEMMA OwingPositive ==
    ASSUME IsFiniteSet(Registration), NEW f, NEW r \in Owing(f)
    PROVE  Cardinality(Owing(f)) \in Nat /\ Cardinality(Owing(f)) >= 1
<1>1. IsFiniteSet(Owing(f))
  BY FS_Subset DEF Owing
<1> QED BY <1>1, FS_EmptySet, FS_CardinalityType

\* The invariant holds at first.
LEMMA CountCoversInit ==
    ASSUME Constants, Init PROVE CountCovers
<1>1. Owing(reg) = {}
  BY DEF Init, Owing, Counts
<1>2. PresenceTypeOK
  BY DEF Init, PresenceTypeOK
<1>3. Cardinality(Owing(reg)) = 0
  BY <1>1, FS_EmptySet
<1> QED BY <1>1, <1>2, <1>3 DEF Init, CountCovers

\* Every step keeps the invariant.
LEMMA CountCoversStep ==
    ASSUME Constants, CountCovers, Next PROVE CountCovers'
<1> USE DEF presence, Reg, Fault
<1>a. IsFiniteSet(Registration) /\ Home \in [Registration -> Tracker] /\ 0 \notin Tracker
  BY DEF Constants
<1>1. ASSUME NEW r \in Registration, Register(r) PROVE CountCovers'
  <2>1. Redis /\ Redis'
    BY <1>1 DEF Register, Redis
  <2>2. PresenceTypeOK' /\ (count > 0 => routing # 0)'
    BY <1>1, <1>a DEF Register, CountCovers, PresenceTypeOK
  <2>3. CASE reg'[r] = "counted"
    <3>1. Cardinality(Owing(reg)) \in Nat /\ Cardinality(Owing(reg')) \in Nat
          /\ Cardinality(Owing(reg')) <= Cardinality(Owing(reg)) + 1
      BY <1>1, <1>a, OwingGrows DEF Register, CountCovers, PresenceTypeOK
    <3>2. count' = count + 1 /\ lapsed' = lapsed
      BY <1>1, <2>3 DEF Register, CountCovers, PresenceTypeOK
    <3> QED BY <2>1, <2>2, <3>1, <3>2 DEF CountCovers, PresenceTypeOK
  <2>4. CASE reg'[r] = "failed"
    <3>1. Owing(reg') \subseteq Owing(reg)
      BY <1>1, <2>4 DEF Register, CountCovers, PresenceTypeOK, Owing, Counts
    <3>2. count' = count /\ lapsed' = lapsed
      BY <1>1, <2>4 DEF Register, CountCovers, PresenceTypeOK
    <3> QED BY <1>a, <2>1, <2>2, <3>1, <3>2, OwingShrinks DEF CountCovers, PresenceTypeOK
  <2> QED BY <1>1, <2>3, <2>4 DEF Register, CountCovers, PresenceTypeOK
<1>2. ASSUME NEW r \in Registration, Track(r) PROVE CountCovers'
  <2>1. Owing(reg') \subseteq Owing(reg)
    BY <1>2 DEF Track, CountCovers, PresenceTypeOK, Owing, Counts
  <2>2. Redis /\ Redis'
    BY <1>2 DEF Track, CountCovers, PresenceTypeOK, Owing, Counts, Redis
  <2>3. PresenceTypeOK' /\ count' = count /\ routing' = routing /\ lapsed' = lapsed
    BY <1>2, <1>a DEF Track, CountCovers, PresenceTypeOK
  <2> QED BY <1>a, <2>1, <2>2, <2>3, OwingShrinks DEF CountCovers, PresenceTypeOK
<1>3. ASSUME NEW r \in Registration, Unregister(r) PROVE CountCovers'
  <2>1. Owing(reg') \subseteq Owing(reg)
    BY <1>3 DEF Unregister, CountCovers, PresenceTypeOK, Owing, Counts
  <2>2. Redis /\ Redis'
    BY <1>3 DEF Unregister, Redis
  <2>3. PresenceTypeOK' /\ count' = count /\ routing' = routing /\ lapsed' = lapsed
    BY <1>3, <1>a DEF Unregister, CountCovers, PresenceTypeOK
  <2> QED BY <1>a, <2>1, <2>2, <2>3, OwingShrinks DEF CountCovers, PresenceTypeOK
<1>4. ASSUME NEW r \in Registration, Decrement(r) PROVE CountCovers'
  <2>1. r \in Owing(reg) /\ r \notin Owing(reg') /\ \A q \in Registration : q # r => reg'[q] = reg[q]
    BY <1>4 DEF Decrement, CountCovers, PresenceTypeOK, Owing, Counts
  <2>2. Redis /\ Redis'
    BY <1>4 DEF Decrement, CountCovers, PresenceTypeOK, Owing, Counts, Redis
  <2>3. PresenceTypeOK' /\ (count > 0 => routing # 0)' /\ lapsed' = lapsed
    BY <1>4, <1>a DEF Decrement, CountCovers, PresenceTypeOK
  <2>4. count' >= count - 1
    BY <1>4 DEF Decrement, CountCovers, PresenceTypeOK
  <2>5. /\ Cardinality(Owing(reg)) \in Nat /\ Cardinality(Owing(reg')) \in Nat
        /\ Cardinality(Owing(reg')) = Cardinality(Owing(reg)) - 1
    BY <1>a, <2>1, OwingLoses
  <2> QED BY <2>2, <2>3, <2>4, <2>5 DEF CountCovers, PresenceTypeOK
<1>5. ASSUME NEW r \in Registration, RegisterMemory(r) PROVE CountCovers'
  <2>1. ~Redis /\ ~Redis' /\ lapsed' = lapsed /\ loop' = loop
    BY <1>5 DEF RegisterMemory, Redis
  <2>2. PresenceTypeOK' /\ (count > 0 => routing # 0)'
    BY <1>5, <1>a DEF RegisterMemory, CountCovers, PresenceTypeOK
  <2>3. /\ Cardinality(Owing(reg)) \in Nat /\ Cardinality(Owing(reg')) \in Nat
        /\ Cardinality(Owing(reg')) <= Cardinality(Owing(reg)) + 1
    BY <1>5, <1>a, OwingGrows DEF RegisterMemory, CountCovers, PresenceTypeOK
  <2>4. CASE reg'[r] = "live"
    <3>1. count' = count + 1 /\ routing' = Home[r]
      BY <1>5, <2>4 DEF RegisterMemory, CountCovers, PresenceTypeOK
    <3>2. \A q \in Owing(reg') : reg'[q] = "live" /\ routing' = Home[q]
      BY <1>5, <2>1, <2>4, <3>1 DEF RegisterMemory, CountCovers, PresenceTypeOK, Owing, Counts
    <3> QED BY <2>1, <2>2, <2>3, <3>1, <3>2 DEF CountCovers, PresenceTypeOK
  <2>5. CASE reg'[r] = "failed"
    <3>1. count' = count /\ routing' = routing
      BY <1>5, <2>5 DEF RegisterMemory, CountCovers, PresenceTypeOK
    <3>2. Owing(reg') \subseteq Owing(reg) /\ \A q \in Owing(reg') : reg'[q] = "live" /\ routing' = Home[q]
      BY <1>5, <2>1, <2>5, <3>1 DEF RegisterMemory, CountCovers, PresenceTypeOK, Owing, Counts
    <3> QED BY <1>a, <2>1, <2>2, <3>1, <3>2, OwingShrinks DEF CountCovers, PresenceTypeOK
  <2> QED BY <1>5, <2>4, <2>5 DEF RegisterMemory, CountCovers, PresenceTypeOK
<1>6. ASSUME NEW r \in Registration, UnregisterMemory(r) PROVE CountCovers'
  <2>1. ~Redis /\ ~Redis' /\ lapsed' = lapsed /\ ~lapsed /\ loop' = loop /\ loop = {}
    BY <1>6 DEF UnregisterMemory, Redis, CountCovers
  <2>2. r \in Owing(reg) /\ r \notin Owing(reg') /\ \A q \in Registration : q # r => reg'[q] = reg[q]
    BY <1>6 DEF UnregisterMemory, CountCovers, PresenceTypeOK, Owing, Counts
  <2>3. /\ Cardinality(Owing(reg)) \in Nat /\ Cardinality(Owing(reg')) \in Nat
        /\ Cardinality(Owing(reg')) = Cardinality(Owing(reg)) - 1
        /\ Cardinality(Owing(reg')) = 0 => Owing(reg') = {}
    BY <1>a, <2>2, OwingLoses
  <2>4. count \in Nat /\ count >= 1 /\ Cardinality(Owing(reg)) <= count /\ count' = count - 1
    <3>1. Cardinality(Owing(reg)) >= 1
      BY <1>a, <2>2, OwingPositive
    <3> QED BY <1>6, <2>1, <2>3, <3>1 DEF UnregisterMemory, CountCovers, PresenceTypeOK
  <2>5. PresenceTypeOK' /\ (count > 0 => routing # 0)'
    BY <1>6, <1>a, <2>1, <2>4 DEF UnregisterMemory, CountCovers, PresenceTypeOK
  <2>6. \A q \in Owing(reg') : reg'[q] = "live" /\ routing' = Home[q]
    <3>1. CASE count = 1
      BY <2>3, <2>4, <3>1
    <3>2. CASE count # 1
      BY <1>6, <2>1, <3>2 DEF UnregisterMemory, CountCovers, PresenceTypeOK, Owing, Counts
    <3> QED BY <3>1, <3>2
  <2> QED BY <2>1, <2>3, <2>4, <2>5, <2>6 DEF CountCovers, PresenceTypeOK
<1>7. ASSUME NEW t \in Tracker, CloseBegin(t) \/ Close(t) \/ CloseMemory(t) PROVE CountCovers'
  <2>1. PresenceTypeOK' /\ UNCHANGED <<trackers, count, routing, reg, lapsed>> /\ loop' \subseteq loop
    BY <1>7 DEF CloseBegin, Close, CloseMemory, CountCovers, PresenceTypeOK
  <2> QED BY <2>1 DEF CountCovers, PresenceTypeOK, Redis, Owing
<1>8. ASSUME NEW t \in Tracker, Crash(t) PROVE CountCovers'
  <2>1. PresenceTypeOK' /\ UNCHANGED <<trackers, count, routing, lapsed>> /\ Redis /\ Redis'
    BY <1>8 DEF Crash, CountCovers, PresenceTypeOK, Redis
  <2>2. Owing(reg') \subseteq Owing(reg)
    BY <1>8 DEF Crash, CountCovers, PresenceTypeOK, Owing, Counts
  <2> QED BY <1>a, <2>1, <2>2, OwingShrinks DEF CountCovers, PresenceTypeOK
<1>9. ASSUME Expire PROVE CountCovers'
  <2>1. PresenceTypeOK' /\ count' = 0 /\ Redis /\ Redis' /\ reg' = reg
    BY <1>9 DEF Expire, CountCovers, PresenceTypeOK, Redis
  <2>2. ~lapsed' => Owing(reg') = {}
    BY <1>9, <2>1 DEF Expire, Owing, Counts
  <2> QED BY <2>1, <2>2, FS_EmptySet DEF CountCovers
<1>10. ASSUME RefreshLate PROVE CountCovers'
  BY <1>10 DEF RefreshLate, CountCovers, PresenceTypeOK, Redis
<1> QED BY <1>1, <1>2, <1>3, <1>4, <1>5, <1>6, <1>7, <1>8, <1>9, <1>10 DEF Next

\* A stuttering step keeps it too.
LEMMA CountCoversStutter ==
    ASSUME CountCovers, UNCHANGED vars PROVE CountCovers'
BY DEF CountCovers, PresenceTypeOK, vars, presence, Redis, Owing

\* The invariant gives the property.
LEMMA CountCoversFound ==
    ASSUME Constants, CountCovers PROVE OnlineWhileRegistered
<1> SUFFICES ASSUME ~lapsed, NEW r \in Registration, NEW t \in Tracker,
                    Held(r), Answers(t), Redis \/ t = Home[r]
             PROVE  Found(t)
  BY DEF OnlineWhileRegistered
<1>1. r \in Owing(reg)
  BY DEF Held, CountCovers, PresenceTypeOK, Owing, Counts
<1>2. count \in Nat /\ count > 0
  BY <1>1, OwingPositive DEF Constants, CountCovers, PresenceTypeOK
<1>3. routing # 0
  BY <1>2 DEF CountCovers
<1>4. CASE Redis
  BY <1>2, <1>3, <1>4 DEF Found, IsOnline, Online, OnlineUsers, Locate
<1>5. CASE ~Redis
  <2>1. routing = t
    BY <1>1, <1>5 DEF CountCovers
  <2> QED BY <1>2, <1>3, <1>5, <2>1 DEF Found, IsOnlineMemory, Online, OnlineUsersMemory, LocateMemory
<1> QED BY <1>4, <1>5

\* In every behaviour of the trackers, of Redis or in memory, whoever holds a registration that is
\* refreshed is found online by every tracker that answers, as long as the key did not expire under a
\* registration: for any set of trackers, any finite set of registrations and any number of faults.
THEOREM RegisteredIsOnline ==
    ASSUME Constants PROVE Spec => []OnlineWhileRegistered
<1>1. Init => CountCovers
  BY CountCoversInit
<1>2. CountCovers /\ [Next]_vars => CountCovers'
  BY CountCoversStep, CountCoversStutter
<1>3. CountCovers => OnlineWhileRegistered
  BY CountCoversFound
<1> QED BY <1>1, <1>2, <1>3, PTL DEF Spec
=============================================================================
