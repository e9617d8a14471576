------------------------- MODULE IdentityLockProofs -------------------------
(***************************************************************************)
(* For any number of identities and any finite number of goroutines, the   *)
(* reference-counted lock set behaves as one mutex per identity.           *)
(***************************************************************************)
EXTENDS IdentityLock, FiniteSetTheorems, TLAPS

\* The mutex of a lock object is held by its owner and by nobody else.
OwnerHolds ==
    \A g \in Goroutine, k \in Lock :
        owner[k] = g <=> pc[g] = "holding" /\ lock[g] = k

\* refs counts the goroutines that use the lock object.
RefsCount == \A k \in Lock : refs[k] = Cardinality(Users(k))

\* Two identities never share a lock object.
Unshared ==
    \A i, j \in Identity : locks[i] = locks[j] /\ locks[i] # None => i = j

\* The inductive invariant: eviction is safe because the count is exact.
LockInv == TypeOK /\ NotEvicted /\ OwnerHolds /\ RefsCount /\ NoLeak /\ Unshared

-----------------------------------------------------------------------------
\* The users of a lock object are finitely many, so they can be counted.
LEMMA UsersFinite == \A k \in Lock : IsFiniteSet(Users(k))
BY LockAssumption, FS_Subset DEF Users

\* The empty lock set satisfies the invariant.
LEMMA LockInit == Init => LockInv
<1>1. SUFFICES ASSUME Init PROVE LockInv
  OBVIOUS
<1>2. \A k \in Lock : Users(k) = {}
  BY <1>1 DEF Init, Users
<1>3. RefsCount
  BY <1>1, <1>2, FS_EmptySet DEF Init, RefsCount
<1>4. OwnerHolds
  BY <1>1, LockAssumption DEF Init, OwnerHolds
<1>5. TypeOK
  BY <1>1 DEF Init, TypeOK, PcType
<1>6. NotEvicted /\ NoLeak /\ Unshared
  BY <1>1 DEF Init, NotEvicted, NoLeak, Unshared
<1>7. QED BY <1>3, <1>4, <1>5, <1>6 DEF LockInv

\* acquire's first critical section counts its caller into the lock it will use.
LEMMA CountStep ==
    ASSUME LockInv, NEW g \in Goroutine, NEW i \in Identity, Count(g, i)
    PROVE  LockInv'
<1>1. PICK k \in Lock :
        /\ \/ locks[i] = k /\ refs' = [refs EXCEPT ![k] = refs[k] + 1]
           \/ locks[i] = None /\ Garbage(k) /\ refs' = [refs EXCEPT ![k] = 1]
        /\ locks' = [locks EXCEPT ![i] = k]
        /\ lock' = [lock EXCEPT ![g] = k]
  BY DEF Count
<1>2. /\ pc[g] = "idle" /\ owner' = owner
      /\ want' = [want EXCEPT ![g] = i] /\ pc' = [pc EXCEPT ![g] = "waiting"]
  BY DEF Count
<1>3. TypeOK /\ NotEvicted /\ OwnerHolds /\ RefsCount /\ NoLeak /\ Unshared
  BY DEF LockInv
<1>4. TypeOK'
  BY <1>1, <1>2, <1>3 DEF TypeOK, PcType
<1>5. NotEvicted'
  BY <1>1, <1>2, <1>3, LockAssumption DEF TypeOK, NotEvicted
<1>6. OwnerHolds'
  BY <1>1, <1>2, <1>3 DEF TypeOK, OwnerHolds
<1>7. NoLeak'
  BY <1>1, <1>2, <1>3 DEF TypeOK, NoLeak
<1>7a. Unshared'
  BY <1>1, <1>3 DEF TypeOK, Unshared, Garbage
<1>8. ASSUME NEW m \in Lock PROVE refs'[m] = Cardinality(Users(m)')
  <2>1. IsFiniteSet(Users(m)) /\ refs[m] = Cardinality(Users(m)) /\ g \notin Users(m)
    BY <1>2, <1>3, UsersFinite DEF RefsCount, Users
  <2>2. CASE m # k
    <3>1. Users(m)' = Users(m)
      BY <1>1, <1>2, <1>3, <2>2 DEF TypeOK, Users
    <3>2. QED BY <1>1, <1>3, <2>1, <2>2, <3>1 DEF TypeOK
  <2>3. CASE m = k
    <3>1. Users(m)' = Users(m) \cup {g}
      BY <1>1, <1>2, <1>3, <2>3 DEF TypeOK, Users
    <3>2. Cardinality(Users(m)') = refs[m] + 1
      BY <2>1, <3>1, FS_AddElement
    <3>3. CASE Garbage(k)
      <4>1. refs[m] = 0
        BY <2>1, <2>3, <3>3, FS_EmptySet DEF Garbage
      <4>2. QED BY <1>1, <1>3, <2>3, <3>2, <4>1 DEF TypeOK
    <3>4. CASE ~Garbage(k)
      BY <1>1, <1>3, <2>3, <3>2, <3>4 DEF TypeOK
    <3>5. QED BY <3>3, <3>4
  <2>4. QED BY <2>2, <2>3
<1>9. QED BY <1>4, <1>5, <1>6, <1>7, <1>7a, <1>8 DEF LockInv, RefsCount

\* Taking or releasing the mutex of a lock object does not change who uses it.
LEMMA MutexStep ==
    ASSUME LockInv, NEW g \in Goroutine, Acquire(g) \/ Unlock(g)
    PROVE  LockInv'
<1>1. TypeOK /\ NotEvicted /\ OwnerHolds /\ RefsCount /\ NoLeak /\ Unshared
  BY DEF LockInv
<1>2. /\ pc[g] # "idle" /\ UNCHANGED <<locks, refs, want, lock>>
      /\ pc' = [pc EXCEPT ![g] = pc'[g]] /\ pc'[g] # "idle" /\ pc'[g] \in PcType
  BY <1>1 DEF Acquire, Unlock, TypeOK, PcType
<1>3. TypeOK'
  BY <1>1, <1>2 DEF TypeOK, Acquire, Unlock
<1>4. NotEvicted' /\ NoLeak' /\ Unshared'
  BY <1>1, <1>2 DEF TypeOK, NotEvicted, NoLeak, Unshared
<1>5. OwnerHolds'
  <2>1. CASE Acquire(g)
    BY <1>1, <2>1, LockAssumption DEF TypeOK, OwnerHolds, Acquire
  <2>2. CASE Unlock(g)
    BY <1>1, <2>2, LockAssumption DEF TypeOK, OwnerHolds, Unlock
  <2>3. QED BY <2>1, <2>2
<1>6. \A k \in Lock : Users(k)' = Users(k)
  BY <1>1, <1>2 DEF TypeOK, Users
<1>7. RefsCount'
  BY <1>1, <1>2, <1>6 DEF RefsCount
<1>8. QED BY <1>3, <1>4, <1>5, <1>7 DEF LockInv

\* The release's second critical section evicts the entry only for the last user.
LEMMA ForgetStep ==
    ASSUME LockInv, NEW g \in Goroutine, Forget(g)
    PROVE  LockInv'
<1>1. TypeOK /\ NotEvicted /\ OwnerHolds /\ RefsCount /\ NoLeak /\ Unshared
  BY DEF LockInv
<1>2. /\ pc[g] = "releasing" /\ UNCHANGED <<owner, want, lock>>
      /\ refs' = [refs EXCEPT ![lock[g]] = refs[lock[g]] - 1]
      /\ locks' = IF refs[lock[g]] = 1 THEN [locks EXCEPT ![want[g]] = None] ELSE locks
      /\ pc' = [pc EXCEPT ![g] = "idle"]
  BY DEF Forget
<1>3. g \in Users(lock[g]) /\ IsFiniteSet(Users(lock[g])) /\ lock[g] \in Lock
  BY <1>1, <1>2, UsersFinite DEF TypeOK, Users
<1>4. \A k \in Lock : Users(k)' = Users(k) \ {g}
  BY <1>1, <1>2 DEF TypeOK, Users
<1>5. refs[lock[g]] = Cardinality(Users(lock[g])) /\ refs[lock[g]] \in Nat
  BY <1>1, <1>3 DEF TypeOK, RefsCount
<1>6. Cardinality(Users(lock[g]) \ {g}) = refs[lock[g]] - 1
  BY <1>3, <1>5, FS_RemoveElement
<1>6a. Cardinality(Users(lock[g]) \ {g}) \in Nat
  BY <1>3, FS_RemoveElement, FS_CardinalityType
<1>7. TypeOK'
  BY <1>1, <1>2, <1>3, <1>5, <1>6, <1>6a DEF TypeOK, PcType
<1>8. RefsCount'
  <2>1. ASSUME NEW k \in Lock, k # lock[g] PROVE Users(k)' = Users(k)
    BY <1>1, <1>2, <2>1 DEF TypeOK, Users
  <2>2. QED BY <1>1, <1>2, <1>3, <1>4, <1>6, <2>1 DEF TypeOK, RefsCount
<1>9. OwnerHolds'
  BY <1>1, <1>2 DEF TypeOK, OwnerHolds
<1>10. refs[lock[g]] = 1 => \A h \in Goroutine : h # g /\ pc[h] # "idle" => lock[h] # lock[g]
  <2>1. SUFFICES ASSUME refs[lock[g]] = 1, NEW h \in Users(lock[g]) PROVE h = g
    BY DEF Users
  <2>2. Cardinality(Users(lock[g]) \ {g}) = 0
    BY <1>6, <2>1
  <2>3. Users(lock[g]) \ {g} = {}
    BY <1>3, <2>2, FS_RemoveElement, FS_EmptySet
  <2>4. QED BY <2>1, <2>3
<1>11. NotEvicted'
  BY <1>1, <1>2, <1>10 DEF TypeOK, NotEvicted
<1>12. refs[lock[g]] # 1 => \E h \in Goroutine : h # g /\ pc[h] # "idle" /\ lock[h] = lock[g]
  <2>1. SUFFICES ASSUME refs[lock[g]] # 1 PROVE Users(lock[g]) \ {g} # {}
    BY DEF Users
  <2>2. Cardinality(Users(lock[g]) \ {g}) # 0
    BY <1>5, <1>6, <2>1
  <2>3. QED BY <2>2, FS_EmptySet
<1>13. Unshared'
  BY <1>1, <1>2 DEF TypeOK, Unshared
<1>14. NoLeak'
  <2>1. CASE refs[lock[g]] = 1
    BY <1>1, <1>2, <2>1 DEF TypeOK, NoLeak
  <2>2. CASE refs[lock[g]] # 1
    <3>1. PICK h \in Goroutine : h # g /\ pc[h] # "idle" /\ lock[h] = lock[g]
      BY <1>12, <2>2
    <3>2. want[h] = want[g]
      BY <1>1, <1>2, <1>3, <3>1, LockAssumption DEF TypeOK, NotEvicted, Unshared
    <3>3. QED BY <1>1, <1>2, <2>2, <3>1, <3>2 DEF TypeOK, NoLeak
  <2>3. QED BY <2>1, <2>2
<1>15. QED BY <1>7, <1>8, <1>9, <1>11, <1>13, <1>14 DEF LockInv

\* Every step preserves the invariant.
LEMMA LockNext == LockInv /\ [Next]_vars => LockInv'
<1>1. SUFFICES ASSUME LockInv, [Next]_vars PROVE LockInv'
  OBVIOUS
<1>2. CASE UNCHANGED vars
  BY <1>1, <1>2 DEF vars, LockInv, TypeOK, NotEvicted, OwnerHolds, RefsCount, NoLeak,
                    Unshared, Users
<1>3. CASE Next
  BY <1>1, <1>3, CountStep, MutexStep, ForgetStep DEF Next, Step
<1>4. QED BY <1>1, <1>2, <1>3

\* The inductive invariant of the lock set.
THEOREM LockInvariant == Spec => []LockInv
BY LockInit, LockNext, PTL DEF Spec

\* In a state of the invariant, the holder of an identity's lock is alone.
LEMMA HolderAlone == LockInv => MutualExclusion
BY LockAssumption DEF LockInv, TypeOK, MutualExclusion, NotEvicted, OwnerHolds

\* No two goroutines are ever inside the critical section of one identity.
THEOREM Exclusive == Spec => []MutualExclusion
BY LockInvariant, HolderAlone, PTL

\* The map holds an entry only while somebody works on the identity.
THEOREM NoLeaks == Spec => []NoLeak
<1>1. LockInv => NoLeak
  BY DEF LockInv
<1>2. QED BY <1>1, LockInvariant, PTL

\* An entry that somebody waits on or holds is never evicted, so that the next
\* one to ask gets the same lock.
THEOREM NeverEvicted == Spec => []NotEvicted
<1>1. LockInv => NotEvicted
  BY DEF LockInv
<1>2. QED BY <1>1, LockInvariant, PTL

-----------------------------------------------------------------------------
Phase == [g \in Goroutine |-> IF pc[g] = "releasing" THEN "idle" ELSE pc[g]]

\* The empty lock set is an idle mutex per identity.
LEMMA MutexInit == Init => Mutex!Init
<1>1. SUFFICES ASSUME Init PROVE Mutex!Init
  OBVIOUS
<1>2. want \in [Goroutine -> Identity] /\ Phase = [g \in Goroutine |-> "idle"]
  BY <1>1 DEF Init, Phase
<1>3. QED BY <1>2 DEF Mutex!Init, Phase

\* Asking, entering and leaving map to the mutex; forgetting is a stutter.
LEMMA MutexSim ==
    ASSUME LockInv, [Next]_vars
    PROVE  [Mutex!Next]_(Mutex!vars)
<1>1. TypeOK /\ NotEvicted /\ OwnerHolds
  BY DEF LockInv
<1>2. CASE UNCHANGED vars
  BY <1>2 DEF vars, Mutex!vars
<1>3. ASSUME NEW g \in Goroutine, NEW i \in Identity, Count(g, i)
      PROVE  Mutex!Next
  <2>1. Phase[g] = "idle" /\ Phase' = [Phase EXCEPT ![g] = "waiting"]
        /\ want' = [want EXCEPT ![g] = i]
    BY <1>1, <1>3 DEF Count, TypeOK, Phase
  <2>2. Mutex!Ask(g, i)
    BY <2>1 DEF Mutex!Ask, Phase
  <2>3. QED BY <2>2 DEF Mutex!Next
<1>4. ASSUME NEW g \in Goroutine, Acquire(g) PROVE Mutex!Next
  <2>1. Phase[g] = "waiting" /\ Phase' = [Phase EXCEPT ![g] = "holding"] /\ want' = want
    BY <1>1, <1>4 DEF Acquire, TypeOK, Phase
  <2>2. \A h \in Goroutine : ~(pc[h] = "holding" /\ want[h] = want[g])
    BY <1>1, <1>4, LockAssumption DEF Acquire, TypeOK, NotEvicted, OwnerHolds
  <2>3. \A h \in Goroutine : ~(Phase[h] = "holding" /\ want[h] = want[g])
    BY <2>2 DEF Phase
  <2>4. Mutex!Enter(g)
    BY <2>1, <2>3 DEF Mutex!Enter, Phase
  <2>5. QED BY <2>4 DEF Mutex!Next
<1>5. ASSUME NEW g \in Goroutine, Unlock(g) PROVE Mutex!Next
  <2>1. Phase[g] = "holding" /\ Phase' = [Phase EXCEPT ![g] = "idle"] /\ want' = want
    BY <1>1, <1>5 DEF Unlock, TypeOK, Phase
  <2>2. Mutex!Leave(g)
    BY <2>1 DEF Mutex!Leave, Phase
  <2>3. QED BY <2>2 DEF Mutex!Next
<1>6. ASSUME NEW g \in Goroutine, Forget(g) PROVE UNCHANGED Mutex!vars
  <2>1. Phase' = Phase /\ want' = want
    BY <1>1, <1>6 DEF Forget, TypeOK, Phase
  <2>2. QED BY <2>1 DEF Mutex!vars, Phase
<1>7. QED BY <1>2, <1>3, <1>4, <1>5, <1>6 DEF Next, Step

\* The refinement: creating captures under the reference-counted lock set is
\* creating them under one mutex per canonical identity.
THEOREM MutexRefinement == Spec => ImplementsMutex
<1>1. LockInv /\ [Next]_vars => [Mutex!Next]_(Mutex!vars)
  BY MutexSim
<1>2. QED BY <1>1, MutexInit, LockInvariant, PTL DEF Spec, ImplementsMutex, Mutex!Spec
=============================================================================
