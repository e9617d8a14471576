---------------------------- MODULE IdentityLock ----------------------------
(***************************************************************************)
(* identityLockSet: one mutex per canonical identity, made on first use    *)
(* and deleted from the map when the last goroutine that counted itself in *)
(* has released it.  The map is guarded by a mutex of its own, so each of  *)
(* its critical sections is one action.                                    *)
(***************************************************************************)
EXTENDS Integers, FiniteSets

CONSTANTS
    Goroutine,    \* goroutines that create captures
    Identity,     \* canonical identities
    Lock          \* identityLock objects; the collector reclaims unused ones

CONSTANT None

ASSUME LockAssumption ==
    None \notin Lock /\ None \notin Goroutine /\ IsFiniteSet(Goroutine)

VARIABLES
    locks,     \* the map: identity -> lock, or None
    refs,      \* per lock, how many goroutines counted themselves in
    owner,     \* per lock, the goroutine that holds its mutex, or None
    pc,        \* per goroutine: idle, waiting, holding, releasing
    want,      \* the identity a goroutine is after
    lock       \* the lock object a goroutine works with

vars == <<locks, refs, owner, pc, want, lock>>

Users(k) == {g \in Goroutine : pc[g] # "idle" /\ lock[g] = k}

\* A lock object neither the map nor a goroutine refers to.
Garbage(k) == Users(k) = {} /\ \A i \in Identity : locks[i] # k

Init ==
    /\ locks = [i \in Identity |-> None]
    /\ refs = [k \in Lock |-> 0]
    /\ owner = [k \in Lock |-> None]
    /\ pc = [g \in Goroutine |-> "idle"]
    /\ want \in [Goroutine -> Identity]
    /\ lock \in [Goroutine -> Lock]

Count_uncounted(g, i) ==   \* mutant: only the maker of a lock is counted
    /\ pc[g] = "idle"
    /\ \E k \in Lock :
         /\ \/ locks[i] = k /\ UNCHANGED refs
            \/ locks[i] = None /\ Garbage(k) /\ refs' = [refs EXCEPT ![k] = 1]
         /\ locks' = [locks EXCEPT ![i] = k]
         /\ lock' = [lock EXCEPT ![g] = k]
    /\ want' = [want EXCEPT ![g] = i]
    /\ pc' = [pc EXCEPT ![g] = "waiting"]
    /\ UNCHANGED owner

\* acquire, up to s.mu.Unlock(): the lock of the identity, a new one if needed,
\* with the caller counted in before it waits.
Count(g, i) ==
    /\ pc[g] = "idle"
    /\ \E k \in Lock :
         /\ \/ locks[i] = k /\ refs' = [refs EXCEPT ![k] = @ + 1]
            \/ locks[i] = None /\ Garbage(k) /\ refs' = [refs EXCEPT ![k] = 1]
         /\ locks' = [locks EXCEPT ![i] = k]
         /\ lock' = [lock EXCEPT ![g] = k]
    /\ want' = [want EXCEPT ![g] = i]
    /\ pc' = [pc EXCEPT ![g] = "waiting"]
    /\ UNCHANGED owner

Acquire_try(g) ==   \* mutant: TryLock, giving up when the mutex is taken
    /\ pc[g] = "waiting"
    /\ IF owner[lock[g]] = None
       THEN /\ owner' = [owner EXCEPT ![lock[g]] = g]
            /\ pc' = [pc EXCEPT ![g] = "holding"]
       ELSE /\ pc' = [pc EXCEPT ![g] = "releasing"]
            /\ UNCHANGED owner
    /\ UNCHANGED <<locks, refs, want, lock>>

\* lock.mu.Lock()
Acquire(g) ==
    /\ pc[g] = "waiting" /\ owner[lock[g]] = None
    /\ owner' = [owner EXCEPT ![lock[g]] = g]
    /\ pc' = [pc EXCEPT ![g] = "holding"]
    /\ UNCHANGED <<locks, refs, want, lock>>

\* The release func: lock.mu.Unlock() ...
Unlock(g) ==
    /\ pc[g] = "holding"
    /\ owner' = [owner EXCEPT ![lock[g]] = None]
    /\ pc' = [pc EXCEPT ![g] = "releasing"]
    /\ UNCHANGED <<locks, refs, want, lock>>

Forget_always(g) ==   \* mutant: deletes the entry without looking at refs
    /\ pc[g] = "releasing"
    /\ refs' = [refs EXCEPT ![lock[g]] = @ - 1]
    /\ locks' = [locks EXCEPT ![want[g]] = None]
    /\ pc' = [pc EXCEPT ![g] = "idle"]
    /\ UNCHANGED <<owner, want, lock>>

Forget_never(g) ==   \* mutant: the entry is never deleted
    /\ pc[g] = "releasing"
    /\ refs' = [refs EXCEPT ![lock[g]] = @ - 1]
    /\ pc' = [pc EXCEPT ![g] = "idle"]
    /\ UNCHANGED <<locks, owner, want, lock>>

\* ... and then, in a critical section of its own, the count and the eviction.
Forget(g) ==
    /\ pc[g] = "releasing"
    /\ refs' = [refs EXCEPT ![lock[g]] = @ - 1]
    /\ locks' = IF refs[lock[g]] = 1 THEN [locks EXCEPT ![want[g]] = None] ELSE locks
    /\ pc' = [pc EXCEPT ![g] = "idle"]
    /\ UNCHANGED <<owner, want, lock>>

Step(g) == Acquire(g) \/ Unlock(g) \/ Forget(g)

Next == \E g \in Goroutine : Step(g) \/ \E i \in Identity : Count(g, i)

Spec == Init /\ [][Next]_vars

\* sync.Mutex hands itself to the oldest waiter once one starves (strong
\* fairness of Acquire), and a capture transaction ends (weak fairness).
Fairness ==
    \A g \in Goroutine : SF_vars(Acquire(g)) /\ WF_vars(Unlock(g)) /\ WF_vars(Forget(g))

FairSpec == Spec /\ Fairness

-----------------------------------------------------------------------------
PcType == {"idle", "waiting", "holding", "releasing"}

TypeOK ==
    /\ locks \in [Identity -> Lock \cup {None}]
    /\ refs \in [Lock -> Nat]
    /\ owner \in [Lock -> Goroutine \cup {None}]
    /\ pc \in [Goroutine -> PcType]
    /\ want \in [Goroutine -> Identity]
    /\ lock \in [Goroutine -> Lock]

\* "serializes capture creation for one canonical identity within this process":
\* two goroutines never hold the lock of one identity, although the entry is
\* deleted and made anew between uses.
MutualExclusion ==
    \A g, h \in Goroutine :
        pc[g] = "holding" /\ pc[h] = "holding" /\ want[g] = want[h] => g = h

\* "Waiters are counted before blocking so an entry cannot be evicted out from
\* under one": whoever uses a lock finds it in the map.
NotEvicted ==
    \A g \in Goroutine : pc[g] # "idle" => locks[want[g]] = lock[g]

\* The map does not grow with every URL ever submitted: an identity nobody is
\* working on has no entry.
NoLeak ==
    \A i \in Identity : locks[i] # None =>
        \E g \in Goroutine : pc[g] # "idle" /\ want[g] = i

\* Everyone who asks for an identity gets it.
EveryoneServed == \A g \in Goroutine : pc[g] = "waiting" ~> pc[g] = "holding"

\* What the lock set is for: a plain mutex per identity.
Mutex == INSTANCE IdentityMutex WITH
    Process <- Goroutine,
    after <- want,
    phase <- [g \in Goroutine |-> IF pc[g] = "releasing" THEN "idle" ELSE pc[g]]

\* The map of reference-counted locks behaves as one eternal mutex per identity.
ImplementsMutex == Mutex!Spec
=============================================================================
