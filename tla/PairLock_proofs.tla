---------------------------- MODULE PairLock_proofs ----------------------------
(***************************************************************************)
(* Theorems about the per-pair lock, for any tasks, worker ids, number of  *)
(* attempts and number of calls.                                           *)
(***************************************************************************)
EXTENDS PairLock, FiniteSetTheorems, TLAPS

LockSteps == {"idle", "trying", "fencing", "holding"}

LockTypes ==
    /\ fence \in Nat
    /\ step \in [Tasks -> LockSteps]
    /\ token \in [Tasks -> Nat]
    /\ mine \in [Tasks -> Nat]
    /\ calls \in Nat
    /\ lockedBy \in Nat

\* A key that exists was set by some call.
KeyHasCall == key = Free <=> lockedBy = 0

\* Calls are numbered in the order they are made: the number of a call belongs to
\* one task, and whatever mentions a call mentions one that was made.
CallsNumbered ==
    /\ lockedBy <= calls
    /\ \A t \in Tasks : mine[t] <= calls
    /\ \A t \in Tasks : step[t] # "idle" => mine[t] > 0
    /\ \A t, u \in Tasks : (mine[t] = mine[u] /\ mine[t] > 0) => t = u
    /\ \A c \in cleanups : c[2] \in Nat /\ c[2] > 0 /\ c[2] <= calls /\ c[1] # Free
    /\ \A c, d \in cleanups : c[2] = d[2] => c = d

\* A call that is still under way has left no background release behind, and one
\* that has not yet succeeded is not the one that set the key.
UnderWay ==
    \A t \in Tasks : step[t] # "idle" =>
        /\ \A c \in cleanups : c[2] # mine[t]
        /\ step[t] = "trying" => lockedBy # mine[t]

\* Who set the key last can be told from its value.
KeyShowsOwner ==
    /\ \A t \in Tasks : lockedBy = mine[t] /\ mine[t] > 0 => key = WorkerId(t)
    /\ \A c \in cleanups : lockedBy = c[2] => key = c[1]

\* While no key has expired, whoever may still release the key owns it.
OwnersUntilExpiry ==
    expired = {} =>
        /\ \A t \in Inside : lockedBy = mine[t]
        /\ \A c \in cleanups : lockedBy = c[2]

LockInv ==
    LockTypes /\ KeyHasCall /\ CallsNumbered /\ UnderWay /\ KeyShowsOwner /\ OwnersUntilExpiry

-------------------------------------------------------------------------------
LEMMA LockInvInit == Init => LockInv
BY DEF Init, LockInv, LockTypes, LockSteps, KeyHasCall, CallsNumbered, UnderWay, KeyShowsOwner,
       OwnersUntilExpiry, Inside

\* The parts lean on each other in every step: which call set the key, which
\* calls are under way and which left a background release behind.
LEMMA LockInvNext == LockInv /\ [Next]_lockVars => LockInv'
<1> SUFFICES ASSUME LockInv, [Next]_lockVars
             PROVE  LockInv'
  OBVIOUS
<1> USE DEF LockInv, LockTypes, LockSteps, KeyHasCall, CallsNumbered, UnderWay, KeyShowsOwner,
            OwnersUntilExpiry, Inside
<1>1. ASSUME NEW t \in Tasks, Call(t) PROVE LockInv'
  BY <1>1 DEF Call
<1>2. ASSUME NEW t \in Tasks, SetOk(t) \/ SetError(t) PROVE LockInv'
  BY <1>2, WorkerIdAssumption DEF SetOk, SetError, Created
<1>3. ASSUME NEW t \in Tasks, Taken(t) PROVE LockInv'
  BY <1>3 DEF Taken
<1>4. ASSUME NEW t \in Tasks, Incr(t) \/ IncrError(t) PROVE LockInv'
  BY <1>4 DEF Incr, IncrError
<1>5. ASSUME NEW t \in Tasks, Release(t) PROVE LockInv'
  BY <1>5 DEF Release, DelIfOurs
<1>6. ASSUME NEW t \in Tasks, Drop(t) PROVE LockInv'
  BY <1>6, WorkerIdAssumption DEF Drop
<1>7. ASSUME NEW c \in cleanups, Cleanup(c) PROVE LockInv'
  BY <1>7 DEF Cleanup, DelIfOurs
<1>8. ASSUME Expire PROVE LockInv'
  BY <1>8 DEF Expire
<1>9. ASSUME NEW t \in Tasks, Crash(t) PROVE LockInv'
  BY <1>9 DEF Crash
<1>10. CASE UNCHANGED lockVars
  BY <1>10 DEF lockVars
<1> QED
  BY <1>1, <1>2, <1>3, <1>4, <1>5, <1>6, <1>7, <1>8, <1>9, <1>10
  DEF Next, Acquire, CommandFails

LEMMA LockInvariant == Spec => []LockInv
BY LockInvInit, LockInvNext, PTL DEF Spec

-------------------------------------------------------------------------------
\* Two tasks inside would both have set the key (MutualExclusion): acquire_lock
\* excludes, as long as no key expires under its holder, whatever ids the callers
\* pass, even if they share one.
THEOREM LockExcludes == Spec => []MutualExclusion
<1>1. LockInv => MutualExclusion
  <2> SUFFICES ASSUME LockInv, expired = {}
               PROVE  /\ Cardinality(Inside) <= 1
                      /\ \A t \in Inside : lockedBy = mine[t]
    BY DEF MutualExclusion
  <2>1. \A t \in Inside : lockedBy = mine[t]
    BY DEF LockInv, OwnersUntilExpiry
  <2>2. \A t, u \in Inside : t = u
    BY <2>1 DEF LockInv, CallsNumbered, Inside
  <2>3. CASE Inside = {}
    BY <2>1, <2>3, FS_EmptySet
  <2>4. CASE Inside # {}
    <3>1. PICK t : t \in Inside
      BY <2>4
    <3>2. Inside = {t}
      BY <2>2, <3>1
    <3>3. Cardinality({t}) = 1
      BY FS_Singleton
    <3>4. Cardinality(Inside) = 1
      BY <3>2, <3>3, Zenon
    <3>5. Cardinality(Inside) <= 1
      BY <3>4
    <3> QED
      BY <2>1, <3>5, Zenon
  <2> QED
    BY <2>3, <2>4
<1> QED
  BY <1>1, LockInvariant, PTL

-------------------------------------------------------------------------------
\* lock.rs leaves the choice of worker ids to the caller.  Tasks that share one
\* can release each other's keys once a key has expired.
DistinctWorkers == \A t, u \in Tasks : WorkerId(t) = WorkerId(u) => t = u

LEMMA KeyLostNext ==
    ASSUME DistinctWorkers
    PROVE  LockInv /\ KeyLostOnlyByExpiry /\ [Next]_lockVars => KeyLostOnlyByExpiry'
<1> SUFFICES ASSUME LockInv, KeyLostOnlyByExpiry, [Next]_lockVars
             PROVE  KeyLostOnlyByExpiry'
  OBVIOUS
<1> USE DEF KeyLostOnlyByExpiry, Inside, LockInv, LockTypes, LockSteps, KeyHasCall, CallsNumbered
<1>1. ASSUME NEW t \in Tasks, Call(t) PROVE KeyLostOnlyByExpiry'
  BY <1>1 DEF Call
<1>2. ASSUME NEW t \in Tasks, SetOk(t) \/ SetError(t) PROVE KeyLostOnlyByExpiry'
  BY <1>2 DEF SetOk, SetError, Created
<1>3. ASSUME NEW t \in Tasks, Taken(t) \/ Crash(t) PROVE KeyLostOnlyByExpiry'
  BY <1>3 DEF Taken, Crash
<1>4. ASSUME NEW t \in Tasks, Incr(t) \/ IncrError(t) PROVE KeyLostOnlyByExpiry'
  BY <1>4 DEF Incr, IncrError
<1>5. ASSUME NEW t \in Tasks, Release(t) PROVE KeyLostOnlyByExpiry'
  BY <1>5 DEF Release, DelIfOurs, KeyShowsOwner, DistinctWorkers
<1>6. ASSUME NEW t \in Tasks, Drop(t) PROVE KeyLostOnlyByExpiry'
  BY <1>6 DEF Drop
<1>7. ASSUME NEW c \in cleanups, Cleanup(c) PROVE KeyLostOnlyByExpiry'
  BY <1>7 DEF Cleanup, DelIfOurs, UnderWay
<1>8. ASSUME Expire PROVE KeyLostOnlyByExpiry'
  BY <1>8 DEF Expire
<1>9. CASE UNCHANGED lockVars
  BY <1>9 DEF lockVars
<1> QED
  BY <1>1, <1>2, <1>3, <1>4, <1>5, <1>6, <1>7, <1>8, <1>9 DEF Next, Acquire, CommandFails

\* The release script compares the worker id, so the key of a task that is inside
\* is only taken by the time to live or by its own worker's background release
\* (KeyLostOnlyByExpiry), if every task has an id of its own.
THEOREM KeyIsNotStolen ==
    ASSUME DistinctWorkers
    PROVE  Spec => []KeyLostOnlyByExpiry
<1>1. Init => KeyLostOnlyByExpiry
  BY DEF Init, KeyLostOnlyByExpiry, Inside
<1> QED
  BY <1>1, KeyLostNext, LockInvariant, PTL DEF Spec

-------------------------------------------------------------------------------
\* Tokens come from the fence and the fence only grows; 1 stands for a failed INCR.
TokensIssued ==
    \A t \in Tasks : step[t] = "holding" => token[t] = 1 \/ token[t] <= fence

LEMMA TokensNext ==
    LockTypes /\ TokensIssued /\ TokensUnique /\ [Next]_lockVars
        => TokensIssued' /\ TokensUnique'
<1> SUFFICES ASSUME LockTypes, TokensIssued, TokensUnique, [Next]_lockVars
             PROVE  TokensIssued' /\ TokensUnique'
  OBVIOUS
<1> USE DEF LockTypes, LockSteps, TokensIssued, TokensUnique
<1>1. ASSUME NEW t \in Tasks, Incr(t) PROVE TokensIssued' /\ TokensUnique'
  BY <1>1 DEF Incr
<1>2. ASSUME NEW t \in Tasks, IncrError(t) PROVE TokensIssued' /\ TokensUnique'
  BY <1>2 DEF IncrError
<1>3. CASE \/ UNCHANGED lockVars
           \/ \E t \in Tasks : Call(t) \/ SetOk(t) \/ SetError(t) \/ Taken(t) \/ Release(t)
                                \/ Drop(t) \/ Crash(t)
           \/ \E c \in cleanups : Cleanup(c)
           \/ Expire
  BY <1>3 DEF lockVars, Call, SetOk, SetError, Taken, Release, Drop, Crash, Cleanup, Expire
<1> QED
  BY <1>1, <1>2, <1>3 DEF Next, Acquire, CommandFails

\* Two guards held at the same time, after an expiry say, differ in their fence
\* token unless it is the 1 of a failed INCR (TokensUnique).
THEOREM TokensDiffer == Spec => []TokensUnique
<1>1. Init => TokensIssued /\ TokensUnique
  BY DEF Init, TokensIssued, TokensUnique
<1>2. LockInv => LockTypes
  BY DEF LockInv
<1> QED
  BY <1>1, <1>2, TokensNext, LockInvariant, PTL DEF Spec
===============================================================================
