------------------------------- MODULE PairLock -------------------------------
(***************************************************************************)
(* The per-pair lock of lock.rs: SET NX EX on book:{pair}:lock, a fence    *)
(* counter incremented by a second command, a release script that compares *)
(* the worker id, and a guard that releases in the background when it is   *)
(* dropped.  Callers are tasks; each passes a worker id.                   *)
(*                                                                         *)
(* The key only holds the worker id.  lockedBy, expired and undercut are   *)
(* history variables: which call of acquire_lock set the key, which calls  *)
(* lost theirs to the time to live, and which to the late release of an    *)
(* earlier guard of the same worker.                                       *)
(***************************************************************************)
EXTENDS Integers, FiniteSets

CONSTANTS
    Tasks,
    WorkerId(_),      \* the worker_id a task passes to acquire_lock
    MaxRetries,       \* MAX_RETRIES (20 in the code)
    MaxCalls          \* bound of the model on calls of acquire_lock

ASSUME MaxRetriesAssumption == MaxRetries \in Nat \ {0}
ASSUME MaxCallsAssumption == MaxCalls \in Nat

VARIABLES
    key,       \* book:{pair}:lock, a worker id or Free
    fence,     \* book:{pair}:fence
    step,      \* step[t]: where task t is in its use of the lock
    tries,     \* tries[t]: failed attempts of the running acquire_lock
    token,     \* token[t]: fence_token of t's guard
    mine,      \* mine[t]: the number of t's last call
    cleanups,  \* releases spawned by dropped guards: <<worker id, call>>
    calls,     \* calls of acquire_lock so far
    lockedBy,  \* the call that set the key, 0 if the key is absent
    expired,   \* calls whose key ran out of its time to live
    undercut   \* calls whose key a background release of their own worker deleted

lockVars == <<key, fence, step, tries, token, mine, cleanups, calls, lockedBy, expired,
              undercut>>

Free == "free"

ASSUME WorkerIdAssumption == \A t \in Tasks : WorkerId(t) # Free

Init ==
    /\ key = Free
    /\ fence = 0
    /\ step = [t \in Tasks |-> "idle"]
    /\ tries = [t \in Tasks |-> 0]
    /\ token = [t \in Tasks |-> 0]
    /\ mine = [t \in Tasks |-> 0]
    /\ cleanups = {}
    /\ calls = 0
    /\ lockedBy = 0
    /\ expired = {}
    /\ undercut = {}

-------------------------------------------------------------------------------
\* acquire_lock is called.
Call(t) ==
    /\ step[t] = "idle"
    /\ calls < MaxCalls
    /\ calls' = calls + 1
    /\ mine' = [mine EXCEPT ![t] = calls + 1]
    /\ step' = [step EXCEPT ![t] = "trying"]
    /\ tries' = [tries EXCEPT ![t] = 0]
    /\ UNCHANGED <<key, fence, token, cleanups, lockedBy, expired, undercut>>

\* Faulty variant: SET without NX.
CreatedAnyway(t) ==
    /\ key' = WorkerId(t)
    /\ lockedBy' = mine[t]

\* SET NX creates the key.
Created(t) ==
    /\ key = Free
    /\ key' = WorkerId(t)
    /\ lockedBy' = mine[t]

SetOk(t) ==
    /\ step[t] = "trying"
    /\ Created(t)
    /\ step' = [step EXCEPT ![t] = "fencing"]
    /\ UNCHANGED <<fence, tries, token, mine, cleanups, calls, expired, undercut>>

\* Faulty variant: attempts are not counted.
TakenForever(t) ==
    /\ step[t] = "trying"
    /\ key # Free
    /\ UNCHANGED lockVars

\* The key exists: back off and retry, or give up after MaxRetries attempts.
Taken(t) ==
    /\ step[t] = "trying"
    /\ key # Free
    /\ tries' = [tries EXCEPT ![t] = @ + 1]
    /\ step' = [step EXCEPT ![t] = IF tries[t] + 1 < MaxRetries THEN "trying" ELSE "idle"]
    /\ UNCHANGED <<key, fence, token, mine, cleanups, calls, lockedBy, expired, undercut>>

\* SET returns an error, possibly after it took effect: no guard exists.
SetError(t) ==
    /\ step[t] = "trying"
    /\ Created(t) \/ UNCHANGED <<key, lockedBy>>
    /\ step' = [step EXCEPT ![t] = "idle"]
    /\ UNCHANGED <<fence, tries, token, mine, cleanups, calls, expired, undercut>>

\* Faulty variant: the fence is read and not stored.
IncrNotStored(t) ==
    /\ step[t] = "fencing"
    /\ token' = [token EXCEPT ![t] = fence + 1]
    /\ step' = [step EXCEPT ![t] = "holding"]
    /\ UNCHANGED <<key, fence, tries, mine, cleanups, calls, lockedBy, expired, undercut>>

\* INCR of the fence, after which acquire_lock returns the guard.
Incr(t) ==
    /\ step[t] = "fencing"
    /\ fence' = fence + 1
    /\ token' = [token EXCEPT ![t] = fence + 1]
    /\ step' = [step EXCEPT ![t] = "holding"]
    /\ UNCHANGED <<key, tries, mine, cleanups, calls, lockedBy, expired, undercut>>

\* INCR fails, possibly after it took effect: unwrap_or(1).
IncrError(t) ==
    /\ step[t] = "fencing"
    /\ fence' \in {fence, fence + 1}
    /\ token' = [token EXCEPT ![t] = 1]
    /\ step' = [step EXCEPT ![t] = "holding"]
    /\ UNCHANGED <<key, tries, mine, cleanups, calls, lockedBy, expired, undercut>>

\* Faulty variant: a plain DEL.
DelAlways(w) == key' = Free /\ lockedBy' = 0

\* The release script: DEL if the value is our worker id.  The fence token is
\* a parameter of release_lock that nothing reads.
DelIfOurs(w) ==
    IF key = w THEN key' = Free /\ lockedBy' = 0 ELSE UNCHANGED <<key, lockedBy>>

\* LockGuard::release.
Release(t) ==
    /\ step[t] = "holding"
    /\ DelIfOurs(WorkerId(t))
    /\ step' = [step EXCEPT ![t] = "idle"]
    /\ UNCHANGED <<fence, tries, token, mine, cleanups, calls, expired, undercut>>

\* The guard is dropped: a background task will release.
Drop(t) ==
    /\ step[t] = "holding"
    /\ cleanups' = cleanups \cup {<<WorkerId(t), mine[t]>>}
    /\ step' = [step EXCEPT ![t] = "idle"]
    /\ UNCHANGED <<key, fence, tries, token, mine, calls, lockedBy, expired, undercut>>

Cleanup(c) ==
    /\ c \in cleanups
    /\ DelIfOurs(c[1])
    /\ undercut' = undercut \cup (IF key = c[1] THEN {lockedBy} \ {c[2]} ELSE {})
    /\ cleanups' = cleanups \ {c}
    /\ UNCHANGED <<fence, step, tries, token, mine, calls, expired>>

\* The key's time to live runs out (5 seconds).
Expire ==
    /\ key # Free
    /\ key' = Free
    /\ lockedBy' = 0
    /\ expired' = expired \cup {lockedBy}
    /\ UNCHANGED <<fence, step, tries, token, mine, cleanups, calls, undercut>>

\* The process dies anywhere inside its use of the lock and starts again.
Crash(t) ==
    /\ step[t] # "idle"
    /\ step' = [step EXCEPT ![t] = "idle"]
    /\ UNCHANGED <<key, fence, tries, token, mine, cleanups, calls, lockedBy, expired, undercut>>

-------------------------------------------------------------------------------
Acquire(t) == SetOk(t) \/ Taken(t) \/ Incr(t)
CommandFails(t) == SetError(t) \/ IncrError(t)

Next ==
    \/ \E t \in Tasks : Call(t) \/ Acquire(t) \/ Release(t) \/ Drop(t)
    \/ \E t \in Tasks : CommandFails(t) \/ Crash(t)
    \/ \E c \in cleanups : Cleanup(c)
    \/ Expire

Spec == Init /\ [][Next]_lockVars

\* The runtime keeps polling a running acquire_lock.  Holders are not assumed to
\* release, nor keys to expire.
FairSpec == Spec /\ \A t \in Tasks : WF_lockVars(Acquire(t))

-------------------------------------------------------------------------------
Inside == {t \in Tasks : step[t] \in {"fencing", "holding"}}

\* As long as no key expires, at most one task is between a successful SET and
\* its release, and the key is that task's, however guards are dropped, their
\* background releases delayed, replies lost and tasks killed.
MutualExclusion ==
    expired = {} =>
        /\ Cardinality(Inside) <= 1
        /\ \A t \in Inside : lockedBy = mine[t]

\* A task that is still inside loses its key to the time to live, or to the late
\* release of a guard its own worker dropped before, and to nothing else: no
\* other worker's release, however late, takes it away.
KeyLostOnlyByExpiry ==
    \A t \in Inside : lockedBy = mine[t] \/ mine[t] \in expired \cup undercut

\* No two guards that are held at the same time carry the same fence token,
\* unless it is 1, the value used when INCR fails.
TokensUnique ==
    \A t, u \in Tasks :
        (step[t] = "holding" /\ step[u] = "holding" /\ t # u)
            => token[t] # token[u] \/ token[t] = 1

\* acquire_lock always returns, with a guard or an error, even if the key is held
\* for ever.
AttemptEnds == \A t \in Tasks : step[t] = "trying" ~> step[t] # "trying"
===============================================================================
