----------------------------- MODULE JsonCache ------------------------------
(***************************************************************************)
(* mcp/tools/_data.py: load_json, a cache filled under double-checked      *)
(* locking by tasks of one event loop.  The lock is asyncio's: it is taken *)
(* at once only when it is free and nobody waits, and a release hands it   *)
(* to the first task of the queue.  The file is read and parsed at two     *)
(* awaits, each of which can fail or be cancelled with the lock held.      *)
(***************************************************************************)
EXTENDS Integers, SequencesExt

CONSTANTS Readers,   \* tasks, each loading one file
          Files,
          Want,      \* the file each of them loads
          Nobody,    \* no reader
          MaxClears  \* bound: calls of clear_cache

ASSUME WantAssumption == Want \in [Readers -> Files] /\ Nobody \notin Readers
ASSUME ClearAssumption == MaxClears \in Nat

VARIABLES cache,   \* _cache: the object held for each file, 0 for none
          holder,  \* the task that holds _lock
          queue,   \* the tasks that wait for it
          pc,
          result,  \* what load_json returned to each task
          objects, \* objects parsed so far; an object is named by its number
          clears

vars == <<cache, holder, queue, pc, result, objects, clears>>

Over == {"returned", "failed", "cancelled"}

Init ==
  /\ cache = [f \in Files |-> 0]
  /\ holder = Nobody
  /\ queue = << >>
  /\ pc = [r \in Readers |-> "idle"]
  /\ result = [r \in Readers |-> 0]
  /\ objects = 0
  /\ clears = 0

Return(r, object, at) ==
  /\ result' = [result EXCEPT ![r] = object]
  /\ pc' = [pc EXCEPT ![r] = at]

-----------------------------------------------------------------------------
(* The first check, without the lock. *)

Hit(r) ==
  /\ pc[r] = "idle"
  /\ cache[Want[r]] # 0
  /\ Return(r, cache[Want[r]], "returned")
  /\ UNCHANGED <<cache, holder, queue, objects, clears>>

\* The second check follows the acquisition without a suspension.
Locked(r) ==
  /\ holder' = r
  /\ pc' = [pc EXCEPT ![r] = "reading"]
  /\ UNCHANGED result

\* A free lock is taken in the step of the first check: the second one sees
\* what the first saw.
MissAndLock(r) ==
  /\ pc[r] = "idle"
  /\ cache[Want[r]] = 0
  /\ holder = Nobody
  /\ queue = << >>
  /\ Locked(r)
  /\ UNCHANGED <<cache, queue, objects, clears>>

MissAndWait(r) ==
  /\ pc[r] = "idle"
  /\ cache[Want[r]] = 0
  /\ holder # Nobody \/ queue # << >>
  /\ pc' = [pc EXCEPT ![r] = "waiting"]
  /\ queue' = Append(queue, r)
  /\ UNCHANGED <<cache, holder, result, objects, clears>>

-----------------------------------------------------------------------------
(* Under the lock. *)

Woken(r) ==
  /\ pc[r] = "waiting"
  /\ holder = Nobody
  /\ queue # << >>
  /\ Head(queue) = r
  /\ queue' = Tail(queue)

\* Mutant of WokenMiss: there is no second check.
WokenUnchecked(r) ==
  /\ Woken(r)
  /\ Locked(r)
  /\ UNCHANGED <<cache, objects, clears>>

WokenMiss(r) ==
  /\ Woken(r)
  /\ cache[Want[r]] = 0
  /\ Locked(r)
  /\ UNCHANGED <<cache, objects, clears>>

\* The file was filled while this task waited; the lock is released again.
WokenHit(r) ==
  /\ Woken(r)
  /\ cache[Want[r]] # 0
  /\ Return(r, cache[Want[r]], "returned")
  /\ UNCHANGED <<cache, holder, objects, clears>>

ReadDone(r) ==
  /\ pc[r] = "reading"
  /\ pc' = [pc EXCEPT ![r] = "parsing"]
  /\ UNCHANGED <<cache, holder, queue, result, objects, clears>>

\* Mutant of Parsed: the object is not counted as a new one.
ParsedUncounted(r) ==
  /\ pc[r] = "parsing"
  /\ cache' = [cache EXCEPT ![Want[r]] = objects + 1]
  /\ Return(r, objects + 1, "returned")
  /\ holder' = Nobody
  /\ UNCHANGED <<queue, objects, clears>>

Parsed(r) ==
  /\ pc[r] = "parsing"
  /\ objects' = objects + 1
  /\ cache' = [cache EXCEPT ![Want[r]] = objects']
  /\ Return(r, objects', "returned")
  /\ holder' = Nobody
  /\ UNCHANGED <<queue, clears>>

\* Mutant of Leave: an exception leaves the lock held.
LeaveLocked(r, how) ==
  /\ pc' = [pc EXCEPT ![r] = how]
  /\ UNCHANGED <<cache, holder, queue, result, objects, clears>>

\* async with releases the lock, and caches nothing.
Leave(r, how) ==
  /\ pc' = [pc EXCEPT ![r] = how]
  /\ holder' = Nobody
  /\ UNCHANGED <<cache, queue, result, objects, clears>>

Raises(r) == pc[r] \in {"reading", "parsing"} /\ Leave(r, "failed")

CancelHolder(r) == pc[r] \in {"reading", "parsing"} /\ Leave(r, "cancelled")

\* Mutant of CancelWaiter: a cancelled waiter keeps its place in the queue.
CancelWaiterQueued(r) ==
  /\ pc[r] = "waiting"
  /\ pc' = [pc EXCEPT ![r] = "cancelled"]
  /\ UNCHANGED <<cache, holder, queue, result, objects, clears>>

CancelWaiter(r) ==
  /\ pc[r] = "waiting"
  /\ pc' = [pc EXCEPT ![r] = "cancelled"]
  /\ \E i \in DOMAIN queue : queue[i] = r /\ queue' = RemoveAt(queue, i)
  /\ UNCHANGED <<cache, holder, result, objects, clears>>

\* clear_cache takes no lock.
ClearCache ==
  /\ clears < MaxClears
  /\ clears' = clears + 1
  /\ cache' = [f \in Files |-> 0]
  /\ UNCHANGED <<holder, queue, pc, result, objects>>

LoopStep(r) == Hit(r) \/ MissAndLock(r) \/ MissAndWait(r) \/ WokenMiss(r) \/ WokenHit(r)
FileStep(r) == ReadDone(r) \/ Parsed(r) \/ Raises(r)

Next ==
  \/ \E r \in Readers : LoopStep(r) \/ FileStep(r) \/ CancelHolder(r) \/ CancelWaiter(r)
  \/ ClearCache

Spec == Init /\ [][Next]_vars

\* The loop runs ready tasks, and the file system answers or fails.
FairSpec == Spec /\ \A r \in Readers : WF_vars(LoopStep(r)) /\ WF_vars(FileStep(r))

-----------------------------------------------------------------------------
(* Properties. *)

TypeOK ==
  /\ cache \in [Files -> 0 .. objects]
  /\ holder \in Readers \union {Nobody}
  /\ queue \in Seq(Readers)
  /\ pc \in [Readers -> {"idle", "waiting", "reading", "parsing"} \union Over]
  /\ result \in [Readers -> 0 .. objects]
  /\ objects \in Nat
  /\ clears \in 0 .. MaxClears

\* The lock is held exactly by the task that is between its acquisition and
\* its release, whatever raised, was cancelled or was woken in between.
LockMatchesReader == \A r \in Readers :
  (pc[r] \in {"reading", "parsing"}) <=> holder = r

\* The double-checked cache keeps the promise of ReadOnce.
Once == INSTANCE ReadOnce WITH fixed <- cache, fresh <- objects + 1
KeepsReadOnce == Once!Spec

\* Every load comes to an end although tasks before it in the queue fail or
\* are cancelled while they hold the lock.
LoadEnds == \A r \in Readers :
  pc[r] \in {"waiting", "reading", "parsing"} ~> pc[r] \in Over
=============================================================================
