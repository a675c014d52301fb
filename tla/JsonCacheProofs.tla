--------------------------- MODULE JsonCacheProofs ---------------------------
(* Theorems of JsonCache, for any readers, files and number of clearings. *)
EXTENDS JsonCache, TLAPS

LEMMA RemoveAtType ==
  ASSUME NEW S, NEW s \in Seq(S), NEW i \in 1 .. Len(s)
  PROVE  RemoveAt(s, i) \in Seq(S)
<1>1. SubSeq(s, 1, i - 1) \in Seq(S)
  OBVIOUS
<1>2. SubSeq(s, i + 1, Len(s)) \in Seq(S)
  OBVIOUS
<1> QED BY <1>1, <1>2 DEF RemoveAt

\* What load_json keeps in _cache, hands out and queues behind its lock stays
\* of the right kind, for any number of tasks (mcp/tools/_data.py:22-40).
THEOREM TypeCorrect == Spec => []TypeOK
<1> USE WantAssumption, ClearAssumption
<1>1. Init => TypeOK
  BY DEF Init, TypeOK
<1>2. TypeOK /\ [Next]_vars => TypeOK'
  <2> SUFFICES ASSUME TypeOK, [Next]_vars PROVE TypeOK'
    OBVIOUS
  <2> USE DEF TypeOK, Over
  <2>1. ASSUME NEW r \in Readers, Hit(r) PROVE TypeOK'
    BY <2>1 DEF Hit, Return
  <2>2. ASSUME NEW r \in Readers, MissAndLock(r) PROVE TypeOK'
    BY <2>2 DEF MissAndLock, Locked
  <2>3. ASSUME NEW r \in Readers, MissAndWait(r) PROVE TypeOK'
    BY <2>3 DEF MissAndWait
  <2>4. ASSUME NEW r \in Readers, WokenMiss(r) PROVE TypeOK'
    BY <2>4 DEF WokenMiss, Woken, Locked
  <2>5. ASSUME NEW r \in Readers, WokenHit(r) PROVE TypeOK'
    BY <2>5 DEF WokenHit, Woken, Return
  <2>6. ASSUME NEW r \in Readers, ReadDone(r) PROVE TypeOK'
    BY <2>6 DEF ReadDone
  <2>7. ASSUME NEW r \in Readers, Parsed(r) PROVE TypeOK'
    BY <2>7 DEF Parsed, Return
  <2>8. ASSUME NEW r \in Readers, Raises(r) \/ CancelHolder(r) PROVE TypeOK'
    BY <2>8 DEF Raises, CancelHolder, Leave
  <2>9. ASSUME NEW r \in Readers, CancelWaiter(r) PROVE TypeOK'
    <3>1. queue' \in Seq(Readers)
      BY <2>9, RemoveAtType DEF CancelWaiter
    <3> QED BY <2>9, <3>1 DEF CancelWaiter
  <2>10. CASE ClearCache
    BY <2>10 DEF ClearCache
  <2>11. CASE UNCHANGED vars
    BY <2>11 DEF vars
  <2> QED BY <2>1, <2>2, <2>3, <2>4, <2>5, <2>6, <2>7, <2>8, <2>9, <2>10, <2>11
          DEF Next, LoopStep, FileStep
<1> QED BY <1>1, <1>2, PTL DEF Spec

\* The lock is held exactly while a task reads or parses, whatever failed, was
\* cancelled or was woken in between (mcp/tools/_data.py:27-35).
THEOREM LockIsHeldByReader == Spec => []LockMatchesReader
<1> USE WantAssumption, ClearAssumption
<1>1. Init => LockMatchesReader
  BY DEF Init, LockMatchesReader
<1>2. TypeOK /\ LockMatchesReader /\ [Next]_vars => LockMatchesReader'
  <2> SUFFICES ASSUME TypeOK, LockMatchesReader, [Next]_vars PROVE LockMatchesReader'
    OBVIOUS
  <2> USE DEF TypeOK, LockMatchesReader
  <2>1. ASSUME NEW r \in Readers, LoopStep(r) PROVE LockMatchesReader'
    BY <2>1 DEF LoopStep, Hit, MissAndLock, MissAndWait, WokenMiss, WokenHit,
                Woken, Locked, Return
  <2>2. ASSUME NEW r \in Readers, FileStep(r) PROVE LockMatchesReader'
    BY <2>2 DEF FileStep, ReadDone, Parsed, Raises, Leave, Return
  <2>3. ASSUME NEW r \in Readers, CancelHolder(r) \/ CancelWaiter(r)
        PROVE  LockMatchesReader'
    BY <2>3 DEF CancelHolder, CancelWaiter, Leave
  <2>4. CASE ClearCache \/ UNCHANGED vars
    BY <2>4 DEF ClearCache, vars
  <2> QED BY <2>1, <2>2, <2>3, <2>4 DEF Next
<1> QED BY <1>1, <1>2, TypeCorrect, PTL DEF Spec

\* What makes the second check worth its place: the file that the lock's
\* holder is filling is not in the cache.
HolderFillsGap == \A r \in Readers : holder = r => cache[Want[r]] = 0

LEMMA HolderFillsGapAlways == Spec => []HolderFillsGap
<1> USE WantAssumption, ClearAssumption
<1>1. Init => HolderFillsGap
  BY DEF Init, HolderFillsGap
<1>2. TypeOK /\ LockMatchesReader /\ HolderFillsGap /\ [Next]_vars => HolderFillsGap'
  <2> SUFFICES ASSUME TypeOK, LockMatchesReader, HolderFillsGap, [Next]_vars
               PROVE  HolderFillsGap'
    OBVIOUS
  <2> USE DEF TypeOK, LockMatchesReader, HolderFillsGap
  <2>1. ASSUME NEW r \in Readers, LoopStep(r) PROVE HolderFillsGap'
    BY <2>1 DEF LoopStep, Hit, MissAndLock, MissAndWait, WokenMiss, WokenHit,
                Woken, Locked, Return
  <2>2. ASSUME NEW r \in Readers, FileStep(r) PROVE HolderFillsGap'
    BY <2>2 DEF FileStep, ReadDone, Parsed, Raises, Leave, Return
  <2>3. ASSUME NEW r \in Readers, CancelHolder(r) \/ CancelWaiter(r)
        PROVE  HolderFillsGap'
    BY <2>3 DEF CancelHolder, CancelWaiter, Leave
  <2>4. CASE ClearCache \/ UNCHANGED vars
    BY <2>4 DEF ClearCache, vars
  <2> QED BY <2>1, <2>2, <2>3, <2>4 DEF Next
<1> QED BY <1>1, <1>2, TypeCorrect, LockIsHeldByReader, PTL DEF Spec

\* load_json implements ReadOnce: a step that hands out an object either fixes
\* the file, which no one had fixed since the last clearing, or hands out the
\* object it is fixed to; no other step touches either (_data.py:24-35).
THEOREM ImplementsReadOnce == Spec => KeepsReadOnce
<1> USE WantAssumption, ClearAssumption
<1>1. Init => Once!Init
  BY DEF Init, Once!Init
<1>2. TypeOK /\ LockMatchesReader /\ HolderFillsGap /\ [Next]_vars
        => [Once!Next]_(Once!vars)
  <2> SUFFICES ASSUME TypeOK, LockMatchesReader, HolderFillsGap, [Next]_vars
               PROVE  [Once!Next]_(Once!vars)
    OBVIOUS
  <2>1. ASSUME NEW r \in Readers, Hit(r) \/ WokenHit(r) PROVE Once!Get(r)
    BY <2>1 DEF Hit, WokenHit, Woken, Return, Once!Get
  <2>2. ASSUME NEW r \in Readers, Parsed(r) PROVE Once!Fix(r)
    <3>1. cache[Want[r]] = 0
      BY <2>2 DEF Parsed, LockMatchesReader, HolderFillsGap
    <3>2. objects' = objects + 1 /\ objects \in Nat
      BY <2>2 DEF Parsed, TypeOK
    <3> QED BY <2>2, <3>1, <3>2 DEF Parsed, Return, Once!Fix
  <2>3. CASE ClearCache
    BY <2>3 DEF ClearCache, Once!Next, Once!Clear
  <2>4. ASSUME NEW r \in Readers,
               \/ MissAndLock(r) \/ MissAndWait(r) \/ WokenMiss(r) \/ ReadDone(r)
               \/ Raises(r) \/ CancelHolder(r) \/ CancelWaiter(r)
        PROVE  UNCHANGED Once!vars
    BY <2>4 DEF MissAndLock, MissAndWait, WokenMiss, Woken, Locked, ReadDone,
                Raises, CancelHolder, CancelWaiter, Leave, Once!vars
  <2>5. CASE UNCHANGED vars
    BY <2>5 DEF vars, Once!vars
  <2> QED BY <2>1, <2>2, <2>3, <2>4, <2>5 DEF Next, LoopStep, FileStep, Once!Next
<1> QED BY <1>1, <1>2, TypeCorrect, LockIsHeldByReader, HolderFillsGapAlways, PTL
        DEF Spec, KeepsReadOnce, Once!Spec
=============================================================================
