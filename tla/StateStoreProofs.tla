-------------------------- MODULE StateStoreProofs --------------------------
(***************************************************************************)
(* Proofs about StateStore for every number of sessions, ids, plan         *)
(* elements and stages.                                                    *)
(***************************************************************************)
EXTENDS StateStore, TLAPS

-----------------------------------------------------------------------------
(* Lemmas about the operations on a campaign's state.                      *)

(* An empty and a new state are states.                                    *)
LEMMA NewStateType ==
    /\ EmptyState \in State
    /\ \A d \in Plan : NewState(d) \in State
  <1>1. EmptyState \in State
    <2>1. 0 \in Stage
      BY LastStageAssumption DEF Stage
    <2>2. QED
      BY <2>1 DEF EmptyState, State
  <1>2. ASSUME NEW d \in Plan
        PROVE  NewState(d) \in State
    <2>1. d.account \in Accounts /\ Fingerprint(d) \in Contents
      BY DEF Plan, Fingerprint
    <2>2. QED
      BY <1>1, <2>1 DEF NewState, State
  <1>3. QED
    BY <1>1, <1>2

(* Merging two states gives a state.                                       *)
LEMMA MergeType ==
    ASSUME NEW mine \in State, NEW other \in State
    PROVE  /\ Merge(mine, other) \in State
           /\ MergeConflicts(mine, other) \in SUBSET Refs
  <1>1. Unknown(mine, other) \in SUBSET Object
    BY DEF Unknown, State
  <1>2. Later(mine.stage, other.stage) \in Stage
    BY DEF Later, State
  <1>3. (mine.activated \/ other.activated) \in BOOLEAN
    OBVIOUS
  <1>4. Merge(mine, other) \in State
    BY <1>1, <1>2, <1>3 DEF Merge, State
  <1>5. MergeConflicts(mine, other) \in SUBSET Refs
    BY <1>1 DEF MergeConflicts, Object
  <1>6. QED
    BY <1>4, <1>5

(* The point of the merge: the result holds all that the file held.        *)
LEMMA MergeExtends ==
    ASSUME NEW mine \in State, NEW other \in State
    PROVE  Extends(Merge(mine, other), other)
  <1> DEFINE m == Merge(mine, other)
  <1>1. m.objects = mine.objects \cup Unknown(mine, other)
    BY DEF Merge, State
  <1>2. IdsOf(other.objects) \subseteq IdsOf(m.objects)
    <2>1. SUFFICES ASSUME NEW o \in other.objects
                   PROVE  o.id \in IdsOf(m.objects)
      BY DEF IdsOf
    <2>2. CASE o.id \in IdsOf(mine.objects)
      BY <2>2, <1>1 DEF IdsOf
    <2>3. CASE o.id \notin IdsOf(mine.objects)
      BY <2>3, <1>1 DEF IdsOf, Unknown
    <2>4. QED
      BY <2>2, <2>3
  <1>3. other.failures \subseteq m.failures
    BY DEF Merge, State
  <1>4. m.stage = Later(mine.stage, other.stage)
    BY DEF Merge, State
  <1>5. other.stage <= m.stage
    BY <1>4, LastStageAssumption DEF Later, State, Stage
  <1>6. other.activated => m.activated
    BY DEF Merge, State
  <1>7. QED
    BY <1>2, <1>3, <1>5, <1>6 DEF Extends

(* Every state extends the empty one, and itself.                          *)
LEMMA ExtendsEmpty ==
    ASSUME NEW st \in State
    PROVE  Extends(st, EmptyState) /\ Extends(st, st)
  BY LastStageAssumption DEF Extends, EmptyState, IdsOf, State, Stage

-----------------------------------------------------------------------------
(* Type correctness.                                                       *)

(* A flush that raises leaves the session's variables in their domains.    *)
LEMMA RaiseType ==
    ASSUME TypeOK, NEW s \in Sessions, Raise(s)
    PROVE  /\ pc' \in [Sessions -> {"idle", "ready", "locking", "locked", "merged", "saved"}]
           /\ mem' \in [Sessions -> State]
           /\ starting' \in [Sessions -> BOOLEAN]
  BY NewStateType DEF TypeOK, Raise

LEMMA InitType == Init => TypeOK
  BY NewStateType DEF Init, TypeOK

LEMMA EnvironmentType ==
    ASSUME TypeOK, Environment
    PROVE  TypeOK'
  <1> USE DEF TypeOK, external, history, session, storage
  <1>1. CASE EditPlan
    BY <1>1 DEF EditPlan
  <1>2. CASE DamageFile
    BY <1>2 DEF DamageFile
  <1>3. CASE RepairFile
    BY <1>3 DEF RepairFile
  <1>4. QED
    BY <1>1, <1>2, <1>3 DEF Environment

LEMMA AgentType ==
    ASSUME TypeOK, NEW s \in Sessions, Agent(s)
    PROVE  TypeOK'
  <1> USE DEF TypeOK, external, history, session, storage
  <1>1. ASSUME NEW ref \in Refs \cup {NoRef}, CreateOnMeta(s, ref)
        PROVE  TypeOK'
    <2>1. PICK id \in Ids \ IdsOf(live) :
             LET obj == [id |-> id, ref |-> ref, plan |-> doc[s]]
             IN  /\ live' = live \cup {obj}
                 /\ pending' = [pending EXCEPT ![s] = @ \cup {obj}]
      BY <1>1 DEF CreateOnMeta
    <2>2. [id |-> id, ref |-> ref, plan |-> doc[s]] \in Object
      BY DEF Object
    <2>3. QED
      BY <1>1, <2>1, <2>2 DEF CreateOnMeta
  <1>2. ASSUME NEW ref \in AssetRefs, ReuseAsset(s, ref)
        PROVE  TypeOK'
    <2>1. PICK o \in live :
             LET obj == [id |-> o.id, ref |-> ref, plan |-> doc[s]]
             IN  /\ live' = live \cup {obj}
                 /\ pending' = [pending EXCEPT ![s] = @ \cup {obj}]
      BY <1>2 DEF ReuseAsset
    <2>2. [id |-> o.id, ref |-> ref, plan |-> doc[s]] \in Object
      BY StoreAssumption DEF Object
    <2>3. QED
      BY <1>2, <2>1, <2>2 DEF ReuseAsset
  <1>3. CASE LoadState(s)
    BY <1>3 DEF LoadState
  <1>4. CASE CreateState(s)
    BY <1>4, NewStateType DEF CreateState
  <1>5. ASSUME NEW obj \in live, RecordObject(s, obj)
        PROVE  TypeOK'
    <2>0. mem[s] \in State /\ obj \in Object
      OBVIOUS
    <2>1. WithObject(mem[s], obj) \in State
      BY <2>0, SMTT(30) DEF WithObject, State
    <2>2. mem' \in [Sessions -> State]
      BY <1>5, <2>1 DEF RecordObject
    <2>3. QED
      BY <1>5, <2>2 DEF RecordObject
  <1>6. ASSUME NEW obj \in live, RecordRefused(s, obj)
        PROVE  TypeOK'
    BY <1>6 DEF RecordRefused
  <1>7. ASSUME NEW stage \in Stage, NEW activate \in BOOLEAN, Advance(s, stage, activate)
        PROVE  TypeOK'
    <2>1. [mem[s] EXCEPT !.stage = stage, !.activated = @ \/ activate] \in State
      BY DEF State
    <2>2. mem' = [mem EXCEPT ![s] = [mem[s] EXCEPT !.stage = stage,
                                                   !.activated = @ \/ activate]]
      BY <1>7 DEF Advance
    <2>3. mem' \in [Sessions -> State]
      BY <2>1, <2>2
    <2>4. QED
      BY <1>7, <2>3 DEF Advance
  <1>8. ASSUME NEW failure \in Failures, RecordFailure(s, failure)
        PROVE  TypeOK'
    <2>1. [mem[s] EXCEPT !.failures = @ \cup {failure}] \in State
      BY DEF State
    <2>2. mem' = [mem EXCEPT ![s] = [mem[s] EXCEPT !.failures = @ \cup {failure}]]
      BY <1>8 DEF RecordFailure
    <2>3. mem' \in [Sessions -> State]
      BY <2>1, <2>2
    <2>4. QED
      BY <1>8, <2>3 DEF RecordFailure
  <1>9. QED
    BY <1>1, <1>2, <1>3, <1>4, <1>5, <1>6, <1>7, <1>8 DEF Agent

LEMMA FlushType ==
    ASSUME TypeOK, NEW s \in Sessions, Flush(s)
    PROVE  TypeOK'
  <1> USE DEF TypeOK, external, history, session, storage
  <1>0. Unlocked(s) \in Sessions \cup {Free}
    BY DEF Unlocked
  <1>1. CASE Acquire(s)
    BY <1>1 DEF Acquire
  <1>2. CASE LockTimeout(s)
    BY <1>2, RaiseType DEF LockTimeout
  <1>3. CASE MergeFromDisk(s)
    <2>1. /\ (IF file = "absent" THEN mem[s] ELSE Merge(mem[s], disk)) \in State
          /\ (IF file = "absent" THEN {} ELSE MergeConflicts(mem[s], disk)) \in SUBSET Refs
      BY MergeType
    <2>2. QED
      BY <1>3, <2>1 DEF MergeFromDisk
  <1>4. CASE SaveRecovered(s)
    <2>1. mem[s].objects \in SUBSET Object
      BY DEF State
    <2>2. QED
      BY <1>4, <1>0, <2>1, RaiseType DEF SaveRecovered
  <1>5. CASE Save(s)
    BY <1>5 DEF Save
  <1>6. CASE SaveFails(s)
    BY <1>6, <1>0, RaiseType DEF SaveFails
  <1>7. CASE Release(s)
    <2>1. IdsOf(mem[s].objects) \in SUBSET Ids
      BY DEF IdsOf, State, Object
    <2>2. /\ pc' \in [Sessions -> {"idle", "ready", "locking", "locked", "merged", "saved"}]
          /\ mem' \in [Sessions -> State]
          /\ starting' \in [Sessions -> BOOLEAN]
      BY <1>7, RaiseType DEF Release
    <2>3. QED
      BY <1>7, <1>0, <2>1, <2>2 DEF Release
  <1>8. QED
    BY <1>1, <1>2, <1>3, <1>4, <1>5, <1>6, <1>7 DEF Flush

LEMMA ProcessEndsType ==
    ASSUME TypeOK, NEW s \in Sessions, ProcessEnds(s)
    PROVE  TypeOK'
  BY NewStateType DEF TypeOK, ProcessEnds, Unlocked, external

(* Every variable of the store stays in its domain.                        *)
THEOREM TypeCorrect == Spec => []TypeOK
  <1>1. Init => TypeOK
    BY InitType
  <1>2. TypeOK /\ [Next]_vars => TypeOK'
    <2> SUFFICES ASSUME TypeOK, [Next]_vars PROVE TypeOK'
      OBVIOUS
    <2>1. CASE Environment
      BY <2>1, EnvironmentType
    <2>2. ASSUME NEW s \in Sessions, Agent(s)
          PROVE  TypeOK'
      BY <2>2, AgentType
    <2>3. ASSUME NEW s \in Sessions, Flush(s)
          PROVE  TypeOK'
      BY <2>3, FlushType
    <2>4. ASSUME NEW s \in Sessions, ProcessEnds(s)
          PROVE  TypeOK'
      BY <2>4, ProcessEndsType
    <2>5. CASE UNCHANGED vars
      BY <2>5 DEF vars, external, history, session, storage, TypeOK
    <2>6. QED
      BY <2>1, <2>2, <2>3, <2>4, <2>5 DEF Next
  <1>3. QED
    BY <1>1, <1>2, PTL DEF Spec

-----------------------------------------------------------------------------
(* The file only grows, and what was acknowledged stays on it.  The lock   *)
(* has to work: a session that has merged must be the only one to save.    *)

(* An agent's step leaves the file, the lock and the sessions inside a     *)
(* flush as they are.                                                      *)
LEMMA AgentStep ==
    ASSUME TypeOK, NEW s \in Sessions, Agent(s)
    PROVE  /\ UNCHANGED <<file, disk, lock, sidecars, acked, conflicts, told, silenced>>
           /\ pc[s] \in {"idle", "ready"}
           /\ pc'[s] \in {"ready", "locking"}
           /\ \A t \in Sessions \ {s} : pc'[t] = pc[t] /\ mem'[t] = mem[t]
  BY DEF Agent, CreateOnMeta, ReuseAsset, LoadState, CreateState, RecordObject,
         RecordRefused, Advance, RecordFailure, storage, history, TypeOK

(* Only Save writes the file.                                              *)
LEMMA OnlySaveWrites ==
    ASSUME TypeOK, [Next]_vars
    PROVE  \/ UNCHANGED disk
           \/ \E s \in Sessions : Save(s)
  <1>1. CASE Environment
    BY <1>1 DEF Environment, EditPlan, DamageFile, RepairFile, storage
  <1>2. ASSUME NEW s \in Sessions, Agent(s)
        PROVE  UNCHANGED <<file, disk>>
    BY <1>2, AgentStep
  <1>3. ASSUME NEW s \in Sessions, Flush(s), ~Save(s)
        PROVE  UNCHANGED <<file, disk>>
    BY <1>3 DEF Flush, Acquire, LockTimeout, MergeFromDisk, SaveRecovered,
                SaveFails, Release, storage
  <1>4. ASSUME NEW s \in Sessions, ProcessEnds(s)
        PROVE  UNCHANGED <<file, disk>>
    BY <1>4 DEF ProcessEnds
  <1>5. CASE UNCHANGED vars
    BY <1>5 DEF vars, storage
  <1>6. QED
    BY <1>1, <1>2, <1>3, <1>4, <1>5 DEF Next

LEMMA StoreInvInit == Init => StoreInv
  BY DEF Init, StoreInv, LockHeld, AbsentIsEmpty, MergedHoldsFile, SavedIsFile,
         RecordedIsDurable

LEMMA StoreInvAgent ==
    ASSUME TypeOK, StoreInv, NEW s \in Sessions, Agent(s)
    PROVE  StoreInv'
  <1> USE AgentStep DEF StoreInv
  <1>1. LockHeld'
    BY DEF LockHeld
  <1>2. AbsentIsEmpty'
    BY DEF AbsentIsEmpty
  <1>3. MergedHoldsFile'
    BY DEF MergedHoldsFile
  <1>4. SavedIsFile'
    BY DEF SavedIsFile
  <1>5. RecordedIsDurable'
    BY DEF RecordedIsDurable
  <1>6. QED
    BY <1>1, <1>2, <1>3, <1>4, <1>5

LEMMA StoreInvEnvironment ==
    ASSUME TypeOK, StoreInv, Environment
    PROVE  StoreInv'
  <1>1. UNCHANGED <<disk, lock, pc, mem, acked>> /\ (file' = file \/ file' # "absent")
    BY DEF Environment, EditPlan, DamageFile, RepairFile, storage, session, history
  <1>2. QED
    BY <1>1 DEF StoreInv, LockHeld, AbsentIsEmpty, MergedHoldsFile, SavedIsFile,
                RecordedIsDurable

(* A step of a session that touches neither the file nor another session,  *)
(* frees only its own lock and ends outside the locked region.             *)
LEMMA StoreInvLeaving ==
    ASSUME TypeOK, StoreInv, NEW s \in Sessions,
           UNCHANGED <<file, disk>>,
           lock' = lock \/ lock' = Unlocked(s),
           pc'[s] \in {"idle", "ready"},
           \A t \in Sessions \ {s} : pc'[t] = pc[t] /\ mem'[t] = mem[t],
           acked' \subseteq IdsOf(disk.objects)
    PROVE  StoreInv'
  <1> USE DEF StoreInv
  <1>1. LockHeld'
    BY DEF LockHeld, Unlocked
  <1>2. AbsentIsEmpty'
    BY DEF AbsentIsEmpty
  <1>3. MergedHoldsFile'
    BY DEF MergedHoldsFile
  <1>4. SavedIsFile'
    BY DEF SavedIsFile
  <1>5. RecordedIsDurable'
    BY DEF RecordedIsDurable
  <1>6. QED
    BY <1>1, <1>2, <1>3, <1>4, <1>5

LEMMA StoreInvFlush ==
    ASSUME LockWorks, TypeOK, StoreInv, NEW s \in Sessions, Flush(s)
    PROVE  StoreInv'
  <1>1. CASE Acquire(s)
    <2>1. /\ lock = Free /\ lock' = s
          /\ pc' = [pc EXCEPT ![s] = "locked"]
          /\ UNCHANGED <<file, disk, mem, acked>>
      BY <1>1 DEF Acquire, CanLock, history
    <2>2. LockHeld'
      BY <2>1, StoreAssumption DEF StoreInv, LockHeld, TypeOK
    <2>3. QED
      BY <2>1, <2>2 DEF TypeOK, StoreInv, AbsentIsEmpty, MergedHoldsFile, SavedIsFile,
                        RecordedIsDurable
  <1>2. CASE LockTimeout(s)
    BY <1>2, StoreInvLeaving DEF LockTimeout, Raise, TypeOK, storage, history,
                                 StoreInv, RecordedIsDurable
  <1>3. CASE MergeFromDisk(s)
    <2>1. /\ pc[s] = "locked" /\ pc' = [pc EXCEPT ![s] = "merged"]
          /\ mem' = [mem EXCEPT ![s] = IF file = "absent" THEN @ ELSE Merge(@, disk)]
          /\ UNCHANGED <<file, disk, lock, acked>>
      BY <1>3 DEF MergeFromDisk, storage, history
    <2>2. LockHeld'
      BY <2>1 DEF StoreInv, LockHeld, TypeOK
    <2>3. Extends(mem'[s], disk)
      BY <2>1, MergeExtends, ExtendsEmpty DEF TypeOK, StoreInv, AbsentIsEmpty
    <2>4. MergedHoldsFile'
      BY <2>1, <2>3 DEF StoreInv, MergedHoldsFile, TypeOK
    <2>5. QED
      BY <2>1, <2>2, <2>4 DEF TypeOK, StoreInv, AbsentIsEmpty, SavedIsFile, RecordedIsDurable
  <1>4. CASE SaveRecovered(s)
    BY <1>4, StoreInvLeaving DEF SaveRecovered, Raise, TypeOK, history, StoreInv,
                                 RecordedIsDurable
  <1>5. CASE Save(s)
    <2>1. /\ pc[s] = "merged" /\ pc' = [pc EXCEPT ![s] = "saved"]
          /\ disk' = mem[s] /\ file' = "readable"
          /\ UNCHANGED <<lock, mem, acked>>
      BY <1>5 DEF Save, history
    <2>2. LockHeld'
      BY <2>1 DEF StoreInv, LockHeld, TypeOK
    <2>3. \A t \in Sessions \ {s} : pc[t] \notin {"locked", "merged", "saved"}
      BY <2>1 DEF StoreInv, LockHeld
    <2>4. MergedHoldsFile' /\ SavedIsFile'
      BY <2>1, <2>3 DEF MergedHoldsFile, SavedIsFile, TypeOK
    <2>5. RecordedIsDurable'
      BY <2>1 DEF StoreInv, MergedHoldsFile, Extends, RecordedIsDurable
    <2>6. QED
      BY <2>1, <2>2, <2>4, <2>5 DEF StoreInv, AbsentIsEmpty
  <1>6. CASE SaveFails(s)
    BY <1>6, StoreInvLeaving DEF SaveFails, Raise, TypeOK, StoreInv, RecordedIsDurable
  <1>7. CASE Release(s)
    <2>1. /\ pc[s] = "saved"
          /\ acked' = acked \cup IdsOf(mem[s].objects)
          /\ lock' = Unlocked(s) /\ UNCHANGED <<file, disk>>
      BY <1>7 DEF Release
    <2>2. /\ pc'[s] \in {"idle", "ready"}
          /\ \A t \in Sessions \ {s} : pc'[t] = pc[t] /\ mem'[t] = mem[t]
      BY <1>7 DEF Release, Raise, TypeOK
    <2>3. acked' \subseteq IdsOf(disk.objects)
      BY <2>1 DEF StoreInv, SavedIsFile, RecordedIsDurable
    <2>4. QED
      BY <2>1, <2>2, <2>3, StoreInvLeaving
  <1>8. QED
    BY <1>1, <1>2, <1>3, <1>4, <1>5, <1>6, <1>7 DEF Flush

LEMMA StoreInvProcessEnds ==
    ASSUME TypeOK, StoreInv, NEW s \in Sessions, ProcessEnds(s)
    PROVE  StoreInv'
  BY StoreInvLeaving DEF ProcessEnds, TypeOK, StoreInv, RecordedIsDurable

(* The inductive invariant holds in every reachable state.                 *)
THEOREM StoreInvariant ==
    ASSUME LockWorks
    PROVE  Spec => []StoreInv
  <1>1. Init => StoreInv
    BY StoreInvInit
  <1>2. TypeOK /\ StoreInv /\ [Next]_vars => StoreInv'
    <2> SUFFICES ASSUME TypeOK, StoreInv, [Next]_vars PROVE StoreInv'
      OBVIOUS
    <2>1. CASE Environment
      BY <2>1, StoreInvEnvironment
    <2>2. ASSUME NEW s \in Sessions, Agent(s)
          PROVE  StoreInv'
      BY <2>2, StoreInvAgent
    <2>3. ASSUME NEW s \in Sessions, Flush(s)
          PROVE  StoreInv'
      BY <2>3, StoreInvFlush
    <2>4. ASSUME NEW s \in Sessions, ProcessEnds(s)
          PROVE  StoreInv'
      BY <2>4, StoreInvProcessEnds
    <2>5. CASE UNCHANGED vars
      BY <2>5 DEF vars, storage, session, history, StoreInv, LockHeld, AbsentIsEmpty,
                  MergedHoldsFile, SavedIsFile, RecordedIsDurable
    <2>6. QED
      BY <2>1, <2>2, <2>3, <2>4, <2>5 DEF Next
  <1>3. QED
    BY <1>1, <1>2, TypeCorrect, PTL DEF Spec

(* An id whose record_object has returned stays in state.json, with any    *)
(* number of sessions (store.py:180-188).                                  *)
THEOREM RecordedStaysOnDisk ==
    ASSUME LockWorks
    PROVE  Spec => []RecordedIsDurable
  <1>1. StoreInv => RecordedIsDurable
    BY DEF StoreInv
  <1>2. QED
    BY <1>1, StoreInvariant, PTL

(* No step takes an id, a failure, the furthest stage or the activation    *)
(* back from the file (store.py:198-243).                                  *)
THEOREM FileNeverShrinks ==
    ASSUME LockWorks
    PROVE  Spec => FileOnlyGrows
  <1>1. TypeOK /\ StoreInv /\ [Next]_vars => [Extends(disk', disk)]_disk
    <2> SUFFICES ASSUME TypeOK, StoreInv, [Next]_vars, disk' # disk
                 PROVE  Extends(disk', disk)
      OBVIOUS
    <2>1. PICK s \in Sessions : Save(s)
      BY OnlySaveWrites
    <2>2. QED
      BY <2>1 DEF Save, StoreInv, MergedHoldsFile
  <1>2. QED
    BY <1>1, TypeCorrect, StoreInvariant, PTL DEF Spec, FileOnlyGrows

-----------------------------------------------------------------------------
(* Sessions and file together implement the ledger.                        *)

LEMMA LiveOnlyGrows ==
    ASSUME [Next]_vars
    PROVE  live \subseteq live'
  BY DEF Next, Environment, EditPlan, DamageFile, RepairFile, Agent, CreateOnMeta,
         ReuseAsset, LoadState, CreateState, RecordObject, RecordRefused, Advance,
         RecordFailure, Flush, Acquire, LockTimeout, MergeFromDisk, SaveRecovered,
         Save, SaveFails, Release, ProcessEnds, vars, external

LEMMA OnlyLiveStep ==
    ASSUME TypeOK, OnlyLiveObjects, [Next]_vars
    PROVE  OnlyLiveObjects'
  <1> USE LiveOnlyGrows DEF OnlyLiveObjects
  <1>0. ASSUME NEW s \in Sessions, UNCHANGED disk, mem'[s].objects \subseteq live',
               \A t \in Sessions \ {s} : mem'[t] = mem[t]
        PROVE  OnlyLiveObjects'
    BY <1>0
  <1>1. CASE Environment \/ UNCHANGED vars
    BY <1>1 DEF Environment, EditPlan, DamageFile, RepairFile, vars, storage, session
  <1>2. ASSUME NEW s \in Sessions, Agent(s)
        PROVE  OnlyLiveObjects'
    <2>1. mem'[s].objects \subseteq live'
      <3>1. CASE \/ \E ref \in Refs \cup {NoRef} : CreateOnMeta(s, ref)
                 \/ \E ref \in AssetRefs : ReuseAsset(s, ref)
                 \/ \E obj \in live : RecordRefused(s, obj)
        BY <3>1 DEF CreateOnMeta, ReuseAsset, RecordRefused
      <3>2. CASE LoadState(s)
        BY <3>2 DEF LoadState, TypeOK
      <3>3. CASE CreateState(s)
        BY <3>3 DEF CreateState, NewState, EmptyState, TypeOK
      <3>4. ASSUME NEW obj \in live, RecordObject(s, obj)
            PROVE  mem'[s].objects \subseteq live'
        <4>1. WithObject(mem[s], obj).objects = mem[s].objects \cup {obj}
          BY DEF WithObject, TypeOK, State
        <4>2. QED
          BY <3>4, <4>1 DEF RecordObject, TypeOK
      <3>5. ASSUME NEW stage \in Stage, NEW activate \in BOOLEAN, Advance(s, stage, activate)
            PROVE  mem'[s].objects \subseteq live'
        <4>1. mem'[s] = [mem[s] EXCEPT !.stage = stage, !.activated = @ \/ activate]
          BY <3>5 DEF Advance, TypeOK
        <4>2. QED
          BY <4>1 DEF TypeOK, State
      <3>6. ASSUME NEW failure \in Failures, RecordFailure(s, failure)
            PROVE  mem'[s].objects \subseteq live'
        <4>1. mem'[s] = [mem[s] EXCEPT !.failures = @ \cup {failure}]
          BY <3>6 DEF RecordFailure, TypeOK
        <4>2. QED
          BY <4>1 DEF TypeOK, State
      <3>7. QED
        BY <1>2, <3>1, <3>2, <3>3, <3>4, <3>5, <3>6 DEF Agent
    <2>2. QED
      BY <1>0, <1>2, <2>1, AgentStep
  <1>3. ASSUME NEW s \in Sessions, Flush(s)
        PROVE  OnlyLiveObjects'
    <2>0. /\ mem[s].objects \subseteq live
          /\ EmptyState.objects = {}
          /\ Raise(s) => /\ mem'[s].objects \subseteq live
                         /\ \A t \in Sessions \ {s} : mem'[t] = mem[t]
      BY DEF Raise, EmptyState, TypeOK
    <2>1. CASE Acquire(s)
      BY <2>1 DEF Acquire
    <2>2. CASE LockTimeout(s) \/ SaveRecovered(s) \/ SaveFails(s)
      BY <1>0, <2>0, <2>2 DEF LockTimeout, SaveRecovered, SaveFails, storage
    <2>3. CASE MergeFromDisk(s)
      <3>1. Merge(mem[s], disk).objects \subseteq live
        BY DEF Merge, Unknown, TypeOK, State
      <3>2. QED
        BY <1>0, <2>0, <2>3, <3>1 DEF MergeFromDisk, storage, TypeOK
    <2>4. CASE Save(s)
      BY <2>0, <2>4 DEF Save
    <2>5. CASE Release(s)
      BY <1>0, <2>0, <2>5 DEF Release
    <2>6. QED
      BY <1>3, <2>1, <2>2, <2>3, <2>4, <2>5 DEF Flush
  <1>4. ASSUME NEW s \in Sessions, ProcessEnds(s)
        PROVE  OnlyLiveObjects'
    BY <1>0, <1>4 DEF ProcessEnds, EmptyState, TypeOK
  <1>5. QED
    BY <1>1, <1>2, <1>3, <1>4 DEF Next

(* Every object a session holds or the file has exists on Meta.            *)
THEOREM ObjectsExistOnMeta == Spec => []OnlyLiveObjects
  <1>1. Init => OnlyLiveObjects
    BY DEF Init, OnlyLiveObjects, EmptyState
  <1>2. QED
    BY <1>1, OnlyLiveStep, TypeCorrect, PTL DEF Spec

(* What a step does to the ids that exist on Meta: at most one more.       *)
LEMMA LiveIdsStep ==
    ASSUME TypeOK, [Next]_vars
    PROVE  \/ IdsOf(live') = IdsOf(live)
           \/ /\ UNCHANGED disk
              /\ \E id \in Ids \ IdsOf(live) : IdsOf(live') = IdsOf(live) \cup {id}
  <1>1. CASE UNCHANGED live
    BY <1>1
  <1>2. CASE live' # live
    <2>1. PICK s \in Sessions : \/ \E ref \in Refs \cup {NoRef} : CreateOnMeta(s, ref)
                                \/ \E ref \in AssetRefs : ReuseAsset(s, ref)
      BY <1>2 DEF Next, Environment, EditPlan, DamageFile, RepairFile, Agent, LoadState,
                  CreateState, RecordObject, RecordRefused, Advance, RecordFailure, Flush,
                  Acquire, LockTimeout, MergeFromDisk, SaveRecovered, Save, SaveFails,
                  Release, ProcessEnds, vars, external
    <2>2. ASSUME NEW ref \in Refs \cup {NoRef}, CreateOnMeta(s, ref)
          PROVE  /\ UNCHANGED disk
                 /\ \E id \in Ids \ IdsOf(live) : IdsOf(live') = IdsOf(live) \cup {id}
      <3>1. PICK id \in Ids \ IdsOf(live) :
                live' = live \cup {[id |-> id, ref |-> ref, plan |-> doc[s]]}
        BY <2>2 DEF CreateOnMeta
      <3>2. IdsOf(live') = IdsOf(live) \cup {id}
        <4> DEFINE obj == [id |-> id, ref |-> ref, plan |-> doc[s]]
        <4>1. obj.id = id
          OBVIOUS
        <4>2. live' = live \cup {obj}
          BY <3>1
        <4> HIDE DEF obj
        <4>3. QED
          BY <4>1, <4>2 DEF IdsOf
      <3>3. QED
        BY <2>2, <3>2 DEF CreateOnMeta, storage
    <2>3. ASSUME NEW ref \in AssetRefs, ReuseAsset(s, ref)
          PROVE  IdsOf(live') = IdsOf(live)
      <3>1. PICK o \in live :
                live' = live \cup {[id |-> o.id, ref |-> ref, plan |-> doc[s]]}
        BY <2>3 DEF ReuseAsset
      <3>2. QED
        BY <3>1 DEF IdsOf
    <2>4. QED
      BY <2>1, <2>2, <2>3
  <1>3. QED
    BY <1>1, <1>2

(* The store implements CampaignLedger under the refinement mapping of     *)
(* StateStore: a save is a commit, a creation on Meta is a creation, and   *)
(* every other step of a session is invisible.                             *)
THEOREM StoreImplementsLedger ==
    ASSUME LockWorks
    PROVE  Spec => ImplementsLedger
  <1>1. Init => Ledger!Init
    BY DEF Init, Ledger!Init, EmptyState, IdsOf
  <1>2. TypeOK /\ StoreInv /\ OnlyLiveObjects' /\ [Next]_vars => [Ledger!Next]_(Ledger!vars)
    <2> SUFFICES ASSUME TypeOK, StoreInv, OnlyLiveObjects', [Next]_vars
                 PROVE  [Ledger!Next]_(Ledger!vars)
      OBVIOUS
    <2>1. CASE UNCHANGED disk
      BY <2>1, LiveIdsStep DEF Ledger!Next, Ledger!Create, Ledger!vars
    <2>2. CASE disk' # disk
      <3>1. PICK s \in Sessions : Save(s)
        BY <2>2, OnlySaveWrites
      <3>2. /\ disk' = mem[s] /\ live' = live /\ mem[s] \in State /\ disk \in State
            /\ Extends(mem[s], disk)
        BY <3>1 DEF Save, external, TypeOK, StoreInv, MergedHoldsFile
      <3>3. IdsOf(disk'.objects) \in SUBSET IdsOf(live)
        BY <3>2 DEF OnlyLiveObjects, IdsOf
      <3>4. disk'.stage \in disk.stage .. LastStage
        BY <3>2, LastStageAssumption DEF Extends, State, Stage
      <3>5. disk'.activated \in BOOLEAN /\ (disk.activated => disk'.activated)
        BY <3>2 DEF Extends, State
      <3>6. IdsOf(disk.objects) \subseteq IdsOf(disk'.objects)
        BY <3>2 DEF Extends
      <3>7. QED
        BY <3>2, <3>3, <3>4, <3>5, <3>6 DEF Ledger!Next, Ledger!Commit
    <2>3. QED
      BY <2>1, <2>2
  <1>3. QED
    BY <1>1, <1>2, TypeCorrect, StoreInvariant, ObjectsExistOnMeta, PTL
       DEF Spec, ImplementsLedger, Ledger!Spec

-----------------------------------------------------------------------------
(* Conflicting objects are reported, with or without a working lock.       *)

ConflictInv == ConflictReported /\ CopyConflictsCovered

(* A merge brings two objects of one plan element together only if the     *)
(* session already had them or the merge says so.                          *)
LEMMA MergeReportsConflicts ==
    ASSUME NEW mine \in State, NEW other \in State, NEW ref \in Refs,
           NoRef \notin Refs,
           HasConflict(Merge(mine, other), ref)
    PROVE  HasConflict(mine, ref) \/ ref \in MergeConflicts(mine, other)
  <1>1. Merge(mine, other).objects = mine.objects \cup Unknown(mine, other)
    BY DEF Merge, State
  <1>2. PICK o \in mine.objects \cup Unknown(mine, other),
             p \in mine.objects \cup Unknown(mine, other) :
                o.ref = ref /\ p.ref = ref /\ o.id # p.id
    BY <1>1 DEF HasConflict
  <1>3. CASE o \in mine.objects /\ p \in mine.objects
    BY <1>2, <1>3 DEF HasConflict
  <1>4. CASE o \in Unknown(mine, other) /\ p \in Unknown(mine, other)
    BY <1>2, <1>4 DEF MergeConflicts, MeetsAnother
  <1>5. CASE o \in Unknown(mine, other) /\ p \in mine.objects
    BY <1>2, <1>5 DEF MergeConflicts, MeetsAnother, ByPlanRef
  <1>6. CASE o \in mine.objects /\ p \in Unknown(mine, other)
    BY <1>2, <1>6 DEF MergeConflicts, MeetsAnother, ByPlanRef
  <1>7. QED
    BY <1>2, <1>3, <1>4, <1>5, <1>6

(* A conflict that is covered stays covered.                               *)
LEMMA CoveredGrows ==
    ASSUME TypeOK, [Next]_vars
    PROVE  Covered \subseteq Covered'
  <1>1. CASE Environment \/ UNCHANGED vars
    BY <1>1 DEF Environment, EditPlan, DamageFile, RepairFile, vars, session, history,
                Covered, BeingReported
  <1>2. ASSUME NEW s \in Sessions, Agent(s)
        PROVE  Covered \subseteq Covered'
    BY <1>2, AgentStep DEF Covered, BeingReported, TypeOK
  <1>3. ASSUME NEW s \in Sessions,
               pc[s] = "saved" => \/ conflicts[s] \subseteq told' \cup silenced'
                                  \/ pc'[s] = "saved" /\ conflicts'[s] = conflicts[s],
               told \subseteq told', silenced \subseteq silenced',
               \A t \in Sessions \ {s} : pc'[t] = pc[t] /\ conflicts'[t] = conflicts[t]
        PROVE  Covered \subseteq Covered'
    BY <1>3 DEF Covered, BeingReported
  <1>4. ASSUME NEW s \in Sessions, Flush(s)
        PROVE  Covered \subseteq Covered'
    <2>1. CASE Acquire(s) \/ LockTimeout(s) \/ MergeFromDisk(s) \/ SaveRecovered(s) \/ Save(s)
      BY <1>3, <2>1 DEF Acquire, LockTimeout, MergeFromDisk, SaveRecovered, Save, Raise,
                        history, TypeOK
    <2>2. CASE SaveFails(s) \/ Release(s)
      BY <1>3, <2>2 DEF SaveFails, Release, Raise, TypeOK
    <2>3. QED
      BY <1>4, <2>1, <2>2 DEF Flush
  <1>5. ASSUME NEW s \in Sessions, ProcessEnds(s)
        PROVE  Covered \subseteq Covered'
    BY <1>3, <1>5 DEF ProcessEnds, TypeOK
  <1>6. QED
    BY <1>1, <1>2, <1>4, <1>5 DEF Next

(* The invariant survives a step in which only session s moves, if what    *)
(* the step leaves in the file and in s's copy is covered.                 *)
LEMMA ConflictInvBySession ==
    ASSUME TypeOK, ConflictInv, [Next]_vars, NEW s \in Sessions,
           \A ref \in Refs : HasConflict(disk', ref) => ref \in Covered',
           \A ref \in Refs : HasConflict(mem'[s], ref) =>
               ref \in Covered' \/ (pc'[s] = "merged" /\ ref \in conflicts'[s]),
           \A t \in Sessions \ {s} :
               pc'[t] = pc[t] /\ mem'[t] = mem[t] /\ conflicts'[t] = conflicts[t]
    PROVE  ConflictInv'
  <1>1. ConflictReported'
    BY DEF ConflictReported, HasConflict
  <1>2. CopyConflictsCovered'
    <2> SUFFICES ASSUME NEW t \in Sessions, NEW ref \in Refs, HasConflict(mem'[t], ref)
                 PROVE  ref \in Covered' \/ (pc'[t] = "merged" /\ ref \in conflicts'[t])
      BY DEF CopyConflictsCovered, HasConflict
    <2>1. CASE t = s
      BY <2>1
    <2>2. CASE t # s
      BY <2>2, CoveredGrows DEF ConflictInv, CopyConflictsCovered
    <2>3. QED
      BY <2>1, <2>2
  <1>3. QED
    BY <1>1, <1>2 DEF ConflictInv

LEMMA NoConflictInEmpty ==
    \A ref \in Refs, d \in Plan : ~HasConflict(EmptyState, ref) /\ ~HasConflict(NewState(d), ref)
  BY DEF HasConflict, EmptyState, NewState

LEMMA ConflictInvAgent ==
    ASSUME TypeOK, ConflictInv, NEW s \in Sessions, Agent(s)
    PROVE  ConflictInv'
  <1>1. /\ [Next]_vars /\ UNCHANGED <<disk, conflicts>>
        /\ pc[s] # "merged"
        /\ Covered \subseteq Covered'
        /\ \A t \in Sessions \ {s} : pc'[t] = pc[t] /\ mem'[t] = mem[t]
    BY AgentStep, CoveredGrows DEF Next
  <1>2. \A ref \in Refs : HasConflict(disk', ref) => ref \in Covered'
    BY <1>1 DEF ConflictInv, ConflictReported
  <1>3. ASSUME NEW ref \in Refs, HasConflict(mem'[s], ref)
        PROVE  HasConflict(mem[s], ref) \/ HasConflict(disk, ref)
    <2>1. CASE UNCHANGED mem
      BY <1>3, <2>1
    <2>2. CASE LoadState(s)
      BY <1>3, <2>2 DEF LoadState, TypeOK
    <2>3. CASE CreateState(s)
      BY <1>3, <2>3, NoConflictInEmpty DEF CreateState, TypeOK
    <2>4. ASSUME NEW obj \in live, RecordObject(s, obj), mem' # mem
          PROVE  HasConflict(mem[s], ref)
      <3>1. RecordAppends(mem[s], obj) /\ mem'[s] = WithObject(mem[s], obj)
        BY <2>4 DEF RecordObject, TypeOK
      <3>2. mem'[s].objects = mem[s].objects \cup {obj}
        BY <3>1 DEF WithObject, TypeOK, State
      <3>3. obj.ref = ref => obj.ref = NoRef \/ \A o \in mem[s].objects : o.ref # ref
        BY <3>1 DEF RecordAppends, ByPlanRef
      <3>4. QED
        BY <1>3, <3>2, <3>3, RefsAssumption DEF HasConflict
    <2>5. ASSUME NEW stage \in Stage, NEW activate \in BOOLEAN, Advance(s, stage, activate)
          PROVE  HasConflict(mem[s], ref)
      <3>1. mem'[s] = [mem[s] EXCEPT !.stage = stage, !.activated = @ \/ activate]
        BY <2>5 DEF Advance, TypeOK
      <3>2. mem'[s].objects = mem[s].objects
        BY <3>1 DEF TypeOK, State
      <3>3. QED
        BY <1>3, <3>2 DEF HasConflict
    <2>6. ASSUME NEW failure \in Failures, RecordFailure(s, failure)
          PROVE  HasConflict(mem[s], ref)
      <3>1. mem'[s] = [mem[s] EXCEPT !.failures = @ \cup {failure}]
        BY <2>6 DEF RecordFailure, TypeOK
      <3>2. mem'[s].objects = mem[s].objects
        BY <3>1 DEF TypeOK, State
      <3>3. QED
        BY <1>3, <3>2 DEF HasConflict
    <2>7. QED
      BY <2>1, <2>2, <2>3, <2>4, <2>5, <2>6
         DEF Agent, CreateOnMeta, ReuseAsset, RecordRefused
  <1>4. \A ref \in Refs : HasConflict(mem'[s], ref) => ref \in Covered'
    BY <1>1, <1>3 DEF ConflictInv, ConflictReported, CopyConflictsCovered
  <1>5. QED
    BY <1>1, <1>2, <1>4, ConflictInvBySession

LEMMA ConflictInvFlush ==
    ASSUME TypeOK, ConflictInv, NEW s \in Sessions, Flush(s) \/ ProcessEnds(s)
    PROVE  ConflictInv'
  <1>1. [Next]_vars /\ Covered \subseteq Covered'
    BY CoveredGrows DEF Next
  <1>2. /\ \A ref \in Refs : HasConflict(disk, ref) => ref \in Covered'
        /\ \A ref \in Refs : HasConflict(mem[s], ref) =>
               ref \in Covered' \/ (pc[s] = "merged" /\ ref \in conflicts[s])
    BY <1>1 DEF ConflictInv, ConflictReported, CopyConflictsCovered
  <1>3. ASSUME Raise(s)
        PROVE  /\ \A t \in Sessions \ {s} : pc'[t] = pc[t] /\ mem'[t] = mem[t]
               /\ \A ref \in Refs : HasConflict(mem'[s], ref) => HasConflict(mem[s], ref)
    BY <1>3, NoConflictInEmpty DEF Raise, TypeOK, HasConflict, EmptyState
  <1>4. CASE Acquire(s)
    <2>1. /\ pc[s] = "locking" /\ UNCHANGED <<disk, mem, conflicts>>
          /\ \A t \in Sessions \ {s} : pc'[t] = pc[t]
      BY <1>4 DEF Acquire, TypeOK
    <2>2. QED
      BY <1>1, <1>2, <2>1, ConflictInvBySession
  <1>5. CASE LockTimeout(s) \/ SaveRecovered(s)
    <2>1. pc[s] \in {"locking", "locked"} /\ Raise(s) /\ UNCHANGED <<disk, conflicts>>
      BY <1>5 DEF LockTimeout, SaveRecovered, storage
    <2>2. QED
      BY <1>1, <1>2, <1>3, <2>1, ConflictInvBySession
  <1>6. CASE MergeFromDisk(s)
    <2>1. /\ pc[s] = "locked" /\ pc'[s] = "merged"
          /\ mem'[s] = IF file = "absent" THEN mem[s] ELSE Merge(mem[s], disk)
          /\ conflicts'[s] = IF file = "absent" THEN {} ELSE MergeConflicts(mem[s], disk)
          /\ UNCHANGED disk
          /\ \A t \in Sessions \ {s} :
                pc'[t] = pc[t] /\ mem'[t] = mem[t] /\ conflicts'[t] = conflicts[t]
      BY <1>6 DEF MergeFromDisk, storage, TypeOK
    <2>2. \A ref \in Refs : HasConflict(mem'[s], ref) =>
              HasConflict(mem[s], ref) \/ ref \in conflicts'[s]
      BY <2>1, MergeReportsConflicts, RefsAssumption DEF TypeOK
    <2>3. QED
      BY <1>1, <1>2, <2>1, <2>2, ConflictInvBySession
  <1>7. CASE Save(s)
    <2>1. /\ pc'[s] = "saved" /\ conflicts' = conflicts /\ mem' = mem /\ disk' = mem[s]
          /\ \A t \in Sessions \ {s} : pc'[t] = pc[t]
      BY <1>7 DEF Save, TypeOK
    <2>2. conflicts[s] \subseteq Covered'
      BY <2>1 DEF Covered, BeingReported
    <2>3. QED
      BY <1>1, <1>2, <2>1, <2>2, ConflictInvBySession
  <1>8. CASE SaveFails(s)
    <2>1. /\ Raise(s) /\ UNCHANGED disk /\ conflicts[s] \subseteq silenced'
          /\ \A t \in Sessions \ {s} : conflicts'[t] = conflicts[t]
      BY <1>8 DEF SaveFails, TypeOK
    <2>2. conflicts[s] \subseteq Covered'
      BY <2>1 DEF Covered
    <2>3. QED
      BY <1>1, <1>2, <1>3, <2>1, <2>2, ConflictInvBySession
  <1>9. CASE Release(s)
    <2>1. /\ Raise(s) \/ (UNCHANGED mem /\ \A t \in Sessions \ {s} : pc'[t] = pc[t])
          /\ pc[s] = "saved" /\ UNCHANGED disk
          /\ \A t \in Sessions \ {s} : conflicts'[t] = conflicts[t]
      BY <1>9 DEF Release, TypeOK
    <2>2. QED
      BY <1>1, <1>2, <1>3, <2>1, ConflictInvBySession
  <1>10. CASE ProcessEnds(s)
    <2>1. /\ mem'[s] = EmptyState /\ UNCHANGED disk
          /\ \A t \in Sessions \ {s} :
                pc'[t] = pc[t] /\ mem'[t] = mem[t] /\ conflicts'[t] = conflicts[t]
      BY <1>10 DEF ProcessEnds, TypeOK
    <2>2. \A ref \in Refs : ~HasConflict(EmptyState, ref)
      BY DEF HasConflict, EmptyState
    <2>3. QED
      BY <1>1, <1>2, <2>1, <2>2, ConflictInvBySession
  <1>11. QED
    BY <1>4, <1>5, <1>6, <1>7, <1>8, <1>9, <1>10 DEF Flush

(* Whatever the sessions and the filesystem do, two objects for one plan   *)
(* element on file were reported, are being reported, or their report was  *)
(* cut short by a crash or a failed save (store.py:235-243).               *)
THEOREM ConflictsAreReported == Spec => []ConflictReported
  <1>1. Init => ConflictInv
    BY NoConflictInEmpty
       DEF Init, ConflictInv, ConflictReported, CopyConflictsCovered, HasConflict, EmptyState
  <1>2. TypeOK /\ ConflictInv /\ [Next]_vars => ConflictInv'
    <2> SUFFICES ASSUME TypeOK, ConflictInv, [Next]_vars PROVE ConflictInv'
      OBVIOUS
    <2>1. CASE Environment \/ UNCHANGED vars
      BY <2>1 DEF Environment, EditPlan, DamageFile, RepairFile, vars, storage, session,
                  history, ConflictInv, ConflictReported, CopyConflictsCovered,
                  HasConflict, Covered, BeingReported
    <2>2. ASSUME NEW s \in Sessions, Agent(s)
          PROVE  ConflictInv'
      BY <2>2, ConflictInvAgent
    <2>3. ASSUME NEW s \in Sessions, Flush(s) \/ ProcessEnds(s)
          PROVE  ConflictInv'
      BY <2>3, ConflictInvFlush
    <2>4. QED
      BY <2>1, <2>2, <2>3 DEF Next
  <1>3. ConflictInv => ConflictReported
    BY DEF ConflictInv
  <1>4. QED
    BY <1>1, <1>2, <1>3, TypeCorrect, PTL DEF Spec

-----------------------------------------------------------------------------
(* The fingerprint describes every object on file, as long as the plan is  *)
(* not edited before the first of them is there.                           *)

(* A step of one session keeps PlanInv if it ends the session, or if what  *)
(* it adds to its copy and its pending objects was built from its plan or  *)
(* is on file.                                                             *)
LEMMA PlanInvBySession ==
    ASSUME TypeOK, PlanInv, NEW s \in Sessions,
           UNCHANGED <<plan, file, disk, doc>>,
           \A t \in Sessions \ {s} :
               pc'[t] = pc[t] /\ mem'[t] = mem[t] /\ pending'[t] = pending[t],
           \/ pc'[s] = "idle"
           \/ /\ pc[s] # "idle"
              /\ mem'[s].account = mem[s].account
              /\ mem'[s].fingerprint = mem[s].fingerprint
              /\ \A o \in mem'[s].objects \cup pending'[s] :
                    \/ o \in mem[s].objects \cup pending[s]
                    \/ o.plan = doc[s]
                    \/ file # "absent" /\ o \in disk.objects
    PROVE  PlanInv'
  <1> USE DEF PlanInv, AtWork
  <1>1. CopyDescribesPlan'
    <2> SUFFICES ASSUME NEW t \in Sessions, pc'[t] # "idle"
                 PROVE  /\ Describes(mem'[t], doc[t])
                        /\ \A o \in mem'[t].objects \cup pending'[t] : Describes(mem'[t], o.plan)
      BY DEF CopyDescribesPlan, Describes, FingerprintMatches
    <2>1. CASE t # s
      BY <2>1 DEF CopyDescribesPlan
    <2>2. CASE t = s
      <3>1. /\ Describes(mem[s], doc[s])
            /\ \A o \in mem[s].objects \cup pending[s] : Describes(mem[s], o.plan)
        BY <2>2 DEF CopyDescribesPlan
      <3>2. \A p : Describes(mem'[s], p) <=> Describes(mem[s], p)
        BY <2>2 DEF Describes, FingerprintMatches
      <3>3. \A o \in disk.objects : file # "absent" => Describes(mem[s], o.plan)
        BY <2>2 DEF CopyAgreesWithFile, FingerprintDescribesObjects, Describes,
                    FingerprintMatches
      <3>4. QED
        BY <2>2, <3>1, <3>2, <3>3
    <2>3. QED
      BY <2>1, <2>2
  <1>2. CopyAgreesWithFile'
    BY DEF CopyAgreesWithFile
  <1>3. PlanIsCurrent'
    BY DEF PlanIsCurrent, Describes, FingerprintMatches
  <1>4. FingerprintDescribesObjects'
    BY DEF FingerprintDescribesObjects, Describes, FingerprintMatches
  <1>5. QED
    BY <1>1, <1>2, <1>3, <1>4

(* Starting or resuming a session keeps PlanInv.                           *)
LEMMA PlanInvStart ==
    ASSUME TypeOK, AbsentIsEmpty, PlanInv, NEW s \in Sessions,
           LoadState(s) \/ CreateState(s)
    PROVE  PlanInv'
  <1>1. /\ UNCHANGED <<plan, file, disk>>
        /\ doc'[s] = plan /\ pending'[s] = {}
        /\ \A t \in Sessions \ {s} :
              /\ pc'[t] = pc[t] /\ mem'[t] = mem[t]
              /\ pending'[t] = pending[t] /\ doc'[t] = doc[t]
    BY DEF LoadState, CreateState, storage, external, TypeOK
  <1>2. /\ Describes(mem'[s], plan)
        /\ \A o \in mem'[s].objects : Describes(mem'[s], o.plan)
        /\ file # "absent" => mem'[s] = disk
    <2>1. CASE LoadState(s)
      <3>1. mem'[s] = disk /\ MayResume(disk, plan) /\ file # "absent"
        BY <2>1 DEF LoadState, TypeOK
      <3>2. CASE disk.objects = {}
        BY <3>1, <3>2 DEF PlanInv, PlanIsCurrent
      <3>3. CASE disk.objects # {}
        <4>1. PICK o \in disk.objects : Describes(disk, o.plan)
          BY <3>3 DEF PlanInv, FingerprintDescribesObjects
        <4>2. disk.fingerprint # NoFingerprint
          BY <4>1, FingerprintAssumption
             DEF Describes, FingerprintMatches, Fingerprint, TypeOK, State, Object, Plan
        <4>3. Describes(disk, plan)
          BY <3>1, <3>3, <4>2 DEF MayResume, PlanDrifted, Describes
        <4>4. QED
          BY <3>1, <4>3 DEF PlanInv, FingerprintDescribesObjects
      <3>4. QED
        BY <3>1, <3>2, <3>3 DEF PlanInv, FingerprintDescribesObjects
    <2>2. CASE CreateState(s)
      <3>1. mem'[s] = NewState(plan) /\ file = "absent"
        BY <2>2 DEF CreateState, TypeOK
      <3>2. QED
        BY <3>1 DEF NewState, EmptyState, Describes, FingerprintMatches
    <2>3. QED
      BY <2>1, <2>2
  <1>3. CopyDescribesPlan'
    <2> SUFFICES ASSUME NEW t \in Sessions, pc'[t] # "idle"
                 PROVE  /\ Describes(mem'[t], doc'[t])
                        /\ \A o \in mem'[t].objects \cup pending'[t] : Describes(mem'[t], o.plan)
      BY DEF CopyDescribesPlan, AtWork, Describes, FingerprintMatches
    <2>1. QED
      BY <1>1, <1>2 DEF PlanInv, CopyDescribesPlan, AtWork
  <1>4. CopyAgreesWithFile'
    BY <1>1, <1>2 DEF PlanInv, CopyAgreesWithFile, AtWork
  <1>5. PlanIsCurrent'
    BY <1>1 DEF PlanInv, PlanIsCurrent, AtWork, Describes, FingerprintMatches
  <1>6. QED
    BY <1>1, <1>3, <1>4, <1>5
       DEF PlanInv, FingerprintDescribesObjects, Describes, FingerprintMatches

LEMMA PlanInvAgent ==
    ASSUME TypeOK, AbsentIsEmpty, PlanInv, NEW s \in Sessions, Agent(s)
    PROVE  PlanInv'
  <1>1. CASE LoadState(s) \/ CreateState(s)
    BY <1>1, PlanInvStart
  <1>2. ASSUME NEW ref \in Refs \cup {NoRef}, CreateOnMeta(s, ref)
        PROVE  PlanInv'
    <2>1. PICK id \in Ids :
              pending' = [pending EXCEPT ![s] =
                             @ \cup {[id |-> id, ref |-> ref, plan |-> doc[s]]}]
      BY <1>2 DEF CreateOnMeta
    <2>2. QED
      BY <1>2, <2>1, PlanInvBySession DEF CreateOnMeta, storage, TypeOK
  <1>3. ASSUME NEW ref \in AssetRefs, ReuseAsset(s, ref)
        PROVE  PlanInv'
    <2>1. PICK o \in live :
              pending' = [pending EXCEPT ![s] =
                             @ \cup {[id |-> o.id, ref |-> ref, plan |-> doc[s]]}]
      BY <1>3 DEF ReuseAsset
    <2>2. QED
      BY <1>3, <2>1, PlanInvBySession DEF ReuseAsset, storage, TypeOK
  <1>4. ASSUME NEW obj \in live, RecordObject(s, obj)
        PROVE  PlanInv'
    <2>1. /\ mem'[s] = mem[s] \/ mem'[s] = WithObject(mem[s], obj)
          /\ obj \in mem[s].objects \cup pending[s]
          /\ pending'[s] \subseteq pending[s]
          /\ \A t \in Sessions \ {s} :
                pc'[t] = pc[t] /\ mem'[t] = mem[t] /\ pending'[t] = pending[t]
      BY <1>4 DEF RecordObject, TypeOK
    <2>2. /\ mem'[s].account = mem[s].account
          /\ mem'[s].fingerprint = mem[s].fingerprint
          /\ mem'[s].objects \subseteq mem[s].objects \cup {obj}
      BY <2>1 DEF WithObject, TypeOK, State
    <2>3. UNCHANGED <<plan, file, disk, doc>> /\ pc[s] # "idle"
      BY <1>4 DEF RecordObject, storage, external
    <2>4. QED
      BY <2>1, <2>2, <2>3, PlanInvBySession
  <1>5. ASSUME NEW obj \in live, RecordRefused(s, obj)
        PROVE  PlanInv'
    BY <1>5, PlanInvBySession DEF RecordRefused, storage, external, TypeOK
  <1>6. ASSUME NEW stage \in Stage, NEW activate \in BOOLEAN, Advance(s, stage, activate)
        PROVE  PlanInv'
    <2>1. mem'[s] = [mem[s] EXCEPT !.stage = stage, !.activated = @ \/ activate]
      BY <1>6 DEF Advance, TypeOK
    <2>2. /\ mem'[s].account = mem[s].account
          /\ mem'[s].fingerprint = mem[s].fingerprint
          /\ mem'[s].objects = mem[s].objects
      BY <2>1 DEF TypeOK, State
    <2>3. QED
      BY <1>6, <2>2, PlanInvBySession DEF Advance, storage, external, TypeOK
  <1>7. ASSUME NEW failure \in Failures, RecordFailure(s, failure)
        PROVE  PlanInv'
    <2>1. mem'[s] = [mem[s] EXCEPT !.failures = @ \cup {failure}]
      BY <1>7 DEF RecordFailure, TypeOK
    <2>2. /\ mem'[s].account = mem[s].account
          /\ mem'[s].fingerprint = mem[s].fingerprint
          /\ mem'[s].objects = mem[s].objects
      BY <2>1 DEF TypeOK, State
    <2>3. QED
      BY <1>7, <2>2, PlanInvBySession DEF RecordFailure, storage, external, TypeOK
  <1>8. QED
    BY <1>1, <1>2, <1>3, <1>4, <1>5, <1>6, <1>7 DEF Agent

LEMMA PlanInvFlush ==
    ASSUME TypeOK, StoreInv, PlanInv, NEW s \in Sessions, Flush(s) \/ ProcessEnds(s)
    PROVE  PlanInv'
  <1>0. ASSUME Raise(s), UNCHANGED <<plan, file, disk, doc, pending>>, pc[s] # "idle"
        PROVE  PlanInv'
    BY <1>0, PlanInvBySession DEF Raise, TypeOK
  <1>1. CASE Acquire(s)
    BY <1>1, PlanInvBySession DEF Acquire, external, TypeOK
  <1>2. CASE LockTimeout(s) \/ SaveRecovered(s) \/ SaveFails(s)
    BY <1>0, <1>2 DEF LockTimeout, SaveRecovered, SaveFails, storage, external
  <1>3. CASE MergeFromDisk(s)
    <2>1. /\ mem'[s] = IF file = "absent" THEN mem[s] ELSE Merge(mem[s], disk)
          /\ UNCHANGED <<plan, file, disk, doc, pending>> /\ pc[s] # "idle"
          /\ \A t \in Sessions \ {s} : pc'[t] = pc[t] /\ mem'[t] = mem[t]
      BY <1>3 DEF MergeFromDisk, storage, external, TypeOK
    <2>2. /\ Merge(mem[s], disk).account = mem[s].account
          /\ Merge(mem[s], disk).fingerprint = mem[s].fingerprint
          /\ Merge(mem[s], disk).objects \subseteq mem[s].objects \cup disk.objects
      BY DEF Merge, Unknown, TypeOK, State
    <2>3. QED
      BY <2>1, <2>2, PlanInvBySession
  <1>4. CASE Save(s)
    <2>1. /\ pc[s] = "merged" /\ pc' = [pc EXCEPT ![s] = "saved"]
          /\ disk' = mem[s] /\ file' = "readable"
          /\ UNCHANGED <<plan, doc, mem, pending>>
      BY <1>4 DEF Save, external
    <2>2. s \in AtWork /\ AtWork' = AtWork
      BY <2>1 DEF AtWork, TypeOK
    <2>3. CopyDescribesPlan'
      BY <2>1, <2>2 DEF PlanInv, CopyDescribesPlan, Describes, FingerprintMatches
    <2>4. FingerprintDescribesObjects'
      BY <2>1, <2>2 DEF PlanInv, CopyDescribesPlan, FingerprintDescribesObjects, Describes,
                        FingerprintMatches
    <2>5. mem[s].objects = {} => disk.objects = {}
      BY <2>1 DEF StoreInv, MergedHoldsFile, Extends, IdsOf
    <2>6. PlanIsCurrent'
      BY <2>1, <2>2, <2>5 DEF PlanInv, PlanIsCurrent, CopyDescribesPlan, Describes,
                              FingerprintMatches
    <2>7. CopyAgreesWithFile'
      <3>1. CASE file # "absent"
        BY <2>1, <2>2, <3>1 DEF PlanInv, CopyAgreesWithFile
      <3>2. CASE file = "absent"
        <4>1. disk.objects = {}
          BY <3>2 DEF StoreInv, AbsentIsEmpty, EmptyState
        <4>2. \A t \in AtWork : Describes(mem[t], plan)
          BY <4>1 DEF PlanInv, PlanIsCurrent, CopyDescribesPlan
        <4>3. QED
          BY <2>1, <2>2, <4>2 DEF CopyAgreesWithFile, Describes, FingerprintMatches
      <3>3. QED
        BY <3>1, <3>2
    <2>8. QED
      BY <2>3, <2>4, <2>6, <2>7 DEF PlanInv
  <1>5. CASE Release(s)
    <2>1. UNCHANGED <<plan, file, disk, doc, pending>> /\ pc[s] # "idle"
      BY <1>5 DEF Release, external
    <2>2. CASE Raise(s)
      BY <1>0, <2>1, <2>2
    <2>3. CASE UNCHANGED mem /\ \A t \in Sessions \ {s} : pc'[t] = pc[t]
      BY <2>1, <2>3, PlanInvBySession
    <2>4. QED
      BY <1>5, <2>2, <2>3 DEF Release, TypeOK
  <1>6. CASE ProcessEnds(s)
    BY <1>6, PlanInvBySession DEF ProcessEnds, external, TypeOK
  <1>7. QED
    BY <1>1, <1>2, <1>3, <1>4, <1>5, <1>6 DEF Flush

(* With a lock that works and no edit of the plan before its first object  *)
(* is on file, every object there was built from the plan the file's       *)
(* fingerprint and account name: no resume applies another plan to them    *)
(* (store.py:142-146).                                                     *)
THEOREM ResumeIsForOnePlan ==
    ASSUME LockWorks, ~EarlyEdits
    PROVE  Spec => []FingerprintDescribesObjects
  <1>1. Init => PlanInv
    BY DEF Init, PlanInv, CopyDescribesPlan, CopyAgreesWithFile, PlanIsCurrent,
           FingerprintDescribesObjects, AtWork, EmptyState
  <1>2. TypeOK /\ StoreInv /\ PlanInv /\ [Next]_vars => PlanInv'
    <2> SUFFICES ASSUME TypeOK, StoreInv, PlanInv, [Next]_vars PROVE PlanInv'
      OBVIOUS
    <2>1. CASE EditPlan
      <3>1. disk.objects # {} /\ UNCHANGED <<file, disk, pc, doc, mem, pending>>
        BY <2>1 DEF EditPlan, storage, session
      <3>2. QED
        BY <3>1 DEF PlanInv, CopyDescribesPlan, CopyAgreesWithFile, PlanIsCurrent,
                    FingerprintDescribesObjects, AtWork, Describes, FingerprintMatches
    <2>2. CASE DamageFile \/ RepairFile \/ UNCHANGED vars
      <3>1. /\ UNCHANGED <<plan, disk, pc, doc, mem, pending>>
            /\ (file' = "absent") <=> (file = "absent")
        BY <2>2 DEF DamageFile, RepairFile, vars, storage, session, external
      <3>2. QED
        BY <3>1 DEF PlanInv, CopyDescribesPlan, CopyAgreesWithFile, PlanIsCurrent,
                    FingerprintDescribesObjects, AtWork, Describes, FingerprintMatches
    <2>3. ASSUME NEW s \in Sessions, Agent(s)
          PROVE  PlanInv'
      BY <2>3, PlanInvAgent DEF StoreInv
    <2>4. ASSUME NEW s \in Sessions, Flush(s) \/ ProcessEnds(s)
          PROVE  PlanInv'
      BY <2>4, PlanInvFlush
    <2>5. QED
      BY <2>1, <2>2, <2>3, <2>4 DEF Next, Environment
  <1>3. PlanInv => FingerprintDescribesObjects
    BY DEF PlanInv
  <1>4. QED
    BY <1>1, <1>2, <1>3, TypeCorrect, StoreInvariant, PTL DEF Spec
=============================================================================
