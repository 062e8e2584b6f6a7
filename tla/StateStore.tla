----------------------------- MODULE StateStore -----------------------------
(***************************************************************************)
(* Sessions working on one campaign's state.json through StateStore        *)
(* (state/store.py) and the file lock it takes (locking.py).               *)
(*                                                                         *)
(* A session is a process that loads the plan and the state, creates       *)
(* objects on Meta, and records each through a mutation helper whose last  *)
(* act is _flush: lock, merge what another session saved, save, unlock.    *)
(* Between any two of those steps another session may run, the process may *)
(* die, and a person may edit the plan or damage the file.                 *)
(***************************************************************************)
EXTENDS CampaignRecord

CONSTANTS
    Sessions,       \* processes using the workspace
    Free,           \* the lock's value when nobody holds it
    AssetRefs,      \* plan elements that may share one uploaded asset
    LockWorks,      \* FALSE on a filesystem without flock (locking.py:97)
    WritesMayFail,  \* a save may raise OSError (disk full)
    CrashesHappen,  \* a session's process may end at any point
    EarlyEdits      \* the plan may be edited while the state has no objects

ASSUME StoreAssumption ==
    /\ Free \notin Sessions
    /\ AssetRefs \subseteq Refs
    /\ LockWorks \in BOOLEAN
    /\ WritesMayFail \in BOOLEAN
    /\ CrashesHappen \in BOOLEAN
    /\ EarlyEdits \in BOOLEAN

VARIABLES
    live,       \* objects that exist on Meta
    plan,       \* the campaign plan file
    file,       \* state.json: "absent", "readable" or "unreadable"
    disk,       \* its content
    sidecars,   \* objects in state.json.recovered-* files
    lock,       \* holder of the flock on .state.json.lock
    pc,         \* where each session is
    starting,   \* the flush under way is load_or_create_state's
    doc,        \* the plan each session loaded
    mem,        \* the CampaignState each session holds
    pending,    \* objects a session created and has yet to record
    conflicts   \* what _merge_from_disk returned to the flush under way

VARIABLES       \* history, which the code does not keep
    acked,      \* ids whose record_object returned, or raised after its save
    rejected,   \* objects whose record_object raised ValueError
    told,       \* plan elements some session reported as conflicting
    silenced    \* conflicts whose report was lost to a crash or an OSError

external == <<live, plan>>
history == <<acked, rejected, told, silenced>>
session == <<pc, starting, doc, mem, pending, conflicts>>
storage == <<file, disk, sidecars, lock>>
vars == <<external, history, session, storage>>

Init ==
    /\ live = {}
    /\ plan \in Plan
    /\ file = "absent"
    /\ disk = EmptyState
    /\ sidecars = {}
    /\ lock = Free
    /\ pc = [s \in Sessions |-> "idle"]
    /\ starting = [s \in Sessions |-> FALSE]
    /\ doc = [s \in Sessions |-> plan]
    /\ mem = [s \in Sessions |-> EmptyState]
    /\ pending = [s \in Sessions |-> {}]
    /\ conflicts = [s \in Sessions |-> {}]
    /\ acked = {}
    /\ rejected = {}
    /\ told = {}
    /\ silenced = {}

-----------------------------------------------------------------------------
(* Outside the code: Meta, the person editing files, and the agent.        *)

(* The agent asks Meta for an object its state does not have yet.          *)
CreateOnMeta(s, ref) ==
    /\ pc[s] = "ready"
    /\ ByPlanRef(mem[s], ref) = {}
    /\ \A o \in pending[s] : o.ref # ref
    /\ \E id \in Ids \ IdsOf(live) :
          LET obj == [id |-> id, ref |-> ref, plan |-> doc[s]]
          IN  /\ live' = live \cup {obj}
              /\ pending' = [pending EXCEPT ![s] = @ \cup {obj}]
    /\ UNCHANGED <<plan, storage, pc, starting, doc, mem, conflicts, history>>

(* Two plan elements use the same asset, and the upload gives back the id  *)
(* it has on Meta already.                                                 *)
ReuseAsset(s, ref) ==
    /\ pc[s] = "ready"
    /\ ref \in AssetRefs
    /\ ByPlanRef(mem[s], ref) = {}
    /\ \A o \in pending[s] : o.ref # ref
    /\ \E o \in live :
          LET obj == [id |-> o.id, ref |-> ref, plan |-> doc[s]]
          IN  /\ o.ref \in AssetRefs
              /\ live' = live \cup {obj}
              /\ pending' = [pending EXCEPT ![s] = @ \cup {obj}]
    /\ UNCHANGED <<plan, storage, pc, starting, doc, mem, conflicts, history>>

EditPlan ==
    /\ EarlyEdits \/ disk.objects # {}
    /\ plan' \in Plan \ {plan}
    /\ UNCHANGED <<live, storage, session, history>>

DamageFile ==
    /\ file = "readable"
    /\ file' = "unreadable"
    /\ UNCHANGED <<external, disk, sidecars, lock, session, history>>

RepairFile ==
    /\ file = "unreadable"
    /\ file' = "readable"
    /\ UNCHANGED <<external, disk, sidecars, lock, session, history>>

-----------------------------------------------------------------------------
(* load_or_create_state.  The two refusals and an unreadable file raise    *)
(* and leave everything as it was.                                         *)

PlanDrifted(state, d) ==
    /\ state.fingerprint # NoFingerprint
    /\ ~FingerprintMatches(state.fingerprint, d)
    /\ state.objects # {}

(* A mistake: the fingerprint is not compared.                             *)
MayResumeAnyPlan(state, d) == state.account = d.account

MayResume(state, d) ==
    /\ state.account = d.account
    /\ ~PlanDrifted(state, d)

LoadState(s) ==
    /\ pc[s] = "idle"
    /\ file = "readable"
    /\ MayResume(disk, plan)
    /\ pc' = [pc EXCEPT ![s] = "ready"]
    /\ doc' = [doc EXCEPT ![s] = plan]
    /\ mem' = [mem EXCEPT ![s] = disk]
    /\ pending' = [pending EXCEPT ![s] = {}]
    /\ UNCHANGED <<external, storage, starting, conflicts, history>>

CreateState(s) ==
    /\ pc[s] = "idle"
    /\ file = "absent"
    /\ pc' = [pc EXCEPT ![s] = "locking"]
    /\ starting' = [starting EXCEPT ![s] = TRUE]
    /\ doc' = [doc EXCEPT ![s] = plan]
    /\ mem' = [mem EXCEPT ![s] = NewState(plan)]
    /\ pending' = [pending EXCEPT ![s] = {}]
    /\ UNCHANGED <<external, storage, conflicts, history>>

-----------------------------------------------------------------------------
(* The mutation helpers: change the session's copy, then _flush.           *)

RecordObject(s, obj) ==
    /\ pc[s] = "ready"
    /\ obj \in pending[s] \cup mem[s].objects
    /\ \/ RecordAppends(mem[s], obj) /\ mem' = [mem EXCEPT ![s] = WithObject(@, obj)]
       \/ RecordFinds(mem[s], obj) /\ UNCHANGED mem
    /\ pending' = [pending EXCEPT ![s] = @ \ {obj}]
    /\ pc' = [pc EXCEPT ![s] = "locking"]
    /\ UNCHANGED <<external, storage, starting, doc, conflicts, history>>

(* record() raises ValueError before the flush.                            *)
RecordRefused(s, obj) ==
    /\ pc[s] = "ready"
    /\ obj \in pending[s]
    /\ RecordRaises(mem[s], obj)
    /\ pending' = [pending EXCEPT ![s] = @ \ {obj}]
    /\ rejected' = rejected \cup {obj}
    /\ UNCHANGED <<external, storage, pc, starting, doc, mem, conflicts>>
    /\ UNCHANGED <<acked, told, silenced>>

(* advance().  The agent sets `activated' on its copy before it advances   *)
(* to the last stage.                                                      *)
Advance(s, stage, activate) ==
    /\ pc[s] = "ready"
    /\ CanAdvance(mem[s], stage)
    /\ activate => stage = LastStage
    /\ mem' = [mem EXCEPT ![s].stage = stage, ![s].activated = @ \/ activate]
    /\ pc' = [pc EXCEPT ![s] = "locking"]
    /\ UNCHANGED <<external, storage, starting, doc, pending, conflicts, history>>

RecordFailure(s, failure) ==
    /\ pc[s] = "ready"
    /\ mem' = [mem EXCEPT ![s].failures = @ \cup {failure}]
    /\ pc' = [pc EXCEPT ![s] = "locking"]
    /\ UNCHANGED <<external, storage, starting, doc, pending, conflicts, history>>

-----------------------------------------------------------------------------
(* _flush.                                                                 *)

(* The flush raises.  The caller of load_or_create_state is left with no   *)
(* state at all; any other caller still holds its copy.                    *)
Raise(s) ==
    /\ pc' = [pc EXCEPT ![s] = IF starting[s] THEN "idle" ELSE "ready"]
    /\ mem' = [mem EXCEPT ![s] = IF starting[s] THEN EmptyState ELSE @]
    /\ starting' = [starting EXCEPT ![s] = FALSE]

(* A mistake: the lock is taken whoever holds it.                          *)
CanLockAlways == TRUE

CanLock == LockWorks => lock = Free

Unlocked(s) == IF lock = s THEN Free ELSE lock

Acquire(s) ==
    /\ pc[s] = "locking"
    /\ CanLock
    /\ lock' = IF LockWorks THEN s ELSE lock
    /\ pc' = [pc EXCEPT ![s] = "locked"]
    /\ UNCHANGED <<external, file, disk, sidecars, history>>
    /\ UNCHANGED <<starting, doc, mem, pending, conflicts>>

(* A mistake: the polling loop has no deadline.                            *)
KeepsPolling(s) == pc[s] = "locking" /\ ~CanLock /\ UNCHANGED vars

LockTimeout(s) ==
    /\ pc[s] = "locking"
    /\ ~CanLock
    /\ Raise(s)
    /\ UNCHANGED <<external, storage, doc, pending, conflicts, history>>

MergeFromDisk(s) ==
    /\ pc[s] = "locked"
    /\ file # "unreadable"
    /\ mem' = [mem EXCEPT ![s] = IF file = "absent" THEN @ ELSE Merge(@, disk)]
    /\ conflicts' = [conflicts EXCEPT ![s] =
                        IF file = "absent" THEN {} ELSE MergeConflicts(mem[s], disk)]
    /\ pc' = [pc EXCEPT ![s] = "merged"]
    /\ UNCHANGED <<external, storage, starting, doc, pending, history>>

(* The file cannot be read: this copy goes beside it, then StateError.     *)
SaveRecovered(s) ==
    /\ pc[s] = "locked"
    /\ file = "unreadable"
    /\ \/ sidecars' = sidecars \cup mem[s].objects
       \/ WritesMayFail /\ UNCHANGED sidecars
    /\ lock' = Unlocked(s)
    /\ Raise(s)
    /\ UNCHANGED <<external, file, disk, doc, pending, conflicts, history>>

Save(s) ==
    /\ pc[s] = "merged"
    /\ disk' = mem[s]
    /\ file' = "readable"
    /\ pc' = [pc EXCEPT ![s] = "saved"]
    /\ UNCHANGED <<external, sidecars, lock, history>>
    /\ UNCHANGED <<starting, doc, mem, pending, conflicts>>

(* atomic_write leaves the old file in place; the conflicts are forgotten. *)
SaveFails(s) ==
    /\ WritesMayFail
    /\ pc[s] = "merged"
    /\ lock' = Unlocked(s)
    /\ Raise(s)
    /\ conflicts' = [conflicts EXCEPT ![s] = {}]
    /\ silenced' = silenced \cup conflicts[s]
    /\ UNCHANGED <<external, file, disk, sidecars, doc, pending>>
    /\ UNCHANGED <<acked, rejected, told>>

(* The lock is released; then the conflicts, if any, are raised.           *)
Release(s) ==
    /\ pc[s] = "saved"
    /\ lock' = Unlocked(s)
    /\ IF conflicts[s] # {}
       THEN Raise(s)
       ELSE /\ pc' = [pc EXCEPT ![s] = "ready"]
            /\ starting' = [starting EXCEPT ![s] = FALSE]
            /\ UNCHANGED mem
    /\ conflicts' = [conflicts EXCEPT ![s] = {}]
    /\ acked' = acked \cup IdsOf(mem[s].objects)
    /\ told' = told \cup conflicts[s]
    /\ UNCHANGED <<external, file, disk, sidecars, doc, pending>>
    /\ UNCHANGED <<rejected, silenced>>

(* The process ends, by a crash or because its work is done.  The          *)
(* operating system releases its lock.                                     *)
ProcessEnds(s) ==
    /\ CrashesHappen
    /\ pc[s] # "idle"
    /\ lock' = Unlocked(s)
    /\ pc' = [pc EXCEPT ![s] = "idle"]
    /\ starting' = [starting EXCEPT ![s] = FALSE]
    /\ mem' = [mem EXCEPT ![s] = EmptyState]
    /\ pending' = [pending EXCEPT ![s] = {}]
    /\ conflicts' = [conflicts EXCEPT ![s] = {}]
    /\ silenced' = IF pc[s] = "saved" THEN silenced \cup conflicts[s] ELSE silenced
    /\ UNCHANGED <<external, file, disk, sidecars, doc, acked, rejected, told>>

-----------------------------------------------------------------------------
Environment == EditPlan \/ DamageFile \/ RepairFile

Agent(s) ==
    \/ \E ref \in Refs \cup {NoRef} : CreateOnMeta(s, ref)
    \/ \E ref \in AssetRefs : ReuseAsset(s, ref)
    \/ LoadState(s)
    \/ CreateState(s)
    \/ \E obj \in live : RecordObject(s, obj) \/ RecordRefused(s, obj)
    \/ \E stage \in Stage, activate \in BOOLEAN : Advance(s, stage, activate)
    \/ \E failure \in Failures : RecordFailure(s, failure)

Flush(s) ==
    \/ Acquire(s)
    \/ LockTimeout(s)
    \/ MergeFromDisk(s)
    \/ SaveRecovered(s)
    \/ Save(s)
    \/ SaveFails(s)
    \/ Release(s)

Next == Environment \/ \E s \in Sessions : Agent(s) \/ Flush(s) \/ ProcessEnds(s)

Spec == Init /\ [][Next]_vars

(* A process that has begun a flush goes on running until the flush ends:  *)
(* nothing in it waits for anything but the lock, and that wait has a      *)
(* deadline.                                                               *)
FairSpec == Spec /\ \A s \in Sessions : WF_vars(Flush(s))

-----------------------------------------------------------------------------
(* Type invariant: every variable of the store stays in its domain.        *)
TypeOK ==
    /\ live \in SUBSET Object
    /\ plan \in Plan
    /\ file \in {"absent", "readable", "unreadable"}
    /\ disk \in State
    /\ sidecars \in SUBSET Object
    /\ lock \in Sessions \cup {Free}
    /\ pc \in [Sessions -> {"idle", "ready", "locking", "locked", "merged", "saved"}]
    /\ starting \in [Sessions -> BOOLEAN]
    /\ doc \in [Sessions -> Plan]
    /\ mem \in [Sessions -> State]
    /\ pending \in [Sessions -> SUBSET Object]
    /\ conflicts \in [Sessions -> SUBSET Refs]
    /\ acked \in SUBSET Ids
    /\ rejected \in SUBSET Object
    /\ told \in SUBSET Refs
    /\ silenced \in SUBSET Refs

(* The file never takes back an id, a failure, the furthest stage or the   *)
(* activation that any session's _flush put into it, whatever the order in *)
(* which sessions load, merge, save, fail and die (store.py:198-243).      *)
FileOnlyGrows == [][Extends(disk', disk)]_disk

(* Once record_object has returned - or has raised the conflict it found - *)
(* the id is in state.json for good (store.py:180-188).                    *)
RecordedIsDurable == acked \subseteq IdsOf(disk.objects)

(* Two objects for one plan element are never on file unnoticed: the       *)
(* session whose flush brought them together has raised, is about to raise *)
(* or was cut off between its save and the raise (store.py:235-243).       *)
HasConflict(state, ref) ==
    \E o, p \in state.objects : o.ref = ref /\ p.ref = ref /\ o.id # p.id

BeingReported == UNION {conflicts[s] : s \in {t \in Sessions : pc[t] = "saved"}}

Covered == told \cup silenced \cup BeingReported

ConflictReported == \A ref \in Refs : HasConflict(disk, ref) => ref \in Covered

(* The same without the excuse of an interrupted report: both ids are kept *)
(* "and then says so" (tests/test_locking.py:152).                         *)
ConflictSaid ==
    \A ref \in Refs : HasConflict(disk, ref) => ref \in told \cup BeingReported

(* Every object on file was built from the plan whose fingerprint and      *)
(* account the file carries (store.py:142-146, models/state.py:152-157).   *)
Describes(state, p) == state.account = p.account /\ FingerprintMatches(state.fingerprint, p)

FingerprintDescribesObjects == \A o \in disk.objects : Describes(disk, o.plan)

(* When record_object raises, the id it was given is on file or beside it  *)
(* (store.py:204-206).                                                     *)
RefusedIdIsKept == IdsOf(rejected) \subseteq IdsOf(disk.objects \cup sidecars)

(* A plan element that has its object on file keeps it (store.py:203-204). *)
PlanRefIsKept ==
    [][\A o \in disk.objects : \E p \in disk'.objects : p.id = o.id /\ p.ref = o.ref]_disk

(* The inductive invariant behind FileOnlyGrows and RecordedIsDurable,     *)
(* when the lock works.                                                    *)
LockHeld == \A s \in Sessions : pc[s] \in {"locked", "merged", "saved"} => lock = s

AbsentIsEmpty == file = "absent" => disk = EmptyState

MergedHoldsFile == \A s \in Sessions : pc[s] = "merged" => Extends(mem[s], disk)

SavedIsFile == \A s \in Sessions : pc[s] = "saved" => disk = mem[s]

StoreInv == LockHeld /\ AbsentIsEmpty /\ MergedHoldsFile /\ SavedIsFile /\ RecordedIsDurable

(* No session and no file holds an object that Meta did not create.        *)
OnlyLiveObjects == disk.objects \subseteq live /\ \A s \in Sessions : mem[s].objects \subseteq live

(* A conflict in a session's copy is covered too, or about to be saved     *)
(* with its report still to come.  With ConflictReported, inductive.       *)
CopyConflictsCovered ==
    \A s \in Sessions, ref \in Refs :
        HasConflict(mem[s], ref) =>
            \/ ref \in Covered
            \/ pc[s] = "merged" /\ ref \in conflicts[s]

(* The inductive invariant behind FingerprintDescribesObjects when the     *)
(* plan is edited only after the first object is on file: every session    *)
(* at work, and the file, describe one plan, and until an object is on     *)
(* file that plan is the one in the plan file.                             *)
AtWork == {s \in Sessions : pc[s] # "idle"}

CopyDescribesPlan ==
    \A s \in AtWork :
        /\ Describes(mem[s], doc[s])
        /\ \A o \in mem[s].objects \cup pending[s] : Describes(mem[s], o.plan)

CopyAgreesWithFile ==
    file # "absent" =>
        \A s \in AtWork : /\ mem[s].account = disk.account
                          /\ mem[s].fingerprint = disk.fingerprint

PlanIsCurrent ==
    disk.objects = {} =>
        /\ \A s \in AtWork : doc[s] = plan
        /\ file # "absent" => Describes(disk, plan)

PlanInv ==
    /\ CopyDescribesPlan
    /\ CopyAgreesWithFile
    /\ PlanIsCurrent
    /\ FingerprintDescribesObjects

(* A session that has started a flush comes out of it, and one that got    *)
(* the lock gives it back, whatever fails on the way (state/store.py:236). *)
FlushEnds ==
    \A s \in Sessions :
        /\ pc[s] = "locking" ~> pc[s] \in {"ready", "idle"}
        /\ lock = s ~> lock # s

(* The file with its sessions implements the ledger.                       *)
Ledger == INSTANCE CampaignLedger WITH
              live <- IdsOf(live),
              ledger <- IdsOf(disk.objects),
              stage <- disk.stage,
              activated <- disk.activated

ImplementsLedger == Ledger!Spec
=============================================================================
