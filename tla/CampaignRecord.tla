--------------------------- MODULE CampaignRecord ---------------------------
(***************************************************************************)
(* The content of one campaign's state.json (models/state.py) and the      *)
(* in-memory operations on it: recording a created object, moving the      *)
(* stage marker, and folding another session's copy into one's own         *)
(* (state/store.py, _merge_from_disk).  Everything here is pure; the       *)
(* sessions that call it are in StateStore.                                *)
(*                                                                         *)
(* The list of objects is kept as a set.  Its order is visible only        *)
(* through by_plan_ref, which returns the first match: where two objects   *)
(* have one plan_ref (after a conflict) the model lets either be first.    *)
(***************************************************************************)
EXTENDS Naturals, FiniteSets

CONSTANTS
    Ids,        \* ids Meta gives to objects
    Refs,       \* plan elements, e.g. ad_sets[0].ads[1]
    Accounts,   \* ad accounts
    Contents,   \* contents of a plan's "campaign" section
    Failures,   \* failures a session may record
    LastStage   \* stage_order(Stage.ACTIVATED)

ASSUME LastStageAssumption == LastStage \in Nat

NoFingerprint == "no fingerprint"   \* plan_fingerprint is None
NoAccount     == "no account"
NoRef         == "no plan_ref"      \* plan_ref is None

ASSUME RefsAssumption == NoRef \notin Refs

ASSUME FingerprintAssumption == NoFingerprint \notin Contents

(* A campaign plan.  The fingerprint is a digest of the campaign section   *)
(* only; the account sits beside it.                                       *)
Plan == [account : Accounts, campaign : Contents]

Fingerprint(doc) == doc.campaign

FingerprintMatches(recorded, doc) == recorded = Fingerprint(doc)

Stage == 0 .. LastStage

(* A CreatedObject.  `plan' is the plan it was built from: history that    *)
(* the file does not hold, kept to state what the fingerprint is for.      *)
Object == [id : Ids, ref : Refs \cup {NoRef}, plan : Plan]

State ==
    [account     : Accounts \cup {NoAccount},
     fingerprint : Contents \cup {NoFingerprint},
     stage       : Stage,
     objects     : SUBSET Object,
     failures    : SUBSET Failures,
     activated   : BOOLEAN]

EmptyState ==
    [account |-> NoAccount, fingerprint |-> NoFingerprint, stage |-> 0,
     objects |-> {}, failures |-> {}, activated |-> FALSE]

NewState(doc) ==
    [EmptyState EXCEPT !.account = doc.account, !.fingerprint = Fingerprint(doc)]

IdsOf(objects) == {o.id : o \in objects}

ByPlanRef(state, ref) == {o \in state.objects : o.ref = ref /\ ref # NoRef}

-----------------------------------------------------------------------------
(* CampaignState.record.  The call returns the object already held for the *)
(* plan element, appends the new one, or raises ValueError.                *)

RecordFinds(state, obj) == \E o \in ByPlanRef(state, obj.ref) : o.id = obj.id

RecordAppends(state, obj) ==
    /\ ByPlanRef(state, obj.ref) = {}
    /\ obj.id \notin IdsOf(state.objects)

RecordRaises(state, obj) ==
    \/ \E o \in ByPlanRef(state, obj.ref) : o.id # obj.id
    \/ ByPlanRef(state, obj.ref) = {} /\ obj.id \in IdsOf(state.objects)

WithObject(state, obj) == [state EXCEPT !.objects = @ \cup {obj}]

(* CampaignState.advance, which raises ValueError on a step backwards.     *)
CanAdvance(state, stage) == stage >= state.stage

-----------------------------------------------------------------------------
(* _merge_from_disk.  `known' is computed from (type, id) before the loop. *)
Unknown(mine, disk) == {o \in disk.objects : o.id \notin IdsOf(mine.objects)}

(* The plan elements for which a merged-in object meets a different one:   *)
(* one of this session's, or one merged in earlier in the same loop.       *)
MeetsAnother(mine, disk, obj) ==
    \/ ByPlanRef(mine, obj.ref) # {}
    \/ \E p \in Unknown(mine, disk) : p.ref = obj.ref /\ p.id # obj.id

(* Mistakes a change to this code could make: a missing plan_ref compared  *)
(* like any other; only the objects on disk compared with one another.     *)
MergeConflictsAnyRef(mine, disk) ==
    {o.ref : o \in {u \in Unknown(mine, disk) :
        \E p \in mine.objects \cup Unknown(mine, disk) : p.ref = u.ref /\ p.id # u.id}}

MergeConflictsOnDisk(mine, disk) ==
    {o.ref : o \in {u \in Unknown(mine, disk) :
        u.ref # NoRef /\ \E p \in Unknown(mine, disk) : p.ref = u.ref /\ p.id # u.id}}

MergeConflicts(mine, disk) ==
    {o.ref : o \in {u \in Unknown(mine, disk) : u.ref # NoRef /\ MeetsAnother(mine, disk, u)}}

Later(s, t) == IF t > s THEN t ELSE s

(* A mistake: a conflicting object is left out, as record() would have     *)
(* done.                                                                   *)
MergeDropsConflicts(mine, disk) ==
    [mine EXCEPT !.objects =
                    @ \cup {o \in Unknown(mine, disk) : ByPlanRef(mine, o.ref) = {}},
                 !.failures = @ \cup disk.failures,
                 !.stage = Later(@, disk.stage),
                 !.activated = @ \/ disk.activated]

(* The account and the fingerprint of the merged state are this session's. *)
Merge(mine, disk) ==
    [mine EXCEPT !.objects = @ \cup Unknown(mine, disk),
                 !.failures = @ \cup disk.failures,
                 !.stage = Later(@, disk.stage),
                 !.activated = @ \/ disk.activated]

(* What a later version of the file may not take back.                     *)
Extends(later, earlier) ==
    /\ IdsOf(earlier.objects) \subseteq IdsOf(later.objects)
    /\ earlier.failures \subseteq later.failures
    /\ earlier.stage <= later.stage
    /\ earlier.activated => later.activated
=============================================================================
