------------------------------ MODULE Install -------------------------------
(***************************************************************************)
(* Installing, upgrading and rolling back the payload of one target        *)
(* directory (install/engine.py) and its install-state record              *)
(* (install/state.py).                                                     *)
(*                                                                         *)
(*   backup -> stage -> verify staged -> swap -> verify installed -> record *)
(*                                                                         *)
(* One operation runs at a time (install_lock), and it may stop after any  *)
(* step: a crash and an exception leave the same things behind.  A skill   *)
(* directory is abstracted to what release its files are from; copying and *)
(* deleting one takes two steps, so that an operation can stop half way.   *)
(***************************************************************************)
EXTENDS Naturals, FiniteSets, FiniteSetsExt

CONSTANTS
    Skills,             \* skill directories, numbered as their names sort
    Versions,           \* releases
    SkillsOf,           \* manifest.skills of each release
    None,
    MaxBackups,         \* a bound: backups are named 1 .. MaxBackups, by age
    BackupRetention,    \* BACKUP_RETENTION
    Starts,             \* what the target may hold at first
    BackupWanted,       \* how it is run: {FALSE} with --no-backup, {TRUE} without
    UserEdits,          \* the user edits and deletes installed skills
    BackupDies,         \* the operation may stop while it takes the backup
    RollbackDies,       \* the operation may stop while it rolls back
    ClockGoesBack       \* a backup's timestamp may be older than another's

ASSUME InstallAssumption ==
    /\ Skills \subseteq Nat
    /\ IsFiniteSet(Skills)
    /\ SkillsOf \in [Versions -> SUBSET Skills]
    /\ None \notin Skills
    /\ None \notin Versions
    /\ Versions \cap {"absent", "mixed", "damaged"} = {}
    /\ MaxBackups \in Nat
    /\ None \notin 1 .. MaxBackups
    /\ BackupRetention \in Nat \ {0}
    /\ Starts \subseteq {"empty", "recorded", "by hand"}
    /\ BackupWanted \subseteq BOOLEAN
    /\ {UserEdits, BackupDies, RollbackDies, ClockGoesBack} \subseteq BOOLEAN

(* Half of a skill's files, with and without the SKILL.md that names it.   *)
Partial == {"mixed", "damaged"}

Tree == [Skills -> Versions \cup Partial \cup {"absent"}]

Names == 1 .. MaxBackups

(* The marker of an update in progress.  The releases and the stage it also *)
(* names are only ever shown, so advance(), which rewrites them, is left   *)
(* out: a stop before it and one after it cannot be told apart.            *)
Progress == [backup : Names \cup {None}]

Record == [version : Versions \cup {None}, files : SUBSET Skills, progress : Progress \cup {None}]

Backup == [tree : Tree, record : Record \cup {None}]

ASSUME NoneAssumption == None \notin Progress \cup Record \cup Backup

VARIABLES
    tree,       \* the skill directories in the target
    recordFile, \* install-state file: "missing", "readable" or "unreadable"
    record,     \* its content; the empty record while it is missing
    backups     \* the backup directories that exist, by name

VARIABLES       \* the operation that is running
    pc,         \* the step it is at
    release,    \* the version it installs
    dir,        \* the backup it uses, or None
    pre,        \* the record's bytes before begin(), or None
    orphans,    \* plan.removed_skills
    todo,       \* the directories its loop has yet to handle
    current     \* the one half handled

VARIABLES       \* history
    before,     \* the tree before the update in progress began, if there is one
    good        \* the backup that update took of that tree, once complete

target == <<tree, recordFile, record, backups>>
operation == <<pc, release, dir, pre, orphans, todo, current>>
history == <<before, good>>
vars == <<target, operation, history>>

NoTree == [k \in Skills |-> "absent"]

NoRecord == [version |-> None, files |-> {}, progress |-> None]

TreeOf(v) == [k \in Skills |-> IF k \in SkillsOf[v] THEN v ELSE "absent"]

RecordOf(v) == [version |-> v, files |-> SkillsOf[v], progress |-> None]

Init ==
    /\ \E start \in Starts, v \in Versions :
          /\ tree = IF start = "empty" THEN NoTree ELSE TreeOf(v)
          /\ recordFile = IF start = "recorded" THEN "readable" ELSE "missing"
          /\ record = IF start = "recorded" THEN RecordOf(v) ELSE NoRecord
    /\ backups = [n \in Names |-> None]
    /\ pc = "idle"
    /\ release = None
    /\ dir = None
    /\ pre = None
    /\ orphans = {}
    /\ todo = {}
    /\ current = None
    /\ before = NoTree
    /\ good = None

LooksOurs(content) == content \notin {"absent", "damaged"}

Installed(t) == {k \in Skills : t[k] # "absent"}

Existing == {n \in Names : backups[n] # None}

(* No update is in progress any more.                                      *)
Forget == before' = NoTree /\ good' = None

(* The operation is over, by its end, an exception or a crash.             *)
Rest ==
    /\ pc' = "idle"
    /\ release' = None
    /\ dir' = None
    /\ pre' = None
    /\ orphans' = {}
    /\ todo' = {}
    /\ current' = None

-----------------------------------------------------------------------------
(* The user.                                                               *)

EditSkill(k) ==
    /\ UserEdits
    /\ pc = "idle"
    /\ tree' \in {[tree EXCEPT ![k] = c] : c \in (Partial \cup {"absent"}) \ {tree[k]}}
    /\ tree[k] # "absent"
    /\ UNCHANGED <<recordFile, record, backups, operation, history>>

DamageRecord ==
    /\ UserEdits
    /\ pc = "idle"
    /\ recordFile = "readable"
    /\ recordFile' = "unreadable"
    /\ UNCHANGED <<tree, record, backups, operation, history>>

-----------------------------------------------------------------------------
(* plan_install, and apply_install up to state.begin.  With --force an     *)
(* up-to-date payload is installed again; without, the call just returns.  *)

(* A mistake: a resumed update takes a backup of its own.                  *)
ResumeBackupNever == None

ResumeBackup ==
    IF /\ record.progress # None
       /\ record.progress.backup # None
       /\ backups[record.progress.backup] # None
    THEN record.progress.backup
    ELSE None

AnythingInstalled(v) == \E k \in SkillsOf[v] : tree[k] # "absent"

(* A directory that does not exist yet, named after the time.              *)
NewBackup == {n \in Names \ Existing : ClockGoesBack \/ \A m \in Existing : m < n}

BackupDir(v, wanted) ==
    IF ResumeBackup # None THEN {ResumeBackup}
    ELSE IF wanted /\ AnythingInstalled(v) THEN NewBackup
    ELSE {None}

(* A mistake: the marker is kept in memory and not saved at the start.     *)
MarkedLater(n) == record

Marked(n) == [record EXCEPT !.progress = [backup |-> n]]

StartInstall(v, n) ==
    /\ release' = v
    /\ IF n # None /\ n \notin Existing
       THEN /\ dir' = n
            /\ pre' = IF recordFile = "missing" THEN None ELSE record
            /\ pc' = "backup"
       ELSE /\ dir' = None
            /\ pre' = None
            /\ pc' = "stage"
    /\ orphans' = {k \in Skills \ SkillsOf[v] : LooksOurs(tree[k])}
    /\ IF record.progress = None
       THEN before' = tree /\ good' = None
       ELSE UNCHANGED history

Begin(v, wanted) ==
    /\ pc = "idle"
    /\ recordFile # "unreadable"
    /\ \E n \in BackupDir(v, wanted) :
          /\ record' = Marked(n)
          /\ StartInstall(v, n)
    /\ recordFile' = "readable"
    /\ UNCHANGED <<tree, backups, todo, current>>

-----------------------------------------------------------------------------
(* _take_backup and _prune_backups.                                        *)

MakeBackup ==
    /\ pc = "backup"
    /\ backups' = [backups EXCEPT ![dir] = [tree |-> NoTree, record |-> None]]
    /\ todo' = {k \in Installed(tree) : k \in SkillsOf[release] \/ LooksOurs(tree[k])}
    /\ pc' = "archiving"
    /\ UNCHANGED <<tree, recordFile, record, release, dir, pre, orphans, current, history>>

(* Every loop goes through the directories in the order of their names.    *)
Start(k) ==
    /\ current = None
    /\ k \in todo
    /\ k = Min(todo)
    /\ todo' = todo \ {k}
    /\ current' = k
    /\ UNCHANGED <<pc, release, dir, pre, orphans>>

End ==
    /\ current # None
    /\ current' = None
    /\ UNCHANGED <<pc, release, dir, pre, orphans, todo>>

Done == todo = {} /\ current = None

ArchiveStarts(k) ==
    /\ pc = "archiving"
    /\ Start(k)
    /\ \E half \in Partial : backups' = [backups EXCEPT ![dir].tree[k] = half]
    /\ UNCHANGED <<tree, recordFile, record, history>>

ArchiveEnds ==
    /\ pc = "archiving"
    /\ End
    /\ backups' = [backups EXCEPT ![dir].tree[current] = tree[current]]
    /\ UNCHANGED <<tree, recordFile, record, history>>

SaveBackupRecord ==
    /\ pc = "archiving"
    /\ Done
    /\ backups' = [backups EXCEPT ![dir].record = pre]
    /\ good' = IF tree = before THEN dir ELSE good
    /\ pre' = None
    /\ pc' = "pruning"
    /\ UNCHANGED <<tree, recordFile, record, release, dir, orphans, todo, current, before>>

Newer(n) == {m \in Existing : m > n}

PruneBackups ==
    /\ pc = "pruning"
    /\ backups' = [n \in Names |->
                      IF Cardinality(Newer(n)) >= BackupRetention THEN None ELSE backups[n]]
    /\ dir' = None
    /\ pc' = "stage"
    /\ UNCHANGED <<tree, recordFile, record, release, pre, orphans, todo, current, history>>

-----------------------------------------------------------------------------
(* Staging, swapping, and the end of apply_install.  The staging directory *)
(* is rebuilt from the package by every attempt, so it is not a variable:  *)
(* it is verified, or the operation stops before the swap.                 *)

Staged ==
    /\ pc = "stage"
    /\ todo' = SkillsOf[release]
    /\ pc' = "swapping"
    /\ UNCHANGED <<target, release, dir, pre, orphans, current, history>>

(* rmtree of the installed directory, then a rename of the staged one.     *)
SwapOut(k) ==
    /\ pc = "swapping"
    /\ Start(k)
    /\ \E left \in {"absent"} \cup (IF tree[k] = "absent" THEN {} ELSE Partial) :
          tree' = [tree EXCEPT ![k] = left]
    /\ UNCHANGED <<recordFile, record, backups, history>>

SwapIn ==
    /\ pc = "swapping"
    /\ End
    /\ tree' = [tree EXCEPT ![current] = release]
    /\ UNCHANGED <<recordFile, record, backups, history>>

SwapsEnd ==
    /\ pc = "swapping"
    /\ Done
    /\ todo' = orphans
    /\ orphans' = {}
    /\ pc' = "dropping"
    /\ UNCHANGED <<target, release, dir, pre, current, history>>

(* rmtree of a skill the release dropped, or of one to be restored.        *)
RemoveStarts(k) ==
    /\ pc \in {"dropping", "clearing"}
    /\ Start(k)
    /\ \E left \in Partial : tree' = [tree EXCEPT ![k] = left]
    /\ UNCHANGED <<recordFile, record, backups, history>>

RemoveEnds ==
    /\ pc \in {"dropping", "clearing"}
    /\ End
    /\ tree' = [tree EXCEPT ![current] = "absent"]
    /\ UNCHANGED <<recordFile, record, backups, history>>

DropsEnd ==
    /\ pc = "dropping"
    /\ Done
    /\ pc' = "verifying"
    /\ UNCHANGED <<target, release, dir, pre, orphans, todo, current, history>>

(* verify_tree on the installed skills.                                    *)
Complete(v) == \A k \in SkillsOf[v] : tree[k] = v

Finish ==
    /\ pc = "verifying"
    /\ Complete(release)
    /\ record' = RecordOf(release)
    /\ Rest
    /\ Forget
    /\ UNCHANGED <<tree, recordFile, backups>>

-----------------------------------------------------------------------------
(* rollback.  It raises, and changes nothing, if there is no candidate.    *)

Newest == {n \in Existing : Newer(n) = {}}

Candidate ==
    IF ResumeBackup # None THEN {ResumeBackup}
    ELSE IF record.progress # None THEN {}
    ELSE Newest

(* A mistake: only what the backup holds is cleared.                       *)
ToClearRestored(saved) == {k \in Installed(tree) : saved.tree[k] # "absent"}

ToClear(saved) ==
    {k \in Installed(tree) :
        saved.tree[k] # "absent" \/ k \in record.files \/ LooksOurs(tree[k])}

RollbackStarts ==
    /\ pc = "idle"
    /\ recordFile # "unreadable"
    /\ \E n \in Candidate : dir' = n /\ todo' = ToClear(backups[n])
    /\ pc' = "clearing"
    /\ UNCHANGED <<target, release, pre, orphans, current, history>>

ClearsEnd ==
    /\ pc = "clearing"
    /\ Done
    /\ todo' = Installed(backups[dir].tree)
    /\ pc' = "restoring"
    /\ UNCHANGED <<target, release, dir, pre, orphans, current, history>>

RestoreStarts(k) ==
    /\ pc = "restoring"
    /\ Start(k)
    /\ \E half \in Partial : tree' = [tree EXCEPT ![k] = half]
    /\ UNCHANGED <<recordFile, record, backups, history>>

RestoreEnds ==
    /\ pc = "restoring"
    /\ End
    /\ tree' = [tree EXCEPT ![current] = backups[dir].tree[current]]
    /\ UNCHANGED <<recordFile, record, backups, history>>

(* A mistake: the record is copied whether or not the backup holds one.    *)
RestoredRecordBlindly(saved) == saved.record

(* A backup without a record leaves this one, less the update in progress. *)
RestoredRecord(saved) ==
    IF saved.record # None THEN saved.record ELSE [record EXCEPT !.progress = None]

RollbackEnds ==
    /\ pc = "restoring"
    /\ Done
    /\ record' = RestoredRecord(backups[dir])
    /\ recordFile' = "readable"
    /\ Rest
    /\ Forget
    /\ UNCHANGED <<tree, backups>>

-----------------------------------------------------------------------------
(* The operation stops where it is: it was killed, a copy or a deletion    *)
(* raised, the package is incomplete, or the verification failed.          *)
Stops ==
    /\ pc # "idle"
    /\ pc = "archiving" => BackupDies
    /\ pc \in {"clearing", "restoring"} => RollbackDies
    /\ Rest
    /\ UNCHANGED <<target, history>>

Archive == (\E k \in Skills : ArchiveStarts(k)) \/ ArchiveEnds

Swap == (\E k \in Skills : SwapOut(k)) \/ SwapIn \/ SwapsEnd

Remove == (\E k \in Skills : RemoveStarts(k)) \/ RemoveEnds

Restore == (\E k \in Skills : RestoreStarts(k)) \/ RestoreEnds

Continue ==
    \/ MakeBackup
    \/ Archive
    \/ SaveBackupRecord
    \/ PruneBackups
    \/ Staged
    \/ Swap
    \/ Remove
    \/ DropsEnd
    \/ Finish
    \/ ClearsEnd
    \/ Restore
    \/ RollbackEnds

ForceInstall == \E v \in Versions, wanted \in BackupWanted : Begin(v, wanted)

User == (\E k \in Skills : EditSkill(k)) \/ DamageRecord

Next == User \/ ForceInstall \/ RollbackStarts \/ Continue \/ Stops

Spec == Init /\ [][Next]_vars

(* A user who keeps running `install --force', each run going on to its    *)
(* end.                                                                    *)
PersistentUserSpec == Spec /\ WF_vars(ForceInstall) /\ WF_vars(Continue)

-----------------------------------------------------------------------------
(* Type invariant: every variable of the installer stays in its domain.    *)
TypeOK ==
    /\ tree \in Tree
    /\ recordFile \in {"missing", "readable", "unreadable"}
    /\ record \in Record
    /\ backups \in [Names -> Backup \cup {None}]
    /\ pc \in {"idle", "backup", "archiving", "pruning", "stage", "swapping",
               "dropping", "verifying", "clearing", "restoring"}
    /\ release \in Versions \cup {None}
    /\ dir \in Names \cup {None}
    /\ pre \in Record \cup {None}
    /\ orphans \in SUBSET Skills
    /\ todo \in SUBSET Skills
    /\ current \in Skills \cup {None}
    /\ before \in Tree
    /\ good \in Names \cup {None}

AtRest == pc = "idle" /\ recordFile = "readable" /\ record.progress = None

(* An installation that does not call itself interrupted is the version it *)
(* names, wherever updates and rollbacks were stopped, resumed with this   *)
(* or another release, or undone (engine.py:9-14, docs/reference/cli.md:   *)
(* "recorded only after every file is verified").                          *)
HonestRecord == AtRest /\ record.version # None => Complete(record.version)

(* A release that has been installed leaves nothing of what it dropped     *)
(* (docs/reference/packaging.md, "removed": "nothing stale survives").     *)
NothingStale ==
    AtRest /\ record.version # None =>
        \A k \in Skills \ SkillsOf[record.version] : tree[k] = "absent"

(* Once an update has archived the tree it found, the way back stays: no   *)
(* retry takes another backup in its place, alters it, or prunes it        *)
(* (engine.py:222-224).                                                    *)
Holds(saved, t) == \A k \in Skills : LooksOurs(t[k]) => saved[k] = t[k]

WayBack ==
    record.progress # None /\ good # None =>
        /\ record.progress.backup = good
        /\ good \in Existing
        /\ Holds(backups[good].tree, before)

(* A rollback of an interrupted update with such a backup brings back the  *)
(* tree as it was before the first attempt (engine.py:379-430).            *)
RollbackUndoes ==
    [][pc = "restoring" /\ Done /\ pc' = "idle" /\ good' # good =>
          /\ Holds(tree', before)
          /\ \A k \in Skills : before[k] = "absent" => ~LooksOurs(tree'[k])]_vars

(* A rollback of an interrupted update undoes that update and no earlier   *)
(* one: the recorded version stays (engine.py:384-387, "would quietly      *)
(* downgrade the install instead of undoing this update").                 *)
NoDowngrade ==
    [][pc = "restoring" /\ record' # record /\ record.progress # None =>
          record'.version = record.version]_vars

(* The two together: a rollback takes back the update that was under way,  *)
(* all of it, and nothing else (engine.py:379-430).                        *)
RollbackIsSafe == RollbackUndoes /\ NoDowngrade

(* No backup holds the marker of an update in progress: it "restores an    *)
(* installation that still believes it is mid-update" (engine.py:230-232). *)
NoMarkerInBackup ==
    \A n \in Existing : backups[n].record # None => backups[n].record.progress = None

(* `install --force' rebuilds an installation whose record cannot be read  *)
(* (install/state.py:118-122).                                             *)
ForceRebuilds == recordFile = "unreadable" ~> recordFile = "readable"
=============================================================================
