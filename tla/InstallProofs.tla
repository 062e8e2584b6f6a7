--------------------------- MODULE InstallProofs ----------------------------
(***************************************************************************)
(* Proofs about Install for every set of skills and releases and any       *)
(* number of backups: what a record that claims a version says of the      *)
(* tree, that the way back from an interrupted update stays open, and      *)
(* where a rollback leads.                                                 *)
(***************************************************************************)
EXTENDS Install, FiniteSetTheorems, TLAPS

(* Marking a record keeps its type and its version.                        *)
LEMMA MarkIsType ==
    ASSUME TypeOK, NEW n \in Names \cup {None}
    PROVE  Marked(n) \in Record /\ Marked(n).progress # None /\ Marked(n).version = record.version
  <1>1. [backup |-> n] \in Progress
    BY DEF Progress
  <1>2. QED
    BY <1>1, NoneAssumption DEF Marked, TypeOK, Record

-----------------------------------------------------------------------------
(* The operation that is running                                           *)

Updating == {"backup", "archiving", "pruning", "stage", "swapping", "dropping", "verifying"}

RollingBack == {"clearing", "restoring"}

(* An update knows its release; the backup that is filled or restored is   *)
(* there.                                                                  *)
TypeInv ==
    /\ TypeOK
    /\ pc \in Updating => release \in Versions
    /\ pc = "backup" => dir \in Names
    /\ pc \in {"archiving"} \cup RollingBack => dir \in Existing

LEMMA ExistingIsBackup ==
    ASSUME TypeOK, NEW n \in Existing
    PROVE  n \in Names /\ backups[n] \in Backup
  BY DEF Existing, TypeOK

-----------------------------------------------------------------------------
(* Type correctness                                                        *)

LEMMA InitType == Init => TypeInv
  <1> SUFFICES ASSUME Init PROVE TypeInv
    OBVIOUS
  <1>1. \A v \in Versions : SkillsOf[v] \subseteq Skills
    BY InstallAssumption
  <1>2. NoTree \in Tree /\ \A v \in Versions : TreeOf(v) \in Tree
    BY DEF NoTree, TreeOf, Tree
  <1>3. NoRecord \in Record /\ \A v \in Versions : RecordOf(v) \in Record
    BY <1>1 DEF NoRecord, RecordOf, Record
  <1>4. tree \in Tree /\ record \in Record /\ recordFile \in {"missing", "readable", "unreadable"}
    BY <1>2, <1>3 DEF Init
  <1>5. backups \in [Names -> Backup \cup {None}]
    BY DEF Init
  <1>6. QED
    BY <1>2, <1>4, <1>5 DEF Init, TypeOK, TypeInv, Updating, RollingBack

LEMMA UserType ==
    ASSUME TypeInv, User
    PROVE  TypeInv'
  <1>1. CASE \E k \in Skills : EditSkill(k)
    BY <1>1 DEF EditSkill, operation, history, TypeOK, Tree, Partial, TypeInv, Updating, RollingBack
  <1>2. CASE DamageRecord
    BY <1>2 DEF DamageRecord, operation, history, TypeOK, TypeInv, Updating, RollingBack
  <1>3. QED
    BY <1>1, <1>2 DEF User

LEMMA BackupDirType ==
    ASSUME TypeOK, NEW v, NEW wanted
    PROVE  BackupDir(v, wanted) \subseteq Names \cup {None}
  <1>1. ResumeBackup \in Names \cup {None}
    BY DEF ResumeBackup, TypeOK, Record, Progress
  <1>2. NewBackup \subseteq Names
    BY DEF NewBackup
  <1>3. QED
    BY <1>1, <1>2 DEF BackupDir

LEMMA BeginType ==
    ASSUME TypeInv, ForceInstall
    PROVE  TypeInv'
  <1>1. PICK v \in Versions, wanted \in BackupWanted : Begin(v, wanted)
    BY DEF ForceInstall
  <1>2. PICK n \in Names \cup {None} : record' = Marked(n) /\ StartInstall(v, n)
    BY <1>1, BackupDirType DEF Begin, TypeInv
  <1>3. record' \in Record
    BY <1>2, MarkIsType DEF TypeInv
  <1>4. dir' \in Names \cup {None} /\ pre' \in Record \cup {None} /\ pc' \in {"backup", "stage"}
       /\ (pc' = "backup" => dir' \in Names)
    BY <1>2 DEF StartInstall, TypeOK, TypeInv
  <1>5. before' \in Tree /\ good' \in Names \cup {None}
    BY <1>2 DEF StartInstall, TypeOK, TypeInv, history
  <1>6. release' \in Versions /\ orphans' \subseteq Skills
    BY <1>2 DEF StartInstall
  <1>7. recordFile' = "readable" /\ UNCHANGED <<tree, backups, todo, current>>
    BY <1>1 DEF Begin
  <1>8. QED
    BY <1>3, <1>4, <1>5, <1>6, <1>7 DEF TypeOK, TypeInv, RollingBack

(* A step of a loop.                                                       *)
LEMMA LoopType ==
    ASSUME TypeInv, (\E k \in Skills : Start(k)) \/ End
    PROVE  /\ todo' \subseteq Skills /\ current' \in Skills \cup {None}
           /\ UNCHANGED <<pc, release, dir, pre, orphans>>
  BY DEF Start, End, TypeInv, TypeOK

(* A directory of a backup, or its record.                                 *)
LEMMA BackupStays ==
    ASSUME TypeInv, dir \in Existing,
           \/ \E k \in Skills, c \in Versions \cup Partial \cup {"absent"} :
                  backups' = [backups EXCEPT ![dir].tree[k] = c]
           \/ \E r \in Record \cup {None} : backups' = [backups EXCEPT ![dir].record = r]
    PROVE  backups' \in [Names -> Backup \cup {None}] /\ Existing' = Existing
  <1>1. dir \in Names /\ backups[dir] \in Backup
    BY ExistingIsBackup DEF TypeInv
  <1>2. PICK b \in Backup : backups' = [backups EXCEPT ![dir] = b]
    <2>1. CASE \E k \in Skills, c \in Versions \cup Partial \cup {"absent"} :
                  backups' = [backups EXCEPT ![dir].tree[k] = c]
      <3>1. PICK k \in Skills, c \in Versions \cup Partial \cup {"absent"} :
                backups' = [backups EXCEPT ![dir].tree[k] = c]
        BY <2>1
      <3>2. [backups[dir] EXCEPT !.tree[k] = c] \in Backup
        BY <1>1 DEF Backup, Tree
      <3>3. backups' = [backups EXCEPT ![dir] = [backups[dir] EXCEPT !.tree[k] = c]]
        BY <3>1
      <3>4. QED
        BY <3>2, <3>3
    <2>2. CASE \E r \in Record \cup {None} : backups' = [backups EXCEPT ![dir].record = r]
      <3>1. PICK r \in Record \cup {None} : backups' = [backups EXCEPT ![dir].record = r]
        BY <2>2
      <3>2. [backups[dir] EXCEPT !.record = r] \in Backup
        BY <1>1 DEF Backup
      <3>3. QED
        BY <3>1, <3>2
    <2>3. QED
      BY <2>1, <2>2
  <1>3. QED
    BY <1>1, <1>2, NoneAssumption DEF Existing, TypeInv, TypeOK

LEMMA ArchiveType ==
    ASSUME TypeInv, MakeBackup \/ Archive \/ SaveBackupRecord \/ PruneBackups
    PROVE  TypeInv'
  <1>1. CASE MakeBackup
    <2>1. [tree |-> NoTree, record |-> None] \in Backup
      BY DEF Backup, NoTree, Tree
    <2>2. dir \in Names
      BY <1>1 DEF MakeBackup, TypeInv
    <2>3. backups' \in [Names -> Backup \cup {None}] /\ dir \in Existing'
      BY <1>1, <2>1, <2>2, NoneAssumption DEF MakeBackup, Existing, TypeInv, TypeOK
    <2>4. QED
      BY <1>1, <2>3 DEF MakeBackup, history, TypeInv, TypeOK, Updating, RollingBack, Installed
  <1>2. CASE Archive
    <2>1. pc = "archiving" /\ dir \in Existing
      BY <1>2 DEF Archive, ArchiveStarts, ArchiveEnds, TypeInv
    <2>2. (\E k \in Skills : Start(k)) \/ End
      BY <1>2 DEF Archive, ArchiveStarts, ArchiveEnds
    <2>3. \E k \in Skills, c \in Versions \cup Partial \cup {"absent"} :
              backups' = [backups EXCEPT ![dir].tree[k] = c]
      <3>1. CASE \E k \in Skills : ArchiveStarts(k)
        BY <3>1 DEF ArchiveStarts
      <3>2. CASE ArchiveEnds
        <4>1. current \in Skills /\ tree[current] \in Versions \cup Partial \cup {"absent"}
          BY <3>2 DEF ArchiveEnds, End, TypeInv, TypeOK, Tree
        <4>2. QED
          BY <3>2, <4>1 DEF ArchiveEnds
      <3>3. QED
        BY <1>2, <3>1, <3>2 DEF Archive
    <2>4. backups' \in [Names -> Backup \cup {None}] /\ Existing' = Existing
      BY <2>1, <2>3, BackupStays
    <2>5. UNCHANGED <<tree, recordFile, record, history>>
      BY <1>2 DEF Archive, ArchiveStarts, ArchiveEnds
    <2>6. QED
      BY <2>1, <2>2, <2>4, <2>5, LoopType DEF TypeInv, TypeOK, history
  <1>3. CASE SaveBackupRecord
    <2>1. pc = "archiving" /\ dir \in Existing
      BY <1>3 DEF SaveBackupRecord, TypeInv
    <2>2. backups' \in [Names -> Backup \cup {None}] /\ Existing' = Existing
      BY <1>3, <2>1, BackupStays DEF SaveBackupRecord, TypeInv, TypeOK
    <2>3. good' \in Names \cup {None}
      BY <1>3 DEF SaveBackupRecord, TypeInv, TypeOK
    <2>4. QED
      BY <1>3, <2>1, <2>2, <2>3 DEF SaveBackupRecord, TypeInv, TypeOK, Updating, RollingBack
  <1>4. CASE PruneBackups
    <2>1. backups' \in [Names -> Backup \cup {None}]
      BY <1>4 DEF PruneBackups, TypeInv, TypeOK
    <2>2. QED
      BY <1>4, <2>1 DEF PruneBackups, history, TypeInv, TypeOK, Updating, RollingBack
  <1>5. QED
    BY <1>1, <1>2, <1>3, <1>4

(* A directory of the target.                                              *)
LEMMA TreeStays ==
    ASSUME TypeInv, (\E k \in Skills : Start(k)) \/ End,
           UNCHANGED <<recordFile, record, backups, history>>,
           \E k \in Skills, c \in Versions \cup Partial \cup {"absent"} : tree' = [tree EXCEPT ![k] = c]
    PROVE  TypeInv'
  <1>1. tree' \in Tree
    BY DEF TypeInv, TypeOK, Tree
  <1>2. Existing' = Existing
    BY DEF Existing
  <1>3. QED
    BY <1>1, <1>2, LoopType DEF TypeInv, TypeOK, history

LEMMA LoopsType ==
    ASSUME TypeInv,
           \/ \E k \in Skills : SwapOut(k) \/ RemoveStarts(k) \/ RestoreStarts(k)
           \/ SwapIn \/ RemoveEnds \/ RestoreEnds
    PROVE  TypeInv'
  <1>1. CASE \E k \in Skills : SwapOut(k) \/ RemoveStarts(k) \/ RestoreStarts(k)
    BY <1>1, TreeStays DEF SwapOut, RemoveStarts, RestoreStarts
  <1>2. CASE SwapIn \/ RemoveEnds \/ RestoreEnds
    <2>1. End /\ current \in Skills
      BY <1>2 DEF SwapIn, RemoveEnds, RestoreEnds, End, TypeInv, TypeOK
    <2>2. \E c \in Versions \cup Partial \cup {"absent"} : tree' = [tree EXCEPT ![current] = c]
      <3>1. CASE SwapIn
        BY <3>1 DEF SwapIn, TypeInv, Updating
      <3>2. CASE RemoveEnds
        BY <3>2 DEF RemoveEnds
      <3>3. CASE RestoreEnds
        <4>1. dir \in Existing
          BY <3>3 DEF RestoreEnds, TypeInv, RollingBack
        <4>2. backups[dir].tree[current] \in Versions \cup Partial \cup {"absent"}
          BY <2>1, <4>1, ExistingIsBackup DEF TypeInv, Backup, Tree
        <4>3. QED
          BY <3>3, <4>2 DEF RestoreEnds
      <3>4. QED
        BY <1>2, <3>1, <3>2, <3>3
    <2>3. UNCHANGED <<recordFile, record, backups, history>>
      BY <1>2 DEF SwapIn, RemoveEnds, RestoreEnds
    <2>4. QED
      BY <2>1, <2>2, <2>3, TreeStays
  <1>3. QED
    BY <1>1, <1>2

LEMMA MovesType ==
    ASSUME TypeInv, Staged \/ SwapsEnd \/ DropsEnd \/ ClearsEnd \/ RollbackStarts
    PROVE  TypeInv'
  <1>1. UNCHANGED target /\ Existing' = Existing
    BY DEF Staged, SwapsEnd, DropsEnd, ClearsEnd, RollbackStarts, target, Existing
  <1>2. CASE Staged
    <2>1. SkillsOf[release] \subseteq Skills
      BY <1>2, InstallAssumption DEF Staged, TypeInv, Updating
    <2>2. QED
      BY <1>1, <1>2, <2>1 DEF Staged, target, history, TypeInv, TypeOK, Updating, RollingBack
  <1>3. CASE SwapsEnd \/ DropsEnd
    BY <1>1, <1>3 DEF SwapsEnd, DropsEnd, target, history, TypeInv, TypeOK, Updating, RollingBack
  <1>4. CASE ClearsEnd
    BY <1>1, <1>4 DEF ClearsEnd, target, history, TypeInv, TypeOK, Updating, RollingBack, Installed
  <1>5. CASE RollbackStarts
    <2>1. PICK n \in Candidate : dir' = n /\ todo' = ToClear(backups[n])
      BY <1>5 DEF RollbackStarts
    <2>2. n \in Existing
      BY DEF Candidate, ResumeBackup, Newest, Existing, TypeInv, TypeOK, Record, Progress
    <2>3. todo' \subseteq Skills
      BY <2>1 DEF ToClear, Installed
    <2>4. QED
      BY <1>1, <1>5, <2>1, <2>2, <2>3, ExistingIsBackup
         DEF RollbackStarts, target, history, TypeInv, TypeOK, Updating, RollingBack
  <1>6. QED
    BY <1>2, <1>3, <1>4, <1>5

LEMMA EndsType ==
    ASSUME TypeInv, Finish \/ RollbackEnds \/ Stops
    PROVE  TypeInv'
  <1>1. /\ pc' = "idle" /\ release' = None /\ dir' = None /\ pre' = None
        /\ orphans' = {} /\ todo' = {} /\ current' = None
    BY DEF Finish, RollbackEnds, Stops, Rest
  <1>2. before' \in Tree /\ good' \in Names \cup {None}
    BY DEF Finish, RollbackEnds, Stops, Forget, history, NoTree, Tree, TypeInv, TypeOK
  <1>3. record' \in Record /\ recordFile' \in {"missing", "readable", "unreadable"}
    <2>1. CASE Finish
      BY <2>1, InstallAssumption DEF Finish, RecordOf, Record, TypeInv, TypeOK, Updating
    <2>2. CASE RollbackEnds
      <3>1. dir \in Existing
        BY <2>2 DEF RollbackEnds, TypeInv, RollingBack
      <3>2. RestoredRecord(backups[dir]) \in Record
        BY <3>1, ExistingIsBackup DEF RestoredRecord, Backup, Record, TypeInv, TypeOK
      <3>3. QED
        BY <2>2, <3>2 DEF RollbackEnds
    <2>3. CASE Stops
      BY <2>3 DEF Stops, target, TypeInv, TypeOK
    <2>4. QED
      BY <2>1, <2>2, <2>3
  <1>4. UNCHANGED <<tree, backups>>
    BY DEF Finish, RollbackEnds, Stops, target
  <1>5. QED
    BY <1>1, <1>2, <1>3, <1>4 DEF TypeInv, TypeOK, Updating, RollingBack

LEMMA NextType == TypeInv /\ [Next]_vars => TypeInv'
  <1>1. TypeInv /\ Next => TypeInv'
    BY UserType, BeginType, ArchiveType, LoopsType, MovesType, EndsType
       DEF Next, Continue, Swap, Remove, Restore
  <1>2. TypeInv /\ UNCHANGED vars => TypeInv'
    BY DEF vars, target, operation, history, TypeInv, TypeOK, Existing
  <1>3. QED
    BY <1>1, <1>2

(* Every variable of the installer stays in its domain (install/engine.py, *)
(* install/state.py).                                                      *)
THEOREM TypeCorrect == Spec => []TypeOK
  <1>1. TypeInv => TypeOK
    BY DEF TypeInv
  <1>2. QED
    BY <1>1, InitType, NextType, PTL DEF Spec

-----------------------------------------------------------------------------
(* A record that names a version                                           *)

(* Nobody edits the installed skills, and no operation stops while it      *)
(* takes a backup or rolls back; the first installation is the installer's.*)
Undisturbed == ~UserEdits /\ ~BackupDies /\ ~RollbackDies /\ "by hand" \notin Starts

(* If a record calls itself finished, the skills t are what it names.      *)
Honest(r, t) ==
    r.progress = None /\ r.version # None => \A k \in SkillsOf[r.version] : t[k] = r.version

(* What an update still has to archive, and has archived.                  *)
Archived(k) == k \in todo \/ k = current \/ backups[dir].tree[k] = tree[k]

(* A directory that the backup lacks, and goes on lacking.                 *)
NotArchived(k) == k \notin todo /\ k # current /\ backups[dir].tree[k] = "absent"

(* What a rollback still has to restore, and has restored.                 *)
Restored(k) == k \in todo \/ k = current \/ tree[k] = backups[dir].tree[k]

(* The installation, at rest; an update marks the record before it touches *)
(* anything, and what it archives is what it found; every backup, but the  *)
(* one being filled, is as honest as the installation was; and a rollback  *)
(* brings back what its backup holds.                                      *)
HonestInv ==
    /\ recordFile # "unreadable"
    /\ recordFile = "missing" => tree = NoTree /\ record = NoRecord /\ Existing = {}
    /\ pc = "idle" => Honest(record, tree)
    /\ pc \in Updating => record.progress # None
    /\ pc \in {"backup", "archiving"} => pre # None /\ Honest(pre, tree)
    /\ pc = "archiving" =>
           \A k \in Skills : tree[k] # "absent" /\ LooksOurs(tree[k]) => Archived(k)
    /\ \A n \in Existing :
           \/ n = dir /\ pc = "archiving"
           \/ backups[n].record # None /\ Honest(backups[n].record, backups[n].tree)
    /\ pc \in RollingBack => recordFile = "readable"
    /\ pc = "restoring" => \A k \in Skills : backups[dir].tree[k] # "absent" => Restored(k)

LEMMA HonestInit ==
    ASSUME Undisturbed, Init
    PROVE  HonestInv
  <1>1. Existing = {}
    BY DEF Init, Existing
  <1>2. Honest(NoRecord, NoTree)
    BY DEF Honest, NoRecord
  <1>3. PICK start \in Starts, v \in Versions :
            /\ tree = IF start = "empty" THEN NoTree ELSE TreeOf(v)
            /\ recordFile = IF start = "recorded" THEN "readable" ELSE "missing"
            /\ record = IF start = "recorded" THEN RecordOf(v) ELSE NoRecord
    BY DEF Init
  <1>4. start \in {"empty", "recorded"}
    BY InstallAssumption DEF Undisturbed
  <1>5. Honest(RecordOf(v), TreeOf(v))
    <2>1. SkillsOf[v] \subseteq Skills
      BY InstallAssumption
    <2>2. QED
      BY <2>1 DEF Honest, RecordOf, TreeOf
  <1>6. QED
    BY <1>1, <1>2, <1>3, <1>4, <1>5 DEF HonestInv, Init, Updating, RollingBack

(* A backup is one that was made and not the one that is being filled.     *)
LEMMA MadeIsHonest ==
    ASSUME HonestInv, NEW n \in Existing, ~(n = dir /\ pc = "archiving")
    PROVE  backups[n].record # None /\ Honest(backups[n].record, backups[n].tree)
  BY DEF HonestInv

LEMMA HonestBegin ==
    ASSUME TypeInv, HonestInv, ForceInstall
    PROVE  HonestInv'
  <1>1. PICK v \in Versions, wanted \in BackupWanted : Begin(v, wanted)
    BY DEF ForceInstall
  <1>2. PICK n \in BackupDir(v, wanted) : record' = Marked(n) /\ StartInstall(v, n)
    BY <1>1 DEF Begin
  <1>3. n \in Names \cup {None}
    BY BackupDirType DEF TypeInv
  <1>4. record'.progress # None
    BY <1>2, <1>3, MarkIsType DEF TypeInv
  <1>5. /\ pc = "idle" /\ recordFile' = "readable" /\ Existing' = Existing
        /\ UNCHANGED <<tree, backups>>
    BY <1>1 DEF Begin, Existing
  <1>6. pc' = "backup" => pre' # None /\ Honest(pre', tree)
    <2>1. SUFFICES ASSUME pc' = "backup"
                   PROVE  pre' # None /\ Honest(pre', tree)
      OBVIOUS
    <2>2. n # None /\ n \notin Existing /\ pre' = IF recordFile = "missing" THEN None ELSE record
      BY <1>2, <2>1 DEF StartInstall
    <2>3. n # ResumeBackup
      BY <2>2 DEF ResumeBackup, Existing, TypeInv, TypeOK, Record, Progress
    <2>4. AnythingInstalled(v)
      BY <1>2, <2>2, <2>3 DEF BackupDir
    <2>5. tree # NoTree
      BY <1>1, <2>4, InstallAssumption DEF AnythingInstalled, NoTree
    <2>6. pre' = record
      BY <2>2, <2>5 DEF HonestInv
    <2>7. QED
      BY <1>5, <2>6, NoneAssumption DEF HonestInv, TypeInv, TypeOK
  <1>7. pc' \in {"backup", "stage"}
    BY <1>2 DEF StartInstall
  <1>8. \A m \in Existing' : backups'[m].record # None /\ Honest(backups'[m].record, backups'[m].tree)
    BY <1>5, MadeIsHonest
  <1>9. QED
    BY <1>4, <1>5, <1>6, <1>7, <1>8 DEF HonestInv, RollingBack, Updating

LEMMA HonestMakeBackup ==
    ASSUME TypeInv, HonestInv, MakeBackup
    PROVE  HonestInv'
  <1>1. /\ pc = "backup" /\ pc' = "archiving" /\ dir \in Names
        /\ UNCHANGED <<tree, recordFile, record, dir, pre>>
        /\ backups' = [backups EXCEPT ![dir] = [tree |-> NoTree, record |-> None]]
        /\ todo' = {k \in Installed(tree) : k \in SkillsOf[release] \/ LooksOurs(tree[k])}
    BY DEF MakeBackup, TypeInv
  <1>2. \A n \in Existing' : n # dir => n \in Existing /\ backups'[n] = backups[n]
    BY <1>1 DEF Existing, TypeInv, TypeOK
  <1>3. recordFile # "missing"
    BY <1>1 DEF HonestInv, Updating, NoRecord
  <1>4. \A n \in Existing' :
            n = dir \/ (backups'[n].record # None /\ Honest(backups'[n].record, backups'[n].tree))
    BY <1>1, <1>2, MadeIsHonest
  <1>5. \A k \in Skills : tree[k] # "absent" /\ LooksOurs(tree[k]) => k \in todo'
    BY <1>1 DEF Installed
  <1>6. QED
    BY <1>1, <1>3, <1>4, <1>5 DEF HonestInv, Archived, Updating, RollingBack

(* While the backup is filled, the other ones stay.                        *)
LEMMA ArchivedGrows ==
    ASSUME TypeInv, Archive
    PROVE  /\ Existing' = Existing
           /\ \A n \in Names : n # dir => backups'[n] = backups[n]
           /\ \A j \in Skills :
                  (Archived(j) => Archived(j)') /\ (NotArchived(j) => NotArchived(j)')
  <1>1. pc = "archiving" /\ dir \in Existing /\ UNCHANGED <<tree, dir>>
    BY DEF Archive, ArchiveStarts, ArchiveEnds, Start, End, TypeInv
  <1>2. backups[dir] \in Backup /\ dir \in Names
    BY <1>1, ExistingIsBackup DEF TypeInv
  <1>3. PICK k \in Skills, c \in Versions \cup Partial \cup {"absent"} :
            /\ backups' = [backups EXCEPT ![dir].tree[k] = c]
            /\ \/ current = None /\ k \in todo /\ current' = k /\ todo' = todo \ {k}
               \/ current = k /\ current' = None /\ todo' = todo /\ c = tree[k]
    <2>1. CASE \E k \in Skills : ArchiveStarts(k)
      BY <2>1 DEF ArchiveStarts, Start
    <2>2. CASE ArchiveEnds
      <3>1. current \in Skills /\ tree[current] \in Versions \cup Partial \cup {"absent"}
        BY <2>2 DEF ArchiveEnds, End, TypeInv, TypeOK, Tree
      <3>2. QED
        BY <2>2, <3>1 DEF ArchiveEnds, End
    <2>3. QED
      BY <2>1, <2>2 DEF Archive
  <1>4. Existing' = Existing
    BY <1>1, <1>3, BackupStays
  <1>5. \A n \in Names : n # dir => backups'[n] = backups[n]
    BY <1>3 DEF TypeInv, TypeOK
  <1>6. \A j \in Skills : backups'[dir].tree[j] = IF j = k THEN c ELSE backups[dir].tree[j]
    BY <1>2, <1>3 DEF Backup, Tree, TypeInv, TypeOK
  <1>7. ASSUME NEW j \in Skills, Archived(j)
        PROVE  Archived(j)'
    <2>1. j # None
      BY InstallAssumption
    <2>2. QED
      BY <1>1, <1>3, <1>6, <1>7, <2>1 DEF Archived
  <1>8. ASSUME NEW j \in Skills, NotArchived(j)
        PROVE  NotArchived(j)'
    <2>1. j # None
      BY InstallAssumption
    <2>2. j # k
      BY <1>3, <1>8 DEF NotArchived
    <2>3. todo' \subseteq todo /\ current' \in {None, k}
      BY <1>3
    <2>4. backups'[dir].tree[j] = "absent"
      BY <1>6, <1>8, <2>2 DEF NotArchived
    <2>5. QED
      BY <1>1, <1>8, <2>1, <2>2, <2>3, <2>4 DEF NotArchived
  <1>9. QED
    BY <1>4, <1>5, <1>7, <1>8

LEMMA HonestArchive ==
    ASSUME TypeInv, HonestInv, Archive
    PROVE  HonestInv'
  <1>1. /\ pc = "archiving" /\ pc' = pc
        /\ UNCHANGED <<tree, recordFile, record, dir, pre>>
    BY DEF Archive, ArchiveStarts, ArchiveEnds, Start, End
  <1>2. \A j \in Skills : tree[j] # "absent" /\ LooksOurs(tree[j]) => Archived(j)'
    BY <1>1, ArchivedGrows DEF HonestInv
  <1>3. \A n \in Existing' :
            n = dir \/ (backups'[n].record # None /\ Honest(backups'[n].record, backups'[n].tree))
    BY <1>1, ArchivedGrows, MadeIsHonest DEF Existing
  <1>4. QED
    BY <1>1, <1>2, <1>3, ArchivedGrows DEF HonestInv, Updating, RollingBack

LEMMA HonestSaveRecord ==
    ASSUME TypeInv, HonestInv, SaveBackupRecord
    PROVE  HonestInv'
  <1>1. /\ pc = "archiving" /\ pc' = "pruning" /\ dir \in Existing /\ Done
        /\ UNCHANGED <<tree, recordFile, record, dir>>
        /\ backups' = [backups EXCEPT ![dir].record = pre]
    BY DEF SaveBackupRecord, TypeInv
  <1>2. backups[dir] \in Backup /\ dir \in Names
    BY <1>1, ExistingIsBackup DEF TypeInv
  <1>3. Existing' = Existing
    BY <1>1, BackupStays DEF TypeInv, TypeOK
  <1>4. backups'[dir].record = pre /\ backups'[dir].tree = backups[dir].tree
    BY <1>1, <1>2 DEF Backup, TypeInv, TypeOK
  <1>5. pre # None /\ Honest(pre, tree)
    BY <1>1 DEF HonestInv
  <1>6. Honest(pre, backups[dir].tree)
    <2>1. SUFFICES ASSUME pre.progress = None, pre.version # None, NEW k \in SkillsOf[pre.version]
                   PROVE  backups[dir].tree[k] = pre.version
      BY DEF Honest
    <2>2. pre.version \in Versions
      BY <1>5, <2>1 DEF TypeInv, TypeOK, Record
    <2>3. k \in Skills /\ tree[k] = pre.version
      BY <1>5, <2>1, <2>2, InstallAssumption DEF Honest
    <2>4. tree[k] # "absent" /\ LooksOurs(tree[k])
      BY <2>2, <2>3, InstallAssumption DEF LooksOurs
    <2>5. k # None
      BY <2>3, InstallAssumption
    <2>6. QED
      BY <1>1, <2>3, <2>4, <2>5 DEF HonestInv, Archived, Done
  <1>7. \A n \in Existing' : backups'[n].record # None /\ Honest(backups'[n].record, backups'[n].tree)
    <2>1. ASSUME NEW n \in Existing, n # dir
          PROVE  backups'[n] = backups[n]
      BY <1>1, <2>1 DEF Existing, TypeInv, TypeOK
    <2>2. QED
      BY <1>3, <1>4, <1>5, <1>6, <2>1, MadeIsHonest
  <1>8. QED
    BY <1>1, <1>7 DEF HonestInv, Updating, RollingBack

(* An update past its backup.                                              *)
LEMMA HonestUpdate ==
    ASSUME TypeInv, HonestInv,
           pc \in Updating \ {"backup", "archiving"}, pc' \in Updating \ {"backup", "archiving"},
           UNCHANGED <<recordFile, record>>,
           \A n \in Existing' : n \in Existing /\ backups'[n] = backups[n]
    PROVE  HonestInv'
  <1>1. recordFile # "missing"
    BY DEF HonestInv, NoRecord
  <1>2. \A n \in Existing' : backups'[n].record # None /\ Honest(backups'[n].record, backups'[n].tree)
    BY MadeIsHonest DEF Updating
  <1>3. QED
    BY <1>1, <1>2 DEF HonestInv, Updating, RollingBack

LEMMA HonestUpdateSteps ==
    ASSUME TypeInv, HonestInv,
           \/ PruneBackups \/ Staged \/ Swap \/ DropsEnd
           \/ pc = "dropping" /\ Remove
    PROVE  HonestInv'
  <1>1. CASE PruneBackups
    <2>1. \A n \in Existing' : n \in Existing /\ backups'[n] = backups[n]
      BY <1>1 DEF PruneBackups, Existing
    <2>2. QED
      BY <1>1, <2>1, HonestUpdate DEF PruneBackups, Updating
  <1>2. CASE Staged \/ DropsEnd \/ SwapsEnd
    BY <1>2, HonestUpdate DEF Staged, DropsEnd, SwapsEnd, target, Existing, Updating
  <1>3. CASE (\E k \in Skills : SwapOut(k)) \/ SwapIn
    BY <1>3, HonestUpdate DEF SwapOut, SwapIn, Start, End, Existing, Updating
  <1>4. CASE pc = "dropping" /\ Remove
    BY <1>4, HonestUpdate DEF Remove, RemoveStarts, RemoveEnds, Start, End, Existing, Updating
  <1>5. QED
    BY <1>1, <1>2, <1>3, <1>4 DEF Swap

LEMMA HonestFinish ==
    ASSUME TypeInv, HonestInv, Finish
    PROVE  HonestInv'
  <1>1. /\ pc = "verifying" /\ pc' = "idle" /\ release \in Versions /\ Complete(release)
        /\ record' = RecordOf(release) /\ UNCHANGED <<tree, recordFile, backups>>
    BY DEF Finish, Rest, TypeInv, Updating
  <1>2. Honest(record', tree')
    BY <1>1 DEF Honest, RecordOf, Complete
  <1>3. recordFile # "missing"
    BY <1>1 DEF HonestInv, Updating, NoRecord
  <1>4. \A n \in Existing' : backups'[n].record # None /\ Honest(backups'[n].record, backups'[n].tree)
    BY <1>1, MadeIsHonest DEF Existing
  <1>5. QED
    BY <1>1, <1>2, <1>3, <1>4 DEF HonestInv, Updating, RollingBack

(* While a rollback copies its backup, the backup stays and the other      *)
(* directories too.                                                        *)
LEMMA RestoredGrows ==
    ASSUME TypeInv, Restore
    PROVE  /\ pc = "restoring" /\ UNCHANGED <<pc, dir, recordFile, record, backups, history>>
           /\ \A j \in Skills :
                  /\ Restored(j) => Restored(j)'
                  /\ j \notin todo /\ j # current =>
                         tree'[j] = tree[j] /\ j \notin todo' /\ j # current'
  <1>1. pc = "restoring" /\ UNCHANGED <<pc, dir, recordFile, record, backups, history>>
    BY DEF Restore, RestoreStarts, RestoreEnds, Start, End
  <1>2. \A j \in Skills : j # None
    BY InstallAssumption
  <1>3. CASE \E k \in Skills : RestoreStarts(k)
    <2>1. PICK k \in Skills : RestoreStarts(k)
      BY <1>3
    <2>2. /\ current = None /\ k \in todo /\ todo' = todo \ {k} /\ current' = k
          /\ \A j \in Skills : j # k => tree'[j] = tree[j]
      BY <2>1 DEF RestoreStarts, Start, TypeInv, TypeOK, Tree
    <2>3. QED
      BY <1>1, <1>2, <2>2 DEF Restored
  <1>4. CASE RestoreEnds
    <2>1. /\ todo' = todo /\ current' = None
          /\ tree' = [tree EXCEPT ![current] = backups[dir].tree[current]]
      BY <1>4 DEF RestoreEnds, End
    <2>2. \A j \in Skills : tree'[j] = IF j = current THEN backups[dir].tree[j] ELSE tree[j]
      BY <2>1 DEF TypeInv, TypeOK, Tree
    <2>3. QED
      BY <1>1, <1>2, <2>1, <2>2 DEF Restored
  <1>5. QED
    BY <1>1, <1>3, <1>4 DEF Restore

LEMMA HonestRollback ==
    ASSUME TypeInv, HonestInv,
           \/ RollbackStarts \/ ClearsEnd \/ Restore
           \/ pc = "clearing" /\ Remove
    PROVE  HonestInv'
  <1>1. /\ UNCHANGED <<recordFile, record, backups>>
        /\ pc \in {"idle", "clearing", "restoring"} /\ pc' \in RollingBack
    BY DEF RollbackStarts, ClearsEnd, Restore, RestoreStarts, RestoreEnds, Remove, RemoveStarts,
           RemoveEnds, Start, End, target, RollingBack
  <1>2. recordFile = "readable"
    <2>1. CASE RollbackStarts
      <3>1. Candidate # {}
        BY <2>1 DEF RollbackStarts
      <3>2. Existing # {}
        <4>1. CASE ResumeBackup # None
          BY <4>1 DEF ResumeBackup, Existing, TypeInv, TypeOK, Record, Progress
        <4>2. CASE ResumeBackup = None
          BY <3>1, <4>2 DEF Candidate, Newest
        <4>3. QED
          BY <4>1, <4>2
      <3>3. QED
        BY <3>2 DEF HonestInv, TypeInv, TypeOK
    <2>2. CASE ~RollbackStarts
      BY <2>2 DEF ClearsEnd, Restore, RestoreStarts, RestoreEnds, HonestInv, RollingBack
    <2>3. QED
      BY <2>1, <2>2
  <1>3. \A n \in Existing' : backups'[n].record # None /\ Honest(backups'[n].record, backups'[n].tree)
    BY <1>1, MadeIsHonest DEF Existing
  <1>4. pc' = "restoring" => \A k \in Skills : backups'[dir'].tree[k] # "absent" => Restored(k)'
    <2>1. CASE ClearsEnd
      BY <2>1 DEF ClearsEnd, target, Installed, Restored
    <2>2. CASE Restore
      BY <2>2, RestoredGrows DEF HonestInv
    <2>3. CASE RollbackStarts \/ (pc = "clearing" /\ Remove)
      BY <2>3 DEF RollbackStarts, Remove, RemoveStarts, RemoveEnds, Start, End
    <2>4. QED
      BY <2>1, <2>2, <2>3
  <1>5. QED
    BY <1>1, <1>2, <1>3, <1>4 DEF HonestInv, Updating, RollingBack

LEMMA HonestRollbackEnds ==
    ASSUME TypeInv, HonestInv, RollbackEnds
    PROVE  HonestInv'
  <1>1. /\ pc = "restoring" /\ pc' = "idle" /\ Done /\ dir \in Existing
        /\ record' = RestoredRecord(backups[dir]) /\ recordFile' = "readable"
        /\ UNCHANGED <<tree, backups>>
    BY DEF RollbackEnds, Rest, TypeInv, RollingBack
  <1>2. backups[dir] \in Backup
    BY <1>1, ExistingIsBackup DEF TypeInv
  <1>3. backups[dir].record # None /\ Honest(backups[dir].record, backups[dir].tree)
    BY <1>1, MadeIsHonest
  <1>4. record' = backups[dir].record /\ record' \in Record
    BY <1>1, <1>2, <1>3 DEF RestoredRecord, Backup
  <1>5. Honest(record', tree)
    <2>1. SUFFICES ASSUME record'.progress = None, record'.version # None, NEW k \in SkillsOf[record'.version]
                   PROVE  tree[k] = record'.version
      BY DEF Honest
    <2>2. record'.version \in Versions
      BY <1>4, <2>1 DEF Record
    <2>3. k \in Skills /\ backups[dir].tree[k] = record'.version
      BY <1>3, <1>4, <2>1, <2>2, InstallAssumption DEF Honest
    <2>4. backups[dir].tree[k] # "absent" /\ k # None
      BY <2>2, <2>3, InstallAssumption
    <2>5. QED
      BY <1>1, <2>3, <2>4 DEF HonestInv, Restored, Done
  <1>6. \A n \in Existing' : backups'[n].record # None /\ Honest(backups'[n].record, backups'[n].tree)
    BY <1>1, MadeIsHonest DEF Existing
  <1>7. QED
    BY <1>1, <1>5, <1>6 DEF HonestInv, Updating, RollingBack

LEMMA HonestStops ==
    ASSUME Undisturbed, TypeInv, HonestInv, Stops
    PROVE  HonestInv'
  <1>1. pc \in Updating \ {"archiving"} /\ pc' = "idle" /\ UNCHANGED <<tree, recordFile, record, backups>>
    BY DEF Undisturbed, Stops, Rest, target, Updating, TypeInv, TypeOK
  <1>2. record.progress # None
    BY <1>1 DEF HonestInv
  <1>3. \A n \in Existing' : backups'[n].record # None /\ Honest(backups'[n].record, backups'[n].tree)
    BY <1>1, MadeIsHonest DEF Existing
  <1>4. QED
    BY <1>1, <1>2, <1>3 DEF HonestInv, Honest, Updating, RollingBack, Existing

(* An installation that does not call itself interrupted is the version it *)
(* names: wherever updates are stopped, whichever release resumes them,    *)
(* whatever the clock and however many backups are kept.                   *)
THEOREM RecordIsHonest ==
    ASSUME Undisturbed
    PROVE  Spec => []HonestRecord
  <1>1. Init => HonestInv
    BY HonestInit
  <1>2. TypeInv /\ HonestInv /\ [Next]_vars => HonestInv'
    <2> SUFFICES ASSUME TypeInv, HonestInv, [Next]_vars
                 PROVE  HonestInv'
      OBVIOUS
    <2>1. CASE User
      BY <2>1 DEF User, EditSkill, DamageRecord, Undisturbed
    <2>2. CASE Continue
      <3>1. Remove => pc = "dropping" \/ pc = "clearing"
        BY DEF Remove, RemoveStarts, RemoveEnds
      <3>2. QED
        BY <2>2, <3>1, HonestMakeBackup, HonestArchive, HonestSaveRecord, HonestUpdateSteps,
           HonestFinish, HonestRollback, HonestRollbackEnds DEF Continue
    <2>3. CASE UNCHANGED vars
      BY <2>3 DEF vars, target, operation, history, HonestInv, Existing, Archived, Restored
    <2>4. QED
      BY <2>1, <2>2, <2>3, HonestBegin, HonestRollback, HonestStops DEF Next
  <1>3. HonestInv => HonestRecord
    BY DEF HonestInv, HonestRecord, AtRest, Honest, Complete
  <1>4. QED
    BY <1>1, <1>2, <1>3, InitType, NextType, PTL DEF Spec

-----------------------------------------------------------------------------
(* The way back                                                            *)

(* A backup that holds the tree its update found is the one the marker     *)
(* names; while an update takes a backup there is no such one yet, what it *)
(* has archived is what it found, and the one it takes is the newest.      *)
WayBackInv ==
    /\ good # None =>
           /\ record.progress # None /\ record.progress.backup = good
           /\ good \in Existing
           /\ Holds(backups[good].tree, before)
    /\ pc \in {"backup", "archiving"} =>
           good = None /\ record.progress # None /\ record.progress.backup = dir
    /\ pc = "backup" => \A m \in Existing : m < dir
    /\ pc = "archiving" =>
           \A k \in Skills : tree[k] # "absent" /\ LooksOurs(tree[k]) => Archived(k)
    /\ pc \in {"archiving", "pruning"} => \A m \in Existing : m <= dir
    /\ pc = "pruning" => good \in {None, dir}

(* Steps that keep the record's marker and every backup.                   *)
LEMMA WayBackStays ==
    ASSUME TypeInv, WayBackInv, UNCHANGED <<record, backups, history>>,
           pc' \notin {"backup", "archiving", "pruning"}
    PROVE  WayBackInv'
  BY DEF WayBackInv, history, Existing

LEMMA WayBackBegin ==
    ASSUME ~ClockGoesBack, TypeInv, WayBackInv, ForceInstall
    PROVE  WayBackInv'
  <1>1. PICK v \in Versions, wanted \in BackupWanted : Begin(v, wanted)
    BY DEF ForceInstall
  <1>2. PICK n \in BackupDir(v, wanted) : record' = Marked(n) /\ StartInstall(v, n)
    BY <1>1 DEF Begin
  <1>3. n \in Names \cup {None}
    BY BackupDirType DEF TypeInv
  <1>4. record'.progress # None /\ record'.progress.backup = n
    <2>1. record'.progress = [backup |-> n]
      BY <1>2 DEF Marked, TypeInv, TypeOK, Record
    <2>2. QED
      BY <1>2, <1>3, <2>1, MarkIsType DEF TypeInv
  <1>5. Existing' = Existing /\ backups' = backups
    BY <1>1 DEF Begin, Existing
  <1>6. good' # None => n = good /\ good' = good /\ before' = before /\ n \in Existing
    <2>1. SUFFICES ASSUME good' # None
                   PROVE  n = good /\ good' = good /\ before' = before /\ n \in Existing
      OBVIOUS
    <2>2. record.progress # None /\ good' = good /\ before' = before
      BY <1>2, <2>1 DEF StartInstall, history
    <2>3. record.progress.backup = good /\ good \in Existing
      BY <2>1, <2>2 DEF WayBackInv
    <2>4. ResumeBackup = good
      BY <2>1, <2>2, <2>3 DEF ResumeBackup, Existing
    <2>5. QED
      BY <1>2, <2>1, <2>2, <2>3, <2>4 DEF BackupDir
  <1>7. good' # None => Holds(backups'[good'].tree, before')
    BY <1>5, <1>6 DEF WayBackInv
  <1>8. pc' \in {"backup", "stage"}
    BY <1>2 DEF StartInstall
  <1>9. pc' = "backup" => dir' = n /\ n # None /\ n \notin Existing
    BY <1>2 DEF StartInstall
  <1>10. pc' = "backup" => \A m \in Existing : m < n
    <2>1. SUFFICES ASSUME pc' = "backup" PROVE n \in NewBackup
      BY DEF NewBackup
    <2>2. n # ResumeBackup
      BY <1>9, <2>1 DEF ResumeBackup, Existing, TypeInv, TypeOK, Record, Progress
    <2>3. QED
      BY <1>2, <1>9, <2>1, <2>2 DEF BackupDir
  <1>11. QED
    BY <1>4, <1>5, <1>6, <1>7, <1>8, <1>9, <1>10 DEF WayBackInv

LEMMA WayBackMakeBackup ==
    ASSUME TypeInv, WayBackInv, MakeBackup
    PROVE  WayBackInv'
  <1>1. /\ pc = "backup" /\ pc' = "archiving" /\ dir \in Names
        /\ UNCHANGED <<tree, record, dir, history>>
        /\ backups' = [backups EXCEPT ![dir] = [tree |-> NoTree, record |-> None]]
        /\ todo' = {k \in Installed(tree) : k \in SkillsOf[release] \/ LooksOurs(tree[k])}
    BY DEF MakeBackup, TypeInv
  <1>2. \A m \in Existing' : m \in Existing \/ m = dir
    BY <1>1 DEF Existing, TypeInv, TypeOK
  <1>3. dir \in Nat /\ \A m \in Existing' : m <= dir
    BY <1>1, <1>2 DEF WayBackInv, Names, Existing
  <1>4. \A k \in Skills : tree[k] # "absent" /\ LooksOurs(tree[k]) => k \in todo'
    BY <1>1 DEF Installed
  <1>5. good' = None
    BY <1>1 DEF WayBackInv, history
  <1>6. QED
    BY <1>1, <1>3, <1>4, <1>5 DEF WayBackInv, Archived

LEMMA WayBackArchive ==
    ASSUME TypeInv, WayBackInv, Archive
    PROVE  WayBackInv'
  <1>1. /\ pc = "archiving" /\ pc' = pc /\ dir \in Existing
        /\ UNCHANGED <<tree, record, dir, history>>
    BY DEF Archive, ArchiveStarts, ArchiveEnds, Start, End, TypeInv
  <1>2. Existing' = Existing /\ \A k \in Skills : tree[k] # "absent" /\ LooksOurs(tree[k]) => Archived(k)'
    BY <1>1, ArchivedGrows DEF WayBackInv
  <1>3. QED
    BY <1>1, <1>2 DEF WayBackInv, history

LEMMA WayBackSaveRecord ==
    ASSUME TypeInv, WayBackInv, SaveBackupRecord
    PROVE  WayBackInv'
  <1>1. /\ pc = "archiving" /\ pc' = "pruning" /\ dir \in Existing /\ Done
        /\ UNCHANGED <<tree, record, dir, before>>
        /\ backups' = [backups EXCEPT ![dir].record = pre]
        /\ good' = IF tree = before THEN dir ELSE good
    BY DEF SaveBackupRecord, TypeInv
  <1>2. Existing' = Existing
    BY <1>1, BackupStays DEF TypeInv, TypeOK
  <1>3. backups'[dir].tree = backups[dir].tree
    BY <1>1, ExistingIsBackup DEF Backup, TypeInv, TypeOK
  <1>4. \A k \in Skills : LooksOurs(tree[k]) => backups[dir].tree[k] = tree[k]
    <2>1. ASSUME NEW k \in Skills, LooksOurs(tree[k])
          PROVE  tree[k] # "absent" /\ k # None
      BY <2>1, InstallAssumption DEF LooksOurs
    <2>2. QED
      BY <1>1, <2>1 DEF WayBackInv, Archived, Done
  <1>5. good = None /\ record.progress # None /\ record.progress.backup = dir
    BY <1>1 DEF WayBackInv
  <1>6. good' # None => good' = dir /\ Holds(backups'[dir].tree, before)
    BY <1>1, <1>3, <1>4, <1>5 DEF Holds
  <1>7. QED
    BY <1>1, <1>2, <1>5, <1>6 DEF WayBackInv

(* The newest backup is never pruned.                                      *)
LEMMA PruneKeepsNewest ==
    ASSUME TypeInv, WayBackInv, PruneBackups
    PROVE  /\ good # None => backups'[good] = backups[good]
           /\ \A n \in Names : backups'[n] \in {None, backups[n]}
           /\ Existing' \subseteq Existing
  <1>1. /\ pc = "pruning" /\ pc' = "stage" /\ UNCHANGED <<record, history>>
        /\ backups' = [n \in Names |->
                          IF Cardinality(Newer(n)) >= BackupRetention THEN None ELSE backups[n]]
    BY DEF PruneBackups
  <1>2. ASSUME good # None
        PROVE  backups'[good] = backups[good]
    <2>1. good \in Names /\ good = dir
      BY <1>1, <1>2 DEF WayBackInv, TypeInv, TypeOK
    <2>2. Newer(good) = {}
      BY <1>1, <2>1 DEF WayBackInv, Newer, Existing, Names
    <2>3. Cardinality(Newer(good)) = 0
      BY <2>2, FS_EmptySet
    <2>4. ~(0 >= BackupRetention)
      <3>1. BackupRetention \in Nat \ {0}
        BY InstallAssumption
      <3>2. QED
        BY <3>1
    <2>5. QED
      BY <1>1, <2>1, <2>3, <2>4
  <1>3. \A n \in Names : backups'[n] \in {None, backups[n]}
    BY <1>1
  <1>4. QED
    BY <1>2, <1>3 DEF Existing

LEMMA WayBackPrune ==
    ASSUME TypeInv, WayBackInv, PruneBackups
    PROVE  WayBackInv'
  <1>1. pc = "pruning" /\ pc' = "stage" /\ UNCHANGED <<record, history>>
    BY DEF PruneBackups
  <1>2. QED
    BY <1>1, PruneKeepsNewest DEF WayBackInv, history, Existing

LEMMA WayBackNext ==
    ASSUME ~ClockGoesBack, TypeInv, WayBackInv, [Next]_vars
    PROVE  WayBackInv'
  <1>1. CASE User
    <2>1. UNCHANGED <<record, backups, history>> /\ pc = "idle" /\ pc' = "idle"
      BY <1>1 DEF User, EditSkill, DamageRecord, operation
    <2>2. QED
      BY <2>1, WayBackStays
  <1>2. CASE Staged \/ Swap \/ Remove \/ DropsEnd \/ ClearsEnd \/ Restore \/ RollbackStarts \/ Stops
    <2>1. UNCHANGED <<record, backups, history>>
      BY <1>2 DEF Staged, Swap, SwapOut, SwapIn, SwapsEnd, Remove, RemoveStarts, RemoveEnds, DropsEnd,
                  ClearsEnd, Restore, RestoreStarts, RestoreEnds, RollbackStarts, Stops, target
    <2>2. pc' \notin {"backup", "archiving", "pruning"}
      BY <1>2 DEF Staged, Swap, SwapOut, SwapIn, SwapsEnd, Remove, RemoveStarts, RemoveEnds, DropsEnd,
                  ClearsEnd, Restore, RestoreStarts, RestoreEnds, RollbackStarts, Stops, Start, End, Rest
    <2>3. QED
      BY <2>1, <2>2, WayBackStays
  <1>3. CASE Finish \/ RollbackEnds
    <2>1. pc' = "idle" /\ good' = None
      BY <1>3 DEF Finish, RollbackEnds, Rest, Forget
    <2>2. QED
      BY <2>1 DEF WayBackInv
  <1>4. CASE UNCHANGED vars
    BY <1>4 DEF vars, target, operation, history, WayBackInv, Existing, Archived
  <1>5. QED
    BY <1>1, <1>2, <1>3, <1>4, WayBackBegin, WayBackMakeBackup, WayBackArchive, WayBackSaveRecord,
       WayBackPrune DEF Next, Continue

(* Once an update has archived the tree it found, that backup is there and *)
(* is the one a rollback restores, however the update, a retry or a        *)
(* rollback stops and whatever the user edits, as long as a new backup is  *)
(* the newest.                                                             *)
THEOREM WayBackStaysOpen ==
    ASSUME ~ClockGoesBack
    PROVE  Spec => []WayBack
  <1>1. Init => WayBackInv
    BY DEF Init, WayBackInv
  <1>2. TypeInv /\ WayBackInv /\ [Next]_vars => WayBackInv'
    BY WayBackNext
  <1>3. WayBackInv => WayBack
    BY DEF WayBackInv, WayBack
  <1>4. QED
    BY <1>1, <1>2, <1>3, InitType, NextType, PTL DEF Spec

-----------------------------------------------------------------------------
(* Rollback                                                                *)

(* The marker names the newest backup, if that backup exists, and that is  *)
(* the one a rollback restores; its record, if it has one, is of the       *)
(* version installed, and so is the one an update is about to archive; a   *)
(* record that was archived marked an update whose backup was never made;  *)
(* a backup of the tree that an update found has nothing more than it; and *)
(* a rollback first clears what that tree did not have, then restores.     *)
NamesNewest(n) == n \in Existing => \A m \in Existing : m <= n

MarkerInv ==
    /\ record.progress # None => NamesNewest(record.progress.backup)
    /\ pc \in RollingBack => NamesNewest(dir)
    /\ pc \in RollingBack /\ record.progress # None => dir = record.progress.backup
    /\ pc \in {"backup", "archiving"} /\ pre # None =>
           /\ pre.version = record.version
           /\ pre.progress # None /\ pre.progress.backup \in Existing => pre.progress.backup = dir
    /\ \A n \in Existing :
           LET saved == backups[n].record
           IN  saved # None =>
                   /\ record.progress # None /\ record.progress.backup = n =>
                          saved.version = record.version
                   /\ saved.progress # None /\ saved.progress.backup \in Existing =>
                          n <= saved.progress.backup

TreeInv ==
    /\ pc \in {"idle", "backup"} => current = None
    /\ pc = "archiving" => \A k \in Skills : tree[k] = "absent" => NotArchived(k)
    /\ good # None => \A k \in Skills : before[k] = "absent" => backups[good].tree[k] = "absent"
    /\ pc = "clearing" /\ good # None =>
           \A k \in Skills : before[k] = "absent" /\ LooksOurs(tree[k]) => k \in todo \/ k = current
    /\ pc = "restoring" /\ good # None =>
           \A k \in Skills :
               /\ before[k] = "absent" => ~LooksOurs(tree[k]) /\ k \notin todo /\ k # current
               /\ backups[dir].tree[k] # "absent" => Restored(k)

(* Steps that keep the record and every backup.                            *)
LEMMA MarkerStays ==
    ASSUME TypeInv, MarkerInv, UNCHANGED <<record, backups>>,
           \/ pc' \notin {"backup", "archiving"} \cup RollingBack
           \/ pc \in RollingBack /\ pc' \in RollingBack /\ dir' = dir
    PROVE  MarkerInv'
  BY DEF MarkerInv, NamesNewest, Existing, RollingBack

LEMMA MarkerBegin ==
    ASSUME ~ClockGoesBack, TypeInv, WayBackInv, MarkerInv, ForceInstall
    PROVE  MarkerInv'
  <1>1. PICK v \in Versions, wanted \in BackupWanted : Begin(v, wanted)
    BY DEF ForceInstall
  <1>2. PICK n \in BackupDir(v, wanted) : record' = Marked(n) /\ StartInstall(v, n)
    BY <1>1 DEF Begin
  <1>3. n \in Names \cup {None}
    BY BackupDirType DEF TypeInv
  <1>4. /\ record'.progress # None /\ record'.progress.backup = n
        /\ record'.version = record.version
    <2>1. record'.progress = [backup |-> n]
      BY <1>2 DEF Marked, TypeInv, TypeOK, Record
    <2>2. QED
      BY <1>2, <1>3, <2>1, MarkIsType DEF TypeInv
  <1>5. Existing' = Existing /\ backups' = backups
    BY <1>1 DEF Begin, Existing
  <1>6. n \in Existing => record.progress # None /\ record.progress.backup = n
    <2>1. n \in Existing => n = ResumeBackup /\ n # None
      BY <1>2, InstallAssumption DEF BackupDir, NewBackup, Existing, Names
    <2>2. QED
      BY <2>1 DEF ResumeBackup
  <1>7. /\ pc' \in {"backup", "stage"}
        /\ pc' = "backup" => n \notin Existing /\ n # None /\ pre' \in {None, record}
    BY <1>2 DEF StartInstall
  <1>8. ASSUME pc' = "backup", record.progress # None
        PROVE  record.progress.backup \notin Existing
    <2>1. ResumeBackup = None
      BY <1>2, <1>7, <1>8 DEF BackupDir, ResumeBackup, Existing, TypeInv, TypeOK, Record, Progress
    <2>2. QED
      BY <1>8, <2>1, InstallAssumption DEF ResumeBackup, Existing, Names
  <1>9. n \in Existing => \A m \in Existing : m <= n
    BY <1>6 DEF MarkerInv, NamesNewest
  <1>10. QED
    BY <1>4, <1>5, <1>6, <1>7, <1>8, <1>9 DEF MarkerInv, NamesNewest, RollingBack

LEMMA MarkerMakeBackup ==
    ASSUME TypeInv, WayBackInv, MarkerInv, MakeBackup
    PROVE  MarkerInv'
  <1>1. /\ pc = "backup" /\ pc' = "archiving" /\ dir \in Names
        /\ UNCHANGED <<record, dir, pre>>
        /\ backups' = [backups EXCEPT ![dir] = [tree |-> NoTree, record |-> None]]
    BY DEF MakeBackup, TypeInv
  <1>2. /\ backups'[dir].record = None
        /\ \A n \in Existing' : n # dir => n \in Existing /\ backups'[n] = backups[n]
        /\ \A n \in Existing' : n \in Nat
    BY <1>1 DEF Existing, Names, TypeInv, TypeOK
  <1>3. record.progress.backup = dir /\ dir \in Nat /\ \A m \in Existing : m < dir
    BY <1>1 DEF WayBackInv, Names
  <1>4. \A n \in Existing' : n <= dir
    BY <1>2, <1>3
  <1>5. QED
    BY <1>1, <1>2, <1>3, <1>4 DEF MarkerInv, NamesNewest, RollingBack

LEMMA MarkerArchive ==
    ASSUME TypeInv, MarkerInv, Archive
    PROVE  MarkerInv'
  <1>1. /\ pc = "archiving" /\ pc' = pc /\ dir \in Existing /\ UNCHANGED <<record, dir, pre>>
        /\ \E k \in Skills : \E c : backups' = [backups EXCEPT ![dir].tree[k] = c]
    BY DEF Archive, ArchiveStarts, ArchiveEnds, Start, End, TypeInv, TypeOK
  <1>2. \A n \in Existing : backups'[n].record = backups[n].record
    BY <1>1, ExistingIsBackup DEF Backup, Existing, TypeInv, TypeOK
  <1>3. QED
    BY <1>1, <1>2, ArchivedGrows DEF MarkerInv, NamesNewest, RollingBack

LEMMA MarkerSaveRecord ==
    ASSUME TypeInv, WayBackInv, MarkerInv, SaveBackupRecord
    PROVE  MarkerInv'
  <1>1. /\ pc = "archiving" /\ pc' = "pruning" /\ dir \in Existing
        /\ UNCHANGED <<record, dir>>
        /\ backups' = [backups EXCEPT ![dir].record = pre]
        /\ pre \in Record \cup {None}
    BY DEF SaveBackupRecord, TypeInv, TypeOK
  <1>2. Existing' = Existing
    BY <1>1, BackupStays
  <1>3. \A n \in Existing : backups'[n].record = IF n = dir THEN pre ELSE backups[n].record
    BY <1>1, ExistingIsBackup DEF Backup, Existing, TypeInv, TypeOK
  <1>4. dir \in Nat /\ record.progress # None /\ record.progress.backup = dir
    BY <1>1 DEF WayBackInv, Existing, Names
  <1>5. QED
    BY <1>1, <1>2, <1>3, <1>4 DEF MarkerInv, NamesNewest, RollingBack

LEMMA MarkerPrune ==
    ASSUME TypeInv, WayBackInv, MarkerInv, PruneBackups
    PROVE  MarkerInv'
  <1>1. pc = "pruning" /\ pc' = "stage" /\ UNCHANGED record
    BY DEF PruneBackups
  <1>2. \A n \in Existing' : n \in Existing /\ backups'[n] = backups[n]
    BY PruneKeepsNewest DEF Existing
  <1>3. QED
    BY <1>1, <1>2 DEF MarkerInv, NamesNewest, RollingBack

LEMMA MarkerRollbackStarts ==
    ASSUME TypeInv, MarkerInv, RollbackStarts
    PROVE  MarkerInv'
  <1>1. /\ pc' = "clearing" /\ UNCHANGED <<record, backups>> /\ Existing' = Existing
        /\ dir' \in Candidate
    BY DEF RollbackStarts, target, Existing
  <1>2. record.progress # None => dir' = record.progress.backup
    BY <1>1 DEF Candidate, ResumeBackup
  <1>3. \A m \in Existing : m <= dir'
    <2>1. CASE record.progress # None
      <3>1. dir' \in Existing
        BY <1>1, <2>1 DEF Candidate, ResumeBackup, Existing, TypeInv, TypeOK, Record, Progress
      <3>2. QED
        BY <1>2, <2>1, <3>1 DEF MarkerInv, NamesNewest
    <2>2. CASE record.progress = None
      <3>1. dir' \in Newest
        BY <1>1, <2>2 DEF Candidate, ResumeBackup
      <3>2. QED
        BY <3>1 DEF Newest, Newer, Existing, Names
    <2>3. QED
      BY <2>1, <2>2
  <1>4. QED
    BY <1>1, <1>2, <1>3 DEF MarkerInv, NamesNewest, RollingBack

(* A restored record that marks an update with a backup is the record that *)
(* this very backup holds: any other one it could name is gone.            *)
LEMMA MarkerRollbackEnds ==
    ASSUME TypeInv, MarkerInv, RollbackEnds
    PROVE  MarkerInv'
  <1>1. /\ pc \in RollingBack /\ pc' = "idle" /\ dir \in Existing
        /\ backups' = backups /\ Existing' = Existing
        /\ record' = RestoredRecord(backups[dir])
    BY DEF RollbackEnds, Rest, Existing, RollingBack, TypeInv
  <1>2. \A n \in Existing : n \in Nat /\ n <= dir
    BY <1>1 DEF MarkerInv, NamesNewest, Existing, Names
  <1>3. ASSUME record'.progress # None, record'.progress.backup \in Existing
        PROVE  record'.progress.backup = dir /\ backups[dir].record = record'
    <2>1. backups[dir].record # None /\ record' = backups[dir].record
      BY <1>1, <1>3 DEF RestoredRecord, TypeInv, TypeOK, Record
    <2>2. dir <= record'.progress.backup
      BY <1>1, <1>3, <2>1 DEF MarkerInv
    <2>3. QED
      BY <1>1, <1>2, <1>3, <2>1, <2>2
  <1>4. QED
    BY <1>1, <1>2, <1>3 DEF MarkerInv, NamesNewest, RollingBack

LEMMA MarkerFinish ==
    ASSUME TypeInv, MarkerInv, Finish
    PROVE  MarkerInv'
  <1>1. pc' = "idle" /\ UNCHANGED backups /\ record'.progress = None
    BY DEF Finish, Rest, RecordOf
  <1>2. QED
    BY <1>1 DEF MarkerInv, Existing, RollingBack

LEMMA MarkerNext ==
    ASSUME ~ClockGoesBack, TypeInv, WayBackInv, MarkerInv, [Next]_vars
    PROVE  MarkerInv'
  <1>1. CASE User \/ Staged \/ Swap \/ DropsEnd \/ Stops \/ (Remove /\ pc = "dropping")
    <2>1. UNCHANGED <<record, backups>> /\ pc' \notin {"backup", "archiving"} \cup RollingBack
      BY <1>1 DEF User, EditSkill, DamageRecord, operation, Staged, Swap, SwapOut, SwapIn, SwapsEnd,
                  DropsEnd, Stops, Rest, Remove, RemoveStarts, RemoveEnds, Start, End, target, RollingBack
    <2>2. QED
      BY <2>1, MarkerStays
  <1>2. CASE ClearsEnd \/ Restore \/ (Remove /\ pc = "clearing")
    <2>1. /\ UNCHANGED <<record, backups>>
          /\ pc \in RollingBack /\ pc' \in RollingBack /\ dir' = dir
      BY <1>2 DEF ClearsEnd, Restore, RestoreStarts, RestoreEnds, Remove, RemoveStarts, RemoveEnds,
                  Start, End, target, RollingBack
    <2>2. QED
      BY <2>1, MarkerStays
  <1>3. Remove => pc \in {"dropping", "clearing"}
    BY DEF Remove, RemoveStarts, RemoveEnds
  <1>4. CASE UNCHANGED vars
    BY <1>4 DEF vars, target, operation, MarkerInv, NamesNewest, Existing
  <1>5. QED
    BY <1>1, <1>2, <1>3, <1>4, MarkerBegin, MarkerMakeBackup, MarkerArchive, MarkerSaveRecord,
       MarkerPrune, MarkerRollbackStarts, MarkerRollbackEnds, MarkerFinish DEF Next, Continue

LEMMA TreeBegin ==
    ASSUME TypeInv, TreeInv, ForceInstall
    PROVE  TreeInv'
  <1>1. PICK v \in Versions, wanted \in BackupWanted : Begin(v, wanted)
    BY DEF ForceInstall
  <1>2. PICK n \in BackupDir(v, wanted) : StartInstall(v, n)
    BY <1>1 DEF Begin
  <1>3. /\ pc' \in {"backup", "stage"} /\ UNCHANGED <<backups, current>> /\ current = None
        /\ good' # None => UNCHANGED history
    BY <1>1, <1>2 DEF Begin, StartInstall, TreeInv
  <1>4. QED
    BY <1>3 DEF TreeInv, history

LEMMA TreeBackup ==
    ASSUME TypeInv, WayBackInv, TreeInv, MakeBackup \/ Archive \/ SaveBackupRecord \/ PruneBackups
    PROVE  TreeInv'
  <1>1. CASE MakeBackup
    <2>1. /\ pc = "backup" /\ pc' = "archiving" /\ dir \in Names
          /\ UNCHANGED <<tree, dir, history, current>>
          /\ backups' = [backups EXCEPT ![dir] = [tree |-> NoTree, record |-> None]]
          /\ todo' = {k \in Installed(tree) : k \in SkillsOf[release] \/ LooksOurs(tree[k])}
      BY <1>1 DEF MakeBackup, TypeInv
    <2>2. \A k \in Skills : backups'[dir].tree[k] = "absent"
      BY <2>1 DEF NoTree, TypeInv, TypeOK
    <2>3. good' = None /\ current = None
      BY <2>1 DEF WayBackInv, TreeInv, history
    <2>4. \A k \in Skills : tree[k] = "absent" => k \notin todo' /\ k # current
      BY <2>1, <2>3, InstallAssumption DEF Installed
    <2>5. QED
      BY <2>1, <2>2, <2>3, <2>4 DEF TreeInv, NotArchived
  <1>2. CASE Archive
    <2>1. pc = "archiving" /\ pc' = pc /\ UNCHANGED <<tree, history>> /\ good = None
      BY <1>2 DEF Archive, ArchiveStarts, ArchiveEnds, Start, End, WayBackInv
    <2>2. QED
      BY <1>2, <2>1, ArchivedGrows DEF TreeInv, history
  <1>3. CASE SaveBackupRecord
    <2>1. /\ pc = "archiving" /\ pc' = "pruning" /\ dir \in Existing /\ good = None
          /\ backups' = [backups EXCEPT ![dir].record = pre]
          /\ good' = (IF tree = before THEN dir ELSE good) /\ before' = before
      BY <1>3 DEF SaveBackupRecord, TypeInv, WayBackInv
    <2>2. backups'[dir].tree = backups[dir].tree
      BY <2>1, ExistingIsBackup DEF Backup, TypeInv, TypeOK
    <2>3. \A k \in Skills : tree[k] = "absent" => backups[dir].tree[k] = "absent"
      BY <2>1 DEF TreeInv, NotArchived
    <2>4. QED
      BY <2>1, <2>2, <2>3 DEF TreeInv
  <1>4. CASE PruneBackups
    <2>1. pc' = "stage" /\ UNCHANGED history
      BY <1>4 DEF PruneBackups
    <2>2. QED
      BY <1>4, <2>1, PruneKeepsNewest DEF TreeInv, history
  <1>5. QED
    BY <1>1, <1>2, <1>3, <1>4

(* A rollback clears, and restores, the backup that holds the tree.        *)
LEMMA RestoredIsGood ==
    ASSUME WayBackInv, MarkerInv, pc \in RollingBack, good # None
    PROVE  dir = good
  BY DEF WayBackInv, MarkerInv

LEMMA TreeRollback ==
    ASSUME TypeInv, WayBackInv, MarkerInv, TreeInv,
           \/ RollbackStarts \/ (pc = "clearing" /\ Remove) \/ ClearsEnd \/ Restore
    PROVE  TreeInv'
  <1>1. CASE RollbackStarts
    <2>1. /\ pc = "idle" /\ pc' = "clearing" /\ UNCHANGED <<tree, backups, history>>
          /\ \A k \in Skills : LooksOurs(tree[k]) => k \in todo'
      <3>1. PICK n \in Candidate : todo' = ToClear(backups[n])
        BY <1>1 DEF RollbackStarts
      <3>2. QED
        BY <1>1, <3>1 DEF RollbackStarts, target, ToClear, Installed, LooksOurs
    <2>2. QED
      BY <2>1 DEF TreeInv, history
  <1>2. CASE pc = "clearing" /\ Remove
    <2>1. UNCHANGED <<pc, backups, history>>
      BY <1>2 DEF Remove, RemoveStarts, RemoveEnds, Start, End
    <2>2. ASSUME NEW k \in Skills, LooksOurs(tree'[k]), LooksOurs(tree[k]) => k \in todo \/ k = current
          PROVE  k \in todo' \/ k = current'
      <3>1. CASE \E j \in Skills : RemoveStarts(j)
        <4>1. PICK j \in Skills : RemoveStarts(j)
          BY <3>1
        <4>2. /\ current = None /\ todo' = todo \ {j} /\ current' = j
              /\ k # j => tree'[k] = tree[k]
          BY <4>1 DEF RemoveStarts, Start, TypeInv, TypeOK, Tree
        <4>3. k # None
          BY InstallAssumption
        <4>4. QED
          BY <2>2, <4>2, <4>3
      <3>2. CASE RemoveEnds
        <4>1. todo' = todo /\ tree'[k] = IF k = current THEN "absent" ELSE tree[k]
          BY <3>2 DEF RemoveEnds, End, TypeInv, TypeOK, Tree
        <4>2. QED
          BY <2>2, <4>1 DEF LooksOurs
      <3>3. QED
        BY <1>2, <3>1, <3>2 DEF Remove
    <2>3. QED
      BY <1>2, <2>1, <2>2 DEF TreeInv, history
  <1>3. CASE ClearsEnd
    <2>1. /\ pc = "clearing" /\ pc' = "restoring" /\ UNCHANGED <<tree, backups, history, dir, current>>
          /\ todo = {} /\ current = None /\ todo' = Installed(backups[dir].tree)
      BY <1>3 DEF ClearsEnd, target, Done
    <2>2. good # None => dir = good
      BY <2>1, RestoredIsGood DEF RollingBack
    <2>3. \A k \in Skills : k # None
      BY InstallAssumption
    <2>4. QED
      BY <2>1, <2>2, <2>3 DEF TreeInv, history, Restored, Installed
  <1>4. CASE Restore
    <2>1. /\ pc = "restoring" /\ UNCHANGED <<pc, dir, backups, history>>
      BY <1>4, RestoredGrows
    <2>2. QED
      BY <1>4, <2>1, RestoredGrows DEF TreeInv, history
  <1>5. QED
    BY <1>1, <1>2, <1>3, <1>4

LEMMA TreeNext ==
    ASSUME TypeInv, WayBackInv, MarkerInv, TreeInv, [Next]_vars
    PROVE  TreeInv'
  <1>1. CASE User
    <2>1. pc = "idle" /\ UNCHANGED <<backups, operation, history>>
      BY <1>1 DEF User, EditSkill, DamageRecord
    <2>2. QED
      BY <2>1 DEF TreeInv, operation, history
  <1>2. CASE Staged \/ Swap \/ DropsEnd \/ (Remove /\ pc = "dropping")
    <2>1. /\ pc' \in {"swapping", "dropping", "verifying"}
          /\ UNCHANGED <<backups, history>>
      BY <1>2 DEF Staged, Swap, SwapOut, SwapIn, SwapsEnd, DropsEnd, Remove, RemoveStarts, RemoveEnds,
                  Start, End, target
    <2>2. QED
      BY <2>1 DEF TreeInv, history
  <1>3. CASE Stops
    BY <1>3 DEF Stops, Rest, target, TreeInv, history
  <1>4. CASE Finish \/ RollbackEnds
    BY <1>4 DEF Finish, RollbackEnds, Rest, Forget, TreeInv
  <1>5. CASE UNCHANGED vars
    BY <1>5 DEF vars, target, operation, history, TreeInv, NotArchived, Restored
  <1>6. Remove => pc \in {"dropping", "clearing"}
    BY DEF Remove, RemoveStarts, RemoveEnds
  <1>7. QED
    BY <1>1, <1>2, <1>3, <1>4, <1>5, <1>6, TreeBegin, TreeBackup, TreeRollback DEF Next, Continue

(* Whatever is stopped and whatever the user edits, a rollback that ends   *)
(* while an update was interrupted has brought back the tree which that    *)
(* update found, if it archived it, and keeps the recorded version, as     *)
(* long as a new backup is the newest.                                     *)
THEOREM RollbackTakesBackOnlyThis ==
    ASSUME ~ClockGoesBack
    PROVE  Spec => RollbackIsSafe
  <1>1. Init => WayBackInv /\ MarkerInv /\ TreeInv
    BY DEF Init, WayBackInv, MarkerInv, TreeInv, NoRecord, RecordOf, Existing, RollingBack
  <1>2. TypeInv /\ WayBackInv /\ MarkerInv /\ TreeInv /\ [Next]_vars =>
            WayBackInv' /\ MarkerInv' /\ TreeInv'
    BY WayBackNext, MarkerNext, TreeNext
  <1>3. ASSUME TypeInv, WayBackInv, MarkerInv, TreeInv, [Next]_vars
        PROVE  [pc = "restoring" /\ Done /\ pc' = "idle" /\ good' # good =>
                   /\ Holds(tree', before)
                   /\ \A k \in Skills : before[k] = "absent" => ~LooksOurs(tree'[k])]_vars
    <2>1. SUFFICES ASSUME pc = "restoring", Done, pc' = "idle", good' # good
                   PROVE  /\ Holds(tree', before)
                          /\ \A k \in Skills : before[k] = "absent" => ~LooksOurs(tree'[k])
      OBVIOUS
    <2>2. RollbackEnds
      BY <1>3, <2>1 DEF Next, User, EditSkill, DamageRecord, ForceInstall, Begin, RollbackStarts, Continue,
         MakeBackup, Archive, ArchiveStarts, ArchiveEnds, SaveBackupRecord, PruneBackups, Staged, Swap,
         SwapOut, SwapIn, SwapsEnd, Remove, RemoveStarts, RemoveEnds, DropsEnd, Finish, ClearsEnd, Restore,
         RestoreStarts, RestoreEnds, Start, End, Stops, history, vars
    <2>3. tree' = tree /\ good # None
      BY <2>1, <2>2 DEF RollbackEnds, Forget
    <2>4. dir = good
      BY <1>3, <2>1, <2>3, RestoredIsGood DEF RollingBack
    <2>5. \A k \in Skills : LooksOurs(before[k]) => tree[k] = before[k]
      <3>1. ASSUME NEW k \in Skills, LooksOurs(before[k])
            PROVE  tree[k] = before[k]
        <4>1. backups[dir].tree[k] = before[k] /\ before[k] # "absent" /\ k # None
          BY <1>3, <2>3, <2>4, <3>1, InstallAssumption DEF WayBackInv, Holds, LooksOurs
        <4>2. QED
          BY <1>3, <2>1, <2>3, <4>1 DEF TreeInv, Restored, Done
      <3>2. QED
        BY <3>1
    <2>6. QED
      BY <1>3, <2>1, <2>3, <2>5 DEF TreeInv, Holds
  <1>4. ASSUME TypeInv, WayBackInv, MarkerInv, TreeInv, [Next]_vars
        PROVE  [pc = "restoring" /\ record' # record /\ record.progress # None =>
                   record'.version = record.version]_vars
    <2>1. SUFFICES ASSUME pc = "restoring", record' # record, record.progress # None
                   PROVE  record'.version = record.version
      OBVIOUS
    <2>2. RollbackEnds
      BY <1>4, <2>1 DEF Next, User, EditSkill, DamageRecord, ForceInstall, Begin, RollbackStarts, Continue,
         MakeBackup, Archive, ArchiveStarts, ArchiveEnds, SaveBackupRecord, PruneBackups, Staged, Swap,
         SwapOut, SwapIn, SwapsEnd, Remove, RemoveStarts, RemoveEnds, DropsEnd, Finish, ClearsEnd, Restore,
         RestoreStarts, RestoreEnds, Stops, target, vars
    <2>3. dir \in Existing /\ dir = record.progress.backup
      BY <1>4, <2>1 DEF MarkerInv, RollingBack, TypeInv
    <2>4. CASE backups[dir].record # None
      BY <1>4, <2>1, <2>2, <2>3, <2>4 DEF RollbackEnds, RestoredRecord, MarkerInv
    <2>5. CASE backups[dir].record = None
      BY <1>4, <2>2, <2>5 DEF RollbackEnds, RestoredRecord, TypeInv, TypeOK, Record
    <2>6. QED
      BY <2>4, <2>5
  <1>5. QED
    BY <1>1, <1>2, <1>3, <1>4, InitType, NextType, PTL DEF Spec, RollbackIsSafe, RollbackUndoes, NoDowngrade
=============================================================================
