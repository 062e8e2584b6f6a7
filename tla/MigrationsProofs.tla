-------------------------- MODULE MigrationsProofs --------------------------
(***************************************************************************)
(* Proofs about Migrations for every list of migrations and any number of  *)
(* processes, when nobody starts a run while another one is going.         *)
(***************************************************************************)
EXTENDS Migrations, TLAPS

-----------------------------------------------------------------------------
(* Type correctness, with or without overlapping runs.                     *)

LEMMA InitType == Init => TypeOK
  BY MigrationsAssumption
  DEF Init, TypeOK, Effects, Snapshot, PCs, NoOutcome, Nothing, Outcomes

LEMMA ForgetType ==
    ASSUME TypeOK, NEW r \in Runners, Forget(r)
    PROVE  TypeOK'
  BY DEF Forget, files, TypeOK, Effects, Snapshot, PCs, NoOutcome, Nothing, Outcomes

LoopTyped ==
    /\ outcome \in [Runners -> [Migrations -> Outcomes]]
    /\ todo \in [Runners -> SUBSET Migrations]
    /\ pc \in [Runners -> PCs]

LEMMA VerdictType ==
    ASSUME TypeOK, NEW r \in Runners, NEW m \in Migrations, NEW o \in Outcomes,
           Continue(r, m, o) \/ Fail(r, m)
    PROVE  LoopTyped'
  <1>1. CASE Continue(r, m, o)
    <2>1. outcome' = [outcome EXCEPT ![r] = [outcome[r] EXCEPT ![m] = o]]
      BY <1>1 DEF Continue, TypeOK
    <2>2. outcome' \in [Runners -> [Migrations -> Outcomes]]
      BY <2>1 DEF TypeOK
    <2>3. QED
      BY <1>1, <2>2 DEF Continue, LoopTyped, TypeOK, PCs
  <1>2. CASE Fail(r, m)
    <2>1. outcome' = [outcome EXCEPT ![r] = [outcome[r] EXCEPT ![m] = "pending"]]
      BY <1>2 DEF Fail, TypeOK
    <2>2. outcome' \in [Runners -> [Migrations -> Outcomes]]
      BY <2>1 DEF TypeOK, Outcomes
    <2>3. QED
      BY <1>2, <2>2 DEF Fail, LoopTyped, TypeOK, PCs
  <1>3. QED
    BY <1>1, <1>2

(* The steps that move a run along its list and leave all else alone.      *)
LEMMA LoopType ==
    ASSUME TypeOK, NEW r \in Runners, NEW m \in Migrations,
           \/ InLedger(r, m) \/ NeedsConsent(r, m) \/ Satisfied(r, m) \/ Unsatisfied(r, m)
           \/ CheckFails(r, m) \/ CopyFails(r, m) \/ ApplyFails(r, m)
    PROVE  TypeOK'
  <1>1. LoopTyped'
    <2>1. CASE UNCHANGED <<outcome, todo>> /\ \E x \in PCs : pc' = [pc EXCEPT ![r] = x]
      BY <2>1 DEF TypeOK, LoopTyped
    <2>2. {"note", "backup", "apply"} \subseteq PCs
      BY DEF PCs
    <2>3. {"already-satisfied", "skipped-needs-consent", "pending"} \subseteq Outcomes
      BY DEF Outcomes
    <2>4. CASE Satisfied(r, m) \/ Unsatisfied(r, m)
      BY <2>1, <2>2, <2>3, <2>4, VerdictType DEF Satisfied, Unsatisfied
    <2>5. CASE ~(Satisfied(r, m) \/ Unsatisfied(r, m))
      BY <2>3, <2>5, VerdictType DEF InLedger, NeedsConsent, CheckFails, CopyFails, ApplyFails
    <2>6. QED
      BY <2>4, <2>5
  <1>2. UNCHANGED <<files, known, consent, dry, backedUp, copied, touched>>
    BY DEF InLedger, NeedsConsent, Satisfied, Unsatisfied, CheckFails, CopyFails, ApplyFails
  <1>3. QED
    BY <1>1, <1>2 DEF LoopTyped, files, TypeOK

LEMMA WriteType ==
    ASSUME TypeOK, NEW r \in Runners, NEW m \in Migrations,
           \/ BuiltIn(r, m) \/ ScriptStarts(r, m) \/ ScriptEnds(r, m)
           \/ Record(r, m) \/ RecordFails(r, m)
    PROVE  TypeOK'
  <1>1. CASE BuiltIn(r, m) \/ ScriptStarts(r, m) \/ ScriptEnds(r, m)
    BY <1>1 DEF BuiltIn, ScriptStarts, ScriptEnds, TypeOK, PCs, Effects
  <1>2. CASE Record(r, m) \/ RecordFails(r, m)
    <2>1. {"applied", "already-satisfied"} \subseteq Outcomes
      BY DEF Outcomes
    <2>2. LoopTyped'
      BY <1>2, <2>1, VerdictType DEF Record, RecordFails
    <2>3. QED
      BY <1>2, <2>2 DEF Record, RecordFails, Entries, LoopTyped, files, TypeOK
  <1>3. QED
    BY <1>1, <1>2

LEMMA CopyType ==
    ASSUME TypeOK, NEW r \in Runners, CopyStarts(r) \/ CopyEnds(r)
    PROVE  TypeOK'
  <1> USE DEF files, TypeOK, PCs
  <1>1. CASE CopyStarts(r)
    BY <1>1 DEF CopyStarts, Snapshot
  <1>2. CASE CopyEnds(r)
    <2>1. Copy(r) \in Snapshot /\ Nothing \in Snapshot
      BY DEF Copy, Nothing, Snapshot, Effects
    <2>2. QED
      BY <1>2, <2>1 DEF CopyEnds
  <1>3. QED
    BY <1>1, <1>2

LEMMA NextType == TypeOK /\ [Next]_vars => TypeOK'
  <1> SUFFICES ASSUME TypeOK, [Next]_vars
               PROVE  TypeOK'
    OBVIOUS
  <1>1. ASSUME NEW r \in Runners, Start(r)
        PROVE  TypeOK'
    BY <1>1 DEF Start, files, TypeOK, PCs, NoOutcome, Outcomes
  <1>2. ASSUME NEW r \in Runners, Step(r) \/ Crash(r)
        PROVE  TypeOK'
    <2>1. CASE Report(r)
      BY <2>1 DEF Report, files, TypeOK, PCs
    <2>2. QED
      BY <1>2, <2>1, LoopType, WriteType, CopyType, ForgetType DEF Step, Exit, Crash
  <1>3. CASE DeleteLedger
    BY <1>3 DEF DeleteLedger, process, TypeOK
  <1>4. ASSUME NEW b \in backups, Restore(b)
        PROVE  TypeOK'
    BY <1>4 DEF Restore, process, TypeOK, Snapshot
  <1>5. ASSUME NEW s \in Scripts, ReplaceScript(s)
        PROVE  TypeOK'
    BY <1>5 DEF ReplaceScript, process, TypeOK
  <1>6. CASE UNCHANGED vars
    BY <1>6 DEF vars, files, process, TypeOK
  <1>7. QED
    BY <1>1, <1>2, <1>3, <1>4, <1>5, <1>6 DEF Next

(* Every variable keeps its type, for any list and number of processes     *)
(* (install/migrations.py:52-107).                                         *)
THEOREM TypeCorrect == Spec => []TypeOK
  BY InitType, NextType, PTL DEF Spec

-----------------------------------------------------------------------------
(* The inductive invariant                                                 *)

Alone == \A r, q \in Runners : pc[r] # "idle" /\ pc[q] # "idle" => r = q

(* A script that was never run has left nothing half done.                 *)
UntouchedIsWhole ==
    \A m \in Migrations \ touched :
        /\ effect[m] # "half"
        /\ \A b \in backups : b.effect[m] # "half"

(* What a run knows and says is so.                                        *)
KnownIsDone(r) ==
    /\ HonestSnapshot(effect, known[r])
    /\ \A m \in Migrations :
        outcome[r][m] \in {"applied", "already-satisfied"} => effect[m] = "present"

(* The loop has gone through a front part of the list, and all it went     *)
(* past is done, unless this run leaves scripts or everything alone.       *)
PassedIsDone(r) ==
    /\ \A m \in todo[r], n \in Migrations : m < n => n \in todo[r]
    /\ todo[r] # {} => \A n \in Migrations \ todo[r] : effect[n] = "present" \/ Withheld(r, n) \/ dry[r]

(* Where a run is tells how far the migration it is at has got.            *)
PlaceTells(r) ==
    \A m \in Migrations :
        At(r, m) =>
            /\ pc[r] \in {"backup", "copying", "apply", "applying"} => ~dry[r] /\ ~Withheld(r, m)
            /\ pc[r] \in {"backup", "copying", "apply"} => effect[m] # "present"
            /\ pc[r] = "applying" => effect[m] = "half"
            /\ pc[r] \in {"record", "note"} => effect[m] = "present"
            /\ pc[r] = "apply" /\ m \in UserData => backedUp[r]

CopyIsCurrent(r) ==
    pc[r] = "copying" => copied[r].effect = effect /\ HonestSnapshot(effect, copied[r].ledger)

BackupCovers(r) ==
    backedUp[r] =>
        \A m \in UserData \ touched :
            effect[m] = "absent" => \E b \in backups : b.effect[m] = "absent"

RunInv(r) ==
    pc[r] # "idle" =>
        /\ KnownIsDone(r)
        /\ PassedIsDone(r)
        /\ PlaceTells(r)
        /\ CopyIsCurrent(r)
        /\ BackupCovers(r)

MigrationsInv ==
    /\ Alone
    /\ UntouchedIsWhole
    /\ HonestLedger
    /\ OriginalIsKept
    /\ \A r \in Runners : RunInv(r)

LEMMA InvInit == Init => MigrationsInv
  BY DEF Init, MigrationsInv, Alone, UntouchedIsWhole, HonestLedger, HonestSnapshot,
         OriginalIsKept, RunInv

(* While one run is going the others rest, and whatever it does leaves the *)
(* invariant about them true.                                              *)
LEMMA OthersRest ==
    ASSUME TypeOK, Alone, NEW r \in Runners, pc[r] # "idle",
           NEW x, pc' = [pc EXCEPT ![r] = x]
    PROVE  Alone' /\ \A q \in Runners \ {r} : RunInv(q)'
  BY DEF TypeOK, Alone, RunInv

LEMMA AtIsUnique ==
    ASSUME TypeOK, NEW r \in Runners, NEW m \in Migrations, NEW n \in Migrations,
           At(r, m), At(r, n)
    PROVE  m = n
  BY MigrationsAssumption DEF At, TypeOK

(* A run goes on past a migration that is done, or that it leaves alone.   *)
LEMMA ContinueInv ==
    ASSUME TypeOK, MigrationsInv, NEW r \in Runners, NEW m \in Migrations, NEW o \in Outcomes,
           pc[r] # "idle", At(r, m), Continue(r, m, o),
           UNCHANGED <<effect, backups, consent, dry, backedUp, touched>>,
           HonestSnapshot(effect, known'[r]),
           o \in {"applied", "already-satisfied"} => effect[m] = "present",
           effect[m] = "present" \/ Withheld(r, m) \/ dry[r]
    PROVE  RunInv(r)'
  <1>1. RunInv(r)
    BY DEF MigrationsInv
  <1>2. todo'[r] = todo[r] \ {m} /\ pc'[r] = "loop" /\ todo[r] \subseteq Migrations
    BY DEF Continue, TypeOK
  <1>3. \A n \in Migrations : outcome'[r][n] = IF n = m THEN o ELSE outcome[r][n]
    BY DEF Continue, TypeOK
  <1>4. KnownIsDone(r)'
    BY <1>1, <1>3 DEF RunInv, KnownIsDone, HonestSnapshot
  <1>5. \A k \in todo'[r], n \in Migrations : k < n => n \in todo'[r]
    BY <1>1, <1>2, MigrationsAssumption DEF RunInv, PassedIsDone, At
  <1>6. \A n \in Migrations \ todo'[r] : effect[n] = "present" \/ Withheld(r, n) \/ dry[r]
    BY <1>1, <1>2 DEF RunInv, PassedIsDone, At
  <1>7. PassedIsDone(r)'
    BY <1>5, <1>6 DEF PassedIsDone, Withheld
  <1>8. QED
    BY <1>1, <1>2, <1>4, <1>7 DEF RunInv, PlaceTells, CopyIsCurrent, BackupCovers

(* A run that stops at a failure has nothing left to go past.              *)
LEMMA FailInv ==
    ASSUME TypeOK, MigrationsInv, NEW r \in Runners, NEW m \in Migrations,
           pc[r] # "idle", Fail(r, m),
           UNCHANGED <<effect, backups, consent, dry, backedUp, touched>>,
           HonestSnapshot(effect, known'[r])
    PROVE  RunInv(r)'
  <1>1. RunInv(r)
    BY DEF MigrationsInv
  <1>2. todo'[r] = {} /\ pc'[r] = "loop"
    BY DEF Fail, TypeOK
  <1>3. \A n \in Migrations : outcome'[r][n] = IF n = m THEN "pending" ELSE outcome[r][n]
    BY DEF Fail, TypeOK
  <1>4. KnownIsDone(r)'
    BY <1>1, <1>3 DEF RunInv, KnownIsDone, HonestSnapshot
  <1>5. QED
    BY <1>1, <1>2, <1>4 DEF RunInv, PassedIsDone, PlaceTells, CopyIsCurrent, BackupCovers, At

(* The steps that change no file.                                          *)
LEMMA LoopInv ==
    ASSUME TypeOK, MigrationsInv, NEW r \in Runners, NEW m \in Migrations,
           \/ InLedger(r, m) \/ NeedsConsent(r, m) \/ Satisfied(r, m) \/ Unsatisfied(r, m)
           \/ CheckFails(r, m) \/ CopyFails(r, m) \/ ApplyFails(r, m) \/ RecordFails(r, m)
    PROVE  MigrationsInv'
  <1> DEFINE Unmoved == UNCHANGED <<files, consent, dry, backedUp, copied, touched>>
  <1>1. RunInv(r) /\ pc[r] # "idle" /\ Unmoved
    BY DEF MigrationsInv, InLedger, NeedsConsent, Satisfied, Unsatisfied, Consulted,
           CheckFails, CopyFails, ApplyFails, RecordFails
  <1>2. KnownIsDone(r) /\ PassedIsDone(r) /\ PlaceTells(r) /\ CopyIsCurrent(r) /\ BackupCovers(r)
    BY <1>1 DEF RunInv
  <1>3. PICK x : pc' = [pc EXCEPT ![r] = x]
    BY DEF InLedger, NeedsConsent, Satisfied, Unsatisfied, CheckFails, CopyFails,
           ApplyFails, RecordFails, Continue, Fail
  <1>4. RunInv(r)'
    <2>1. {"already-satisfied", "skipped-needs-consent", "pending"} \subseteq Outcomes
      BY DEF Outcomes
    <2>2. CASE InLedger(r, m)
      <3>1. effect[m] = "present" /\ known'[r] = known[r]
        BY <2>2, <1>2 DEF InLedger, KnownIsDone, HonestSnapshot
      <3>2. QED
        BY <2>1, <2>2, <1>1, <1>2, <3>1, ContinueInv DEF InLedger, files, KnownIsDone
    <2>3. CASE NeedsConsent(r, m)
      BY <2>1, <2>3, <1>1, <1>2, ContinueInv DEF NeedsConsent, files, KnownIsDone
    <2>4. CASE dry[r] /\ (Satisfied(r, m) \/ Unsatisfied(r, m))
      BY <2>1, <2>4, <1>1, <1>2, ContinueInv
      DEF Satisfied, Unsatisfied, Consulted, IsSatisfied, files, KnownIsDone
    <2>5. CASE ~dry[r] /\ (Satisfied(r, m) \/ Unsatisfied(r, m))
      <3>1. /\ At(r, m) /\ ~Withheld(r, m)
            /\ UNCHANGED <<outcome, todo, known>>
            /\ \/ pc'[r] = "note" /\ effect[m] = "present"
               \/ pc'[r] = "backup" /\ effect[m] # "present"
               \/ pc'[r] = "apply" /\ effect[m] # "present" /\ ~BackupDue(r, m)
        BY <2>5 DEF Satisfied, Unsatisfied, Consulted, IsSatisfied, TypeOK
      <3>2. \A n \in Migrations : At(r, n)' => n = m
        BY <3>1, AtIsUnique DEF At
      <3>3. PlaceTells(r)'
        BY <1>1, <2>5, <3>1, <3>2 DEF PlaceTells, Withheld, BackupDue, files
      <3>4. QED
        BY <1>1, <1>2, <3>1, <3>3
        DEF RunInv, KnownIsDone, PassedIsDone, CopyIsCurrent, BackupCovers, HonestSnapshot,
            Withheld, files
    <2>6. CASE CheckFails(r, m) \/ CopyFails(r, m) \/ ApplyFails(r, m)
      BY <2>6, <1>1, <1>2, FailInv DEF CheckFails, CopyFails, ApplyFails, files, KnownIsDone
    <2>7. CASE RecordFails(r, m)
      <3>1. effect[m] = "present" /\ known'[r] = known[r] \cup {m}
        BY <2>7, <1>2 DEF RecordFails, PlaceTells, Entries, TypeOK
      <3>2. HonestSnapshot(effect, known'[r])
        BY <3>1, <1>2 DEF KnownIsDone, HonestSnapshot
      <3>3. QED
        BY <2>7, <1>1, <3>2, FailInv DEF RecordFails, files
    <2>8. QED
      BY <2>2, <2>3, <2>4, <2>5, <2>6, <2>7 DEF TypeOK
  <1>5. QED
    BY <1>1, <1>3, <1>4, OthersRest
    DEF MigrationsInv, UntouchedIsWhole, HonestLedger, OriginalIsKept, files

LEMMA CopyInv ==
    ASSUME TypeOK, MigrationsInv, NEW r \in Runners, CopyStarts(r) \/ CopyEnds(r)
    PROVE  MigrationsInv'
  <1>1. RunInv(r) /\ pc[r] # "idle" /\ UNCHANGED <<effect, ledger, todo, known, consent, dry, outcome, touched>>
    BY DEF MigrationsInv, CopyStarts, CopyEnds, files
  <1>2. KnownIsDone(r) /\ PassedIsDone(r) /\ PlaceTells(r) /\ CopyIsCurrent(r) /\ BackupCovers(r)
    BY <1>1 DEF RunInv
  <1>3. KnownIsDone(r)' /\ PassedIsDone(r)'
    BY <1>1, <1>2 DEF KnownIsDone, PassedIsDone, HonestSnapshot, Withheld
  <1>4. CASE CopyStarts(r)
    <2>1. pc'[r] = "copying" /\ copied'[r] = [effect |-> effect, ledger |-> ledger]
          /\ pc' = [pc EXCEPT ![r] = "copying"] /\ UNCHANGED <<files, backedUp>>
      BY <1>4 DEF CopyStarts, TypeOK
    <2>2. RunInv(r)'
      BY <1>1, <1>2, <1>3, <1>4, <2>1
      DEF RunInv, PlaceTells, CopyIsCurrent, BackupCovers, At, Withheld, files,
          MigrationsInv, HonestLedger, HonestSnapshot, CopyStarts
    <2>3. QED
      BY <1>1, <2>1, <2>2, OthersRest
      DEF MigrationsInv, UntouchedIsWhole, HonestLedger, OriginalIsKept, files
  <1>5. CASE CopyEnds(r)
    <2>1. /\ pc[r] = "copying" /\ pc' = [pc EXCEPT ![r] = "apply"]
          /\ pc'[r] = "apply" /\ backedUp'[r] = TRUE
          /\ backups' = backups \cup {Copy(r)}
      BY <1>5 DEF CopyEnds, TypeOK
    <2>2. Copy(r).effect = effect /\ HonestSnapshot(Copy(r).effect, Copy(r).ledger)
      BY <1>2, <2>1 DEF CopyIsCurrent, Copy, HonestSnapshot, TypeOK, Effects
    <2>3. BackupCovers(r)'
      BY <1>1, <2>1, <2>2 DEF BackupCovers
    <2>4. RunInv(r)'
      BY <1>1, <1>2, <1>3, <2>1, <2>3
      DEF RunInv, PlaceTells, CopyIsCurrent, At, Withheld
    <2>5. UntouchedIsWhole' /\ HonestLedger' /\ OriginalIsKept'
      BY <1>1, <2>1, <2>2 DEF MigrationsInv, UntouchedIsWhole, HonestLedger, OriginalIsKept
    <2>6. QED
      BY <1>1, <2>1, <2>4, <2>5, OthersRest DEF MigrationsInv
  <1>6. QED
    BY <1>4, <1>5

(* A change of the workspace touches the migration the run is at, after    *)
(* the backup that keeps what it changes.                                  *)
LEMMA ChangeInv ==
    ASSUME TypeOK, MigrationsInv, NEW r \in Runners, NEW m \in Migrations,
           BuiltIn(r, m) \/ ScriptStarts(r, m) \/ ScriptEnds(r, m)
    PROVE  MigrationsInv'
  <1>1. RunInv(r) /\ pc[r] # "idle" /\ At(r, m)
        /\ UNCHANGED <<ledger, backups, todo, known, consent, dry, backedUp, outcome>>
    BY DEF MigrationsInv, BuiltIn, ScriptStarts, ScriptEnds
  <1>2. KnownIsDone(r) /\ PassedIsDone(r) /\ PlaceTells(r) /\ CopyIsCurrent(r) /\ BackupCovers(r)
    BY <1>1 DEF RunInv
  <1>3. /\ pc[r] \in {"apply", "applying"}
        /\ pc[r] = "applying" => m \in touched /\ touched' = touched
        /\ pc[r] = "apply" => touched' = touched \cup {m}
        /\ effect[m] # "present"
    <2>1. pc[r] = "applying" => effect[m] = "half"
      BY <1>1, <1>2 DEF PlaceTells
    <2>2. QED
      BY <1>1, <1>2, <2>1
      DEF PlaceTells, BuiltIn, ScriptStarts, ScriptEnds, MigrationsInv, UntouchedIsWhole
  <1>4. \/ /\ effect' = [effect EXCEPT ![m] = "present"]
           /\ pc' = [pc EXCEPT ![r] = "record"]
        \/ /\ effect' = [effect EXCEPT ![m] = "half"]
           /\ pc' = [pc EXCEPT ![r] = "applying"]
    BY DEF BuiltIn, ScriptStarts, ScriptEnds
  <1>5. \A n \in Migrations : n # m => effect'[n] = effect[n]
    BY <1>4 DEF TypeOK, Effects
  <1>6. \/ effect'[m] = "present" /\ pc'[r] = "record"
        \/ effect'[m] = "half" /\ pc'[r] = "applying"
    BY <1>4 DEF TypeOK, Effects
  <1>7. \A n \in Migrations : effect[n] = "present" => effect'[n] = "present"
    BY <1>3, <1>5
  <1>8. KnownIsDone(r)' /\ PassedIsDone(r)'
    BY <1>1, <1>2, <1>7 DEF KnownIsDone, PassedIsDone, HonestSnapshot, Withheld, TypeOK
  <1>9. \A n \in Migrations : At(r, n)' => n = m
    BY <1>1, AtIsUnique DEF At
  <1>10. PlaceTells(r)'
    <2>1. ~dry[r] /\ ~Withheld(r, m)
      BY <1>1, <1>2, <1>3 DEF PlaceTells
    <2>2. QED
      BY <1>1, <1>6, <1>9, <2>1 DEF PlaceTells, Withheld
  <1>11. CopyIsCurrent(r)'
    BY <1>6 DEF CopyIsCurrent
  <1>12. BackupCovers(r)'
    BY <1>1, <1>2, <1>3, <1>5, <1>6, MigrationsAssumption DEF BackupCovers
  <1>13. UntouchedIsWhole'
    BY <1>1, <1>3, <1>5 DEF MigrationsInv, UntouchedIsWhole
  <1>14. HonestLedger'
    BY <1>1, <1>7 DEF MigrationsInv, HonestLedger, HonestSnapshot, TypeOK
  <1>15. OriginalIsKept'
    <2>1. CASE m \in UserData \ touched
      <3>1. backedUp[r] /\ effect[m] = "absent"
        <4>1. effect[m] # "half" /\ pc[r] = "apply"
          BY <1>3, <2>1 DEF MigrationsInv, UntouchedIsWhole
        <4>2. QED
          BY <1>1, <1>2, <1>3, <2>1, <4>1 DEF PlaceTells, TypeOK, Effects
      <3>2. \E b \in backups : b.effect[m] = "absent"
        BY <1>2, <2>1, <3>1 DEF BackupCovers
      <3>3. QED
        BY <1>1, <1>3, <3>2 DEF MigrationsInv, OriginalIsKept
    <2>2. CASE m \notin UserData \ touched
      BY <1>1, <1>3, <2>2 DEF MigrationsInv, OriginalIsKept
    <2>3. QED
      BY <2>1, <2>2
  <1>16. RunInv(r)'
    BY <1>8, <1>10, <1>11, <1>12 DEF RunInv
  <1>17. QED
    BY <1>1, <1>4, <1>13, <1>14, <1>15, <1>16, OthersRest DEF MigrationsInv

LEMMA RecordInv ==
    ASSUME TypeOK, MigrationsInv, NEW r \in Runners, NEW m \in Migrations, Record(r, m)
    PROVE  MigrationsInv'
  <1>1. RunInv(r) /\ pc[r] # "idle" /\ At(r, m) /\ effect[m] = "present"
        /\ UNCHANGED <<effect, backups, consent, dry, backedUp, touched>>
    BY DEF MigrationsInv, RunInv, PlaceTells, Record
  <1>2. known'[r] = known[r] \cup {m} /\ ledger' = known[r] \cup {m}
    BY DEF Record, Entries, TypeOK
  <1>3. HonestSnapshot(effect, known'[r]) /\ HonestSnapshot(effect, ledger')
    BY <1>1, <1>2 DEF RunInv, KnownIsDone, HonestSnapshot
  <1>4. PICK o \in {"applied", "already-satisfied"} : Continue(r, m, o)
    BY DEF Record
  <1>5. RunInv(r)'
    BY <1>1, <1>3, <1>4, ContinueInv DEF Outcomes
  <1>6. QED
    BY <1>1, <1>3, <1>4, <1>5, OthersRest
    DEF MigrationsInv, UntouchedIsWhole, HonestLedger, OriginalIsKept, Continue

LEMMA EndInv ==
    ASSUME TypeOK, MigrationsInv, NEW r \in Runners, Report(r) \/ Exit(r) \/ Crash(r)
    PROVE  MigrationsInv'
  <1>1. pc[r] # "idle" /\ UNCHANGED <<files, touched>>
    BY DEF Report, Exit, Crash, Forget
  <1>2. PICK x : pc' = [pc EXCEPT ![r] = x]
    BY DEF Report, Exit, Crash, Forget
  <1>3. RunInv(r)'
    <2>1. CASE Report(r)
      <3>1. pc'[r] = "done" /\ UNCHANGED <<files, todo, known, consent, dry, backedUp, outcome, touched>>
        BY <2>1 DEF Report, TypeOK
      <3>2. QED
        BY <1>1, <3>1
        DEF MigrationsInv, RunInv, KnownIsDone, PassedIsDone, PlaceTells, CopyIsCurrent,
            BackupCovers, HonestSnapshot, At, Withheld, files
    <2>2. CASE Exit(r) \/ Crash(r)
      BY <2>2 DEF Exit, Crash, Forget, RunInv, TypeOK
    <2>3. QED
      BY <2>1, <2>2
  <1>4. QED
    BY <1>1, <1>2, <1>3, OthersRest
    DEF MigrationsInv, UntouchedIsWhole, HonestLedger, OriginalIsKept, files

(* A run that starts alone finds the ledger honest and has gone past none. *)
LEMMA StartInv ==
    ASSUME OneAtATime, TypeOK, MigrationsInv, NEW r \in Runners, Start(r)
    PROVE  MigrationsInv'
  <1>1. /\ pc'[r] = "loop" /\ todo'[r] = Migrations /\ known'[r] = ledger
        /\ backedUp'[r] = FALSE /\ outcome'[r] = NoOutcome
        /\ UNCHANGED <<files, touched>>
    BY DEF Start, TypeOK
  <1>2. \A q \in Runners \ {r} : pc'[q] = "idle"
    BY DEF Start, Idle, TypeOK
  <1>3. Alone' /\ \A q \in Runners \ {r} : RunInv(q)'
    BY <1>2 DEF Alone, RunInv
  <1>4. RunInv(r)'
    BY <1>1
    DEF MigrationsInv, RunInv, KnownIsDone, PassedIsDone, PlaceTells, CopyIsCurrent,
        BackupCovers, HonestLedger, HonestSnapshot, NoOutcome, files
  <1>5. QED
    BY <1>1, <1>3, <1>4
    DEF MigrationsInv, UntouchedIsWhole, HonestLedger, OriginalIsKept, files

(* What happens around the runs: a ledger that is gone claims nothing, and *)
(* a copy that is restored is as honest as it was kept.                    *)
LEMMA AroundInv ==
    ASSUME TypeOK, MigrationsInv,
           \/ DeleteLedger
           \/ \E b \in backups : Restore(b)
           \/ \E s \in Scripts : ReplaceScript(s)
    PROVE  MigrationsInv'
  <1>1. UNCHANGED <<backups, process, touched>>
    BY DEF DeleteLedger, Restore, ReplaceScript
  <1>2. CASE \E b \in backups : Restore(b)
    <2>1. PICK b \in backups : Restore(b)
      BY <1>2
    <2>2. Alone' /\ \A r \in Runners : RunInv(r)'
      BY <1>1, <2>1 DEF Restore, Idle, Alone, RunInv, process
    <2>3. UntouchedIsWhole' /\ HonestLedger' /\ OriginalIsKept'
      BY <1>1, <2>1 DEF MigrationsInv, Restore, UntouchedIsWhole, HonestLedger, OriginalIsKept
    <2>4. QED
      BY <2>2, <2>3 DEF MigrationsInv
  <1>3. CASE ~ \E b \in backups : Restore(b)
    <2>1. UNCHANGED effect /\ (ledger' = {} \/ UNCHANGED ledger)
      BY <1>3 DEF DeleteLedger, ReplaceScript
    <2>2. \A r \in Runners : RunInv(r)'
      BY <1>1, <2>1
      DEF process, MigrationsInv, RunInv, KnownIsDone, PassedIsDone, PlaceTells, CopyIsCurrent,
          BackupCovers, HonestSnapshot, At, Withheld
    <2>3. QED
      BY <1>1, <2>1, <2>2
      DEF process, MigrationsInv, Alone, UntouchedIsWhole, HonestLedger, HonestSnapshot, OriginalIsKept
  <1>4. QED
    BY <1>2, <1>3

LEMMA InvUnchanged ==
    ASSUME MigrationsInv, UNCHANGED vars
    PROVE  MigrationsInv'
  BY DEF vars, files, process, MigrationsInv, Alone, UntouchedIsWhole, HonestLedger, HonestSnapshot,
         OriginalIsKept, RunInv, KnownIsDone, PassedIsDone, PlaceTells, CopyIsCurrent,
         BackupCovers, At, Withheld

LEMMA InvNext ==
    ASSUME OneAtATime
    PROVE  TypeOK /\ MigrationsInv /\ [Next]_vars => MigrationsInv'
  <1> SUFFICES ASSUME TypeOK, MigrationsInv, [Next]_vars
               PROVE  MigrationsInv'
    OBVIOUS
  <1>1. ASSUME NEW r \in Runners, Start(r) \/ Step(r) \/ Crash(r)
        PROVE  MigrationsInv'
    BY <1>1, StartInv, LoopInv, CopyInv, ChangeInv, RecordInv, EndInv DEF Step
  <1>2. QED
    BY <1>1, AroundInv, InvUnchanged DEF Next

(* Run by one process at a time, with crashes anywhere: the invariant.     *)
THEOREM MigrationsInvariant ==
    ASSUME OneAtATime
    PROVE  Spec => []MigrationsInv
  BY InvInit, InitType, InvNext, NextType, PTL DEF Spec

(* What a ledger lists is done, in the workspace and in every copy of it,  *)
(* however runs died (migrations.py:85-88, 378).                           *)
THEOREM LedgerIsHonest ==
    ASSUME OneAtATime
    PROVE  Spec => []HonestLedger
  <1>1. MigrationsInv => HonestLedger
    BY DEF MigrationsInv
  <1>2. QED
    BY <1>1, MigrationsInvariant, PTL

(* For everything the tool changed in the user's data, a complete copy     *)
(* from before it began is kept (migrations.py:15, 373).                   *)
THEOREM OriginalStays ==
    ASSUME OneAtATime
    PROVE  Spec => []OriginalIsKept
  <1>1. MigrationsInv => OriginalIsKept
    BY DEF MigrationsInv
  <1>2. QED
    BY <1>1, MigrationsInvariant, PTL

(* No migration is applied over an earlier one's half (packaging.md:208).  *)
THEOREM NoneOverAHalf ==
    ASSUME OneAtATime
    PROVE  Spec => []LaterNeverSeesHalf
  <1>1. TypeOK /\ MigrationsInv => LaterNeverSeesHalf
    <2> SUFFICES ASSUME TypeOK, MigrationsInv, NEW r \in Runners,
                        NEW m \in Migrations, NEW n \in Migrations,
                        pc[r] \in {"apply", "applying"}, At(r, m), n < m
                 PROVE  effect[n] # "half"
      BY DEF LaterNeverSeesHalf
    <2>1. PassedIsDone(r) /\ ~dry[r] /\ ~Withheld(r, m)
      BY DEF MigrationsInv, RunInv, PlaceTells
    <2>2. n \notin todo[r] /\ todo[r] # {}
      BY MigrationsAssumption DEF At
    <2>3. effect[n] = "present" \/ Withheld(r, n)
      BY <2>1, <2>2 DEF PassedIsDone
    <2>4. ~Withheld(r, n)
      BY <2>1, MigrationsAssumption DEF Withheld
    <2>5. QED
      BY <2>3, <2>4
  <1>2. QED
    BY <1>1, MigrationsInvariant, TypeCorrect, PTL

(* A report says nothing is done that is not (migrations.py:344, 365, 379).*)
THEOREM ReportsAreTrue ==
    ASSUME OneAtATime
    PROVE  Spec => []ReportIsTrue
  <1>1. MigrationsInv => ReportIsTrue
    BY DEF MigrationsInv, RunInv, KnownIsDone, ReportIsTrue
  <1>2. QED
    BY <1>1, MigrationsInvariant, PTL

-----------------------------------------------------------------------------
(* What a step never does.                                                 *)

LEMMA EffectSteps ==
    ASSUME [Next]_vars, effect' # effect
    PROVE  \/ \E b \in backups : Restore(b)
           \/ \E r \in Runners, m \in Migrations :
                BuiltIn(r, m) \/ ScriptStarts(r, m) \/ ScriptEnds(r, m)
  BY DEF Next, vars, files, Start, Step, Crash, Exit, Forget, Report, InLedger, NeedsConsent,
         Satisfied, Unsatisfied, CheckFails, CopyFails, CopyStarts, CopyEnds, ApplyFails,
         Record, RecordFails, DeleteLedger, ReplaceScript

(* No migration is begun again on a workspace that has its effect,         *)
(* whatever became of the ledger (packaging.md:203).                       *)
THEOREM NoneRunsTwice ==
    ASSUME OneAtATime
    PROVE  Spec => NoSecondRun
  <1>1. ASSUME TypeOK, MigrationsInv, [Next]_vars, NEW m \in Migrations,
               effect[m] = "present", effect'[m] # "present"
        PROVE  \E b \in backups : Restore(b)
    <2>1. ASSUME NEW r \in Runners, NEW n \in Migrations, ScriptStarts(r, n)
          PROVE  FALSE
      <3>1. effect[n] # "present"
        BY <1>1, <2>1 DEF ScriptStarts, MigrationsInv, RunInv, PlaceTells
      <3>2. QED
        BY <1>1, <2>1, <3>1 DEF ScriptStarts, TypeOK, Effects
    <2>2. ASSUME NEW r \in Runners, NEW n \in Migrations, BuiltIn(r, n) \/ ScriptEnds(r, n)
          PROVE  FALSE
      BY <1>1, <2>2 DEF BuiltIn, ScriptEnds, TypeOK, Effects
    <2>3. QED
      BY <1>1, <2>1, <2>2, EffectSteps
  <1>2. TypeOK /\ MigrationsInv /\ [Next]_vars =>
            [\A m \in Migrations :
                effect[m] = "present" /\ effect'[m] # "present" => \E b \in backups : Restore(b)]_vars
    BY <1>1
  <1>3. QED
    BY <1>2, MigrationsInvariant, TypeCorrect, PTL DEF Spec, NoSecondRun

(* A script changes the workspace with consent, not in a dry run, and with *)
(* the bytes the release declared (migrations.py:208-224, 349).            *)
THEOREM ScriptsAreDeclared ==
    ASSUME OneAtATime
    PROVE  Spec => OnlyDeclaredScripts
  <1> DEFINE Allowed(s) ==
        \/ payload[s] = "declared" /\ \E r \in Runners : consent[r] /\ ~dry[r] /\ At(r, s)
        \/ \E b \in backups : Restore(b)
  <1>1. ASSUME TypeOK, MigrationsInv, [Next]_vars, NEW s \in Scripts,
               effect'[s] = "half", effect[s] # "half"
        PROVE  Allowed(s)
    <2>1. ASSUME NEW r \in Runners, NEW n \in Migrations, ScriptStarts(r, n)
          PROVE  Allowed(s)
      <3>1. n = s
        BY <1>1, <2>1, MigrationsAssumption DEF ScriptStarts, TypeOK, Effects
      <3>2. ~dry[r] /\ ~Withheld(r, n)
        BY <1>1, <2>1 DEF ScriptStarts, MigrationsInv, RunInv, PlaceTells
      <3>3. QED
        BY <2>1, <3>1, <3>2 DEF ScriptStarts, HashIsRight, Withheld
    <2>2. ASSUME NEW r \in Runners, NEW n \in Migrations, BuiltIn(r, n) \/ ScriptEnds(r, n)
          PROVE  FALSE
      BY <1>1, <2>2, MigrationsAssumption DEF BuiltIn, ScriptEnds, TypeOK, Effects
    <2>3. QED
      BY <1>1, <2>1, <2>2, EffectSteps
  <1>2. TypeOK /\ MigrationsInv /\ [Next]_vars =>
            [\A s \in Scripts : effect'[s] = "half" /\ effect[s] # "half" => Allowed(s)]_vars
    BY <1>1
  <1>3. QED
    BY <1>2, MigrationsInvariant, TypeCorrect, PTL DEF Spec, OnlyDeclaredScripts
=============================================================================
