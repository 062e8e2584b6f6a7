----------------------------- MODULE Migrations -----------------------------
(***************************************************************************)
(* Once-only migrations of the user's workspace (install/migrations.py):   *)
(*                                                                         *)
(*   load ledger -> for each: check -> back up -> apply -> record           *)
(*                                                                         *)
(* The ledger is loaded once, when a run starts, and written whole after   *)
(* each migration; every migration can also tell whether its effect is     *)
(* there.  No lock keeps two runs apart.  A run may die anywhere, and a    *)
(* script may die half way through its change.                             *)
(***************************************************************************)
EXTENDS Naturals, FiniteSets

CONSTANTS
    Migrations,     \* numbered in the order collect_migrations lists them
    Scripts,        \* those a script of the payload carries out
    UserData,       \* those with changes_user_data
    Runners,        \* processes that may run `migrate` or `upgrade`
    OneAtATime,     \* nobody starts a run while another one is going
    MaxBackups      \* a bound: with so many, no run is started

ASSUME MigrationsAssumption ==
    /\ Migrations \subseteq Nat
    /\ IsFiniteSet(Migrations)
    /\ Scripts \subseteq UserData
    /\ UserData \subseteq Migrations
    /\ \A s \in Scripts, b \in Migrations \ Scripts : b < s
    /\ OneAtATime \in BOOLEAN
    /\ MaxBackups \in Nat

(* A script may leave its effect half there; the built-in migration writes *)
(* its one file atomically.                                                *)
Effects == [Migrations -> {"absent", "half", "present"}]

Outcomes == {"none", "applied", "already-satisfied", "skipped-needs-consent", "pending"}

(* A copy of the workspace: what has been done to it, and its ledger.      *)
Snapshot == [effect : Effects, ledger : SUBSET Migrations]

VARIABLES       \* files
    effect,     \* how much of each migration's effect is in the workspace
    ledger,     \* the ids in .migrations.json; none when the file is not there
    backups,    \* the complete copies under .backups/
    payload     \* each script in the payload: what the release declared, or not

VARIABLES       \* per process
    pc,         \* where it is
    todo,       \* the migrations its loop has yet to handle
    known,      \* the ledger it loaded, with what it recorded since
    consent,    \* --allow-migration-scripts
    dry,        \* --dry-run
    backedUp,   \* run.backup is set
    copied,     \* what the backup in progress holds so far
    outcome     \* run.outcomes

VARIABLE touched    \* history: the migrations whose apply() has ever begun

files == <<effect, ledger, backups, payload>>
process == <<pc, todo, known, consent, dry, backedUp, copied, outcome>>
vars == <<files, process, touched>>

PCs == {"idle", "loop", "backup", "copying", "apply", "applying", "record", "note", "done"}

TypeOK ==
    /\ effect \in Effects
    /\ ledger \in SUBSET Migrations
    /\ backups \in SUBSET Snapshot
    /\ payload \in [Scripts -> {"declared", "other"}]
    /\ pc \in [Runners -> PCs]
    /\ todo \in [Runners -> SUBSET Migrations]
    /\ known \in [Runners -> SUBSET Migrations]
    /\ consent \in [Runners -> BOOLEAN]
    /\ dry \in [Runners -> BOOLEAN]
    /\ backedUp \in [Runners -> BOOLEAN]
    /\ copied \in [Runners -> Snapshot]
    /\ outcome \in [Runners -> [Migrations -> Outcomes]]
    /\ touched \in SUBSET Migrations

NoOutcome == [m \in Migrations |-> "none"]

Nothing == [effect |-> [m \in Migrations |-> "absent"], ledger |-> {}]

(* A workspace from before any release with migrations, in which an effect *)
(* may be there all the same: `init` writes today's .gitignore itself.     *)
Init ==
    /\ effect \in [Migrations -> {"absent", "present"}]
    /\ ledger = {}
    /\ backups = {}
    /\ payload = [s \in Scripts |-> "declared"]
    /\ pc = [r \in Runners |-> "idle"]
    /\ todo = [r \in Runners |-> {}]
    /\ known = [r \in Runners |-> {}]
    /\ consent = [r \in Runners |-> FALSE]
    /\ dry = [r \in Runners |-> FALSE]
    /\ backedUp = [r \in Runners |-> FALSE]
    /\ copied = [r \in Runners |-> Nothing]
    /\ outcome = [r \in Runners |-> NoOutcome]
    /\ touched = {}

-----------------------------------------------------------------------------
(* The loop                                                                *)

Idle(r) == pc[r] = "idle"

Start(r) ==
    /\ Idle(r)
    /\ OneAtATime => \A q \in Runners : Idle(q)
    /\ Cardinality(backups) < MaxBackups
    /\ \E c, d \in BOOLEAN :
        /\ consent' = [consent EXCEPT ![r] = c]
        /\ dry' = [dry EXCEPT ![r] = d]
    /\ pc' = [pc EXCEPT ![r] = "loop"]
    /\ todo' = [todo EXCEPT ![r] = Migrations]
    /\ known' = [known EXCEPT ![r] = ledger]
    /\ backedUp' = [backedUp EXCEPT ![r] = FALSE]
    /\ outcome' = [outcome EXCEPT ![r] = NoOutcome]
    /\ UNCHANGED <<files, copied, touched>>

(* The migration the run is at.                                            *)
At(r, m) == m \in todo[r] /\ \A n \in todo[r] : m <= n

(* The run is done with m, and the loop goes on.                           *)
Continue(r, m, o) ==
    /\ outcome' = [outcome EXCEPT ![r][m] = o]
    /\ todo' = [todo EXCEPT ![r] = @ \ {m}]
    /\ pc' = [pc EXCEPT ![r] = "loop"]

\* Mistakes: a loop that goes on after a failure; a loop that tries again.
FailGoesOn(r, m) == Continue(r, m, "pending")
FailTriesAgain(r, m) ==
    /\ outcome' = [outcome EXCEPT ![r][m] = "pending"]
    /\ todo' = todo
    /\ pc' = [pc EXCEPT ![r] = "loop"]

(* An exception at m: it is reported as pending, and the loop stops.       *)
Fail(r, m) ==
    /\ outcome' = [outcome EXCEPT ![r][m] = "pending"]
    /\ todo' = [todo EXCEPT ![r] = {}]
    /\ pc' = [pc EXCEPT ![r] = "loop"]

InLedger(r, m) ==
    /\ pc[r] = "loop" /\ At(r, m)
    /\ m \in known[r]
    /\ Continue(r, m, "already-satisfied")
    /\ UNCHANGED <<files, known, consent, dry, backedUp, copied, touched>>

Withheld(r, m) == m \in Scripts /\ ~consent[r]

NeedsConsent(r, m) ==
    /\ pc[r] = "loop" /\ At(r, m)
    /\ m \notin known[r]
    /\ Withheld(r, m)
    /\ Continue(r, m, "skipped-needs-consent")
    /\ UNCHANGED <<files, known, consent, dry, backedUp, copied, touched>>

(* verify_hash: a script runs only if its bytes are those the release      *)
(* declared.  A missing script is refused like a changed one.              *)
HashIsRight(m) == m \in Scripts => payload[m] = "declared"

\* A mistake: trust in the ledger alone.
IsSatisfiedNever(m) == FALSE
(* A script's --check exits 0 only when all of its effect is there.        *)
IsSatisfied(m) == effect[m] = "present"

Consulted(r, m) ==
    /\ pc[r] = "loop" /\ At(r, m)
    /\ m \notin known[r]
    /\ ~Withheld(r, m)

Satisfied(r, m) ==
    /\ Consulted(r, m)
    /\ HashIsRight(m)
    /\ IsSatisfied(m)
    /\ IF dry[r]
       THEN Continue(r, m, "already-satisfied")
       ELSE pc' = [pc EXCEPT ![r] = "note"] /\ UNCHANGED <<outcome, todo>>
    /\ UNCHANGED <<files, known, consent, dry, backedUp, copied, touched>>

BackupDue(r, m) == ~backedUp[r] /\ m \in UserData

Unsatisfied(r, m) ==
    /\ Consulted(r, m)
    /\ HashIsRight(m)
    /\ ~IsSatisfied(m)
    /\ IF dry[r]
       THEN Continue(r, m, "pending")
       ELSE /\ pc' = [pc EXCEPT ![r] = IF BackupDue(r, m) THEN "backup" ELSE "apply"]
            /\ UNCHANGED <<outcome, todo>>
    /\ UNCHANGED <<files, known, consent, dry, backedUp, copied, touched>>

(* The hash is wrong, --check exits with neither 0 nor 1, or it takes more *)
(* than its 300 seconds.                                                   *)
CheckFails(r, m) ==
    /\ Consulted(r, m)
    /\ m \in Scripts
    /\ Fail(r, m)
    /\ UNCHANGED <<files, known, consent, dry, backedUp, copied, touched>>

-----------------------------------------------------------------------------
(* The backup.  Names are copied in order, so .gitignore and the ledger    *)
(* come before the files that scripts change; .backups/ is left out.  What *)
(* a backup that stops half way leaves behind is never read by the code.   *)

CopyStarts(r) ==
    /\ pc[r] = "backup"
    /\ copied' = [copied EXCEPT ![r] = [effect |-> effect, ledger |-> ledger]]
    /\ pc' = [pc EXCEPT ![r] = "copying"]
    /\ UNCHANGED <<files, todo, known, consent, dry, backedUp, outcome, touched>>

Copy(r) ==
    [effect |-> [m \in Migrations |-> IF m \in Scripts THEN effect[m] ELSE copied[r].effect[m]],
     ledger |-> copied[r].ledger]

CopyEnds(r) ==
    /\ pc[r] = "copying"
    /\ backups' = backups \cup {Copy(r)}
    /\ backedUp' = [backedUp EXCEPT ![r] = TRUE]
    /\ copied' = [copied EXCEPT ![r] = Nothing]
    /\ pc' = [pc EXCEPT ![r] = "apply"]
    /\ UNCHANGED <<effect, ledger, payload, todo, known, consent, dry, outcome, touched>>

\* A mistake: the backup is taken as far as it goes.
CopyFailsQuietly(r, m) ==
    /\ pc[r] \in {"backup", "copying"} /\ At(r, m)
    /\ pc' = [pc EXCEPT ![r] = "apply"]
    /\ backedUp' = [backedUp EXCEPT ![r] = TRUE]
    /\ UNCHANGED <<files, todo, known, consent, dry, copied, outcome, touched>>

CopyFails(r, m) ==
    /\ pc[r] \in {"backup", "copying"} /\ At(r, m)
    /\ Fail(r, m)
    /\ UNCHANGED <<files, known, consent, dry, backedUp, copied, touched>>

-----------------------------------------------------------------------------
(* The change itself                                                       *)

BuiltIn(r, m) ==
    /\ pc[r] = "apply" /\ At(r, m)
    /\ m \notin Scripts
    /\ effect' = [effect EXCEPT ![m] = "present"]
    /\ touched' = touched \cup {m}
    /\ pc' = [pc EXCEPT ![r] = "record"]
    /\ UNCHANGED <<ledger, backups, payload, todo, known, consent, dry, backedUp, copied, outcome>>

ScriptStarts(r, m) ==
    /\ pc[r] = "apply" /\ At(r, m)
    /\ m \in Scripts
    /\ HashIsRight(m)
    /\ effect' = [effect EXCEPT ![m] = "half"]
    /\ touched' = touched \cup {m}
    /\ pc' = [pc EXCEPT ![r] = "applying"]
    /\ UNCHANGED <<ledger, backups, payload, todo, known, consent, dry, backedUp, copied, outcome>>

ScriptEnds(r, m) ==
    /\ pc[r] = "applying" /\ At(r, m)
    /\ effect' = [effect EXCEPT ![m] = "present"]
    /\ pc' = [pc EXCEPT ![r] = "record"]
    /\ UNCHANGED <<ledger, backups, payload, todo, known, consent, dry, backedUp, copied, outcome, touched>>

\* A mistake: the record is written whether or not apply succeeded.
ApplyFailsRecorded(r, m) ==
    /\ pc[r] \in {"apply", "applying"} /\ At(r, m)
    /\ Fail(r, m)
    /\ ledger' = known[r] \cup {m}
    /\ UNCHANGED <<effect, backups, payload, known, consent, dry, backedUp, copied, touched>>

(* The write fails, the hash is wrong by now, or the script fails or is    *)
(* killed at its timeout, half way.                                        *)
ApplyFails(r, m) ==
    /\ pc[r] \in {"apply", "applying"} /\ At(r, m)
    /\ Fail(r, m)
    /\ UNCHANGED <<files, known, consent, dry, backedUp, copied, touched>>

(* ledger.record writes the run's own copy of the ledger over the file.    *)
Entries(r, m) == known[r] \cup {m}

Record(r, m) ==
    /\ pc[r] \in {"record", "note"} /\ At(r, m)
    /\ known' = [known EXCEPT ![r] = Entries(r, m)]
    /\ ledger' = Entries(r, m)
    /\ Continue(r, m, IF pc[r] = "record" THEN "applied" ELSE "already-satisfied")
    /\ UNCHANGED <<effect, backups, payload, consent, dry, backedUp, copied, touched>>

RecordFails(r, m) ==
    /\ pc[r] \in {"record", "note"} /\ At(r, m)
    /\ known' = [known EXCEPT ![r] = Entries(r, m)]
    /\ Fail(r, m)
    /\ UNCHANGED <<files, consent, dry, backedUp, copied, touched>>

Report(r) ==
    /\ pc[r] = "loop" /\ todo[r] = {}
    /\ pc' = [pc EXCEPT ![r] = "done"]
    /\ UNCHANGED <<files, todo, known, consent, dry, backedUp, copied, outcome, touched>>

(* The process and all it had in memory are gone.                          *)
Forget(r) ==
    /\ pc' = [pc EXCEPT ![r] = "idle"]
    /\ todo' = [todo EXCEPT ![r] = {}]
    /\ known' = [known EXCEPT ![r] = {}]
    /\ consent' = [consent EXCEPT ![r] = FALSE]
    /\ dry' = [dry EXCEPT ![r] = FALSE]
    /\ backedUp' = [backedUp EXCEPT ![r] = FALSE]
    /\ copied' = [copied EXCEPT ![r] = Nothing]
    /\ outcome' = [outcome EXCEPT ![r] = NoOutcome]
    /\ UNCHANGED <<files, touched>>

Exit(r) == pc[r] = "done" /\ Forget(r)

Step(r) ==
    \/ \E m \in Migrations :
        \/ InLedger(r, m) \/ NeedsConsent(r, m)
        \/ Satisfied(r, m) \/ Unsatisfied(r, m) \/ CheckFails(r, m)
        \/ CopyFails(r, m)
        \/ BuiltIn(r, m) \/ ScriptStarts(r, m) \/ ScriptEnds(r, m) \/ ApplyFails(r, m)
        \/ Record(r, m) \/ RecordFails(r, m)
    \/ CopyStarts(r) \/ CopyEnds(r)
    \/ Report(r) \/ Exit(r)

-----------------------------------------------------------------------------
(* What happens to a run and around it                                     *)

(* The process is killed, and the script it was running with it.           *)
Crash(r) == pc[r] # "idle" /\ Forget(r)

(* "Delete it to have every migration re-check itself."                    *)
DeleteLedger ==
    /\ ledger' = {}
    /\ UNCHANGED <<effect, backups, payload, process, touched>>

(* The user puts a backup in the place of the workspace.                   *)
Restore(b) ==
    /\ \A r \in Runners : Idle(r)
    /\ effect' = b.effect
    /\ ledger' = b.ledger
    /\ UNCHANGED <<backups, payload, process, touched>>

(* Another release is installed, or the script is edited, meanwhile.       *)
ReplaceScript(s) ==
    /\ payload' = [payload EXCEPT ![s] = IF @ = "declared" THEN "other" ELSE "declared"]
    /\ UNCHANGED <<effect, ledger, backups, process, touched>>

Next ==
    \/ \E r \in Runners : Start(r) \/ Step(r) \/ Crash(r)
    \/ DeleteLedger
    \/ \E b \in backups : Restore(b)
    \/ \E s \in Scripts : ReplaceScript(s)

(* A run that has started takes its steps: nothing in it waits, and a      *)
(* script is given 300 seconds.  Nobody is obliged to start one.           *)
Spec == Init /\ [][Next]_vars /\ \A r \in Runners : WF_vars(Step(r))

-----------------------------------------------------------------------------
(* Properties                                                              *)

(* What a ledger lists has been done to the workspace it describes: to the *)
(* one in use and to every copy put aside, whichever is restored and       *)
(* wherever a run died.  Otherwise a migration would be skipped for good.  *)
HonestSnapshot(e, l) == \A m \in l : e[m] = "present"

HonestLedger ==
    /\ HonestSnapshot(effect, ledger)
    /\ \A b \in backups : HonestSnapshot(b.effect, b.ledger)

(* Whatever the tool did to the user's data, a complete copy from before   *)
(* it began is under .backups/ (migrations.py:15, packaging.md:206).       *)
OriginalIsKept ==
    \A m \in touched \cap UserData : \E b \in backups : b.effect[m] = "absent"

(* "A later migration never sees a workspace an earlier one left           *)
(* half-changed" (packaging.md:208).                                       *)
LaterNeverSeesHalf ==
    \A r \in Runners, m, n \in Migrations :
        pc[r] \in {"apply", "applying"} /\ At(r, m) /\ n < m => effect[n] # "half"

(* "A deleted ledger cannot cause a second run" (packaging.md:203): apply  *)
(* is never begun on a workspace that has the whole effect, whether the    *)
(* ledger was deleted, never written or restored from a copy.              *)
NoSecondRun ==
    [][\A m \in Migrations :
        effect[m] = "present" /\ effect'[m] # "present" => \E b \in backups : Restore(b)]_vars

(* "A copy of the whole workspace before the first [migration] that        *)
(* changes anything" (packaging.md:206).                                   *)
EveryChangeIsBackedUp ==
    \A m \in touched : \E b \in backups : b.effect[m] = "absent"

(* What a run says it applied or found applied is there when it says so,   *)
(* and whoever deletes the ledger cannot make it lie.                      *)
ReportIsTrue ==
    \A r \in Runners, m \in Migrations :
        pc[r] = "done" /\ outcome[r][m] \in {"applied", "already-satisfied"}
            => effect[m] = "present"

(* A dry run, and one without consent for the scripts, leaves them alone;  *)
(* and a script changes the workspace only while its bytes are those the   *)
(* release declared, whatever happened to the payload since its check.     *)
OnlyDeclaredScripts ==
    [][\A s \in Scripts :
        effect'[s] = "half" /\ effect[s] # "half" =>
            \/ payload[s] = "declared" /\ \E r \in Runners : consent[r] /\ ~dry[r] /\ At(r, s)
            \/ \E b \in backups : Restore(b)]_vars

(* A run that starts ends: with its report, or dead.                       *)
RunEnds == \A r \in Runners : pc[r] # "idle" ~> pc[r] = "idle"
=============================================================================
