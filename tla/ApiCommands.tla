----------------------------- MODULE ApiCommands ----------------------------
(***************************************************************************)
(* The fallback commands that change the account (cli/api_cmd.py,          *)
(* api/deletion.py, api/creatives.py) and the audit log they append to     *)
(* (state/actionlog.py).                                                   *)
(*                                                                         *)
(* A command checks, calls Meta at most once and logs what came of it; a   *)
(* dry run and a failure are logged too, when the log can be written.      *)
(* Meanwhile people change the account by other means, other commands run, *)
(* Meta's answer may be lost and any command may be killed.                *)
(***************************************************************************)
EXTENDS Naturals, Sequences, FiniteSets

CONSTANTS
    Processes,
    Objects,        \* campaigns, ad sets and ads
    DeletableTypes, \* what --type may say
    Type,           \* the type of each object
    Above,          \* the objects each one is under
    Creatives,      \* ids Meta may give to creatives
    None,
    Free,           \* the owner of a lock nobody holds
    Garbled,        \* a line that does not parse
    MaxLog,         \* a bound: no command starts that could log more lines
    TornWrites      \* a process may die, or its disk fill up, inside a write

(* ActionRecord.  about is the object of a deletion, or the creative that  *)
(* was made; for a failed attempt the record itself cannot name that one.  *)
Entry == [op : {"delete", "create_creative"}, result : {"ok", "failed", "dry_run"},
          about : Objects \cup Creatives \cup {None}]

ASSUME ApiAssumption ==
    /\ Above \in [Objects -> SUBSET Objects]
    /\ Type \in [Objects -> DeletableTypes]
    /\ None \notin DeletableTypes
    /\ None \notin Objects \cup Creatives
    /\ Objects \cap Creatives = {}
    /\ Free \notin Processes
    /\ Garbled \notin Entry
    /\ MaxLog \in Nat
    /\ TornWrites \in BOOLEAN

Commands ==
    [op : {"delete"}, target : Objects, type : DeletableTypes,
     approved : BOOLEAN, dry : BOOLEAN]
    \cup [op : {"create_creative"}, target : {None}, type : {None},
          approved : {FALSE}, dry : BOOLEAN]

NoCommand == [op |-> "create_creative", target |-> None, type |-> None,
              approved |-> FALSE, dry |-> TRUE]

VARIABLES       \* Meta
    status,     \* of each object
    creatives   \* the creatives there are

VARIABLES       \* the workspace
    log,        \* the lines of the action log
    torn,       \* its last line has no newline
    logLock     \* who holds the lock beside it

VARIABLES       \* per process
    pc,
    cmd,        \* the command line
    verdict,    \* the result it is to log
    made,       \* what it changed at Meta
    fresh       \* the line it is writing began as a line of its own

VARIABLES       \* history
    granted,    \* <<object, type>> pairs approved in a command that is no dry run
    raced,      \* something was activated since the process read its object
    changed,    \* objects deleted by name, and creatives made
    excused,    \* those whose command was killed or could not log
    logged      \* how many appends have returned

meta == <<status, creatives>>
file == <<log, torn, logLock>>
process == <<pc, cmd, verdict, made, fresh>>
history == <<granted, raced, changed, excused, logged>>
vars == <<meta, file, process, history>>

TypeOK ==
    /\ status \in [Objects -> {"ACTIVE", "PAUSED", "DELETED"}]
    /\ creatives \in SUBSET Creatives
    /\ log \in Seq(Entry \cup {Garbled})
    /\ torn \in BOOLEAN
    /\ logLock \in Processes \cup {Free}
    /\ pc \in [Processes -> {"idle", "started", "checked", "logging", "locked", "writing"}]
    /\ cmd \in [Processes -> Commands]
    /\ verdict \in [Processes -> {"ok", "failed", "dry_run"}]
    /\ made \in [Processes -> Objects \cup Creatives \cup {None}]
    /\ fresh \in [Processes -> BOOLEAN]
    /\ granted \in SUBSET (Objects \X DeletableTypes)
    /\ raced \in [Processes -> BOOLEAN]
    /\ changed \in SUBSET (Objects \cup Creatives)
    /\ excused \in SUBSET (Objects \cup Creatives)
    /\ logged \in Nat

Init ==
    /\ status \in [Objects -> {"ACTIVE", "PAUSED"}]
    /\ creatives = {}
    /\ log = <<>>
    /\ torn = FALSE
    /\ logLock = Free
    /\ pc = [p \in Processes |-> "idle"]
    /\ cmd = [p \in Processes |-> NoCommand]
    /\ verdict = [p \in Processes |-> "failed"]
    /\ made = [p \in Processes |-> None]
    /\ fresh = [p \in Processes |-> FALSE]
    /\ granted = {}
    /\ raced = [p \in Processes |-> FALSE]
    /\ changed = {}
    /\ excused = {}
    /\ logged = 0

Readable == {i \in DOMAIN log : log[i] # Garbled}

Delivering(o) == status[o] = "ACTIVE" /\ \A a \in Above[o] : status[a] = "ACTIVE"

Subtree(o) == {x \in Objects : x = o \/ o \in Above[x]}

-----------------------------------------------------------------------------
(* The commands                                                            *)

(* A deletion needs --approved, except to be previewed.                    *)
Accepted(c) == c.op = "delete" => c.approved \/ c.dry

Start(p, c) ==
    /\ pc[p] = "idle"
    /\ Accepted(c)
    /\ Len(log) + Cardinality({q \in Processes : pc[q] # "idle"}) < MaxLog
    /\ pc' = [pc EXCEPT ![p] = "started"]
    /\ cmd' = [cmd EXCEPT ![p] = c]
    /\ raced' = [raced EXCEPT ![p] = FALSE]
    /\ granted' = IF c.op = "delete" /\ c.approved /\ ~c.dry
                  THEN granted \cup {<<c.target, c.type>>} ELSE granted
    /\ UNCHANGED <<meta, file, verdict, made, fresh, changed, excused, logged>>

(* The process is done, or dead, and with it what it had in memory.        *)
Gone(p) ==
    /\ pc' = [pc EXCEPT ![p] = "idle"]
    /\ cmd' = [cmd EXCEPT ![p] = NoCommand]
    /\ verdict' = [verdict EXCEPT ![p] = "failed"]
    /\ made' = [made EXCEPT ![p] = None]
    /\ fresh' = [fresh EXCEPT ![p] = FALSE]
    /\ raced' = [raced EXCEPT ![p] = FALSE]

(* No workspace, no fallback for the capability, options missing.          *)
Refuse(p) ==
    /\ pc[p] = "started"
    /\ Gone(p)
    /\ UNCHANGED <<meta, file, granted, changed, excused, logged>>

\* A mistake: failures are left out of the log.
ConcludeQuietly(p, v, thing) ==
    /\ verdict' = [verdict EXCEPT ![p] = v]
    /\ made' = [made EXCEPT ![p] = IF v = "failed" THEN None ELSE thing]
    /\ pc' = [pc EXCEPT ![p] = IF v = "failed" THEN "idle" ELSE "logging"]

(* The attempt is over: what is left is to log it.                         *)
Conclude(p, v, thing) ==
    /\ verdict' = [verdict EXCEPT ![p] = v]
    /\ made' = [made EXCEPT ![p] = thing]
    /\ pc' = [pc EXCEPT ![p] = "logging"]

(* No credentials, no reason given, input that does not validate, a read   *)
(* that fails, or a write that Meta turned down: nothing was changed.      *)
Fails(p) ==
    /\ pc[p] \in {"started", "checked"}
    /\ Conclude(p, "failed", None)
    /\ UNCHANGED <<meta, file, cmd, fresh, history>>

\* Mistakes: the type is taken on trust; an object is deleted as it is.
IsOfTypeAlways(o, t) == TRUE
QuietAlways(o) == TRUE

(* A field that only the declared type has was in the answer.              *)
IsOfType(o, t) == Type[o] = t

Quiet(o) == status[o] # "ACTIVE"

ReadObject(p) ==
    /\ pc[p] = "started"
    /\ cmd[p].op = "delete"
    /\ IsOfType(cmd[p].target, cmd[p].type)
    /\ Quiet(cmd[p].target)
    /\ pc' = [pc EXCEPT ![p] = "checked"]
    /\ UNCHANGED <<meta, file, cmd, verdict, made, fresh, history>>

(* A deletion is previewed after the object was read, a creative before    *)
(* Meta is asked for anything.                                             *)
Ready(p, op) ==
    /\ cmd[p].op = op
    /\ pc[p] = IF op = "delete" THEN "checked" ELSE "started"

DryRun(p) ==
    /\ Ready(p, "delete") \/ Ready(p, "create_creative")
    /\ cmd[p].dry
    /\ Conclude(p, "dry_run", None)
    /\ UNCHANGED <<meta, file, cmd, fresh, history>>

(* api_delete: everything under the object goes with it.  An error that    *)
(* comes back does not mean that nothing was done.                         *)
Delete(p) ==
    /\ Ready(p, "delete") /\ ~cmd[p].dry
    /\ status' = [o \in Objects |->
                    IF o \in Subtree(cmd[p].target) THEN "DELETED" ELSE status[o]]
    /\ \E v \in {"ok", "failed"} : Conclude(p, v, cmd[p].target)
    /\ changed' = changed \cup {cmd[p].target}
    /\ UNCHANGED <<creatives, file, cmd, fresh, granted, raced, excused, logged>>

(* create_ad_creative: an answer may be lost, or come without an id.       *)
Create(p) ==
    /\ Ready(p, "create_creative") /\ ~cmd[p].dry
    /\ \E k \in Creatives \ creatives :
        /\ creatives' = creatives \cup {k}
        /\ \E v \in {"ok", "failed"} : Conclude(p, v, k)
        /\ changed' = changed \cup {k}
    /\ UNCHANGED <<status, file, cmd, fresh, granted, raced, excused, logged>>

-----------------------------------------------------------------------------
(* ActionLog.append                                                        *)

\* A mistake: no lock.
LockIsFreeAlways == TRUE

LockIsFree == logLock = Free

TakeLock(p) ==
    /\ pc[p] = "logging"
    /\ LockIsFree
    /\ logLock' = p
    /\ pc' = [pc EXCEPT ![p] = "locked"]
    /\ UNCHANGED <<meta, log, torn, cmd, verdict, made, fresh, history>>

RecordOf(p) ==
    [op |-> cmd[p].op,
     result |-> verdict[p],
     about |-> IF cmd[p].op = "delete" THEN cmd[p].target ELSE made[p]]

(* The first bytes reach the file.  Nobody looks at how it ends: after a   *)
(* torn line they continue that one.                                       *)
WriteStarts(p) ==
    /\ pc[p] = "locked"
    /\ fresh' = [fresh EXCEPT ![p] = ~torn]
    /\ log' = IF torn THEN log ELSE Append(log, Garbled)
    /\ torn' = TRUE
    /\ pc' = [pc EXCEPT ![p] = "writing"]
    /\ UNCHANGED <<meta, logLock, cmd, verdict, made, history>>

(* The log once the line of p is complete.                                 *)
LogAfter(p) == IF fresh[p] THEN [log EXCEPT ![Len(log)] = RecordOf(p)] ELSE log

(* The line is complete, and synced unless fsync fails.                    *)
WriteEnds(p) ==
    /\ pc[p] = "writing"
    /\ log' = LogAfter(p)
    /\ torn' = FALSE
    /\ logLock' = Free
    /\ logged' = logged + 1
    /\ Gone(p)
    /\ UNCHANGED <<meta, granted, changed, excused>>

Excuse(p) == excused' = IF made[p] = None THEN excused ELSE excused \cup {made[p]}

(* The lock is not to be had in time.  The failure of an attempt is still  *)
(* the error that is shown; a success turns into this failure.             *)
LockTimeout(p) ==
    /\ pc[p] = "logging"
    /\ logLock # Free
    /\ Gone(p)
    /\ Excuse(p)
    /\ UNCHANGED <<meta, file, granted, changed, logged>>

(* The write fails before any byte is out or, torn, after some are.        *)
WriteFails(p) ==
    /\ pc[p] = "locked" \/ (pc[p] = "writing" /\ TornWrites)
    /\ logLock' = Free
    /\ Gone(p)
    /\ Excuse(p)
    /\ UNCHANGED <<meta, log, torn, granted, changed, logged>>

(* Killed.  The kernel releases the lock.                                  *)
Crash(p) ==
    /\ pc[p] # "idle"
    /\ pc[p] = "writing" => TornWrites
    /\ logLock' = IF logLock = p THEN Free ELSE logLock
    /\ Gone(p)
    /\ Excuse(p)
    /\ UNCHANGED <<meta, log, torn, granted, changed, logged>>

-----------------------------------------------------------------------------
(* People and the official MCP server change the account meanwhile.        *)
SetStatus(o, s) ==
    /\ status[o] # "DELETED" /\ status[o] # s
    /\ status' = [status EXCEPT ![o] = s]
    /\ raced' = [p \in Processes |-> raced[p] \/ (pc[p] = "checked" /\ s = "ACTIVE")]
    /\ UNCHANGED <<creatives, file, process, granted, changed, excused, logged>>

Step(p) ==
    \/ Refuse(p) \/ Fails(p) \/ ReadObject(p) \/ DryRun(p) \/ Delete(p) \/ Create(p)
    \/ TakeLock(p) \/ WriteStarts(p) \/ WriteEnds(p) \/ LockTimeout(p) \/ WriteFails(p)

Next ==
    \/ \E p \in Processes : (\E c \in Commands : Start(p, c)) \/ Step(p) \/ Crash(p)
    \/ \E o \in Objects, s \in {"ACTIVE", "PAUSED"} : SetStatus(o, s)

Spec == Init /\ [][Next]_vars

-----------------------------------------------------------------------------
(* Properties                                                              *)

(* Nothing is gone but what stood under an object that someone approved    *)
(* deleting, by its id and its right type: a campaign never goes because   *)
(* its id was given for an ad (deletion.py:34-36).                         *)
OnlyApprovedGoes ==
    \A o \in Objects : status[o] = "DELETED" =>
        \E a \in Objects : o \in Subtree(a) /\ <<a, Type[a]>> \in granted

(* What is delivering is deleted only if somebody activated something      *)
(* between the check of the command and its call (deletion.py:64-66).      *)
DeliveryIsStoppedFirst ==
    [][\A o \in Objects :
        Delivering(o) /\ status'[o] = "DELETED" =>
            \E p \in Processes : pc[p] = "checked" /\ raced[p] /\ o \in Subtree(cmd[p].target)]_vars

(* The log answers "what did this thing do to my account" (actionlog.py:4) *)
(* for everything that was done, lost answers included: all but what a     *)
(* command did that was killed, or that said it could not log.             *)
EveryChangeIsLogged ==
    \A t \in changed :
        \/ t \in excused
        \/ \E p \in Processes : made[p] = t
        \/ \E i \in Readable : log[i].about = t /\ log[i].result # "dry_run"

(* What the log calls done is done.                                        *)
LogTellsTheTruth ==
    \A i \in Readable : log[i].result = "ok" =>
        IF log[i].op = "delete" THEN status[log[i].about] = "DELETED" ELSE log[i].about \in creatives

(* A line that can be read stays where it is, whoever writes or dies       *)
(* (actionlog.py:6).                                                       *)
LogOnlyGrows ==
    [][\A i \in Readable : i \in DOMAIN log' /\ log'[i] = log[i]]_vars

(* Every append that returned can be read back: "a record of something     *)
(* done to the account survives a crash" (actionlog.py:79).                *)
LoggedIsReadable == logged <= Cardinality(Readable)
=============================================================================
