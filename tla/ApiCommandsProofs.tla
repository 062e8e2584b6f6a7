-------------------------- MODULE ApiCommandsProofs -------------------------
(***************************************************************************)
(* Proofs about ApiCommands for any account, any number of processes and   *)
(* a log of any length.                                                    *)
(***************************************************************************)
EXTENDS ApiCommands, FiniteSetTheorems, TLAPS

-----------------------------------------------------------------------------
(* Type correctness                                                        *)

Verdicts == {"ok", "failed", "dry_run"}

Things == Objects \cup Creatives \cup {None}

LEMMA CommandTypes ==
    /\ NoCommand \in Commands
    /\ \A c \in Commands :
        /\ c.op \in {"delete", "create_creative"}
        /\ c.target \in Objects \cup {None}
        /\ c.op = "delete" => c.target \in Objects /\ c.type \in DeletableTypes
        /\ c.op = "create_creative" => c.target = None
        /\ c.approved \in BOOLEAN /\ c.dry \in BOOLEAN
  BY DEF NoCommand, Commands

LEMMA RecordType ==
    ASSUME TypeOK, NEW p \in Processes
    PROVE  RecordOf(p) \in Entry /\ RecordOf(p) # Garbled
  BY CommandTypes, ApiAssumption DEF TypeOK, RecordOf, Entry

LEMMA LogAfterType ==
    ASSUME TypeOK, NEW p \in Processes, fresh[p] => log # <<>>
    PROVE  /\ LogAfter(p) \in Seq(Entry \cup {Garbled})
           /\ Len(LogAfter(p)) = Len(log)
           /\ \A i \in 1 .. Len(log) :
                LogAfter(p)[i] = IF fresh[p] /\ i = Len(log) THEN RecordOf(p) ELSE log[i]
  <1>1. CASE fresh[p]
    <2>1. Len(log) \in 1 .. Len(log) /\ RecordOf(p) \in Entry \cup {Garbled}
      BY <1>1, RecordType DEF TypeOK
    <2>2. QED
      BY <1>1, <2>1 DEF TypeOK, LogAfter
  <1>2. CASE ~fresh[p]
    BY <1>2 DEF TypeOK, LogAfter
  <1>3. QED
    BY <1>1, <1>2

LEMMA GoneType ==
    ASSUME TypeOK, NEW p \in Processes, Gone(p)
    PROVE  /\ pc' \in [Processes -> {"idle", "started", "checked", "logging", "locked", "writing"}]
           /\ cmd' \in [Processes -> Commands]
           /\ verdict' \in [Processes -> Verdicts]
           /\ made' \in [Processes -> Things]
           /\ fresh' \in [Processes -> BOOLEAN]
           /\ raced' \in [Processes -> BOOLEAN]
  BY CommandTypes DEF TypeOK, Gone, Verdicts, Things

LEMMA ConcludeType ==
    ASSUME TypeOK, NEW p \in Processes, NEW v \in Verdicts, NEW t \in Things, Conclude(p, v, t)
    PROVE  /\ pc' \in [Processes -> {"idle", "started", "checked", "logging", "locked", "writing"}]
           /\ verdict' \in [Processes -> Verdicts]
           /\ made' \in [Processes -> Things]
  BY DEF TypeOK, Conclude, Verdicts, Things

LEMMA CommandType ==
    ASSUME TypeOK, NEW p \in Processes,
           \/ Refuse(p) \/ Fails(p) \/ ReadObject(p) \/ DryRun(p) \/ Delete(p) \/ Create(p)
    PROVE  TypeOK'
  <1> USE DEF TypeOK, meta, file, history, Verdicts, Things
  <1>1. CASE Refuse(p)
    BY <1>1, GoneType DEF Refuse
  <1>2. CASE Fails(p)
    BY <1>2, ConcludeType DEF Fails
  <1>3. CASE ReadObject(p)
    BY <1>3 DEF ReadObject
  <1>4. CASE DryRun(p)
    BY <1>4, ConcludeType DEF DryRun
  <1>5. CASE Delete(p)
    <2>1. cmd[p].target \in Objects
      BY <1>5, CommandTypes DEF Delete, Ready
    <2>2. status' \in [Objects -> {"ACTIVE", "PAUSED", "DELETED"}]
      BY <1>5 DEF Delete
    <2>3. PICK v \in {"ok", "failed"} : Conclude(p, v, cmd[p].target)
      BY <1>5 DEF Delete
    <2>4. QED
      BY <1>5, <2>1, <2>2, <2>3, ConcludeType DEF Delete
  <1>6. CASE Create(p)
    <2>1. PICK k \in Creatives, v \in {"ok", "failed"} :
                /\ Conclude(p, v, k)
                /\ creatives' = creatives \cup {k}
                /\ changed' = changed \cup {k}
      BY <1>6 DEF Create
    <2>2. QED
      BY <1>6, <2>1, ConcludeType DEF Create
  <1>7. QED
    BY <1>1, <1>2, <1>3, <1>4, <1>5, <1>6

(* The line a process has begun is the last of the log.                    *)
FreshIsLast ==
    \A p \in Processes :
        pc[p] = "writing" /\ fresh[p] => log # <<>> /\ log[Len(log)] = Garbled

LEMMA ExcuseType ==
    ASSUME TypeOK, NEW p \in Processes, Excuse(p)
    PROVE  excused' \in SUBSET (Objects \cup Creatives)
  BY DEF TypeOK, Excuse

LEMMA AppendType ==
    ASSUME TypeOK, FreshIsLast, NEW p \in Processes,
           \/ TakeLock(p) \/ WriteStarts(p) \/ WriteEnds(p) \/ LockTimeout(p) \/ WriteFails(p)
           \/ Crash(p)
    PROVE  TypeOK'
  <1> USE DEF TypeOK, meta, file, history, Verdicts, Things
  <1>1. CASE TakeLock(p)
    BY <1>1 DEF TakeLock
  <1>2. CASE WriteStarts(p)
    BY <1>2 DEF WriteStarts
  <1>3. CASE WriteEnds(p)
    <2>1. LogAfter(p) \in Seq(Entry \cup {Garbled})
      BY <1>3, LogAfterType DEF WriteEnds, FreshIsLast
    <2>2. /\ log' \in Seq(Entry \cup {Garbled}) /\ torn' \in BOOLEAN
          /\ logLock' \in Processes \cup {Free} /\ logged' \in Nat
      <3>1. log' = LogAfter(p) /\ torn' = FALSE /\ logLock' = Free /\ logged' = logged + 1
        BY <1>3 DEF WriteEnds
      <3>2. logged + 1 \in Nat
        OBVIOUS
      <3>3. QED
        BY <2>1, <3>1, <3>2
    <2>3. Gone(p) /\ UNCHANGED <<meta, granted, changed, excused>>
      BY <1>3 DEF WriteEnds
    <2>4. QED
      BY <2>2, <2>3, GoneType
  <1>4. CASE LockTimeout(p) \/ WriteFails(p) \/ Crash(p)
    BY <1>4, GoneType, ExcuseType DEF LockTimeout, WriteFails, Crash
  <1>5. QED
    BY <1>1, <1>2, <1>3, <1>4

LEMMA OthersType ==
    ASSUME TypeOK,
           \/ \E p \in Processes, c \in Commands : Start(p, c)
           \/ \E o \in Objects, s \in {"ACTIVE", "PAUSED"} : SetStatus(o, s)
           \/ UNCHANGED vars
    PROVE  TypeOK'
  <1>1. ASSUME NEW p \in Processes, NEW c \in Commands, Start(p, c)
        PROVE  TypeOK'
    <2>1. granted' \in SUBSET (Objects \X DeletableTypes)
      BY <1>1, CommandTypes DEF Start, TypeOK
    <2>2. QED
      BY <1>1, <2>1 DEF Start, TypeOK, meta, file
  <1>2. ASSUME NEW o \in Objects, NEW s \in {"ACTIVE", "PAUSED"}, SetStatus(o, s)
        PROVE  TypeOK'
    BY <1>2 DEF SetStatus, TypeOK, file, process
  <1>3. CASE UNCHANGED vars
    BY <1>3 DEF vars, TypeOK, meta, file, process, history
  <1>4. QED
    BY <1>1, <1>2, <1>3

-----------------------------------------------------------------------------
(* The invariant, whatever may be torn.                                    *)

Busy == {"logging", "locked", "writing"}

LockIsHeld == \A p \in Processes : pc[p] \in {"locked", "writing"} <=> logLock = p

DeletionsAreNamed == \A i \in Readable : log[i].op = "delete" => log[i].about \in Objects

(* What a process goes on with was approved, checked and, unless somebody  *)
(* activated something since, not delivering.                              *)
CommandIsGranted ==
    \A p \in Processes :
        /\ pc[p] # "idle" /\ cmd[p].op = "delete" /\ ~cmd[p].dry =>
                <<cmd[p].target, cmd[p].type>> \in granted
        /\ pc[p] = "checked" =>
                /\ cmd[p].op = "delete"
                /\ Type[cmd[p].target] = cmd[p].type
                /\ raced[p] \/ status[cmd[p].target] # "ACTIVE"

(* What a process has to report is what it did.                            *)
VerdictIsTrue ==
    \A p \in Processes :
        /\ made[p] # None =>
                /\ pc[p] \in Busy
                /\ verdict[p] # "dry_run"
                /\ cmd[p].op = "delete" => made[p] = cmd[p].target
        /\ pc[p] \in Busy /\ verdict[p] = "ok" =>
                IF cmd[p].op = "delete" THEN status[cmd[p].target] = "DELETED"
                                        ELSE made[p] \in creatives

ApiInv ==
    /\ LockIsHeld
    /\ FreshIsLast
    /\ CommandIsGranted
    /\ VerdictIsTrue
    /\ OnlyApprovedGoes
    /\ DeletionsAreNamed
    /\ LogTellsTheTruth

LEMMA ApiInit == Init => TypeOK /\ ApiInv
  <1> SUFFICES ASSUME Init
               PROVE  TypeOK /\ ApiInv
    OBVIOUS
  <1>1. TypeOK
    <2>1. log \in Seq(Entry \cup {Garbled}) /\ logged \in Nat /\ torn \in BOOLEAN
      <3>1. log = <<>> /\ logged = 0 /\ torn = FALSE
        BY DEF Init
      <3>2. <<>> \in Seq(Entry \cup {Garbled})
        OBVIOUS
      <3>3. QED
        BY <3>1, <3>2
    <2>2. status \in [Objects -> {"ACTIVE", "PAUSED", "DELETED"}]
      BY DEF Init
    <2>3. cmd \in [Processes -> Commands]
      BY CommandTypes DEF Init
    <2>4. /\ creatives \in SUBSET Creatives /\ changed \in SUBSET (Objects \cup Creatives)
          /\ excused \in SUBSET (Objects \cup Creatives)
          /\ granted \in SUBSET (Objects \X DeletableTypes)
          /\ logLock \in Processes \cup {Free}
      BY DEF Init
    <2>5. QED
      BY <2>1, <2>2, <2>3, <2>4 DEF Init, TypeOK
  <1>2. LockIsHeld /\ FreshIsLast /\ CommandIsGranted /\ VerdictIsTrue
    BY ApiAssumption DEF Init, LockIsHeld, FreshIsLast, CommandIsGranted, VerdictIsTrue, Busy
  <1>3. OnlyApprovedGoes /\ DeletionsAreNamed /\ LogTellsTheTruth
    BY DEF Init, OnlyApprovedGoes, DeletionsAreNamed, LogTellsTheTruth, Readable
  <1>4. QED
    BY <1>1, <1>2, <1>3 DEF ApiInv

(* The steps that leave the log and its lock alone.                        *)
LEMMA CommandInv ==
    ASSUME TypeOK, ApiInv, NEW p \in Processes,
           \/ Refuse(p) \/ Fails(p) \/ ReadObject(p) \/ DryRun(p)
    PROVE  ApiInv'
  <1> USE DEF ApiInv, TypeOK
  <1>1. UNCHANGED <<meta, file, granted>>
    BY DEF Refuse, Fails, ReadObject, DryRun, history
  <1>2. /\ pc[p] \in {"started", "checked"}
        /\ pc' = [pc EXCEPT ![p] = pc'[p]] /\ pc'[p] \in {"idle", "checked", "logging"}
    BY DEF Refuse, Fails, ReadObject, DryRun, Ready, Gone, Conclude
  <1>3. LockIsHeld' /\ FreshIsLast'
    BY <1>1, <1>2 DEF LockIsHeld, FreshIsLast, file, Refuse, Fails, ReadObject, DryRun, Gone, ApiAssumption
  <1>4. \A q \in Processes \ {p} : UNCHANGED <<pc[q], cmd[q], verdict[q], made[q], raced[q]>>
    BY DEF Refuse, Fails, ReadObject, DryRun, Gone, Conclude, history
  <1>5. CommandIsGranted'
    <2>1. pc'[p] # "idle" => cmd'[p] = cmd[p] /\ raced'[p] = raced[p]
      BY <1>2 DEF Refuse, Fails, ReadObject, DryRun, Gone, Conclude, history
    <2>2. pc'[p] = "checked" => ReadObject(p)
      BY <1>2 DEF Refuse, Fails, DryRun, Gone, Conclude
    <2>3. QED
      BY <1>1, <1>2, <1>4, <2>1, <2>2 DEF CommandIsGranted, ReadObject, IsOfType, Quiet, meta
  <1>6. VerdictIsTrue'
    <2>1. made[p] = None
      BY <1>2 DEF VerdictIsTrue, Busy
    <2>2. made'[p] = None /\ (pc'[p] \in Busy => verdict'[p] # "ok")
      BY <1>2, <2>1 DEF Refuse, Fails, ReadObject, DryRun, Gone, Conclude, Busy
    <2>3. QED
      BY <1>1, <1>4, <2>2 DEF VerdictIsTrue, meta
  <1>7. OnlyApprovedGoes' /\ DeletionsAreNamed' /\ LogTellsTheTruth'
    BY <1>1 DEF OnlyApprovedGoes, DeletionsAreNamed, LogTellsTheTruth, Readable, Subtree, meta, file
  <1>8. QED
    BY <1>3, <1>5, <1>6, <1>7

LEMMA DeleteInv ==
    ASSUME TypeOK, ApiInv, NEW p \in Processes, Delete(p)
    PROVE  ApiInv'
  <1> USE DEF ApiInv, TypeOK
  <1> DEFINE t == cmd[p].target
  <1>1. /\ t \in Objects /\ t \in Subtree(t)
        /\ pc[p] = "checked" /\ cmd[p].op = "delete" /\ ~cmd[p].dry
        /\ UNCHANGED <<creatives, log, torn, logLock, cmd, fresh, granted, raced>>
    BY CommandTypes DEF Delete, Ready, Subtree, file
  <1>2. \A o \in Objects : status'[o] = IF o \in Subtree(t) THEN "DELETED" ELSE status[o]
    BY DEF Delete
  <1>3. PICK v \in {"ok", "failed"} : Conclude(p, v, t)
    BY DEF Delete
  <1>4. /\ pc' = [pc EXCEPT ![p] = "logging"]
        /\ verdict' = [verdict EXCEPT ![p] = v]
        /\ made' = [made EXCEPT ![p] = t]
    BY <1>3 DEF Conclude
  <1>5. LockIsHeld' /\ FreshIsLast'
    BY <1>1, <1>4 DEF LockIsHeld, FreshIsLast
  <1>6. CommandIsGranted'
    BY <1>1, <1>2, <1>4, CommandTypes DEF CommandIsGranted
  <1>7. VerdictIsTrue'
    <2>1. ASSUME NEW q \in Processes \ {p}
          PROVE  /\ made'[q] = made[q] /\ pc'[q] = pc[q] /\ verdict'[q] = verdict[q]
                 /\ cmd[q].op = "delete" /\ status[cmd[q].target] = "DELETED" =>
                        status'[cmd[q].target] = "DELETED"
      BY <1>2, <1>4, CommandTypes
    <2>2. /\ made'[p] = t /\ pc'[p] = "logging" /\ verdict'[p] \in {"ok", "failed"}
          /\ status'[t] = "DELETED"
      BY <1>1, <1>2, <1>4
    <2>3. QED
      BY <1>1, <2>1, <2>2 DEF VerdictIsTrue, Busy
  <1>8. OnlyApprovedGoes'
    <2>1. <<t, Type[t]>> \in granted
      BY <1>1 DEF CommandIsGranted
    <2>2. QED
      BY <1>1, <1>2, <2>1 DEF OnlyApprovedGoes, Subtree
  <1>9. DeletionsAreNamed' /\ LogTellsTheTruth'
    BY <1>1, <1>2 DEF DeletionsAreNamed, LogTellsTheTruth, Readable
  <1>10. QED
    BY <1>5, <1>6, <1>7, <1>8, <1>9

LEMMA CreateInv ==
    ASSUME TypeOK, ApiInv, NEW p \in Processes, Create(p)
    PROVE  ApiInv'
  <1> USE DEF ApiInv, TypeOK
  <1>1. PICK k \in Creatives, v \in {"ok", "failed"} :
            creatives' = creatives \cup {k} /\ Conclude(p, v, k)
    BY DEF Create
  <1>2. /\ pc[p] = "started" /\ cmd[p].op = "create_creative"
        /\ UNCHANGED <<status, log, torn, logLock, cmd, fresh, granted, raced>>
    BY DEF Create, Ready, file
  <1>3. /\ pc' = [pc EXCEPT ![p] = "logging"]
        /\ verdict' = [verdict EXCEPT ![p] = v]
        /\ made' = [made EXCEPT ![p] = k]
    BY <1>1 DEF Conclude
  <1>4. LockIsHeld' /\ FreshIsLast' /\ CommandIsGranted'
    BY <1>2, <1>3 DEF LockIsHeld, FreshIsLast, CommandIsGranted
  <1>5. VerdictIsTrue'
    BY <1>1, <1>2, <1>3 DEF VerdictIsTrue, Busy
  <1>6. OnlyApprovedGoes' /\ DeletionsAreNamed' /\ LogTellsTheTruth'
    BY <1>1, <1>2 DEF OnlyApprovedGoes, DeletionsAreNamed, LogTellsTheTruth, Readable, Subtree
  <1>7. QED
    BY <1>4, <1>5, <1>6

(* What a line that is started, or ended, does to the lines there are.     *)
LEMMA StartedLine ==
    ASSUME TypeOK, NEW p \in Processes, WriteStarts(p)
    PROVE  /\ ~torn => log' # <<>> /\ log'[Len(log')] = Garbled
           /\ torn => log' = log
           /\ Readable' = Readable /\ \A i \in Readable : log'[i] = log[i]
  <1> USE DEF TypeOK
  <1>1. CASE torn
    BY <1>1 DEF WriteStarts, Readable
  <1>2. CASE ~torn
    BY <1>2 DEF WriteStarts, Readable
  <1>3. QED
    BY <1>1, <1>2 DEF WriteStarts, Readable

LEMMA EndedLine ==
    ASSUME TypeOK, FreshIsLast, NEW p \in Processes, WriteEnds(p)
    PROVE  /\ Readable' = IF fresh[p] THEN Readable \cup {Len(log)} ELSE Readable
           /\ \A i \in Readable : log'[i] = log[i]
           /\ fresh[p] => Len(log) \notin Readable /\ log'[Len(log)] = RecordOf(p)
  <1> USE DEF TypeOK
  <1>1. pc[p] = "writing" /\ log' = LogAfter(p)
    BY DEF WriteEnds
  <1>2. fresh[p] => log # <<>> /\ log[Len(log)] = Garbled
    BY <1>1 DEF FreshIsLast
  <1>3. /\ Len(log') = Len(log) /\ log' \in Seq(Entry \cup {Garbled})
        /\ \A i \in 1 .. Len(log) :
              log'[i] = IF fresh[p] /\ i = Len(log) THEN RecordOf(p) ELSE log[i]
    BY <1>1, <1>2, LogAfterType
  <1>4. fresh[p] => Len(log) \in 1 .. Len(log)
    BY <1>2
  <1>5. QED
    BY <1>2, <1>3, <1>4, RecordType DEF Readable

LEMMA AppendInv ==
    ASSUME TypeOK, ApiInv, NEW p \in Processes,
           \/ TakeLock(p) \/ WriteStarts(p) \/ WriteEnds(p) \/ LockTimeout(p) \/ WriteFails(p)
           \/ Crash(p)
    PROVE  ApiInv'
  <1> USE DEF ApiInv, TypeOK
  <1>1. UNCHANGED <<status, creatives, granted>>
    BY DEF TakeLock, WriteStarts, WriteEnds, LockTimeout, WriteFails, Crash, meta, history
  <1>2. CASE TakeLock(p)
    <2>1. LockIsHeld'
      BY <1>2, ApiAssumption DEF TakeLock, LockIsFree, LockIsHeld
    <2>2. FreshIsLast' /\ DeletionsAreNamed' /\ LogTellsTheTruth' /\ OnlyApprovedGoes'
      BY <1>1, <1>2 DEF TakeLock, FreshIsLast, DeletionsAreNamed, LogTellsTheTruth, Readable,
                        OnlyApprovedGoes, Subtree
    <2>3. CommandIsGranted' /\ VerdictIsTrue'
      BY <1>1, <1>2 DEF TakeLock, CommandIsGranted, VerdictIsTrue, Busy, history
    <2>4. QED
      BY <2>1, <2>2, <2>3
  <1>3. CASE WriteStarts(p)
    <2>1. LockIsHeld'
      BY <1>3 DEF WriteStarts, LockIsHeld
    <2>2. FreshIsLast'
      <3>1. \A q \in Processes \ {p} : pc'[q] # "writing"
        BY <1>3 DEF WriteStarts, LockIsHeld
      <3>2. fresh'[p] = ~torn
        BY <1>3 DEF WriteStarts
      <3>3. QED
        BY <1>3, <3>1, <3>2, StartedLine DEF FreshIsLast
    <2>3. DeletionsAreNamed' /\ LogTellsTheTruth' /\ OnlyApprovedGoes'
      BY <1>1, <1>3, StartedLine DEF DeletionsAreNamed, LogTellsTheTruth, OnlyApprovedGoes, Subtree
    <2>4. CommandIsGranted' /\ VerdictIsTrue'
      BY <1>1, <1>3 DEF WriteStarts, CommandIsGranted, VerdictIsTrue, Busy, history
    <2>5. QED
      BY <2>1, <2>2, <2>3, <2>4
  <1>4. CASE WriteEnds(p) \/ LockTimeout(p) \/ WriteFails(p) \/ Crash(p)
    <2>1. /\ Gone(p) /\ pc[p] # "idle"
          /\ logLock' = IF logLock = p THEN Free ELSE logLock
      BY <1>4, ApiAssumption DEF WriteEnds, LockTimeout, WriteFails, Crash, LockIsHeld, file
    <2>2. LockIsHeld'
      BY <2>1, ApiAssumption DEF Gone, LockIsHeld
    <2>3. CommandIsGranted' /\ VerdictIsTrue'
      BY <1>1, <2>1 DEF Gone, CommandIsGranted, VerdictIsTrue, Busy
    <2>4. OnlyApprovedGoes'
      BY <1>1 DEF OnlyApprovedGoes, Subtree
    <2>5. FreshIsLast' /\ DeletionsAreNamed' /\ LogTellsTheTruth'
      <3>1. CASE WriteEnds(p)
        <4>1. pc[p] = "writing" /\ \A q \in Processes : pc'[q] # "writing"
          BY <3>1, <2>1 DEF WriteEnds, Gone, LockIsHeld
        <4>2. DeletionsAreNamed'
          <5>1. RecordOf(p).op = "delete" => RecordOf(p).about \in Objects
            BY CommandTypes DEF RecordOf
          <5>2. QED
            BY <3>1, <5>1, EndedLine DEF DeletionsAreNamed
        <4>3. LogTellsTheTruth'
          <5>1. RecordOf(p).result = "ok" =>
                    IF RecordOf(p).op = "delete" THEN status[RecordOf(p).about] = "DELETED"
                                                 ELSE RecordOf(p).about \in creatives
            BY <4>1 DEF RecordOf, VerdictIsTrue, Busy
          <5>2. QED
            BY <1>1, <3>1, <5>1, EndedLine DEF LogTellsTheTruth
        <4>4. QED
          BY <4>1, <4>2, <4>3 DEF FreshIsLast
      <3>2. CASE LockTimeout(p) \/ WriteFails(p) \/ Crash(p)
        <4>1. log' = log
          BY <3>2 DEF LockTimeout, WriteFails, Crash, file
        <4>2. FreshIsLast'
          BY <2>1, <4>1 DEF FreshIsLast, Gone
        <4>3. DeletionsAreNamed' /\ LogTellsTheTruth'
          BY <1>1, <4>1 DEF DeletionsAreNamed, LogTellsTheTruth, Readable
        <4>4. QED
          BY <4>2, <4>3
      <3>3. QED
        BY <1>4, <3>1, <3>2
    <2>6. QED
      BY <2>2, <2>3, <2>4, <2>5
  <1>5. QED
    BY <1>2, <1>3, <1>4

LEMMA OthersInv ==
    ASSUME TypeOK, ApiInv,
           \/ \E p \in Processes, c \in Commands : Start(p, c)
           \/ \E o \in Objects, s \in {"ACTIVE", "PAUSED"} : SetStatus(o, s)
           \/ UNCHANGED vars
    PROVE  ApiInv'
  <1> USE DEF ApiInv, TypeOK
  <1>1. ASSUME NEW p \in Processes, NEW c \in Commands, Start(p, c)
        PROVE  ApiInv'
    <2>1. /\ pc[p] = "idle" /\ Accepted(c) /\ pc' = [pc EXCEPT ![p] = "started"]
          /\ cmd' = [cmd EXCEPT ![p] = c] /\ raced' = [raced EXCEPT ![p] = FALSE]
          /\ granted \in SUBSET granted'
          /\ c.op = "delete" /\ c.approved /\ ~c.dry => <<c.target, c.type>> \in granted'
          /\ UNCHANGED <<status, creatives, log, torn, logLock, verdict, made, fresh>>
      BY <1>1 DEF Start, meta, file
    <2>2. LockIsHeld' /\ FreshIsLast'
      BY <2>1 DEF LockIsHeld, FreshIsLast
    <2>3. CommandIsGranted'
      BY <2>1 DEF CommandIsGranted, Accepted
    <2>4. VerdictIsTrue'
      BY <2>1 DEF VerdictIsTrue, Busy
    <2>5. OnlyApprovedGoes' /\ DeletionsAreNamed' /\ LogTellsTheTruth'
      BY <2>1 DEF OnlyApprovedGoes, DeletionsAreNamed, LogTellsTheTruth, Readable, Subtree
    <2>6. QED
      BY <2>2, <2>3, <2>4, <2>5
  <1>2. ASSUME NEW o \in Objects, NEW s \in {"ACTIVE", "PAUSED"}, SetStatus(o, s)
        PROVE  ApiInv'
    <2>1. /\ status[o] # "DELETED" /\ status' = [status EXCEPT ![o] = s]
          /\ \A p \in Processes : raced'[p] = (raced[p] \/ (pc[p] = "checked" /\ s = "ACTIVE"))
          /\ UNCHANGED <<creatives, log, torn, logLock, pc, cmd, verdict, made, fresh, granted>>
      BY <1>2 DEF SetStatus, file, process
    <2>2. LockIsHeld' /\ FreshIsLast'
      BY <2>1 DEF LockIsHeld, FreshIsLast
    <2>3. CommandIsGranted'
      <3>1. ASSUME NEW p \in Processes, pc[p] = "checked"
            PROVE  raced'[p] \/ status'[cmd[p].target] # "ACTIVE"
        <4>1. cmd[p].target \in Objects
          BY <3>1, CommandTypes DEF CommandIsGranted
        <4>2. QED
          BY <2>1, <3>1, <4>1 DEF CommandIsGranted
      <3>2. QED
        BY <2>1, <3>1 DEF CommandIsGranted
    <2>4. \A x \in Objects : (status'[x] = "DELETED") <=> (status[x] = "DELETED")
      BY <2>1
    <2>5. VerdictIsTrue'
      BY <2>1, <2>4, CommandTypes DEF VerdictIsTrue
    <2>6. OnlyApprovedGoes' /\ DeletionsAreNamed' /\ LogTellsTheTruth'
      BY <2>1, <2>4 DEF OnlyApprovedGoes, DeletionsAreNamed, LogTellsTheTruth, Readable, Subtree
    <2>7. QED
      BY <2>2, <2>3, <2>5, <2>6
  <1>3. CASE UNCHANGED vars
    BY <1>3 DEF vars, meta, file, process, history, LockIsHeld, FreshIsLast, CommandIsGranted,
                VerdictIsTrue, OnlyApprovedGoes, DeletionsAreNamed, LogTellsTheTruth, Readable, Subtree
  <1>4. QED
    BY <1>1, <1>2, <1>3

LEMMA ApiStep == TypeOK /\ ApiInv /\ [Next]_vars => TypeOK' /\ ApiInv'
  <1> SUFFICES ASSUME TypeOK, ApiInv, [Next]_vars
               PROVE  TypeOK' /\ ApiInv'
    OBVIOUS
  <1>1. FreshIsLast
    BY DEF ApiInv
  <1>2. ASSUME NEW p \in Processes, Step(p) \/ Crash(p)
        PROVE  TypeOK' /\ ApiInv'
    <2>1. CASE Refuse(p) \/ Fails(p) \/ ReadObject(p) \/ DryRun(p)
      BY <2>1, CommandType, CommandInv
    <2>2. CASE Delete(p) \/ Create(p)
      BY <2>2, CommandType, DeleteInv, CreateInv
    <2>3. CASE \/ TakeLock(p) \/ WriteStarts(p) \/ WriteEnds(p) \/ LockTimeout(p)
               \/ WriteFails(p) \/ Crash(p)
      BY <1>1, <2>3, AppendType, AppendInv
    <2>4. QED
      BY <1>2, <2>1, <2>2, <2>3 DEF Step
  <1>3. CASE \/ \E p \in Processes, c \in Commands : Start(p, c)
             \/ \E o \in Objects, s \in {"ACTIVE", "PAUSED"} : SetStatus(o, s)
             \/ UNCHANGED vars
    BY <1>3, OthersType, OthersInv
  <1>4. QED
    BY <1>2, <1>3 DEF Next

(* The inductive invariant: who holds the lock, what was approved and      *)
(* checked, and that a process and the log report what happened.           *)
THEOREM ApiInvariant == Spec => [](TypeOK /\ ApiInv)
  BY ApiInit, ApiStep, PTL DEF Spec

(* Every variable has its type in every state: the fields of a record of   *)
(* the log and the memory of each command.                                 *)
THEOREM TypeCorrect == Spec => []TypeOK
  BY ApiInvariant, PTL

(* Nothing goes but what an approval named, by its id and its right type   *)
(* (deletion.py:54-144, api_cmd.py:299-397).                               *)
THEOREM OnlyTheApproved == Spec => []OnlyApprovedGoes
  <1>1. TypeOK /\ ApiInv => OnlyApprovedGoes
    BY DEF ApiInv
  <1>2. QED
    BY <1>1, ApiInvariant, PTL

(* A record with result "ok" is about something that did happen            *)
(* (api_cmd.py:371-397, 449-475).                                          *)
THEOREM LogIsTrue == Spec => []LogTellsTheTruth
  <1>1. TypeOK /\ ApiInv => LogTellsTheTruth
    BY DEF ApiInv
  <1>2. QED
    BY <1>1, ApiInvariant, PTL

-----------------------------------------------------------------------------
(* What a step may not do                                                  *)

(* A line that can be read is never lost or rewritten (actionlog.py:73-93),*)
(* not even where writes are torn.                                         *)
THEOREM LogIsAppendOnly == Spec => LogOnlyGrows
  <1>1. ASSUME TypeOK, ApiInv, [Next]_vars
        PROVE  \A i \in Readable : i \in DOMAIN log' /\ log'[i] = log[i]
    <2> USE DEF ApiInv
    <2>1. ASSUME NEW p \in Processes, WriteStarts(p) \/ WriteEnds(p)
          PROVE  \A i \in Readable : i \in DOMAIN log' /\ log'[i] = log[i]
      <3>1. CASE WriteStarts(p)
        <4>1. Readable' = Readable /\ \A i \in Readable : log'[i] = log[i]
          BY <3>1, <1>1, StartedLine
        <4>2. QED
          BY <4>1 DEF Readable
      <3>2. CASE WriteEnds(p)
        <4>1. Readable \in SUBSET Readable' /\ \A i \in Readable : log'[i] = log[i]
          BY <3>2, <1>1, EndedLine
        <4>2. QED
          BY <4>1 DEF Readable
      <3>3. QED
        BY <2>1, <3>1, <3>2
    <2>2. (\E p \in Processes : WriteStarts(p) \/ WriteEnds(p)) \/ log' = log
      BY <1>1 DEF Next, Step, Start, Refuse, Fails, ReadObject, DryRun, Delete, Create, TakeLock,
                  LockTimeout, WriteFails, Crash, SetStatus, vars, file
    <2>3. QED
      BY <1>1, <2>1, <2>2 DEF Readable
  <1>2. TypeOK /\ ApiInv /\ [Next]_vars =>
            [\A i \in Readable : i \in DOMAIN log' /\ log'[i] = log[i]]_vars
    BY <1>1
  <1>3. QED
    BY <1>2, ApiInvariant, PTL DEF Spec, LogOnlyGrows

(* A delivering object goes only when something was activated between the  *)
(* check of its deletion and the call (deletion.py:103-144).               *)
THEOREM DeliveryStopsFirst == Spec => DeliveryIsStoppedFirst
  <1>1. ASSUME TypeOK, ApiInv, [Next]_vars, NEW o \in Objects, Delivering(o), status'[o] = "DELETED"
        PROVE  \E p \in Processes : pc[p] = "checked" /\ raced[p] /\ o \in Subtree(cmd[p].target)
    <2> USE DEF ApiInv, TypeOK
    <2>1. status[o] = "ACTIVE"
      BY <1>1 DEF Delivering
    <2>2. CASE \E p \in Processes : Delete(p)
      <3>1. PICK p \in Processes : Delete(p)
        BY <2>2
      <3>2. pc[p] = "checked" /\ cmd[p].target \in Objects
        <4>1. pc[p] = "checked" /\ cmd[p].op = "delete"
          BY <3>1 DEF Delete, Ready
        <4>2. cmd[p] \in Commands
          BY <1>1
        <4>3. QED
          BY <4>1, <4>2, CommandTypes
      <3>3. o \in Subtree(cmd[p].target)
        BY <1>1, <2>1, <3>1 DEF Delete
      <3>4. status[cmd[p].target] = "ACTIVE"
        BY <1>1, <3>2, <3>3 DEF Delivering, Subtree
      <3>5. raced[p]
        BY <1>1, <3>2, <3>4 DEF CommandIsGranted
      <3>6. QED
        BY <3>2, <3>3, <3>5
    <2>3. CASE \E x \in Objects, s \in {"ACTIVE", "PAUSED"} : SetStatus(x, s)
      BY <1>1, <2>1, <2>3 DEF SetStatus
    <2>4. CASE status' = status
      BY <1>1, <2>1, <2>4
    <2>5. QED
      BY <1>1, <2>2, <2>3, <2>4
      DEF Next, Step, Start, Refuse, Fails, ReadObject, DryRun, Create, TakeLock, WriteStarts,
          WriteEnds, LockTimeout, WriteFails, Crash, vars, meta, history
  <1>2. TypeOK /\ ApiInv /\ [Next]_vars =>
            [\A o \in Objects :
                Delivering(o) /\ status'[o] = "DELETED" =>
                    \E p \in Processes :
                        pc[p] = "checked" /\ raced[p] /\ o \in Subtree(cmd[p].target)]_vars
    BY <1>1
  <1>3. QED
    BY <1>2, ApiInvariant, PTL DEF Spec, DeliveryIsStoppedFirst

-----------------------------------------------------------------------------
(* Without torn writes, every change and every append can be read back.    *)

(* A torn line is one that is being written, by who began it.              *)
TornIsWritten ==
    /\ torn => \E p \in Processes : pc[p] = "writing"
    /\ \A p \in Processes : pc[p] = "writing" => torn /\ fresh[p]

LEMMA TornStep ==
    ASSUME ~TornWrites, TypeOK, ApiInv, TornIsWritten, [Next]_vars
    PROVE  TornIsWritten'
  <1> USE DEF ApiInv, TypeOK
  <1>1. ASSUME NEW p \in Processes, WriteStarts(p)
        PROVE  TornIsWritten'
    <2>1. ~torn
      BY <1>1 DEF WriteStarts, LockIsHeld, TornIsWritten
    <2>2. QED
      BY <1>1, <2>1 DEF WriteStarts, LockIsHeld, TornIsWritten
  <1>2. ASSUME NEW p \in Processes, WriteEnds(p)
        PROVE  TornIsWritten'
    BY <1>2 DEF WriteEnds, Gone, LockIsHeld, TornIsWritten
  <1>3. ASSUME NEW p \in Processes,
               \/ LockTimeout(p) \/ WriteFails(p) \/ Crash(p) \/ Refuse(p)
        PROVE  TornIsWritten'
    <2>1. Gone(p) /\ pc[p] # "writing" /\ torn' = torn
      BY <1>3 DEF LockTimeout, WriteFails, Crash, Refuse, file
    <2>2. QED
      BY <2>1 DEF Gone, TornIsWritten
  <1>4. ASSUME NEW p \in Processes,
               \/ Fails(p) \/ ReadObject(p) \/ DryRun(p) \/ Delete(p) \/ Create(p) \/ TakeLock(p)
               \/ \E c \in Commands : Start(p, c)
        PROVE  TornIsWritten'
    <2>1. /\ pc[p] # "writing" /\ UNCHANGED <<torn, fresh>>
          /\ pc' = [pc EXCEPT ![p] = pc'[p]] /\ pc'[p] # "writing"
      BY <1>4 DEF Fails, ReadObject, DryRun, Delete, Create, TakeLock, Start, Ready, Conclude, file
    <2>2. QED
      BY <2>1 DEF TornIsWritten
  <1>5. CASE \/ \E o \in Objects, s \in {"ACTIVE", "PAUSED"} : SetStatus(o, s)
             \/ UNCHANGED vars
    BY <1>5 DEF SetStatus, vars, file, process, TornIsWritten
  <1>6. QED
    BY <1>1, <1>2, <1>3, <1>4, <1>5 DEF Next, Step

LEMMA LoggedStep ==
    ASSUME ~TornWrites, TypeOK, ApiInv, TornIsWritten, EveryChangeIsLogged, [Next]_vars
    PROVE  EveryChangeIsLogged'
  <1> USE DEF ApiInv, TypeOK
  <1>1. ASSUME NEW p \in Processes, Delete(p) \/ Create(p)
        PROVE  EveryChangeIsLogged'
    <2>1. PICK t \in Objects \cup Creatives, v \in {"ok", "failed"} :
              changed' = changed \cup {t} /\ Conclude(p, v, t)
      <3>1. CASE Delete(p)
        <4>1. cmd[p] \in Commands /\ cmd[p].op = "delete"
          BY <3>1 DEF Delete, Ready
        <4>2. cmd[p].target \in Objects
          BY <4>1, CommandTypes
        <4>3. QED
          BY <3>1, <4>2 DEF Delete
      <3>2. CASE Create(p)
        BY <3>2 DEF Create
      <3>3. QED
        BY <1>1, <3>1, <3>2
    <2>2. /\ pc[p] \in {"started", "checked"} /\ UNCHANGED <<log, excused>>
          /\ made' = [made EXCEPT ![p] = t]
      BY <1>1, <2>1 DEF Delete, Create, Ready, Conclude, file
    <2>3. made[p] = None
      BY <2>2 DEF VerdictIsTrue, Busy
    <2>4. QED
      BY <2>1, <2>2, <2>3, ApiAssumption DEF EveryChangeIsLogged, Readable
  <1>2. ASSUME NEW p \in Processes, WriteEnds(p)
        PROVE  EveryChangeIsLogged'
    <2>1. /\ pc[p] = "writing" /\ fresh[p] /\ made' = [made EXCEPT ![p] = None]
          /\ UNCHANGED <<changed, excused>>
      BY <1>2 DEF WriteEnds, Gone, TornIsWritten
    <2>2. made[p] # None => RecordOf(p).about = made[p] /\ RecordOf(p).result # "dry_run"
      BY DEF RecordOf, VerdictIsTrue
    <2>3. /\ Readable' = Readable \cup {Len(log)} /\ log'[Len(log)] = RecordOf(p)
          /\ \A i \in Readable : log'[i] = log[i]
      BY <1>2, <2>1, EndedLine
    <2>4. ASSUME NEW t \in changed', t \notin excused, made[p] = t
          PROVE  \E i \in Readable' : log'[i].about = t /\ log'[i].result # "dry_run"
      BY <2>1, <2>2, <2>3, <2>4, ApiAssumption
    <2>5. QED
      BY <2>1, <2>3, <2>4 DEF EveryChangeIsLogged
  <1>3. ASSUME NEW p \in Processes, LockTimeout(p) \/ WriteFails(p) \/ Crash(p) \/ Refuse(p)
        PROVE  EveryChangeIsLogged'
    <2>1. /\ made' = [made EXCEPT ![p] = None] /\ UNCHANGED <<log, changed>>
          /\ excused \in SUBSET excused' /\ (made[p] # None => made[p] \in excused')
      BY <1>3 DEF LockTimeout, WriteFails, Crash, Refuse, Gone, Excuse, file, VerdictIsTrue, Busy
    <2>2. QED
      BY <2>1, ApiAssumption DEF EveryChangeIsLogged, Readable
  <1>4. ASSUME NEW p \in Processes, Fails(p) \/ DryRun(p)
        PROVE  EveryChangeIsLogged'
    <2>1. pc[p] \in {"started", "checked"} /\ made' = [made EXCEPT ![p] = None]
          /\ UNCHANGED <<log, changed, excused>>
      BY <1>4 DEF Fails, DryRun, Ready, Conclude, file, history
    <2>2. made[p] = None
      BY <2>1 DEF VerdictIsTrue, Busy
    <2>3. QED
      BY <2>1, <2>2 DEF EveryChangeIsLogged, Readable
  <1>5. ASSUME NEW p \in Processes, WriteStarts(p)
        PROVE  EveryChangeIsLogged'
    <2>1. Readable' = Readable /\ \A i \in Readable : log'[i] = log[i]
      BY <1>5, StartedLine
    <2>2. UNCHANGED <<made, changed, excused>>
      BY <1>5 DEF WriteStarts, history
    <2>3. QED
      BY <2>1, <2>2 DEF EveryChangeIsLogged
  <1>6. CASE \/ \E p \in Processes :
                  ReadObject(p) \/ TakeLock(p) \/ \E c \in Commands : Start(p, c)
             \/ \E o \in Objects, s \in {"ACTIVE", "PAUSED"} : SetStatus(o, s)
             \/ UNCHANGED vars
    <2>1. UNCHANGED <<log, made, changed, excused>>
      BY <1>6 DEF ReadObject, TakeLock, Start, SetStatus, vars, file, process, history
    <2>2. QED
      BY <2>1 DEF EveryChangeIsLogged, Readable
  <1>7. QED
    BY <1>1, <1>2, <1>3, <1>4, <1>5, <1>6 DEF Next, Step

(* Whatever a command deleted or made is in the log, lost answers          *)
(* included, unless the command was killed or said that it could not log   *)
(* it (api_cmd.py:78-95, 371-397, 449-475).                                *)
THEOREM ChangesAreLogged ==
    ASSUME ~TornWrites
    PROVE  Spec => []EveryChangeIsLogged
  <1>1. Init => TornIsWritten /\ EveryChangeIsLogged
    BY DEF Init, TornIsWritten, EveryChangeIsLogged
  <1>2. TypeOK /\ ApiInv /\ TornIsWritten /\ EveryChangeIsLogged /\ [Next]_vars =>
            TornIsWritten' /\ EveryChangeIsLogged'
    BY TornStep, LoggedStep
  <1>3. QED
    BY <1>1, <1>2, ApiInvariant, PTL DEF Spec

(* An append that returned can be read back (actionlog.py:73-93).          *)
THEOREM AppendsCanBeRead ==
    ASSUME ~TornWrites
    PROVE  Spec => []LoggedIsReadable
  <1>1. Init => TornIsWritten /\ LoggedIsReadable
    <2>1. ASSUME Init
          PROVE  Readable = {} /\ logged = 0 /\ TornIsWritten
      BY <2>1 DEF Init, Readable, TornIsWritten
    <2>2. QED
      BY <2>1, FS_EmptySet DEF LoggedIsReadable
  <1>2. TypeOK /\ ApiInv /\ TornIsWritten /\ LoggedIsReadable /\ [Next]_vars => LoggedIsReadable'
    <2> SUFFICES ASSUME TypeOK, ApiInv, TornIsWritten, LoggedIsReadable, [Next]_vars
                 PROVE  LoggedIsReadable'
      OBVIOUS
    <2>1. IsFiniteSet(Readable)
      <3>1. Len(log) \in Nat /\ Readable \in SUBSET (1 .. Len(log))
        BY DEF TypeOK, Readable
      <3>2. IsFiniteSet(1 .. Len(log))
        BY <3>1, FS_Interval
      <3>3. QED
        BY <3>1, <3>2, FS_Subset
    <2>2. ASSUME NEW p \in Processes, WriteEnds(p)
          PROVE  LoggedIsReadable'
      <3>1. fresh[p] /\ logged' = logged + 1
        BY <2>2 DEF WriteEnds, TornIsWritten
      <3>2. Readable' = Readable \cup {Len(log)} /\ Len(log) \notin Readable
        BY <2>2, <3>1, EndedLine DEF ApiInv
      <3>3. Cardinality(Readable') = Cardinality(Readable) + 1
        BY <2>1, <3>2, FS_AddElement
      <3>4. Cardinality(Readable) \in Nat /\ logged \in Nat
        BY <2>1, FS_CardinalityType DEF TypeOK
      <3>5. QED
        BY <3>1, <3>3, <3>4 DEF LoggedIsReadable
    <2>3. ASSUME NEW p \in Processes, WriteStarts(p)
          PROVE  LoggedIsReadable'
      BY <2>3, StartedLine DEF WriteStarts, history, LoggedIsReadable
    <2>4. CASE log' = log /\ logged' = logged
      BY <2>4 DEF LoggedIsReadable, Readable
    <2>5. QED
      BY <2>2, <2>3, <2>4 DEF Next, Step, Start, Refuse, Fails, ReadObject, DryRun, Delete, Create,
          TakeLock, LockTimeout, WriteFails, Crash, SetStatus, vars, file, history
  <1>3. TypeOK /\ ApiInv /\ TornIsWritten /\ [Next]_vars => TornIsWritten'
    BY TornStep
  <1>4. QED
    BY <1>1, <1>2, <1>3, ApiInvariant, PTL DEF Spec
=============================================================================
