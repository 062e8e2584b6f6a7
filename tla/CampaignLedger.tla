--------------------------- MODULE CampaignLedger ---------------------------
(***************************************************************************)
(* What the campaign state file promises, without sessions, locks or       *)
(* merges: a ledger of the ids Meta gave out.  An id enters it only after  *)
(* Meta created the object, never leaves it, and the stage marker and the  *)
(* activation flag only move forward.                                      *)
(***************************************************************************)
EXTENDS Naturals

CONSTANT Ids, LastStage

VARIABLES
    live,       \* ids of the objects Meta has created
    ledger,     \* ids recorded
    stage,      \* furthest stage recorded
    activated   \* an activation was recorded

vars == <<live, ledger, stage, activated>>

Init ==
    /\ live = {}
    /\ ledger = {}
    /\ stage = 0
    /\ activated = FALSE

(* Meta creates an object.                                                 *)
Create ==
    /\ \E id \in Ids \ live : live' = live \cup {id}
    /\ UNCHANGED <<ledger, stage, activated>>

(* A session's save makes what it knows part of the ledger.                *)
Commit ==
    /\ ledger' \in SUBSET live
    /\ ledger \subseteq ledger'
    /\ stage' \in stage .. LastStage
    /\ activated' \in BOOLEAN
    /\ activated => activated'
    /\ UNCHANGED live

Next == Create \/ Commit

Spec == Init /\ [][Next]_vars
=============================================================================
