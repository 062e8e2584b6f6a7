--------------------------- MODULE UploadRegister ---------------------------
(***************************************************************************)
(* What the upload of assets promises, without processes, locks or files:  *)
(* one register for each content of each account, written once and read    *)
(* for ever after.  What is written there was made for it; nothing is made *)
(* while something made before may still be written, and what is not going *)
(* to be written is lost for good.                                         *)
(***************************************************************************)

CONSTANTS
    Keys,       \* contents in accounts
    Ids,        \* of media objects
    Unset       \* what a register holds before it is written

VARIABLES
    made,       \* for each key, the objects Meta has made for it
    lost,       \* those that nobody is going to write down any more
    register,   \* for each key, the object to use
    answers     \* what callers were told

vars == <<made, lost, register, answers>>

Init ==
    /\ made = [k \in Keys |-> {}]
    /\ lost = {}
    /\ register = [k \in Keys |-> Unset]
    /\ answers = {}

(* Meta makes an object; the one who asked for it may never hear of it.    *)
Make(k) ==
    /\ register[k] = Unset
    /\ made[k] \subseteq lost
    /\ \E id \in Ids :
          /\ \A j \in Keys : id \notin made[j]
          /\ made' = [made EXCEPT ![k] = @ \cup {id}]
          /\ lost' \in {lost, lost \cup {id}}
    /\ UNCHANGED <<register, answers>>

(* Whoever was to write it down is gone.                                   *)
Lose(k) ==
    /\ register[k] = Unset
    /\ \E id \in made[k] \ lost : lost' = lost \cup {id}
    /\ UNCHANGED <<made, register, answers>>

Write(k) ==
    /\ register[k] = Unset
    /\ \E id \in made[k] \ lost : register' = [register EXCEPT ![k] = id]
    /\ UNCHANGED <<made, lost, answers>>

Answer(k) ==
    /\ register[k] # Unset
    /\ answers' = answers \cup {[key |-> k, id |-> register[k]]}
    /\ UNCHANGED <<made, lost, register>>

Next == \E k \in Keys : Make(k) \/ Lose(k) \/ Write(k) \/ Answer(k)

Spec == Init /\ [][Next]_vars
=============================================================================
