------------------------------- MODULE SlotStore -------------------------------
(***************************************************************************)
(* What src/Storage/Inc/app_eeprom.h offers for BASIC scripts: two slots,  *)
(* each of which keeps the script written last or, as a script is written  *)
(* over the one before, nothing.                                           *)
(***************************************************************************)
CONSTANTS Slot, Script, None

VARIABLES
  committed, \* per slot: the script whose write got to its end last
  intact,    \* the slots whose script can be read
  writing    \* the write in progress

vars == <<committed, intact, writing>>

Kept(s) == IF s \in intact THEN committed[s] ELSE None

Init ==
  /\ committed \in [Slot -> Script \cup {None}]
  /\ intact = {s \in Slot : committed[s] # None}
  /\ writing = {}

Begin ==
  /\ writing = {}
  /\ \E s \in Slot, script \in Script : writing' = {[slot |-> s, script |-> script]}
  /\ UNCHANGED <<committed, intact>>

\* The write touches its own slot only, gets to its end, or ends, also early.
Write ==
  \E w \in writing :
    /\ intact' \in {intact, intact \cup {w.slot}, intact \ {w.slot}}
    /\ committed' \in {committed, [committed EXCEPT ![w.slot] = w.script]}
    /\ writing' \in {writing, {}}

Next == Begin \/ Write

Spec == Init /\ [][Next]_vars
=============================================================================
