------------------------------ MODULE ChooseOnce ------------------------------
(***************************************************************************)
(* What the singleton rows of the control plane promise (the tenant that   *)
(* setup creates, the signing key, the telemetry identity): one value is   *)
(* chosen, once and for all, and whoever learns a value learns that one.   *)
(***************************************************************************)
CONSTANTS NULL, Values, Learners

VARIABLES
  chosen,   \* the values chosen
  learned   \* what each learner holds at the moment

vars == <<chosen, learned>>

Init ==
  /\ chosen = {}
  /\ learned = [p \in Learners |-> NULL]

Choose(v) ==
  /\ chosen = {}
  /\ chosen' = {v}
  /\ UNCHANGED learned

Learn(p) ==
  /\ \E v \in chosen : learned' = [learned EXCEPT ![p] = v]
  /\ UNCHANGED chosen

(* A learner restarts without what it held in memory. *)
Forget(p) ==
  /\ learned' = [learned EXCEPT ![p] = NULL]
  /\ UNCHANGED chosen

Next ==
  \/ \E v \in Values : Choose(v)
  \/ \E p \in Learners : Learn(p) \/ Forget(p)

Spec == Init /\ [][Next]_vars
===============================================================================
