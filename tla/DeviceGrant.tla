---------------------------- MODULE DeviceGrant ----------------------------
(***************************************************************************)
(* What authorize() of scripts/ops-create-meta-agent-repo-selfhosted.py    *)
(* promises its caller, without polls and clocks: it ends once, with a     *)
(* token only if the code was approved before, and with an exception on    *)
(* every other way.  Publisher and DeviceAuth both implement it.           *)
(***************************************************************************)

VARIABLES
  verdict,   \* what was answered to the device code
  outcome    \* "none" while authorize() runs, "token", or "raised"

vars == <<verdict, outcome>>

Init == verdict = "none" /\ outcome = "none"

\* Somebody answers, once.
Decide ==
  /\ verdict = "none" /\ verdict' \in {"approved", "denied"}
  /\ UNCHANGED outcome

Return == outcome = "none" /\ verdict = "approved" /\ outcome' = "token"
          /\ UNCHANGED verdict

\* Denied, expired, or a request that failed.
Raise == outcome = "none" /\ outcome' = "raised" /\ UNCHANGED verdict

Next == Decide \/ Return \/ Raise

Spec == Init /\ [][Next]_vars
=============================================================================
