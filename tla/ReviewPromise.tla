---------------------------- MODULE ReviewPromise ----------------------------
(***************************************************************************)
(* What a review promises Laravel, whatever the network, the engine and    *)
(* the worker do: only reports that exist are delivered and none is taken  *)
(* back, there is at most one verdict and it is the last word, and a       *)
(* review announced as finished is whole by then.                          *)
(***************************************************************************)
CONSTANT Turns

VARIABLES
  found,      \* turns whose report the worker has taken from the engine
  received,   \* turns whose report Laravel holds
  verdicts    \* how Laravel was told the review ended

vars == <<found, received, verdicts>>

Init == found = {} /\ received = {} /\ verdicts = {}

\* Reports are found, until there is a verdict, and delivered, in batches.
Progress ==
  /\ found \subseteq found' /\ found' \subseteq Turns
  /\ received \subseteq received' /\ received' \subseteq found'
  /\ verdicts # {} => found' = found
  /\ UNCHANGED verdicts

Announce(verdict) ==
  /\ verdicts = {} /\ verdicts' = {verdict}
  /\ received \subseteq received' /\ received' \subseteq found
  /\ verdict = "finished" => received' = found
  /\ UNCHANGED found

Next == Progress \/ \E verdict \in {"finished", "failed"} : Announce(verdict)

Spec == Init /\ [][Next]_vars
=============================================================================
