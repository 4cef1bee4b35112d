--------------------------- MODULE CollectPromise ---------------------------
(***************************************************************************)
(* What collecting promises, without saying how history is walked or split: *)
(* the commits table only grows, and a run that reports its repository      *)
(* collected claims a set of commits every one of which is in the table.    *)
(***************************************************************************)
CONSTANTS Procs, Commits

VARIABLES
  stored,   \* the commits in the extract database
  claimed   \* claimed[p]: what process p last reported collected

vars == <<stored, claimed>>

Init ==
  /\ stored = {}
  /\ claimed = [p \in Procs |-> {}]

\* A walk, finished or cut short, adds commits; nothing is claimed by it.
Store ==
  /\ stored' \in SUBSET Commits
  /\ stored \subseteq stored'
  /\ UNCHANGED claimed

\* A run reports S collected, or starts over and claims nothing.
Report(p, S) ==
  /\ S \subseteq stored
  /\ claimed' = [claimed EXCEPT ![p] = S]
  /\ UNCHANGED stored

Next == Store \/ \E p \in Procs, S \in SUBSET Commits : Report(p, S)

Spec == Init /\ [][Next]_vars
=============================================================================
