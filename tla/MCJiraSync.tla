------------------------------ MODULE MCJiraSync ------------------------------
(* Instances of the JIRA sync model: two or three tickets, one of them undated *)
(* in some runs, and a clock of a few ticks.                                 *)
EXTENDS JiraSync
=============================================================================
