---------------------------- MODULE MCTuiSession ----------------------------
(* Two repositories, a bus of a few events and two runs in a session.        *)
EXTENDS TuiSession
=============================================================================
