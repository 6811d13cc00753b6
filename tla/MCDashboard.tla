---------------------------- MODULE MCDashboard ----------------------------
EXTENDS Dashboard

CONSTANT forward

(* W and the on-screen button walk forward. *)
MCKeyOf == [k \in Codes \cup Buttons |-> forward]
=============================================================================
