---------------------------- MODULE MCDashboard ----------------------------
(* Dashboard for TLC: one device, whose card comes and goes.                *)
EXTENDS Dashboard

CONSTANT h1

OneHost == {h1}

=============================================================================
