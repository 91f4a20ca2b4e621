----------------------------- MODULE MCReminders -----------------------------
(* The reminders over two hours, in steps of ten minutes or so: every rule    *)
(* calls one step before the lecture.                                         *)
EXTENDS Reminders

OneLead == [r \in Rules |-> 1]
=============================================================================
