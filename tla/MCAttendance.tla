---------------------------- MODULE MCAttendance ----------------------------
(* Small instances of Attendance: a lecture lasts one or two ticks.        *)
EXTENDS Attendance, TLC

OneHour == [start |-> 10, end |-> 11]
TwoHours == [start |-> 10, end |-> 12]
Fixed == {OneHour}
Editable == {OneHour, TwoHours}

Symmetry == Permutations(Students) \union Permutations(SessionIds)
              \union Permutations(Staff) \union Permutations(Workers)
=============================================================================
