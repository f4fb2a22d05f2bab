---------------------------- MODULE MCTeacherPtz ----------------------------
(* Areas of four columns; the target seen where two of them overlap, in the   *)
(* last one, and in the strip that they leave.                              *)
EXTENDS TeacherPtz

MCPlaces == (0..(Areas - 1)) \cup {Home, Elsewhere}
MCAdders == {"frame", "window"}
=============================================================================
