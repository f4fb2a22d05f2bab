-------------------------- MODULE MCTeacherWorking --------------------------
(* Two columns: a target that comes and goes between them, or walks to the     *)
(* left, passes for settled; one that stays, or walks to the right, does not. *)
EXTENDS TeacherWorkingThread
=============================================================================
