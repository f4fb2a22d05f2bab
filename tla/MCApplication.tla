--------------------------- MODULE MCApplication ---------------------------
(* The application with pictures of two columns and a few configurations, and *)
(* the detection of students in pictures of three cells, one at a time.     *)
EXTENDS Application, StudentDetecting

VARIABLE subject    \* which of the two

mcVars == <<appVars, studentVars, subject>>

\* One initial state is enough for the students.
Init ==
    /\ AppInit /\ StudentInit /\ subject \in {"application", "students"}
    /\ subject = "students" => ~debug /\ cfg["teacher"]["data2"] = {}

App(A) == subject = "application" /\ A /\ UNCHANGED <<studentVars, subject>>
Students(A) == subject = "students" /\ A /\ UNCHANGED <<appVars, subject>>

Next == App(AppNext) \/ Students(one_frame)
Spec == Init /\ [][Next]_mcVars

\* The window thread runs, and the program does not stop inside tdt_close.
FairSpec ==
    /\ Spec
    /\ WF_mcVars(App(WindowRuns)) /\ WF_mcVars(App(\E r \in Runners : Delete(r) \/ JoinForEver(r)))

-----------------------------------------------------------------------------
MCMovements == {-4, -2, 0, 2}

MCAreas == {{0}, {1}}
MCObjects == {{1}}

File(d, d2, d3) == [data |-> d, data2 |-> d2, data3 |-> d3]
MCFiles == {[teacher |-> t, student |-> File({}, {0}, {})] :
                t \in {File({}, {}, {}), File({1}, {0}, {}), File({}, {0}, {1})}}
LeftFile == {[teacher |-> File({}, {0}, {}), student |-> File({}, {0}, {})]}

Of(r) == [x \in Runners |-> r]
Setting(m, h, d, s, p, k) == [mask |-> Of(m), hog |-> Of(h), debug |-> d, shown |-> s,
                              pictures |-> p, keys |-> k]

\* Pictures and a calibration; without pictures, two calibrations; a process
\* without windows.
Detect == <<"teacher", "detect">>
MCSettings == {Setting(TRUE, FALSE, TRUE, {"student"}, {Detect, <<"student", "trace">>}, 2),
               Setting(TRUE, FALSE, TRUE, Runners, {}, 4),
               Setting(TRUE, TRUE, TRUE, {"teacher"}, {}, 3),
               Setting(FALSE, FALSE, FALSE, {}, {Detect}, 0)}
Default == {Setting(TRUE, FALSE, TRUE, Runners, {Detect}, 2)}
=============================================================================
