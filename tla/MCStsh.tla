------------------------------- MODULE MCStsh -------------------------------
(* Small instances of Stsh for TLC.                                        *)
EXTENDS Stsh

With(builtins, k, n, t) ==
    [builtins |-> builtins, keys |-> k, stops |-> n, terminal |-> t]

\* At a terminal, with jobs that stop and are continued in either place, or
\* are ended, or that stop and stay so; and under stsh-driver, with a key.
MCSessions == {With({"fg", "bg", "cont"}, 0, 1, TRUE),
               With({"slay", "halt", "cont"}, 0, 0, TRUE),
               With({}, 0, 1, TRUE), With({"bg"}, 1, 0, FALSE)}
FgSessions == {With({"fg"}, 0, 1, TRUE)}
=============================================================================
