------------------------------ MODULE MCTunnel ------------------------------
(* A small instance of Tunnel: get areas of two bytes.                     *)
EXTENDS Tunnel

Started(options, operands) == [options |-> options, operands |-> operands]
Opt(flag, value) == [flag |-> flag, value |-> value]

\* As it is started, with a port out of range, and with an argument too many.
MCCommandLines ==
    {Started(<<Opt("max-age", {5}), Opt("port", {80})>>, 0),
     Started(<<Opt("port", {0}), Opt("clear-cache", {})>>, 0), Started(<<>>, 1)}

MCUp == <<"u1", "u2", "u3">>
MCDown == <<"d1", "d2">>
=============================================================================
