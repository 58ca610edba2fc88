------------------------------ MODULE MCProxy ------------------------------
(* Small instances of Proxy for TLC.                                       *)
EXTENDS Proxy, Sequences

Line(options) == [options |-> options, operands |-> 0]
Port(v) == [flag |-> "port", value |-> v]
MaxAge(v) == [flag |-> "max-age", value |-> v]
ClearCache == [flag |-> "clear-cache", value |-> {}]
Unknown == [flag |-> "unknown", value |-> {}]

\* No limit, one second, and more than a long holds; the last of two limits; an
\* empty cache; and, with the cache cleared or not, an option that is refused
\* and an argument too many.
MCCommandLines ==
    {Line(<<>>), Line(<<MaxAge({0}), Port({80}), MaxAge({1})>>), Line(<<MaxAge({1000})>>),
     Line(<<ClearCache>>), Line(<<MaxAge({1}), ClearCache>>),
     Line(<<MaxAge({-2}), ClearCache>>), Line(<<ClearCache, Port({0})>>),
     Line(<<Port({}), ClearCache>>), Line(<<ClearCache, Unknown>>),
     [options |-> <<ClearCache>>, operands |-> 1]}
=============================================================================
