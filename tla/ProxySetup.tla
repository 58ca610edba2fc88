------------------------------ MODULE ProxySetup ------------------------------
(***************************************************************************)
(* The command line of the proxies of assign5 and assign7, whose proxy.cc  *)
(* and proxy-options.cc read it in the same way: options are carried out   *)
(* one by one as getopt_long reports them, up to the first that is         *)
(* refused, and the arguments left over are counted at the end.            *)
(*                                                                         *)
(* A command line is its options in that order and the number of arguments *)
(* left over.  The value of an option is the set of the number it spells,  *)
(* and empty when it spells none.                                          *)
(***************************************************************************)
EXTENDS Integers, Sequences

CONSTANTS CommandLines,  \* what the proxy may be started with
          LongMax        \* the largest long

Options == [flag : {"port", "clear-cache", "max-age", "unknown"}, value : SUBSET Int]

ASSUME CommandLineAssumption ==
    /\ LongMax \in Nat
    /\ CommandLines \subseteq [options : Seq(Options), operands : Nat]

Lesser(a, b) == IF a < b THEN a ELSE b

\* strtol() stops at the largest long.
LongInRange(v, low, high) == \E n \in v : Lesser(n, LongMax) \in low..high
PortInRange(v) == \E n \in v : n \in 1..65535

Accepted(o) == CASE o.flag = "port" -> PortInRange(o.value)
                 [] o.flag = "max-age" -> LongInRange(o.value, -1, LongMax)
                 [] o.flag = "clear-cache" -> TRUE
                 [] o.flag = "unknown" -> FALSE
Handled(line) == {i \in DOMAIN line.options : \A j \in 1..i : Accepted(line.options[j])}
Given(line, flag) == {i \in Handled(line) : line.options[i].flag = flag}
WellFormed(line) == Handled(line) = DOMAIN line.options /\ line.operands = 0

\* The last --max-age counts; without one there is no limit.
MaxAgeOf(line) ==
    LET given == Given(line, "max-age")
        last == CHOOSE i \in given : \A j \in given : j <= i
    IN IF given = {} THEN -1
       ELSE Lesser(CHOOSE n \in line.options[last].value : TRUE, LongMax)
=============================================================================
