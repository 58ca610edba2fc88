----------------------------- MODULE MCArchive -----------------------------
(* Small instances of Archive for TLC.                                     *)
EXTENDS Archive

CONSTANTS a, b, c, d, e, h1, h2

\* A cycle, a page that is linked twice, and on another host a page that
\* robots.txt disallows and one that is not whitelisted; b has an escape in its
\* URL.
FiveUrls == {a, b, c, d, e}
TwoHosts == {h1, h2}
Servers == [u \in FiveUrls |-> IF u \in {a, b, c} THEN h1 ELSE h2]
Unescaped == [u \in FiveUrls |-> IF u = b THEN d ELSE u]
Site == [u \in FiveUrls |-> CASE u = a -> <<b, c>> [] u = b -> <<a, c>>
                              [] u = c -> <<d, e>> [] OTHER -> <<>>]
=============================================================================
