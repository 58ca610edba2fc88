------------------------------- MODULE MCFarm -------------------------------
(* Small instances of Farm for TLC.                                        *)
EXTENDS Farm
=============================================================================
