------------------------------- MODULE MCWdog -------------------------------
(* Wdog with two addresses: one of the configuration and one that it names. *)
EXTENDS Wdog

CONSTANTS d1, d2

MCDsts == {d1, d2}
MCInitial == <<d1>>
MCReports == {<<d1, d2>>}

NoReports == {<<>>}
=============================================================================
