------------------------------ MODULE MCDaemon ------------------------------
(***************************************************************************)
(* Small instances of Daemon: a usable configuration, one whose rules do   *)
(* not compile, one without rules, one for another directory.              *)
(***************************************************************************)
EXTENDS Daemon

Usual      == [loads |-> TRUE,  compiles |-> TRUE,  directory |-> "coredump", rules |-> 1]
Broken     == [Usual EXCEPT !.loads = FALSE]
BadPolicy  == [Usual EXCEPT !.compiles = FALSE, !.rules = 2]
Empty      == [Usual EXCEPT !.rules = 0]
Moved      == [Usual EXCEPT !.directory = "other"]

MCReloads  == {Usual, Broken, BadPolicy, Moved}
MCEmptied  == {Usual, Empty}
=============================================================================
