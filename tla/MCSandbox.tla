------------------------------ MODULE MCSandbox ------------------------------
(* A small instance of Sandbox: two processes, a file with two contents.  File *)
(* tools and commands share no state but the bound on faults, so a behaviour   *)
(* has one or the other.                                                       *)
EXTENDS Sandbox

EitherTools == {{"files"}, {"commands"}}
===============================================================================
