------------------------------ MODULE MCPowerOn -------------------------------
(***************************************************************************)
(* The instance of PowerOn that TLC checks: the two entries of aconfig.c,  *)
(* with the sizes of the code.                                             *)
(***************************************************************************)
EXTENDS PowerOn

MCValue == {"/test", "/snaps", "255", "0", "1", "9"}
MCNoise == {"9"}
MCDefault == <<"/test", "255">>
===============================================================================
