------------------------------- MODULE MCCfg -------------------------------
(***************************************************************************)
(* TLC instance of CfgBuild: every program of up to four instructions from *)
(* a pool with a wide load, jumps of both kinds in both directions and an  *)
(* END of an illegal width, which only traps.                              *)
(***************************************************************************)
EXTENDS CfgBuild

Pool ==
    {Alu(64, "Mov", 0, Imm(0)), LdImm64(1, 0), Exit,
     JumpAlways(1), JumpAlways(-2), Jump(64, "Eq", 0, Imm(0), 1), Jump(64, "Eq", 0, Imm(0), -3),
     Jump(64, "Ne", 0, Imm(0), 0), Alu(64, "EndLe", 0, Imm(8))}
MCCodes == UNION {[1..n -> Pool] : n \in 0..4}
=============================================================================
