---------------------------- MODULE MCEnvConfig ----------------------------
(***************************************************************************)
(* The instance of EnvConfig for TLC.  The texts are ordinary ones: numbers *)
(* so large that String() gives them an exponent are out of TLC's integers. *)
(***************************************************************************)
EXTENDS EnvConfig

SomeTexts ==
    {Plain(0, 0), Plain(0, 50), Plain(5, 0), Plain(3000, 0), Scientific(5, 1000),
     Hex(80), Hex(4096), Empty, Word}

============================================================================
