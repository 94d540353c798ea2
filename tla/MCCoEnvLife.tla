---------------------------- MODULE MCCoEnvLife -----------------------------
(* The refinement run: MCCoEnv's values, CoEnvLife's property.             *)
EXTENDS CoEnvLife, MCCoEnv
=============================================================================
