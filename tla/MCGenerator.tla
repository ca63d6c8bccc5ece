---------------------------- MODULE MCGenerator ----------------------------
(* The generator alone, for the order in which a phase is written.          *)
EXTENDS Generator
============================================================================
