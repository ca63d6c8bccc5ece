----------------------------- MODULE MCFuzzing -----------------------------
(* The fuzzer and its generator on small workloads.                         *)
EXTENDS Fuzzing
============================================================================
