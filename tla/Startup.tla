------------------------------ MODULE Startup -------------------------------
(***************************************************************************)
(* From the command line to the first load of a worker: main and run of    *)
(* main.rs, up to the engine, with the parsing of config/mod.rs in the     *)
(* format that the name of the file says, or in either.                    *)
(*                                                                         *)
(* An invocation is what the program is started with: the options (args.rs), *)
(* the tokens of the text, the formats it is correct in, the section       *)
(* "global", the number of tasks, or the fact that they are refused        *)
(* (Workload), and whether one of them has an event with a buffer.         *)
(***************************************************************************)
EXTENDS Preprocess, Calibration, MemLoad

CONSTANTS
  Invocations,
  Execs,       \* execution times of run events, in us
  Counts       \* sizes of mem and iorun events, in bytes

ASSUME StartupAssumption ==
  /\ \A i \in Invocations :
       /\ i.print_template \in BOOLEAN /\ i.readable \in BOOLEAN /\ i.buffers \in BOOLEAN
       /\ i.config \in {"none", "json", "yaml", "other", "stdin"}
       /\ i.syntax \subseteq {"json", "yaml"}
       /\ i.tasks \in {"refused", "empty", "some"}
       /\ i.machine \in Machines
       /\ \A key \in DOMAIN i.section : IsValue(i.section[key])
       /\ i.tokens \in Seq([kind : TokenKinds, text : Seq(STRING)])
  /\ Execs \subseteq Nat /\ Counts \subseteq Nat

VARIABLES
  invocation,
  at,           \* the statement main is at
  global,       \* GlobalConfig
  exit_code

mainVars == <<invocation, at, global, exit_code>>
vars == <<mainVars, textVars, calibVars, memVars>>

NotYet == [parsed |-> FALSE]
NoCode == -1

EXIT_SUCCESS == 0
EXIT_FAILURE == 1
EXIT_INVALID_CONFIG == 2
Panicked == 101

Init ==
  /\ invocation \in Invocations
  /\ at = "cli" /\ global = NotYet /\ exit_code = NoCode
  /\ PreprocessInit(invocation.tokens)
  /\ CalibInit(invocation.machine)
  /\ MemInit

Exit(code) == at' = "exited" /\ exit_code' = code /\ UNCHANGED <<invocation, global>>

GoTo(next) == at' = next /\ UNCHANGED <<invocation, global, exit_code>>

----------------------------------------------------------------------------
(* The command line and the text *)

\* Cli::parse ends with 2 where neither a configuration nor --print-template
\* is given; the template goes before the configuration.
ParseArguments ==
  /\ at = "cli"
  /\ CASE invocation.print_template    -> Exit(EXIT_SUCCESS)
       [] ~invocation.print_template /\ invocation.config = "none" -> Exit(2)
       [] OTHER                        -> GoTo("read")
  /\ UNCHANGED <<textVars, calibVars, memVars>>

Read ==
  /\ at = "read"
  /\ IF ~invocation.readable
     THEN Exit(EXIT_INVALID_CONFIG) /\ UNCHANGED textVars
     ELSE /\ GoTo(IF invocation.config = "yaml" THEN "yaml" ELSE "json")
          /\ ReadText
  /\ UNCHANGED <<calibVars, memVars>>

Preprocessing ==
  /\ at = "json" /\ preprocess_json
  /\ UNCHANGED <<mainVars, calibVars, memVars>>

\* parse_from_value: the sections in their order, the tasks last.
parse_refuses == parse_global_refuses(invocation.section) \/ invocation.tasks = "refused"

Parsed ==
  /\ at' = "validate"
  /\ global' = [parsed |-> TRUE, is |-> into_global_config(invocation.section)]
  /\ UNCHANGED <<invocation, exit_code>>

\* Mutant: another format is tried for a text that is not JSON only if its
\* name has an extension.
FromJsonOrFail ==
  /\ at = "json" /\ passes = "done"
  /\ IF "json" \in invocation.syntax /\ ~parse_refuses THEN Parsed
     ELSE IF invocation.config = "other" THEN GoTo("yaml")
     ELSE Exit(EXIT_INVALID_CONFIG)
  /\ UNCHANGED <<textVars, calibVars, memVars>>

\* Where the format is not known, whatever is wrong with the JSON makes the
\* program try the text as it was read as YAML.
FromJson ==
  /\ at = "json" /\ passes = "done"
  /\ IF "json" \in invocation.syntax /\ ~parse_refuses THEN Parsed
     ELSE IF invocation.config \in {"other", "stdin"} THEN GoTo("yaml")
     ELSE Exit(EXIT_INVALID_CONFIG)
  /\ UNCHANGED <<textVars, calibVars, memVars>>

FromYaml ==
  /\ at = "yaml"
  /\ IF "yaml" \in invocation.syntax /\ ~parse_refuses THEN Parsed
     ELSE Exit(EXIT_INVALID_CONFIG)
  /\ UNCHANGED <<textVars, calibVars, memVars>>

----------------------------------------------------------------------------
(* The options, the calibration and the buffers *)

opts == AppOptions(global.is)

Validate ==
  /\ at = "validate"
  /\ IF invocation.tasks = "empty"
     THEN Exit(EXIT_FAILURE) /\ UNCHANGED calibVars
     ELSE GoTo("calibrate") /\ CallCalibration(opts)
  /\ UNCHANGED <<textVars, memVars>>

Calibrating ==
  /\ at = "calibrate" /\ run_calibration
  /\ UNCHANGED <<mainVars, textVars, memVars>>

Calibrated ==
  /\ at = "calibrate" /\ calib \in {"ready", "failed"}
  /\ IF calib = "failed" THEN Exit(EXIT_FAILURE) ELSE GoTo("build")
  /\ UNCHANGED <<textVars, calibVars, memVars>>

\* A buffer of more than half of the address space panics.
build_engine_state ==
  /\ at = "build"
  /\ IF invocation.buffers /\ opts.mem_buffer_size >= Usize \div 2
     THEN Exit(Panicked) /\ UNCHANGED buf_len
     ELSE GoTo("work") /\ buf_len' = opts.mem_buffer_size
  /\ UNCHANGED <<textVars, calibVars, load, count>>

----------------------------------------------------------------------------
(* The first load of a worker *)

RunEvent ==
  /\ at = "work" /\ load = "none"
  /\ \E usec \in Execs : loadwait(usec)
  /\ UNCHANGED <<mainVars, textVars, memVars>>

BufferEvent ==
  /\ at = "work" /\ invocation.buffers /\ calib = "ready"
  /\ \E kind \in {"mem", "iorun"}, bytes \in Counts : StartLoad(kind, bytes)
  /\ UNCHANGED <<mainVars, textVars, calibVars>>

BufferWork ==
  /\ at = "work" /\ memload
  /\ UNCHANGED <<mainVars, textVars, calibVars>>

Next ==
  \/ ParseArguments \/ Read \/ Preprocessing \/ FromJson \/ FromYaml
  \/ Validate \/ Calibrating \/ Calibrated \/ build_engine_state
  \/ RunEvent \/ BufferEvent \/ BufferWork

\* A loop of a worker is never blocked.
Spec == Init /\ [][Next]_vars /\ WF_vars(BufferWork) /\ WF_vars(RunEvent)

----------------------------------------------------------------------------
(* Properties *)

\* The texts that are read are documents, correct as JSON or not.
ReadsDocuments ==
  \A i \in Invocations : \A k \in DOMAIN i.tokens : IsToken(i.tokens[k])

\* What the text of a configuration may be read as, by the name of its file.
Formats ==
  IF invocation.config \in {"json", "yaml"} THEN {invocation.config} ELSE {"json", "yaml"}

\* Of a program that is given a configuration: one of these accepts it.
Accepted ==
  /\ invocation.readable
  /\ Formats \cap invocation.syntax # {}
  /\ ~parse_refuses

\* The exit code tells who is to blame, where a configuration is given: 2 one
\* that none of its formats accepts, 1 one that asks for nothing, or the
\* machine; and no work begins on a configuration that is refused.
ExitTellsCause ==
  /\ exit_code = EXIT_SUCCESS => invocation.print_template
  /\ exit_code = EXIT_INVALID_CONFIG /\ invocation.config # "none" => ~Accepted
  /\ exit_code = EXIT_FAILURE => Accepted /\ (invocation.tasks = "empty" \/ calib = "failed")
  /\ at = "work" => invocation.config # "none" /\ Accepted /\ calib # "failed"

\* What the workers start with: the affinity that main had, which they
\* inherit, whether the CPU of the calibration was there or not; and a log that
\* is off only for "disable", not for a size of 0 nor for one that has lost its
\* high bits, and that takes no more than it was given, unless that is less
\* than one point needs.
WorkStartsAsAsked ==
  at = "work" =>
    LET capacity == log_capacity_from_config(global.is)
        stated   == Stated(invocation.section, "log_size")
    IN  /\ affinity = Original
        /\ capacity = 0 <=> stated = [kind |-> "str", s |-> "disable"]
        /\ stated.kind = "int" => capacity = 1 \/ capacity * PerPoint <= stated.n * MB

\* What they rest on: where main is, and what it must have seen to be there.
Control ==
  /\ at \in {"cli", "read", "json", "yaml", "validate", "calibrate", "build", "work", "exited"}
  /\ at # "exited" <=> exit_code = NoCode
  /\ at \notin {"cli", "exited"} => invocation.config # "none"
  /\ at \in {"json", "yaml"} => invocation.readable
  /\ at = "json" => invocation.config # "yaml"
  /\ at = "yaml" /\ invocation.config # "yaml" =>
       /\ invocation.config # "json"
       /\ "json" \notin invocation.syntax \/ parse_refuses
  /\ at \in {"validate", "calibrate", "build", "work"} =>
       Accepted /\ global.is = into_global_config(invocation.section)
  /\ at = "build" => calib = "ready"
  /\ at = "work" => calib \in {"ready", "idle", "loading", "loaded"}

IInv ==
  /\ invocation \in Invocations
  /\ Control /\ ExitTellsCause /\ CalibIInv

\* A worker leaves a loop over its buffer, whose length need not divide what
\* is asked for; only an empty buffer keeps it there.
LoadEnds == load \in {"mem", "iorun"} /\ buf_len > 0 ~> load = "done"
=============================================================================
