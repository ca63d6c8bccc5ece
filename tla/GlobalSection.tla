--------------------------- MODULE GlobalSection ----------------------------
(***************************************************************************)
(* The "global" section of a configuration (config/global.rs) and what the *)
(* program makes of it: AppOptions and the capacity of the logs            *)
(* (conversions.rs).                                                       *)
(*                                                                         *)
(* A section is a function from the keys it states to values; a value is a *)
(* record of its kind: "null", "bool" (b), "int" (n), "str" (s), and for   *)
(* the strings of a form of their own "CPU" (n) and "categories" (names).  *)
(* A number that is no integer is of kind "float".                         *)
(***************************************************************************)
EXTENDS Integers, Sequences

CONSTANTS
  U32,      \* 2^32
  Usize,    \* 2^64
  MB,       \* 2^20
  PerPoint  \* the bytes a timing point is taken to need

IsValue(v) ==
  \/ v \in [kind : {"null", "float"}]
  \/ v \in [kind : {"bool"}, b : BOOLEAN]
  \/ v \in [kind : {"int", "CPU"}, n : Int]
  \/ v \in [kind : {"str"}, s : STRING]
  \/ v \in [kind : {"categories"}, names : SUBSET STRING]

ASSUME GlobalAssumption ==
  /\ U32 \in Nat \ {0} /\ Usize \in Nat \ {0}
  /\ MB \in Nat \ {0} /\ PerPoint \in Nat \ {0}

Bools    == {"lock_pages", "pi_enabled", "cumulative_slack", "gnuplot"}
Strings  == {"logdir", "log_basename", "io_device"}
Optional == {"calibration", "log_size", "ftrace"}
Fields   == Bools \cup Strings \cup Optional
              \cup {"duration", "default_policy", "mem_buffer_size"}

NotGiven == -1
DEFAULT_MEM_BUF_SIZE == 4 * MB

Policies == {"SCHED_OTHER", "SCHED_IDLE", "SCHED_RR", "SCHED_FIFO",
             "SCHED_DEADLINE", "SCHED_SAME"}

FtraceCategories == {"main", "task", "loop", "event", "stats", "attrs"}

\* What a field may be; a float, an array or an object is refused everywhere,
\* and null is a missing value only where the field is optional.
Accepts(field, v) ==
  CASE field \in Bools           -> v.kind = "bool"
    [] field \in Strings         -> v.kind = "str"
    [] field = "duration"        -> v.kind = "int" /\ v.n \in -(U32 \div 2) .. (U32 \div 2 - 1)
    [] field = "mem_buffer_size" -> v.kind = "int" /\ v.n \in 0 .. Usize - 1
    [] field = "default_policy"  -> v.kind = "str" /\ v.s \in Policies
    [] field = "calibration" ->
         \/ v.kind = "null"
         \/ v.kind = "int" /\ v.n \in 0 .. Usize - 1
         \/ v.kind = "CPU" /\ v.n < U32
    [] field = "log_size" ->
         \/ v.kind = "null"
         \/ v.kind = "int" /\ v.n \in 0 .. Usize - 1
         \/ v.kind = "str" /\ v.s \in {"file", "disable", "auto"}
    [] field = "ftrace" ->
         \/ v.kind \in {"null", "bool"}
         \/ v.kind = "categories" /\ v.names \subseteq FtraceCategories

\* LogSize.  The shift to bytes drops the high bits.
LogSizeOf(v) ==
  CASE v.kind = "int" -> [kind |-> "buffer", bytes |-> (v.n * MB) % Usize]
    [] v.kind = "str" /\ v.s = "disable" -> [kind |-> "disabled"]
    [] OTHER -> [kind |-> "file"]

FtraceOf(v) ==
  CASE v.kind = "bool" -> IF v.b THEN FtraceCategories ELSE {}
    [] v.kind = "categories" -> v.names
    [] OTHER -> {}

Default(field) ==
  CASE field \in Optional -> [kind |-> "null"]
    [] field \in Bools    -> [kind |-> "bool", b |-> field = "lock_pages"]
    [] field = "duration" -> [kind |-> "int", n |-> -1]
    [] field = "default_policy"  -> [kind |-> "str", s |-> "SCHED_OTHER"]
    [] field = "mem_buffer_size" -> [kind |-> "int", n |-> DEFAULT_MEM_BUF_SIZE]

\* What serde reads, with its defaults; a key that is no field is ignored.
Stated(section, field) ==
  IF field \in DOMAIN section THEN section[field] ELSE Default(field)

\* into_global_config, for a section that is accepted; paths and names are
\* left out.
into_global_config(section) ==
  [duration_secs   |-> Stated(section, "duration").n,
   default_policy  |-> Stated(section, "default_policy").s,
   calibration     |-> LET v == Stated(section, "calibration")
                       IN  IF v.kind = "null" THEN [kind |-> "CPU", n |-> 0] ELSE v,
   log_size        |-> LogSizeOf(Stated(section, "log_size")),
   ftrace          |-> FtraceOf(Stated(section, "ftrace")),
   mem_buffer_size |-> Stated(section, "mem_buffer_size").n,
   flags           |-> {field \in Bools : Stated(section, field).b}]

\* A missing section is an empty one.
parse_global_refuses(section) ==
  \E field \in Fields \cap DOMAIN section : ~Accepts(field, section[field])

----------------------------------------------------------------------------
(* conversions.rs *)

AsI32(n) == ((n + U32 \div 2) % U32) - U32 \div 2

\* From<&GlobalConfig> for AppOptions, but for logsize, which nobody reads.
AppOptions(g) ==
  [duration  |-> IF g.duration_secs < 0 THEN NotGiven ELSE g.duration_secs,
   policy    |-> g.default_policy,
   calib_cpu |-> IF g.calibration.kind = "CPU" THEN AsI32(g.calibration.n) ELSE -1,
   calib_ns_per_loop |-> IF g.calibration.kind = "int" THEN g.calibration.n ELSE NotGiven,
   mem_buffer_size   |-> g.mem_buffer_size,
   flags     |-> g.flags]

\* Mutant: a buffer too small for a point has room for none.
points_rounded(bytes) == bytes \div PerPoint

\* How many points fit into a number of bytes: one at least.
points(bytes) == IF bytes < PerPoint THEN 1 ELSE bytes \div PerPoint

log_capacity_from_config(g) ==
  CASE g.log_size.kind = "disabled" -> 0
    [] g.log_size.kind = "file"     -> 10000
    [] g.log_size.kind = "buffer"   -> points(g.log_size.bytes)
=============================================================================
