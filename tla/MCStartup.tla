----------------------------- MODULE MCStartup ------------------------------
(* Invocations for TLC.  One set has every well-nested text of up to        *)
(* MaxParts of the parts below, inside a pair of braces; it is no           *)
(* configuration, since its tasks are missing.  Another has every section   *)
(* "global", one has the command lines and formats, and one the machines.   *)
EXTENDS Startup

CONSTANT MaxParts

Token(kind, chars) == [kind |-> kind, text |-> chars]

Open  == Token("open", <<"{">>)
Close == Token("close", <<"}">>)
Comma == Token("comma", <<",">>)
Colon == Token("colon", <<":">>)
Space == Token("space", <<"\n">>)
K     == Token("string", <<"\"", "k", "\"">>)
K1    == Token("string", <<"\"", "k", "1", "\"">>)
\* A string that looks like the end of one, a comment and a trailing comma.
Tricky == Token("string", <<"\"", "\\", "\"", "/", "*", ",", "}", "\"">>)
\* Comments that look like strings, closing brackets and other comments.
Block == Token("block", <<"/", "*", "\"", "/", "*", "*", "/">>)
Line  == Token("line", <<"/", "/", "*", "\"", "}", "\n">>)

Parts == {<<K, Colon>>, <<K1, Colon>>, <<K, Block, Space, Colon>>, <<Tricky>>,
          <<Comma>>, <<Open>>, <<Close>>, <<Line>>, <<Block>>}

Opens(tokens, n) ==
  Cardinality({i \in 1..n : tokens[i].kind = "open"})
    - Cardinality({i \in 1..n : tokens[i].kind = "close"})

Nested(tokens) ==
  /\ Opens(tokens, Len(tokens)) = 0
  /\ \A n \in DOMAIN tokens : Opens(tokens, n) >= 0

Documents ==
  LET inner == {FlattenSeq(parts) : parts \in UNION {[1..n -> Parts] : n \in 0..MaxParts}}
  IN  {<<Open>> \o tokens \o <<Close>> : tokens \in {t \in inner : Nested(t)}}

Quiet == [base |-> 160, noise |-> 2]
Empty == [field \in {} |-> field]
One(field, v) == [f \in {field} |-> v]

\* A configuration read from a .yaml file, which is correct.
Usual ==
  [print_template |-> FALSE, config |-> "yaml", readable |-> TRUE,
   tokens |-> <<Open, Tricky, Colon, Open, Close, Close>>, syntax |-> {"json", "yaml"},
   section |-> One("calibration", [kind |-> "int", n |-> 7]), tasks |-> "some", buffers |-> TRUE,
   machine |-> Quiet]

Texts == {[Usual EXCEPT !.config = "json", !.tokens = d, !.syntax = {}] : d \in Documents}

CommandLines ==
  {[Usual EXCEPT !.print_template = p, !.config = c, !.readable = r, !.syntax = s,
                 !.tasks = t, !.buffers = FALSE] :
     p \in BOOLEAN, c \in {"none", "json", "yaml", "other", "stdin"}, r \in BOOLEAN,
     s \in SUBSET {"json", "yaml"}, t \in {"refused", "empty", "some"}}

Num(n) == [kind |-> "int", n |-> n]
Str(s) == [kind |-> "str", s |-> s]
Bool(b) == [kind |-> "bool", b |-> b]

Values ==
  {[kind |-> "null"], [kind |-> "float"], Bool(FALSE), Bool(TRUE),
   Str("auto"), Str("Disable"), Str("disable"), Str("SCHED_FIFO"), Str("SCHED_BAD"),
   [kind |-> "categories", names |-> {"main", "loop"}],
   [kind |-> "categories", names |-> {"main", "bad"}]}
    \cup {Num(n) : n \in {-1, 0, 1, 3, U32 \div 2, Usize \div MB, Usize \div MB + 1,
                          Usize \div 2, Usize}}

\* Every value of every field, and pairs of them.
Sections ==
  {Empty} \cup {One(field, v) : field \in Fields, v \in Values}
    \cup {One("log_size", v) @@ One("mem_buffer_size", w) @@ One("calibration", Num(7)) :
            v \in Values, w \in {Num(n) : n \in {0, 3, Usize \div 2, Usize}}}

Configured == {[Usual EXCEPT !.section = s, !.buffers = b] : s \in Sections, b \in BOOLEAN}

Settings ==
  {Num(n) : n \in {-1, 0, 7, U32}}
    \cup {[kind |-> "CPU", n |-> c] : c \in {0, 2, 9, U32 - 1, U32}}
    \cup {[kind |-> "null"], Str("GPU0")}

MCMachines ==
  {[base |-> b, noise |-> n] : b \in {0, 1, 20, 51, 52, 63, 160, 301}, n \in {0, 2, 5}}

Calibrations ==
  {[Usual EXCEPT !.section = One("calibration", v), !.machine = m, !.buffers = FALSE] :
     v \in Settings, m \in MCMachines}

MCInvocations == Texts \cup CommandLines \cup Configured \cup Calibrations

\* These texts are texts of documents.
ASSUME TextsAreDocuments == ReadsDocuments

\* Of these machines, the trials are enough.
Halves == [k \in 0..CAL_TRIALS |-> 301 \div 2 ^ k]

ASSUME TrialsSuffice == EnoughTrials(Halves)
=============================================================================
