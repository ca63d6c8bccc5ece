----------------------------- MODULE Preprocess -----------------------------
(***************************************************************************)
(* preprocess_json of config/mod.rs: the three passes that make standard   *)
(* JSON of a configuration with comments, trailing commas and repeated     *)
(* keys.                                                                   *)
(*                                                                         *)
(* The passes read characters; here each is a fold over them, and what the *)
(* code peeks at is a mode of its own.  A document is a sequence of tokens,*)
(* from which its text is made, and from which one can also say, without   *)
(* looking at characters, what the passes should leave of it.              *)
(***************************************************************************)
EXTENDS Integers, Sequences, FiniteSets, SequencesExt, Numerals

VARIABLES
  doc,    \* the document: a sequence of tokens [kind, text], with nested braces
  passes, \* the last pass that has been made
  text,   \* its characters, as the last pass left them
  pieces  \* what deduplicate_keys pushed: whole strings and single characters

textVars == <<doc, passes, text, pieces>>

TokenKinds == {"open", "close", "comma", "colon", "string", "scalar",
               "space", "line", "block"}

White == {" ", "\n"}
Closing == {"}", "]"}

Text(tokens) == FlattenSeq([i \in DOMAIN tokens |-> tokens[i].text])

\* The next state of a pass: its mode and the characters it pushes.
To(s, mode, pushed) == [s EXCEPT !.mode = mode, !.out = @ \o pushed]

\* Inside a string everything is kept; an escaped quote does not end it.
InString(s, ch) ==
  CASE s.mode = "escape"                  -> To(s, "string", <<ch>>)
    [] s.mode # "escape" /\ ch = "\\"     -> To(s, "escape", <<ch>>)
    [] s.mode # "escape" /\ ch = "\""     -> To(s, "code", <<ch>>)
    [] OTHER                              -> To(s, "string", <<ch>>)

----------------------------------------------------------------------------
(* strip_comments *)

OutsideComment(s, ch) ==
  CASE ch = "\"" -> To(s, "string", <<ch>>)
    [] ch = "/"  -> To(s, "slash", <<>>)
    [] OTHER     -> To(s, "code", <<ch>>)

\* A block comment leaves a space, a line comment its newline.
CommentStep(s, ch) ==
  CASE s.mode \in {"string", "escape"} -> InString(s, ch)
    [] s.mode = "code"  -> OutsideComment(s, ch)
    [] s.mode = "slash" -> IF ch = "*" THEN To(s, "block", <<>>)
                           ELSE IF ch = "/" THEN To(s, "line", <<>>)
                           ELSE OutsideComment(To(s, "code", <<"/">>), ch)
    [] s.mode = "block" -> To(s, IF ch = "*" THEN "star" ELSE "block", <<>>)
    [] s.mode = "star"  -> IF ch = "/" THEN To(s, "code", <<" ">>)
                           ELSE To(s, IF ch = "*" THEN "star" ELSE "block", <<>>)
    [] s.mode = "line"  -> IF ch = "\n" THEN To(s, "code", <<ch>>) ELSE s

strip_comments(input) ==
  LET end == FoldLeft(CommentStep, [mode |-> "code", out |-> <<>>], input)
  IN  end.out \o CASE end.mode = "slash"            -> <<"/">>
                   [] end.mode \in {"block", "star"} -> <<" ">>
                   [] OTHER                          -> <<>>

----------------------------------------------------------------------------
(* strip_trailing_commas *)

OutsideComma(s, ch) ==
  CASE ch = "\"" -> To(s, "string", <<ch>>)
    [] ch = ","  -> [s EXCEPT !.mode = "comma", !.held = <<>>]
    [] OTHER     -> To(s, "code", <<ch>>)

\* A comma is held back, with the white space after it, until it is known what
\* follows.
CommaStep(s, ch) ==
  CASE s.mode \in {"string", "escape"} -> InString(s, ch)
    [] s.mode = "code"  -> OutsideComma(s, ch)
    [] s.mode = "comma" ->
         IF ch \in White THEN [s EXCEPT !.held = Append(@, ch)]
         ELSE LET comma == IF ch \in Closing THEN <<>> ELSE <<",">>
              IN  OutsideComma(To(s, "code", comma \o s.held), ch)

strip_trailing_commas(input) ==
  LET end == FoldLeft(CommaStep, [mode |-> "code", out |-> <<>>, held |-> <<>>], input)
  IN  IF end.mode = "comma" THEN end.out \o <<",">> \o end.held ELSE end.out

----------------------------------------------------------------------------
(* deduplicate_keys *)

\* extract_json_string at every quote: the text as strings, each with its
\* quotes, and single characters between them.
PieceStep(s, ch) ==
  LET whole == Append(s.string, ch)
  IN  CASE s.mode = "code" /\ ch # "\"" -> [s EXCEPT !.out = Append(@, <<ch>>)]
        [] s.mode = "code" /\ ch = "\"" -> [s EXCEPT !.mode = "string", !.string = <<ch>>]
        [] s.mode = "string" /\ ch = "\"" ->
             [mode |-> "code", string |-> <<>>, out |-> Append(s.out, whole)]
        [] OTHER ->
             [s EXCEPT !.string = whole,
                !.mode = IF s.mode = "string" /\ ch = "\\" THEN "escape" ELSE "string"]

\* A string without an end goes on to the end of the text.
Pieces(input) ==
  LET end == FoldLeft(PieceStep, [mode |-> "code", string |-> <<>>, out |-> <<>>], input)
  IN  IF end.mode = "code" THEN end.out ELSE Append(end.out, end.string)

IsString(piece) == Head(piece) = "\""

\* skip_ascii_whitespace: the first piece after i that is not white space.
NextPiece(all, i) ==
  SelectInSubSeq(all, i + 1, Len(all), LAMBDA piece : Head(piece) \notin White)

IsKey(all, i) ==
  /\ IsString(all[i])
  /\ NextPiece(all, i) # 0 /\ all[NextPiece(all, i)] = <<":">>

Content(string) == SubSeq(string, 2, Len(string) - 1)
Quoted(content) == <<"\"">> \o content \o <<"\"">>

Digits == <<"0", "1", "2", "3", "4", "5", "6", "7", "8", "9">>

\* The suffix as it is formatted.
Decimal == Numeral(Digits)

\* Mutant: the suffixed key is not looked for among the seen ones.
find_unique_key_unchecked(seen, base) == base \o Decimal[1]

\* One suffix more than there are keys is enough to find one that is free.
find_unique_key(seen, base) ==
  LET free == {n \in 1..(Cardinality(seen) + 1) : base \o Decimal[n] \notin seen}
  IN  base \o Decimal[Min(free)]

\* Mutant: the end of an object does not end its set of keys.
CloseObjectKeeps(stack) == stack

\* A closing brace without an opening one pops nothing.
CloseObject(stack) == IF stack = <<>> THEN <<>> ELSE Front(stack)

\* The keys seen, one set for each brace that is open.
KeyStep(s, piece) ==
  LET seen    == Last(s.stack)
      content == Content(piece.text)
      name    == IF content \in seen THEN find_unique_key(seen, content) ELSE content
  IN  CASE piece.text = <<"{">> ->
             [stack |-> Append(s.stack, {}), out |-> Append(s.out, piece.text)]
        [] piece.text = <<"}">> ->
             [stack |-> CloseObject(s.stack), out |-> Append(s.out, piece.text)]
        [] piece.is_key /\ s.stack # <<>> ->
             [stack |-> [s.stack EXCEPT ![Len(s.stack)] = @ \cup {name}],
              out |-> Append(s.out, Quoted(name))]
        [] OTHER -> [s EXCEPT !.out = Append(@, piece.text)]

\* What is pushed to result.
deduplicate_keys(input) ==
  LET all == Pieces(input)
  IN  FoldLeft(KeyStep, [stack |-> <<>>, out |-> <<>>],
               [i \in DOMAIN all |-> [text |-> all[i], is_key |-> IsKey(all, i)]]).out

----------------------------------------------------------------------------
(* preprocess_json *)

PreprocessInit(document) ==
  /\ doc = document
  /\ passes = "none" /\ text = <<>> /\ pieces = <<>>

\* read_to_string
ReadText ==
  /\ passes = "none" /\ passes' = "raw"
  /\ text' = Text(doc)
  /\ UNCHANGED <<doc, pieces>>

StripComments ==
  /\ passes = "raw" /\ passes' = "uncommented"
  /\ text' = strip_comments(text)
  /\ UNCHANGED <<doc, pieces>>

\* Mutant: the commas are looked at before the comments are gone.
StripTrailingCommasFirst ==
  /\ passes = "uncommented" /\ passes' = "plain"
  /\ text' = strip_comments(strip_trailing_commas(Text(doc)))
  /\ UNCHANGED <<doc, pieces>>

StripTrailingCommas ==
  /\ passes = "uncommented" /\ passes' = "plain"
  /\ text' = strip_trailing_commas(text)
  /\ UNCHANGED <<doc, pieces>>

DeduplicateKeys ==
  /\ passes = "plain" /\ passes' = "done"
  /\ pieces' = deduplicate_keys(text)
  /\ text' = FlattenSeq(pieces')
  /\ UNCHANGED doc

preprocess_json == StripComments \/ StripTrailingCommas \/ DeduplicateKeys

----------------------------------------------------------------------------
(* Properties *)

\* The text of a string: its first quote that no backslash escapes is its end,
\* where a backslash that is escaped itself escapes nothing.
IsStringText(t) ==
  LET n == Len(t)
  IN  /\ n >= 2 /\ t[1] = "\"" /\ t[n] = "\""
      /\ \E escaped \in SUBSET (3..(n - 1)) :
           /\ \A k \in 3..n : k \in escaped <=> t[k - 1] = "\\" /\ k - 1 \notin escaped
           /\ \A k \in 2..(n - 1) : t[k] = "\"" => k \in escaped

\* A line comment has its newline; a block comment ends with the first star,
\* after the one that opens it, that a slash follows.
IsCommentText(kind, t) ==
  LET n == Len(t)
  IN  IF kind = "line"
      THEN /\ n >= 3 /\ t[1] = "/" /\ t[2] = "/" /\ t[n] = "\n"
           /\ \A k \in 3..(n - 1) : t[k] # "\n"
      ELSE /\ n >= 4 /\ t[1] = "/" /\ t[2] = "*" /\ t[n - 1] = "*" /\ t[n] = "/"
           /\ \A k \in 4..(n - 1) : ~(t[k - 1] = "*" /\ t[k] = "/")

\* What a document is made of.
IsToken(token) ==
  LET t == token.text
  IN  CASE token.kind = "open"   -> t \in {<<"{">>, <<"[">>}
        [] token.kind = "close"  -> t \in {<<"}">>, <<"]">>}
        [] token.kind = "comma"  -> t = <<",">>
        [] token.kind = "colon"  -> t = <<":">>
        [] token.kind = "space"  -> \A k \in DOMAIN t : t[k] \in White
        [] token.kind = "string" -> IsStringText(t)
        [] token.kind = "scalar" ->
             /\ t # <<>>
             /\ \A k \in DOMAIN t : t[k] \notin White \cup Closing \cup {"\"", "/", ","}
        [] token.kind \in {"line", "block"} -> IsCommentText(token.kind, t)

\* A comma is trailing if only comments and white space are between it and a
\* closing bracket.
Trailing(i) ==
  \E j \in (i + 1)..Len(doc) :
    /\ doc[j].kind = "close"
    /\ \A k \in (i + 1)..(j - 1) : doc[k].kind \in {"space", "line", "block"}

Plain ==
  FlattenSeq([i \in DOMAIN doc |->
    CASE doc[i].kind = "block" -> <<" ">>
      [] doc[i].kind = "line"  -> <<"\n">>
      [] doc[i].kind = "comma" /\ Trailing(i) -> <<>>
      [] OTHER -> doc[i].text])

\* Comments and trailing commas are gone, also those with a comment between
\* them and the bracket, and everything else is as it was, whatever strings
\* contain that looks like either and whatever comments contain that looks
\* like a string.
OnlyMarkupStripped == passes = "plain" => text = Plain

\* The brace that piece i is inside of, 0 at the outermost level.
Inside(i) ==
  LET open(j)  == Cardinality({k \in (j + 1)..(i - 1) : pieces[k] = <<"{">>})
      close(j) == Cardinality({k \in (j + 1)..(i - 1) : pieces[k] = <<"}">>})
      around   == {j \in 1..(i - 1) : pieces[j] = <<"{">> /\ open(j) = close(j)}
  IN  IF around = {} THEN 0 ELSE CHOOSE j \in around : \A k \in around : k <= j

\* "Each nesting level maintains its own set of seen keys": in the end no
\* object has a key twice, not even one that was written with a suffix that
\* another key has been given.
KeysDistinct ==
  passes = "done" =>
    \A i, j \in DOMAIN pieces :
      /\ i < j /\ IsKey(pieces, i) /\ IsKey(pieces, j)
      /\ Inside(i) # 0 /\ Inside(i) = Inside(j)
      => pieces[i] # pieces[j]

\* Renaming keeps the kind of an event, which parse_tasks takes from how its
\* key begins, and touches nothing but keys: a string value never changes, nor
\* does the first key of its name in its object.
Before == Pieces(Plain)

KeysKeepTheirKind ==
  passes = "done" =>
    /\ Len(pieces) = Len(Before)
    /\ \A i \in DOMAIN pieces :
         \/ pieces[i] = Before[i]
         \/ /\ IsKey(Before, i)
            /\ \E n \in 1..i : Content(pieces[i]) = Content(Before[i]) \o Decimal[n]
            /\ \E j \in 1..(i - 1) :
                 IsKey(pieces, j) /\ Inside(j) = Inside(i) /\ pieces[j] = Before[i]
=============================================================================
