---------------------------- MODULE ParseMetrics -----------------------------
(***************************************************************************)
(* parse_metrics and trim_whitespace on characters.  SelectionFifo takes a *)
(* text for the sequence of its names; this module is what that rests on.  *)
(***************************************************************************)
EXTENDS Naturals, Sequences, FiniteSets

CONSTANTS
  NameChars,  \* characters that are neither a comma nor white space
  MaxNames,    \* MAX_METRICS
  MaxText      \* bound on the length of the texts

Comma == ","
Space == " "

ASSUME CharactersAssumption == {Comma, Space} \cap NameChars = {}
ASSUME BoundsAssumption == MaxNames \in Nat \ {0} /\ MaxText \in Nat

VARIABLES
  input,    \* the text, as fread left it in the buffer
  rest,     \* what strtok has still to look at
  output    \* the names parsed so far

parseVars == << input, rest, output >>

BoundedTexts == UNION {[1 .. n -> NameChars \cup {Comma, Space}] : n \in 0 .. MaxText}

From(s, i) == SubSeq(s, i, Len(s))

ParseStart(text) == input = text /\ rest = text /\ output = << >>
ParseInit == \E text \in BoundedTexts : ParseStart(text)

\* The first position of s, from 1 to Len(s) + 1, with one of chars, or the end.
FirstAt(s, chars) ==
  CHOOSE i \in 1 .. Len(s) + 1 : /\ i = Len(s) + 1 \/ s[i] \in chars
                                 /\ \A j \in 1 .. i - 1 : s[j] \notin chars

NoComma == NameChars \cup {Space}
NoBlank == NameChars \cup {Comma}

\* A mutated form: only leading white space is removed.
trim_whitespace_Leading(s) == From(s, FirstAt(s, NoBlank))

\* Leading white space first, so that a token of white space becomes empty.
trim_whitespace(s) ==
  LET str == From(s, FirstAt(s, NoBlank))
      end == CHOOSE e \in 0 .. Len(str) : /\ e = 0 \/ str[e] # Space
                                          /\ \A j \in e + 1 .. Len(str) : str[j] = Space
  IN  SubSeq(str, 1, end)

\* strtok skips the commas before a token and eats the one after it.
start == FirstAt(rest, NoComma)
token == LET tail == From(rest, start) IN SubSeq(tail, 1, FirstAt(tail, {Comma}) - 1)

\* One turn of the loop of parse_metrics.
NextToken ==
  /\ token # << >> /\ Len(output) < MaxNames
  /\ output' = Append(output, trim_whitespace(token))
  /\ rest' = From(rest, start + Len(token) + 1)
  /\ UNCHANGED input

ParseNext == NextToken

ParseSafe == ParseInit /\ [][ParseNext]_parseVars

-----------------------------------------------------------------------------
(* Properties.                                                             *)

\* The fields of a text: the longest stretches without a comma, by the positions
\* <<first, last>> where they lie.
Fields == {f \in (1 .. Len(input)) \X (1 .. Len(input)) :
             /\ f[1] <= f[2]
             /\ \A i \in f[1] .. f[2] : input[i] # Comma
             /\ f[1] = 1 \/ input[f[1] - 1] = Comma
             /\ f[2] = Len(input) \/ input[f[2] + 1] = Comma}

FieldsBefore(f) == {g \in Fields : g[1] < f[1]}

\* The field without the white space around it; inside it stays.
IsTrimmed(f, name) ==
  \/ name = << >> /\ \A i \in f[1] .. f[2] : input[i] = Space
  \/ \E a, b \in f[1] .. f[2] :
       /\ a <= b /\ name = SubSeq(input, a, b)
       /\ input[a] # Space /\ input[b] # Space
       /\ \A i \in f[1] .. f[2] : i \in a .. b \/ input[i] = Space

\* Whatever the commas and the white space, the k-th name is the k-th field of
\* the text, trimmed, and none is left out before MAX_METRICS are found
\* (main.c:204-221): the abstraction that SelectionFifo makes.
NamesAreFields ==
  /\ \A k \in DOMAIN output :
       \E f \in Fields : Cardinality(FieldsBefore(f)) = k - 1 /\ IsTrimmed(f, output[k])
  /\ token = << >> \/ Len(output) = MaxNames =>
       Len(output) = IF Cardinality(Fields) < MaxNames THEN Cardinality(Fields) ELSE MaxNames
=============================================================================
