--------------------------- MODULE ConfigFormats ---------------------------
(***************************************************************************)
(* The files of a role group: the adapters of pkg/config and the choice of *)
(* one by MultiFormatConfigGenerator.  Every adapter has two halves, one   *)
(* that writes a map of strings and one that reads it; the check is that   *)
(* they agree on every short map.                                          *)
(*                                                                         *)
(* Keys, values and files are sequences of characters.  The name of an     *)
(* entity, the prefix of an export and a tag are one character each.  YAML is *)
(* left to a library in both directions, and \uXXXX, which Marshal never   *)
(* writes, is left out.                                                    *)
(***************************************************************************)
EXTENDS Integers, Sequences, FiniteSets, SequencesExt, TLC

CONSTANTS
  Letters,          \* format |-> the characters of its keys and values
  MaxKeyLen, MaxValueLen,
  ConfigFiles,      \* the names files may have: sequences of parts
  ProductFormats    \* what a product registers: suffix |-> format

VARIABLES
  file,      \* the name of the file
  formats,   \* the registered formats: suffix |-> format
  entries    \* the configuration of the file: key |-> value

formatVars == <<file, formats, entries>>

BS == "\\"
NL == "\n"
CR == "\r"
TAB == "\t"
SP == " "

\* The order of bytes, which keys are sorted by.
ByteOrder ==
  <<TAB, NL, CR, SP, "!", "\"", "#", "$", "&", "'", ":", ";", "<", "=", ">", "[", BS, "tick", "a", "amp", "apos",
    "gt", "lt", "n", "quot", "z", "control">>

SortsBefore(s, t) ==
  LET rank(c) == CHOOSE i \in DOMAIN ByteOrder : ByteOrder[i] = c
  IN \/ IsPrefix(s, t)
     \/ \E i \in DOMAIN s \cap DOMAIN t :
          rank(s[i]) < rank(t[i]) /\ \A j \in 1..(i - 1) : s[j] = t[j]

\* Every character by what it is written as.
Written(s, escape) == FlattenSeq([i \in DOMAIN s |-> escape[s[i]]])

\* s without its longest prefix, and suffix, of characters in C.
TrimSpaces(s, C) ==
  LET keep == {i \in DOMAIN s : s[i] \notin C}
  IN IF keep = {} THEN << >>
     ELSE SubSeq(s, CHOOSE i \in keep : \A j \in keep : i <= j, CHOOSE i \in keep : \A j \in keep : j <= i)

\* The lines of a file; a scanner takes the CR off a line's end.
LinesOf(text) ==
  LET ends == {0} \cup {i \in DOMAIN text : text[i] = NL}
      starts == SetToSortSeq({e \in ends : e < Len(text)}, LAMBDA i, j : i < j)
      line(i) == SubSeq(text, starts[i] + 1,
                        IF i = Len(starts) THEN IF text[Len(text)] = NL THEN Len(text) - 1 ELSE Len(text)
                        ELSE starts[i + 1] - 1)
  IN [i \in DOMAIN starts |-> line(i)]

ScannedLines(text) ==
  LET lines == LinesOf(text)
  IN [i \in DOMAIN lines |->
        IF lines[i] # << >> /\ Last(lines[i]) = CR THEN Front(lines[i]) ELSE lines[i]]

FirstOf(s, C) ==
  LET hits == {i \in DOMAIN s : s[i] \in C}
  IN IF hits = {} THEN 0 ELSE CHOOSE i \in hits : \A j \in hits : i <= j

StartsWith(s, C) == s # << >> /\ s[1] \in C

WrittenFile(text) == [ok |-> TRUE, text |-> text]
WriteRefused == [ok |-> FALSE, text |-> << >>]
ReadFile(data) == [ok |-> TRUE, data |-> data]
ReadRefused == [ok |-> FALSE, data |-> << >>]

-----------------------------------------------------------------------------
(* PropertiesAdapter.                                                       *)

ControlEscape(c) ==
  CASE c = NL -> <<BS, "n">> [] c = CR -> <<BS, "r">> [] c = TAB -> <<BS, "t">> [] OTHER -> <<c>>

\* Mutant: separators of a key are left as they are.
KeyAsValue(s) == Written(s, [c \in ToSet(s) |-> IF c = BS THEN <<BS, BS>> ELSE ControlEscape(c)])

escapePropertiesKey(s) ==
  Written(s, [c \in ToSet(s) |-> IF c \in {BS, "=", ":", SP, "#", "!"} THEN <<BS, c>> ELSE ControlEscape(c)])

escapeEdgeSpaces(s) ==
  LET inner == {i \in DOMAIN s : s[i] # SP}
      edge(i) == s[i] = SP /\ ((\A j \in inner : i < j) \/ (\A j \in inner : j < i))
  IN FlattenSeq([i \in DOMAIN s |-> IF edge(i) THEN <<BS, SP>> ELSE <<s[i]>>])

escapePropertiesValue(s) ==
  escapeEdgeSpaces(Written(s, [c \in ToSet(s) |-> IF c = BS THEN <<BS, BS>> ELSE ControlEscape(c)]))

trailingBackslashes(s) == Cardinality({i \in DOMAIN s : \A j \in i..Len(s) : s[j] = BS})

EscapedAt(s, i) == trailingBackslashes(SubSeq(s, 1, i - 1)) % 2 = 1

trimLeft(s) ==
  LET keep == {i \in DOMAIN s : s[i] \notin {SP, TAB}}
  IN IF keep = {} THEN << >> ELSE SubSeq(s, CHOOSE i \in keep : \A j \in keep : i <= j, Len(s))

\* Layout is dropped, but for a last space that is escaped.
trimPropertiesSpace(s) ==
  LET t == trimLeft(s)
      ends == {0} \cup {i \in DOMAIN t : t[i] \notin {SP, TAB} \/ EscapedAt(t, i)}
  IN SubSeq(t, 1, CHOOSE e \in ends : \A f \in ends : f <= e)

propertiesSeparatorIndex(line) ==
  LET hits == {i \in DOMAIN line : /\ ~EscapedAt(line, i)
                                   /\ line[i] \in {"=", ":"} \/ (line[i] = SP /\ i > 1)}
  IN IF hits = {} THEN 0 ELSE CHOOSE i \in hits : \A j \in hits : i <= j

\* A backslash that escapes nothing known stays.
Unescaped(s, known) ==
  LET step(acc, c) ==
        CASE ~acc.escape /\ c = BS -> [acc EXCEPT !.escape = TRUE]
          [] ~acc.escape /\ c # BS -> [acc EXCEPT !.out = Append(@, c)]
          [] OTHER ->
               [escape |-> FALSE,
                out |-> acc.out \o (CASE c = "n" -> <<NL>> [] c = "r" -> <<CR>> [] c = "t" -> <<TAB>>
                                      [] c \in known -> <<c>> [] OTHER -> <<BS, c>>)]
      end == FoldLeft(step, [escape |-> FALSE, out |-> << >>], s)
  IN IF end.escape THEN Append(end.out, BS) ELSE end.out

unescapeProperties(s) == Unescaped(s, {BS, "=", ":", SP, "#", "!"})

parsePropertiesLine(raw, result) ==
  LET line == trimPropertiesSpace(raw)
      sep == propertiesSeparatorIndex(line)
      part(i, j) == unescapeProperties(trimPropertiesSpace(SubSeq(line, i, j)))
  IN IF line = << >> \/ StartsWith(line, {"#", "!"}) THEN result
     ELSE IF sep = 0 THEN (unescapeProperties(line) :> << >>) @@ result
     ELSE (part(1, sep - 1) :> part(sep + 1, Len(line))) @@ result

\* A line that ends in a backslash of its own goes on in the next.
UnmarshalProperties(text) ==
  LET step(acc, natural) ==
        LET line == acc.continued \o (IF acc.continuing THEN trimLeft(natural) ELSE natural)
        IN IF trailingBackslashes(natural) % 2 = 1
           THEN [acc EXCEPT !.continued = Front(line), !.continuing = TRUE]
           ELSE [continued |-> << >>, continuing |-> FALSE, result |-> parsePropertiesLine(line, acc.result)]
      end == FoldLeft(step, [continued |-> << >>, continuing |-> FALSE, result |-> << >>], ScannedLines(text))
  IN ReadFile(IF end.continuing THEN parsePropertiesLine(end.continued, end.result) ELSE end.result)

-----------------------------------------------------------------------------
(* EnvAdapter.                                                              *)

EnvName == {"a", "n", "z", "amp", "lt"}
Export == "export "
Quote == "\""

validateEnvKey(key) == key # << >> /\ \A i \in DOMAIN key : key[i] \in EnvName

escapeEnvValue(s) ==
  IF s # << >> /\ \A i \in DOMAIN s : s[i] \in EnvName \cup {"=", ":"} THEN s
  ELSE <<Quote>> \o Written(s, [c \in ToSet(s) |-> IF c \in {BS, Quote, "$", "tick"} THEN <<BS, c>> ELSE ControlEscape(c)])
         \o <<Quote>>

Blanks == {SP, TAB, NL, CR}

\* A value in single quotes is taken as it is.
parseEnvLine(raw, result) ==
  LET trimmed == TrimSpaces(raw, Blanks)
      line == IF StartsWith(trimmed, {Export}) THEN TrimSpaces(Tail(trimmed), Blanks) ELSE trimmed
      sep == FirstOf(line, {"="})
      value == TrimSpaces(SubSeq(line, sep + 1, Len(line)), Blanks)
      quoted(q) == Len(value) >= 2 /\ value[1] = q /\ Last(value) = q
      inner == SubSeq(value, 2, Len(value) - 1)
      known == {BS, Quote, "'", "$", "tick"}
  IN IF trimmed = << >> \/ StartsWith(trimmed, {"#"}) \/ sep = 0 THEN result
     ELSE (TrimSpaces(SubSeq(line, 1, sep - 1), Blanks) :>
             (IF quoted(Quote) THEN Unescaped(inner, known)
              ELSE IF quoted("'") THEN inner ELSE Unescaped(value, known))) @@ result

UnmarshalEnv(text) ==
  ReadFile(FoldLeft(LAMBDA result, line : parseEnvLine(line, result), << >>, LinesOf(text)))

-----------------------------------------------------------------------------
(* INIAdapter.                                                              *)

\* There is no way to escape: what cannot be written is refused.
validateINIEntry(key, value) ==
  /\ FirstOf(key \o value, {NL, CR}) = 0
  /\ FirstOf(key, {"=", ":"}) = 0
  /\ ~StartsWith(key, {"[", "#", ";"})

parseINILine(raw, result) ==
  LET line == TrimSpaces(raw, Blanks)
      sep == FirstOf(line, {"=", ":"})
      part(i, j) == TrimSpaces(SubSeq(line, i, j), Blanks)
  IN IF ~result.ok \/ line = << >> \/ StartsWith(line, {"#", ";"}) THEN result
     ELSE IF StartsWith(line, {"["}) THEN ReadRefused
     ELSE ReadFile((IF sep = 0 THEN line :> << >> ELSE part(1, sep - 1) :> part(sep + 1, Len(line))) @@ result.data)

UnmarshalINI(text) ==
  FoldLeft(LAMBDA result, line : parseINILine(line, result), ReadFile(<< >>), ScannedLines(text))

-----------------------------------------------------------------------------
(* XMLAdapter.                                                              *)

validateXMLText(text) == FirstOf(text, {"control"}) = 0

Entities == [amp |-> "&", lt |-> "<", gt |-> ">", quot |-> Quote, apos |-> "'", CR |-> CR]

escapeXML(s) ==
  Written(s, [c \in ToSet(s) |-> IF \E e \in DOMAIN Entities : Entities[e] = c
                        THEN <<"&", CHOOSE e \in DOMAIN Entities : Entities[e] = c, ";">> ELSE <<c>>])

\* The text of an element as a parser takes it: the references resolved and
\* line ends normalized; an opening bracket or a control character is no text.
CharData(s) ==
  LET refs == {i \in DOMAIN s : s[i] = "&"}
      isRef(i) == i + 2 <= Len(s) /\ s[i + 1] \in DOMAIN Entities /\ s[i + 2] = ";"
      char(i) == CASE i \in refs -> <<Entities[s[i + 1]]>>
                   [] \E r \in refs : i \in {r + 1, r + 2} -> << >>
                   [] s[i] = CR -> IF i < Len(s) /\ s[i + 1] = NL THEN << >> ELSE <<NL>>
                   [] OTHER -> <<s[i]>>
  IN IF (\A r \in refs : isRef(r)) /\ FirstOf(s, {"<", "control"}) = 0
     THEN ReadFile(FlattenSeq([i \in DOMAIN s |-> char(i)])) ELSE ReadRefused

\* Elements <property><name/><value/></property>, in tags of one character.
UnmarshalXML(text) ==
  LET at(tag) == SetToSortSeq({i \in DOMAIN text : text[i] = tag}, LAMBDA i, j : i < j)
      of(tag, i) == CharData(SubSeq(text, at("<" \o tag \o ">")[i] + 1, at("</" \o tag \o ">")[i] - 1))
      all == DOMAIN at("<name>")
  IN IF \A i \in all : of("name", i).ok /\ of("value", i).ok
     THEN ReadFile([k \in {of("name", i).data : i \in all} |->
                      of("value", CHOOSE i \in all : of("name", i).data = k).data])
     ELSE ReadRefused

-----------------------------------------------------------------------------
(* The generator.                                                           *)

\* The format of the longest registered suffix, else properties.
formatForFile(name) ==
  LET matching == {x \in DOMAIN formats : IsSuffix(x, name)}
  IN IF matching = {} THEN "properties"
     ELSE formats[CHOOSE x \in matching : \A y \in matching : Len(y) <= Len(x)]

EntryOf(format, key, value) ==
  CASE format = "properties" -> escapePropertiesKey(key) \o <<"=">> \o escapePropertiesValue(value) \o <<NL>>
    [] format = "env"        -> key \o <<"=">> \o escapeEnvValue(value) \o <<NL>>
    [] format = "export"     -> <<Export>> \o key \o <<"=">> \o escapeEnvValue(value) \o <<NL>>
    [] format = "ini"        -> key \o <<SP, "=", SP>> \o value \o <<NL>>
    [] format = "xml"        -> <<"<name>">> \o escapeXML(key) \o <<"</name>", NL, "<value>">>
                                  \o escapeXML(value) \o <<"</value>", NL>>

Representable(format, key, value) ==
  CASE format \in {"env", "export"} -> validateEnvKey(key)
    [] format = "ini" -> validateINIEntry(key, value)
    [] format = "xml" -> validateXMLText(key) /\ validateXMLText(value)
    [] OTHER          -> TRUE

\* Keys in order.
Marshal(format, data) ==
  IF \E k \in DOMAIN data : ~Representable(format, k, data[k]) THEN WriteRefused
  ELSE LET keys == SetToSortSeq(DOMAIN data, SortsBefore)
       IN WrittenFile(FlattenSeq([i \in DOMAIN keys |-> EntryOf(format, keys[i], data[keys[i]])]))

Unmarshal(format, text) ==
  CASE format = "properties" -> UnmarshalProperties(text)
    [] format \in {"env", "export"} -> UnmarshalEnv(text)
    [] format = "ini" -> UnmarshalINI(text)
    [] format = "xml" -> UnmarshalXML(text)

-----------------------------------------------------------------------------

Words(format, n) == UNION {[1..i -> Letters[format]] : i \in 0..n}

\* An entry the file may have already; it is written last.
Neighbour == <<"z">> :> <<"a">>

FormatsInit ==
  /\ file \in ConfigFiles
  /\ formats = << >>
  /\ entries \in {<< >>, Neighbour}

\* Formats are registered when the operator starts, before a file is written.
RegisterDefaultFormats ==
  /\ entries \in {<< >>, Neighbour}
  /\ formats' = (<<".xml">> :> "xml") @@ (<<".properties">> :> "properties")
                  @@ (<<".env">> :> "env") @@ (<<".ini">> :> "ini") @@ formats
  /\ UNCHANGED <<file, entries>>

RegisterFormat(suffix) ==
  /\ entries \in {<< >>, Neighbour}
  /\ formats' = (suffix :> ProductFormats[suffix]) @@ formats
  /\ UNCHANGED <<file, entries>>

SetEntry ==
  LET format == formatForFile(file)
  IN /\ entries \in {<< >>, Neighbour}
     /\ \E k \in Words(format, MaxKeyLen), v \in Words(format, MaxValueLen) : entries' = (k :> v) @@ entries
     /\ UNCHANGED <<file, formats>>

RemoveEntry ==
  /\ \E k \in DOMAIN entries : entries' = [l \in DOMAIN entries \ {k} |-> entries[l]]
  /\ UNCHANGED <<file, formats>>

FormatsNext ==
  \/ RegisterDefaultFormats \/ SetEntry \/ RemoveEntry
  \/ \E suffix \in DOMAIN ProductFormats : RegisterFormat(suffix)

-----------------------------------------------------------------------------
(* Properties.                                                              *)

Padded(s) == s # TrimSpaces(s, Blanks)

\* What is configured is what is read: a file that is written is read back as
\* the map it was written from, whatever separators, quotes, comment signs,
\* spaces and line ends the keys and values have, and whatever other entry
\* stands next to it; what a format cannot carry is refused.  Spaces around a
\* key or a value are not kept by INI, which its Marshal does not refuse
\* (Marshal and Unmarshal of the adapters).
ReadsBack ==
  LET format == formatForFile(file)
      written == Marshal(format, entries)
  IN /\ written.ok
     /\ format = "ini" => \A k \in DOMAIN entries : ~Padded(k) /\ ~Padded(entries[k])
     => Unmarshal(format, written.text) = ReadFile(entries)
=============================================================================
