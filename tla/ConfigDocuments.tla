-------------------------- MODULE ConfigDocuments --------------------------
(***************************************************************************)
(* What a configuration file says, apart from how it is read.  A document  *)
(* is a sequence of statements, a key and a value each; a value is a       *)
(* string, a list of values, or a map, which is a document again.  A       *)
(* document can be written in several styles; it means one pair for each   *)
(* string in it.                                                           *)
(***************************************************************************)
EXTENDS ConfigFile

CONSTANTS
    Documents,   \* the documents
    Written      \* those of which there are files in all styles, and broken ones
ASSUME WrittenAssumption == Written \subseteq Documents

String(s) == [kind |-> "string", string |-> s]
List(items) == [kind |-> "list", items |-> items]
Map(items) == [kind |-> "map", items |-> items]
Statement(key, value) == [key |-> key, value |-> value]

-----------------------------------------------------------------------------
(* Writing: between all tokens there is the same gap.                      *)

\* The concatenation of a sequence of sequences, by halves: texts are long.
RECURSIVE Joined(_)
Joined(seqs) ==
    CASE seqs = << >> -> << >>
      [] Len(seqs) = 1 -> Head(seqs)
      [] Len(seqs) > 1 -> LET half == Len(seqs) \div 2
                          IN  Joined(SubSeq(seqs, 1, half)) \o Joined(SubSeq(seqs, half + 1, Len(seqs)))

Styles == {"compact", "spaced", "commented"}
Gap(style) == CASE style = "compact" -> << >>
                [] style = "spaced" -> <<" ", "\n">>
                [] style = "commented" -> <<"/", "*", "}", "*", "*", "/", "/", "/", "]", "\n">>

\* The beginnings of a gap that end outside a comment.
WholeGaps(style) == CASE style = "compact" -> {<< >>}
                      [] style = "spaced" -> {<< >>, <<" ">>, Gap(style)}
                      [] style = "commented" -> {<< >>, SubSeq(Gap(style), 1, 6), Gap(style)}

Escaped(s, style) ==
    IF s = NUL /\ style = "spaced" THEN <<"\\", "x", "0", "0">>
    ELSE IF \E c \in DOMAIN Escapes : Escapes[c] = s
         THEN <<"\\", CHOOSE c \in DOMAIN Escapes : Escapes[c] = s>>
         ELSE <<s>>

Quoted(string, style) ==
    <<"\"">> \o Joined([k \in DOMAIN string |-> Escaped(string[k], style)]) \o <<"\"">>

RECURSIVE ValueTokens(_, _)
StatementTokens(st, style) == <<st.key, <<"=">>>> \o ValueTokens(st.value, style)
ValueTokens(v, style) ==
    CASE v.kind = "string" -> <<Quoted(v.string, style)>>
      [] v.kind = "list" ->
            <<<<"[">>>> \o Joined([k \in DOMAIN v.items |->
                                         ValueTokens(v.items[k], style) \o <<<<",">>>>])
                        \o <<<<"]">>>>
      [] v.kind = "map" ->
            <<<<"{">>>> \o Joined([k \in DOMAIN v.items |-> StatementTokens(v.items[k], style)])
                        \o <<<<"}">>>>

DocumentTokens(d, style) == Joined([k \in DOMAIN d |-> StatementTokens(d[k], style)])
Printed(tokens, style) == Joined([k \in DOMAIN tokens |-> Gap(style) \o tokens[k]])
Text(d, style) == Printed(DocumentTokens(d, style), style)

\* Texts that were cut off, and texts in which a bracket is of the wrong kind, a
\* bracket or a "=" is missing, or the last token is a symbol or has an escape that
\* there is not.
Truncated(d, style) == {SubSeq(Text(d, style), 1, n) : n \in 0 .. Len(Text(d, style)) - 1}
Wrong == [b \in {<<"[">>, <<"]">>, <<"{">>, <<"}">>} |->
    CASE b = <<"[">> -> <<"{">> [] b = <<"]">> -> <<"}">>
      [] b = <<"{">> -> <<"[">> [] b = <<"}">> -> <<"]">>]
Stray == {<<"#">>, <<"\"", "\\", "#", "\"">>}
Broken(d, style) ==
    LET tokens == DocumentTokens(d, style)
    IN  {Printed([tokens EXCEPT ![k] = Wrong[@]], style) : k \in {n \in DOMAIN tokens : tokens[n] \in DOMAIN Wrong}}
        \cup {Printed(RemoveAt(tokens, k), style) :
                k \in {n \in DOMAIN tokens : tokens[n] \in DOMAIN Wrong \cup {<<"=">>}}}
        \cup {Printed(Append(Front(tokens), stray), style) : stray \in Stray}

StylesOf(d) == IF d \in Written THEN Styles ELSE {"compact"}

AllFiles == UNION {{Text(d, style) : style \in StylesOf(d)} : d \in Documents}
            \cup UNION {Truncated(d, style) \cup Broken(d, style) : d \in Written, style \in Styles}

-----------------------------------------------------------------------------
(* Meaning: the pairs of a document, in the order of its strings.          *)

RECURSIVE Pairs(_, _)
Pairs(key, v) ==
    CASE v.kind = "string" -> <<[key |-> key, value |-> v.string]>>
      [] v.kind = "list" ->
            Joined([k \in DOMAIN v.items |-> Pairs(Append(key, Index(k - 1)), v.items[k])])
      [] v.kind = "map" ->
            Joined([k \in DOMAIN v.items |->
                          Pairs(Append(key, Word(v.items[k].key)), v.items[k].value)])
Meaning(d) == Pairs(<< >>, Map(d))

\* The texts of the documents, with what they mean.
WholeDocuments == UNION {{<<Text(d, style), Meaning(d)>> : style \in StylesOf(d)} : d \in Documents}

\* The files that end behind a whole statement, with what they mean.
WholeStatements ==
    UNION {{<<Text(SubSeq(d, 1, n), style) \o end, Meaning(SubSeq(d, 1, n))>> :
                n \in 0 .. Len(d), end \in WholeGaps(style)} : d \in Written, style \in Styles}

\* Every document, in every style, is accepted, and its pairs are what it means:
\* quoting, escapes, comments, nesting, where the buffer ends and reads that fail once
\* make no difference.  When the first read failed, or the one that finds the end, a
\* document may be rejected, but none is taken for another.  A file that was cut off
\* or has a wrong bracket is accepted only if it ends behind a whole statement, and
\* then it gives the pairs of the statements it has; not so when the read that found
\* the end had failed, as the last symbol of the file may then be taken twice.
ReadsDocuments ==
    pc = "done" =>
        /\ \A d \in WholeDocuments : file = d[1] =>
              \/ status = "ok" /\ values = d[2]
              \/ status = "error" /\ lost
        /\ status = "ok" /\ ~ lost => <<file, values>> \in WholeDocuments \cup WholeStatements
=============================================================================
