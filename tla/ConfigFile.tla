----------------------------- MODULE ConfigFile -----------------------------
(***************************************************************************)
(* Reading a configuration file: the copy of liblcfg in the message bus    *)
(* (lcfg_parse and lcfg_accept) and the map it fills.                      *)
(*                                                                         *)
(* Three machines are nested.  The buffer is filled from the file, the     *)
(* scanner makes tokens of its characters one token ahead of the parser,   *)
(* and the parser, a push-down automaton, makes of the tokens pairs of a   *)
(* key and a value.  A step is a read, a turn of the loop of the scanner   *)
(* or one of the loop of the parser.                                       *)
(*                                                                         *)
(* A file is a sequence of symbols; a symbol is a character, or a word of  *)
(* characters that the scanner treats alike.  Lines and columns are left   *)
(* out: they are for messages only.  Any read may fail; one that does not  *)
(* returns less than was asked for only at the end of the file, as those   *)
(* of regular files do.                                                    *)
(***************************************************************************)
EXTENDS Integers, Sequences, SequencesExt

CONSTANTS
    Symbols,      \* the symbols files are made of
    Letters,      \* those that begin an identifier
    Digits,       \* those that continue one
    HexSymbol,    \* what strtoul makes of two symbols
    NUL,          \* the character '\0'
    Files,        \* the files that can be read
    BufferSize,   \* BUFFER_SIZE
    FirstStack,   \* the initial state_stack_size
    FirstValues   \* the initial value_capacity

Blanks == {" ", "\t", "\r", "\n"}
Punctuation == [s \in {"=", "[", "]", "{", "}", ","} |->
    CASE s = "=" -> "equals" [] s = "," -> "comma"
      [] s = "[" -> "sbracket_open" [] s = "]" -> "sbracket_close"
      [] s = "{" -> "brace_open" [] s = "}" -> "brace_close"]
Escapes == [s \in {"\"", "n", "t", "r", "0", "\\"} |->
    CASE s = "n" -> "\n" [] s = "t" -> "\t" [] s = "r" -> "\r" [] s = "0" -> NUL
      [] OTHER -> s]

ASSUME ConfigAssumption ==
    /\ Files \subseteq Seq(Symbols)
    /\ Letters \cup Digits \subseteq Symbols
    /\ (Letters \cup Digits) \cap (Blanks \cup DOMAIN Punctuation \cup {"\"", "/"}) = {}
    /\ {NUL, "\n", "\t", "\r", "\"", "\\"} \subseteq Symbols
    /\ NUL \notin Letters \cup Blanks \cup DOMAIN Punctuation \cup {"/", "\""}
    /\ HexSymbol \in [Symbols \X Symbols -> Symbols]
    /\ BufferSize \in Nat \ {0} /\ FirstStack \in Nat \ {0} /\ FirstValues \in Nat \ {0}

TokenTypes == {"null", "identifier", "equals", "string", "sbracket_open",
               "sbracket_close", "comma", "brace_open", "brace_close"}
Tokens == [type : TokenTypes, string : Seq(Symbols)]
NoToken == [type |-> "null", string |-> << >>]

\* A component of a key: an identifier, or the index of an element of a list.  The
\* code joins them with "." and writes indexes in decimal: as identifiers have no
\* "." and begin with a letter, no two keys look the same.
Components == [word : Seq(Symbols), index : Nat]
Word(w) == [word |-> w, index |-> 0]
Index(n) == [word |-> << >>, index |-> n]

ScannerStates == {"start", "comm_start", "in_oneline", "in_multiline", "multiline_end",
                  "in_identifier", "in_str", "in_esc", "esc_hex_exp_first",
                  "esc_hex_exp_second", "invalid"}
ParserStates == {"top_level", "exp_equals", "exp_value", "in_list", "in_map", "invalid"}
StateElements == [s : ParserStates, list_counter : Nat]

VARIABLES
    file,         \* the file
    fd,           \* how much of it was read
    buffer, offset, size, eof,   \* of the scanner; size is -1 when a read failed
    state,        \* the state of lcfg_scanner_token_read
    peeked,       \* its local c: the symbol that was last looked at
    hex,          \* the first digit of a hexadecimal escape
    token,        \* prepared_token
    t,            \* the token of the parser, NoToken before lcfg_scanner_next_token
    pc,           \* "read" in token_read, or "stale" in a turn of it that peeked nothing,
                  \* "loop" or "parse" in the parser, "visit", "done"; and "fault" when
                  \* the scanner looks behind the buffer
    stack,        \* state_stack, the last element is the top
    stackSize,    \* state_stack_size
    path,         \* current_path
    values, capacity,            \* of the parser
    status,       \* of lcfg_parse, "none" before it returns
    configMap,    \* the map of the loader
    taken,        \* how many symbols the scanner took (history variable)
    lost          \* the first read failed, or the one that found the end did and was
                  \* repeated (history variable)

buffering == <<file, fd, buffer, size, eof, lost>>
scanning == <<offset, state, peeked, hex, token, taken>>
parsing == <<t, stack, stackSize, path, values, capacity>>
vars == <<buffering, scanning, parsing, pc, status, configMap>>

-----------------------------------------------------------------------------
(* The buffer: lcfg_scanner_char_eof, before every symbol.                 *)

\* Mutant of MustFill: the buffer is filled with a symbol left.
EarlyMustFill == size = 0 \/ offset = BufferSize - 1

MustFill == size = 0 \/ offset = BufferSize
AtEnd == size < BufferSize /\ offset = size

\* Mutant of FillBuffer: a read of nothing is not taken for the end.
BlindFillBuffer ==
    /\ pc = "read" /\ ~ eof /\ MustFill
    /\ LET n == IF Len(file) - fd < BufferSize THEN Len(file) - fd ELSE BufferSize
       IN  /\ size' = n /\ fd' = fd + n
           /\ buffer' = [k \in DOMAIN buffer |-> IF k <= n THEN file[fd + k] ELSE buffer[k]]
           /\ offset' = IF n = 0 THEN offset ELSE 0
    /\ UNCHANGED <<file, eof, state, peeked, hex, token, taken, lost, parsing, pc, status, configMap>>

\* A read of nothing is the end; the buffer keeps what it does not overwrite.  After
\* a read that failed this is the read of lcfg_scanner_char_peek in the same turn:
\* when that finds the end, the turn goes on with the symbol it looked at before.
FillBuffer ==
    /\ pc = "read" /\ ~ eof /\ MustFill
    /\ LET n == IF Len(file) - fd < BufferSize THEN Len(file) - fd ELSE BufferSize
           late == n = 0 /\ size = -1
       IN  /\ size' = n /\ fd' = fd + n
           /\ buffer' = [k \in DOMAIN buffer |-> IF k <= n THEN file[fd + k] ELSE buffer[k]]
           /\ eof' = (n = 0)
           /\ offset' = IF n = 0 THEN offset ELSE 0
           /\ pc' = IF late THEN "stale" ELSE "read"
           /\ lost' = (lost \/ late)
    /\ UNCHANGED <<file, state, peeked, hex, token, taken, parsing, status, configMap>>

\* A read fails, which nobody notices: it is repeated in the same turn, except for
\* the first one; when it fails again the symbol behind the buffer is looked at.
ReadError ==
    /\ pc = "read" /\ ~ eof /\ MustFill
    /\ size' = -1
    /\ pc' = IF size = -1 THEN "fault" ELSE "read"
    /\ lost' = (lost \/ offset # BufferSize)
    /\ UNCHANGED <<file, fd, buffer, eof, scanning, parsing, status, configMap>>

SeeEnd ==
    /\ pc = "read" /\ ~ eof /\ ~ MustFill /\ AtEnd
    /\ eof' = TRUE
    /\ UNCHANGED <<file, fd, buffer, size, lost, scanning, parsing, pc, status, configMap>>

-----------------------------------------------------------------------------
(* The scanner: lcfg_scanner_token_read, a symbol at a time.               *)

HasSymbol == pc = "read" /\ ~ eof /\ ~ MustFill /\ ~ AtEnd
InTurn == HasSymbol \/ pc = "stale"
Peek == IF pc = "stale" THEN peeked ELSE buffer[offset + 1]

\* After a token the parser goes on: with the first token it enters its loop, with
\* the others it takes the token before.
Continue == IF t = NoToken THEN "loop" ELSE "parse"

\* A turn of the loop: the symbol is consumed unless it ends an identifier, or is
\* stale; a token ends the loop, and so does the state invalid, with an error.
Scan(to, type, string, consumed) ==
    /\ state' = to
    /\ token' = [type |-> type, string |-> string]
    /\ peeked' = Peek
    /\ offset' = IF pc = "stale" THEN offset ELSE offset + consumed
    /\ taken' = IF pc = "stale" \/ size = -1 THEN taken ELSE taken + consumed
    /\ pc' = IF to = "invalid" THEN "done" ELSE IF type = "null" THEN "read" ELSE Continue
    /\ status' = IF to = "invalid" THEN "error" ELSE status
    /\ UNCHANGED <<buffering, parsing, configMap>>

ScanStart ==
    /\ InTurn /\ state = "start"
    /\ \/ Peek \in Blanks /\ Scan("start", "null", token.string, 1)
       \/ Peek \in DOMAIN Punctuation /\ Scan("start", Punctuation[Peek], token.string, 1)
       \/ Peek = "/" /\ Scan("comm_start", "null", token.string, 1)
       \/ Peek = "\"" /\ Scan("in_str", "null", << >>, 1)
       \/ Peek \in Letters /\ Scan("in_identifier", "null", <<Peek>>, 1)
       \/ /\ Peek \notin Blanks \cup DOMAIN Punctuation \cup {"/", "\""} \cup Letters
          /\ Scan("invalid", "null", token.string, 1)
    /\ UNCHANGED hex

\* The state after a symbol of a comment.
NextComment ==
    CASE state = "comm_start" /\ Peek = "/"  -> "in_oneline"
      [] state = "comm_start" /\ Peek = "*"  -> "in_multiline"
      [] state = "comm_start" /\ Peek \notin {"/", "*"} -> "invalid"
      [] state = "in_oneline" /\ Peek = "\n" -> "start"
      [] state \in {"in_multiline", "multiline_end"} /\ Peek = "*" -> "multiline_end"
      [] state = "multiline_end" /\ Peek = "/" -> "start"
      [] state = "multiline_end" /\ Peek \notin {"/", "*"} -> "in_multiline"
      [] OTHER -> state

ScanComment ==
    /\ InTurn /\ state \in {"comm_start", "in_oneline", "in_multiline", "multiline_end"}
    /\ Scan(NextComment, "null", token.string, 1)
    /\ UNCHANGED hex

ScanIdentifier ==
    /\ InTurn /\ state = "in_identifier"
    /\ \/ /\ Peek \in Letters \cup Digits \cup {"-", "_"}
          /\ Scan("in_identifier", "null", Append(token.string, Peek), 1)
       \/ /\ Peek \notin Letters \cup Digits \cup {"-", "_"}
          /\ Scan("start", "identifier", token.string, 0)
    /\ UNCHANGED hex

ScanString ==
    /\ InTurn /\ state = "in_str"
    /\ \/ Peek = "\"" /\ Scan("start", "string", token.string, 1)
       \/ Peek = "\\" /\ Scan("in_esc", "null", token.string, 1)
       \/ Peek \notin {"\"", "\\"} /\ Scan("in_str", "null", Append(token.string, Peek), 1)
    /\ UNCHANGED hex

ScanEscape ==
    /\ InTurn /\ state = "in_esc"
    /\ \/ /\ Peek \in DOMAIN Escapes
          /\ Scan("in_str", "null", Append(token.string, Escapes[Peek]), 1)
       \/ Peek = "x" /\ Scan("esc_hex_exp_first", "null", token.string, 1)
       \/ Peek \notin DOMAIN Escapes \cup {"x"} /\ Scan("invalid", "null", token.string, 1)
    /\ UNCHANGED hex

\* The state invalid that a symbol other than a digit leads to is overwritten in
\* the same turn: any two symbols make an escape.
ScanHex ==
    \/ /\ InTurn /\ state = "esc_hex_exp_first"
       /\ hex' = Peek
       /\ Scan("esc_hex_exp_second", "null", token.string, 1)
    \/ /\ InTurn /\ state = "esc_hex_exp_second"
       /\ Scan("in_str", "null", Append(token.string, HexSymbol[<<hex, Peek>>]), 1)
       /\ UNCHANGED hex

\* At the end of the file there is no token; only the state start may end there.
ScanEnd ==
    /\ pc = "read" /\ eof
    /\ pc' = IF state = "start" THEN Continue ELSE "done"
    /\ status' = IF state = "start" THEN status ELSE "error"
    /\ UNCHANGED <<buffering, scanning, parsing, configMap>>

-----------------------------------------------------------------------------
(* The parser: lcfg_parser_parse.                                          *)

Top == Last(stack)
SetTop(s) == [stack EXCEPT ![Len(stack)].s = s]

\* Mutant of Push: the memory doubles one index too late.
LatePush(st, s) ==
    /\ stack' = Append(st, [s |-> s, list_counter |-> 0])
    /\ stackSize' = IF Len(stack) = stackSize + 1 THEN 2 * stackSize ELSE stackSize

\* STATE_STACK_PUSH on the stack st: the memory doubles when the next index is its size.
Push(st, s) ==
    /\ stack' = Append(st, [s |-> s, list_counter |-> 0])
    /\ stackSize' = IF Len(stack) = stackSize THEN 2 * stackSize ELSE stackSize

\* lcfg_parser_add_value.
AddValue(key, value) ==
    /\ values' = Append(values, [key |-> key, value |-> value])
    /\ capacity' = IF Len(values) = capacity THEN 2 * capacity ELSE capacity

\* The head of the loop: the next token is taken, and the one behind it scanned
\* before this one is looked at.
NextToken ==
    /\ pc = "loop" /\ token.type # "null" /\ Top.s # "invalid"
    /\ t' = token
    /\ token' = [token EXCEPT !.type = "null"]
    /\ state' = "start" /\ peeked' = NUL /\ pc' = "read"
    /\ UNCHANGED <<buffering, offset, hex, taken, stack, stackSize, path, values, capacity,
                   status, configMap>>

\* The loop ends: without a token, or in the state invalid.
ParseEnd ==
    /\ pc = "loop" /\ (token.type = "null" \/ Top.s = "invalid")
    /\ status' = IF Top.s = "top_level" /\ Len(stack) = 1 THEN "ok" ELSE "error"
    /\ pc' = IF Top.s = "top_level" /\ Len(stack) = 1 THEN "visit" ELSE "done"
    /\ UNCHANGED <<buffering, scanning, parsing, configMap>>

\* What every turn of the parser leaves alone.
Turn == /\ pc' = "loop"
        /\ UNCHANGED <<t, buffering, scanning, status, configMap>>

ParseKey ==
    /\ pc = "parse" /\ Top.s \in {"top_level", "in_map"} /\ t.type = "identifier"
    /\ path' = Append(path, Word(t.string))
    /\ Push(stack, "exp_equals")
    /\ UNCHANGED <<values, capacity>> /\ Turn

CloseMap ==
    /\ pc = "parse" /\ Top.s = "in_map" /\ t.type = "brace_close"
    /\ stack' = Front(stack) /\ path' = Front(path)
    /\ UNCHANGED <<stackSize, values, capacity>> /\ Turn

ParseEquals ==
    /\ pc = "parse" /\ Top.s = "exp_equals" /\ t.type = "equals"
    /\ stack' = SetTop("exp_value")
    /\ UNCHANGED <<path, stackSize, values, capacity>> /\ Turn

ParseString ==
    /\ pc = "parse" /\ Top.s = "exp_value" /\ t.type = "string"
    /\ AddValue(path, t.string)
    /\ stack' = Front(stack) /\ path' = Front(path)
    /\ UNCHANGED stackSize /\ Turn

OpenListOrMap ==
    /\ pc = "parse" /\ Top.s = "exp_value" /\ t.type \in {"sbracket_open", "brace_open"}
    /\ stack' = SetTop(IF t.type = "sbracket_open" THEN "in_list" ELSE "in_map")
    /\ UNCHANGED <<path, stackSize, values, capacity>> /\ Turn

SkipComma ==
    /\ pc = "parse" /\ Top.s = "in_list" /\ t.type = "comma"
    /\ UNCHANGED <<stack, stackSize, path, values, capacity>> /\ Turn

\* Elements of a list get the next index as the last component of their key.
Counted == [stack EXCEPT ![Len(stack)].list_counter = @ + 1]

ListString ==
    /\ pc = "parse" /\ Top.s = "in_list" /\ t.type = "string"
    /\ AddValue(Append(path, Index(Top.list_counter)), t.string)
    /\ stack' = Counted
    /\ UNCHANGED <<path, stackSize>> /\ Turn

\* Mutant of ListOpen: the index is not counted.
UncountedListOpen ==
    /\ pc = "parse" /\ Top.s = "in_list" /\ t.type \in {"sbracket_open", "brace_open"}
    /\ path' = Append(path, Index(Top.list_counter))
    /\ Push(stack, IF t.type = "sbracket_open" THEN "in_list" ELSE "in_map")
    /\ UNCHANGED <<values, capacity>> /\ Turn

ListOpen ==
    /\ pc = "parse" /\ Top.s = "in_list" /\ t.type \in {"sbracket_open", "brace_open"}
    /\ path' = Append(path, Index(Top.list_counter))
    /\ Push(Counted, IF t.type = "sbracket_open" THEN "in_list" ELSE "in_map")
    /\ UNCHANGED <<values, capacity>> /\ Turn

\* Mutant of CloseList: a list may be closed by a brace.
AnyCloseList ==
    /\ pc = "parse" /\ Top.s = "in_list" /\ t.type \in {"sbracket_close", "brace_close"}
    /\ stack' = Front(stack) /\ path' = Front(path)
    /\ UNCHANGED <<stackSize, values, capacity>> /\ Turn

CloseList ==
    /\ pc = "parse" /\ Top.s = "in_list" /\ t.type = "sbracket_close"
    /\ stack' = Front(stack) /\ path' = Front(path)
    /\ UNCHANGED <<stackSize, values, capacity>> /\ Turn

\* The tokens a state has a branch for.
Expected(s) ==
    CASE s = "top_level"  -> {"identifier"}
      [] s = "in_map"     -> {"identifier", "brace_close"}
      [] s = "exp_equals" -> {"equals"}
      [] s = "exp_value"  -> {"string", "sbracket_open", "brace_open"}
      [] s = "in_list"    -> {"comma", "string", "sbracket_open", "brace_open", "sbracket_close"}
      [] OTHER -> {}

RejectToken ==
    /\ pc = "parse" /\ t.type \notin Expected(Top.s)
    /\ stack' = SetTop("invalid")
    /\ UNCHANGED <<path, stackSize, values, capacity>> /\ Turn

-----------------------------------------------------------------------------
(* The loader's map, of C strings.                                         *)

\* A C string ends before its first NUL.
CString(s) == SubSeq(s, 1, Cardinality({n \in DOMAIN s : \A k \in 1 .. n : s[k] # NUL}))

\* lcfg_accept: the visitor adds every pair to the map, a copy up to the first NUL.
Visit ==
    /\ pc = "visit"
    /\ configMap' = [k \in DOMAIN values |->
                        [key |-> values[k].key, value |-> CString(values[k].value)]]
    /\ pc' = "done"
    /\ UNCHANGED <<buffering, scanning, parsing, status>>

\* What stands for a key that is not in the map.
NoValue == <<NUL>>

\* Mutant of Map_get: the search goes upwards.
FirstMap_get(map, key) ==
    IF \E k \in DOMAIN map : map[k].key = key
    THEN map[CHOOSE k \in DOMAIN map :
                /\ map[k].key = key
                /\ \A j \in 1 .. k - 1 : map[j].key # key].value
    ELSE NoValue

\* The search goes down from the last pair: later values hide earlier ones.
Map_get(map, key) ==
    IF \E k \in DOMAIN map : map[k].key = key
    THEN map[CHOOSE k \in DOMAIN map :
                /\ map[k].key = key
                /\ \A j \in k + 1 .. Len(map) : map[j].key # key].value
    ELSE NoValue

-----------------------------------------------------------------------------
Init ==
    /\ file \in Files
    /\ fd = 0
    /\ buffer = [k \in 1 .. BufferSize |-> NUL]
    /\ offset = 0 /\ size = 0 /\ eof = FALSE
    /\ state = "start" /\ peeked = NUL /\ hex = NUL
    /\ token = NoToken /\ t = NoToken
    /\ pc = "read"
    /\ stack = <<[s |-> "top_level", list_counter |-> 0]>>
    /\ stackSize = FirstStack
    /\ path = << >>
    /\ values = << >> /\ capacity = FirstValues
    /\ status = "none" /\ configMap = << >>
    /\ taken = 0 /\ lost = FALSE

ReadToken == FillBuffer \/ ReadError \/ SeeEnd \/ ScanStart \/ ScanComment \/ ScanIdentifier
                \/ ScanString \/ ScanEscape \/ ScanHex \/ ScanEnd
ParseToken == ParseKey \/ CloseMap \/ ParseEquals \/ ParseString \/ OpenListOrMap
                \/ SkipComma \/ ListString \/ ListOpen \/ CloseList \/ RejectToken

Next == ReadToken \/ NextToken \/ ParseToken \/ ParseEnd \/ Visit

Spec == Init /\ [][Next]_vars

\* The thread that loads the file runs.
FairSpec == Spec /\ WF_vars(Next)

-----------------------------------------------------------------------------
\* The types; the stack of states and the pairs stay within the memory allocated
\* for them, which doubles as they grow.
TypeOK ==
    /\ Len(stack) <= stackSize /\ Len(values) <= capacity
    /\ file \in Seq(Symbols)
    /\ fd \in 0 .. Len(file) /\ taken \in 0 .. Len(file)
    /\ buffer \in [1 .. BufferSize -> Symbols]
    /\ offset \in 0 .. BufferSize /\ size \in -1 .. BufferSize
    /\ eof \in BOOLEAN /\ lost \in BOOLEAN
    /\ state \in ScannerStates /\ peeked \in Symbols /\ hex \in Symbols
    /\ token \in Tokens /\ t \in Tokens
    /\ pc \in {"read", "stale", "loop", "parse", "visit", "done", "fault"}
    /\ stack \in Seq(StateElements) /\ stack # << >> /\ stackSize \in Nat
    /\ path \in Seq(Components)
    /\ values \in Seq([key : Seq(Components), value : Seq(Symbols)]) /\ capacity \in Nat
    /\ status \in {"none", "ok", "error"}
    /\ configMap \in Seq([key : Seq(Components), value : Seq(Symbols)])

\* Across all refills of the buffer, whichever of them fail once, the symbol the
\* scanner looks at lies inside what the last read returned, and is the next one of
\* the file: none is skipped, read twice, or left over from an earlier read; and the
\* end is seen behind the last.  Only after the very first read failed is it none of
\* the file, but one that begins no token.
ScansTheFile ==
    /\ HasSymbol => \/ /\ offset < size
                       /\ taken < Len(file)
                       /\ Peek = file[taken + 1]
                    \/ size = -1 /\ lost /\ taken = 0 /\ state = "start" /\ Peek = NUL
    /\ pc \in {"read", "stale"} /\ eof => taken = Len(file)

\* The path always belongs to the stack of states: an element above a list carries
\* the index that the list gave it last, every other one an identifier, so that no
\* nesting of lists and maps gives a value the key of another one.
PathMatchesStack ==
    stack # << >> /\ Top.s # "invalid" =>
        /\ Len(path) = Len(stack) - 1
        /\ stack[1].s = "top_level"
        /\ \A k \in 2 .. Len(stack) : stack[k].s \notin {"top_level", "invalid"}
        /\ \A k \in 1 .. Len(path) :
              /\ stack[k].s \notin {"exp_equals", "exp_value"}
              /\ stack[k].s = "in_list" =>
                    path[k] = Index(stack[k].list_counter - 1) /\ stack[k].list_counter > 0
              /\ stack[k].s # "in_list" => path[k].word # << >>

\* Reading ends, for every file and whichever reads fail, though not always well.
ReadingEnds == <>(pc \in {"done", "fault"})
=============================================================================
