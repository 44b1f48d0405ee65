---------------------------- MODULE ReaderFilter ----------------------------
(***************************************************************************)
(* The filter of a stream reader: the text of its property dnp3filter is   *)
(* parsed once, when the reader is created, and applied to every APDU the  *)
(* bus gives to the reader.  A step is a turn of the loop over a key or a  *)
(* value, or what follows the end of that loop.                            *)
(*                                                                         *)
(* A text is a sequence of symbols: the words of the manual's grammar, the *)
(* punctuation "=" and ";", and the blanks " ", "\n" and "\t".  A word      *)
(* stands for its characters; no two words are adjacent.                   *)
(***************************************************************************)
EXTENDS Integers, FiniteSets, SequencesExt

CONSTANTS
    Decimal,       \* the manual's NUM: what its words, of digits only, stand for
    Number,        \* what strtol in base 0, cut to an int, makes of those words and of -1
    Filters        \* the filters users write, each with its entries and its text

-----------------------------------------------------------------------------
(* What the manual says of a filter (USERS_MANUAL.md:404-440).             *)

Space == " "
Blanks == {Space, "\n", "\t"}
Semicolon == ";"
ANY == "-1"

ASSUME NumberAssumption ==
    /\ \A w \in DOMAIN Decimal : Decimal[w] \in Nat
    /\ DOMAIN Number = DOMAIN Decimal \cup {ANY}
    /\ \A w \in DOMAIN Number : Number[w] \in Int /\ w \in STRING \ (Blanks \cup {"=", Semicolon})
    /\ Number[ANY] = -1

Entries == {e \in [key : {"src", "dest", "type"}, value : STRING] :
               e.value \in {ANY} \cup IF e.key = "type" THEN {"request", "response", "unsol-response"}
                                     ELSE DOMAIN Decimal}

\* The symbol of number m in entries without blanks.
Written(entries, m) ==
    LET e == entries[(m + 3) \div 4]
    IN  CASE m % 4 = 1 -> e.key
          [] m % 4 = 2 -> "="
          [] m % 4 = 3 -> e.value
          [] m % 4 = 0 -> Semicolon

\* How many symbols up to position p are not blanks.
Ink(text, p) == Cardinality({q \in 1 .. Len(text) : q <= p /\ text[q] \notin Blanks})

\* A text spells entries: with blanks anywhere between the symbols, and with or
\* without a ";" at the end.
Spells(text, entries) ==
    /\ Ink(text, Len(text)) \in {4 * Len(entries) - 1, 4 * Len(entries)}
    /\ \A p \in DOMAIN text :
          text[p] \notin Blanks => text[p] = Written(entries, Ink(text, p))

ASSUME FiltersAssumption ==
    \A f \in Filters : /\ f.entries \in Seq(Entries)
                       /\ f.text \in Seq(STRING) /\ Spells(f.text, f.entries)

\* A filter that keeps to what the parser knows: its blanks are spaces, it has each
\* key once at most, strtol reads its numbers as decimal, and its type is parsed.
Plain(f) ==
    /\ \A p \in DOMAIN f.text : f.text[p] \in Blanks => f.text[p] = Space
    /\ \A j, k \in DOMAIN f.entries : f.entries[j].key = f.entries[k].key => j = k
    /\ \A k \in DOMAIN f.entries :
          LET value == f.entries[k].value
          IN  /\ value \in DOMAIN Decimal => Number[value] = Decimal[value]
              /\ value # "unsol-response"

\* An APDU is selected by an entry.
Selected(e, apdu) ==
    \/ e.value = ANY
    \/ e.key = "src" /\ apdu.src = Decimal[e.value]
    \/ e.key = "dest" /\ apdu.dest = Decimal[e.value]
    \/ e.key = "type" /\ <<e.value, apdu.type>> \in {<<"request", "REQUEST">>,
                             <<"response", "RESPONSE">>, <<"unsol-response", "UNSOL_RESPONSE">>}

-----------------------------------------------------------------------------
VARIABLES
    parsing,       \* "none" before, the loop of "key" or "value", then "done"
    filterStr,     \* reader->filterStr
    cursor,        \* how many symbols parseFilter has moved over
    keyBuff,       \* what parseKey and parseValue have copied
    valueBuff,
    filter         \* reader->filter

parser == <<parsing, filterStr, cursor, keyBuff, valueBuff, filter>>

\* The value that stands for no filter, on an address or a type.
AnyValue == -1
NoFilter == [src |-> AnyValue, dest |-> AnyValue, type |-> "ANY"]

AtEnd == cursor >= Len(filterStr)
Symbol == filterStr[cursor + 1]

ParseStart(text) ==
    /\ parsing = "none"
    /\ parsing' = "key"
    /\ filterStr' = text
    /\ cursor' = 0 /\ keyBuff' = << >> /\ valueBuff' = << >>
    /\ filter' = NoFilter

\* Spaces are skipped; other blanks are kept.
Copied(buff) == IF Symbol = Space THEN buff ELSE Append(buff, Symbol)

KeySymbol ==
    /\ parsing = "key" /\ ~ AtEnd /\ Symbol # "="
    /\ keyBuff' = Copied(keyBuff)
    /\ cursor' = cursor + 1
    /\ UNCHANGED <<parsing, filterStr, valueBuff, filter>>

\* The cursor moves over the "=" behind the key.
KeyEnd ==
    /\ parsing = "key" /\ (~ AtEnd => Symbol = "=") /\ keyBuff # << >>
    /\ parsing' = "value"
    /\ cursor' = cursor + 1
    /\ UNCHANGED <<filterStr, keyBuff, valueBuff, filter>>

\* The parser ends at the first key that is empty.  Its locals are gone, and the
\* text, which nothing reads again, is left out from here on.
ParseEnd ==
    /\ parsing = "key" /\ (~ AtEnd => Symbol = "=") /\ keyBuff = << >>
    /\ parsing' = "done"
    /\ filterStr' = << >> /\ cursor' = 0
    /\ UNCHANGED <<keyBuff, valueBuff, filter>>

ValueSymbol ==
    /\ parsing = "value" /\ ~ AtEnd /\ Symbol # Semicolon
    /\ valueBuff' = Copied(valueBuff)
    /\ cursor' = cursor + 1
    /\ UNCHANGED <<parsing, filterStr, keyBuff, filter>>

\* strtol skips blanks, and makes 0 of what is no number.
Strtol(value) ==
    LET visible == {k \in DOMAIN value : value[k] \notin Blanks}
    IN  IF visible # {} /\ value[Min(visible)] \in DOMAIN Number
        THEN Number[value[Min(visible)]] ELSE 0

\* Keys and values that are not known are ignored.
Entered ==
    CASE keyBuff = <<"src">>  -> [filter EXCEPT !.src = Strtol(valueBuff)]
      [] keyBuff = <<"dest">> -> [filter EXCEPT !.dest = Strtol(valueBuff)]
      [] keyBuff = <<"type">> /\ valueBuff = <<"request">>  -> [filter EXCEPT !.type = "REQUEST"]
      [] keyBuff = <<"type">> /\ valueBuff = <<"response">> -> [filter EXCEPT !.type = "RESPONSE"]
      [] OTHER -> filter

\* Mutant of ValueEnd: the cursor is not moved over the ";" behind a value.
StayValueEnd ==
    /\ parsing = "value" /\ (~ AtEnd => Symbol = Semicolon)
    /\ filter' = IF valueBuff # << >> THEN Entered ELSE filter
    /\ parsing' = "key"
    /\ keyBuff' = << >> /\ valueBuff' = << >>
    /\ UNCHANGED <<filterStr, cursor>>

\* The cursor moves over the ";" behind a value that is not empty: behind an empty
\* one, the ";" begins the next key.
ValueEnd ==
    /\ parsing = "value" /\ (~ AtEnd => Symbol = Semicolon)
    /\ IF valueBuff # << >>
       THEN cursor' = cursor + 1 /\ filter' = Entered
       ELSE UNCHANGED <<cursor, filter>>
    /\ parsing' = "key"
    /\ keyBuff' = << >> /\ valueBuff' = << >>
    /\ UNCHANGED filterStr

ParseInit ==
    /\ parsing = "none" /\ filterStr = << >> /\ cursor = 0
    /\ keyBuff = << >> /\ valueBuff = << >> /\ filter = NoFilter

ParseStep == KeySymbol \/ KeyEnd \/ ValueSymbol \/ ValueEnd \/ ParseEnd

FilterTypeOK ==
    /\ parsing \in {"none", "key", "value", "done"}
    /\ filterStr \in Seq(STRING) /\ cursor \in Nat
    /\ keyBuff \in Seq(STRING) /\ valueBuff \in Seq(STRING)
    /\ filter \in [src : Int, dest : Int, type : {"REQUEST", "RESPONSE", "ANY"}]

-----------------------------------------------------------------------------
\* DNP3Reader_filter.
Passes(apdu) ==
    /\ filter.src # AnyValue => apdu.src = filter.src
    /\ filter.dest # AnyValue => apdu.dest = filter.dest
    /\ filter.type # "ANY" => apdu.type = filter.type
=============================================================================
