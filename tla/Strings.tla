------------------------------ MODULE Strings ------------------------------
(***************************************************************************)
(* The string routines the protocol, the configuration file and nodes.conf *)
(* rest on: splitting a line into arguments and quoting one (sds.c), the   *)
(* conversions between integers and decimals and glob matching (util.c).   *)
(*                                                                         *)
(* A string is a sequence of bytes, a byte is a number: the conversions    *)
(* are about what single bytes mean. Reading past the end gives the byte   *)
(* 0, the terminator every sds string and C string has.                    *)
(***************************************************************************)
EXTENDS Integers, Sequences, SequencesExt

CONSTANT LLongMax  \* the largest long long: 2^(w-1) - 1 for integers of width w

ULLongMax == 2 * LLongMax + 1

BELL == 7
BACKSPACE == 8
TAB == 9
LF == 10
CR == 13
SP == 32
DQ == 34
SQ == 39
BS == 92

IsSpace(b) == b \in 9 .. 13 \cup {SP}
IsPrint(b) == b \in 32 .. 126
IsDigit(b) == b \in 48 .. 57

\* The byte at position i, 0 (the terminator) past the end.
At(s, i) == IF i <= Len(s) THEN s[i] ELSE 0
From(s, i) == SubSeq(s, i, Len(s))

-----------------------------------------------------------------------------
(* Quoting and splitting (sds.c).                                          *)

is_hex_digit(b) == b \in 48 .. 57 \cup 97 .. 102 \cup 65 .. 70
hex_digit_to_int(b) == IF IsDigit(b) THEN b - 48 ELSE 10 + ((b - 65) % 32)
HexDigit(n) == IF n < 10 THEN 48 + n ELSE 87 + n

\* The letter after a backslash and the byte it stands for.
Escapes == {<<110, LF>>, <<114, CR>>, <<116, TAB>>, <<97, BELL>>, <<98, BACKSPACE>>}
Escaped(b) == {e[1] : e \in {x \in Escapes : x[2] = b}}
Unescaped(b) == IF \E e \in Escapes : e[1] = b
                THEN (CHOOSE e \in Escapes : e[1] = b)[2] ELSE b

ReprByte(b) ==
    CASE b \in {BS, DQ} -> <<BS, b>>
      [] Escaped(b) # {} -> <<BS, CHOOSE e \in Escaped(b) : TRUE>>
      [] OTHER -> IF IsPrint(b) THEN <<b>>
                  ELSE <<BS, 120, HexDigit(b \div 16), HexDigit(b % 16)>>

sdscatrepr(s, p) == s \o <<DQ>> \o FlattenSeq([i \in 1 .. Len(p) |-> ReprByte(p[i])]) \o <<DQ>>

IsHexEscape(line, p) ==
    At(line, p + 1) = 120 /\ is_hex_digit(At(line, p + 2)) /\ is_hex_digit(At(line, p + 3))

\* A closing quote must be followed by a space or by nothing.
CloseQuote(line, p, current) ==
    [ok |-> At(line, p + 1) = 0 \/ IsSpace(At(line, p + 1)), next |-> p + 1, token |-> current]

\* The token being read at p: quote is DQ, SQ or 0 outside quotes.
RECURSIVE Token(_, _, _, _)
Token(line, p, quote, current) ==
    LET b == At(line, p)
        Add(n, c) == Token(line, p + n, quote, Append(current, c))
    IN CASE quote = DQ /\ b = BS /\ IsHexEscape(line, p)
            -> Add(4, 16 * hex_digit_to_int(line[p + 2]) + hex_digit_to_int(line[p + 3]))
         [] quote = DQ /\ b = BS /\ ~ IsHexEscape(line, p) /\ At(line, p + 1) # 0
            -> Add(2, Unescaped(line[p + 1]))
         [] quote = SQ /\ b = BS /\ At(line, p + 1) = SQ -> Add(2, SQ)
         [] quote # 0 /\ b = quote -> CloseQuote(line, p, current)
         [] quote # 0 /\ b = 0 -> [ok |-> FALSE, next |-> p, token |-> current]
         [] quote = 0 /\ b \in {SP, LF, CR, TAB, 0} -> [ok |-> TRUE, next |-> p + 1, token |-> current]
         [] quote = 0 /\ b \in {DQ, SQ} -> Token(line, p + 1, b, current)
         [] OTHER -> Add(1, b)

\* The arguments of the line from p on; ok is FALSE for the NULL of the code.
RECURSIVE SplitFrom(_, _, _)
SplitFrom(line, p, argv) ==
    IF At(line, p) = 0 THEN [ok |-> TRUE, argv |-> argv]
    ELSE IF IsSpace(line[p]) THEN SplitFrom(line, p + 1, argv)
    ELSE LET t == Token(line, p, 0, <<>>)
         IN IF t.ok THEN SplitFrom(line, t.next, Append(argv, t.token))
            ELSE [ok |-> FALSE, argv |-> <<>>]

sdssplitargs(line) == SplitFrom(line, 1, <<>>)

-----------------------------------------------------------------------------
(* Integers and decimals (util.c).                                         *)

digits10(v) ==
    CASE v < 10 -> 1
      [] v \in 10 .. 99 -> 2
      [] v \in 100 .. 999 -> 3
      [] v \in 1000 .. 9999 -> 4
      [] OTHER -> IF v < 1000000 THEN IF v >= 100000 THEN 6 ELSE 5
                  ELSE IF v < 100000000 THEN IF v >= 10000000 THEN 8 ELSE 7
                  ELSE IF v >= 1000000000 THEN 10 ELSE 9

\* The loop writes two digits at a time from the right, then the last one or two.
RECURSIVE PairsOf(_)
PairsOf(v) ==
    IF v >= 100 THEN PairsOf(v \div 100) \o <<48 + ((v % 100) \div 10), 48 + (v % 10)>>
    ELSE IF v < 10 THEN <<48 + v>> ELSE <<48 + (v \div 10), 48 + (v % 10)>>

\* The empty string stands for the return value 0: no room in the buffer.
ll2string(svalue, dstlen) ==
    LET value == IF svalue < 0 THEN - svalue ELSE svalue
        sign == IF svalue < 0 THEN <<45>> ELSE <<>>
    IN IF digits10(value) + Len(sign) >= dstlen THEN <<>> ELSE sign \o PairsOf(value)

NotANumber == [ok |-> FALSE, value |-> 0]

\* Reads the digits from p on; v holds the ones already read, at the unsigned width.
RECURSIVE ReadDigits(_, _, _)
ReadDigits(s, p, v) ==
    LET d == s[p] - 48
    IN IF p > Len(s) THEN [ok |-> TRUE, value |-> v]
       ELSE IF ~ IsDigit(s[p]) \/ v > ULLongMax \div 10 \/ 10 * v > ULLongMax - d THEN NotANumber
       ELSE ReadDigits(s, p + 1, 10 * v + d)

\* Mutant: the range of the unsigned value is not checked against the signed one.
string2llUnsigned(s) ==
    LET negative == At(s, 1) = 45
        first == IF negative THEN 2 ELSE 1
        r == ReadDigits(s, first + 1, s[first] - 48)
    IN IF s = <<48>> THEN [ok |-> TRUE, value |-> 0]
       ELSE IF At(s, first) \notin 49 .. 57 THEN NotANumber
       ELSE IF ~ r.ok THEN NotANumber
       ELSE [ok |-> TRUE, value |-> IF negative THEN - r.value ELSE r.value]
string2ll(s) ==
    LET negative == At(s, 1) = 45
        first == IF negative THEN 2 ELSE 1
        r == ReadDigits(s, first + 1, s[first] - 48)
    IN IF s = <<48>> THEN [ok |-> TRUE, value |-> 0]
       ELSE IF At(s, first) \notin 49 .. 57 THEN NotANumber
       ELSE IF ~ r.ok \/ r.value > (IF negative THEN LLongMax + 1 ELSE LLongMax) THEN NotANumber
       ELSE [ok |-> TRUE, value |-> IF negative THEN - r.value ELSE r.value]

-----------------------------------------------------------------------------
(* Glob matching (util.c), case sensitive.                                 *)

\* The class "[...]" whose first byte is at p of the pattern, against byte c:
\* where the class ends (its bracket, or the last byte of an unterminated one).
RECURSIVE Class(_, _, _, _)
Class(pattern, p, c, match) ==
    CASE At(pattern, p) = BS -> Class(pattern, p + 2, c, match \/ At(pattern, p + 1) = c)
      [] At(pattern, p) = 93 -> [end |-> p, match |-> match]
      [] p > Len(pattern) -> [end |-> p - 1, match |-> match]
      [] p <= Len(pattern) /\ pattern[p] \notin {BS, 93} ->
         IF At(pattern, p + 1) = 45 /\ p + 2 <= Len(pattern)
         THEN LET a == pattern[p]  b == pattern[p + 2]
              IN Class(pattern, p + 3, c,
                       match \/ (IF a <= b THEN c \in a .. b ELSE c \in b .. a))
         ELSE Class(pattern, p + 1, c, match \/ pattern[p] = c)

\* How many leading stars the pattern has.
Stars(pattern) ==
    LET other == SelectInSeq(pattern, LAMBDA b : b # 42)
    IN IF other = 0 THEN Len(pattern) ELSE other - 1

\* The suffixes a star tries: the loop stops before the empty one.
StarSuffixes(string) == {From(string, i) : i \in 1 .. Len(string)}

\* The string is not empty: the callers match the names of directives.
RECURSIVE stringmatchlen(_, _)
stringmatchlen(pattern, string) ==
    LET c == At(string, 1)
        \* One byte matched, n bytes of the pattern used up; at the end of the
        \* string the stars that follow are skipped and the loop is left.
        Rest(n) == LET rest == From(pattern, n + 1)
                   IN IF Len(string) = 1 THEN Stars(rest) = Len(rest)
                      ELSE stringmatchlen(rest, From(string, 2))
    IN CASE pattern = <<>> -> string = <<>>
         [] At(pattern, 1) = 42 ->
            LET rest == From(pattern, Stars(pattern) + 1)
            IN rest = <<>> \/ \E s \in StarSuffixes(string) : stringmatchlen(rest, s)
         [] At(pattern, 1) = 63 -> string # <<>> /\ Rest(1)
         [] At(pattern, 1) = 91 ->
            LET not == At(pattern, 2) = 94
                class == Class(pattern, IF not THEN 3 ELSE 2, c, FALSE)
            IN class.match # not /\ Rest(class.end)
         [] At(pattern, 1) = BS /\ Len(pattern) >= 2 -> pattern[2] = c /\ Rest(2)
         [] OTHER -> At(pattern, 1) = c /\ Rest(1)
=============================================================================
