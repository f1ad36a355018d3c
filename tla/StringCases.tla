---------------------------- MODULE StringCases ----------------------------
(***************************************************************************)
(* Builds every short text, and every short pattern, byte by byte, and     *)
(* compares the routines of Strings with what they are meant to compute.   *)
(***************************************************************************)
EXTENDS Strings

CONSTANTS Alphabet,  \* the bytes a text is made of
          MaxText,
          MaxPattern

VARIABLES text,    \* a sequence of bytes
          pattern  \* a sequence of elements

vars == <<text, pattern>>

\* An element of a pattern: how it is written, and the bytes it matches.
Star == [written |-> <<42>>, star |-> TRUE, matches |-> {}]
One(bytes, set) == [written |-> bytes, star |-> FALSE, matches |-> set]
Elements ==
    {Star, One(<<63>>, 0 .. 255), One(<<97>>, {97}), One(<<BS, 42>>, {42}),
     One(<<91, 97, 99, 93>>, {97, 99}), One(<<91, 94, 97, 93>>, (0 .. 255) \ {97}),
     One(<<91, 99, 45, 98, 93>>, {98, 99})}

Init == text = <<>> /\ pattern = <<>>

ExtendText == /\ Len(text) < MaxText
              /\ \E b \in Alphabet : text' = Append(text, b)
              /\ UNCHANGED pattern

ExtendPattern == /\ Len(pattern) < MaxPattern
                 /\ \E e \in Elements : pattern' = Append(pattern, e)
                 /\ UNCHANGED text

Next == ExtendText \/ ExtendPattern

Spec == Init /\ [][Next]_vars

-----------------------------------------------------------------------------
\* What sdscatrepr writes is one argument of sdssplitargs, the text itself,
\* whatever bytes it has: a value CONFIG REWRITE quotes is the value the next
\* start reads ("sdscatrepr() is able to convert back", sds.c:925).
ReprRoundTrip == sdssplitargs(sdscatrepr(<<>>, text)) = [ok |-> TRUE, argv |-> <<text>>]

\* A line with two quoted arguments is read as these two arguments, whatever
\* bytes they have: sdssplitargs merges no two arguments and drops none, the
\* empty ones included.
SplitsEveryArgument ==
    \A i \in 0 .. Len(text) :
        LET a == SubSeq(text, 1, i)
            b == From(text, i + 1)
        IN sdssplitargs(sdscatrepr(<<>>, a) \o <<SP>> \o sdscatrepr(<<>>, b)).argv = <<a, b>>

\* string2ll accepts exactly the texts ll2string can write and gives back the
\* number, the two ends of the range included: no other spelling of a number,
\* and no number out of range, is taken for a number.
NumberRoundTrip ==
    LET written == {v \in - LLongMax - 1 .. LLongMax : ll2string(v, 32) = text}
    IN IF written = {} THEN ~ string2ll(text).ok
       ELSE string2ll(text) = [ok |-> TRUE, value |-> CHOOSE v \in written : TRUE]

\* What a list of elements matches.
RECURSIVE Matches(_, _)
Matches(elements, s) ==
    IF elements = <<>> THEN s = <<>>
    ELSE IF Head(elements).star
    THEN \E i \in 1 .. Len(s) + 1 : Matches(Tail(elements), From(s, i))
    ELSE s # <<>> /\ s[1] \in Head(elements).matches /\ Matches(Tail(elements), Tail(s))

\* stringmatchlen decides whether the elements of the pattern match the whole
\* text, for every mix of stars, single bytes, escapes, classes and ranges:
\* its shortcuts (leaving the loop at the end of the string, not trying the
\* empty suffix after a star) change no answer.
GlobAgrees ==
    text # <<>> =>
        (stringmatchlen(FlattenSeq([i \in 1 .. Len(pattern) |-> pattern[i].written]), text)
            <=> Matches(pattern, text))
=============================================================================
