---------------------------- MODULE StringUtils ----------------------------
(***************************************************************************)
(* The functions of katla::string, and the matching of URLs that the web   *)
(* server builds on them, as operators on sequences of characters.  The    *)
(* inputs text and pattern grow a character at a time, so that every pair  *)
(* of short strings is a state.                                            *)
(***************************************************************************)
EXTENDS Naturals, Sequences

CONSTANTS
    Alphabet,   \* the characters of the inputs
    MaxText,    \* bound: the length of text
    MaxPattern, \* bound: the length of pattern
    Unit,       \* 1024 in the code
    Colon,      \* ":", which begins a variable in a URL
    Slash       \* "/"

ASSUME StringAssumption ==
    /\ {MaxText, MaxPattern} \subseteq Nat
    /\ Unit \in Nat \ {0, 1}
    /\ {Colon, Slash} \subseteq Alphabet

VARIABLES text, pattern

stringVars == <<text, pattern>>

StringInit == text = <<>> /\ pattern = <<>>

StringNext ==
    \E c \in Alphabet :
        \/ Len(text) < MaxText /\ text' = Append(text, c) /\ UNCHANGED pattern
        \/ Len(pattern) < MaxPattern /\ pattern' = Append(pattern, c) /\ UNCHANGED text

-----------------------------------------------------------------------------
IsSpace(c) == c \in {" ", "\t"}

(* std::string::compare(pos, sub.length(), sub) == 0, positions from 1 *)
OccursAt(str, sub, pos) == SubSeq(str, pos, pos + Len(sub) - 1) = sub

(* std::string::find(sub, pos); 0 is npos. *)
FindFrom(str, sub, pos) ==
    LET found == {i \in pos .. (Len(str) - Len(sub) + 1) : OccursAt(str, sub, i)}
    IN  IF found = {} THEN 0 ELSE CHOOSE i \in found : \A j \in found : i <= j

StartsWith(str, start) == Len(start) <= Len(str) /\ OccursAt(str, start, 1)

EndsWith(str, end) == Len(end) <= Len(str) /\ OccursAt(str, end, Len(str) - Len(end) + 1)

ContainsString(str, sub) == FindFrom(str, sub, 1) # 0

(* src.rfind(prefix, 0) finds a prefix only. *)
TrimPrefix(src, prefix) ==
    IF StartsWith(src, prefix) THEN SubSeq(src, Len(prefix) + 1, Len(src)) ELSE src

TrimSuffix(src, suffix) ==
    IF suffix # <<>> /\ EndsWith(src, suffix)
    THEN SubSeq(src, 1, Len(src) - Len(suffix)) ELSE src

(* What is before the first character that is no space, and after the last *)
(* of what is left, is erased.                                             *)
TrimWhitespace(str) ==
    LET inner == {i \in 1 .. Len(str) : ~IsSpace(str[i])}
    IN  IF inner = {} THEN <<>>
        ELSE SubSeq(str, CHOOSE i \in inner : \A j \in inner : i <= j,
                         CHOOSE i \in inner : \A j \in inner : i >= j)

UpperOf(c) == IF c = "a" THEN "A" ELSE c
LowerOf(c) == IF c = "A" THEN "a" ELSE c
ToUpper(str) == [i \in 1 .. Len(str) |-> UpperOf(str[i])]
ToLower(str) == [i \in 1 .. Len(str) |-> LowerOf(str[i])]

(* Mutant of SplitString: the search goes on one character further. *)
SplitString_One(input, delimiter) ==
    LET parts[pos \in 1 .. Len(input) + 2] ==
            LET newPos == FindFrom(input, delimiter, pos)
            IN  IF newPos = 0 THEN <<SubSeq(input, pos, Len(input))>>
                ELSE <<SubSeq(input, pos, newPos - 1)>> \o parts[newPos + 1]
    IN  parts[1]

(* split(); with an empty delimiter the code does not end. *)
SplitString(input, delimiter) ==
    LET parts[pos \in 1 .. Len(input) + 1] ==
            LET newPos == FindFrom(input, delimiter, pos)
            IN  IF newPos = 0 THEN <<SubSeq(input, pos, Len(input))>>
                ELSE <<SubSeq(input, pos, newPos - 1)>> \o parts[newPos + Len(delimiter)]
    IN  parts[1]

(* 1, Unit, Unit * Unit and so on *)
Power == LET power[i \in 0 .. 5] == IF i = 0 THEN 1 ELSE Unit * power[i - 1] IN power

(* The index of the suffix that humanFileSize() gives to a size: the loop  *)
(* divides while the quotient is more than a unit and a suffix is left.    *)
SuffixIndex(fileSize) ==
    LET loop[i \in 0 .. 4] ==
            IF i < 4 /\ fileSize > Power[i + 1] THEN loop[i + 1] ELSE i
    IN  loop[0]

(* A segment that is a variable is not compared, nor is one for which the  *)
(* request has none.                                                       *)
MatchInclusiveUrl(request, subscribed) ==
    LET requested == SplitString(request, <<Slash>>)
        segments == SplitString(subscribed, <<Slash>>)
    IN  \A i \in 1 .. Len(segments) :
            \/ StartsWith(segments[i], <<Colon>>)
            \/ i > Len(requested)
            \/ segments[i] = requested[i]

-----------------------------------------------------------------------------
(* The parts put together again, with the delimiter between them. *)
Joined(parts, delimiter) ==
    LET join[i \in 1 .. Len(parts)] ==
            IF i = 1 THEN parts[1] ELSE join[i - 1] \o delimiter \o parts[i]
    IN  join[Len(parts)]

(* split() loses nothing: its parts joined are the input; and it leaves    *)
(* nothing undivided: no part contains the delimiter, also where the input *)
(* begins or ends with it or occurrences overlap.                          *)
SplitExact ==
    pattern # <<>> =>
        LET parts == SplitString(text, pattern)
        IN  /\ Joined(parts, pattern) = text
            /\ \A i \in 1 .. Len(parts) : ~ContainsString(parts[i], pattern)

(* Each trim returns the input without exactly what it is asked to remove: *)
(* one prefix, one suffix, all the spaces at both ends and none inside.    *)
TrimsExact ==
    /\ text = IF StartsWith(text, pattern) THEN pattern \o TrimPrefix(text, pattern)
                                           ELSE TrimPrefix(text, pattern)
    /\ text = IF EndsWith(text, pattern) THEN TrimSuffix(text, pattern) \o pattern
                                         ELSE TrimSuffix(text, pattern)
    /\ \E i \in 0 .. Len(text), j \in 1 .. Len(text) + 1 :
          LET r == TrimWhitespace(text)
          IN  /\ i < j
              /\ text = SubSeq(text, 1, i) \o r \o SubSeq(text, j, Len(text))
              /\ \A k \in (1 .. i) \cup (j .. Len(text)) : IsSpace(text[k])
              /\ r # <<>> => ~IsSpace(r[1]) /\ ~IsSpace(r[Len(r)])
    /\ ContainsString(text, pattern) <=>
          \E i \in 0 .. Len(text) :
              EndsWith(SubSeq(text, 1, i), pattern)
    /\ ToUpper(ToLower(text)) = ToUpper(text)

(* A subscribed URL without variables matches what is below it or above    *)
(* it, segment for segment, and nothing that only begins with the same     *)
(* characters; a variable never makes a URL match less.                    *)
UrlsExact ==
    LET requested == SplitString(text, <<Slash>>)
        segments == SplitString(pattern, <<Slash>>)
        common == 1 .. (IF Len(segments) < Len(requested) THEN Len(segments) ELSE Len(requested))
    IN  /\ ~ContainsString(pattern, <<Colon>>) =>
              (MatchInclusiveUrl(text, pattern)
                  <=> \A i \in common : requested[i] = segments[i])
        /\ MatchInclusiveUrl(text, text)
        /\ MatchInclusiveUrl(text, pattern) =>
              \A i \in common : segments[i] # requested[i] => segments[i][1] = Colon

(* The suffix is the one for the number of units the size exceeds, never   *)
(* one beyond the last, also at the boundaries and next to them.           *)
SuffixExact ==
    \A k \in 0 .. 5 :
        LET fileSize == Power[k] - 1 + Len(pattern)
            exceeded == {i \in 1 .. 4 : fileSize > Power[i]}
        IN  SuffixIndex(fileSize) =
                IF exceeded = {} THEN 0 ELSE CHOOSE i \in exceeded : \A j \in exceeded : j <= i

(* The functions of katla::string do what their names say, for every text  *)
(* and pattern within the bounds.                                          *)
StringsExact == SplitExact /\ TrimsExact /\ UrlsExact /\ SuffixExact
=============================================================================
