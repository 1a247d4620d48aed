-------------------------------- MODULE Utf8 --------------------------------
(***************************************************************************)
(* Text and bytes in the client (the Buffer of socketcluster.js): the      *)
(* loops of utf8ToBytes, which runs once to measure the bytes of a text    *)
(* and once to write them, and of utf8Slice, which makes a text of bytes   *)
(* (a token's claims).  A text is a sequence of UTF-16 units.              *)
(***************************************************************************)
EXTENDS Naturals, Sequences, SequencesExt

CONSTANTS
    Units,          \* the UTF-16 units that occur
    Bytes,          \* the bytes that occur in what others send
    MaxLen,         \* bound: units in a text, bytes in what others send
    MaxArguments    \* MAX_ARGUMENTS_LENGTH

VARIABLES
    loop,   \* "measure" and "write" of utf8ToBytes, "read" of utf8Slice, or "done"
    text,   \* string of utf8ToBytes
    at,     \* the place in the text or in the bytes
    lead,   \* leadSurrogate, 0 for null
    room,   \* units, less whatever is below 0
    bytes,  \* bytes of utf8ToBytes, buf of utf8Slice
    res,    \* res of utf8Slice
    length  \* byteLength of the text

vars == <<loop, text, at, lead, room, bytes, res, length>>

Infinity    == 4 * MaxLen + 1
Replacement == \hFFFD

IsLead(c)  == c > \hD7FF /\ c < \hDC00
IsTrail(c) == c > \hDBFF /\ c < \hE000

Init ==
    /\ at = 1 /\ lead = 0 /\ res = <<>> /\ length = 0 /\ room = Infinity
    /\ \/ loop = "measure" /\ text \in SeqOf(Units, MaxLen) /\ bytes = <<>>
       \/ loop = "read" /\ text = <<>> /\ bytes \in SeqOf(Bytes, MaxLen)

-----------------------------------------------------------------------------
\* The bytes that utf8ToBytes pushes for a code point.
Encoded(c) ==
    LET Tail6(k) == \h80 + ((c \div k) % 64) IN
    CASE c < \h80 -> <<c>>
      [] c >= \h80 /\ c < \h800 -> <<\hC0 + (c \div 64), Tail6(1)>>
      [] c >= \h800 /\ c < \h10000 -> <<\hE0 + (c \div 4096), Tail6(64), Tail6(1)>>
      [] OTHER -> <<\hF0 + (c \div 262144), Tail6(4096), Tail6(64), Tail6(1)>>

Writing == loop \in {"measure", "write"} /\ at <= Len(text)

\* A replacement is left out if there is no room, a code point ends the loop.
Pushed(replaced, c, next) ==
    LET gap  == IF replaced THEN 3 ELSE 0
        left == IF room < gap THEN 0 ELSE room - gap
        put  == IF replaced /\ room >= 3 THEN Encoded(Replacement) ELSE <<>>
        more == IF c = 0 THEN <<>> ELSE Encoded(c)
    IN  IF Len(more) > left
        THEN at' = Len(text) + 1 /\ bytes' = bytes \o put /\ room' = 0
        ELSE at' = next /\ bytes' = bytes \o put \o more /\ room' = left - Len(more)

\* A surrogate with no lead before it.
FirstSurrogate ==
    /\ Writing /\ lead = 0
    /\ \/ /\ IsTrail(text[at]) \/ (IsLead(text[at]) /\ at = Len(text))
          /\ Pushed(TRUE, 0, at + 1)
          /\ UNCHANGED lead
       \/ /\ IsLead(text[at]) /\ at < Len(text)
          /\ lead' = text[at] /\ at' = at + 1
          /\ UNCHANGED <<bytes, room>>
    /\ UNCHANGED <<loop, text, res, length>>

TwoLeads ==
    /\ Writing /\ lead # 0 /\ IsLead(text[at])
    /\ Pushed(TRUE, 0, at + 1)
    /\ lead' = text[at]
    /\ UNCHANGED <<loop, text, res, length>>

SurrogatePair_NoOffset ==
    /\ Writing /\ lead # 0 /\ IsTrail(text[at])
    /\ Pushed(FALSE, (lead - \hD800) * 1024 + (text[at] - \hDC00), at + 1)
    /\ lead' = 0
    /\ UNCHANGED <<loop, text, res, length>>

\* The code point of a lead and a trail.
PairCode(l, t) == (l - \hD800) * 1024 + (t - \hDC00) + \h10000

SurrogatePair ==
    /\ Writing /\ lead # 0 /\ IsTrail(text[at])
    /\ Pushed(FALSE, PairCode(lead, text[at]), at + 1)
    /\ lead' = 0
    /\ UNCHANGED <<loop, text, res, length>>

Character ==
    /\ Writing /\ ~ IsLead(text[at]) /\ ~ IsTrail(text[at])
    /\ Pushed(lead # 0, text[at], at + 1)
    /\ lead' = 0
    /\ UNCHANGED <<loop, text, res, length>>

\* byteLength is the length of the first pass; the second has that much room (no room
\* is "units || Infinity"), and what it makes is read.
Measured ==
    /\ loop = "measure" /\ at > Len(text)
    /\ loop' = "write" /\ length' = Len(bytes)
    /\ room' = IF bytes = <<>> THEN Infinity ELSE Len(bytes)
    /\ at' = 1 /\ lead' = 0 /\ bytes' = <<>>
    /\ UNCHANGED <<text, res>>

Written ==
    /\ loop = "write" /\ at > Len(text)
    /\ loop' = "read" /\ at' = 1
    /\ UNCHANGED <<text, lead, room, bytes, res, length>>

-----------------------------------------------------------------------------
\* bytesPerSequence of a first byte.
Span(b) == IF b > \hEF THEN 4 ELSE IF b > \hDF THEN 3 ELSE IF b > \hBF THEN 2 ELSE 1

Fits_AnyLength(n, c) == TRUE

\* The range of code points that n bytes may stand for.
Fits(n, c) ==
    \/ n = 1 /\ c < \h80
    \/ n = 2 /\ c > \h7F
    \/ n = 3 /\ c > \h7FF /\ (c < \hD800 \/ c > \hDFFF)
    \/ n = 4 /\ c > \hFFFF /\ c < \h110000

Shaped(n) ==
    /\ at + n - 1 <= Len(bytes)
    /\ \A k \in 1 .. n - 1 : bytes[at + k] \div 64 = 2

\* tempCodePoint of the n bytes from the place at on.
Point(n) ==
    LET T(k) == bytes[at + k] % 64 IN
    CASE n = 1 -> bytes[at]
      [] n = 2 -> (bytes[at] % 32) * 64 + T(1)
      [] n = 3 -> (bytes[at] % 16) * 4096 + T(1) * 64 + T(2)
      [] n = 4 -> (bytes[at] % 16) * 262144 + T(1) * 4096 + T(2) * 64 + T(3)

\* The UTF-16 units of a code point.
Utf16(c) ==
    IF c > \hFFFF
    THEN <<\hD800 + (((c - \h10000) \div 1024) % 1024), \hDC00 + ((c - \h10000) % 1024)>>
    ELSE <<c>>

\* A round of utf8Slice: a code point, or one byte that is replaced.
ReadRound ==
    /\ loop = "read" /\ at <= Len(bytes)
    /\ LET n == Span(bytes[at]) IN
       \/ /\ Shaped(n) /\ Fits(n, Point(n))
          /\ res' = res \o Utf16(Point(n)) /\ at' = at + n
       \/ /\ ~ (Shaped(n) /\ Fits(n, Point(n)))
          /\ res' = Append(res, Replacement) /\ at' = at + 1
    /\ UNCHANGED <<loop, text, lead, room, bytes, length>>

\* decodeCodePointsArray: String.fromCharCode with so many arguments at most.
FromCharCodes(codes) ==
    IF Len(codes) <= MaxArguments THEN codes
    ELSE FlattenSeq([p \in 1 .. (Len(codes) + MaxArguments - 1) \div MaxArguments |->
             SubSeq(codes, MaxArguments * (p - 1) + 1,
                    IF MaxArguments * p > Len(codes) THEN Len(codes) ELSE MaxArguments * p)])

ReadEnds ==
    /\ loop = "read" /\ at > Len(bytes)
    /\ loop' = "done" /\ res' = FromCharCodes(res)
    /\ UNCHANGED <<text, at, lead, room, bytes, length>>

Next == FirstSurrogate \/ TwoLeads \/ SurrogatePair \/ Character \/ Measured \/ Written
        \/ ReadRound \/ ReadEnds

Spec == Init /\ [][Next]_vars

-----------------------------------------------------------------------------
(***************************************************************************)
(* The definition of UTF-8: which bytes are a character.                   *)
(***************************************************************************)

\* The well-formed sequences, as the ranges of their first two bytes.
Rows == {<<1, 0, \h7F, 0, 0>>, <<2, \hC2, \hDF, \h80, \hBF>>, <<3, \hE0, \hE0, \hA0, \hBF>>,
         <<3, \hE1, \hEC, \h80, \hBF>>, <<3, \hED, \hED, \h80, \h9F>>, <<3, \hEE, \hEF, \h80, \hBF>>,
         <<4, \hF0, \hF0, \h90, \hBF>>, <<4, \hF1, \hF3, \h80, \hBF>>, <<4, \hF4, \hF4, \h80, \h8F>>}

WellFormed(s) ==
    \E r \in Rows :
        /\ Len(s) = r[1]
        /\ s[1] \in r[2] .. r[3]
        /\ Len(s) > 1 => s[2] \in r[4] .. r[5]
        /\ \A k \in 3 .. Len(s) : s[k] \in \h80 .. \hBF

From(k) == SubSeq(bytes, at, at + k - 1)

\* The code point of one unit or of a surrogate pair.
CodeOf(u) == IF Len(u) = 1 THEN u[1] ELSE (u[1] - \hD800) * 1024 + (u[2] - \hDC00) + \h10000

\* Each round takes one character by the definition of UTF-8, and gives its units; or,
\* if the bytes from there on are no character, one byte, which it replaces.  So
\* over-long forms, surrogates and cut sequences are never read as anything, and no
\* byte of a good character is lost to a bad one before it (utf8Slice).
CharacterByCharacter ==
    [][ReadRound =>
        \/ /\ WellFormed(From(at' - at))
           /\ IsPrefix(res, res')
           /\ Encoded(CodeOf(SubSeq(res', Len(res) + 1, Len(res')))) = From(at' - at)
        \/ /\ at' = at + 1 /\ res' = Append(res, Replacement)
           /\ \A k \in 1 .. 4 : at + k - 1 <= Len(bytes) => ~ WellFormed(From(k))]_vars

IsPaired(p) ==
    \/ IsLead(text[p]) /\ p < Len(text) /\ IsTrail(text[p + 1])
    \/ IsTrail(text[p]) /\ p > 1 /\ IsLead(text[p - 1])

\* A lead that ends the text right after another lead: the code forgets it.
Forgotten(p) == p = Len(text) /\ p > 1 /\ IsLead(text[p]) /\ IsLead(text[p - 1])

\* A text that was made into bytes and read again is the same, but for half surrogate
\* pairs, which are replaced; the pass that writes makes as many bytes as the pass
\* that measures counted, so that nothing is cut off (utf8ToBytes, byteLength,
\* fromString).  One half is not replaced but lost.
SameText ==
    loop = "done" /\ text # <<>> =>
        /\ Len(bytes) = length
        /\ res = FlattenSeq([p \in DOMAIN text |->
                    IF Forgotten(p) THEN <<>>
                    ELSE IF (IsLead(text[p]) \/ IsTrail(text[p])) /\ ~ IsPaired(p) THEN <<Replacement>>
                    ELSE <<text[p]>>])

=============================================================================
