------------------------------- MODULE Base64 -------------------------------
(***************************************************************************)
(* Base 64 in the client (socketcluster.js): how the payload of an auth    *)
(* token becomes bytes again, and how bytes are put into a message, by the *)
(* bundled base64-js and by the formatter's own encoder.  The tokens come  *)
(* from go-server/auth.go, which encodes without padding and with the      *)
(* alphabet for URLs.                                                      *)
(***************************************************************************)
EXTENDS Naturals, Sequences, SequencesExt

CONSTANTS
    Bytes,      \* the byte values that occur
    MaxBytes,   \* bound: their number
    MaxChunk    \* maxChunkLength, a multiple of 3

\* A character is its place in the standard alphabet, or one of these.
Minus == 64
Under == 65
Equal == 66
Other == 67

VARIABLE bytes  \* what the other side encoded, or the page wants to send

-----------------------------------------------------------------------------
\* revLookup; undefined counts as 0 in the shifts.
Value_StandardOnly(c) == IF c < 64 THEN c ELSE 0
Value(c) == IF c < 64 THEN c ELSE IF c = Minus THEN 62 ELSE IF c = Under THEN 63 ELSE 0

\* base64clean: up to the first '=', without foreign characters, padded.
Clean(s) ==
    LET ends  == SelectInSeq(s, LAMBDA c : c = Equal)
        known == SelectSeq(IF ends = 0 THEN s ELSE SubSeq(s, 1, ends - 1), LAMBDA c : c # Other)
        Missing(n) == [i \in 1 .. (4 - (n % 4)) % 4 |-> Equal]
    IN  IF Len(known) < 2 THEN <<>> ELSE known \o Missing(Len(known))

PlaceHolders(s) ==
    IF s = <<>> \/ s[Len(s)] # Equal THEN 0 ELSE IF s[Len(s) - 1] = Equal THEN 2 ELSE 1

\* toByteArray: the complete groups of four, then what the placeholders leave.
ToByteArray(s) ==
    LET held == PlaceHolders(s)
        l    == IF held > 0 THEN Len(s) - 4 ELSE Len(s)
        V(i) == Value(s[i])
        Triple(i) == LET tmp == V(i) * 262144 + V(i + 1) * 4096 + V(i + 2) * 64 + V(i + 3)
                     IN  <<(tmp \div 65536) % 256, (tmp \div 256) % 256, tmp % 256>>
        two == V(l + 1) * 4 + V(l + 2) \div 16
        one == V(l + 1) * 1024 + V(l + 2) * 16 + V(l + 3) \div 4
    IN  FlattenSeq([g \in 1 .. l \div 4 |-> Triple(4 * g - 3)])
        \o (IF held = 2 THEN <<two % 256>>
            ELSE IF held = 1 THEN <<(one \div 256) % 256, one % 256>> ELSE <<>>)

\* new Buffer(s, 'base64'): base64ToBytes; its length is that of the same bytes.
FromString(s) == ToByteArray(Clean(s))

TripletToBase64(n) == <<(n \div 262144) % 64, (n \div 4096) % 64, (n \div 64) % 64, n % 64>>

\* encodeChunk, from the byte start + 1 to the byte end.
EncodeChunk(u, start, end) ==
    FlattenSeq([g \in 1 .. (end - start + 2) \div 3 |->
        LET i == start + 3 * g - 2 IN TripletToBase64(u[i] * 65536 + u[i + 1] * 256 + u[i + 2])])

\* fromByteArray: chunks of maxChunkLength, then the one or two bytes left.
FromByteArray(u) ==
    LET len == Len(u)
        extra == len % 3
        len2 == len - extra
        Least(a, b) == IF a > b THEN b ELSE a
        one == u[len]
        two == u[len - 1] * 256 + u[len]
    IN  FlattenSeq([p \in 1 .. (len2 + MaxChunk - 1) \div MaxChunk |->
            EncodeChunk(u, MaxChunk * (p - 1), Least(MaxChunk * p, len2))])
        \o (IF extra = 1 THEN <<one \div 4, (one * 16) % 64, Equal, Equal>>
            ELSE IF extra = 2 THEN <<two \div 1024, (two \div 16) % 64, (two * 4) % 64, Equal>>
            ELSE <<>>)

\* arrayBufferToBase64 of the formatter: zeros beyond the end, cut off afterwards.
ArrayBufferToBase64(u) ==
    LET B(i) == IF i \in DOMAIN u THEN u[i] ELSE 0
        all == FlattenSeq([g \in 1 .. (Len(u) + 2) \div 3 |->
                   LET i == 3 * g - 2 IN
                   <<B(i) \div 4, (B(i) % 4) * 16 + B(i + 1) \div 16,
                     (B(i + 1) % 16) * 4 + B(i + 2) \div 64, B(i + 2) % 64>>])
    IN  CASE Len(u) % 3 = 2 -> SubSeq(all, 1, Len(all) - 1) \o <<Equal>>
          [] Len(u) % 3 = 1 -> SubSeq(all, 1, Len(all) - 2) \o <<Equal, Equal>>
          [] OTHER -> all

Init == bytes = <<>>
Next == Len(bytes) < MaxBytes /\ \E b \in Bytes : bytes' = Append(bytes, b)
Spec == Init /\ [][Next]_bytes

-----------------------------------------------------------------------------
(***************************************************************************)
(* The encoding by its definition, bit by bit.                             *)
(***************************************************************************)

\* Bit b of the bytes, the highest of the first byte being bit 0.
Bit(b) == IF b >= 8 * Len(bytes) THEN 0 ELSE (bytes[b \div 8 + 1] \div 2 ^ (7 - (b % 8))) % 2

Sextet(k) == 32 * Bit(6 * k) + 16 * Bit(6 * k + 1) + 8 * Bit(6 * k + 2)
             + 4 * Bit(6 * k + 3) + 2 * Bit(6 * k + 4) + Bit(6 * k + 5)

Sextets == [k \in 1 .. (8 * Len(bytes) + 5) \div 6 |-> Sextet(k - 1)]

\* base64.RawURLEncoding, and the encoding with padding.
RawURL   == [k \in DOMAIN Sextets |-> IF Sextets[k] = 62 THEN Minus
                                      ELSE IF Sextets[k] = 63 THEN Under ELSE Sextets[k]]
Standard == Sextets \o [k \in 1 .. (3 - (Len(bytes) % 3)) % 3 |-> Equal]

\* The client reads the claims that the server signed, byte for byte, although
\* base64-js was made for the other alphabet and refuses a length that is not a
\* multiple of 4, and whatever line breaks a store puts in between (decodeBase64 in
\* _extractAuthTokenData, base64clean); and what its two encoders put
\* into a message is what a server decodes, whatever the number of bytes.
SameBytes ==
    /\ FromString(RawURL) = bytes
    /\ FromString(Standard) = bytes
    /\ FromString(FlattenSeq([k \in DOMAIN RawURL |-> <<Other, RawURL[k]>>])) = bytes
    /\ FromByteArray(bytes) = Standard
    /\ ArrayBufferToBase64(bytes) = Standard

=============================================================================
