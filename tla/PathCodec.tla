----------------------------- MODULE PathCodec -----------------------------
(***************************************************************************)
(* How paths get into the index file and out of it.  A path is a sequence   *)
(* of arbitrary bytes; a JSON string has to be valid UTF-8.  encodePath     *)
(* quotes the bytes that are not, and the quote rune itself.  The three     *)
(* maps of an index are saved and loaded through encodeKeys and decodeKeys; *)
(* here they are one map, from paths to whatever the index says of them.    *)
(***************************************************************************)
EXTENDS Integers, Sequences

CONSTANTS
    Scanned,   \* maps a scan may deliver
    Edited,    \* maps an index file edited by hand may hold
    NoMap      \* no map

Byte == 0 .. 255

\* A map whose keys are paths.
PathMap(m) == m = [k \in DOMAIN m |-> m[k]] /\ DOMAIN m \subseteq Seq(Byte)

ASSUME CodecAssumption == \A m \in Scanned \cup Edited : PathMap(m)

VARIABLES
    codec,     \* "scanned", "edited", "saved", "loaded" or "refused"
    memory,    \* the map of the index in memory
    disk,      \* the map in the index file
    saved      \* history: what was saved last

codecVars == <<codec, memory, disk, saved>>

Quote == <<226, 128, 155>>   \* U+201B in UTF-8

\* How long a rune is that begins with byte b, and what its second byte may be.
Announced(b) ==
    CASE b \in 0 .. 127   -> 1
      [] b \in 194 .. 223 -> 2
      [] b \in 224 .. 239 -> 3
      [] b \in 240 .. 244 -> 4
      [] OTHER            -> 0

Second(b) ==
    CASE b = 224 -> 160 .. 191
      [] b = 237 -> 128 .. 159
      [] b = 240 -> 144 .. 191
      [] b = 244 -> 128 .. 143
      [] OTHER   -> 128 .. 191

\* utf8.DecodeRuneInString at i: the length of the rune there, 0 if there is
\* none.
RuneLen(s, i) ==
    LET n == Announced(s[i])
    IN IF /\ i + n - 1 <= Len(s)
          /\ n > 1 => s[i + 1] \in Second(s[i])
          /\ \A j \in i + 2 .. i + n - 1 : s[j] \in 128 .. 191
       THEN n ELSE 0

QuoteAt(s, i) == i + 2 <= Len(s) /\ SubSeq(s, i, i + 2) = Quote
HasQuote(s)   == \E i \in 1 .. Len(s) : QuoteAt(s, i)

\* utf8.ValidString: every byte is part of a rune.  No rune begins within
\* another, so this says that s is one rune after the other.
ValidString(s) == \A i \in 1 .. Len(s) : \E j \in 1 .. i : RuneLen(s, j) > i - j

\* %02X, and its inverse ParseUint(_, 16, 8), -1 for what is no hex digit.
HexDigit(n) == IF n < 10 THEN 48 + n ELSE 55 + n
Hex(b)      == <<HexDigit(b \div 16), HexDigit(b % 16)>>
HexValue(c) == CASE c \in 48 .. 57 -> c - 48 [] c \in 65 .. 70  -> c - 55
                 [] c \in 97 .. 102 -> c - 87 [] OTHER -> -1

\* Mutant: a valid path that contains the quote rune is stored as it is.
NeedsEncodingInvalid(s) == ~ValidString(s)

NeedsEncoding(s) == ~ValidString(s) \/ HasQuote(s)

\* A loop that at each i it reaches writes steps[i].text and goes on by
\* steps[i].width: what it writes from i to the end.
Written(steps) ==
    LET from[i \in 1 .. Len(steps) + 1] ==
            IF i > Len(steps) THEN <<>>
            ELSE steps[i].text \o from[i + steps[i].width]
    IN from

\* Mutant: a byte that starts no rune is copied.
EncodeStepRaw(s, i) ==
    CASE RuneLen(s, i) = 0 -> [text |-> <<s[i]>>, width |-> 1]
      [] QuoteAt(s, i)     -> [text |-> Quote \o Quote, width |-> 3]
      [] OTHER             -> [text  |-> SubSeq(s, i, i + RuneLen(s, i) - 1),
                               width |-> RuneLen(s, i)]

\* A byte that starts no rune is quoted, the quote rune doubled, any other rune
\* copied.
EncodeStep(s, i) ==
    CASE RuneLen(s, i) = 0 -> [text |-> Quote \o Hex(s[i]), width |-> 1]
      [] QuoteAt(s, i)     -> [text |-> Quote \o Quote, width |-> 3]
      [] OTHER             -> [text  |-> SubSeq(s, i, i + RuneLen(s, i) - 1),
                               width |-> RuneLen(s, i)]

EncodePath(s) ==
    IF NeedsEncoding(s) THEN Written([i \in 1 .. Len(s) |-> EncodeStep(s, i)])[1]
    ELSE s

\* The byte that the two bytes at i spell, -1 if they spell none.
EscapeAt(s, i) ==
    IF i + 1 > Len(s) \/ HexValue(s[i]) < 0 \/ HexValue(s[i + 1]) < 0
    THEN -1 ELSE 16 * HexValue(s[i]) + HexValue(s[i + 1])

\* A quote with neither a quote nor an escape behind it stands for itself.  The
\* code goes rune by rune; 226 never continues a rune, so bytes do as well.
DecodeStep(s, i) ==
    LET doubled == QuoteAt(s, i) /\ QuoteAt(s, i + 3)
        escaped == QuoteAt(s, i) /\ EscapeAt(s, i + 3) >= 0
    IN CASE doubled        -> [text |-> Quote, width |-> 6]
         [] escaped        -> [text |-> <<EscapeAt(s, i + 3)>>, width |-> 5]
         [] ~QuoteAt(s, i) -> [text |-> <<s[i]>>, width |-> 1]
         [] OTHER          -> [text |-> Quote, width |-> 3]

DecodePath(s) == Written([i \in 1 .. Len(s) |-> DecodeStep(s, i)])[1]

\* Maps with m's keys rewritten by a function; of two keys that become one,
\* either may win.
Rewritten(m, new) ==
    LET keys == {new[k] : k \in DOMAIN m}
    IN {r \in [keys -> {m[k] : k \in DOMAIN m}] :
            \A t \in keys : \E k \in DOMAIN m : new[k] = t /\ r[t] = m[k]}

EncodeKeys(m) == Rewritten(m, [k \in DOMAIN m |-> EncodePath(k)])
DecodeKeys(m) == Rewritten(m, [k \in DOMAIN m |-> DecodePath(k)])

CodecInit ==
    /\ saved = NoMap
    /\ \/ codec = "scanned" /\ memory \in Scanned /\ disk = NoMap
       \/ codec = "edited" /\ memory = NoMap /\ disk \in Edited

\* The JSON encoder refuses a string that is not valid UTF-8.
SaveIndex ==
    /\ codec \in {"scanned", "loaded"}
    /\ saved' = memory
    /\ \E m \in EncodeKeys(memory) :
          IF \A t \in DOMAIN m : ValidString(t)
          THEN codec' = "saved" /\ disk' = m
          ELSE codec' = "refused" /\ UNCHANGED disk
    /\ UNCHANGED memory

LoadIndex ==
    /\ codec \in {"saved", "edited"}
    /\ memory' \in DecodeKeys(disk)
    /\ codec' = "loaded"
    /\ UNCHANGED <<disk, saved>>

CodecNext == SaveIndex \/ LoadIndex

CodecSpec == CodecInit /\ [][CodecNext]_codecVars

-----------------------------------------------------------------------------
\* What was saved is loaded again, key by key: no two paths of an index become
\* one, and none becomes another, whatever bytes they are made of and also when
\* the index comes from a file edited by hand.
LoadedIsSaved == codec = "loaded" /\ saved # NoMap => memory = saved

\* No path keeps an index from being saved: one refused string would keep every
\* later backup from publishing.
NeverRefused == codec # "refused"
=============================================================================
