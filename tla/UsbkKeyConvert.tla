--------------------------- MODULE UsbkKeyConvert ---------------------------
(***************************************************************************)
(* The conversion of a key typed as text into the bytes of a key:          *)
(* convertkey_decimal2hex and convertkey_text2hex of libusbk.cpp.          *)
(*                                                                         *)
(* A decimal key is the sequence of the fields between its dots.  A field  *)
(* is a number, or one of the four other things the code tells apart; a    *)
(* text is the sequence of its characters.  Key sizes are those of the     *)
(* code divided by Scale, so that every short text can be tried.           *)
(***************************************************************************)
EXTENDS UsbkProtocol, Sequences, FiniteSets

CONSTANTS
    Scale,          \* key sizes are 16, 24 and 32 bytes divided by this
    Numbers,        \* the numbers tried; they fit an int
    Huge,           \* a number that does not fit an int
    Empty,          \* nothing between two dots
    Lettered,       \* a field with a character that is no digit
    Spaced,         \* a field with a blank in it
    Characters,     \* the characters of a text, as bytes
    Unwritten,      \* a byte of the buffer that nobody wrote
    Pending         \* the result before the conversion

ASSUME ScaleAssumption      == Scale \in {1, 2, 4, 8}
ASSUME NumbersAssumption    == Numbers \subseteq Nat
ASSUME CharactersAssumption == Characters \subseteq 1 .. 255
ASSUME FieldsAssumption     == {Huge, Empty, Lettered, Spaced} \cap Numbers = {}
ASSUME PendingAssumption    == Pending \notin USBK_LO

VARIABLES
    format,         \* "d" or "t"
    text,           \* what the user typed
    keysize,        \* the size asked for
    key_hex,        \* uint8_t key_hex[32] of the caller
    rtn             \* the result

vars == <<format, text, keysize, key_hex, rtn>>

Fields  == Numbers \cup {Huge, Empty, Lettered, Spaced}
Indices == 0 .. (32 \div Scale) - 1
MaxLen  == (32 \div Scale) + 1

keysize_byte(ks) ==
    (CASE ks = KEYSIZE_128BIT -> 16
       [] ks = KEYSIZE_192BIT -> 24
       [] ks = KEYSIZE_256BIT -> 32
       [] OTHER               -> 0) \div Scale

(* A C string has at least one field, which may be empty.                  *)
DecimalTexts == UNION {[1 .. n -> Fields] : n \in 1 .. MaxLen}
PlainTexts   == UNION {[1 .. n -> Characters] : n \in 0 .. MaxLen}

Init ==
    /\ \/ format = "d" /\ text \in DecimalTexts
       \/ format = "t" /\ text \in PlainTexts
    /\ keysize \in KEYSIZE
    /\ key_hex = [k \in Indices |-> Unwritten]
    /\ rtn = Pending

-----------------------------------------------------------------------------
(* convertkey_decimal2hex                                                  *)

(* Variant: as many dots as bytes.                                         *)
DotsFit_PerByte == Len(text) - 1 = keysize_byte(keysize)

(* One dot less than bytes.  The difference is unsigned: for no bytes it   *)
(* is 2^32 - 1, more dots than any text has.                               *)
DotsFit == keysize_byte(keysize) > 0 /\ Len(text) = keysize_byte(keysize)

Occurs(f) == \E n \in DOMAIN text : text[n] = f

(* The dots are blanks now, and the stream skips blanks: what it extracts  *)
(* one after the other are the fields that are not empty.                  *)
Filled == {i \in DOMAIN text : text[i] # Empty}

Extractions == Cardinality(Filled)

Extracted(n) == text[CHOOSE i \in Filled : Cardinality({j \in Filled : j <= i}) = n]

AtEnd(n) == n = Extractions /\ text[Len(text)] # Empty

(* The n-th extraction ends the conversion: there is no number, it is too  *)
(* large for an int, or it was the last one too early.                     *)
Stops(n) ==
    \/ n > Extractions
    \/ Extracted(n) = Huge
    \/ AtEnd(n) /\ n # keysize_byte(keysize)

(* Variant: numbers are not looked at, their last byte is taken.           *)
OutOfRange_Never == FALSE

OutOfRange == \E n \in 1 .. keysize_byte(keysize) : Extracted(n) > 255

(* Bytes are stored as they are extracted, also those of a key that will   *)
(* be refused; a number above 255 keeps its last byte.                     *)
Stored ==
    [k \in Indices |->
        IF k < keysize_byte(keysize) /\ \A n \in 1 .. k + 1 : ~Stops(n)
        THEN Byte(Extracted(k + 1)) ELSE Unwritten]

convertkey_decimal2hex ==
    /\ format = "d" /\ rtn = Pending
    /\ IF Occurs(Spaced) \/ ~DotsFit \/ Occurs(Lettered)
       THEN rtn' = USBK_LO_INVALID_KEY /\ UNCHANGED key_hex
       ELSE /\ key_hex' = Stored
            /\ rtn' = IF \/ \E n \in 1 .. keysize_byte(keysize) : Stops(n)
                         \/ OutOfRange
                      THEN USBK_LO_INVALID_KEY ELSE USBK_LO_PASS
    /\ UNCHANGED <<format, text, keysize>>

-----------------------------------------------------------------------------
(* convertkey_text2hex                                                     *)

(* Variant: strcpy, which does not fill up.                                *)
Padded_Not ==
    [k \in Indices |-> IF k < Len(text) THEN text[k + 1] ELSE key_hex[k]]

(* strncpy: the characters, then zeros up to the size of the key.          *)
Padded ==
    [k \in Indices |->
        IF k < Len(text) THEN text[k + 1]
        ELSE IF k < keysize_byte(keysize) THEN 0 ELSE key_hex[k]]

convertkey_text2hex ==
    /\ format = "t" /\ rtn = Pending
    /\ IF Len(text) > keysize_byte(keysize)
       THEN rtn' = USBK_LO_INVALID_KEY /\ UNCHANGED key_hex
       ELSE rtn' = USBK_LO_PASS /\ key_hex' = Padded
    /\ UNCHANGED <<format, text, keysize>>

Next == convertkey_decimal2hex \/ convertkey_text2hex

Spec == Init /\ [][Next]_vars

-----------------------------------------------------------------------------
(* What a key that can be converted looks like, read off the comment at    *)
(* libusbk.cpp:606-613 and the manual page: as many numbers of one byte as *)
(* the key has bytes; or a text that is not longer than the key.           *)
WellFormed ==
    IF format = "d"
    THEN /\ keysize # KEYSIZE_NULL
         /\ Len(text) = keysize_byte(keysize)
         /\ \A n \in DOMAIN text : text[n] \in Numbers \cap 0 .. 255
    ELSE Len(text) <= keysize_byte(keysize)

(* A text is accepted when and only when it is well formed: the five       *)
(* separate checks (blanks, dots, digits, the stream, the range) let no    *)
(* malformed key pass between them and refuse no good one, and the         *)
(* wrap-around of `keysize_byte(keysize) - 1' lets no key of no size pass. *)
AcceptedIffWellFormed ==
    rtn # Pending => (rtn = USBK_LO_PASS <=> WellFormed)

(* The bytes of an accepted key are the numbers, or the characters and     *)
(* zeros, in their order; whatever the result, nothing is written beyond   *)
(* the size of the key, and with PASS nothing below it is left unwritten.  *)
KeyIsText ==
    \A k \in Indices :
        /\ k >= keysize_byte(keysize) => key_hex[k] = Unwritten
        /\ rtn = USBK_LO_PASS /\ k < keysize_byte(keysize) =>
             key_hex[k] = IF k < Len(text) THEN text[k + 1] ELSE 0

=============================================================================
