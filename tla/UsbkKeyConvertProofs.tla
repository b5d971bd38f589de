------------------------ MODULE UsbkKeyConvertProofs ------------------------
(***************************************************************************)
(* Proofs about UsbkKeyConvert, for texts of any length over any numbers   *)
(* and characters: the conversions accept exactly the well-formed keys and *)
(* what they write is the key.                                             *)
(***************************************************************************)
EXTENDS UsbkKeyConvert, FiniteSetTheorems, SequenceTheorems, TLAPS

(* A key has between none and all of the bytes of the buffer, and none     *)
(* only when no size was asked for.                                        *)
LEMMA SizeType ==
    ASSUME NEW ks \in KEYSIZE
    PROVE  /\ keysize_byte(ks) \in Nat
           /\ keysize_byte(ks) = 0 <=> ks = KEYSIZE_NULL
           /\ Indices \subseteq Nat
<1>1. Scale \in {1, 2, 4, 8}
  BY ScaleAssumption
<1> QED BY <1>1 DEF keysize_byte, Indices, KEYSIZE, KEYSIZE_NULL, KEYSIZE_128BIT,
           KEYSIZE_192BIT, KEYSIZE_256BIT

(* When no field is empty the stream extracts the fields in their order.   *)
LEMMA AllExtracted ==
    ASSUME NEW L \in Nat, DOMAIN text = 1 .. L, ~Occurs(Empty)
    PROVE  /\ Extractions = L
           /\ \A n \in 1 .. L : Extracted(n) = text[n]
<1>1. Filled = 1 .. L
  BY DEF Filled, Occurs
<1>2. \A i \in 1 .. L : Cardinality({j \in Filled : j <= i}) = i
  <2> TAKE i \in 1 .. L
  <2>1. {j \in Filled : j <= i} = 1 .. i
    BY <1>1
  <2>2. Cardinality(1 .. i) = i
    BY FS_Interval
  <2> QED BY <2>1, <2>2
<1>3. Extractions = L
  BY <1>1, FS_Interval DEF Extractions
<1>4. ASSUME NEW n \in 1 .. L PROVE Extracted(n) = text[n]
  <2>1. \A i \in Filled : Cardinality({j \in Filled : j <= i}) = n <=> i = n
    BY <1>1, <1>2
  <2>2. n \in Filled
    BY <1>1
  <2>3. (CHOOSE i \in Filled : Cardinality({j \in Filled : j <= i}) = n) = n
    BY <2>1, <2>2
  <2> QED BY <2>3 DEF Extracted
<1> QED BY <1>3, <1>4

(* When one is empty the stream runs out of numbers.                       *)
LEMMA FewerExtracted ==
    ASSUME NEW L \in Nat, DOMAIN text = 1 .. L, Occurs(Empty)
    PROVE  Extractions \in Nat /\ Extractions < L
<1>1. Filled \subseteq 1 .. L /\ Filled # 1 .. L
  BY DEF Filled, Occurs
<1>2. IsFiniteSet(1 .. L) /\ Cardinality(1 .. L) = L
  BY FS_Interval
<1>3. /\ IsFiniteSet(Filled)
      /\ Cardinality(Filled) <= L
      /\ Cardinality(Filled) # L
  BY <1>1, <1>2, FS_Subset
<1>4. Cardinality(Filled) \in Nat
  BY <1>3, FS_CardinalityType
<1> QED BY <1>3, <1>4 DEF Extractions

(* What the conversions start from.                                        *)
Shape ==
    /\ \/ format = "d" /\ text \in Seq(Fields)
       \/ format = "t" /\ text \in Seq(Characters)
    /\ keysize \in KEYSIZE
    /\ rtn = Pending => key_hex = [k \in Indices |-> Unwritten]

(* A decimal text with as many fields as bytes that passes the first three *)
(* checks is converted without a complaint if and only if all fields are   *)
(* numbers of one byte.                                                    *)
LEMMA StreamAccepts ==
    ASSUME text \in Seq(Fields), keysize \in KEYSIZE, DotsFit,
           ~Occurs(Spaced), ~Occurs(Lettered)
    PROVE  /\ ((\E n \in 1 .. keysize_byte(keysize) : Stops(n)) \/ OutOfRange)
                <=> ~(\A n \in DOMAIN text : text[n] \in Numbers \cap 0 .. 255)
           /\ ~(\E n \in 1 .. keysize_byte(keysize) : Stops(n)) => 
                \A n \in 1 .. keysize_byte(keysize) : Extracted(n) = text[n]
<1> DEFINE L == keysize_byte(keysize)
<1>1. L \in Nat /\ L > 0 /\ Len(text) = L /\ DOMAIN text = 1 .. L
  BY SizeType, LenProperties DEF DotsFit
<1>2. \A n \in 1 .. L : text[n] \in Fields
  BY <1>1, LenProperties
<1>3. Numbers \subseteq Nat /\ {Huge, Empty, Lettered, Spaced} \cap Numbers = {}
  BY NumbersAssumption, FieldsAssumption
<1> HIDE DEF L
<1>4. CASE Occurs(Empty)
  <2>1. Extractions \in Nat /\ Extractions < L
    BY <1>1, <1>4, FewerExtracted
  <2>2. L \in 1 .. L /\ Stops(L)
    BY <1>1, <2>1 DEF Stops
  <2>3. \E n \in DOMAIN text : text[n] \notin Numbers
    BY <1>3, <1>4 DEF Occurs
  <2> QED BY <2>2, <2>3 DEF L
<1>5. CASE ~Occurs(Empty)
  <2>1. Extractions = L /\ \A n \in 1 .. L : Extracted(n) = text[n]
    BY <1>1, <1>5, AllExtracted
  <2>2. \A n \in 1 .. L : Stops(n) <=> text[n] = Huge
    <3> TAKE n \in 1 .. L
    <3>1. ~(n > Extractions)
      BY <1>1, <2>1
    <3>2. ~(AtEnd(n) /\ n # keysize_byte(keysize))
      BY <2>1 DEF AtEnd, L
    <3> QED BY <2>1, <3>1, <3>2 DEF Stops
  <2>3. OutOfRange <=> \E n \in 1 .. L : text[n] > 255
    BY <2>1 DEF OutOfRange, L
  <2>4. \A n \in 1 .. L : text[n] \in Numbers \/ text[n] = Huge
    BY <1>1, <1>2, <1>5 DEF Fields, Occurs
  <2>5. CASE \E n \in 1 .. L : text[n] = Huge
    BY <1>1, <1>3, <2>2, <2>5 DEF L
  <2>6. CASE \A n \in 1 .. L : text[n] # Huge
    <3>1. \A n \in 1 .. L : text[n] \in Numbers /\ text[n] \in Nat
      BY <1>3, <2>4, <2>6
    <3>2. \A x \in Nat : x > 255 <=> ~(x \in 0 .. 255)
      OBVIOUS
    <3>3. \A n \in 1 .. L : text[n] > 255 <=> ~(text[n] \in Numbers \cap 0 .. 255)
      BY <3>1, <3>2
    <3>4. ~(\E n \in 1 .. L : Stops(n))
      BY <2>2, <2>6
    <3>5. OutOfRange <=> ~(\A n \in DOMAIN text : text[n] \in Numbers \cap 0 .. 255)
      BY <1>1, <2>3, <3>3
    <3> QED BY <2>1, <3>4, <3>5 DEF L
  <2> QED BY <2>5, <2>6
<1> QED BY <1>4, <1>5

-----------------------------------------------------------------------------
(* The conversions keep their promises                                     *)

IInv == Shape /\ AcceptedIffWellFormed /\ KeyIsText

(* Two results differ.                                                     *)
LEMMA Results ==
    /\ USBK_LO_PASS # USBK_LO_INVALID_KEY
    /\ Pending # USBK_LO_PASS /\ Pending # USBK_LO_INVALID_KEY
  BY PendingAssumption DEF USBK_LO, USBK_LO_PASS, USBK_LO_INVALID_KEY

(* convertkey_decimal2hex accepts the well-formed keys, and stores them.   *)
LEMMA DecimalStep ==
    ASSUME IInv, convertkey_decimal2hex
    PROVE  IInv'
<1>1. /\ format = "d" /\ text \in Seq(Fields) /\ keysize \in KEYSIZE
      /\ key_hex = [k \in Indices |-> Unwritten]
      /\ format' = format /\ text' = text /\ keysize' = keysize
  BY DEF IInv, Shape, convertkey_decimal2hex
<1>2. /\ keysize_byte(keysize) \in Nat /\ Indices \subseteq Nat
      /\ keysize_byte(keysize) > 0 <=> keysize # KEYSIZE_NULL
  BY <1>1, SizeType
<1>3. DOMAIN text = 1 .. Len(text)
  BY <1>1, LenProperties
<1> DEFINE Good == \A n \in DOMAIN text : text[n] \in Numbers \cap 0 .. 255
<1>4. WellFormed' <=> DotsFit /\ Good
  BY <1>1, <1>2 DEF WellFormed, DotsFit, keysize_byte
<1>5. CASE Occurs(Spaced) \/ ~DotsFit \/ Occurs(Lettered)
  <2>1. rtn' = USBK_LO_INVALID_KEY /\ key_hex' = key_hex
    BY <1>5 DEF convertkey_decimal2hex
  <2>2. ~(DotsFit /\ Good)
    BY <1>5, FieldsAssumption DEF Occurs
  <2> QED BY <1>1, <1>4, <2>1, <2>2, Results
          DEF IInv, Shape, AcceptedIffWellFormed, KeyIsText, keysize_byte
<1>6. CASE ~(Occurs(Spaced) \/ ~DotsFit \/ Occurs(Lettered))
  <2> DEFINE L == keysize_byte(keysize)
             Bad == (\E n \in 1 .. L : Stops(n)) \/ OutOfRange
  <2>1. key_hex' = Stored /\ rtn' = IF Bad THEN USBK_LO_INVALID_KEY ELSE USBK_LO_PASS
    BY <1>6 DEF convertkey_decimal2hex
  <2>2. /\ Bad <=> ~Good
        /\ ~(\E n \in 1 .. L : Stops(n)) => \A n \in 1 .. L : Extracted(n) = text[n]
    BY <1>1, <1>6, StreamAccepts
  <2>3. Len(text) = L
    BY <1>6 DEF DotsFit
  <2>4. ASSUME NEW k \in Indices, k >= L PROVE key_hex'[k] = Unwritten
    BY <1>2, <2>1, <2>4 DEF Stored
  <2>5. ASSUME NEW k \in Indices, rtn' = USBK_LO_PASS, k < L
        PROVE  k < Len(text) /\ key_hex'[k] = text[k + 1]
    <3>1. ~Bad
      BY <2>1, <2>5, Results
    <3>2. k + 1 \in 1 .. L
      BY <1>2, <2>5
    <3>3. \A n \in 1 .. k + 1 : ~Stops(n)
      BY <1>2, <2>5, <3>1
    <3>4. text[k + 1] \in 0 .. 255
      BY <1>3, <2>2, <2>3, <3>1, <3>2
    <3>5. Byte(text[k + 1]) = text[k + 1]
      BY <3>4 DEF Byte
    <3>6. Extracted(k + 1) = text[k + 1]
      BY <2>2, <3>1, <3>2
    <3>7. key_hex'[k] = Byte(Extracted(k + 1))
      BY <2>1, <2>5, <3>3 DEF Stored
    <3> QED BY <2>3, <2>5, <3>5, <3>6, <3>7
  <2>6. Shape'
    BY <1>1, <2>1, Results DEF Shape
  <2>7. rtn' = USBK_LO_PASS <=> WellFormed'
    BY <1>4, <1>6, <2>1, <2>2, Results
  <2>8. keysize_byte(keysize)' = L /\ Indices' = Indices /\ Len(text)' = Len(text)
    BY <1>1 DEF keysize_byte
  <2> HIDE DEF L
  <2> QED BY <1>1, <2>4, <2>5, <2>6, <2>7, <2>8
          DEF IInv, AcceptedIffWellFormed, KeyIsText
<1> QED BY <1>5, <1>6

(* convertkey_text2hex accepts the texts that fit, and pads them.          *)
LEMMA TextStep ==
    ASSUME IInv, convertkey_text2hex
    PROVE  IInv'
<1>1. /\ format = "t" /\ text \in Seq(Characters) /\ keysize \in KEYSIZE
      /\ key_hex = [k \in Indices |-> Unwritten]
      /\ format' = format /\ text' = text /\ keysize' = keysize
  BY DEF IInv, Shape, convertkey_text2hex
<1>2. keysize_byte(keysize) \in Nat /\ Indices \subseteq Nat /\ Len(text) \in Nat
  BY <1>1, SizeType, LenProperties
<1> DEFINE L == keysize_byte(keysize)
<1>3. WellFormed' <=> Len(text) <= L
  BY <1>1 DEF WellFormed, keysize_byte
<1>4. keysize_byte(keysize)' = L /\ Len(text)' = Len(text)
  BY <1>1 DEF keysize_byte
<1>5. CASE Len(text) > L
  <2>1. rtn' = USBK_LO_INVALID_KEY /\ key_hex' = key_hex
    BY <1>5 DEF convertkey_text2hex
  <2>2. ~(Len(text) <= L)
    BY <1>2, <1>5
  <2> HIDE DEF L
  <2> QED BY <1>1, <1>3, <2>1, <2>2, Results
          DEF IInv, Shape, AcceptedIffWellFormed, KeyIsText
<1>6. CASE ~(Len(text) > L)
  <2>1. rtn' = USBK_LO_PASS /\ key_hex' = Padded
    BY <1>6 DEF convertkey_text2hex
  <2>2. Len(text) <= L
    BY <1>2, <1>6
  <2>3. ASSUME NEW k \in Indices
        PROVE  /\ k >= L => key_hex'[k] = Unwritten
               /\ k < L => key_hex'[k] = IF k < Len(text) THEN text[k + 1] ELSE 0
    <3>1. k \in Nat /\ key_hex[k] = Unwritten
      BY <1>1, <1>2
    <3>2. key_hex'[k] = IF k < Len(text) THEN text[k + 1]
                        ELSE IF k < L THEN 0 ELSE key_hex[k]
      BY <2>1 DEF Padded
    <3> HIDE DEF L
    <3>3. L \in Nat
      BY <1>2 DEF L
    <3> QED BY <1>2, <2>2, <3>1, <3>2, <3>3
  <2>4. Shape'
    BY <1>1, <2>1, Results DEF Shape
  <2> HIDE DEF L
  <2> QED BY <1>1, <1>3, <1>4, <2>1, <2>2, <2>3, <2>4
          DEF IInv, AcceptedIffWellFormed, KeyIsText
<1> QED BY <1>5, <1>6

(* Nothing is accepted or written before the conversion.                   *)
LEMMA InitIInv == Init => IInv
<1> SUFFICES ASSUME Init PROVE IInv
  OBVIOUS
<1>1. DecimalTexts \subseteq Seq(Fields) /\ PlainTexts \subseteq Seq(Characters)
  <2>1. MaxLen \in Nat
    BY ScaleAssumption DEF MaxLen
  <2>2. (1 .. MaxLen) \cup (0 .. MaxLen) \subseteq Nat
    BY <2>1
  <2> QED BY <2>2, SeqDef DEF DecimalTexts, PlainTexts
<1>2. Shape
  BY <1>1 DEF Init, Shape
<1>3. \A k \in Indices : key_hex[k] = Unwritten
  BY DEF Init
<1>4. rtn = Pending /\ Pending # USBK_LO_PASS
  BY Results DEF Init
<1> QED BY <1>2, <1>3, <1>4 DEF IInv, AcceptedIffWellFormed, KeyIsText

(* What is proved of every step, in the form the theorems use.             *)
LEMMA IInvAlways == Spec => []IInv
<1>1. IInv /\ [Next]_vars => IInv'
  <2>1. IInv /\ UNCHANGED vars => IInv'
    BY DEF vars, IInv, Shape, AcceptedIffWellFormed, KeyIsText, WellFormed, keysize_byte
  <2> QED BY <2>1, DecimalStep, TextStep DEF Next
<1> QED BY <1>1, InitIInv, PTL DEF Spec

(* The five checks of convertkey_decimal2hex and the length of             *)
(* convertkey_text2hex accept the well-formed keys and no others, whatever *)
(* the numbers, the characters and the length of the text.                 *)
THEOREM AcceptedAlwaysWellFormed == Spec => []AcceptedIffWellFormed
<1>1. IInv => AcceptedIffWellFormed
  BY DEF IInv
<1> QED BY <1>1, IInvAlways, PTL

(* An accepted key is in the buffer byte by byte, padded with zeros to its *)
(* size, and nothing beyond it was written.                                *)
THEOREM KeyAlwaysText == Spec => []KeyIsText
<1>1. IInv => KeyIsText
  BY DEF IInv
<1> QED BY <1>1, IInvAlways, PTL

=============================================================================
