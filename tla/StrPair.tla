------------------------------ MODULE StrPair ------------------------------
(***************************************************************************)
(* StrPair::GetStr: the first time a value is asked for, it is decoded in  *)
(* the buffer that it was parsed from.  p reads and q writes; what is not  *)
(* yet read must not be written to.  A byte that was passed and not        *)
(* written keeps its old value.                                            *)
(***************************************************************************)
EXTENDS Integers, Sequences, SequencesExt, TLC

CONSTANTS
  Texts,     \* the values that are parsed: sequences of bytes that are not 0
  UINT_MAX   \* the highest unsigned int, on which the digits are scaled

\* A 0 ends a value.
ASSUME TextsAssumption == Texts \subseteq Seq(1..255)

\* An unsigned int has room for every character that has a UTF-8 form.
ASSUME WidthAssumption == UINT_MAX \in Nat /\ UINT_MAX >= 2097151

VARIABLES
  source,    \* the value as it was parsed
  flags,     \* what it needs
  mem,       \* the buffer from _start to _end, where a 0 is put
  p,         \* the read pointer
  q          \* the write pointer

strVars == <<source, flags, mem, p, q>>

CR == 13
LF == 10
AMP == 38
HASH == 35
SEMICOLON == 59
SMALL_X == 120

\* "&" pattern ";"
QUOT == <<38, 113, 117, 111, 116, 59>>
AMPERSAND == <<38, 97, 109, 112, 59>>
APOS == <<38, 97, 112, 111, 115, 59>>
LESS == <<38, 108, 116, 59>>
GREATER == <<38, 103, 116, 59>>
EntityValue == [s \in {QUOT, AMPERSAND, APOS, LESS, GREATER} |->
                  CASE s = QUOT -> 34
                    [] s = AMPERSAND -> 38
                    [] s = APOS -> 39
                    [] s = LESS -> 60
                    [] s = GREATER -> 62]

byte(i) == IF i \in DOMAIN mem THEN mem[i] ELSE 0

\* b is written at q
Written(b) ==
  [i \in DOMAIN mem |-> IF i \in q..q + Len(b) - 1 THEN b[i - q + 1] ELSE mem[i]]

Step(n, b) ==
  /\ mem' = Written(b)
  /\ p' = p + n
  /\ q' = q + Len(b)
  /\ UNCHANGED <<source, flags>>

-----------------------------------------------------------------------------
ConvertUTF32ToUTF8(input) ==
  LET low(k) == 128 + ((input \div k) % 64)
  IN IF input < 128 THEN <<input>>
     ELSE IF input < 2048 THEN <<192 + input \div 64, low(1)>>
     ELSE IF input < 65536 THEN <<224 + input \div 4096, low(64), low(1)>>
     ELSE IF input < 2097152
     THEN <<240 + input \div 262144, low(4096), low(64), low(1)>>
     ELSE <<>>

digitOf(c, base) ==
  CASE c \in 48..57 -> c - 48
    [] base = 16 /\ c \in 97..102 -> c - 97 + 10
    [] base = 16 /\ c \in 65..70 -> c - 65 + 10
    [] OTHER -> -1

\* The digits are scaled and added from the last one on, the scaling with the
\* width of an unsigned int.
ucsOf(digits, base) ==
  LET Modulus == UINT_MAX + 1
      mult[n \in 0..Len(digits)] ==
        IF n = 0 THEN 1 ELSE (mult[n - 1] * base) % Modulus
      ucs[n \in 0..Len(digits)] ==
        IF n = 0 THEN 0
        ELSE LET digit == digitOf(digits[Len(digits) - n + 1], base)
             IN ucs[n - 1] + ((mult[n - 1] * digit) % Modulus)
  IN IF digits = <<>> THEN 0 ELSE ucs[Len(digits)]

radix == IF byte(p + 2) = SMALL_X THEN 16 ELSE 10
mark == IF radix = 16 THEN SMALL_X ELSE HASH

\* Where the digits start and end: the end is the next semicolon, and from
\* there they are read backwards to a mark.
References ==
  {r \in (p + 1..Len(mem)) \X (p + 2..Len(mem)) :
     /\ r[1] < r[2]
     /\ mem[r[1]] = mark
     /\ mem[r[2]] = SEMICOLON
     /\ \A i \in p + 2..r[2] - 1 : mem[i] # SEMICOLON
     /\ \A i \in r[1] + 1..r[2] - 1 : digitOf(mem[i], radix) # -1}

character(start, end) ==
  ConvertUTF32ToUTF8(ucsOf(SubSeq(mem, start + 1, end - 1), radix))

-----------------------------------------------------------------------------
StrInit ==
  /\ source \in Texts
  /\ flags \in {{}, {"newline"}, {"newline", "entity"}}
  /\ mem = source
  /\ p = 1
  /\ q = 1

Normalises == "newline" \in flags /\ byte(p) \in {CR, LF}
HasEntity == "entity" \in flags /\ byte(p) = AMP

NewlineNormalization ==
  /\ Normalises
  /\ LET other == IF byte(p) = CR THEN LF ELSE CR
     IN Step(IF byte(p + 1) = other THEN 2 ELSE 1, <<LF>>)

\* A "&#" at the end loses its first byte; one that is no reference is kept.
SemicolonSlip ==
  /\ HasEntity /\ ~Normalises
  /\ byte(p + 1) = HASH
  /\ \/ byte(p + 2) = 0 /\ Step(1, <<>>)
     \/ /\ byte(p + 2) # 0
        /\ \E r \in References : Step(r[2] - p, character(r[1], r[2]))
     \/ byte(p + 2) # 0 /\ References = {} /\ Step(1, <<AMP>>)
GetCharacterRef ==
  /\ HasEntity /\ ~Normalises
  /\ byte(p + 1) = HASH
  /\ \/ byte(p + 2) = 0 /\ Step(1, <<>>)
     \/ /\ byte(p + 2) # 0
        /\ \E r \in References : Step(r[2] - p + 1, character(r[1], r[2]))
     \/ byte(p + 2) # 0 /\ References = {} /\ Step(1, <<AMP>>)

Found(s) == IsPrefix(s, SubSeq(mem, p, Len(mem)))

Entity ==
  /\ HasEntity
  /\ byte(p + 1) # HASH
  /\ \E s \in DOMAIN EntityValue : Found(s) /\ Step(Len(s), <<EntityValue[s]>>)

\* Both pointers move on, and nothing is written.
UnknownEntity ==
  /\ HasEntity
  /\ byte(p + 1) # HASH
  /\ \A s \in DOMAIN EntityValue : ~Found(s)
  /\ p' = p + 1
  /\ q' = q + 1
  /\ UNCHANGED <<source, flags, mem>>

Copy == ~Normalises /\ ~HasEntity /\ Step(1, <<mem[p]>>)

StrNext == /\ p <= Len(mem)
           /\ \/ NewlineNormalization
              \/ GetCharacterRef
              \/ Entity
              \/ UnknownEntity
              \/ Copy

StrSpec == StrInit /\ [][StrNext]_strVars

-----------------------------------------------------------------------------
(* The write pointer never passes the read pointer, and what has not been    *)
(* read is as it was parsed, however entities shrink before it.              *)
InPlace ==
  /\ p \in 1..Len(source) + 1
  /\ q \in 1..p
  /\ Len(mem) = Len(source)
  /\ \A i \in p..Len(source) : mem[i] = source[i]

(* Decoding in place does what decoding into another buffer does: line ends, *)
(* entities and numbers become the characters they stand for, in UTF-8.      *)
(* Left open are what an unknown entity begins with, which is a byte left    *)
(* over if something before it has shrunk, and numbers without a UTF-8 form. *)
D == INSTANCE Decoder WITH
       rest <- SubSeq(mem, p, Len(mem)),
       result <- SubSeq(mem, 1, q - 1),
       Entities <- EntityValue
ImplementsDecoder == D!Spec
=============================================================================
