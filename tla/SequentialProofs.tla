--------------------------- MODULE SequentialProofs ---------------------------
(***************************************************************************)
(* The parts that one thread runs by itself.                               *)
(*                                                                         *)
(* What tinyxml2 keeps in memory, for any bytes and any sizes.             *)
(*   StrPair: decoding a value in its buffer never writes to what it has   *)
(*   not read.  Nothing gets longer: a reference takes three bytes at      *)
(*   least, and the three bytes "&#;" are one byte decoded; all others     *)
(*   take four, which is the longest UTF-8 form.  It gives the value that  *)
(*   Decoder gives, which reads one sequence and writes another.           *)
(*   PrintBuffer: the array holds what was printed and one 0 behind it,    *)
(*   so that the next string, which overwrites that 0, is in its place.    *)
(*   MemPool: a walk along the free list meets every item that was not     *)
(*   handed out, once, before it ends.                                     *)
(*                                                                         *)
(* What a node has read when it runs, whatever is in its files: a graph    *)
(* that both ends of an edge know, and a highest identifier that is right  *)
(* if the nodes are numbered from 1 on.                                    *)
(***************************************************************************)
EXTENDS StrPair, MemPool, PrintBuffer, Startup, SequenceTheorems,
        FiniteSetTheorems, WellFoundedInduction, TLAPS

\* The buffer keeps its length.
StrInv == /\ source \in Seq(1..255)
          /\ DOMAIN mem = 1..Len(source)
          /\ InPlace

-----------------------------------------------------------------------------
(* Lengths                                                                  *)

LEMMA FunctionLength ==
  ASSUME NEW n \in Nat, NEW f, f = [i \in 1..n |-> f[i]]
  PROVE  Len(f) = n
<1> DEFINE S == {f[i] : i \in 1..n}
<1>1. f \in [1..n -> S]
  OBVIOUS
<1>2. f \in Seq(S)
  BY <1>1, SeqDef
<1>3. DOMAIN f = 1..n /\ DOMAIN f = 1..Len(f) /\ Len(f) \in Nat
  BY <1>1, <1>2, LenProperties
<1> QED BY <1>3

LEMMA ConvertLength ==
  ASSUME NEW input PROVE Len(ConvertUTF32ToUTF8(input)) \in 0..4
BY DEF ConvertUTF32ToUTF8

LEMMA ConvertNothing ==
  ASSUME NEW base PROVE Len(ConvertUTF32ToUTF8(ucsOf(<<>>, base))) = 1
<1>1. ucsOf(<<>>, base) = 0
  BY DEF ucsOf
<1> QED
  BY <1>1 DEF ConvertUTF32ToUTF8

\* A reference is not shorter than the character it stands for.
LEMMA CharacterFits ==
  ASSUME StrInv, NEW r \in References
  PROVE  /\ r[2] \in p + 2..Len(source)
         /\ Len(character(r[1], r[2])) \in 0..r[2] - p + 1
<1>1. /\ r[1] \in p + 1..Len(source) /\ r[2] \in p + 2..Len(source)
      /\ r[1] < r[2]
      /\ p \in Nat /\ Len(source) \in Nat /\ p >= 1
  BY DEF References, StrInv, InPlace
<1>2. Len(character(r[1], r[2])) \in 0..4
  BY ConvertLength DEF character
<1>3. CASE r[2] = p + 2
  <2>1. r[1] = p + 1
    BY <1>1, <1>3
  <2>2. SubSeq(mem, r[1] + 1, r[2] - 1) = <<>>
    BY <1>3, <1>1, <2>1, SubSeqEmpty
  <2>3. Len(character(r[1], r[2])) = 1
    BY <2>2, ConvertNothing DEF character
  <2> QED BY <1>1, <1>3, <2>3
<1>4. CASE r[2] # p + 2
  <2> DEFINE end == r[2]
             length == Len(character(r[1], r[2]))
  <2>1. end \in p + 2..Len(source) /\ end # p + 2 /\ length \in 0..4
    BY <1>1, <1>2, <1>4
  <2> HIDE DEF end, length
  <2>2. length \in 0..end - p + 1
    BY <1>1, <2>1
  <2> QED BY <2>1, <2>2 DEF end, length
<1> QED BY <1>3, <1>4

LEMMA EntityLength ==
  ASSUME NEW s \in DOMAIN EntityValue
  PROVE  Len(s) \in {4, 5, 6}
<1>1. s \in {QUOT, AMPERSAND, APOS, LESS, GREATER}
  BY DEF EntityValue
<1> QED BY <1>1 DEF QUOT, AMPERSAND, APOS, LESS, GREATER

\* What is found is in the buffer.
LEMMA FoundFits ==
  ASSUME StrInv, p <= Len(mem), NEW s \in DOMAIN EntityValue, Found(s)
  PROVE  p + Len(s) <= Len(source) + 1
<1> DEFINE S == {mem[i] : i \in 1..Len(source)}
<1>1. p \in 1..Len(source) /\ Len(source) \in Int /\ Len(mem) = Len(source)
  BY DEF StrInv, InPlace
<1>2. \A i \in p..Len(mem) : mem[i] \in S
  BY <1>1
<1>3. Len(SubSeq(mem, p, Len(mem))) = Len(mem) - p + 1
  <2> HIDE DEF S
  <2> QED BY <1>1, <1>2, SubSeqProperties
<1>4. Len(s) <= Len(SubSeq(mem, p, Len(mem))) /\ Len(s) \in Int
  <2> HIDE DEF S
  <2>1. IsPrefix(s, SubSeq(mem, p, Len(mem)))
    BY DEF Found
  <2>2. Len(s) <= Len(SubSeq(mem, p, Len(mem)))
    BY <2>1, Zenon DEF IsPrefix
  <2>3. Len(s) \in {4, 5, 6}
    BY EntityLength
  <2>4. Len(s) \in Int
    BY <2>3
  <2> QED BY <2>2, <2>4, Zenon
<1> QED BY <1>1, <1>3, <1>4

-----------------------------------------------------------------------------
\* Who reads n bytes and writes at most n keeps the invariant.
LEMMA StepKeeps ==
  ASSUME StrInv, p <= Len(mem),
         NEW n \in Nat, p + n <= Len(source) + 1,
         NEW b, Len(b) \in 0..n,
         Step(n, b)
  PROVE  StrInv'
<1>1. /\ source' = source /\ p' = p + n /\ q' = q + Len(b)
      /\ mem' = [i \in DOMAIN mem |->
                   IF i \in q..q + Len(b) - 1 THEN b[i - q + 1] ELSE mem[i]]
  BY DEF Step, Written
<1>2. /\ p \in 1..Len(source) + 1 /\ q \in 1..p /\ Len(source) \in Nat
      /\ DOMAIN mem = 1..Len(source)
      /\ \A i \in p..Len(source) : mem[i] = source[i]
  BY DEF StrInv, InPlace
<1>3. DOMAIN mem' = 1..Len(source)
  BY <1>1, <1>2
<1>4. Len(mem') = Len(source)
  <2>1. mem' = [i \in 1..Len(source) |-> mem'[i]]
    BY <1>1, <1>2
  <2> HIDE DEF StrInv
  <2> QED BY <1>2, <2>1, FunctionLength
<1>5. \A i \in p + n..Len(source) : mem'[i] = source[i]
  BY <1>1, <1>2
<1>6. p' \in 1..Len(source) + 1 /\ q' \in 1..p'
  BY <1>1, <1>2
<1> QED BY <1>1, <1>3, <1>4, <1>5, <1>6 DEF StrInv, InPlace

LEMMA StrInvariant == StrSpec => []StrInv
<1>1. StrInit => StrInv
  <2> SUFFICES ASSUME StrInit PROVE StrInv
    OBVIOUS
  <2>1. source \in Seq(1..255) /\ mem = source /\ p = 1 /\ q = 1
    BY TextsAssumption DEF StrInit
  <2>2. Len(source) \in Nat /\ DOMAIN source = 1..Len(source)
    BY <2>1
  <2> QED BY <2>1, <2>2 DEF StrInv, InPlace
<1>2. StrInv /\ [StrNext]_strVars => StrInv'
  <2> SUFFICES ASSUME StrInv, [StrNext]_strVars PROVE StrInv'
    OBVIOUS
  <2>1. CASE UNCHANGED strVars
    BY <2>1 DEF strVars, StrInv, InPlace
  <2>2. CASE StrNext
    <3>1. p <= Len(mem) /\ p \in 1..Len(source) /\ Len(source) \in Nat
      BY <2>2 DEF StrNext, StrInv, InPlace
    <3>2. CASE NewlineNormalization
      <4> DEFINE other == IF byte(p) = CR THEN LF ELSE CR
                 n == IF byte(p + 1) = other THEN 2 ELSE 1
      <4>1. Step(n, <<LF>>)
        BY <3>2 DEF NewlineNormalization
      <4>2. byte(p + 1) = other => p + 1 \in 1..Len(source)
        BY DEF byte, CR, LF, StrInv
      <4>3. n \in {1, 2} /\ p + n <= Len(source) + 1
        BY <3>1, <4>2
      <4> HIDE DEF n
      <4>4. Len(<<LF>>) \in 0..n /\ n \in Nat
        BY <4>3
      <4> QED BY <3>1, <4>1, <4>3, <4>4, StepKeeps
    <3>3. CASE GetCharacterRef
      <4>1. CASE Step(1, <<>>)
        <5>1. Len(<<>>) \in 0..1 /\ p + 1 <= Len(source) + 1 /\ 1 \in Nat
          BY <3>1
        <5> QED BY <3>1, <4>1, <5>1, StepKeeps
      <4>2. ASSUME NEW r \in References,
                   Step(r[2] - p + 1, character(r[1], r[2]))
            PROVE  StrInv'
        <5> DEFINE n == r[2] - p + 1
                   b == character(r[1], r[2])
        <5>1. /\ n \in Nat /\ p + n <= Len(source) + 1 /\ Len(b) \in 0..n
              /\ Step(n, b)
          BY <3>1, <4>2, CharacterFits
        <5> HIDE DEF n, b
        <5> QED BY <3>1, <5>1, StepKeeps
      <4>3. CASE Step(1, <<AMP>>)
        <5>1. Len(<<AMP>>) \in 0..1 /\ p + 1 <= Len(source) + 1 /\ 1 \in Nat
          BY <3>1
        <5> QED BY <3>1, <4>3, <5>1, StepKeeps
      <4> QED BY <3>3, <4>1, <4>2, <4>3 DEF GetCharacterRef
    <3>4. CASE Entity
      <4>1. PICK s \in DOMAIN EntityValue :
              Found(s) /\ Step(Len(s), <<EntityValue[s]>>)
        BY <3>4 DEF Entity
      <4>2. Len(s) \in Nat /\ Len(<<EntityValue[s]>>) \in 0..Len(s)
        BY EntityLength
      <4>3. p + Len(s) <= Len(source) + 1
        BY <3>1, <4>1, FoundFits
      <4> QED BY <3>1, <4>1, <4>2, <4>3, StepKeeps
    <3>5. CASE UnknownEntity
      BY <3>1, <3>5 DEF UnknownEntity, StrInv, InPlace
    <3>6. CASE Copy
      <4>1. Len(<<mem[p]>>) \in 0..1 /\ p + 1 <= Len(source) + 1 /\ 1 \in Nat
        BY <3>1
      <4> QED BY <3>1, <3>6, <4>1, StepKeeps DEF Copy
    <3> QED BY <2>2, <3>2, <3>3, <3>4, <3>5, <3>6 DEF StrNext
  <2> QED BY <2>1, <2>2
<1> QED BY <1>1, <1>2, PTL DEF StrSpec

(* The buffer that a value is decoded in is its own: whatever the value      *)
(* holds, StrPair::GetStr writes to no byte before it has read it, and to    *)
(* none outside of the value.                                                *)
THEOREM DecodingInPlace == StrSpec => []InPlace
<1>1. StrInv => InPlace
  BY DEF StrInv
<1> QED BY <1>1, StrInvariant, PTL

-----------------------------------------------------------------------------
(* The array that grows                                                     *)

\* a is an array whose cells hold members of S.
IsArray(S, a) ==
  a \in [mem : Seq(S), size : Nat] /\ a.size <= Len(a.mem) /\ Unset \in S

LEMMA UnsetFacts ==
  ASSUME NEW S, Unset \in S, NEW n \in Nat
  PROVE  UnsetCells(n) \in Seq(S) /\ Len(UnsetCells(n)) = n
<1>1. UnsetCells(n) \in [1..n -> S]
  BY DEF UnsetCells
<1>2. UnsetCells(n) \in Seq(S)
  BY <1>1, SeqDef
<1> QED BY <1>1, <1>2, LenProperties

LEMMA NewArrayFacts ==
  ASSUME NEW S, Unset \in S, NEW n \in Nat
  PROVE  /\ IsArray(S, NewArray(n)) /\ NewArray(n).size = 0
BY UnsetFacts DEF IsArray, NewArray

\* Moving keeps what is in use, and there is room afterwards.
LEMMA CapacityFacts ==
  ASSUME NEW S, NEW a, IsArray(S, a), NEW cap \in Nat
  PROVE  LET e == EnsureCapacity(a, cap)
         IN /\ IsArray(S, e) /\ e.size = a.size
            /\ cap <= Len(e.mem)
            /\ \A i \in 1..a.size : e.mem[i] = a.mem[i]
<1> DEFINE e == EnsureCapacity(a, cap)
           kept == SubSeq(a.mem, 1, a.size)
           rest == UnsetCells(2 * cap - a.size)
<1>1. a.mem \in Seq(S) /\ a.size \in Nat /\ a.size <= Len(a.mem)
      /\ Len(a.mem) \in Nat
  BY DEF IsArray
<1>2. CASE cap <= Len(a.mem)
  BY <1>1, <1>2 DEF EnsureCapacity
<1>3. CASE ~(cap <= Len(a.mem))
  <2>1. 2 * cap - a.size \in Nat /\ 2 * cap >= cap
    BY <1>1, <1>3
  <2>2. \A i \in 1..a.size : a.mem[i] \in S
    BY <1>1, ElementOfSeq
  <2>3. kept \in Seq(S) /\ Len(kept) = a.size
        /\ \A i \in 1..a.size : kept[i] = a.mem[i]
    BY <1>1, <2>2, SubSeqProperties
  <2>4. rest \in Seq(S) /\ Len(rest) = 2 * cap - a.size
    BY <2>1, UnsetFacts DEF IsArray
  <2>5. e = [mem |-> kept \o rest, size |-> a.size]
    BY <1>3 DEF EnsureCapacity, IsArray
  <2> HIDE DEF e, kept, rest
  <2> DEFINE both == kept \o rest
  <2>6. /\ both \in Seq(S) /\ Len(both) = 2 * cap
        /\ \A i \in 1..a.size : both[i] = a.mem[i]
    <3>1. /\ both \in Seq(S) /\ Len(both) = Len(kept) + Len(rest)
          /\ \A i \in 1..Len(kept) + Len(rest) :
               both[i] = IF i <= Len(kept) THEN kept[i] ELSE rest[i - Len(kept)]
      BY <2>3, <2>4, ConcatProperties
    <3>2. Len(kept) + Len(rest) = 2 * cap
      BY <1>1, <2>3, <2>4
    <3>3. \A i \in 1..a.size : i \in 1..2 * cap
      BY <1>1, <1>3
    <3> HIDE DEF both
    <3> QED BY <3>1, <3>2, <3>3, <2>3, <1>1
  <2>7. e.mem = both /\ e.size = a.size
    BY <2>5
  <2> HIDE DEF both
  <2>8. a.size <= 2 * cap /\ cap <= 2 * cap
    BY <1>1, <1>3, <2>1
  <2>9. IsArray(S, e)
    BY <1>1, <2>5, <2>6, <2>7, <2>8 DEF IsArray, both
  <2> QED BY <2>6, <2>7, <2>8, <2>9 DEF e
<1> QED BY <1>2, <1>3

LEMMA PushArrFacts ==
  ASSUME NEW S, NEW a, IsArray(S, a), NEW n \in Nat
  PROVE  /\ IsArray(S, PushArr(a, n))
         /\ PushArr(a, n).size = a.size + n
         /\ \A i \in 1..a.size : PushArr(a, n).mem[i] = a.mem[i]
<1> DEFINE e == EnsureCapacity(a, a.size + n)
<1>1. a.size \in Nat
  BY DEF IsArray
<1>2. IsArray(S, e) /\ e.size = a.size /\ a.size + n <= Len(e.mem)
      /\ \A i \in 1..a.size : e.mem[i] = a.mem[i]
  BY <1>1, CapacityFacts
<1>3. PushArr(a, n) = [e EXCEPT !.size = @ + n]
  BY DEF PushArr
<1> HIDE DEF e
<1> QED BY <1>1, <1>2, <1>3 DEF IsArray

\* What is in use is a sequence, to which Push appends.
LEMMA PushFacts ==
  ASSUME NEW S, NEW a, IsArray(S, a), NEW t \in S
  PROVE  /\ IsArray(S, Push(a, t)) /\ Push(a, t).size = a.size + 1
         /\ Push(a, t).mem[a.size + 1] = t
         /\ \A i \in 1..a.size : Push(a, t).mem[i] = a.mem[i]
<1> DEFINE e == PushArr(a, 1)
<1>1. a.size \in Nat
  BY DEF IsArray
<1>2. IsArray(S, e) /\ e.size = a.size + 1
      /\ \A i \in 1..a.size : e.mem[i] = a.mem[i]
  BY PushArrFacts
<1>3. Push(a, t) = [e EXCEPT !.mem[a.size + 1] = t]
  BY DEF Push
<1>4. Push(a, t) = [e EXCEPT !.mem = [e.mem EXCEPT ![a.size + 1] = t]]
  BY <1>3
<1> HIDE DEF e
<1>5. e.mem \in Seq(S) /\ a.size + 1 \in 1..Len(e.mem)
  BY <1>1, <1>2 DEF IsArray
<1> DEFINE written == [e.mem EXCEPT ![a.size + 1] = t]
<1>6. /\ written \in Seq(S) /\ Len(written) = Len(e.mem)
      /\ \A i \in 1..Len(e.mem) :
           written[i] = IF i = a.size + 1 THEN t ELSE e.mem[i]
  BY <1>5, ExceptSeq
<1>7. Push(a, t).mem = written /\ Push(a, t).size = e.size
      /\ Push(a, t) \in [mem : {written}, size : {e.size}]
  BY <1>2, <1>4 DEF IsArray
<1> HIDE DEF written
<1> QED BY <1>1, <1>2, <1>5, <1>6, <1>7 DEF IsArray

LEMMA InUseFacts ==
  ASSUME NEW S, NEW a, IsArray(S, a)
  PROVE  /\ InUse(a) \in Seq(S) /\ Len(InUse(a)) = a.size
         /\ \A i \in 1..a.size : InUse(a)[i] = a.mem[i]
<1>1. a.size \in Nat /\ \A i \in 1..a.size : a.mem[i] \in S
  BY ElementOfSeq DEF IsArray
<1> QED BY <1>1, SubSeqProperties DEF InUse

LEMMA AppendToSet ==
  ASSUME NEW S, NEW s \in Seq(S), NEW t \in S
  PROVE  ToSet(Append(s, t)) = ToSet(s) \cup {t}
<1> DEFINE e == Append(s, t)
<1>1. /\ e \in Seq(S) /\ Len(e) = Len(s) + 1 /\ Len(s) \in Nat
      /\ DOMAIN e = 1..Len(s) + 1 /\ DOMAIN s = 1..Len(s)
      /\ \A i \in 1..Len(s) : e[i] = s[i]
      /\ e[Len(s) + 1] = t
  BY AppendProperties, LenProperties
<1> HIDE DEF e
<1>2. \A i \in DOMAIN e : i \in DOMAIN s \/ i = Len(s) + 1
  BY <1>1
<1>3. DOMAIN s \subseteq DOMAIN e /\ Len(s) + 1 \in DOMAIN e
  BY <1>1
<1> QED BY <1>1, <1>2, <1>3 DEF ToSet, e

LEMMA PushAppends ==
  ASSUME NEW S, NEW a, IsArray(S, a), NEW t \in S
  PROVE  InUse(Push(a, t)) = Append(InUse(a), t)
<1> DEFINE e == Push(a, t)
<1>1. a.size \in Nat
  BY DEF IsArray
<1>2. IsArray(S, e) /\ e.size = a.size + 1 /\ e.mem[a.size + 1] = t
      /\ \A i \in 1..a.size : e.mem[i] = a.mem[i]
  BY PushFacts
<1>3. InUse(e) \in Seq(S) /\ Len(InUse(e)) = a.size + 1
      /\ \A i \in 1..a.size + 1 : InUse(e)[i] = e.mem[i]
  <2> HIDE DEF e
  <2> QED BY <1>2, InUseFacts
<1>4. InUse(a) \in Seq(S) /\ Len(InUse(a)) = a.size
      /\ \A i \in 1..a.size : InUse(a)[i] = a.mem[i]
  BY InUseFacts
<1> DEFINE s == Append(InUse(a), t)
<1>5. s \in Seq(S) /\ Len(s) = a.size + 1 /\ s[a.size + 1] = t
      /\ \A i \in 1..a.size : s[i] = InUse(a)[i]
  BY <1>4, AppendProperties
<1> HIDE DEF s, e
<1>6. ASSUME NEW i \in 1..Len(s) PROVE s[i] = InUse(e)[i]
  <2>1. i \in 1..a.size + 1
    BY <1>5
  <2>2. CASE i = a.size + 1
    BY <1>2, <1>3, <1>5, <2>1, <2>2
  <2>3. CASE i \in 1..a.size
    BY <1>2, <1>3, <1>4, <1>5, <2>1, <2>3
  <2> QED BY <1>1, <2>1, <2>2, <2>3
<1>7. s = InUse(e)
  BY <1>3, <1>5, <1>6, SeqEqual
<1> QED BY <1>7 DEF s, e

-----------------------------------------------------------------------------
(* The buffer of the printer                                                *)

Byte == 1..255
Cell == {0} \cup Byte \cup {Unset}

BufferInv ==
  /\ output \in Seq(Byte)
  /\ IsArray(Cell, buffer)
  /\ buffer.size = Len(output) + 1
  /\ \A i \in 1..Len(output) : buffer.mem[i] = output[i]
  /\ buffer.mem[buffer.size] = 0

\* s and a 0 are at i; what is before is as it was.
LEMMA WrittenAtFacts ==
  ASSUME NEW a, IsArray(Cell, a), NEW s \in Seq(Byte),
         NEW i \in Nat \ {0}, a.size = i + Len(s)
  PROVE  LET w == WrittenAt(a, i, s)
         IN /\ IsArray(Cell, w) /\ w.size = a.size
            /\ \A k \in 1..i - 1 : w.mem[k] = a.mem[k]
            /\ \A k \in 1..Len(s) : w.mem[i + k - 1] = s[k]
            /\ w.mem[i + Len(s)] = 0
<1> DEFINE text == Append(s, 0)
           cells == [k \in DOMAIN a.mem |->
                       IF k \in i..i + Len(s) THEN text[k - i + 1] ELSE a.mem[k]]
           w == WrittenAt(a, i, s)
<1>1. /\ a.mem \in Seq(Cell) /\ a.size <= Len(a.mem) /\ Len(a.mem) \in Nat
      /\ DOMAIN a.mem = 1..Len(a.mem) /\ Len(s) \in Nat
      /\ \A k \in 1..Len(a.mem) : a.mem[k] \in Cell
  BY DEF IsArray
<1>2. /\ Len(text) = Len(s) + 1 /\ text[Len(s) + 1] = 0
      /\ \A k \in 1..Len(s) : text[k] = s[k] /\ s[k] \in Cell
  <2>1. s \in Seq(Cell) /\ 0 \in Cell
    BY SeqMonotonic DEF Cell
  <2> QED BY <2>1, AppendProperties, ElementOfSeq
<1> HIDE DEF text
<1>3. w = [mem |-> cells, size |-> a.size]
  <2>1. w = [a EXCEPT !.mem = cells]
    BY DEF WrittenAt, text
  <2> HIDE DEF w, cells
  <2> QED BY <2>1 DEF IsArray
<1>4. \A k \in i..i + Len(s) : text[k - i + 1] \in Cell
  <2> SUFFICES ASSUME NEW k \in i..i + Len(s) PROVE text[k - i + 1] \in Cell
    OBVIOUS
  <2>1. CASE k = i + Len(s)
    BY <1>1, <1>2, <2>1 DEF Cell
  <2>2. CASE k # i + Len(s)
    <3>1. k - i + 1 \in 1..Len(s)
      BY <1>1, <2>2
    <3> QED BY <1>2, <3>1
  <2> QED BY <2>1, <2>2
<1>5. cells \in [1..Len(a.mem) -> Cell]
  BY <1>1, <1>4
<1>6. cells \in Seq(Cell) /\ Len(cells) = Len(a.mem)
  BY <1>1, <1>5, SeqDef, LenProperties
<1>7. IsArray(Cell, w) /\ w.size = a.size /\ w.mem = cells
  BY <1>1, <1>3, <1>6 DEF IsArray, Cell
<1>8. \A k \in 1..i - 1 : cells[k] = a.mem[k]
  BY <1>1
<1>9. ASSUME NEW k \in 1..Len(s) PROVE cells[i + k - 1] = s[k]
  <2>1. /\ i + k - 1 \in 1..Len(a.mem) /\ i + k - 1 \in i..i + Len(s)
        /\ i + k - 1 - i + 1 = k
    BY <1>1
  <2> QED BY <1>1, <1>2, <2>1
<1>10. cells[i + Len(s)] = 0
  <2>1. /\ i + Len(s) \in 1..Len(a.mem) /\ i + Len(s) \in i..i + Len(s)
        /\ i + Len(s) - i + 1 = Len(s) + 1
    BY <1>1
  <2> QED BY <1>1, <1>2, <2>1
<1> QED BY <1>7, <1>8, <1>9, <1>10

LEMMA FirstZero == BufferInv => BufferHoldsOutput
<1> SUFFICES ASSUME BufferInv PROVE BufferHoldsOutput
  OBVIOUS
<1> DEFINE mm == buffer.mem
           zeros == {i \in DOMAIN mm : mm[i] = 0}
           n == Len(output)
<1>1. /\ output \in Seq(Byte) /\ n \in Nat /\ mm \in Seq(Cell)
      /\ DOMAIN mm = 1..Len(mm) /\ Len(mm) \in Nat /\ n + 1 <= Len(mm)
      /\ mm[n + 1] = 0 /\ buffer.size = n + 1
      /\ \A i \in 1..n : mm[i] = output[i]
  BY DEF BufferInv, IsArray
<1>2. \A i \in 1..n : mm[i] # 0
  <2> SUFFICES ASSUME NEW i \in 1..n PROVE mm[i] # 0
    OBVIOUS
  <2>1. output[i] \in Byte /\ mm[i] = output[i]
    BY <1>1, ElementOfSeq
  <2>2. 0 \notin Byte
    BY DEF Byte
  <2> QED BY <2>1, <2>2
<1>3. n + 1 \in zeros /\ \A i \in zeros : i \in Nat /\ n + 1 <= i
  BY <1>1, <1>2
<1>4. Min(zeros) = n + 1
  <2>1. /\ n + 1 \in zeros /\ \A i \in zeros : n + 1 <= i
        /\ \A j \in zeros : (\A i \in zeros : j <= i) => j = n + 1
    <3>1. ASSUME NEW j \in zeros, \A i \in zeros : j <= i PROVE j = n + 1
      <4>1. j <= n + 1 /\ n + 1 <= j /\ j \in Nat
        BY <1>3, <3>1
      <4> QED BY <1>1, <4>1
    <3> QED BY <1>3, <3>1
  <2> HIDE DEF zeros, n
  <2> QED BY <2>1 DEF Min
<1>5. CStr = SubSeq(mm, 1, n)
  <2>1. Min(zeros) - 1 = n /\ zeros # {}
    BY <1>1, <1>3, <1>4
  <2>2. CStr = IF zeros = {} THEN mm ELSE SubSeq(mm, 1, Min(zeros) - 1)
    BY DEF CStr
  <2> HIDE DEF zeros, mm, n
  <2> QED BY <2>1, <2>2, Zenon
<1>6. SubSeq(mm, 1, n) = output
  <2>1. \A i \in 1..n : mm[i] \in Byte
    BY <1>1, ElementOfSeq
  <2>2. /\ SubSeq(mm, 1, n) \in Seq(Byte)
        /\ Len(SubSeq(mm, 1, n)) = n
        /\ \A i \in 1..n : SubSeq(mm, 1, n)[i] = mm[i]
    <3> HIDE DEF mm
    <3>1. n \in Int
      BY <1>1
    <3> QED BY <1>1, <2>1, <3>1, SubSeqProperties
  <2> QED BY <1>1, <2>2, SeqEqual
<1> QED BY <1>1, <1>5, <1>6 DEF BufferHoldsOutput

(* Whatever is printed and however often the buffer moves, the printer       *)
(* returns all of it and nothing else (XMLPrinter::Print, CStr, CStrSize).   *)
THEOREM BufferKeepsOutput == BufferSpec => []BufferHoldsOutput
<1>1. BufferInit => BufferInv
  <2> SUFFICES ASSUME BufferInit PROVE BufferInv
    OBVIOUS
  <2>1. IsArray(Cell, NewArray(InitialBuffer)) /\ NewArray(InitialBuffer).size = 0
    BY NewArrayFacts, BufferAssumption DEF Cell
  <2>2. /\ IsArray(Cell, buffer) /\ buffer.size = 1 /\ buffer.mem[1] = 0
    <3>1. 0 \in Cell /\ 0 + 1 = 1
      BY DEF Cell
    <3> QED BY <2>1, <3>1, PushFacts DEF BufferInit
  <2>3. output = <<>> /\ Len(output) = 0 /\ output \in Seq(Byte)
    BY DEF BufferInit
  <2> QED BY <2>2, <2>3 DEF BufferInv
<1>2. BufferInv /\ [PrintFormat]_bufferVars => BufferInv'
  <2> SUFFICES ASSUME BufferInv, [PrintFormat]_bufferVars PROVE BufferInv'
    OBVIOUS
  <2>1. CASE UNCHANGED bufferVars
    BY <2>1 DEF bufferVars, BufferInv, IsArray
  <2>2. CASE PrintFormat
    <3>1. PICK s \in Printable : /\ buffer' = Formatted(buffer, s)
                                 /\ output' = output \o s
      BY <2>2 DEF PrintFormat
    <3> DEFINE a == PushArr(buffer, Len(s))
               w == WrittenAt(a, buffer.size, s)
               n == Len(output)
    <3>2. /\ s \in Seq(Byte) /\ Len(s) \in Nat /\ output \in Seq(Byte) /\ n \in Nat
          /\ IsArray(Cell, buffer) /\ buffer.size = n + 1
          /\ \A i \in 1..n : buffer.mem[i] = output[i]
      BY BufferAssumption DEF BufferInv, Byte
    <3>3. /\ IsArray(Cell, a) /\ a.size = n + 1 + Len(s)
          /\ \A i \in 1..n + 1 : a.mem[i] = buffer.mem[i]
      <4>1. /\ IsArray(Cell, a) /\ a.size = buffer.size + Len(s)
            /\ \A i \in 1..buffer.size : a.mem[i] = buffer.mem[i]
        <5>1. IsArray(Cell, buffer) /\ Len(s) \in Nat
          BY <3>2
        <5> QED BY <5>1, PushArrFacts
      <4> HIDE DEF a, n
      <4> QED BY <3>2, <4>1
    <3>4. buffer' = w
      BY <3>1 DEF Formatted
    <3> HIDE DEF a
    <3>5. /\ IsArray(Cell, w) /\ w.size = n + 1 + Len(s)
          /\ \A k \in 1..n : w.mem[k] = a.mem[k]
          /\ \A k \in 1..Len(s) : w.mem[n + k] = s[k]
          /\ w.mem[n + 1 + Len(s)] = 0
      <4>1. n + 1 \in Nat \ {0} /\ n + 1 - 1 = n
            /\ \A k \in 1..Len(s) : n + 1 + k - 1 = n + k
        BY <3>2
      <4> HIDE DEF n
      <4> QED BY <3>2, <3>3, <4>1, WrittenAtFacts
    <3> HIDE DEF w
    <3>6. /\ output' \in Seq(Byte) /\ Len(output') = n + Len(s)
          /\ \A i \in 1..n + Len(s) :
               output'[i] = IF i <= n THEN output[i] ELSE s[i - n]
      BY <3>1, <3>2, ConcatProperties
    <3>7. ASSUME NEW i \in 1..Len(output') PROVE buffer'.mem[i] = output'[i]
      <4>1. CASE i <= n
        <5>1. i \in 1..n /\ i \in 1..n + 1
          BY <3>2, <3>6, <4>1
        <5> HIDE DEF n
        <5> QED BY <3>2, <3>3, <3>4, <3>5, <3>6, <4>1, <5>1
      <4>2. CASE ~(i <= n)
        <5>1. i - n \in 1..Len(s) /\ n + (i - n) = i
          BY <3>2, <3>6, <4>2
        <5> QED BY <3>4, <3>5, <3>6, <4>2, <5>1
      <4> QED BY <4>1, <4>2
    <3>8. n + 1 + Len(s) = Len(output') + 1
      BY <3>2, <3>6
    <3>9. IsArray(Cell, buffer)'
      BY <3>4, <3>5 DEF IsArray, Cell
    <3> QED BY <3>4, <3>5, <3>6, <3>7, <3>8, <3>9 DEF BufferInv
  <2> QED BY <2>1, <2>2
<1> QED BY <1>1, <1>2, FirstZero, PTL DEF BufferSpec

-----------------------------------------------------------------------------
(* The pool                                                                 *)

Address == Blocks \cup {Unset}

PoolInv ==
  /\ heap \subseteq Blocks
  /\ nextItem \in [ItemsOf(Blocks) -> ItemsOf(Blocks) \cup {NoItem}]
  /\ IsArray(Address, blockPtrs)
  /\ tracked \subseteq held
  /\ PoolHandsOutOnce

\* The next item and the behind of the ring leave no doubt.
LEMMA RingFacts ==
  ASSUME NEW F, NEW first, NEW next
  PROVE  IsRing(F, first, next) <=>
           /\ first \in F \cup {NoItem}
           /\ \A x \in F \ {NoItem} : next[x] \in F \cup {NoItem}
           /\ \A x, y \in F \ {NoItem} : next[x] = next[y] => x = y
           /\ \A x \in F \ {NoItem} : next[x] # first
           /\ \A S \in SUBSET F : S # {} =>
                \/ NoItem \notin S /\ first \in S
                \/ \E x \in F \ S : x # NoItem /\ next[x] \in S
BY DEF IsRing

LEMMA EmptyRing == ASSUME NEW next PROVE IsRing({}, NoItem, next)
BY RingFacts

\* The first item leaves.
LEMMA RingWithoutFirst ==
  ASSUME NEW F, NEW first \in F, NEW next, NEW next2, NoItem \notin F,
         IsRing(F, first, next), \A x \in F \ {first} : next2[x] = next[x]
  PROVE  IsRing(F \ {first}, next[first], next2)
<1> DEFINE G == F \ {first}
<1>1. /\ \A x \in F : next[x] \in F \cup {NoItem}
      /\ \A x, y \in F : next[x] = next[y] => x = y
      /\ \A x \in F : next[x] # first
      /\ \A S \in SUBSET F : S # {} =>
           first \in S \/ \E x \in F \ S : next[x] \in S
  BY RingFacts
<1>2. next[first] \in G \cup {NoItem}
      /\ \A x \in G : next2[x] \in G \cup {NoItem}
  BY <1>1
<1>3. /\ \A x, y \in G : next2[x] = next2[y] => x = y
      /\ \A x \in G : next2[x] # next[first]
  BY <1>1
<1>4. ASSUME NEW S \in SUBSET G, S # {}
      PROVE  next[first] \in S \/ \E x \in G \ S : next2[x] \in S
  <2>1. PICK x \in F \ S : next[x] \in S
    BY <1>1, <1>4
  <2> QED BY <2>1
<1> QED BY <1>2, <1>3, <1>4, RingFacts

\* An item comes before the first.
LEMMA RingWithFirst ==
  ASSUME NEW F, NEW first, NEW next, NEW x, NEW next2,
         NoItem \notin F \cup {x}, x \notin F, IsRing(F, first, next),
         next2[x] = first, \A y \in F : next2[y] = next[y]
  PROVE  IsRing(F \cup {x}, x, next2)
<1> DEFINE G == F \cup {x}
<1>1. /\ first \in F \cup {NoItem}
      /\ \A y \in F : next[y] \in F \cup {NoItem}
      /\ \A y, z \in F : next[y] = next[z] => y = z
      /\ \A y \in F : next[y] # first
      /\ \A S \in SUBSET F : S # {} =>
           first \in S \/ \E y \in F \ S : next[y] \in S
  BY RingFacts
<1>2. /\ \A y \in G : next2[y] \in G \cup {NoItem} /\ next2[y] # x
      /\ \A y, z \in G : next2[y] = next2[z] => y = z
  BY <1>1
<1>3. ASSUME NEW S \in SUBSET G, S # {}, x \notin S
      PROVE  \E y \in G \ S : next2[y] \in S
  <2>1. S \in SUBSET F
    BY <1>3
  <2>2. CASE first \in S
    BY <1>3, <2>2
  <2>3. CASE first \notin S
    <3>1. PICK y \in F \ S : next[y] \in S
      BY <1>1, <1>3, <2>1, <2>3
    <3> QED BY <3>1
  <2> QED BY <2>2, <2>3
<1> QED BY <1>2, <1>3, RingFacts

\* A set of positive numbers has a least one.
LEMMA LeastNumber ==
  ASSUME NEW T \in SUBSET Nat, T # {}
  PROVE  \E k \in T : \A j \in T : k <= j
<1>1. PICK k \in T : \A j \in T : ~(<<j, k>> \in OpToRel(<, Nat))
  BY NatLessThanWellFounded, WFMin
<1>2. ASSUME NEW j \in T PROVE k <= j
  <2>1. j \in Nat /\ k \in Nat
    OBVIOUS
  <2>2. j < k => <<j, k>> \in OpToRel(<, Nat)
    BY <2>1 DEF OpToRel
  <2>3. ~(j < k)
    BY <1>1, <2>2, Zenon
  <2> QED BY <2>1, <2>3
<1> QED BY <1>2

\* The items of a new block from the second on, in a list
LEMMA BlockRing ==
  ASSUME NEW b \in Blocks
  PROVE  IsRing(ItemsOf({b}) \ {<<b, 1>>}, Chained(b)[<<b, 1>>], Chained(b))
<1> DEFINE N == ITEMS_PER_BLOCK
           F == ItemsOf({b}) \ {<<b, 1>>}
           next == Chained(b)
           first == next[<<b, 1>>]
<1>1. /\ N \in Nat \ {0} /\ NoItem \notin Blocks \X (1..N)
  BY PoolAssumption
<1>2. \A i \in 1..N : next[<<b, i>>] = IF i < N THEN <<b, i + 1>> ELSE NoItem
  <2> SUFFICES ASSUME NEW i \in 1..N
               PROVE  next[<<b, i>>] = IF i < N THEN <<b, i + 1>> ELSE NoItem
    OBVIOUS
  <2>1. <<b, i>> \in ItemsOf(Blocks)
    BY DEF ItemsOf
  <2> QED BY <2>1 DEF Chained
<1>3. \A x \in F : \E i \in 2..N : x = <<b, i>>
  BY <1>1 DEF ItemsOf
<1>4. \A i \in 2..N : <<b, i>> \in F /\ <<b, i>> # NoItem
  BY <1>1 DEF ItemsOf
<1> HIDE DEF N, F, next, first
<1>5. first = IF 1 < N THEN <<b, 2>> ELSE NoItem
  BY <1>1, <1>2 DEF first
<1>6. first \in F \cup {NoItem} /\ NoItem \notin F
  BY <1>1, <1>3, <1>4, <1>5
<1>7. ASSUME NEW x \in F
      PROVE  next[x] \in F \cup {NoItem} /\ next[x] # first
  <2>1. PICK i \in 2..N : x = <<b, i>>
    BY <1>3
  <2>2. CASE i < N
    <3>1. i + 1 \in 2..N /\ i + 1 # 2 /\ i \in 1..N /\ 1 < N
      BY <1>1, <2>1, <2>2
    <3>2. next[x] = <<b, i + 1>> /\ first = <<b, 2>> /\ next[x] \in F
      BY <1>2, <1>4, <1>5, <2>1, <2>2, <3>1
    <3> QED BY <3>1, <3>2
  <2>3. CASE ~(i < N)
    <3>1. i \in 1..N /\ 1 < N /\ 2 \in 2..N
      BY <1>1, <2>1
    <3> QED BY <1>2, <1>4, <1>5, <2>1, <2>3, <3>1
  <2> QED BY <2>2, <2>3
<1>8. ASSUME NEW x \in F, NEW y \in F, next[x] = next[y] PROVE x = y
  <2>1. PICK i \in 2..N : x = <<b, i>>
    BY <1>3
  <2>2. PICK j \in 2..N : y = <<b, j>>
    BY <1>3
  <2>3. /\ i \in 1..N /\ j \in 1..N
        /\ i < N => i + 1 \in 2..N
        /\ j < N => j + 1 \in 2..N
    BY <1>1, <2>1, <2>2
  <2>4. CASE i < N /\ j < N
    <3>1. <<b, i + 1>> = <<b, j + 1>>
      BY <1>2, <1>8, <2>1, <2>2, <2>3, <2>4
    <3> QED BY <1>1, <2>1, <2>2, <3>1
  <2>5. CASE ~(i < N) /\ ~(j < N)
    BY <1>1, <2>1, <2>2, <2>5
  <2>6. CASE ~(i < N <=> j < N)
    BY <1>2, <1>4, <1>8, <2>1, <2>2, <2>3, <2>6
  <2> QED BY <2>4, <2>5, <2>6
<1>9. ASSUME NEW S \in SUBSET F, S # {}
      PROVE  first \in S \/ \E x \in F \ S : next[x] \in S
  <2> DEFINE T == {i \in 2..N : <<b, i>> \in S}
  <2>1. T \in SUBSET Nat /\ T # {}
    BY <1>1, <1>3, <1>9
  <2>2. PICK k \in T : \A j \in T : k <= j
    <3> HIDE DEF T
    <3> QED BY <2>1, LeastNumber
  <2>3. CASE k = 2
    BY <1>1, <1>5, <2>3
  <2>4. CASE k # 2
    <3>1. k - 1 \in 2..N /\ k - 1 \in 1..N /\ k - 1 < N /\ k - 1 + 1 = k
      BY <1>1, <2>4
    <3>2. <<b, k - 1>> \in F \ S
      <4>1. k - 1 \notin T
        BY <2>2, <3>1
      <4> QED BY <1>4, <3>1, <4>1
    <3>3. next[<<b, k - 1>>] \in S
      BY <1>2, <3>1
    <3> QED BY <3>2, <3>3
  <2> QED BY <2>3, <2>4
<1>10. IsRing(F, first, next)
  BY <1>6, <1>7, <1>8, <1>9, RingFacts
<1> QED BY <1>10 DEF F, first, next

LEMMA ItemsFinite == ASSUME NEW S \in SUBSET ItemsOf(Blocks) PROVE IsFiniteSet(S)
<1>1. IsFiniteSet(1..ITEMS_PER_BLOCK)
  BY PoolAssumption, FS_Interval
<1>2. IsFiniteSet(ItemsOf(Blocks))
  BY <1>1, PoolAssumption, FS_Product DEF ItemsOf
<1> QED BY <1>2, FS_Subset

\* What is known of the state of a pool
LEMMA PoolFacts ==
  ASSUME PoolInv
  PROVE  /\ ItemsOf(heap) \subseteq ItemsOf(Blocks) /\ NoItem \notin ItemsOf(Blocks)
         /\ IsFiniteSet(held) /\ IsFiniteSet(held \ tracked)
         /\ Cardinality(held) \in Nat /\ Cardinality(held \ tracked) \in Nat
<1>1. ItemsOf(heap) \subseteq ItemsOf(Blocks) /\ NoItem \notin ItemsOf(Blocks)
  BY PoolAssumption DEF PoolInv, ItemsOf
<1>2. IsFiniteSet(held) /\ IsFiniteSet(held \ tracked)
  BY <1>1, ItemsFinite DEF PoolInv, PoolHandsOutOnce
<1> QED BY <1>1, <1>2, FS_CardinalityType

\* An item that was free is held.
LEMMA TakeCounts ==
  ASSUME PoolInv, NEW x \in ItemsOf(Blocks) \ held
  PROVE  /\ Cardinality(held \cup {x}) = Cardinality(held) + 1
         /\ Cardinality((held \cup {x}) \ tracked) =
              Cardinality(held \ tracked) + 1
<1>1. (held \cup {x}) \ tracked = (held \ tracked) \cup {x} /\ x \notin held \ tracked
  BY DEF PoolInv
<1> QED BY <1>1, PoolFacts, FS_AddElement

LEMMA AllocKeeps == ASSUME PoolInv, Alloc PROVE PoolInv'
<1> DEFINE F == ItemsOf(heap) \ held
<1>0. /\ heap \subseteq Blocks /\ IsRing(F, freeRoot, nextItem)
      /\ held \subseteq ItemsOf(heap) /\ tracked \subseteq held
      /\ nextItem \in [ItemsOf(Blocks) -> ItemsOf(Blocks) \cup {NoItem}]
      /\ IsArray(Address, blockPtrs) /\ ToSet(InUse(blockPtrs)) = heap
      /\ currentAllocs = Cardinality(held)
      /\ nUntracked = Cardinality(held \ tracked)
      /\ ItemsOf(heap) \subseteq ItemsOf(Blocks) /\ NoItem \notin ItemsOf(Blocks)
  BY PoolFacts DEF PoolInv, PoolHandsOutOnce
<1>1. CASE freeRoot # NoItem
  <2>1. Take(freeRoot, nextItem) /\ UNCHANGED <<heap, blockPtrs>>
    BY <1>1 DEF Alloc
  <2>2. freeRoot \in F /\ NoItem \notin F
    BY <1>0, <1>1, RingFacts
  <2>3. /\ freeRoot' = nextItem[freeRoot] /\ held' = held \cup {freeRoot}
        /\ nextItem' = [nextItem EXCEPT ![freeRoot] = NoItem]
        /\ currentAllocs' = currentAllocs + 1 /\ nUntracked' = nUntracked + 1
        /\ heap' = heap /\ blockPtrs' = blockPtrs /\ tracked' = tracked
    BY <2>1 DEF Take
  <2>4. IsRing(ItemsOf(heap') \ held', freeRoot', nextItem')
    <3>1. \A next2 : (\A x \in F \ {freeRoot} : next2[x] = nextItem[x]) =>
                       IsRing(F \ {freeRoot}, nextItem[freeRoot], next2)
      <4> HIDE DEF F
      <4> QED BY <1>0, <2>2, RingWithoutFirst
    <3>2. \A x \in F \ {freeRoot} : nextItem'[x] = nextItem[x]
      BY <1>0, <2>3
    <3>3. ItemsOf(heap') \ held' = F \ {freeRoot}
      BY <2>3
    <3> QED BY <2>3, <3>1, <3>2, <3>3
  <2>5. freeRoot \in ItemsOf(Blocks) \ held
    BY <1>0, <2>2
  <2>6. /\ currentAllocs' = Cardinality(held')
        /\ nUntracked' = Cardinality(held' \ tracked')
    BY <1>0, <2>3, <2>5, TakeCounts
  <2>7. /\ heap' \subseteq Blocks /\ tracked' \subseteq held'
        /\ held' \subseteq ItemsOf(heap')
        /\ nextItem' \in [ItemsOf(Blocks) -> ItemsOf(Blocks) \cup {NoItem}]
        /\ IsArray(Address, blockPtrs)' /\ ToSet(InUse(blockPtrs))' = heap'
    BY <1>0, <2>2, <2>3 DEF IsArray, Address, InUse
  <2> QED BY <2>4, <2>6, <2>7 DEF PoolInv, PoolHandsOutOnce
<1>2. CASE freeRoot = NoItem
  <2>1. PICK b \in Blocks \ heap :
          /\ heap' = heap \cup {b}
          /\ blockPtrs' = Push(blockPtrs, b)
          /\ Take(<<b, 1>>, Chained(b))
    BY <1>2 DEF Alloc
  <2>2. F = {}
    <3>1. \A S \in SUBSET F : S # {} =>
            (freeRoot \in S /\ NoItem \notin S)
              \/ \E x \in F \ S : x # NoItem /\ nextItem[x] \in S
      <4> HIDE DEF F
      <4> QED BY <1>0, RingFacts
    <3>2. F # {} => F \in SUBSET F
      OBVIOUS
    <3> HIDE DEF F
    <3> QED BY <1>2, <3>1, <3>2
  <2> DEFINE x == <<b, 1>>
             next == Chained(b)
  <2>3. x \in ItemsOf(Blocks) /\ x \in ItemsOf({b}) /\ x \notin ItemsOf(heap)
    BY <2>1, PoolAssumption DEF ItemsOf
  <2>4. /\ freeRoot' = next[x] /\ held' = held \cup {x}
        /\ nextItem' = [next EXCEPT ![x] = NoItem]
        /\ currentAllocs' = currentAllocs + 1 /\ nUntracked' = nUntracked + 1
        /\ tracked' = tracked
    BY <2>1 DEF Take
  <2>5. next \in [ItemsOf(Blocks) -> ItemsOf(Blocks) \cup {NoItem}]
    <3> SUFFICES ASSUME NEW y \in ItemsOf(Blocks)
                 PROVE  next[y] \in ItemsOf(Blocks) \cup {NoItem}
      BY DEF Chained
    <3>1. next[y] = IF y[1] = b /\ y[2] < ITEMS_PER_BLOCK THEN <<b, y[2] + 1>>
                    ELSE IF y[1] = b THEN NoItem ELSE nextItem[y]
      BY DEF Chained
    <3>2. y[1] \in Blocks /\ y[2] \in 1..ITEMS_PER_BLOCK
      BY DEF ItemsOf
    <3>3. ASSUME y[2] < ITEMS_PER_BLOCK
          PROVE  <<b, y[2] + 1>> \in ItemsOf(Blocks)
      <4>1. y[2] + 1 \in 1..ITEMS_PER_BLOCK
        BY <3>2, <3>3, PoolAssumption
      <4> QED BY <4>1, <2>1 DEF ItemsOf
    <3> QED BY <1>0, <3>1, <3>3
  <2>6. ItemsOf(heap') = ItemsOf(heap) \cup ItemsOf({b})
    BY <2>1 DEF ItemsOf
  <2>7. ItemsOf(heap') \ held' = ItemsOf({b}) \ {x}
    <3>1. held = ItemsOf(heap)
      BY <1>0, <2>2
    <3>2. ItemsOf(heap) \cap ItemsOf({b}) = {}
      BY <2>1 DEF ItemsOf
    <3> HIDE DEF x
    <3> QED BY <2>3, <2>4, <2>6, <3>1, <3>2
  <2>8. IsRing(ItemsOf(heap') \ held', freeRoot', nextItem')
    <3>1. IsRing(ItemsOf({b}) \ {x}, next[x], next)
      BY BlockRing
    <3>2. \A y \in ItemsOf({b}) \ {x} : nextItem'[y] = next[y]
      <4>1. ItemsOf({b}) \subseteq ItemsOf(Blocks)
        BY DEF ItemsOf
      <4> HIDE DEF x, next
      <4> QED BY <2>4, <2>5, <4>1
    <3>3. NoItem \notin ItemsOf({b})
      BY <1>0 DEF ItemsOf
    <3> DEFINE G == ItemsOf({b}) \ {x}
               first == next[x]
    <3>4. \A next2 : (\A y \in G : next2[y] = next[y]) => IsRing(G, first, next2)
      <4> HIDE DEF G, first
      <4> SUFFICES ASSUME NEW next2, \A y \in G : next2[y] = next[y]
                   PROVE  IsRing(G, first, next2)
        OBVIOUS
      <4>1. IsRing(G, first, next) /\ NoItem \notin G
        BY <3>1, <3>3 DEF G, first
      <4> HIDE DEF next
      <4> QED BY <4>1, RingFacts
    <3> QED BY <2>4, <2>7, <3>2, <3>4
  <2>9. x \in ItemsOf(Blocks) \ held
    BY <1>0, <2>3
  <2>10. /\ currentAllocs' = Cardinality(held')
         /\ nUntracked' = Cardinality(held' \ tracked')
    BY <1>0, <2>4, <2>9, TakeCounts
  <2>11. /\ IsArray(Address, blockPtrs)' /\ ToSet(InUse(blockPtrs))' = heap'
    <3>1. b \in Address
      BY DEF Address
    <3>2. IsArray(Address, Push(blockPtrs, b))
      BY <1>0, <3>1, PushFacts
    <3>3. InUse(Push(blockPtrs, b)) = Append(InUse(blockPtrs), b)
          /\ InUse(blockPtrs) \in Seq(Address)
      BY <1>0, <3>1, PushAppends, InUseFacts
    <3>4. ToSet(Append(InUse(blockPtrs), b)) = ToSet(InUse(blockPtrs)) \cup {b}
      BY <3>1, <3>3, AppendToSet
    <3> QED BY <1>0, <2>1, <3>2, <3>3, <3>4 DEF IsArray, Address
  <2>12. /\ heap' \subseteq Blocks /\ tracked' \subseteq held'
         /\ held' \subseteq ItemsOf(heap')
         /\ nextItem' \in [ItemsOf(Blocks) -> ItemsOf(Blocks) \cup {NoItem}]
    <3> HIDE DEF next, x
    <3> QED BY <1>0, <2>1, <2>3, <2>4, <2>5, <2>6
  <2> QED BY <2>8, <2>10, <2>11, <2>12 DEF PoolInv, PoolHandsOutOnce
<1> QED BY <1>1, <1>2

LEMMA FreeKeeps == ASSUME PoolInv, Free PROVE PoolInv'
<1>1. PICK x \in tracked :
        /\ currentAllocs' = currentAllocs - 1
        /\ nextItem' = [nextItem EXCEPT ![x] = freeRoot]
        /\ freeRoot' = x /\ held' = held \ {x} /\ tracked' = tracked \ {x}
        /\ UNCHANGED <<heap, blockPtrs, nUntracked>>
  BY DEF Free
<1> DEFINE F == ItemsOf(heap) \ held
<1>2. /\ IsRing(F, freeRoot, nextItem) /\ held \subseteq ItemsOf(heap)
      /\ x \in held /\ x \in ItemsOf(Blocks) /\ x \notin F /\ NoItem \notin F
      /\ x # NoItem /\ ItemsOf(heap) \subseteq ItemsOf(Blocks)
      /\ freeRoot \in ItemsOf(Blocks) \cup {NoItem}
  <2>1. /\ IsRing(F, freeRoot, nextItem) /\ held \subseteq ItemsOf(heap)
        /\ x \in held
    BY DEF PoolInv, PoolHandsOutOnce
  <2>2. freeRoot \in F \cup {NoItem}
    <3> HIDE DEF F
    <3> QED BY <2>1, RingFacts
  <2> QED BY <2>1, <2>2, PoolFacts
<1>3. nextItem'[x] = freeRoot /\ \A y \in F : nextItem'[y] = nextItem[y]
  BY <1>1, <1>2 DEF PoolInv
<1>4. IsRing(ItemsOf(heap') \ held', freeRoot', nextItem')
  <2>1. \A next2 : next2[x] = freeRoot /\ (\A y \in F : next2[y] = nextItem[y])
                     => IsRing(F \cup {x}, x, next2)
    <3> HIDE DEF F
    <3> QED BY <1>2, RingWithFirst
  <2>2. ItemsOf(heap') \ held' = F \cup {x}
    BY <1>1, <1>2
  <2> QED BY <1>1, <1>3, <2>1, <2>2
<1>5. /\ currentAllocs' = Cardinality(held')
      /\ nUntracked' = Cardinality(held' \ tracked')
  <2>1. Cardinality(held \ {x}) = Cardinality(held) - 1
    BY <1>2, PoolFacts, FS_RemoveElement
  <2>2. held' \ tracked' = held \ tracked
    BY <1>1
  <2> QED BY <1>1, <2>1, <2>2 DEF PoolInv, PoolHandsOutOnce
<1>6. /\ heap' \subseteq Blocks /\ tracked' \subseteq held'
      /\ held' \subseteq ItemsOf(heap')
      /\ nextItem' \in [ItemsOf(Blocks) -> ItemsOf(Blocks) \cup {NoItem}]
      /\ IsArray(Address, blockPtrs)' /\ ToSet(InUse(blockPtrs))' = heap'
  BY <1>1, <1>2 DEF PoolInv, PoolHandsOutOnce, IsArray, Address, InUse
<1> QED BY <1>4, <1>5, <1>6 DEF PoolInv, PoolHandsOutOnce

LEMMA MarkTrackedKeeps == ASSUME PoolInv, MarkTracked PROVE PoolInv'
<1>1. PICK x \in held \ tracked :
        /\ nUntracked' = nUntracked - 1 /\ tracked' = tracked \cup {x}
        /\ UNCHANGED <<heap, blockPtrs, freeRoot, nextItem, currentAllocs, held>>
  BY DEF MarkTracked
<1>2. held \ tracked' = (held \ tracked) \ {x}
  BY <1>1
<1>3. nUntracked' = Cardinality(held' \ tracked')
  <2>1. Cardinality((held \ tracked) \ {x}) = Cardinality(held \ tracked) - 1
    BY PoolFacts, FS_RemoveElement
  <2> QED BY <1>1, <1>2, <2>1 DEF PoolInv, PoolHandsOutOnce
<1> QED BY <1>1, <1>3
        DEF PoolInv, PoolHandsOutOnce, IsArray, Address, InUse

\* No item and no block, an array that names none
LEMMA NothingThere ==
  ASSUME NEW a, IsArray(Address, a), a.size = 0
  PROVE  /\ ToSet(InUse(a)) = {} /\ ItemsOf({}) = {}
         /\ \A next : IsRing(ItemsOf({}) \ {}, NoItem, next)
         /\ [x \in ItemsOf(Blocks) |-> NoItem]
              \in [ItemsOf(Blocks) -> ItemsOf(Blocks) \cup {NoItem}]
         /\ Cardinality({}) = 0
<1>1. ItemsOf({}) = {}
  BY DEF ItemsOf
<1>2. ToSet(InUse(a)) = {}
  <2>1. Len(InUse(a)) = 0 /\ InUse(a) \in Seq(Address)
    BY InUseFacts
  <2>2. DOMAIN InUse(a) = {}
    BY <2>1
  <2> QED BY <2>2 DEF ToSet
<1>3. ASSUME NEW next PROVE IsRing(ItemsOf({}) \ {}, NoItem, next)
  BY <1>1, EmptyRing
<1> QED BY <1>1, <1>2, <1>3, FS_EmptySet

LEMMA ClearPoolKeeps == ASSUME PoolInv, ClearPool PROVE PoolInv'
<1> DEFINE a == PopArr(blockPtrs, blockPtrs.size)
<1>1. /\ heap' = {} /\ blockPtrs' = a /\ freeRoot' = NoItem /\ currentAllocs' = 0
      /\ nUntracked' = 0 /\ held' = {} /\ tracked' = {}
      /\ nextItem' = [x \in ItemsOf(Blocks) |-> NoItem]
  BY DEF ClearPool, PoolInv, PoolHandsOutOnce
<1>2. IsArray(Address, a) /\ a.size = 0
  <2>1. blockPtrs.size - blockPtrs.size = 0 /\ Len(blockPtrs.mem) \in Nat
    BY DEF PoolInv, IsArray
  <2> QED BY <2>1 DEF PoolInv, IsArray, PopArr
<1> HIDE DEF a
<1>3. IsArray(Address, blockPtrs)' /\ ToSet(InUse(blockPtrs))' = {}
  BY <1>1, <1>2, NothingThere DEF IsArray, Address
<1>4. IsRing(ItemsOf(heap') \ held', freeRoot', nextItem')
  BY <1>1, <1>2, NothingThere
<1>5. currentAllocs' = Cardinality(held') /\ nUntracked' = Cardinality(held' \ tracked')
  <2>1. {} \ {} = {} /\ Cardinality({}) = 0
    BY FS_EmptySet
  <2> QED BY <1>1, <2>1
<1>6. nextItem' \in [ItemsOf(Blocks) -> ItemsOf(Blocks) \cup {NoItem}]
  BY <1>1
<1> QED BY <1>1, <1>3, <1>4, <1>5, <1>6 DEF PoolInv, PoolHandsOutOnce

(* For any size of a block and any order of allocations, frees and clears,   *)
(* each item is held by one node or once in the free list, and the counters  *)
(* count (MemPoolT::Alloc, Free, SetTracked, Clear).                         *)
THEOREM ItemsHandedOutOnce == PoolSpec => []PoolHandsOutOnce
<1>1. PoolInit => PoolInv
  <2> SUFFICES ASSUME PoolInit PROVE PoolInv
    OBVIOUS
  <2>1. /\ heap = {} /\ blockPtrs = NewArray(InitialBlocks) /\ freeRoot = NoItem
        /\ nextItem = [x \in ItemsOf(Blocks) |-> NoItem]
        /\ currentAllocs = 0 /\ nUntracked = 0 /\ held = {} /\ tracked = {}
    BY DEF PoolInit
  <2>2. IsArray(Address, blockPtrs) /\ blockPtrs.size = 0
    BY <2>1, PoolAssumption, NewArrayFacts DEF Address
  <2>3. IsRing(ItemsOf(heap) \ held, freeRoot, nextItem)
    BY <2>1, <2>2, NothingThere
  <2>4. {} \ {} = {}
    OBVIOUS
  <2> QED BY <2>1, <2>2, <2>3, <2>4, NothingThere DEF PoolInv, PoolHandsOutOnce
<1>2. PoolInv /\ [PoolNext]_poolVars => PoolInv'
  <2> SUFFICES ASSUME PoolInv, [PoolNext]_poolVars PROVE PoolInv'
    OBVIOUS
  <2>1. CASE UNCHANGED poolVars
    BY <2>1 DEF poolVars, PoolInv, PoolHandsOutOnce, IsArray, Address, InUse
  <2> QED BY <2>1, AllocKeeps, FreeKeeps, MarkTrackedKeeps, ClearPoolKeeps
          DEF PoolNext
<1>3. PoolInv => PoolHandsOutOnce
  BY DEF PoolInv
<1> QED BY <1>1, <1>2, <1>3, PTL DEF PoolSpec

-----------------------------------------------------------------------------
(* The number that digits make                                              *)

\* A table is filled from a on, each entry made of the one before.
LEMMA TableExists ==
  ASSUME NEW L \in Nat, NEW a \in Nat, NEW G \in [1..L -> [Nat -> Nat]]
  PROVE  \E f \in [0..L -> Nat] :
           /\ f[0] = a
           /\ \A n \in 1..L : f[n] = G[n][f[n - 1]]
<1> DEFINE Table(m, f) == /\ f \in [0..m -> Nat] /\ f[0] = a
                          /\ \A n \in 1..m : f[n] = G[n][f[n - 1]]
           T == {m \in 0..L : ~\E f : Table(m, f)}
<1>1. ASSUME T # {} PROVE FALSE
  <2>1. T \in SUBSET Nat
    OBVIOUS
  <2> HIDE DEF T
  <2>2. PICK m \in T : \A j \in T : m <= j
    BY <1>1, <2>1, LeastNumber
  <2>3. m \in 0..L /\ ~\E f : Table(m, f)
    BY <2>2 DEF T
  <2>4. m # 0
    <3>1. Table(0, [i \in 0..0 |-> a])
      OBVIOUS
    <3> HIDE DEF Table
    <3> QED BY <2>3, <3>1
  <2>5. m - 1 \in 0..L /\ m - 1 \notin T
    BY <2>2, <2>3, <2>4
  <2>6. PICK f : Table(m - 1, f)
    BY <2>5 DEF T
  <2> DEFINE g == [i \in 0..m |-> IF i = m THEN G[m][f[m - 1]] ELSE f[i]]
  <2>7. Table(m, g)
    <3>1. m \in 1..L /\ m - 1 \in 0..m - 1 /\ 0..m - 1 \subseteq 0..m
      BY <2>3, <2>4
    <3>2. G[m][f[m - 1]] \in Nat
      BY <2>6, <3>1
    <3>3. g \in [0..m -> Nat] /\ g[0] = a
      <4>1. \A i \in 0..m : i # m => i \in 0..m - 1
        BY <2>3
      <4>2. f \in [0..m - 1 -> Nat] /\ f[0] = a
        BY <2>6
      <4>3. \A i \in 0..m : g[i] \in Nat
        BY <3>2, <4>1, <4>2
      <4>4. 0 \in 0..m
        BY <2>3
      <4> QED BY <2>4, <4>2, <4>3, <4>4
    <3>4. ASSUME NEW n \in 1..m PROVE g[n] = G[n][g[n - 1]]
      <4>1. n - 1 \in 0..m - 1 /\ n - 1 # m /\ n - 1 \in 0..m
        BY <2>3
      <4>2. g[n - 1] = f[n - 1]
        BY <4>1
      <4>3. n # m => n \in 1..m - 1
        BY <2>3
      <4>4. n \in 0..m
        BY <2>3
      <4>5. \A k \in 1..m - 1 : f[k] = G[k][f[k - 1]]
        BY <2>6
      <4> QED BY <4>2, <4>3, <4>4, <4>5
    <3> QED BY <3>3, <3>4
  <2> HIDE DEF Table, g
  <2> QED BY <2>3, <2>7
<1>2. L \notin T
  BY <1>1
<1>3. PICK f : Table(L, f)
  <2> HIDE DEF Table
  <2> QED BY <1>2
<1> QED BY <1>3

\* What holds at 0 and is passed on holds everywhere.
LEMMA Upwards ==
  ASSUME NEW L \in Nat, NEW S, 0 \in S,
         \A n \in 0..L : n # L /\ n \in S => n + 1 \in S
  PROVE  0..L \subseteq S
<1> DEFINE T == (0..L) \ S
<1>1. ASSUME T # {} PROVE FALSE
  <2>1. T \in SUBSET Nat
    OBVIOUS
  <2> HIDE DEF T
  <2>2. PICK n \in T : \A j \in T : n <= j
    BY <1>1, <2>1, LeastNumber
  <2>3. n \in 0..L /\ n \notin S
    BY <2>2 DEF T
  <2>4. n # 0
    BY <2>3
  <2>5. n - 1 \in 0..L /\ n - 1 # L /\ n - 1 \notin T /\ (n - 1) + 1 = n
    BY <2>2, <2>3, <2>4
  <2>6. n - 1 \in S
    BY <2>5 DEF T
  <2> QED BY <2>3, <2>5, <2>6
<1> QED BY <1>1


LEMMA Distributed ==
  ASSUME NEW x \in Nat, NEW b \in Nat, NEW d \in Nat, NEW y \in Nat, NEW u \in Nat
  PROVE  (x * b + d) * y + u = x * (y * b) + (u + y * d)
OBVIOUS

LEMMA FactorIsLess ==
  ASSUME NEW y \in Nat, NEW d \in Nat \ {0} PROVE y <= y * d
OBVIOUS

LEMMA Remainder ==
  ASSUME NEW x \in Nat, NEW w \in Nat
  PROVE  x % (w + 1) \in Nat /\ (x <= w => x % (w + 1) = x)
OBVIOUS

LEMMA SumIsNat == ASSUME NEW a \in Nat, NEW b \in Nat PROVE a + b \in Nat
OBVIOUS

LEMMA Chain ==
  ASSUME NEW a \in Nat, NEW b \in Nat, NEW c \in Nat, NEW d \in Nat,
         a <= b, b <= c, c <= d
  PROVE  a <= d
OBVIOUS

\* F counts up the L digits d from the first, U adds them up from the last,
\* each scaled by M, with the width of w.
Counts(L, base, w, d, F, M, U) ==
  /\ F[0] = 0 /\ \A n \in 1..L : F[n] = F[n - 1] * base + d[n]
  /\ M[0] = 1 /\ \A n \in 1..L : M[n] = (M[n - 1] * base) % (w + 1)
  /\ U[0] = 0
  /\ \A n \in 1..L :
       U[n] = U[n - 1] + ((M[n - 1] * d[L - n + 1]) % (w + 1))

\* The results are the same if the first fits.
LEMMA SumsMeet ==
  ASSUME NEW L \in Nat, NEW base \in {10, 16}, NEW w \in Nat,
         NEW d \in [1..L -> Nat], NEW F, NEW M, NEW U,
         Counts(L, base, w, d, F, M, U)
  PROVE  F[L] \in Nat /\ (F[L] <= w => U[L] = F[L])
<1>0. /\ F[0] = 0 /\ \A n \in 1..L : F[n] = F[n - 1] * base + d[n]
      /\ M[0] = 1 /\ \A n \in 1..L : M[n] = (M[n - 1] * base) % (w + 1)
      /\ U[0] = 0
      /\ \A n \in 1..L :
           U[n] = U[n - 1] + ((M[n - 1] * d[L - n + 1]) % (w + 1))
  BY DEF Counts
<1>1. \A n \in 0..L : F[n] \in Nat
  <2> DEFINE S == {n \in 0..L : F[n] \in Nat}
  <2>1. 0 \in S
    BY <1>0
  <2>2. ASSUME NEW n \in 0..L, n # L, n \in S PROVE n + 1 \in S
    <3>1. n + 1 \in 1..L /\ (n + 1) - 1 = n /\ d[n + 1] \in Nat
      BY <2>2
    <3>2. F[n + 1] = F[n] * base + d[n + 1]
      BY <1>0, <3>1
    <3>3. F[n] \in Nat /\ n + 1 \in 0..L
      BY <2>2
    <3>4. F[n + 1] \in Nat
      BY <3>1, <3>2, <3>3
    <3> QED BY <3>3, <3>4
  <2>3. 0..L \subseteq S
    <3> HIDE DEF S
    <3> QED BY <2>1, <2>2, Upwards
  <2> QED BY <2>3
<1>2. \A n \in 0..L : M[n] \in Nat
  <2> DEFINE S == {n \in 0..L : M[n] \in Nat}
  <2>1. 0 \in S
    BY <1>0
  <2>2. ASSUME NEW n \in 0..L, n # L, n \in S PROVE n + 1 \in S
    <3>1. n + 1 \in 1..L /\ (n + 1) - 1 = n
      BY <2>2
    <3>2. M[n + 1] = (M[n] * base) % (w + 1)
      BY <1>0, <3>1
    <3>3. M[n] * base \in Nat
      BY <2>2
    <3> QED BY <3>1, <3>2, <3>3, Remainder
  <2>3. 0..L \subseteq S
    <3> HIDE DEF S
    <3> QED BY <2>1, <2>2, Upwards
  <2> QED BY <2>3
\* The powers of the base
<1>3. PICK P \in [0..L -> Nat] : P[0] = 1 /\ \A n \in 1..L : P[n] = P[n - 1] * base
  <2> DEFINE G == [n \in 1..L |-> [v \in Nat |-> v * base]]
  <2>1. G \in [1..L -> [Nat -> Nat]]
    OBVIOUS
  <2>2. PICK f \in [0..L -> Nat] : f[0] = 1 /\ \A n \in 1..L : f[n] = G[n][f[n - 1]]
    <3> HIDE DEF G
    <3>1. 1 \in Nat
      OBVIOUS
    <3>2. \E f \in [0..L -> Nat] : /\ f[0] = 1
                                  /\ \A n \in 1..L : f[n] = G[n][f[n - 1]]
      BY <2>1, <3>1, TableExists, Zenon
    <3> QED BY <3>2, Zenon
  <2>3. \A n \in 1..L : n - 1 \in 0..L /\ f[n - 1] \in Nat
    OBVIOUS
  <2> QED BY <2>2, <2>3
<1>4. \A n \in 0..L : P[n] <= w => M[n] = P[n]
  <2> DEFINE S == {n \in 0..L : P[n] <= w => M[n] = P[n]}
  <2>1. 0 \in S
    BY <1>0, <1>3
  <2>2. ASSUME NEW n \in 0..L, n # L, n \in S PROVE n + 1 \in S
    <3>1. n + 1 \in 1..L /\ (n + 1) - 1 = n /\ P[n] \in Nat
      BY <2>2
    <3>2. M[n + 1] = (M[n] * base) % (w + 1) /\ P[n + 1] = P[n] * base
      BY <1>0, <1>3, <3>1
    <3>3. P[n] <= P[n] * base /\ P[n] * base \in Nat
      BY <3>1
    <3>4. P[n + 1] <= w => P[n] <= w
      BY <3>1, <3>2, <3>3
    <3>5. P[n + 1] <= w => M[n] = P[n]
      BY <2>2, <3>4
    <3>6. P[n + 1] <= w => M[n + 1] = P[n + 1]
      <4>1. SUFFICES ASSUME P[n + 1] <= w PROVE M[n + 1] = P[n + 1]
        OBVIOUS
      <4>2. M[n + 1] = P[n + 1] % (w + 1) /\ P[n + 1] \in Nat
        BY <3>2, <3>3, <3>5, <4>1
      <4> QED BY <4>1, <4>2, Remainder
    <3> QED BY <3>1, <3>6
  <2>3. 0..L \subseteq S
    <3> HIDE DEF S
    <3> QED BY <2>1, <2>2, Upwards
  <2> QED BY <2>3
<1>5. ASSUME F[L] <= w PROVE U[L] = F[L]
  <2> DEFINE S == {m \in 0..L : U[m] \in Nat /\ F[L] = F[L - m] * P[m] + U[m]}
  <2>1. 0 \in S
    <3>1. F[L] \in Nat /\ L - 0 = L
      BY <1>1
    <3> QED BY <1>0, <1>3, <3>1
  <2>2. ASSUME NEW m \in 0..L, m # L, m \in S PROVE m + 1 \in S
    <3> DEFINE k == L - (m + 1)
               x == F[k]
               e == d[L - m]
               y == P[m]
    <3>1. /\ m + 1 \in 1..L /\ (m + 1) - 1 = m /\ L - m \in 1..L
          /\ (L - m) - 1 = k /\ L - (m + 1) + 1 = L - m /\ k \in 0..L
      BY <2>2
    <3>2. x \in Nat /\ e \in Nat /\ y \in Nat /\ M[m] \in Nat /\ U[m] \in Nat
          /\ F[L] \in Nat /\ base \in Nat
      BY <1>1, <1>2, <2>2, <3>1
    <3>3. F[L - m] = x * base + e /\ P[m + 1] = y * base
          /\ U[m + 1] = U[m] + ((M[m] * e) % (w + 1))
      BY <1>0, <1>3, <3>1
    <3>4. F[L] = x * (y * base) + (U[m] + y * e)
      <4>1. F[L] = (x * base + e) * y + U[m]
        BY <2>2, <3>3
      <4> HIDE DEF x, y, e
      <4> QED BY <3>2, <4>1, Distributed
    <3> HIDE DEF x, y, e
    <3>5. y * e <= F[L] /\ y * e \in Nat
      <4>1. x * (y * base) \in Nat /\ y * e \in Nat
        BY <3>2
      <4> QED BY <3>2, <3>4, <4>1
    <3>6. (M[m] * e) % (w + 1) = y * e
      <4>1. CASE e = 0
        <5>1. M[m] * e = 0 /\ y * e = 0
          BY <3>2, <4>1
        <5> QED BY <5>1, Remainder
      <4>2. CASE e # 0
        <5>1. e \in Nat \ {0}
          BY <3>2, <4>2
        <5>2. y <= y * e
          BY <3>2, <5>1, FactorIsLess, Zenon
        <5>3. y <= w
          BY <1>5, <3>2, <3>5, <5>2, Chain, Zenon
        <5>4. M[m] = y
          BY <1>4, <5>3 DEF y
        <5>5. y * e <= w
          BY <1>5, <3>2, <3>5
        <5> QED BY <3>5, <5>4, <5>5, Remainder
      <4> QED BY <4>1, <4>2
    <3>7. U[m + 1] = U[m] + y * e /\ U[m + 1] \in Nat
      <4>1. U[m + 1] = U[m] + y * e
        BY <3>3, <3>6, Zenon
      <4> QED BY <3>2, <3>5, <4>1, SumIsNat, Zenon
    <3>8. F[L] = F[L - (m + 1)] * P[m + 1] + U[m + 1]
      BY <3>3, <3>4, <3>7 DEF x
    <3> QED BY <3>1, <3>7, <3>8
  <2>3. 0..L \subseteq S
    <3> HIDE DEF S
    <3> QED BY <2>1, <2>2, Upwards
  <2>4. L \in S
    BY <2>3
  <2>5. L - L = 0 /\ P[L] \in Nat
    OBVIOUS
  <2> QED BY <1>0, <2>4, <2>5
<1> QED BY <1>1, <1>5

LEMMA DigitFacts ==
  ASSUME NEW base \in {10, 16}, NEW c \in D!DigitsOf(base)
  PROVE  /\ D!Digit[c] \in Nat /\ digitOf(c, base) = D!Digit[c]
         /\ digitOf(c, base) # -1
         /\ c \in Nat /\ c \notin {AMP, HASH, SEMICOLON, SMALL_X}
BY DEF D!DigitsOf, D!Digit, digitOf, AMP, HASH, SEMICOLON, SMALL_X

\* The digits from the first on, and from the last on
LEMMA NumberIsUcs ==
  ASSUME NEW s, NEW base \in {10, 16}, Len(s) \in Nat, s # <<>>,
         \A i \in 1..Len(s) : s[i] \in D!DigitsOf(base)
  PROVE  /\ D!Number(s, base) \in Nat
         /\ D!Number(s, base) <= UINT_MAX => ucsOf(s, base) = D!Number(s, base)
<1> DEFINE L == Len(s)
           d == [i \in 1..L |-> D!Digit[s[i]]]
           FirstAre(f) == f = [n \in 0..L |-> IF n = 0 THEN 0
                                ELSE f[n - 1] * base + D!Digit[s[n]]]
           MultAre(f) == f = [n \in 0..L |-> IF n = 0 THEN 1
                               ELSE (f[n - 1] * base) % (UINT_MAX + 1)]
           mult == CHOOSE f : MultAre(f)
           UcsAre(f) == f = [n \in 0..L |-> IF n = 0 THEN 0
                              ELSE LET digit == digitOf(s[L - n + 1], base)
                                   IN f[n - 1] + ((mult[n - 1] * digit) % (UINT_MAX + 1))]
           first == CHOOSE f : FirstAre(f)
           ucs == CHOOSE f : UcsAre(f)
<1>1. \A i \in 1..L : /\ D!Digit[s[i]] \in Nat
                      /\ digitOf(s[i], base) = D!Digit[s[i]]
  BY DigitFacts
<1>0. L \in Nat /\ 0 \in Nat /\ 1 \in Nat
  OBVIOUS
<1>2. d \in [1..L -> Nat] /\ L \in Nat /\ UINT_MAX \in Nat
  BY <1>1, WidthAssumption
<1>3. D!Number(s, base) = first[L]
  BY DEF D!Number
<1>4. ucsOf(s, base) = ucs[L]
  BY DEF ucsOf
<1>5. FirstAre(first)
  <2> DEFINE G == [n \in 1..L |-> [v \in Nat |-> v * base + D!Digit[s[n]]]]
  <2>1. G \in [1..L -> [Nat -> Nat]]
    <3>1. ASSUME NEW n \in 1..L, NEW v \in Nat
          PROVE  v * base + D!Digit[s[n]] \in Nat
      BY <1>1
    <3> QED BY <3>1
  <2>2. PICK f \in [0..L -> Nat] : f[0] = 0 /\ \A n \in 1..L : f[n] = G[n][f[n - 1]]
    <3>1. L \in Nat /\ 0 \in Nat
      BY <1>0
    <3> HIDE DEF G, L, d
    <3>2. \E f \in [0..L -> Nat] : /\ f[0] = 0
                                  /\ \A n \in 1..L : f[n] = G[n][f[n - 1]]
      BY <2>1, <3>1, TableExists, Zenon
    <3> QED BY <3>2, Zenon
  <2>3. \A n \in 1..L : n - 1 \in 0..L /\ f[n - 1] \in Nat
    BY <1>2
  <2>4. \A n \in 0..L : f[n] = IF n = 0 THEN 0
                               ELSE f[n - 1] * base + D!Digit[s[n]]
    <3>1. ASSUME NEW n \in 0..L, n # 0
          PROVE  f[n] = f[n - 1] * base + D!Digit[s[n]]
      <4>1. n \in 1..L /\ f[n - 1] \in Nat
        BY <1>0, <2>3, <3>1
      <4>2. G[n][f[n - 1]] = f[n - 1] * base + D!Digit[s[n]]
        BY <4>1
      <4> QED BY <2>2, <4>1, <4>2
    <3> QED BY <2>2, <3>1
  <2>5. FirstAre(f)
    BY <2>2, <2>4
  <2> HIDE DEF FirstAre
  <2> QED BY <2>5
<1>6. MultAre(mult)
  <2> DEFINE G == [n \in 1..L |-> [v \in Nat |-> (v * base) % (UINT_MAX + 1)]]
  <2>1. G \in [1..L -> [Nat -> Nat]]
    <3>1. ASSUME NEW v \in Nat PROVE (v * base) % (UINT_MAX + 1) \in Nat
      <4>1. v * base \in Nat
        OBVIOUS
      <4> QED BY <1>2, <4>1, Remainder
    <3> QED BY <3>1
  <2>2. PICK f \in [0..L -> Nat] : f[0] = 1 /\ \A n \in 1..L : f[n] = G[n][f[n - 1]]
    <3>1. L \in Nat /\ 1 \in Nat
      BY <1>0
    <3> HIDE DEF G, L, d
    <3>2. \E f \in [0..L -> Nat] : /\ f[0] = 1
                                  /\ \A n \in 1..L : f[n] = G[n][f[n - 1]]
      BY <2>1, <3>1, TableExists, Zenon
    <3> QED BY <3>2, Zenon
  <2>3. \A n \in 1..L : n - 1 \in 0..L /\ f[n - 1] \in Nat
    BY <1>2
  <2>4. \A n \in 0..L : f[n] = IF n = 0 THEN 1
                               ELSE (f[n - 1] * base) % (UINT_MAX + 1)
    <3>1. ASSUME NEW n \in 0..L, n # 0
          PROVE  f[n] = (f[n - 1] * base) % (UINT_MAX + 1)
      <4>1. n \in 1..L /\ f[n - 1] \in Nat
        BY <1>0, <2>3, <3>1
      <4>2. G[n][f[n - 1]] = (f[n - 1] * base) % (UINT_MAX + 1)
        BY <4>1
      <4> QED BY <2>2, <4>1, <4>2
    <3> QED BY <2>2, <3>1
  <2>5. MultAre(f)
    BY <2>2, <2>4
  <2> HIDE DEF MultAre
  <2> QED BY <2>5
<1>7. mult[0] = 1 /\ \A n \in 1..L : mult[n] = (mult[n - 1] * base) % (UINT_MAX + 1)
  <2> HIDE DEF mult
  <2>1. \A n \in 0..L : mult[n] = IF n = 0 THEN 1
                                  ELSE (mult[n - 1] * base) % (UINT_MAX + 1)
    BY <1>6
  <2> QED BY <1>2, <2>1
<1>8. \A n \in 0..L : mult[n] \in Nat
  <2> HIDE DEF mult
  <2> DEFINE S == {n \in 0..L : mult[n] \in Nat}
  <2>1. 0 \in S
    BY <1>2, <1>7
  <2>2. ASSUME NEW n \in 0..L, n # L, n \in S PROVE n + 1 \in S
    <3>1. n + 1 \in 1..L /\ (n + 1) - 1 = n
      BY <1>2, <2>2
    <3>2. mult[n + 1] = (mult[n] * base) % (UINT_MAX + 1)
      BY <1>7, <3>1
    <3>3. mult[n] * base \in Nat
      BY <2>2
    <3> QED BY <1>2, <3>1, <3>2, <3>3, Remainder
  <2>3. 0..L \subseteq S
    <3> HIDE DEF S, L
    <3> QED BY <1>2, <2>1, <2>2, Upwards
  <2> QED BY <2>3
<1>9. UcsAre(ucs)
  <2> HIDE DEF mult
  <2> DEFINE G == [n \in 1..L |-> [v \in Nat |->
                     v + ((mult[n - 1] * d[L - n + 1]) % (UINT_MAX + 1))]]
  <2>0. \A n \in 1..L : L - n + 1 \in 1..L /\ n - 1 \in 0..L
    BY <1>2
  <2>1. G \in [1..L -> [Nat -> Nat]]
    <3>1. ASSUME NEW n \in 1..L, NEW v \in Nat
          PROVE  v + ((mult[n - 1] * d[L - n + 1]) % (UINT_MAX + 1)) \in Nat
      <4>1. mult[n - 1] \in Nat /\ d[L - n + 1] \in Nat
        BY <1>2, <1>8, <2>0
      <4>2. mult[n - 1] * d[L - n + 1] \in Nat
        <5> HIDE DEF d, L
        <5> QED BY <4>1
      <4> HIDE DEF d, L
      <4> QED BY <1>2, <4>2, Remainder
    <3> QED BY <3>1
  <2>2. PICK f \in [0..L -> Nat] : f[0] = 0 /\ \A n \in 1..L : f[n] = G[n][f[n - 1]]
    <3>1. L \in Nat /\ 0 \in Nat
      BY <1>0
    <3> HIDE DEF G, L, d
    <3>2. \E f \in [0..L -> Nat] : /\ f[0] = 0
                                  /\ \A n \in 1..L : f[n] = G[n][f[n - 1]]
      BY <2>1, <3>1, TableExists, Zenon
    <3> QED BY <3>2, Zenon
  <2>3. \A n \in 1..L : f[n - 1] \in Nat /\ d[L - n + 1] = digitOf(s[L - n + 1], base)
    BY <1>1, <1>2, <2>0
  <2>4. \A n \in 1..L : f[n] = f[n - 1] + ((mult[n - 1] * d[L - n + 1]) % (UINT_MAX + 1))
    BY <2>2, <2>3
  <2>5. UcsAre(f)
    <3>1. \A n \in 0..L : n # 0 => n \in 1..L
      BY <1>2
    <3> HIDE DEF d
    <3> QED BY <2>2, <2>3, <2>4, <3>1
  <2> HIDE DEF UcsAre
  <2> QED BY <2>5
<1>10. first[0] = 0 /\ \A n \in 1..L : first[n] = first[n - 1] * base + d[n]
  <2> HIDE DEF first
  <2>1. \A n \in 0..L : first[n] = IF n = 0 THEN 0
                                   ELSE first[n - 1] * base + D!Digit[s[n]]
    BY <1>5
  <2> QED BY <1>2, <2>1
<1>11. ucs[0] = 0 /\ \A n \in 1..L :
         ucs[n] = ucs[n - 1] + ((mult[n - 1] * d[L - n + 1]) % (UINT_MAX + 1))
  <2> HIDE DEF ucs, mult
  <2>1. \A n \in 0..L : ucs[n] = IF n = 0 THEN 0
                                 ELSE ucs[n - 1] + ((mult[n - 1] * digitOf(s[L - n + 1], base)) % (UINT_MAX + 1))
    BY <1>9
  <2>2. \A n \in 1..L : d[L - n + 1] = digitOf(s[L - n + 1], base) /\ n \in 0..L /\ n # 0
    BY <1>1, <1>2
  <2>3. 0 \in 0..L
    BY <1>2
  <2> HIDE DEF d
  <2> QED BY <2>1, <2>2, <2>3
<1> HIDE DEF first, mult, ucs, d, L
<1>12. first[L] \in Nat /\ (first[L] <= UINT_MAX => ucs[L] = first[L])
  <2>1. L \in Nat /\ UINT_MAX \in Nat /\ d \in [1..L -> Nat]
    BY <1>2
  <2>2. Counts(L, base, UINT_MAX, d, first, mult, ucs)
    BY <1>7, <1>10, <1>11, Zenon DEF Counts
  <2> QED BY <2>1, <2>2, SumsMeet
<1> QED BY <1>3, <1>4, <1>12

-----------------------------------------------------------------------------
(* A character and its form                                                 *)

LEMMA OneByte ==
  ASSUME NEW a \in Nat PROVE D!Character(<<a>>) = a
<1>1. Len(<<a>>) = 1 /\ <<a>>[1] = a /\ <<0, 128, 2048, 65536>>[1] = 0
  OBVIOUS
<1> QED BY <1>1 DEF D!Character

LEMMA TwoBytes ==
  ASSUME NEW a \in Nat, NEW b \in 0..63, a * 64 + b >= 128
  PROVE  D!Character(<<192 + a, 128 + b>>) = a * 64 + b
<1> DEFINE s == <<192 + a, 128 + b>>
<1>1. /\ Len(s) = 2 /\ s[1] = 192 + a /\ s[2] = 128 + b
      /\ <<0, 128, 2048, 65536>>[2] = 128
  OBVIOUS
<1> HIDE DEF s
<1>2. D!Character(s) = a * 64 + b
  BY <1>1 DEF D!Character
<1> QED BY <1>2 DEF s

\* The parts of a number
LEMMA Parts ==
  ASSUME NEW v \in Nat
  PROVE  /\ v % 64 \in 0..63 /\ v \div 64 \in Nat
         /\ v = (v \div 64) * 64 + (v % 64)
         /\ v \div 4096 = (v \div 64) \div 64
         /\ v \div 262144 = ((v \div 64) \div 64) \div 64
         /\ v \div 1 = v
OBVIOUS

LEMMA FormOfCharacter ==
  ASSUME NEW v \in Nat, v <= D!Highest
  PROVE  /\ ConvertUTF32ToUTF8(v) \in Seq(Nat)
         /\ D!Character(ConvertUTF32ToUTF8(v)) = v
<1> DEFINE v1 == v \div 64
           v2 == v1 \div 64
           v3 == v2 \div 64
           b0 == v % 64
           b1 == v1 % 64
           b2 == v2 % 64
<1>1. /\ v1 \in Nat /\ v2 \in Nat /\ v3 \in Nat
      /\ b0 \in 0..63 /\ b1 \in 0..63 /\ b2 \in 0..63
      /\ v = v1 * 64 + b0 /\ v1 = v2 * 64 + b1 /\ v2 = v3 * 64 + b2
  BY Parts
<1>2. v \div 1 = v /\ v \div 64 = v1 /\ v \div 4096 = v2 /\ v \div 262144 = v3
  BY Parts
<1>3. CASE v < 128
  <2>1. ConvertUTF32ToUTF8(v) = <<v>>
    BY <1>3 DEF ConvertUTF32ToUTF8
  <2> QED BY <2>1, OneByte
<1>4. CASE ~(v < 128) /\ v < 2048
  <2>1. ConvertUTF32ToUTF8(v) = <<192 + v1, 128 + b0>>
    BY <1>2, <1>4 DEF ConvertUTF32ToUTF8
  <2>2. v1 * 64 + b0 >= 128
    BY <1>1, <1>4
  <2> HIDE DEF v1, b0
  <2>3. <<192 + v1, 128 + b0>> \in Seq(Nat)
    BY <1>1
  <2>4. D!Character(<<192 + v1, 128 + b0>>) = v1 * 64 + b0
    <3>1. v1 \in Nat /\ b0 \in 0..63
      BY <1>1
    <3> QED BY <2>2, <3>1, TwoBytes, Zenon
  <2> QED BY <1>1, <2>1, <2>3, <2>4
<1>5. CASE ~(v < 2048) /\ v < 65536
  <2>1. ConvertUTF32ToUTF8(v) = <<224 + v2, 128 + b1, 128 + b0>>
    BY <1>2, <1>5 DEF ConvertUTF32ToUTF8
  <2> HIDE DEF v1, v2, b0, b1
  <2> DEFINE s == ConvertUTF32ToUTF8(v)
  <2>2. v = (v2 * 64 + b1) * 64 + b0 /\ (v2 * 64 + b1) * 64 + b0 >= 2048
    BY <1>1, <1>5
  <2>3. Len(s) = 3 /\ s[1] = 224 + v2 /\ s[2] = 128 + b1 /\ s[3] = 128 + b0
    BY <2>1
  <2>4. s \in Seq(Nat)
    <3>1. <<224 + v2, 128 + b1, 128 + b0>> \in Seq(Nat)
      BY <1>1
    <3> QED BY <2>1, <3>1
  <2> HIDE DEF s
  <2>5. v2 \in Nat /\ b1 \in 0..63 /\ b0 \in 0..63
    BY <1>1
  <2>6. D!Character(s) = (v2 * 64 + b1) * 64 + b0
    <3>1. <<0, 128, 2048, 65536>>[3] = 2048
      OBVIOUS
    <3>2. (v2 * 64 + b1) * 64 + b0 >= 2048
      BY <2>2
    <3> QED BY <2>3, <2>5, <3>1, <3>2 DEF D!Character
  <2> QED BY <2>2, <2>4, <2>6 DEF s
<1>6. CASE ~(v < 65536)
  <2>1. ConvertUTF32ToUTF8(v) = <<240 + v3, 128 + b2, 128 + b1, 128 + b0>>
    BY <1>2, <1>6 DEF ConvertUTF32ToUTF8, D!Highest
  <2> HIDE DEF v1, v2, v3, b0, b1, b2
  <2> DEFINE s == ConvertUTF32ToUTF8(v)
  <2>2. /\ Len(s) = 4 /\ s[1] = 240 + v3 /\ s[2] = 128 + b2
        /\ s[3] = 128 + b1 /\ s[4] = 128 + b0
    BY <2>1
  <2>3. s \in Seq(Nat)
    <3>1. <<240 + v3, 128 + b2, 128 + b1, 128 + b0>> \in Seq(Nat)
      BY <1>1
    <3> QED BY <2>1, <3>1
  <2> HIDE DEF s
  <2>4. v3 \in Nat /\ b2 \in 0..63 /\ b1 \in 0..63 /\ b0 \in 0..63
    BY <1>1
  <2>5. ((v3 * 64 + b2) * 64 + b1) * 64 + b0 = v /\ v >= 65536
    BY <1>1, <1>6
  <2>6. <<0, 128, 2048, 65536>>[4] = 65536
    OBVIOUS
  <2>7. D!Character(s) = v
    BY <2>2, <2>4, <2>5, <2>6 DEF D!Character
  <2> QED BY <2>3, <2>7 DEF s
<1> QED BY <1>3, <1>4, <1>5, <1>6

-----------------------------------------------------------------------------
(* Decoding in place is decoding into another buffer                        *)

Unread == SubSeq(mem, p, Len(mem))
Decoded == SubSeq(mem, 1, q - 1)

LEMMA PrefixMeans ==
  ASSUME NEW S, NEW s \in Seq(S), NEW T, NEW t \in Seq(T)
  PROVE  IsPrefix(s, t) <=> /\ Len(s) <= Len(t)
                            /\ \A i \in 1..Len(s) : s[i] = t[i]
<1>1. Len(s) \in Nat /\ Len(t) \in Nat
  BY LenProperties
<1>2. CASE Len(s) <= Len(t)
  <2> DEFINE s1 == SubSeq(s, 1, Len(s))
             t1 == SubSeq(t, 1, Len(s))
             R == S \cup T
  <2>1. \A i \in 1..Len(s) : s[i] \in R /\ t[i] \in R
    BY <1>1, <1>2, ElementOfSeq
  <2> HIDE DEF R
  <2>2. /\ s1 \in Seq(R) /\ Len(s1) = Len(s)
        /\ \A i \in 1..Len(s) : s1[i] = s[i]
    BY <1>1, <2>1, SubSeqProperties
  <2>3. /\ t1 \in Seq(R) /\ Len(t1) = Len(s)
        /\ \A i \in 1..Len(s) : t1[i] = t[i]
    BY <1>1, <2>1, SubSeqProperties
  <2> HIDE DEF s1, t1
  <2>4. s1 = t1 <=> \A i \in 1..Len(s) : s[i] = t[i]
    <3>1. ASSUME \A i \in 1..Len(s) : s[i] = t[i] PROVE s1 = t1
      <4>1. \A i \in 1..Len(s1) : s1[i] = t1[i]
        BY <2>2, <2>3, <3>1
      <4> QED BY <2>2, <2>3, <4>1, SeqEqual
    <3> QED BY <2>2, <2>3, <3>1
  <2> QED BY <1>2, <2>4 DEF IsPrefix, s1, t1
<1>3. CASE ~(Len(s) <= Len(t))
  BY <1>3 DEF IsPrefix
<1> QED BY <1>2, <1>3

LEMMA UnreadFacts ==
  ASSUME StrInv, p <= Len(mem)
  PROVE  /\ Unread \in Seq(1..255) /\ Unread # <<>>
         /\ Len(Unread) = Len(source) - p + 1
         /\ Len(source) = Len(mem) /\ Len(source) \in Nat
         /\ p \in 1..Len(source) /\ q \in 1..p
         /\ DOMAIN mem = 1..Len(source)
         /\ \A i \in 1..Len(Unread) : Unread[i] = mem[p + i - 1]
         /\ \A i \in 1..Len(Unread) : byte(p + i - 1) = Unread[i]
         /\ \A i \in Nat : i > Len(Unread) => byte(p + i - 1) = 0
         /\ Head(Unread) = Unread[1] /\ Unread[1] = mem[p] /\ byte(p) = mem[p]
<1>1. /\ source \in Seq(1..255) /\ Len(source) = Len(mem)
      /\ p \in 1..Len(source) /\ q \in 1..p /\ Len(source) \in Nat
      /\ DOMAIN mem = 1..Len(source)
      /\ \A i \in p..Len(source) : mem[i] = source[i]
  BY LenProperties DEF StrInv, InPlace
<1>2. ASSUME NEW i \in p..Len(mem) PROVE mem[i] \in 1..255
  <2>1. i \in 1..Len(source) /\ mem[i] = source[i]
    BY <1>1
  <2>2. source \in Seq(1..255)
    BY <1>1
  <2>3. source[i] \in 1..255
    BY <2>1, <2>2, ElementOfSeq, Zenon
  <2> QED BY <2>1, <2>3, Zenon
<1>3. /\ Unread \in Seq(1..255) /\ Len(Unread) = Len(source) - p + 1
      /\ \A i \in 1..Len(mem) - p + 1 : Unread[i] = mem[p + i - 1]
  <2>1. p \in Int /\ Len(mem) \in Int /\ p <= Len(mem)
    BY <1>1
  <2>2. /\ Unread \in Seq(1..255)
        /\ Len(Unread) = IF p <= Len(mem) THEN Len(mem) - p + 1 ELSE 0
        /\ \A i \in 1..Len(mem) - p + 1 : Unread[i] = mem[p + i - 1]
    BY <1>2, <2>1, SubSeqProperties DEF Unread
  <2> QED BY <1>1, <2>2
<1>4. \A i \in 1..Len(Unread) : Unread[i] = mem[p + i - 1] /\ p + i - 1 \in 1..Len(source)
  BY <1>1, <1>3
<1>5. \A i \in 1..Len(Unread) : byte(p + i - 1) = Unread[i]
  BY <1>1, <1>4 DEF byte
<1>6. \A i \in Nat : i > Len(Unread) => byte(p + i - 1) = 0
  BY <1>1, <1>3 DEF byte
<1>7. /\ Unread # <<>> /\ Head(Unread) = Unread[1] /\ 1 \in 1..Len(Unread)
      /\ p + 1 - 1 = p
  <2>1. Len(Unread) \in Nat \ {0} /\ 1 \in 1..Len(Unread) /\ p + 1 - 1 = p
    BY <1>1, <1>3
  <2>2. Unread # <<>> /\ Head(Unread) = Unread[1]
    BY <1>3, <2>1
  <2> QED BY <2>1, <2>2
<1>8. Unread[1] = mem[p] /\ byte(p) = Unread[1]
  BY <1>4, <1>5, <1>7
<1> QED BY <1>1, <1>3, <1>4, <1>5, <1>6, <1>7, <1>8

LEMMA Part ==
  ASSUME NEW S, NEW s, NEW m \in Int, NEW n \in Int, m <= n + 1,
         \A i \in m..n : s[i] \in S
  PROVE  /\ SubSeq(s, m, n) \in Seq(S) /\ Len(SubSeq(s, m, n)) = n - m + 1
         /\ \A i \in 1..n - m + 1 : SubSeq(s, m, n)[i] = s[m + i - 1]
<1>1. /\ SubSeq(s, m, n) \in Seq(S)
      /\ Len(SubSeq(s, m, n)) = IF m <= n THEN n - m + 1 ELSE 0
      /\ \A i \in 1..n - m + 1 : SubSeq(s, m, n)[i] = s[m + i - 1]
  BY SubSeqProperties
<1>2. ~(m <= n) => n - m + 1 = 0
  OBVIOUS
<1> QED BY <1>1, <1>2

LEMMA PlaceLeft ==
  ASSUME NEW L \in Nat, NEW a \in 1..L, NEW n \in Nat, a + n <= L + 1,
         NEW b \in 1..a, NEW k \in 0..n, NEW i \in 1..L - a - n + 1
  PROVE  /\ a + n + i - 1 \in 1..L /\ a + n + i - 1 >= b + k
         /\ n + i \in 1..L - a + 1 /\ n + 1 + i - 1 = n + i
         /\ a + (n + i) - 1 = a + n + i - 1
OBVIOUS

\* A step takes what it reads and puts what it writes.
LEMMA StepTakes ==
  ASSUME StrInv, p <= Len(mem),
         NEW n \in Nat, p + n <= Len(source) + 1,
         NEW T, NEW b \in Seq(T), Len(b) <= n,
         Step(n, b)
  PROVE  /\ Unread' = SubSeq(Unread, n + 1, Len(Unread))
         /\ Decoded' = Decoded \o b
         /\ flags' = flags
<1> DEFINE L == Len(source)
           S == {mem[i] : i \in 1..L} \cup T
<1>1. /\ L \in Nat /\ p \in 1..L /\ q \in 1..p /\ L = Len(mem)
      /\ DOMAIN mem = 1..L /\ Len(Unread) = L - p + 1
      /\ Unread \in Seq(1..255)
      /\ \A i \in 1..L - p + 1 : Unread[i] = mem[p + i - 1]
  BY UnreadFacts
<1>0. p + n <= L + 1
  OBVIOUS
<1>2. Len(b) \in Nat /\ Len(b) \in 0..n /\ \A i \in 1..Len(b) : b[i] \in T
  BY LenProperties, ElementOfSeq
<1>3. StrInv'
  BY <1>2, StepKeeps
<1>4. /\ p' = p + n /\ q' = q + Len(b) /\ flags' = flags /\ source' = source
      /\ mem' = [i \in DOMAIN mem |->
                   IF i \in q..q + Len(b) - 1 THEN b[i - q + 1] ELSE mem[i]]
  BY DEF Step, Written
<1>5. Len(mem') = L
  BY <1>3, <1>4 DEF StrInv, InPlace
<1>6. \A i \in 1..L : mem[i] \in S
  OBVIOUS
<1>7. \A i \in 1..L : mem'[i] = IF i \in q..q + Len(b) - 1 THEN b[i - q + 1]
                                ELSE mem[i]
  BY <1>1, <1>4
<1>8. \A i \in 1..L : mem'[i] \in S
  <2>1. ASSUME NEW i \in 1..L, i \in q..q + Len(b) - 1 PROVE b[i - q + 1] \in S
    <3>1. i - q + 1 \in 1..Len(b)
      BY <1>1, <1>2, <2>1
    <3> QED BY <1>2, <3>1
  <2> QED BY <1>6, <1>7, <2>1
<1> HIDE DEF S
<1>9. Unread' = SubSeq(Unread, n + 1, Len(Unread))
  <2> DEFINE u == SubSeq(mem', p', Len(mem'))
             v == SubSeq(Unread, n + 1, Len(Unread))
             k == L - p - n + 1
  <2>1. /\ k \in Nat /\ p' \in Int /\ L \in Int /\ n + 1 \in Int
        /\ p' <= L + 1 /\ L - p' + 1 = k
        /\ L - p + 1 \in Int /\ n + 1 <= (L - p + 1) + 1
        /\ (L - p + 1) - (n + 1) + 1 = k
    BY <1>1, <1>4
  <2>2. \A i \in p'..L : mem'[i] \in S
    <3>1. \A i \in p'..L : i \in 1..L
      <4>1. p' = p + n /\ p \in 1..L /\ L \in Nat
        BY <1>1, <1>4
      <4> HIDE DEF L
      <4> QED BY <4>1
    <3> QED BY <1>8, <3>1, Zenon
  <2>3. u \in Seq(S) /\ Len(u) = k /\ \A i \in 1..k : u[i] = mem'[p' + i - 1]
    <3>1. p' \in Int /\ L \in Int /\ p' <= L + 1
      BY <2>1
    <3>2. /\ SubSeq(mem', p', L) \in Seq(S)
          /\ Len(SubSeq(mem', p', L)) = L - p' + 1
          /\ \A i \in 1..L - p' + 1 : SubSeq(mem', p', L)[i] = mem'[p' + i - 1]
      <4> DEFINE a == mem'
                 first == p'
      <4>1. first \in Int /\ first <= L + 1 /\ \A i \in first..L : a[i] \in S
        BY <2>2, <3>1
      <4> HIDE DEF L, u, v, k, a, first
      <4>2. /\ SubSeq(a, first, L) \in Seq(S)
            /\ Len(SubSeq(a, first, L)) = L - first + 1
            /\ \A i \in 1..L - first + 1 :
                 SubSeq(a, first, L)[i] = a[first + i - 1]
        BY <3>1, <4>1, Part
      <4> QED BY <4>2 DEF a, first
    <3>3. L - p' + 1 = k
      BY <2>1
    <3> HIDE DEF L, v, k
    <3> QED BY <1>5, <3>2, <3>3
  <2>4. \A i \in n + 1..L - p + 1 : Unread[i] \in S
    <3>1. \A i \in n + 1..L - p + 1 : i \in 1..L - p + 1 /\ p + i - 1 \in 1..L
      BY <1>1
    <3> QED BY <1>1, <1>6, <3>1
  <2>5. /\ v \in Seq(S) /\ Len(v) = k
        /\ \A i \in 1..k : v[i] = Unread[n + 1 + i - 1]
    <3> DEFINE first == n + 1
               last == L - p + 1
    <3>1. /\ first \in Int /\ last \in Int /\ first <= last + 1
          /\ last - first + 1 = k /\ Len(Unread) = last
          /\ \A i \in first..last : Unread[i] \in S
      BY <1>1, <2>1, <2>4
    <3> HIDE DEF L, u, v, k, first, last
    <3>2. /\ SubSeq(Unread, first, last) \in Seq(S)
          /\ Len(SubSeq(Unread, first, last)) = last - first + 1
          /\ \A i \in 1..last - first + 1 :
               SubSeq(Unread, first, last)[i] = Unread[first + i - 1]
      BY <3>1, Part
    <3>3. v = SubSeq(Unread, first, last)
      BY <3>1 DEF v, first
    <3> QED BY <3>1, <3>2, <3>3 DEF first
  <2>8. ASSUME NEW i \in 1..k PROVE u[i] = v[i]
    <3>1. /\ p + n + i - 1 \in 1..L /\ p + n + i - 1 >= q + Len(b)
          /\ n + i \in 1..L - p + 1 /\ n + 1 + i - 1 = n + i
          /\ p + (n + i) - 1 = p + n + i - 1
      <4> HIDE DEF L
      <4> QED BY <1>1, <1>2, PlaceLeft
    <3>2. mem'[p + n + i - 1] = mem[p + n + i - 1]
      <4>1. p + n + i - 1 \notin q..q + Len(b) - 1
        <5>1. /\ p \in Nat /\ q \in Nat /\ Len(b) \in Nat /\ i \in Nat
              /\ p + n + i - 1 >= q + Len(b)
          BY <1>1, <1>2, <3>1
        <5> HIDE DEF L, u, v, k
        <5> QED BY <5>1
      <4>2. p + n + i - 1 \in 1..L
        BY <3>1
      <4> HIDE DEF L, u, v, k
      <4> QED BY <1>7, <4>1, <4>2, Zenon
    <3>3. Unread[n + i] = mem[p + n + i - 1]
      BY <1>1, <3>1
    <3> QED BY <1>4, <2>3, <2>5, <3>1, <3>2, <3>3
  <2> HIDE DEF u, v, k
  <2>9. u = v
    BY <2>3, <2>5, <2>8, SeqEqual
  <2> QED BY <2>9 DEF Unread, u, v
<1>10. Decoded' = Decoded \o b
  <2> DEFINE u == SubSeq(mem', 1, q' - 1)
             m == q - 1
  <2>0. m \in Nat /\ m <= L /\ q' - 1 = m + Len(b) /\ m + Len(b) \in Nat
        /\ m + Len(b) <= L
    BY <1>1, <1>2, <1>4
  <2>1. \A i \in 1..q' - 1 : mem'[i] \in S
    BY <1>1, <1>8, <2>0
  <2>2. /\ u \in Seq(S) /\ Len(u) = m + Len(b)
        /\ \A i \in 1..m + Len(b) : u[i] = mem'[i]
    <3>1. /\ u \in Seq(S) /\ Len(u) = q' - 1 - 1 + 1
          /\ \A i \in 1..q' - 1 - 1 + 1 : u[i] = mem'[1 + i - 1]
      BY <2>0, <2>1, Part
    <3> QED BY <2>0, <3>1
  <2>3. /\ Decoded \in Seq(S) /\ Len(Decoded) = m
        /\ \A i \in 1..m : Decoded[i] = mem[i]
    <3>1. \A i \in 1..q - 1 : mem[i] \in S
      BY <1>1, <1>6
    <3>2. /\ Decoded \in Seq(S) /\ Len(Decoded) = q - 1 - 1 + 1
          /\ \A i \in 1..q - 1 - 1 + 1 : Decoded[i] = mem[1 + i - 1]
      BY <1>1, <3>1, Part DEF Decoded
    <3> QED BY <1>1, <3>2
  <2>4. b \in Seq(S)
    <3>1. T \subseteq S
      BY DEF S
    <3> QED BY <3>1, SeqMonotonic
  <2>5. /\ Decoded \o b \in Seq(S) /\ Len(Decoded \o b) = m + Len(b)
        /\ \A i \in 1..m + Len(b) : (Decoded \o b)[i] =
             IF i <= m THEN Decoded[i] ELSE b[i - m]
    <3>1. /\ Decoded \o b \in Seq(S)
          /\ Len(Decoded \o b) = Len(Decoded) + Len(b)
          /\ \A i \in 1..Len(Decoded) + Len(b) : (Decoded \o b)[i] =
               IF i <= Len(Decoded) THEN Decoded[i] ELSE b[i - Len(Decoded)]
      BY <2>3, <2>4, ConcatProperties
    <3> QED BY <2>3, <3>1
  <2>6. ASSUME NEW i \in 1..m + Len(b) PROVE u[i] = (Decoded \o b)[i]
    <3>1. i \in 1..L
      BY <1>1, <2>0
    <3>2. CASE i <= m
      <4>1. i \in 1..m /\ i \notin q..q + Len(b) - 1
        BY <1>1, <1>2, <3>2
      <4>2. mem'[i] = mem[i]
        BY <1>7, <3>1, <4>1, Zenon
      <4>3. (Decoded \o b)[i] = Decoded[i] /\ Decoded[i] = mem[i]
        BY <2>3, <2>5, <3>2, <4>1
      <4> QED BY <2>2, <4>2, <4>3
    <3>3. CASE ~(i <= m)
      <4>1. i \in q..q + Len(b) - 1 /\ i - q + 1 = i - m
        BY <1>1, <1>2, <3>3
      <4> QED BY <1>7, <2>2, <2>5, <3>1, <3>3, <4>1
    <3> QED BY <3>2, <3>3
  <2> HIDE DEF u, m
  <2>7. u = Decoded \o b
    BY <2>2, <2>5, <2>6, SeqEqual
  <2> QED BY <2>7 DEF Decoded, u
<1> QED BY <1>4, <1>9, <1>10

-----------------------------------------------------------------------------
\* Decoder has the operators on sequences of its own.
LEMMA SameOperators ==
  ASSUME NEW s, NEW t
  PROVE  /\ D!IsPrefix(s, t) <=> IsPrefix(s, t)
         /\ D!Last(s) = Last(s) /\ D!ToSet(s) = ToSet(s)
BY DEF D!IsPrefix, IsPrefix, D!Last, Last, D!ToSet, ToSet

LEMMA OneElement ==
  ASSUME NEW x PROVE <<x>> \in Seq({x}) /\ Len(<<x>>) = 1
OBVIOUS

\* A beginning of two or three bytes
LEMMA BeginsWithTwo ==
  ASSUME NEW T, NEW t \in Seq(T), NEW a \in Nat, NEW b \in Nat
  PROVE  IsPrefix(<<a, b>>, t) <=> Len(t) >= 2 /\ t[1] = a /\ t[2] = b
<1> DEFINE s == <<a, b>>
<1>1. s \in Seq(Nat) /\ Len(s) = 2 /\ s[1] = a /\ s[2] = b /\ Len(t) \in Nat
  BY LenProperties
<1> HIDE DEF s
<1>2. s \in Seq(Nat)
  BY <1>1, Zenon
<1>3. IsPrefix(s, t) <=> Len(s) <= Len(t) /\ \A i \in 1..Len(s) : s[i] = t[i]
  BY <1>2, PrefixMeans, Zenon
<1>4. IsPrefix(s, t) <=> Len(t) >= 2 /\ t[1] = a /\ t[2] = b
  BY <1>1, <1>3
<1> QED BY <1>4 DEF s

LEMMA BeginsWithThree ==
  ASSUME NEW T, NEW t \in Seq(T), NEW a \in Nat, NEW b \in Nat, NEW c \in Nat
  PROVE  IsPrefix(<<a, b, c>>, t) <=>
           Len(t) >= 3 /\ t[1] = a /\ t[2] = b /\ t[3] = c
<1> DEFINE s == <<a, b, c>>
<1>1. /\ s \in Seq(Nat) /\ Len(s) = 3
      /\ s[1] = a /\ s[2] = b /\ s[3] = c /\ Len(t) \in Nat
  BY LenProperties
<1> HIDE DEF s
<1>2. s \in Seq(Nat)
  BY <1>1, Zenon
<1>3. IsPrefix(s, t) <=> Len(s) <= Len(t) /\ \A i \in 1..Len(s) : s[i] = t[i]
  BY <1>2, PrefixMeans, Zenon
<1>4. IsPrefix(s, t) <=> Len(t) >= 3 /\ t[1] = a /\ t[2] = b /\ t[3] = c
  BY <1>1, <1>3
<1> QED BY <1>4 DEF s

LEMMA NewlineDecodes ==
  ASSUME StrInv, p <= Len(mem), NewlineNormalization
  PROVE  D!Newline /\ flags' = flags
<1> DEFINE other == IF byte(p) = CR THEN LF ELSE CR
           n == IF byte(p + 1) = other THEN 2 ELSE 1
<1>1. /\ Unread \in Seq(1..255) /\ Len(Unread) = Len(source) - p + 1
      /\ Len(source) \in Nat /\ p \in 1..Len(source)
      /\ Head(Unread) = Unread[1] /\ byte(p) = Unread[1]
      /\ \A i \in 1..Len(Unread) : byte(p + i - 1) = Unread[i]
      /\ \A i \in Nat : i > Len(Unread) => byte(p + i - 1) = 0
  BY UnreadFacts
<1>2. /\ "newline" \in flags /\ Unread[1] \in {13, 10} /\ Step(n, <<10>>)
  BY <1>1 DEF NewlineNormalization, Normalises, CR, LF
<1>3. /\ Len(Unread) >= 2 => byte(p + 1) = Unread[2]
      /\ ~(Len(Unread) >= 2) => byte(p + 1) = 0
  <2>1. p + 2 - 1 = p + 1 /\ Len(Unread) \in Nat
    BY <1>1
  <2>2. ASSUME Len(Unread) >= 2 PROVE byte(p + 1) = Unread[2]
    <3>1. 2 \in 1..Len(Unread)
      BY <2>1, <2>2
    <3>2. byte(p + 2 - 1) = Unread[2]
      BY <1>1, <3>1
    <3> QED BY <2>1, <3>2
  <2>3. ASSUME ~(Len(Unread) >= 2) PROVE byte(p + 1) = 0
    <3>1. 2 \in Nat /\ 2 > Len(Unread)
      BY <2>1, <2>3
    <3>2. byte(p + 2 - 1) = 0
      BY <1>1, <3>1
    <3> QED BY <2>1, <3>2
  <2> QED BY <2>2, <2>3
<1>4. /\ IsPrefix(<<13, 10>>, Unread) <=>
           Len(Unread) >= 2 /\ Unread[1] = 13 /\ Unread[2] = 10
      /\ IsPrefix(<<10, 13>>, Unread) <=>
           Len(Unread) >= 2 /\ Unread[1] = 10 /\ Unread[2] = 13
  BY <1>1, BeginsWithTwo
<1>5. other = IF Unread[1] = 13 THEN 10 ELSE 13
  BY <1>1 DEF CR, LF
<1>6. n = 2 => p + 2 <= Len(source) + 1
  BY <1>1, <1>3, <1>5
<1>7. n \in {1, 2} /\ p + n <= Len(source) + 1
  BY <1>1, <1>6
<1>8. /\ Unread' = SubSeq(Unread, n + 1, Len(Unread))
      /\ Decoded' = Decoded \o <<10>> /\ flags' = flags
  <2>1. n \in Nat /\ <<10>> \in Seq(Nat) /\ Len(<<10>>) <= n
    BY <1>7
  <2> HIDE DEF n
  <2> QED BY <1>2, <1>7, <2>1, StepTakes
<1>9. CASE n = 2
  <2>1. IsPrefix(<<13, 10>>, Unread) \/ IsPrefix(<<10, 13>>, Unread)
    BY <1>2, <1>3, <1>4, <1>5, <1>9
  <2> QED BY <1>2, <1>8, <1>9, <2>1, SameOperators
          DEF D!Newline, D!StartsWith, D!Take, D!CR, D!LF, Unread, Decoded
<1>10. CASE n = 1
  <2>1. ~IsPrefix(<<13, 10>>, Unread) /\ ~IsPrefix(<<10, 13>>, Unread)
    BY <1>2, <1>3, <1>4, <1>5, <1>10
  <2>2. Head(Unread) \in {13, 10}
    BY <1>1, <1>2
  <2> QED BY <1>2, <1>8, <1>10, <2>1, <2>2, SameOperators
          DEF D!Newline, D!StartsWith, D!Take, D!CR, D!LF, Unread, Decoded
<1> QED BY <1>7, <1>8, <1>9, <1>10

LEMMA EntityDecodes ==
  ASSUME StrInv, p <= Len(mem), Entity
  PROVE  D!Named /\ flags' = flags
<1>1. PICK s \in DOMAIN EntityValue :
        Found(s) /\ Step(Len(s), <<EntityValue[s]>>)
  BY DEF Entity
<1>2. /\ Len(s) \in Nat /\ p + Len(s) <= Len(source) + 1
      /\ <<EntityValue[s]>> \in Seq({EntityValue[s]})
      /\ Len(<<EntityValue[s]>>) <= Len(s)
  <2>1. Len(s) \in {4, 5, 6}
    BY EntityLength
  <2>2. p + Len(s) <= Len(source) + 1
    BY <1>1, FoundFits
  <2>3. /\ <<EntityValue[s]>> \in Seq({EntityValue[s]})
        /\ Len(<<EntityValue[s]>>) = 1
    BY OneElement
  <2>4. Len(s) \in Nat /\ Len(<<EntityValue[s]>>) <= Len(s)
    <3> DEFINE e == EntityValue[s]
               l == Len(s)
    <3>1. l \in {4, 5, 6} /\ Len(<<e>>) = 1
      BY <2>1, <2>3
    <3> HIDE DEF e, l
    <3>2. l \in Nat /\ Len(<<e>>) <= l
      BY <3>1
    <3> QED BY <3>2 DEF e, l
  <2> QED BY <2>2, <2>3, <2>4, Zenon
<1>3. /\ Unread' = SubSeq(Unread, Len(s) + 1, Len(Unread))
      /\ Decoded' = Decoded \o <<EntityValue[s]>> /\ flags' = flags
  BY <1>1, <1>2, StepTakes
<1>4. IsPrefix(s, Unread) /\ "entity" \in flags
  BY <1>1 DEF Found, Unread, Entity, HasEntity
<1>5. D!IsPrefix(s, Unread)
  BY <1>4, SameOperators
<1> QED BY <1>3, <1>4, <1>5
        DEF D!Named, D!StartsWith, D!Take, Unread, Decoded

LEMMA CopyDecodes ==
  ASSUME StrInv, p <= Len(mem), Copy
  PROVE  D!Plain /\ flags' = flags
<1>1. /\ Head(Unread) = mem[p] /\ byte(p) = mem[p]
      /\ p \in 1..Len(source) /\ Len(source) \in Nat
  BY UnreadFacts
<1>2. /\ 1 \in Nat /\ p + 1 <= Len(source) + 1
      /\ <<mem[p]>> \in Seq({mem[p]}) /\ Len(<<mem[p]>>) <= 1
  BY <1>1
<1>3. /\ Unread' = SubSeq(Unread, 1 + 1, Len(Unread))
      /\ Decoded' = Decoded \o <<mem[p]>> /\ flags' = flags
  BY <1>2, StepTakes DEF Copy
<1>4. /\ ~("newline" \in flags /\ Head(Unread) \in {13, 10})
      /\ ~("entity" \in flags /\ Head(Unread) = 38)
  BY <1>1 DEF Copy, Normalises, HasEntity, CR, LF, AMP
<1> QED BY <1>1, <1>3, <1>4
        DEF D!Plain, D!Take, D!CR, D!LF, D!Ampersand, Unread, Decoded

LEMMA UnknownDecodes ==
  ASSUME StrInv, p <= Len(mem), UnknownEntity
  PROVE  D!Unknown /\ flags' = flags
<1>1. /\ Unread \in Seq(1..255) /\ Head(Unread) = Unread[1]
      /\ Len(Unread) = Len(source) - p + 1 /\ Len(mem) = Len(source)
      /\ byte(p) = Unread[1] /\ p \in 1..Len(source) /\ q \in 1..p
      /\ Len(source) \in Nat /\ DOMAIN mem = 1..Len(source)
      /\ \A i \in 1..Len(Unread) : Unread[i] = mem[p + i - 1]
      /\ \A i \in 1..Len(Unread) : byte(p + i - 1) = Unread[i]
  BY UnreadFacts
<1>2. p' = p + 1 /\ q' = q + 1 /\ mem' = mem /\ flags' = flags
  BY DEF UnknownEntity
<1>3. "entity" \in flags /\ Head(Unread) = 38
  BY <1>1 DEF UnknownEntity, HasEntity, AMP
<1>4. ~IsPrefix(<<38, 35>>, Unread)
  <2>1. Len(Unread) >= 2 => Unread[2] # 35
    <3>1. p + 2 - 1 = p + 1 /\ Len(Unread) \in Nat
      BY <1>1
    <3>2. Len(Unread) >= 2 => byte(p + 1) = Unread[2]
      BY <1>1, <3>1
    <3> QED BY <3>2 DEF UnknownEntity, HASH
  <2>2. IsPrefix(<<38, 35>>, Unread) <=>
           Len(Unread) >= 2 /\ Unread[1] = 38 /\ Unread[2] = 35
    BY <1>1, BeginsWithTwo
  <2> QED BY <2>1, <2>2
<1>5. ~\E s \in DOMAIN EntityValue : IsPrefix(s, Unread)
  BY DEF UnknownEntity, Found, Unread
<1>6. Unread' = SubSeq(Unread, 2, Len(Unread))
  <2> DEFINE k == Len(source) - p
             S == {mem[i] : i \in 1..Len(source)}
  <2>1. /\ k \in Nat /\ p + 1 \in Int /\ Len(mem) \in Int /\ p + 1 <= Len(mem) + 1
        /\ Len(mem) - (p + 1) + 1 = k
        /\ Len(Unread) \in Int /\ 2 <= Len(Unread) + 1 /\ 2 \in Int
        /\ Len(Unread) - 2 + 1 = k
    BY <1>1
  <2>2. \A i \in p + 1..Len(mem) : mem[i] \in S
    BY <1>1
  <2>3. ASSUME NEW i \in 2..Len(Unread) PROVE Unread[i] \in 1..255
    <3>1. i \in 1..Len(Unread) /\ Unread \in Seq(1..255)
      BY <1>1, <2>1
    <3> QED BY <3>1, ElementOfSeq
  <2> HIDE DEF S
  <2>4. /\ SubSeq(mem, p + 1, Len(mem)) \in Seq(S)
        /\ Len(SubSeq(mem, p + 1, Len(mem))) = k
        /\ \A i \in 1..k : SubSeq(mem, p + 1, Len(mem))[i] = mem[p + 1 + i - 1]
    BY <2>1, <2>2, Part
  <2>5. /\ SubSeq(Unread, 2, Len(Unread)) \in Seq(1..255)
        /\ Len(SubSeq(Unread, 2, Len(Unread))) = k
        /\ \A i \in 1..k : SubSeq(Unread, 2, Len(Unread))[i] = Unread[2 + i - 1]
    BY <2>1, <2>3, Part
  <2>6. ASSUME NEW i \in 1..k
        PROVE  mem[p + 1 + i - 1] = Unread[2 + i - 1]
    <3>1. 2 + i - 1 \in 1..Len(Unread) /\ p + (2 + i - 1) - 1 = p + 1 + i - 1
      BY <1>1
    <3> QED BY <1>1, <3>1
  <2> DEFINE u == SubSeq(mem, p + 1, Len(mem))
             v == SubSeq(Unread, 2, Len(Unread))
  <2>7. \A i \in 1..k : u[i] = v[i]
    BY <2>4, <2>5, <2>6
  <2>8. u \in Seq(S \cup (1..255)) /\ v \in Seq(S \cup (1..255))
    <3>1. S \subseteq S \cup (1..255) /\ 1..255 \subseteq S \cup (1..255)
      OBVIOUS
    <3> HIDE DEF u, v
    <3>2. u \in Seq(S) /\ v \in Seq(1..255)
      BY <2>4, <2>5 DEF u, v
    <3> QED BY <3>1, <3>2, SeqMonotonic
  <2>9. Len(u) = k /\ Len(v) = k
    BY <2>4, <2>5
  <2> HIDE DEF u, v, k
  <2>10. u = v
    BY <2>7, <2>8, <2>9, SeqEqual
  <2> QED BY <1>2, <2>10 DEF Unread, u, v
<1>7. Decoded' = Decoded \o <<Last(Decoded')>>
  <2> DEFINE S == {mem[i] : i \in 1..Len(source)}
             x == mem[q]
  <2>1. Decoded' = SubSeq(mem, 1, q)
    <3>1. q' - 1 = q
      BY <1>1, <1>2
    <3> QED BY <1>2, <3>1 DEF Decoded
  <2>2. \A i \in 1..q : mem[i] \in S
    BY <1>1
  <2>3. <<x>> \in Seq(S) /\ Len(<<x>>) = 1 /\ <<x>>[1] = x
    BY <1>1, <2>2
  <2> HIDE DEF S, x
  <2>4. q \in Nat /\ q - 1 + 1 = q /\ 1 <= q + 1 /\ q - 1 - 1 + 1 = q - 1
        /\ q - 1 \in Nat /\ q \in Int /\ q - 1 \in Int /\ 1 <= q - 1 + 1
    BY <1>1
  <2>5. /\ Decoded' \in Seq(S) /\ Len(Decoded') = q
        /\ \A i \in 1..q : Decoded'[i] = mem[i]
    <3>1. /\ SubSeq(mem, 1, q) \in Seq(S) /\ Len(SubSeq(mem, 1, q)) = q - 1 + 1
          /\ \A i \in 1..q - 1 + 1 : SubSeq(mem, 1, q)[i] = mem[1 + i - 1]
      BY <2>2, <2>4, Part
    <3> QED BY <2>1, <2>4, <3>1
  <2>6. /\ Decoded \in Seq(S) /\ Len(Decoded) = q - 1
        /\ \A i \in 1..q - 1 : Decoded[i] = mem[i]
    <3>1. \A i \in 1..q - 1 : mem[i] \in S
      BY <2>2, <2>4
    <3>2. /\ Decoded \in Seq(S) /\ Len(Decoded) = q - 1 - 1 + 1
          /\ \A i \in 1..q - 1 - 1 + 1 : Decoded[i] = mem[1 + i - 1]
      BY <2>4, <3>1, Part DEF Decoded
    <3>3. q - 1 - 1 + 1 = q - 1 /\ \A i \in 1..q - 1 : 1 + i - 1 = i
      BY <2>4
    <3> QED BY ONLY <3>2, <3>3
  <2> DEFINE t == Decoded \o <<x>>
  <2>7. /\ t \in Seq(S) /\ Len(t) = q
        /\ \A i \in 1..q : t[i] = IF i <= q - 1 THEN Decoded[i] ELSE x
    <3>1. /\ t \in Seq(S) /\ Len(t) = Len(Decoded) + Len(<<x>>)
          /\ \A i \in 1..Len(Decoded) + Len(<<x>>) :
               t[i] = IF i <= Len(Decoded) THEN Decoded[i]
                      ELSE <<x>>[i - Len(Decoded)]
      BY <2>3, <2>6, ConcatProperties
    <3>2. Len(Decoded) + Len(<<x>>) = q
      BY <2>3, <2>4, <2>6
    <3>3. \A i \in 1..q : ~(i <= q - 1) => i - (q - 1) = 1
      BY <2>4
    <3> HIDE DEF t
    <3> QED BY <2>3, <2>6, <3>1, <3>2, <3>3
  <2>8. ASSUME NEW i \in 1..q PROVE Decoded'[i] = t[i]
    <3>1. i <= q - 1 => i \in 1..q - 1
      BY <2>4
    <3>2. ~(i <= q - 1) => i = q
      BY <2>4
    <3> HIDE DEF t
    <3> QED BY <2>5, <2>6, <2>7, <3>1, <3>2 DEF x
  <2> HIDE DEF t
  <2>9. Decoded' = t
    BY <2>5, <2>7, <2>8, SeqEqual
  <2>10. Last(Decoded') = x
    BY <2>4, <2>5 DEF Last, x
  <2> QED BY <2>9, <2>10 DEF t
<1>8. ~D!IsPrefix(<<38, 35>>, Unread) /\ D!Last(Decoded') = Last(Decoded')
  BY <1>4, SameOperators
<1>9. ~\E s \in DOMAIN EntityValue : D!IsPrefix(s, Unread)
  BY <1>5, SameOperators
<1>10. /\ Head(SubSeq(mem, p, Len(mem))) = D!Ampersand
       /\ ~D!StartsWith(<<D!Ampersand, D!Hash>>)
       /\ ~\E s \in DOMAIN EntityValue : D!StartsWith(s)
  BY <1>3, <1>8, <1>9 DEF D!StartsWith, D!Ampersand, D!Hash, Unread
<1>11. D!Take(1, <<D!Last(Decoded')>>)
  <2>1. 1 + 1 = 2
    OBVIOUS
  <2> QED BY <1>6, <1>7, <1>8, <2>1 DEF D!Take, Unread, Decoded
<1> QED BY <1>2, <1>3, <1>10, <1>11 DEF D!Unknown, Decoded

-----------------------------------------------------------------------------
LEMMA NoEnd == ASSUME NEW x \in 1..255 PROVE x # 0
OBVIOUS

\* Where the number that Decoder finds is, the code finds it too, and no other.
LEMMA ReferenceOf ==
  ASSUME StrInv, p <= Len(mem), NEW base \in {10, 16},
         NEW n \in 1..Len(Unread), D!Numbered(base, n)
  PROVE  LET k == IF base = 16 THEN 3 ELSE 2
             s == SubSeq(Unread, k + 1, n - 1)
         IN /\ Len(D!Before(base)) = k
            /\ byte(p + 2) # 0
            /\ radix = base
            /\ References = {<<p + k - 1, p + n - 1>>}
            /\ SubSeq(mem, p + k, p + n - 2) = s
            /\ s # <<>> /\ Len(s) \in Nat
            /\ \A i \in 1..Len(s) : s[i] \in D!DigitsOf(base)
<1> DEFINE k == IF base = 16 THEN 3 ELSE 2
           s == SubSeq(Unread, k + 1, n - 1)
           start == p + k - 1
           end == p + n - 1
<1>1. /\ Unread \in Seq(1..255) /\ Len(Unread) = Len(source) - p + 1
      /\ Len(source) = Len(mem) /\ Len(source) \in Nat /\ p \in 1..Len(source)
      /\ \A i \in 1..Len(Unread) : Unread[i] = mem[p + i - 1]
      /\ \A i \in 1..Len(Unread) : byte(p + i - 1) = Unread[i]
  BY UnreadFacts
<1>2. /\ k \in {2, 3} /\ n \in Nat /\ Len(Unread) \in Nat /\ n <= Len(Unread)
      /\ n >= 1
  BY <1>1
<1>3. Len(D!Before(base)) = k
  BY DEF D!Before, D!Ampersand, D!Hash, D!SmallX
<1>4. /\ D!StartsWith(D!Before(base)) /\ s # <<>>
      /\ D!ToSet(s) \subseteq D!DigitsOf(base) /\ Unread[n] = 59
  BY <1>3 DEF D!Numbered, D!Semicolon, Unread
<1>5. /\ Len(Unread) >= k /\ Unread[1] = 38 /\ Unread[2] = 35
      /\ base = 16 => Unread[3] = 120
  <2>1. IsPrefix(D!Before(base), Unread)
    BY <1>4, SameOperators DEF D!StartsWith, Unread
  <2>2. CASE base = 16
    <3>1. IsPrefix(<<38, 35, 120>>, Unread)
      BY <2>1, <2>2 DEF D!Before, D!Ampersand, D!Hash, D!SmallX
    <3> QED BY <1>1, <2>2, <3>1, BeginsWithThree
  <2>3. CASE base # 16
    <3>1. IsPrefix(<<38, 35>>, Unread)
      BY <2>1, <2>3 DEF D!Before, D!Ampersand, D!Hash, D!SmallX
    <3> QED BY <1>1, <2>3, <3>1, BeginsWithTwo
  <2> QED BY <2>2, <2>3
<1>6. k + 1 <= n - 1
  <2>1. n - 1 < k + 1 => s = <<>>
    BY <1>2, SubSeqEmpty
  <2> QED BY <1>2, <1>4, <2>1
<1>7. /\ s \in Seq(1..255) /\ Len(s) = n - 1 - k
      /\ \A i \in 1..n - 1 - k : s[i] = Unread[k + i]
  <2>1. ASSUME NEW i \in k + 1..n - 1 PROVE Unread[i] \in 1..255
    <3>1. i \in 1..Len(Unread)
      BY <1>2
    <3> QED BY <1>1, <3>1, ElementOfSeq
  <2>2. /\ k + 1 \in Int /\ n - 1 \in Int /\ k + 1 <= n - 1 + 1
        /\ n - 1 - (k + 1) + 1 = n - 1 - k
    BY <1>2, <1>6
  <2> HIDE DEF k
  <2>3. /\ s \in Seq(1..255) /\ Len(s) = n - 1 - (k + 1) + 1
        /\ \A i \in 1..n - 1 - (k + 1) + 1 : s[i] = Unread[k + 1 + i - 1]
    BY <2>1, <2>2, Part
  <2>4. \A i \in 1..n - 1 - k : k + 1 + i - 1 = k + i
    BY <1>2
  <2> HIDE DEF s
  <2> QED BY <2>2, <2>3, <2>4
<1>8. \A i \in 1..Len(s) : s[i] \in D!DigitsOf(base)
  <2>1. DOMAIN s = 1..Len(s)
    BY <1>7, LenProperties
  <2> HIDE DEF s
  <2> QED BY <1>4, <2>1 DEF D!ToSet
<1> HIDE DEF k, s
<1>9. ASSUME NEW j \in p + k..p + n - 2
      PROVE  /\ mem[j] \in D!DigitsOf(base)
             /\ mem[j] \notin {35, 59, 120}
             /\ digitOf(mem[j], base) # -1
  <2>1. /\ j - p - k + 1 \in 1..Len(s) /\ k + (j - p - k + 1) = j - p + 1
        /\ j - p + 1 \in 1..Len(Unread) /\ p + (j - p + 1) - 1 = j
    BY <1>1, <1>2, <1>6, <1>7
  <2>2. mem[j] \in D!DigitsOf(base)
    <3>1. s[j - p - k + 1] = Unread[j - p + 1]
      BY <1>7, <2>1
    <3>2. Unread[j - p + 1] = mem[j]
      BY <1>1, <2>1
    <3> QED BY <1>8, <2>1, <3>1, <3>2
  <2> QED BY <2>2, DigitFacts DEF HASH, SEMICOLON, SMALL_X
<1>10. /\ mem[p + 1] = 35 /\ byte(p + 2) = Unread[3] /\ mem[p + 2] = Unread[3]
       /\ mem[end] = 59
  <2>1. /\ p + 2 - 1 = p + 1 /\ p + 3 - 1 = p + 2
        /\ 2 \in 1..Len(Unread) /\ 3 \in 1..Len(Unread)
    BY <1>1, <1>2, <1>6
  <2>2. mem[p + 2 - 1] = 35 /\ byte(p + 3 - 1) = Unread[3]
        /\ mem[p + 3 - 1] = Unread[3]
    BY <1>1, <1>5, <2>1
  <2>3. mem[p + n - 1] = Unread[n]
    BY <1>1
  <2> QED BY <1>4, <2>1, <2>2, <2>3
<1>11. byte(p + 2) # 0
  <2>1. 3 \in 1..Len(Unread)
    BY <1>2, <1>6
  <2>2. Unread[3] \in 1..255
    <3>1. Unread \in Seq(1..255)
      BY <1>1
    <3> QED BY <2>1, <3>1, ElementOfSeq
  <2>3. byte(p + 2) = Unread[3]
    BY <1>10
  <2>4. byte(p + 2) \in 1..255
    BY <2>2, <2>3, Zenon
  <2> QED BY <2>4, NoEnd, Zenon
<1>12. /\ radix = base /\ mark = IF base = 16 THEN 120 ELSE 35
       /\ mem[start] = mark
       /\ base = 16 => mem[p + 2] = 120
  <2>1. CASE base = 16
    <3>1. k = 3 /\ p + 3 - 1 = p + 2
      BY <1>1, <2>1 DEF k
    <3> QED BY <1>5, <1>10, <2>1, <3>1 DEF radix, mark, SMALL_X, HASH
  <2>2. CASE base # 16
    <3>1. k = 2 /\ p + 2 - 1 = p + 1 /\ p + 2 \in p + k..p + n - 2
      BY <1>1, <1>2, <1>6, <2>2 DEF k
    <3>2. mem[p + 2] # 120
      BY <1>9, <3>1
    <3> QED BY <1>10, <2>2, <3>1, <3>2 DEF radix, mark, SMALL_X, HASH
  <2> QED BY <2>1, <2>2
<1>13. /\ start \in p + 1..Len(mem) /\ end \in p + 2..Len(mem) /\ start < end
       /\ start + 1 = p + k /\ end - 1 = p + n - 2
       /\ \A i \in p + 2..end - 1 :
            i \in p + k..p + n - 2 \/ (k = 3 /\ i = p + 2)
       /\ \A i \in p + 1..end - 1 :
            i \in p + k..p + n - 2 \/ i = start \/ (k = 3 /\ i = p + 1)
  <2>1. p \in Nat /\ n \in Nat /\ p + n - 1 <= Len(mem) /\ Len(mem) \in Nat
        /\ p >= 1 /\ k + 2 <= n
    BY <1>1, <1>2, <1>6
  <2>2. CASE k = 2
    BY <2>1, <2>2
  <2>3. CASE k = 3
    BY <2>1, <2>3
  <2> QED BY <1>2, <2>2, <2>3
<1>14. \A i \in p + 2..end - 1 : mem[i] # 59
  <2>1. k = 3 => base = 16
    BY DEF k
  <2> SUFFICES ASSUME NEW i \in p + 2..end - 1 PROVE mem[i] # 59
    OBVIOUS
  <2>2. CASE i \in p + k..p + n - 2
    BY <1>9, <2>2
  <2>3. CASE k = 3 /\ i = p + 2
    <3>1. mem[p + 2] = 120
      BY <1>12, <2>1, <2>3
    <3> QED BY <2>3, <3>1
  <2> HIDE DEF end, k
  <2> QED BY <1>13, <2>2, <2>3
<1>15. <<start, end>> \in References
  <2> HIDE DEF start, end
  <2> QED BY <1>9, <1>10, <1>12, <1>13, <1>14 DEF References, SEMICOLON
<1>16. ASSUME NEW r \in References PROVE r = <<start, end>>
  <2> DEFINE a == r[1]
             e == r[2]
  <2>1. /\ r = <<a, e>> /\ a \in p + 1..Len(mem) /\ e \in p + 2..Len(mem)
        /\ a < e /\ mem[a] = mark /\ mem[e] = 59
        /\ \A i \in p + 2..e - 1 : mem[i] # 59
    BY DEF References, SEMICOLON
  <2> HIDE DEF a, e
  <2>2. e = end
    <3>1. end \in Int /\ e \in Int /\ p \in Int /\ end >= p + 2 /\ e >= p + 2
      BY <1>1, <1>13, <2>1
    <3>2. CASE end < e
      <4>1. end \in p + 2..e - 1
        BY <3>1, <3>2
      <4> QED BY <1>10, <2>1, <4>1
    <3>3. CASE e < end
      <4>1. e \in p + 2..end - 1
        BY <3>1, <3>3
      <4> QED BY <1>14, <2>1, <4>1
    <3> HIDE DEF end
    <3> QED BY <3>1, <3>2, <3>3
  <2>3. a = start
    <3>1. a \in p + 1..end - 1
      BY <1>1, <1>13, <2>1, <2>2
    <3>2. k = 3 => base = 16
      BY DEF k
    <3>3. mark \in {35, 120}
      BY <1>12
    <3>4. CASE a \in p + k..p + n - 2
      BY <1>9, <2>1, <3>3, <3>4
    <3>5. CASE k = 3 /\ a = p + 1
      BY <1>10, <1>12, <2>1, <3>2, <3>5
    <3> HIDE DEF start, end
    <3> QED BY <1>13, <3>1, <3>4, <3>5
  <2> QED BY <2>1, <2>2, <2>3
<1>17. References = {<<start, end>>}
  <2> HIDE DEF start, end
  <2> QED BY <1>15, <1>16
<1>18. SubSeq(mem, p + k, p + n - 2) = s
  <2> DEFINE lo == p + k
             hi == p + n - 2
             u == SubSeq(mem, lo, hi)
             S == {mem[i] : i \in p + k..p + n - 2} \cup 1..255
  <2>1. \A i \in p + k..p + n - 2 : mem[i] \in S
    OBVIOUS
  <2>2. /\ p + k \in Int /\ p + n - 2 \in Int /\ p + k <= p + n - 2 + 1
        /\ p + n - 2 - (p + k) + 1 = n - 1 - k
    BY <1>1, <1>2, <1>6
  <2>3. 1..255 \subseteq S
    OBVIOUS
  <2> HIDE DEF S
  <2>4. lo \in Int /\ hi \in Int /\ lo <= hi + 1 /\ \A i \in lo..hi : mem[i] \in S
    BY <2>1, <2>2
  <2>5. /\ u \in Seq(S) /\ Len(u) = hi - lo + 1
        /\ \A i \in 1..hi - lo + 1 : u[i] = mem[lo + i - 1]
    <3> HIDE DEF lo, hi
    <3> QED BY <2>4, Part
  <2> HIDE DEF u
  <2>6. /\ u \in Seq(S) /\ Len(u) = n - 1 - k
        /\ \A i \in 1..n - 1 - k : u[i] = mem[p + k + i - 1]
    <3>1. hi - lo + 1 = n - 1 - k
      BY <1>1, <1>2, <1>6
    <3>2. \A i \in 1..n - 1 - k : u[i] = mem[lo + i - 1]
      <4> HIDE DEF lo, hi
      <4> QED BY <2>5, <3>1, Zenon
    <3> QED BY <2>5, <3>1, <3>2, Zenon
  <2>7. ASSUME NEW i \in 1..n - 1 - k PROVE mem[p + k + i - 1] = s[i]
    <3>1. k + i \in 1..Len(Unread) /\ p + (k + i) - 1 = p + k + i - 1
      BY <1>1, <1>2
    <3> QED BY <1>1, <1>7, <3>1
  <2>8. s \in Seq(S)
    BY <1>7, <2>3, SeqMonotonic
  <2>9. u = s
    BY <1>7, <2>6, <2>7, <2>8, SeqEqual
  <2> QED BY <2>9 DEF u
<1>19. Len(s) \in Nat
  BY <1>7, LenProperties
<1> QED BY <1>3, <1>4, <1>8, <1>11, <1>12, <1>17, <1>18, <1>19 DEF k, s

LEMMA ConvertIsSequence ==
  ASSUME NEW input PROVE \E T : ConvertUTF32ToUTF8(input) \in Seq(T)
<1>1. /\ \A a : \E T : <<a>> \in Seq(T)
      /\ \A a, b : \E T : <<a, b>> \in Seq(T)
      /\ \A a, b, c : \E T : <<a, b, c>> \in Seq(T)
      /\ \A a, b, c, d : \E T : <<a, b, c, d>> \in Seq(T)
      /\ \E T : <<>> \in Seq(T)
  <2>1. ASSUME NEW a, NEW b, NEW c, NEW d
        PROVE  LET T == {a, b, c, d}
               IN /\ <<a>> \in Seq(T) /\ <<a, b>> \in Seq(T)
                  /\ <<a, b, c>> \in Seq(T) /\ <<a, b, c, d>> \in Seq(T)
                  /\ <<>> \in Seq(T)
    OBVIOUS
  <2>2. ASSUME NEW a PROVE \E T : <<a>> \in Seq(T)
    BY <2>1
  <2>3. ASSUME NEW a, NEW b PROVE \E T : <<a, b>> \in Seq(T)
    BY <2>1
  <2>4. ASSUME NEW a, NEW b, NEW c PROVE \E T : <<a, b, c>> \in Seq(T)
    BY <2>1
  <2>5. ASSUME NEW a, NEW b, NEW c, NEW d PROVE \E T : <<a, b, c, d>> \in Seq(T)
    BY <2>1
  <2> QED BY <2>1, <2>2, <2>3, <2>4, <2>5
<1> DEFINE low(k) == 128 + ((input \div k) % 64)
           l0 == low(1)
           l1 == low(64)
           l2 == low(4096)
           h1 == 192 + input \div 64
           h2 == 224 + input \div 4096
           h3 == 240 + input \div 262144
<1>2. \/ ConvertUTF32ToUTF8(input) = <<input>>
      \/ ConvertUTF32ToUTF8(input) = <<h1, l0>>
      \/ ConvertUTF32ToUTF8(input) = <<h2, l1, l0>>
      \/ ConvertUTF32ToUTF8(input) = <<h3, l2, l1, l0>>
      \/ ConvertUTF32ToUTF8(input) = <<>>
  BY DEF ConvertUTF32ToUTF8
<1> HIDE DEF low, l0, l1, l2, h1, h2, h3
<1> DEFINE u == ConvertUTF32ToUTF8(input)
<1>3. CASE u = <<input>>
  <2>1. \E T : <<input>> \in Seq(T)
    BY <1>1
  <2> QED BY <1>3, <2>1
<1>4. CASE u = <<h1, l0>>
  <2>1. \E T : <<h1, l0>> \in Seq(T)
    BY <1>1
  <2> QED BY <1>4, <2>1
<1>5. CASE u = <<h2, l1, l0>>
  <2>1. \E T : <<h2, l1, l0>> \in Seq(T)
    BY <1>1
  <2> QED BY <1>5, <2>1
<1>6. CASE u = <<h3, l2, l1, l0>>
  <2>1. \E T : <<h3, l2, l1, l0>> \in Seq(T)
    BY <1>1
  <2> QED BY <1>6, <2>1
<1>7. CASE u = <<>>
  BY <1>1, <1>7
<1> QED BY <1>2, <1>3, <1>4, <1>5, <1>6, <1>7

\* What is put behind a sequence is found behind it.
LEMMA Behind ==
  ASSUME NEW S, NEW s \in Seq(S), NEW T, NEW t \in Seq(T)
  PROVE  /\ IsPrefix(s, s \o t) /\ Len(s \o t) = Len(s) + Len(t)
         /\ SubSeq(s \o t, Len(s) + 1, Len(s \o t)) = t
<1> DEFINE R == S \cup T
           m == Len(s)
           n == Len(t)
           c == s \o t
<1>1. s \in Seq(R) /\ t \in Seq(R)
  BY SeqMonotonic
<1>2. m \in Nat /\ n \in Nat
  BY LenProperties
<1> HIDE DEF R
<1>3. /\ c \in Seq(R) /\ Len(c) = m + n
      /\ \A i \in 1..m + n : c[i] = IF i <= m THEN s[i] ELSE t[i - m]
  BY <1>1, ConcatProperties
<1>4. IsPrefix(s, c)
  <2>1. \A i \in 1..m : i \in 1..m + n /\ i <= m
    BY <1>2
  <2>2. \A i \in 1..m : s[i] = c[i]
    BY <1>3, <2>1
  <2>3. m <= Len(c)
    BY <1>2, <1>3
  <2> HIDE DEF c
  <2> QED BY <1>1, <1>3, <2>2, <2>3, PrefixMeans
<1>5. SubSeq(c, m + 1, m + n) = t
  <2> DEFINE lo == m + 1
             hi == m + n
             u == SubSeq(c, lo, hi)
  <2>1. lo \in Int /\ hi \in Int /\ lo <= hi + 1 /\ hi - lo + 1 = n
    BY <1>2
  <2>2. ASSUME NEW i \in lo..hi PROVE c[i] \in R
    <3>1. i \in 1..Len(c)
      BY <1>2, <1>3
    <3> HIDE DEF c
    <3> QED BY <1>3, <3>1, ElementOfSeq
  <2> HIDE DEF c, m, n
  <2>3. /\ u \in Seq(R) /\ Len(u) = hi - lo + 1
        /\ \A i \in 1..hi - lo + 1 : u[i] = c[lo + i - 1]
    <3> HIDE DEF lo, hi
    <3> QED BY <2>1, <2>2, Part
  <2> HIDE DEF u
  <2>4. /\ u \in Seq(R) /\ Len(u) = n
        /\ \A i \in 1..n : u[i] = c[m + 1 + i - 1]
    BY <2>1, <2>3
  <2>5. ASSUME NEW i \in 1..n PROVE c[m + 1 + i - 1] = t[i]
    <3>1. /\ m + 1 + i - 1 \in 1..m + n /\ ~(m + 1 + i - 1 <= m)
          /\ (m + 1 + i - 1) - m = i
      BY <1>2
    <3> QED BY <1>3, <3>1
  <2>6. u = t
    BY <1>1, <2>4, <2>5, SeqEqual DEF n
  <2> QED BY <2>6 DEF u
<1> QED BY <1>3, <1>4, <1>5

LEMMA DecodedIsSequence ==
  ASSUME StrInv PROVE \E S : Decoded \in Seq(S)
<1> DEFINE S == {mem[i] : i \in 1..q - 1}
<1>1. q - 1 \in Int /\ 1 \in Int /\ 1 <= q - 1 + 1
  BY LenProperties DEF StrInv, InPlace
<1>2. \A i \in 1..q - 1 : mem[i] \in S
  OBVIOUS
<1> HIDE DEF S
<1>3. Decoded \in Seq(S)
  BY <1>1, <1>2, Part DEF Decoded
<1> QED BY <1>3

LEMMA ReferenceDecodes ==
  ASSUME StrInv, p <= Len(mem), GetCharacterRef
  PROVE  (D!Numeric \/ D!Malformed) /\ flags' = flags
<1> DEFINE Known(base, n) == /\ D!Numbered(base, n)
                             /\ D!NumberAt(base, n) <= D!Highest
<1>1. /\ Unread \in Seq(1..255) /\ Len(Unread) = Len(source) - p + 1
      /\ Len(source) \in Nat /\ p \in 1..Len(source) /\ Len(Unread) \in Nat
      /\ 1 \in 1..Len(Unread)
      /\ byte(p) = Unread[1]
      /\ \A i \in 1..Len(Unread) : byte(p + i - 1) = Unread[i]
      /\ \A i \in Nat : i > Len(Unread) => byte(p + i - 1) = 0
  <2>1. /\ Unread \in Seq(1..255) /\ Len(Unread) = Len(source) - p + 1
        /\ Len(source) \in Nat /\ p \in 1..Len(source)
        /\ byte(p) = mem[p] /\ Unread[1] = mem[p]
        /\ \A i \in 1..Len(Unread) : byte(p + i - 1) = Unread[i]
        /\ \A i \in Nat : i > Len(Unread) => byte(p + i - 1) = 0
    BY UnreadFacts
  <2>2. Len(Unread) \in Nat /\ 1 \in 1..Len(Unread)
    BY <2>1
  <2> QED BY <2>1, <2>2
<1>2. "entity" \in flags /\ Unread[1] = 38 /\ byte(p + 1) = 35
  BY <1>1 DEF GetCharacterRef, HasEntity, AMP, HASH
<1>3. D!StartsWith(<<D!Ampersand, D!Hash>>)
  <2>1. p + 2 - 1 = p + 1 /\ 2 \in Nat
    BY <1>1
  <2>2. Len(Unread) >= 2
    <3>1. CASE 2 > Len(Unread)
      <4>1. byte(p + 2 - 1) = 0
        BY <1>1, <2>1, <3>1
      <4> QED BY <1>2, <2>1, <4>1
    <3> QED BY <1>1, <3>1
  <2>3. Unread[2] = 35
    <3>1. 2 \in 1..Len(Unread)
      BY <1>1, <2>2
    <3>2. byte(p + 2 - 1) = Unread[2]
      BY <1>1, <3>1
    <3> QED BY <1>2, <2>1, <3>2
  <2>4. IsPrefix(<<38, 35>>, Unread)
    BY <1>1, <1>2, <2>2, <2>3, BeginsWithTwo
  <2>5. D!IsPrefix(<<38, 35>>, Unread)
    BY <2>4, SameOperators
  <2> QED BY <2>5 DEF D!StartsWith, D!Ampersand, D!Hash, Unread
<1>4. PICK S : Decoded \in Seq(S)
  BY DecodedIsSequence
<1>5. ASSUME NEW n \in 1..Len(Unread), NEW T, NEW b \in Seq(T), Len(b) <= n,
             Step(n, b)
      PROVE  /\ Unread' = SubSeq(Unread, n + 1, Len(Unread))
             /\ D!IsPrefix(Decoded, Decoded')
             /\ Len(Decoded') <= Len(Decoded) + n
             /\ SubSeq(Decoded', Len(Decoded) + 1, Len(Decoded')) = b
             /\ flags' = flags
  <2>1. n \in Nat /\ p + n <= Len(source) + 1
    BY <1>1
  <2>2. /\ Unread' = SubSeq(Unread, n + 1, Len(Unread))
        /\ Decoded' = Decoded \o b /\ flags' = flags
    BY <1>5, <2>1, StepTakes
  <2>3. /\ IsPrefix(Decoded, Decoded \o b)
        /\ Len(Decoded \o b) = Len(Decoded) + Len(b)
        /\ SubSeq(Decoded \o b, Len(Decoded) + 1, Len(Decoded \o b)) = b
    BY <1>4, Behind
  <2>4. Len(Decoded) \in Nat /\ Len(b) \in Nat
    BY <1>4, LenProperties
  <2>5. Len(Decoded) + Len(b) <= Len(Decoded) + n
    BY <1>5, <2>4
  <2> QED BY <2>2, <2>3, <2>5, SameOperators
<1>6. ASSUME NEW n \in 1..Len(Unread), NEW T, NEW b \in Seq(T), Len(b) <= n,
             Step(n, b),
             ~\E base \in {10, 16}, m \in 1..Len(Unread) : Known(base, m)
      PROVE  D!Malformed /\ flags' = flags
  <2>1. /\ Unread' = SubSeq(Unread, n + 1, Len(Unread))
        /\ D!IsPrefix(Decoded, Decoded')
        /\ Len(Decoded') <= Len(Decoded) + n
        /\ flags' = flags
    BY <1>5, <1>6
  <2> QED BY <1>2, <1>3, <1>6, <2>1 DEF D!Malformed, Unread, Decoded
<1>7. CASE byte(p + 2) = 0 /\ Step(1, <<>>)
  <2>1. \A base \in {10, 16}, m \in 1..Len(Unread) : ~Known(base, m)
    BY <1>7, ReferenceOf
  <2>2. <<>> \in Seq({}) /\ Len(<<>>) <= 1
    OBVIOUS
  <2> HIDE DEF Known
  <2> QED BY <1>1, <1>6, <1>7, <2>1, <2>2
<1>8. CASE References = {} /\ Step(1, <<AMP>>)
  <2>1. \A base \in {10, 16}, m \in 1..Len(Unread) : ~Known(base, m)
    BY <1>8, ReferenceOf
  <2>2. <<AMP>> \in Seq({AMP}) /\ Len(<<AMP>>) <= 1
    OBVIOUS
  <2> HIDE DEF Known
  <2> QED BY <1>1, <1>6, <1>8, <2>1, <2>2
<1>9. ASSUME NEW r \in References,
             Step(r[2] - p + 1, character(r[1], r[2]))
      PROVE  (D!Numeric \/ D!Malformed) /\ flags' = flags
  <2> DEFINE n == r[2] - p + 1
             b == character(r[1], r[2])
  <2>1. n \in 1..Len(Unread) /\ Len(b) \in 0..n
    <3>1. r[2] \in p + 2..Len(source) /\ Len(b) \in 0..n
      BY CharacterFits
    <3>2. /\ Len(Unread) = Len(source) - p + 1
          /\ Len(source) \in Nat /\ p \in 1..Len(source)
      BY <1>1
    <3> HIDE DEF b
    <3> QED BY <3>1, <3>2
  <2>2. PICK T : b \in Seq(T)
    BY ConvertIsSequence DEF character
  <2>3. Len(b) <= n
    BY <2>1
  <2>4. CASE ~\E base \in {10, 16}, m \in 1..Len(Unread) : Known(base, m)
    <3> HIDE DEF Known, n, b
    <3> QED BY <1>6, <1>9, <2>1, <2>2, <2>3, <2>4 DEF n, b
  <2>5. ASSUME NEW base \in {10, 16}, NEW m \in 1..Len(Unread), Known(base, m)
        PROVE  D!Numeric /\ flags' = flags
    <3> DEFINE k == IF base = 16 THEN 3 ELSE 2
               s == SubSeq(Unread, k + 1, m - 1)
               number == D!Number(s, base)
    <3>1. /\ Len(D!Before(base)) = k /\ radix = base
          /\ References = {<<p + k - 1, p + m - 1>>}
          /\ SubSeq(mem, p + k, p + m - 2) = s
          /\ s # <<>> /\ Len(s) \in Nat
          /\ \A i \in 1..Len(s) : s[i] \in D!DigitsOf(base)
      BY <2>5, ReferenceOf
    <3>2. r[1] = p + k - 1 /\ r[2] = p + m - 1
      BY <3>1
    <3>3. n = m /\ r[1] + 1 = p + k /\ r[2] - 1 = p + m - 2
      BY <1>1, <3>2
    <3>4. D!NumberAt(base, m) = number
      BY <3>1 DEF D!NumberAt, Unread
    <3>5. number \in Nat /\ number <= D!Highest /\ D!Highest <= UINT_MAX
          /\ D!Highest \in Nat /\ UINT_MAX \in Nat
      <4>1. number \in Nat
        BY <3>1, NumberIsUcs
      <4> QED BY <2>5, <3>4, <4>1, WidthAssumption DEF D!Highest
    <3>6. ucsOf(s, base) = number
      <4>1. number <= UINT_MAX
        <5> HIDE DEF number
        <5> QED BY <3>5
      <4> QED BY <3>1, <4>1, NumberIsUcs
    <3>7. b = ConvertUTF32ToUTF8(number)
      BY <3>1, <3>3, <3>6 DEF character
    <3>8. D!Character(b) = number
      <4> HIDE DEF number, b
      <4> QED BY <3>5, <3>7, FormOfCharacter
    <3>9. /\ Unread' = SubSeq(Unread, n + 1, Len(Unread))
          /\ D!IsPrefix(Decoded, Decoded')
          /\ SubSeq(Decoded', Len(Decoded) + 1, Len(Decoded')) = b
          /\ flags' = flags
      <4> HIDE DEF n, b
      <4> QED BY <1>5, <1>9, <2>1, <2>2, <2>3 DEF n, b
    <3>10. /\ Unread' = SubSeq(Unread, m + 1, Len(Unread))
           /\ D!Character(SubSeq(Decoded', Len(Decoded) + 1, Len(Decoded'))) =
                D!NumberAt(base, m)
      <4> HIDE DEF n, b, number
      <4> QED BY <3>3, <3>4, <3>8, <3>9
    <3> HIDE DEF n, b, number, s, k
    <3> QED BY <1>2, <2>5, <3>9, <3>10 DEF D!Numeric, Unread, Decoded
  <2> QED BY <2>4, <2>5
<1> QED BY <1>7, <1>8, <1>9 DEF GetCharacterRef

(* Decoding a value in its own buffer gives what decoding it into another    *)
(* would give, whatever the bytes: no byte that StrPair::GetStr writes too   *)
(* early is read, numbers come out as the UTF-8 form of their character even *)
(* where they are scaled with the width of an unsigned int, and a reference  *)
(* that is none takes no more room than it leaves.                           *)
THEOREM DecoderImplemented == StrSpec => ImplementsDecoder
<1>1. StrInit => D!Init
  <2> SUFFICES ASSUME StrInit PROVE D!Init
    OBVIOUS
  <2>1. source \in Seq(1..255) /\ mem = source /\ p = 1 /\ q = 1
    BY TextsAssumption DEF StrInit
  <2>2. SubSeq(mem, p, Len(mem)) = source
    BY <2>1, SubSeqFull
  <2>3. SubSeq(mem, 1, q - 1) = <<>>
    <3>1. q - 1 = 0 /\ 0 < 1
      BY <2>1
    <3>2. SubSeq(mem, 1, 0) = <<>>
      BY SubSeqEmpty
    <3> QED BY <3>1, <3>2
  <2> QED BY <2>1, <2>2, <2>3 DEF D!Init
<1>2. StrInv /\ [StrNext]_strVars => [D!Next]_(D!vars)
  <2> SUFFICES ASSUME StrInv, [StrNext]_strVars PROVE [D!Next]_(D!vars)
    OBVIOUS
  <2>1. CASE UNCHANGED strVars
    BY <2>1 DEF strVars, D!vars
  <2>2. CASE StrNext
    <3>1. p <= Len(mem)
      BY <2>2 DEF StrNext
    <3>2. SubSeq(mem, p, Len(mem)) # <<>>
      BY <3>1, UnreadFacts DEF Unread
    <3>3. /\ \/ D!Newline \/ D!Named \/ D!Numeric \/ D!Malformed \/ D!Unknown
             \/ D!Plain
          /\ flags' = flags
      BY <2>2, <3>1, NewlineDecodes, ReferenceDecodes, EntityDecodes,
         UnknownDecodes, CopyDecodes DEF StrNext
    <3> QED BY <3>2, <3>3 DEF D!Next
  <2> QED BY <2>1, <2>2
<1>3. StrSpec => []StrInv
  BY StrInvariant
<1> QED BY <1>1, <1>2, <1>3, PTL DEF StrSpec, ImplementsDecoder, D!Spec

-----------------------------------------------------------------------------
\* y is in the list of x.
Adjacent(g, x, y) == x \in DOMAIN g /\ y \in ToSet(g[x])

GraphInv(g) ==
  /\ \A x \in DOMAIN g : g[x] \in Seq(Identifiers)
  /\ \A x, y : Adjacent(g, x, y) => Adjacent(g, y, x)

\* From where on the listener has an entry
Asked == {"asked", "listening", "running"}

NodesInv ==
  /\ IsFiniteSet(DOMAIN allNodes)
  /\ DOMAIN neighbors \subseteq DOMAIN allNodes
  /\ phase \in Asked => ListenerNodeID \in DOMAIN allNodes
  /\ phase = "running" => biggestNodeID = Cardinality(DOMAIN allNodes) - 1

StartInv == GraphInv(graph) /\ NodesInv

-----------------------------------------------------------------------------
(* The graph a node reads                                                   *)

LEMMA InsertAdds ==
  ASSUME NEW g, \A x \in DOMAIN g : g[x] \in Seq(Identifiers),
         NEW a \in Identifiers, NEW b \in Identifiers
  PROVE  /\ \A x \in DOMAIN insert(g, a, b) :
              insert(g, a, b)[x] \in Seq(Identifiers)
         /\ \A x, y : Adjacent(insert(g, a, b), x, y) <=>
                        Adjacent(g, x, y) \/ (x = a /\ y = b)
<1> DEFINE h == insert(g, a, b)
<1>1. /\ DOMAIN h = DOMAIN g \cup {a}
      /\ \A x \in DOMAIN g \ {a} : h[x] = g[x]
      /\ h[a] = IF a \in DOMAIN g THEN Append(g[a], b) ELSE <<b>>
  BY DEF insert
<1> HIDE DEF h
<1>2. CASE a \in DOMAIN g
  <2>1. h[a] \in Seq(Identifiers) /\ ToSet(h[a]) = ToSet(g[a]) \cup {b}
    BY <1>1, <1>2, AppendToSet, AppendProperties
  <2> QED BY <1>1, <1>2, <2>1 DEF Adjacent, h
<1>3. CASE a \notin DOMAIN g
  <2>1. h[a] = <<b>> /\ <<b>> \in Seq(Identifiers)
    BY <1>1, <1>3
  <2>2. ToSet(<<b>>) = {b}
    BY DEF ToSet
  <2> QED BY <1>1, <1>3, <2>1, <2>2 DEF Adjacent, h
<1> QED BY <1>2, <1>3

LEMMA AddEdgeKeeps ==
  ASSUME NEW g, GraphInv(g), NEW a \in Identifiers, NEW b \in Identifiers
  PROVE  GraphInv(addEdge(g, a, b))
<1> DEFINE h == insert(g, a, b)
           k == insert(h, b, a)
<1>1. /\ \A x \in DOMAIN h : h[x] \in Seq(Identifiers)
      /\ \A x, y : Adjacent(h, x, y) <=> Adjacent(g, x, y) \/ (x = a /\ y = b)
  BY InsertAdds DEF GraphInv
<1> HIDE DEF h
<1>2. /\ \A x \in DOMAIN k : k[x] \in Seq(Identifiers)
      /\ \A x, y : Adjacent(k, x, y) <=> Adjacent(h, x, y) \/ (x = b /\ y = a)
  BY <1>1, InsertAdds
<1> HIDE DEF k
<1>3. \A x, y : Adjacent(k, x, y) => Adjacent(k, y, x)
  BY <1>1, <1>2 DEF GraphInv
<1> QED BY <1>2, <1>3 DEF GraphInv, addEdge, h, k

LEMMA EdgesAreIdentifiers ==
  ASSUME NEW part, NEW r \in edgeOf(part)
  PROVE  r[1] \in Identifiers /\ r[2] \in Identifiers
BY DEF edgeOf, stoi

-----------------------------------------------------------------------------
(* The steps of the start                                                   *)

LEMMA InsertedGrows ==
  ASSUME NEW map, NEW n, NEW entry, IsFiniteSet(DOMAIN map)
  PROVE  /\ DOMAIN inserted(map, n, entry) = DOMAIN map \cup {n}
         /\ IsFiniteSet(DOMAIN inserted(map, n, entry))
<1>1. DOMAIN inserted(map, n, entry) = DOMAIN map \cup {n}
  BY DEF inserted
<1> QED BY <1>1, FS_AddElement

LEMMA StartInitInv == StartInit => StartInv
<1> SUFFICES ASSUME StartInit PROVE StartInv
  OBVIOUS
<1>1. DOMAIN NoMap = {}
  BY DEF NoMap
<1>2. IsFiniteSet({})
  BY FS_EmptySet
<1> QED BY <1>1, <1>2
        DEF StartInit, StartInv, GraphInv, NodesInv, Adjacent, Asked

LEMMA StartNextInv ==
  ASSUME StartInv, [StartNext]_startVars PROVE StartInv'
<1>1. CASE UNCHANGED startVars
  BY <1>1 DEF startVars, StartInv, GraphInv, NodesInv, Adjacent
<1>2. ASSUME Fails PROVE StartInv'
  BY <1>2 DEF Fails, StartInv, GraphInv, NodesInv, Adjacent, Asked
<1>3. CASE readAddress
  <2>1. ASSUME NEW r, allNodes' = inserted(allNodes, r[1], <<r[2], r[3]>>),
               phase = "addresses",
               UNCHANGED <<graph, neighbors, biggestNodeID, phase>>
        PROVE  StartInv'
    <3>1. /\ DOMAIN allNodes' = DOMAIN allNodes \cup {r[1]}
          /\ IsFiniteSet(DOMAIN allNodes')
      BY <2>1, InsertedGrows DEF StartInv, NodesInv
    <3>2. phase' \notin Asked /\ phase' # "running"
      BY <2>1 DEF Asked
    <3>3. NodesInv'
      BY <2>1, <3>1, <3>2 DEF StartInv, NodesInv
    <3> QED BY <2>1, <3>3 DEF StartInv, GraphInv, Adjacent
  <2>2. ASSUME UNCHANGED <<allNodes, graph, neighbors, biggestNodeID, phase>>
        PROVE  StartInv'
    BY <2>2 DEF StartInv, GraphInv, NodesInv, Adjacent
  <2> QED BY <1>2, <1>3, <2>1, <2>2 DEF readAddress
<1>4. CASE openGraph
  BY <1>4 DEF openGraph, StartInv, GraphInv, NodesInv, Adjacent, Asked
<1>5. CASE readLine
  BY <1>5 DEF readLine, StartInv, GraphInv, NodesInv, Adjacent
<1>6. CASE readEdge
  <2>1. ASSUME NEW r \in edgeOf(Head(parts)),
               graph' = addEdge(graph, r[1], r[2]),
               UNCHANGED <<allNodes, neighbors, biggestNodeID, phase>>
        PROVE  StartInv'
    <3>1. GraphInv(graph')
      BY <2>1, EdgesAreIdentifiers, AddEdgeKeeps DEF StartInv
    <3> QED BY <2>1, <3>1 DEF StartInv, NodesInv, GraphInv, Adjacent
  <2> QED BY <1>2, <1>6, <2>1 DEF readEdge
<1>7. CASE readGraph
  <2>1. CASE /\ isKnown
             /\ neighbors' = [n \in ToSet(graph[nodeID]) |-> allNodes[n]]
             /\ phase' = "read"
             /\ UNCHANGED <<allNodes, graph, biggestNodeID>>
    BY <2>1 DEF isKnown, StartInv, GraphInv, NodesInv, Adjacent, Asked
  <2> QED BY <1>2, <1>7, <2>1 DEF readGraph
<1>8. CASE askAddresses
  <2> DEFINE own == getNodeInfo(allNodes, nodeID)
  <2>1. /\ DOMAIN own = DOMAIN allNodes \cup {nodeID}
        /\ IsFiniteSet(DOMAIN own)
    BY InsertedGrows DEF getNodeInfo, StartInv, NodesInv
  <2> HIDE DEF own
  <2>2. /\ allNodes' = inserted(own, ListenerNodeID, NoEntry)
        /\ phase' = "asked"
        /\ UNCHANGED <<graph, neighbors, biggestNodeID>>
    BY <1>8 DEF askAddresses, getNodeInfo, own
  <2>3. /\ DOMAIN allNodes' = DOMAIN own \cup {ListenerNodeID}
        /\ IsFiniteSet(DOMAIN allNodes')
    BY <2>1, <2>2, InsertedGrows
  <2> QED BY <2>1, <2>2, <2>3 DEF StartInv, GraphInv, NodesInv, Adjacent, Asked
<1>9. CASE createReceiver
  <2>1. CASE /\ phase = "asked" /\ phase' = "listening"
             /\ UNCHANGED <<allNodes, graph, neighbors, biggestNodeID>>
    BY <2>1 DEF StartInv, GraphInv, NodesInv, Adjacent, Asked
  <2> QED BY <1>2, <1>9, <2>1 DEF createReceiver
<1>10. CASE getNodeImplementation
  BY <1>10 DEF getNodeImplementation, StartInv, GraphInv, NodesInv, Adjacent, Asked
<1> QED BY <1>1, <1>3, <1>4, <1>5, <1>6, <1>7, <1>8, <1>9, <1>10
        DEF StartNext

LEMMA CountOfNumbered ==
  ASSUME NEW n \in Nat, IsFiniteSet(DOMAIN allNodes),
         ListenerNodeID \in DOMAIN allNodes, Numbered(n)
  PROVE  Cardinality(DOMAIN allNodes) - 1 = n
<1>1. DOMAIN allNodes = (1..n) \cup {0} /\ 0 \notin 1..n
  BY DEF Numbered, ListenerNodeID
<1>2. IsFiniteSet(1..n) /\ Cardinality(1..n) = n
  BY FS_Interval
<1>3. Cardinality((1..n) \cup {0}) = Cardinality(1..n) + 1
  BY <1>1, <1>2, FS_AddElement
<1> QED BY <1>1, <1>2, <1>3

(* Whatever is in the two files, a node that runs knows an edge at both ends *)
(* -- the waves need it, for explorers and echoes come in pairs only then -- *)
(* and knows the addresses of its neighbours; and what the constructor of    *)
(* the implementation is given as the highest identifier is the highest.     *)
THEOREM HighestIsKnown == StartSpec => []BiggestIsHighest
<1>1. StartInit => StartInv
  BY StartInitInv
<1>2. StartInv /\ [StartNext]_startVars => StartInv'
  BY StartNextInv
<1>3. StartInv => BiggestIsHighest
  <2> SUFFICES ASSUME StartInv, phase = "running" 
               PROVE  /\ Symmetric
                      /\ DOMAIN neighbors \subseteq DOMAIN allNodes
                      /\ \A n \in Identifiers \cap Nat :
                           Numbered(n) => biggestNodeID = n
    BY DEF BiggestIsHighest
  <2>1. Symmetric
    BY DEF StartInv, GraphInv, Adjacent, Symmetric
  <2>2. \A n \in Identifiers \cap Nat : Numbered(n) => biggestNodeID = n
    BY CountOfNumbered DEF StartInv, NodesInv, Asked
  <2> QED BY <2>1, <2>2 DEF StartInv, NodesInv
<1> QED BY <1>1, <1>2, <1>3, PTL DEF StartSpec
=============================================================================
