------------------------------ MODULE Decoder ------------------------------
(***************************************************************************)
(* What the value of a text or an attribute stands for: line ends are line *)
(* feeds, the five named entities and the numbered characters are the      *)
(* characters they name, and all else stands for itself.  It is read from  *)
(* rest, which nothing changes but the reading, and written to result.     *)
(***************************************************************************)
EXTENDS Integers, Sequences, SequencesExt

CONSTANT Entities  \* the named entities: sequences of bytes to the byte

VARIABLES rest, result, flags

vars == <<rest, result, flags>>

CR == 13
LF == 10
Ampersand == 38
Hash == 35
Semicolon == 59
SmallX == 120

Digit ==
  [c \in 48..57 \cup 65..70 \cup 97..102 |->
     IF c <= 57 THEN c - 48 ELSE IF c <= 70 THEN c - 55 ELSE c - 87]
DigitsOf(base) == {c \in DOMAIN Digit : Digit[c] < base}

\* The number that the digits s make
Number(s, base) ==
  LET first[n \in 0..Len(s)] ==
        IF n = 0 THEN 0 ELSE first[n - 1] * base + Digit[s[n]]
  IN first[Len(s)]

\* The character whose UTF-8 form b is, -1 if it is of none
Character(b) ==
  LET Low(i) == b[i] - 128
      v == CASE Len(b) = 1 -> b[1]
             [] Len(b) = 2 -> (b[1] - 192) * 64 + Low(2)
             [] Len(b) = 3 -> ((b[1] - 224) * 64 + Low(2)) * 64 + Low(3)
             [] Len(b) = 4 ->
                  (((b[1] - 240) * 64 + Low(2)) * 64 + Low(3)) * 64 + Low(4)
             [] OTHER -> -1
      least == <<0, 128, 2048, 65536>>
  IN IF v # -1 /\ v >= least[Len(b)] /\ \A i \in 2..Len(b) : Low(i) \in 0..63
     THEN v ELSE -1

\* The highest character that has a form of four bytes
Highest == 2097151

StartsWith(s) == IsPrefix(s, rest)

\* n bytes are read, and b is written.
Take(n, b) ==
  /\ rest' = SubSeq(rest, n + 1, Len(rest))
  /\ result' = result \o b

-----------------------------------------------------------------------------
Newline ==
  /\ "newline" \in flags
  /\ \/ \E pair \in {<<CR, LF>>, <<LF, CR>>} : StartsWith(pair) /\ Take(2, <<LF>>)
     \/ /\ Head(rest) \in {CR, LF}
        /\ ~StartsWith(<<CR, LF>>) /\ ~StartsWith(<<LF, CR>>)
        /\ Take(1, <<LF>>)

Named ==
  /\ "entity" \in flags
  /\ \E s \in DOMAIN Entities : StartsWith(s) /\ Take(Len(s), <<Entities[s]>>)

\* How many bytes the number takes that rest begins with, 0 if it does not
Before(base) == IF base = 16 THEN <<Ampersand, Hash, SmallX>>
                             ELSE <<Ampersand, Hash>>
Numbered(base, n) ==
  LET s == SubSeq(rest, Len(Before(base)) + 1, n - 1)
  IN /\ StartsWith(Before(base))
     /\ s # <<>> /\ ToSet(s) \subseteq DigitsOf(base)
     /\ rest[n] = Semicolon
NumberAt(base, n) == Number(SubSeq(rest, Len(Before(base)) + 1, n - 1), base)

Numeric ==
  /\ "entity" \in flags
  /\ \E base \in {10, 16}, n \in 1..Len(rest) :
       /\ Numbered(base, n)
       /\ NumberAt(base, n) <= Highest
       /\ rest' = SubSeq(rest, n + 1, Len(rest))
       /\ IsPrefix(result, result')
       /\ Character(SubSeq(result', Len(result) + 1, Len(result'))) =
            NumberAt(base, n)

\* What begins like a number and is none, or is too high, may be anything,
\* but nothing that is longer.
Malformed ==
  /\ "entity" \in flags
  /\ StartsWith(<<Ampersand, Hash>>)
  /\ ~\E base \in {10, 16}, n \in 1..Len(rest) :
        Numbered(base, n) /\ NumberAt(base, n) <= Highest
  /\ \E n \in 1..Len(rest) :
       /\ rest' = SubSeq(rest, n + 1, Len(rest))
       /\ IsPrefix(result, result')
       /\ Len(result') <= Len(result) + n

\* The first byte of an entity that is not known may become any byte.
Unknown ==
  /\ "entity" \in flags
  /\ Head(rest) = Ampersand
  /\ ~StartsWith(<<Ampersand, Hash>>)
  /\ ~\E s \in DOMAIN Entities : StartsWith(s)
  /\ Take(1, <<Last(result')>>)

Plain ==
  /\ ~("newline" \in flags /\ Head(rest) \in {CR, LF})
  /\ ~("entity" \in flags /\ Head(rest) = Ampersand)
  /\ Take(1, <<Head(rest)>>)

Init == rest \in Seq(1..255) /\ result = <<>>

Next == /\ rest # <<>>
        /\ Newline \/ Named \/ Numeric \/ Malformed \/ Unknown \/ Plain
        /\ UNCHANGED flags

Spec == Init /\ [][Next]_vars
=============================================================================
