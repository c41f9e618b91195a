----------------------------- MODULE PrintBuffer -----------------------------
(***************************************************************************)
(* The buffer of XMLPrinter.  It always ends with a 0; what is printed is  *)
(* written over that and brings a 0 of its own, so the array gets as many  *)
(* cells as the text has bytes, and one more byte is written.              *)
(***************************************************************************)
EXTENDS DynArray, FiniteSetsExt

CONSTANTS
  Printable,       \* what one call of Print may write: bytes that are not 0
  InitialBuffer,   \* the initial size of the buffer
  MaxText          \* bound: bytes that are printed

ASSUME BufferAssumption ==
  /\ Printable \subseteq Seq(1..255)
  /\ InitialBuffer \in Nat \ {0}
  /\ MaxText \in Nat

VARIABLES
  buffer,
  output   \* history: all that was printed

bufferVars == <<buffer, output>>

BufferInit ==
  /\ buffer = Push(NewArray(InitialBuffer), 0)
  /\ output = <<>>

\* vsnprintf writes s and a 0 from cell i on.
WrittenAt(a, i, s) ==
  [a EXCEPT !.mem = [k \in DOMAIN a.mem |->
                       IF k \in i..i + Len(s) THEN Append(s, 0)[k - i + 1]
                       ELSE a.mem[k]]]

BehindSlip(a, s) == WrittenAt(PushArr(a, Len(s)), a.size + 1, s)
Formatted(a, s) == WrittenAt(PushArr(a, Len(s)), a.size, s)

PrintFormat ==
  \E s \in Printable :
    /\ Len(output) + Len(s) <= MaxText
    /\ buffer' = Formatted(buffer, s)
    /\ output' = output \o s

BufferSpec == BufferInit /\ [][PrintFormat]_bufferVars

-----------------------------------------------------------------------------
\* The string that starts at the first cell, up to the first 0
CStr ==
  LET zeros == {i \in DOMAIN buffer.mem : buffer.mem[i] = 0}
  IN IF zeros = {} THEN buffer.mem ELSE SubSeq(buffer.mem, 1, Min(zeros) - 1)

(* What CStr returns is all that was printed, across every move of the       *)
(* buffer, and CStrSize is its length with the 0, so that what is appended   *)
(* next follows without a gap (XMLPrinter::Print).                           *)
BufferHoldsOutput == CStr = output /\ buffer.size = Len(output) + 1
=============================================================================
