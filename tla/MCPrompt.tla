------------------------------ MODULE MCPrompt ------------------------------
(***************************************************************************)
(* A prompt that knows two nodes, and the message of one order.            *)
(***************************************************************************)
EXTENDS Initiator

\* The cells a message and its closing tags take
Cells == 1..15
SmallNumbers == {-1, 0, 1, 2, 3, 4, 5, 7}
Symbols == STRING

\* What a document has of each kind if a client edits it
Few == [element |-> 2, text |-> 1, comment |-> 1, attribute |-> 1]

\* What is typed for a time
Typed == {<<>>, <<"3">>, <<"99999999999">>, <<"3", " ">>}

SpecPrompt ==
  /\ InitiatorInit
  /\ Init
  /\ [][InitiatorNext /\ UNCHANGED dom]_<<dom, messageVars, promptVars>>
=============================================================================
