------------------------------- MODULE MCKasm -------------------------------
(***************************************************************************)
(* Projects of one file of up to three lines or two files of up to two,    *)
(* the second of which may not be there.  The lines are one of each kind,  *)
(* right and wrong, among them an empty one and one of spaces only.        *)
(***************************************************************************)
EXTENDS Kasm

Text(text, value, shapes) == [text |-> text, value |-> value, shapes |-> shapes]

ADDi  == Text("ADD", "ADD", {"Identifier"})
JMPi  == Text("JMP", "JMP", {"Identifier"})
HLTi  == Text("HLT", "HLT", {"Identifier"})
glued == Text("JMPloop", "JMPloop", {"Identifier"})
loop  == Text("loop", "loop", {"Identifier"})
loop_ == Text("loop:", "loop", {"Label"})
end_  == Text("end:", "end", {"Label"})
def   == Text(".def", "def", {"Directive"})
sp    == Text("sp", "7", {"Register", "Identifier"})
five  == Text("5", "5", {"Integer"})
at5   == Text("$5", "$5", {"Address"})
bits  == Text("0b101", "5", {"Integer", "Binary"})
mark  == Text("?", "?", {})

Lines ==
  {<<>>, <<Gap>>, <<loop_>>, <<end_>>, <<ADDi, sp, Gap, five>>, <<JMPi, at5>>,
   <<Gap, HLTi, Gap>>, <<def, loop>>,
   <<loop_, JMPi, loop>>, <<end_, five>>, <<five>>, <<JMPi, ADDi>>, <<glued>>, <<JMPi, mark>>,
   <<ADDi, sp, bits>>}

UpTo(n) == UNION {[1..k -> Lines] : k \in 0..n}

MCProjects ==
  {<<[exists |-> TRUE, lines |-> ls]>> : ls \in UpTo(3)}
    \cup {<<[exists |-> TRUE, lines |-> p[1]], [exists |-> TRUE, lines |-> p[2]]>> :
            p \in UpTo(2) \X UpTo(2)}
    \cup {<<[exists |-> TRUE, lines |-> <<<<HLTi>>>>], [exists |-> FALSE, lines |-> <<>>]>>}
=============================================================================
