-------------------------------- MODULE Kasm --------------------------------
(***************************************************************************)
(* The assembler (tools/kasm) as far as it goes: it reads the source files *)
(* of a project one after another, splits each into tokens (Tokenizer.cs)  *)
(* and makes of the tokens statements and symbols that all files share     *)
(* (Parser.cs, StatementSequence.cs, SymbolTable.cs).  What throws ends    *)
(* the program.  Nothing is resolved or written yet.                       *)
(*                                                                         *)
(* A file is a sequence of lines, a line a sequence of words and of gaps   *)
(* beyond the one that parts two words.  A word is known by the regular    *)
(* expressions and tables that accept it.  A token has its place: the line *)
(* and the position in it of the word it was made of, or the one behind    *)
(* them where a line ends.                                                 *)
(***************************************************************************)
EXTENDS InstructionSet, Naturals, FiniteSets

CONSTANTS
  Projects,              \* sequences of files: [exists, lines]
  Gap                    \* spaces and commas that part no words

VARIABLES
  instructionSet,        \* AssemblerContext.InstructionSet
  source,                \* the project's files
  file,                  \* the files read so far
  tokens,                \* the tokens left of the file being parsed, by place
  line,                  \* Parse's own count of lines
  next,                  \* StatementSequence.Next, the statement being built
  statements,            \* the statements submitted
  symbols,               \* the names in the symbol table
  outcome                \* how far the program is, or how it ended

vars == <<instructionSet, source, file, tokens, line, next, statements, symbols, outcome>>
projectVars == <<instructionSet, source>>
parserVars == <<tokens, line, next, statements, symbols>>

Handlers ==
  <<"Directive", "Instruction", "Label", "Register", "Identifier", "Integer", "Address">>
StatementHandlers == {"Directive", "Instruction", "Label"}
Terminators == {"New Line", "EOF"}

IsMnemonic(w) == Contains(Instructions, w.text)

\* What the regular expressions and the register names can make of a word: no
\* two of them accept the same one, but that a register is an identifier and
\* that literals may be binary, which stands for all that Convert.ToInt32 does
\* not take.  A mnemonic is an identifier.
Shapes ==
  {{}, {"Directive"}, {"Label"}, {"Register", "Identifier"}, {"Identifier"}, {"Integer"},
   {"Integer", "Binary"}, {"Address"}, {"Address", "Binary"}}
Texts ==
  {w \in [text : STRING, value : STRING, shapes : Shapes] :
     IsMnemonic(w) => w.shapes = {"Identifier"}}

ASSUME KasmAssumption ==
  /\ Projects \subseteq Seq([exists : BOOLEAN, lines : Seq(Seq(Texts \cup {Gap}))])
  /\ Gap \notin Texts

Unknown == [type |-> "Unknown", name |-> "", operands |-> <<>>]

\* What a handler's TryParse asks; one of them asks the instruction set.
Accepts(handler, word) ==
  IF handler = "Instruction" THEN Contains(instructionSet, word.text)
  ELSE handler \in word.shapes

NoToken == 0

\* The first handler that accepts a word.
TryParseToken(word) ==
  LET fits == {k \in 1..Len(Handlers) : Accepts(Handlers[k], word)}
  IN  IF fits = {} THEN NoToken ELSE CHOOSE k \in fits : \A j \in fits : k <= j

Token(word) == [handler |-> Handlers[TryParseToken(word)], value |-> word.value]
NewLine == [handler |-> "New Line", value |-> ""]
EOF == [handler |-> "EOF", value |-> ""]

\* The order of places in a file.
Precedes(p, q) == p[1] < q[1] \/ (p[1] = q[1] /\ p[2] < q[2])
Least(places) == CHOOSE p \in places : \A q \in places : ~Precedes(q, p)

\* StringSplitOptions.RemoveEmptyEntries, of words and of lines.
SplitWords(lines) ==
  UNION {{k} \X {i \in DOMAIN lines[k] : lines[k][i] # Gap} : k \in DOMAIN lines}
SplitLines(lines) == {k \in DOMAIN lines : lines[k] # <<>>}

WordAt(lines, p) == lines[p[1]][p[2]]
LineEnd(lines, k) == <<k, Len(lines[k]) + 1>>
FileEnd(lines) == <<Len(lines) + 1, 1>>

Tokens(lines) ==
  LET ends == {LineEnd(lines, k) : k \in SplitLines(lines)}
  IN  [p \in SplitWords(lines) \cup ends \cup {FileEnd(lines)} |->
         IF p = FileEnd(lines) THEN EOF
         ELSE IF p \in ends THEN NewLine ELSE Token(WordAt(lines, p))]

\* Words that throw: no handler takes them, or one does and cannot convert
\* them, as all binary literals (Convert.ToInt32 does not know their prefix).
Unreadable(w) == TryParseToken(w) = NoToken \/ "Binary" \in w.shapes

Failed(kind, at) == [kind |-> kind, line |-> at]
Now(kind) == Failed(kind, 0)

\* The lines before line k that are not empty.
LinesBefore(lines, k) == Cardinality({j \in SplitLines(lines) : j < k})

\* The exception for the word at p; it counts lines from 0, where it names one.
TokenError(lines, p) ==
  IF "Binary" \in WordAt(lines, p).shapes THEN Now("format")
  ELSE Failed("no token", LinesBefore(lines, p[1]))

-----------------------------------------------------------------------------
Init ==
  /\ instructionSet = {} /\ source \in Projects
  /\ file = 0 /\ tokens = <<>> /\ line = 0 /\ next = Unknown
  /\ statements = <<>> /\ symbols = {}
  /\ outcome = Now("starting")

\* Assemble first binds the instruction set, then looks for all files, and
\* gives up if one is not there.
Validate ==
  /\ outcome = Now("starting")
  /\ outcome' = IF \A i \in DOMAIN source : source[i].exists
                THEN Now("reading") ELSE Now("not found")
  /\ instructionSet' = Instructions
  /\ UNCHANGED <<source, file, parserVars>>

\* Tokenize, of the next file.
Tokenize ==
  /\ outcome = Now("reading") /\ file < Len(source)
  /\ LET lines == source[file + 1].lines
         bad == {p \in SplitWords(lines) : Unreadable(WordAt(lines, p))}
     IN  \/ /\ bad = {}
            /\ tokens' = Tokens(lines)
            /\ outcome' = Now("parsing")
         \/ /\ bad # {}
            /\ outcome' = TokenError(lines, Least(bad))
            /\ UNCHANGED tokens
  /\ line' = 0
  /\ file' = file + 1
  /\ UNCHANGED <<projectVars, next, statements, symbols>>

Finish ==
  /\ outcome = Now("reading") /\ file = Len(source)
  /\ outcome' = Now("assembled")
  /\ UNCHANGED <<projectVars, file, parserVars>>

-----------------------------------------------------------------------------
\* Parse, one turn of its loop for each token.

Current == Least(DOMAIN tokens)

Parsing(handlers) ==
  /\ outcome = Now("parsing") /\ DOMAIN tokens # {}
  /\ tokens[Current].handler \in handlers

Advance == tokens' = [p \in DOMAIN tokens \ {Current} |-> tokens[p]]

Throw(kind) ==
  /\ outcome' = Failed(kind, line)
  /\ UNCHANGED <<projectVars, file, parserVars>>

Operands == {"Register", "Identifier", "Integer", "Address"}

OperandFirst == Parsing(Operands) /\ next.type = "Unknown" /\ Throw("syntax")

\* Mutation: a name that is there is taken again.
AddSymbol_Overwrite(name) ==
  symbols' = symbols \cup {name} /\ Advance /\ UNCHANGED outcome

\* SymbolTable.Add: Dictionary.Add throws if the name is there.
AddSymbol(name) ==
  \/ /\ name \notin symbols
     /\ symbols' = symbols \cup {name}
     /\ Advance
     /\ UNCHANGED outcome
  \/ /\ name \in symbols
     /\ outcome' = Failed("twice", line)
     /\ UNCHANGED <<symbols, tokens>>

\* Of the tokens that begin a statement only labels make a symbol.
BeginStatement ==
  /\ Parsing(StatementHandlers) /\ next.type = "Unknown"
  /\ LET token == tokens[Current]
     IN  /\ next' = [next EXCEPT !.type = token.handler, !.name = token.value]
         /\ \/ token.handler = "Label" /\ AddSymbol(token.value)
            \/ /\ token.handler # "Label"
               /\ Advance
               /\ UNCHANGED <<symbols, outcome>>
  /\ UNCHANGED <<projectVars, file, line, statements>>

SecondStatement ==
  Parsing(StatementHandlers) /\ next.type # "Unknown" /\ Throw("syntax")

OperandOfLabel == Parsing(Operands) /\ next.type = "Label" /\ Throw("syntax")

AddOperand ==
  /\ Parsing(Operands) /\ next.type \in {"Directive", "Instruction"}
  /\ next' = [next EXCEPT !.operands = Append(@, tokens[Current])]
  /\ Advance
  /\ UNCHANGED <<projectVars, file, line, statements, symbols, outcome>>

\* Mutation: the operands of a statement are not cleared.
Build_KeepOperands == [Unknown EXCEPT !.operands = next.operands]

\* StatementBuilder.Build leaves an empty builder.
Build == Unknown

\* Mutation: a line with nothing to submit is not counted.
Terminate_CountStatements ==
  /\ Parsing(Terminators)
  /\ IF next.type = "Unknown" THEN UNCHANGED <<next, statements, line>>
     ELSE /\ statements' = Append(statements, next)
          /\ next' = Build
          /\ line' = line + 1
  /\ Advance
  /\ outcome' = IF DOMAIN tokens = {Current} THEN Now("reading") ELSE outcome
  /\ UNCHANGED <<projectVars, file, symbols>>

\* SubmitStatement; after the last token Parse returns.
Terminate ==
  /\ Parsing(Terminators)
  /\ IF next.type = "Unknown" THEN UNCHANGED <<next, statements>>
     ELSE /\ statements' = Append(statements, next)
          /\ next' = Build
  /\ line' = line + 1
  /\ Advance
  /\ outcome' = IF DOMAIN tokens = {Current} THEN Now("reading") ELSE outcome
  /\ UNCHANGED <<projectVars, file, symbols>>

Next ==
  \/ Validate
  \/ Tokenize
  \/ Finish
  \/ OperandFirst
  \/ BeginStatement
  \/ SecondStatement
  \/ OperandOfLabel
  \/ AddOperand
  \/ Terminate

Spec == Init /\ [][Next]_vars

-----------------------------------------------------------------------------
(***************************************************************************)
(* What a line means, whatever the lines around it: its first word says    *)
(* what it does, the others are what it does it with.  A line is the set   *)
(* of the places of its words.                                             *)
(***************************************************************************)
Begins(w) == IsMnemonic(w) \/ w.shapes \cap {"Directive", "Label"} # {}
Kind(w) ==
  IF IsMnemonic(w) THEN "Instruction"
  ELSE IF w.shapes = {"Register", "Identifier"} THEN "Register"
  ELSE CHOOSE s \in w.shapes : TRUE
Reading(w) == [handler |-> Kind(w), value |-> w.value]

WordsOf(lines, k) == {p \in SplitWords(lines) : p[1] = k}
Rank(p, places) == Cardinality({q \in places : ~Precedes(p, q)})

Good(lines, words) ==
  \A p \in words :
    /\ Begins(WordAt(lines, p)) <=> Rank(p, words) = 1
    /\ "Label" \in WordAt(lines, p).shapes => words = {p}

Means(statement, lines, words) ==
  /\ Len(statement.operands) + 1 = Cardinality(words)
  /\ \A p \in words :
       LET word == WordAt(lines, p)
       IN  IF Rank(p, words) = 1
           THEN statement.type = Kind(word) /\ statement.name = word.value
           ELSE statement.operands[Rank(p, words) - 1] = Reading(word)

\* All lines of the first n files that are not blank.
Program(n) ==
  {p \in (1..n) \X UNION {DOMAIN source[i].lines : i \in 1..n} :
     p[2] \in DOMAIN source[p[1]].lines /\ WordsOf(source[p[1]].lines, p[2]) # {}}

(***************************************************************************)
(* Between two files every line of the files read is one statement, with   *)
(* its operands and none of its neighbours', in order and over all files   *)
(* (Parser.cs:14-61, StatementBuilder.cs:26-36).                           *)
(***************************************************************************)
StatementsAreLines ==
  outcome \in {Now("reading"), Now("assembled")} =>
    /\ next = Unknown
    /\ Len(statements) = Cardinality(Program(file))
    /\ \A p \in Program(file) :
         LET lines == source[p[1]].lines
             words == WordsOf(lines, p[2])
         IN  /\ Good(lines, words)
             /\ Means(statements[Rank(p, Program(file))], lines, words)

(***************************************************************************)
(* The symbols are the labels of the statements, each there once: no label *)
(* of any file is lost, and none is given a second meaning                 *)
(* (Parser.cs:27-30, SymbolTable.cs:17-20).                                *)
(***************************************************************************)
SymbolsAreLabels ==
  outcome.kind # "twice" =>
    LET built == Append(statements, next)
        labels == {i \in DOMAIN built : built[i].type = "Label"}
    IN  /\ symbols = {built[i].name : i \in labels}
        /\ Cardinality(symbols) = Cardinality(labels)

(***************************************************************************)
(* The line that a syntax error names is the first that means nothing, by  *)
(* its number among the lines of its file that are not empty (Parser.cs:16 *)
(* and 40, Tokenizer.cs:51): lines of spaces count, empty ones do not.     *)
(***************************************************************************)
ErrorNamesLine ==
  outcome.kind = "syntax" =>
    LET lines == source[file].lines
        bad == {k \in DOMAIN lines : ~Good(lines, WordsOf(lines, k))}
    IN  \E k \in bad : (\A j \in bad : k <= j) /\ outcome.line = LinesBefore(lines, k)

(***************************************************************************)
(* The set the assembler has bound and the CPU's table agree: an           *)
(* instruction for every opcode that has a handler and for no other, one   *)
(* only, of the size the CPU fetches, with the operands the handler takes; *)
(* and the operands tell the instructions of one mnemonic apart            *)
(* (km8-isa-v1.json, opcodes.c:628-691).                                   *)
(***************************************************************************)
EncodingsAgree ==
  instructionSet # {} =>
    /\ {i.opcode : i \in instructionSet} = Assigned
    /\ Cardinality(instructionSet) = Cardinality(Assigned)
    /\ Cardinality({<<i.mnemonic, i.operands>> : i \in instructionSet})
         = Cardinality(instructionSet)
    /\ \A i \in instructionSet :
         Encoded(i) = Size(i.opcode) /\ i.operands = Takes(i.opcode)
=============================================================================
