----------------------------- MODULE KasmProofs -----------------------------
(***************************************************************************)
(* The assembler, for every project: what the statements, the symbols and  *)
(* the errors have to do with the lines of the files, and the instruction  *)
(* set with the CPU's table.                                               *)
(*                                                                         *)
(* Places and the least of them; the tokens of a file; ranks, and what a   *)
(* line means; the inductive invariant KasmInv; one lemma per action; the  *)
(* theorems.                                                               *)
(***************************************************************************)
EXTENDS Kasm, FiniteSetTheorems, WellFoundedInduction, TLAPS

-----------------------------------------------------------------------------
(***************************************************************************)
(* Places and their order.                                                 *)
(***************************************************************************)

LEMMA LeastNumber ==
  ASSUME NEW S \in SUBSET Nat, S # {}
  PROVE  \E m \in S : \A n \in S : m <= n
<1>1. PICK m \in S : \A n \in S : <<n, m>> \notin OpToRel(<, Nat)
  BY NatLessThanWellFounded, WFMin, Zenon
<1>2. \A n \in S : ~(n < m)
  BY <1>1, Zenon DEF OpToRel
<1> QED BY <1>2

LEMMA LeastPlace ==
  ASSUME NEW S \in SUBSET (Nat \X Nat), S # {}
  PROVE  /\ Least(S) \in S
         /\ \A q \in S : ~Precedes(q, Least(S))
<1> DEFINE Firsts == {q[1] : q \in S}
<1>1. PICK k \in Firsts : \A j \in Firsts : k <= j
  <2>1. Firsts \in SUBSET Nat /\ Firsts # {}
    OBVIOUS
  <2> QED BY <2>1, LeastNumber
<1> DEFINE Seconds == {q[2] : q \in {r \in S : r[1] = k}}
<1>2. PICK i \in Seconds : \A j \in Seconds : i <= j
  <2>1. Seconds \in SUBSET Nat /\ Seconds # {}
    OBVIOUS
  <2> QED BY <2>1, LeastNumber
<1>3. PICK p \in S : p[1] = k /\ p[2] = i
  OBVIOUS
<1>4. \A q \in S : ~Precedes(q, p)
  <2> TAKE q \in S
  <2>1. q[1] \in Nat /\ q[2] \in Nat /\ k \in Nat /\ i \in Nat
    OBVIOUS
  <2>2. k <= q[1] /\ (q[1] = k => i <= q[2])
    BY <1>1, <1>2
  <2> QED BY <1>3, <2>1, <2>2 DEF Precedes
<1> QED BY <1>3, <1>4 DEF Least

LEMMA PlaceOrder ==
  ASSUME NEW p \in Nat \X Nat, NEW q \in Nat \X Nat
  PROVE  /\ Precedes(p, q) => ~Precedes(q, p)
         /\ ~Precedes(p, q) /\ ~Precedes(q, p) => p = q
  BY DEF Precedes

LEMMA PlaceOrderTransitive ==
  ASSUME NEW p \in Nat \X Nat, NEW q \in Nat \X Nat, NEW r \in Nat \X Nat,
         Precedes(p, q), Precedes(q, r)
  PROVE  Precedes(p, r)
  BY DEF Precedes

(***************************************************************************)
(* A place behind all others changes the rank of none of them.             *)
(***************************************************************************)
LEMMA RankBounds ==
  ASSUME NEW S \in SUBSET (Nat \X Nat), IsFiniteSet(S), NEW p \in S
  PROVE  /\ Rank(p, S) \in 1..Cardinality(S)
         /\ Cardinality(S) \in Nat
<1> DEFINE T == {q \in S : ~Precedes(p, q)}
<1>1. p \in T
  BY PlaceOrder
<1>2. IsFiniteSet(T) /\ Cardinality(T) <= Cardinality(S)
  <2>1. T \in SUBSET S
    OBVIOUS
  <2> QED BY <2>1, FS_Subset
<1>3. Cardinality(S) \in Nat /\ Cardinality(T) \in Nat
  BY <1>2, FS_CardinalityType
<1>4. Cardinality(T) # 0
  BY <1>1, <1>2, FS_EmptySet
<1>5. Rank(p, S) = Cardinality(T)
  BY DEF Rank
<1> HIDE DEF T
<1> QED BY <1>2, <1>3, <1>4, <1>5

LEMMA RankBehind ==
  ASSUME NEW S \in SUBSET (Nat \X Nat), IsFiniteSet(S), NEW p \in Nat \X Nat,
         \A q \in S : Precedes(q, p)
  PROVE  /\ IsFiniteSet(S \cup {p})
         /\ Cardinality(S) \in Nat
         /\ Cardinality(S \cup {p}) = Cardinality(S) + 1
         /\ Rank(p, S \cup {p}) = Cardinality(S) + 1
         /\ \A q \in S : Rank(q, S \cup {p}) = Rank(q, S)
<1>1. p \notin S
  BY PlaceOrder
<1>2. /\ IsFiniteSet(S \cup {p})
      /\ Cardinality(S) \in Nat
      /\ Cardinality(S \cup {p}) = Cardinality(S) + 1
  BY <1>1, FS_AddElement, FS_CardinalityType
<1>3. {q \in S \cup {p} : ~Precedes(p, q)} = S \cup {p}
  BY PlaceOrder
<1>4. ASSUME NEW q \in S
      PROVE  {r \in S \cup {p} : ~Precedes(q, r)} = {r \in S : ~Precedes(q, r)}
  OBVIOUS
<1> QED BY <1>2, <1>3, <1>4 DEF Rank

LEMMA RankOfTwo ==
  ASSUME NEW S \in SUBSET (Nat \X Nat), IsFiniteSet(S), NEW p \in S, NEW q \in S,
         Precedes(q, p)
  PROVE  Rank(p, S) # 1
<1> DEFINE T == {r \in S : ~Precedes(p, r)}
<1>1. p \in T /\ q \in T /\ p # q
  BY PlaceOrder
<1>2. IsFiniteSet(T)
  <2>1. T \in SUBSET S
    OBVIOUS
  <2> QED BY <2>1, FS_Subset
<1>3. Cardinality(T) # 1
  BY <1>1, <1>2, FS_Singleton
<1> QED BY <1>3 DEF Rank

LEMMA RankOfLeast ==
  ASSUME NEW S \in SUBSET (Nat \X Nat), NEW p \in S, \A q \in S : ~Precedes(q, p)
  PROVE  Rank(p, S) = 1
<1>1. {q \in S : ~Precedes(p, q)} = {p}
  BY PlaceOrder
<1> QED BY <1>1, FS_Singleton DEF Rank

-----------------------------------------------------------------------------
(***************************************************************************)
(* The handler that takes a word is the one that the word means.           *)
(***************************************************************************)

LEMMA FirstFit ==
  ASSUME NEW w, NEW k \in 1..7, Accepts(Handlers[k], w),
         \A j \in 1..7 : j < k => ~Accepts(Handlers[j], w)
  PROVE  TryParseToken(w) = k
<1> DEFINE fits == {j \in 1..7 : Accepts(Handlers[j], w)}
<1>1. Len(Handlers) = 7
  BY DEF Handlers
<1>2. TryParseToken(w) = CHOOSE i \in fits : \A j \in fits : i <= j
  BY <1>1 DEF TryParseToken
<1>3. k \in fits /\ \A j \in fits : k <= j
  OBVIOUS
<1>4. ASSUME NEW i \in fits, \A j \in fits : i <= j
      PROVE  i = k
  BY <1>3, <1>4
<1> QED BY <1>2, <1>3, <1>4

LEMMA NoFit ==
  ASSUME NEW w, \A j \in 1..7 : ~Accepts(Handlers[j], w)
  PROVE  TryParseToken(w) = NoToken
<1>1. Len(Handlers) = 7
  BY DEF Handlers
<1>2. {k \in 1..Len(Handlers) : Accepts(Handlers[k], w)} = {}
  BY <1>1
<1> QED BY <1>2 DEF TryParseToken

LEMMA HandlerNames ==
  /\ Handlers[1] = "Directive" /\ Handlers[2] = "Instruction" /\ Handlers[3] = "Label"
  /\ Handlers[4] = "Register" /\ Handlers[5] = "Identifier" /\ Handlers[6] = "Integer"
  /\ Handlers[7] = "Address"
  BY DEF Handlers

\* What the word, which no earlier handler takes, is for the first that does.
LEMMA FitOfShapes ==
  ASSUME NEW w, instructionSet = Instructions, NEW k \in (1..7) \ {2},
         ~IsMnemonic(w), Handlers[k] \in w.shapes,
         \A j \in (1..7) \ {2} : j < k => Handlers[j] \notin w.shapes
  PROVE  Handlers[TryParseToken(w)] = Handlers[k]
<1>1. ~Accepts(Handlers[2], w)
  BY HandlerNames DEF Accepts, IsMnemonic
<1>2. \A j \in (1..7) \ {2} : Accepts(Handlers[j], w) <=> Handlers[j] \in w.shapes
  BY HandlerNames DEF Accepts
<1>3. Accepts(Handlers[k], w)
  BY <1>2
<1>4. \A j \in 1..7 : j < k => ~Accepts(Handlers[j], w)
  BY <1>1, <1>2
<1> QED BY <1>3, <1>4, FirstFit

LEMMA ShapesKinds ==
  ASSUME NEW w \in Texts, ~IsMnemonic(w), w.shapes # {}, "Binary" \notin w.shapes
  PROVE  \E k \in (1..7) \ {2} :
           /\ Handlers[k] \in w.shapes
           /\ \A j \in (1..7) \ {2} : j < k => Handlers[j] \notin w.shapes
           /\ Kind(w) = Handlers[k]
<1>1. w.shapes \in Shapes
  BY DEF Texts
<1>2. CASE w.shapes = {"Directive"}
  <2>1. Kind(w) = "Directive"
    BY <1>2 DEF Kind
  <2> QED BY <1>2, <2>1, HandlerNames
<1>3. CASE w.shapes = {"Label"}
  <2>1. Kind(w) = "Label"
    BY <1>3 DEF Kind
  <2>2. \A j \in (1..7) \ {2} : j < 3 => j = 1
    OBVIOUS
  <2> QED BY <1>3, <2>1, <2>2, HandlerNames
<1>4. CASE w.shapes = {"Register", "Identifier"}
  <2>1. Kind(w) = "Register"
    BY <1>4 DEF Kind
  <2>2. \A j \in (1..7) \ {2} : j < 4 => j \in {1, 3}
    OBVIOUS
  <2> QED BY <1>4, <2>1, <2>2, HandlerNames
<1>5. CASE w.shapes = {"Identifier"}
  <2>1. Kind(w) = "Identifier"
    <3>1. w.shapes # {"Register", "Identifier"}
      BY <1>5
    <3> QED BY <1>5, <3>1 DEF Kind
  <2>2. \A j \in (1..7) \ {2} : j < 5 => j \in {1, 3, 4}
    OBVIOUS
  <2> QED BY <1>5, <2>1, <2>2, HandlerNames
<1>6. CASE w.shapes = {"Integer"}
  <2>1. Kind(w) = "Integer"
    BY <1>6 DEF Kind
  <2>2. \A j \in (1..7) \ {2} : j < 6 => j \in {1, 3, 4, 5}
    OBVIOUS
  <2> QED BY <1>6, <2>1, <2>2, HandlerNames
<1>7. CASE w.shapes = {"Address"}
  <2>1. Kind(w) = "Address"
    BY <1>7 DEF Kind
  <2>2. \A j \in (1..7) \ {2} : j < 7 => j \in {1, 3, 4, 5, 6}
    OBVIOUS
  <2> QED BY <1>7, <2>1, <2>2, HandlerNames
<1> QED BY <1>1, <1>2, <1>3, <1>4, <1>5, <1>6, <1>7 DEF Shapes

LEMMA HandlerIsKind ==
  ASSUME NEW w \in Texts, instructionSet = Instructions, ~Unreadable(w)
  PROVE  /\ Handlers[TryParseToken(w)] = Kind(w)
         /\ Kind(w) \in StatementHandlers \cup Operands
         /\ Begins(w) <=> Kind(w) \in StatementHandlers
         /\ "Label" \in w.shapes <=> Kind(w) = "Label"
<1>1. CASE IsMnemonic(w)
  <2>1. w.shapes = {"Identifier"} /\ Kind(w) = "Instruction" /\ Begins(w)
    BY <1>1 DEF Texts, Kind, Begins
  <2>2. ~Accepts(Handlers[1], w)
    BY <2>1, HandlerNames DEF Accepts
  <2>3. Accepts(Handlers[2], w)
    BY <1>1, HandlerNames DEF Accepts, IsMnemonic
  <2>4. \A j \in 1..7 : j < 2 => j = 1
    OBVIOUS
  <2>5. TryParseToken(w) = 2
    BY <2>2, <2>3, <2>4, FirstFit
  <2> QED BY <2>1, <2>5, HandlerNames DEF StatementHandlers
<1>2. CASE ~IsMnemonic(w)
  <2>1. "Binary" \notin w.shapes
    BY DEF Unreadable
  <2>2. w.shapes # {}
    <3> SUFFICES ASSUME w.shapes = {} PROVE FALSE
      OBVIOUS
    <3>1. \A j \in 1..7 : ~Accepts(Handlers[j], w)
      BY <1>2, HandlerNames DEF Accepts, IsMnemonic
    <3> QED BY <3>1, NoFit DEF Unreadable
  <2>3. PICK k \in (1..7) \ {2} :
          /\ Handlers[k] \in w.shapes
          /\ \A j \in (1..7) \ {2} : j < k => Handlers[j] \notin w.shapes
          /\ Kind(w) = Handlers[k]
    BY <1>2, <2>1, <2>2, ShapesKinds
  <2>4. Handlers[TryParseToken(w)] = Kind(w)
    BY <1>2, <2>3, FitOfShapes
  <2>5. k \in {1, 3, 4, 5, 6, 7}
    OBVIOUS
  <2>6. Kind(w) \in StatementHandlers \cup Operands
    BY <2>3, <2>5, HandlerNames DEF StatementHandlers, Operands
  <2>7. Begins(w) <=> Kind(w) \in StatementHandlers
    BY <1>2, <2>1, <2>2, <2>3, <2>5, HandlerNames DEF Texts, Shapes, Begins, StatementHandlers
  <2>8. "Label" \in w.shapes <=> Kind(w) = "Label"
    BY <1>2, <2>1, <2>2, <2>3, <2>5, HandlerNames DEF Texts, Shapes
  <2> QED BY <2>4, <2>6, <2>7, <2>8
<1> QED BY <1>1, <1>2

-----------------------------------------------------------------------------
(***************************************************************************)
(* The places of a file: where its words stand, and where lines end.       *)
(***************************************************************************)

AllLines == Seq(Seq(Texts \cup {Gap}))

Places(lines) ==
  SplitWords(lines) \cup {LineEnd(lines, k) : k \in SplitLines(lines)} \cup {FileEnd(lines)}

LEMMA ProjectLines ==
  ASSUME source \in Projects
  PROVE  /\ Len(source) \in Nat
         /\ \A n \in 1..Len(source) : source[n].lines \in AllLines
<1> DEFINE Files == [exists : BOOLEAN, lines : AllLines]
<1>1. source \in Seq(Files)
  BY KasmAssumption DEF AllLines
<1>2. Len(source) \in Nat
  BY <1>1
<1>3. ASSUME NEW n \in 1..Len(source) PROVE source[n].lines \in AllLines
  <2>1. source[n] \in Files
    <3> HIDE DEF Files
    <3> QED BY <1>1
  <2> QED BY <2>1
<1> QED BY <1>2, <1>3

LEMMA LineTypes ==
  ASSUME NEW lines \in AllLines
  PROVE  /\ Len(lines) \in Nat
         /\ DOMAIN lines = 1..Len(lines)
         /\ \A k \in DOMAIN lines :
              /\ Len(lines[k]) \in Nat
              /\ DOMAIN lines[k] = 1..Len(lines[k])
              /\ lines[k] \in Seq(Texts \cup {Gap})
  BY DEF AllLines

LEMMA WordPlaces ==
  ASSUME NEW lines \in AllLines
  PROVE  \A p : p \in SplitWords(lines) <=>
           /\ p \in Nat \X Nat
           /\ p[1] \in 1..Len(lines) /\ p[2] \in 1..Len(lines[p[1]])
           /\ WordAt(lines, p) \in Texts
<1> SUFFICES ASSUME NEW p
             PROVE  p \in SplitWords(lines) <=>
                      /\ p \in Nat \X Nat
                      /\ p[1] \in 1..Len(lines) /\ p[2] \in 1..Len(lines[p[1]])
                      /\ WordAt(lines, p) \in Texts
  OBVIOUS
<1>1. p \in SplitWords(lines) <=>
        \E k \in DOMAIN lines : p \in {k} \X {i \in DOMAIN lines[k] : lines[k][i] # Gap}
  BY DEF SplitWords
<1>2. ASSUME NEW k \in DOMAIN lines, p \in {k} \X {i \in DOMAIN lines[k] : lines[k][i] # Gap}
      PROVE  /\ p \in Nat \X Nat
             /\ p[1] \in 1..Len(lines) /\ p[2] \in 1..Len(lines[p[1]])
             /\ WordAt(lines, p) \in Texts
  <2>1. p[1] = k /\ p[2] \in 1..Len(lines[k]) /\ p = <<p[1], p[2]>> /\ lines[k][p[2]] # Gap
    BY <1>2, LineTypes
  <2>2. lines[k][p[2]] \in Texts
    BY <2>1, LineTypes
  <2>3. p[1] \in Nat /\ p[2] \in Nat
    BY <2>1, LineTypes
  <2> QED BY <2>1, <2>2, <2>3, LineTypes DEF WordAt
<1>3. ASSUME p \in Nat \X Nat,
             p[1] \in 1..Len(lines), p[2] \in 1..Len(lines[p[1]]),
             WordAt(lines, p) \in Texts
      PROVE  p \in {p[1]} \X {i \in DOMAIN lines[p[1]] : lines[p[1]][i] # Gap}
  BY <1>3, LineTypes, KasmAssumption DEF WordAt
<1>4. p[1] \in 1..Len(lines) => p[1] \in DOMAIN lines
  BY LineTypes
<1> QED BY <1>1, <1>2, <1>3, <1>4

LEMMA EndPlaces ==
  ASSUME NEW lines \in AllLines
  PROVE  /\ \A k \in SplitLines(lines) :
              /\ LineEnd(lines, k) \in Nat \X Nat
              /\ LineEnd(lines, k)[1] = k
              /\ k \in 1..Len(lines)
              /\ LineEnd(lines, k) \notin SplitWords(lines)
              /\ LineEnd(lines, k) # FileEnd(lines)
         /\ FileEnd(lines) \in Nat \X Nat
         /\ FileEnd(lines)[1] = Len(lines) + 1
         /\ FileEnd(lines) \notin SplitWords(lines)
<1>1. ASSUME NEW k \in SplitLines(lines)
      PROVE  /\ LineEnd(lines, k) \in Nat \X Nat
             /\ LineEnd(lines, k)[1] = k /\ LineEnd(lines, k)[2] = Len(lines[k]) + 1
             /\ k \in 1..Len(lines)
             /\ LineEnd(lines, k) # FileEnd(lines)
  BY LineTypes DEF SplitLines, LineEnd, FileEnd
<1>2. ASSUME NEW k \in SplitLines(lines)
      PROVE  LineEnd(lines, k) \notin SplitWords(lines)
  <2>1. Len(lines[k]) \in Nat
    BY LineTypes DEF SplitLines
  <2>2. LineEnd(lines, k)[2] \notin 1..Len(lines[LineEnd(lines, k)[1]])
    BY <1>1, <2>1
  <2> QED BY <2>2, WordPlaces
<1>3. FileEnd(lines) \in Nat \X Nat /\ FileEnd(lines)[1] = Len(lines) + 1
  BY LineTypes DEF FileEnd
<1>4. FileEnd(lines) \notin SplitWords(lines)
  <2>1. FileEnd(lines)[1] \notin 1..Len(lines)
    BY <1>3, LineTypes
  <2> QED BY <2>1, WordPlaces
<1> QED BY <1>1, <1>2, <1>3, <1>4

LEMMA WordBeforeEnd ==
  ASSUME NEW lines \in AllLines, NEW p \in SplitWords(lines)
  PROVE  /\ p[1] \in SplitLines(lines)
         /\ Precedes(p, LineEnd(lines, p[1]))
<1>1. p[1] \in 1..Len(lines) /\ p[2] \in 1..Len(lines[p[1]])
  BY WordPlaces
<1>2. p[1] \in DOMAIN lines /\ Len(lines[p[1]]) \in Nat
  BY <1>1, LineTypes
<1>3. lines[p[1]] # <<>>
  BY <1>1
<1>4. p[1] \in SplitLines(lines)
  BY <1>2, <1>3 DEF SplitLines
<1>5. Precedes(p, LineEnd(lines, p[1]))
  BY <1>1, <1>2 DEF Precedes, LineEnd
<1> QED BY <1>4, <1>5

LEMMA PlacesArePairs ==
  ASSUME NEW lines \in AllLines
  PROVE  /\ Places(lines) \in SUBSET (Nat \X Nat)
         /\ FileEnd(lines) \in Places(lines)
         /\ \A p \in Places(lines) : p # FileEnd(lines) => Precedes(p, FileEnd(lines))
<1>1. \A p \in SplitWords(lines) : p \in Nat \X Nat /\ p[1] \in 1..Len(lines)
  BY WordPlaces
<1>2. \A p \in Places(lines) : p # FileEnd(lines) => p \in Nat \X Nat /\ p[1] \in 1..Len(lines)
  BY <1>1, EndPlaces DEF Places
<1>3. \A p \in Places(lines) : p # FileEnd(lines) => p[1] < FileEnd(lines)[1]
  BY <1>2, EndPlaces, LineTypes
<1> QED BY <1>2, <1>3, EndPlaces DEF Places, Precedes

LEMMA TokenOfPlace ==
  ASSUME NEW lines \in AllLines
  PROVE  /\ DOMAIN Tokens(lines) = Places(lines)
         /\ Tokens(lines)[FileEnd(lines)] = EOF
         /\ \A k \in SplitLines(lines) : Tokens(lines)[LineEnd(lines, k)] = NewLine
         /\ \A p \in SplitWords(lines) : Tokens(lines)[p] = Token(WordAt(lines, p))
<1> DEFINE ends == {LineEnd(lines, k) : k \in SplitLines(lines)}
           TokenAt(p) == IF p = FileEnd(lines) THEN EOF
                         ELSE IF p \in ends THEN NewLine ELSE Token(WordAt(lines, p))
<1>1. Tokens(lines) = [p \in Places(lines) |-> TokenAt(p)]
  BY DEF Tokens, Places
<1>2. TokenAt(FileEnd(lines)) = EOF
  OBVIOUS
<1>3. ASSUME NEW k \in SplitLines(lines)
      PROVE  LineEnd(lines, k) \in Places(lines) /\ TokenAt(LineEnd(lines, k)) = NewLine
  BY EndPlaces DEF Places
<1>4. ASSUME NEW p \in SplitWords(lines)
      PROVE  p \in Places(lines) /\ TokenAt(p) = Token(WordAt(lines, p))
  BY EndPlaces DEF Places
<1>5. FileEnd(lines) \in Places(lines)
  BY DEF Places
<1> HIDE DEF TokenAt
<1> QED BY <1>1, <1>2, <1>3, <1>4, <1>5

LEMMA WordsFinite ==
  ASSUME NEW lines \in AllLines, NEW k \in DOMAIN lines
  PROVE  /\ IsFiniteSet(WordsOf(lines, k))
         /\ WordsOf(lines, k) \in SUBSET (Nat \X Nat)
<1> DEFINE W == WordsOf(lines, k)
           f == [p \in W |-> p[2]]
<1>1. \A p \in W : p \in Nat \X Nat /\ p[1] = k /\ p[2] \in 1..Len(lines[k])
  BY WordPlaces DEF WordsOf
<1>2. f \in Injection(W, 1..Len(lines[k]))
  <2>1. f \in [W -> 1..Len(lines[k])]
    BY <1>1
  <2>2. \A p, q \in W : f[p] = f[q] => p = q
    BY <1>1
  <2> QED BY <2>1, <2>2 DEF Injection, IsInjective
<1>3. IsFiniteSet(1..Len(lines[k]))
  BY LineTypes, FS_Interval
<1>4. IsFiniteSet(W)
  <2> HIDE DEF W, f
  <2> QED BY <1>2, <1>3, FS_Injection
<1> QED BY <1>1, <1>4

LEMMA LinesFinite ==
  ASSUME NEW lines \in AllLines, NEW S \in SUBSET SplitLines(lines)
  PROVE  IsFiniteSet(S) /\ Cardinality(S) \in Nat
<1>1. S \in SUBSET (1..Len(lines))
  BY LineTypes DEF SplitLines
<1>2. IsFiniteSet(1..Len(lines))
  BY LineTypes, FS_Interval
<1> QED BY <1>1, <1>2, FS_Subset, FS_CardinalityType

-----------------------------------------------------------------------------
(***************************************************************************)
(* The inductive invariant.                                                *)
(***************************************************************************)

Kinds == StatementHandlers \cup Operands
Names == STRING \cup {""}
Operand == [handler : Kinds, value : Names]
Statement == [type : Kinds \cup {"Unknown"}, name : Names, operands : Seq(Operand)]
Outcomes ==
  {"starting", "not found", "reading", "no token", "format", "parsing", "syntax", "twice",
   "assembled"}

FileLines == source[file].lines

TypeInv ==
  /\ source \in Projects
  /\ instructionSet = IF outcome = Now("starting") THEN {} ELSE Instructions
  /\ file \in 0..Len(source)
  /\ line \in Nat
  /\ next \in Statement
  /\ statements \in Seq(Statement)
  /\ symbols \subseteq Names
  /\ outcome \in [kind : Outcomes, line : Nat]

\* The lines that the parser is through with, and the words it has read of
\* the line it is at.
Ended == {k \in SplitLines(FileLines) : LineEnd(FileLines, k) \notin DOMAIN tokens}
Half == {p \in SplitWords(FileLines) : p \notin DOMAIN tokens /\ p[1] \notin Ended}

\* The tokens left are the last ones of the file.
TokensInv ==
  /\ DOMAIN tokens \subseteq Places(FileLines)
  /\ FileEnd(FileLines) \in DOMAIN tokens
  /\ \A p \in DOMAIN tokens : tokens[p] = Tokens(FileLines)[p]
  /\ \A p \in DOMAIN tokens, q \in Places(FileLines) : Precedes(p, q) => q \in DOMAIN tokens
  /\ \A p \in SplitWords(FileLines) : ~Unreadable(WordAt(FileLines, p))

\* The statements are those of the lines given, in their order.
Told(files, told, full) ==
  /\ IsFiniteSet(full)
  /\ Len(told) = Cardinality(full)
  /\ \A p \in full :
       LET lines == files[p[1]].lines
           words == WordsOf(lines, p[2])
       IN  /\ Good(lines, words)
           /\ Means(told[Rank(p, full)], lines, words)

\* The lines that have their statements while a file is parsed.
Full ==
  Program(file - 1)
    \cup {<<file, k>> : k \in {j \in Ended : WordsOf(FileLines, j) # {}}}

HalfInv ==
  IF Half = {} THEN next = Unknown ELSE Means(next, FileLines, Half) /\ Good(FileLines, Half)

ParsingInv ==
  outcome = Now("parsing") =>
    /\ file > 0
    /\ TokensInv
    /\ line = Cardinality(Ended)
    /\ HalfInv
    /\ Told(source, statements, Full)

BetweenInv ==
  outcome \in {Now("starting"), Now("reading"), Now("assembled")} =>
    next = Unknown /\ Told(source, statements, Program(file))

KasmInv == TypeInv /\ BetweenInv /\ ParsingInv /\ ErrorNamesLine

-----------------------------------------------------------------------------
(***************************************************************************)
(* Where the parser is: the tokens behind it and those before it.          *)
(***************************************************************************)

\* A file is being parsed.
Scene == TypeInv /\ file > 0 /\ TokensInv /\ instructionSet = Instructions

LEMMA ParsingScene ==
  ASSUME TypeInv, ParsingInv, outcome = Now("parsing")
  PROVE  Scene
  BY DEF Scene, TypeInv, ParsingInv, Now, Failed

LEMMA SceneLines ==
  ASSUME Scene
  PROVE  /\ FileLines \in AllLines
         /\ file \in Nat /\ file - 1 \in Nat
  BY ProjectLines DEF Scene, TypeInv, FileLines

LEMMA CurrentPlace ==
  ASSUME Scene
  PROVE  /\ Current \in DOMAIN tokens
         /\ Current \in Places(FileLines)
         /\ Current \in Nat \X Nat
         /\ tokens[Current] = Tokens(FileLines)[Current]
         /\ \A q \in Places(FileLines) :
              /\ q \in Nat \X Nat
              /\ q \in DOMAIN tokens <=> ~Precedes(q, Current)
<1>1. DOMAIN tokens \in SUBSET (Nat \X Nat) /\ DOMAIN tokens # {}
  BY SceneLines, PlacesArePairs DEF Scene, TokensInv
<1>2. Current \in DOMAIN tokens /\ \A q \in DOMAIN tokens : ~Precedes(q, Current)
  BY <1>1, LeastPlace DEF Current
<1>3. Current \in Places(FileLines) /\ tokens[Current] = Tokens(FileLines)[Current]
  BY <1>2 DEF Scene, TokensInv
<1>4. Places(FileLines) \in SUBSET (Nat \X Nat)
  BY SceneLines, PlacesArePairs
<1>5. ASSUME NEW q \in Places(FileLines), ~Precedes(q, Current)
      PROVE  q \in DOMAIN tokens
  <2>1. CASE Precedes(Current, q)
    BY <1>2, <2>1 DEF Scene, TokensInv
  <2>2. CASE ~Precedes(Current, q)
    <3>1. q = Current
      BY <1>3, <1>4, <1>5, <2>2, PlaceOrder
    <3> QED BY <1>2, <3>1
  <2> QED BY <2>1, <2>2
<1> QED BY <1>2, <1>3, <1>4, <1>5

LEMMA WordsArePlaces ==
  ASSUME NEW lines
  PROVE  /\ SplitWords(lines) \subseteq Places(lines)
         /\ \A k \in SplitLines(lines) : LineEnd(lines, k) \in Places(lines)
  BY DEF Places

\* The token at a word is the one the word means, the others are terminators.
LEMMA CurrentWord ==
  ASSUME Scene, Current \in SplitWords(FileLines)
  PROVE  LET word == WordAt(FileLines, Current)
         IN  /\ word \in Texts
             /\ tokens[Current] = Reading(word)
             /\ Kind(word) \in StatementHandlers \cup Operands
             /\ Begins(word) <=> Kind(word) \in StatementHandlers
             /\ "Label" \in word.shapes <=> Kind(word) = "Label"
<1> DEFINE word == WordAt(FileLines, Current)
<1>1. word \in Texts
  BY SceneLines, WordPlaces
<1>2. ~Unreadable(word)
  BY DEF Scene, TokensInv
<1>3. instructionSet = Instructions
  BY DEF Scene
<1>4. tokens[Current] = Token(word)
  BY SceneLines, CurrentPlace, TokenOfPlace
<1> HIDE DEF word
<1>5. /\ Handlers[TryParseToken(word)] = Kind(word)
      /\ Kind(word) \in StatementHandlers \cup Operands
      /\ Begins(word) <=> Kind(word) \in StatementHandlers
      /\ "Label" \in word.shapes <=> Kind(word) = "Label"
  BY <1>1, <1>2, <1>3, HandlerIsKind
<1>6. tokens[Current] = Reading(word)
  BY <1>4, <1>5 DEF Token, Reading
<1> QED BY <1>1, <1>5, <1>6 DEF word

LEMMA WordsAndEnds ==
  ASSUME Scene
  PROVE  /\ tokens[Current].handler \in Terminators <=> Current \notin SplitWords(FileLines)
         /\ Current \notin SplitWords(FileLines) =>
              \/ Current = FileEnd(FileLines)
              \/ \E k \in SplitLines(FileLines) : Current = LineEnd(FileLines, k)
<1>1. CASE Current \in SplitWords(FileLines)
  <2>1. tokens[Current].handler \in StatementHandlers \cup Operands
    BY <1>1, CurrentWord DEF Reading
  <2> QED BY <1>1, <2>1 DEF StatementHandlers, Operands, Terminators
<1>2. CASE Current \notin SplitWords(FileLines)
  <2>1. \/ Current = FileEnd(FileLines)
        \/ \E k \in SplitLines(FileLines) : Current = LineEnd(FileLines, k)
    BY <1>2, CurrentPlace DEF Places
  <2>2. tokens[Current] = EOF \/ tokens[Current] = NewLine
    BY <2>1, SceneLines, CurrentPlace, TokenOfPlace
  <2>3. tokens[Current].handler \in Terminators
    <3>1. EOF.handler \in Terminators /\ NewLine.handler \in Terminators
      BY DEF EOF, NewLine, Terminators
    <3> QED BY <2>2, <3>1
  <2> QED BY <1>2, <2>1, <2>3
<1> QED BY <1>1, <1>2

(***************************************************************************)
(* At a word: the lines behind are done, and the words of its line that    *)
(* stand before it are those read.                                         *)
(***************************************************************************)
LEMMA AtWord ==
  ASSUME Scene, Current \in SplitWords(FileLines)
  PROVE  /\ Current[1] \in SplitLines(FileLines)
         /\ Ended = {k \in SplitLines(FileLines) : k < Current[1]}
         /\ Half = {q \in WordsOf(FileLines, Current[1]) : Precedes(q, Current)}
<1>1. Current[1] \in SplitLines(FileLines) /\ Precedes(Current, LineEnd(FileLines, Current[1]))
  BY SceneLines, WordBeforeEnd
<1>2. ASSUME NEW k \in SplitLines(FileLines)
      PROVE  LineEnd(FileLines, k) \notin DOMAIN tokens <=> k < Current[1]
  <2>1. LineEnd(FileLines, k) \notin DOMAIN tokens <=> Precedes(LineEnd(FileLines, k), Current)
    BY CurrentPlace, WordsArePlaces
  <2>2. /\ LineEnd(FileLines, k) \in Nat \X Nat /\ LineEnd(FileLines, k)[1] = k
        /\ Current \in Nat \X Nat
    BY SceneLines, EndPlaces, CurrentPlace
  <2>3. CASE k = Current[1]
    <3>1. ~Precedes(LineEnd(FileLines, k), Current)
      BY <1>1, <2>2, <2>3, PlaceOrder
    <3> QED BY <2>1, <2>3, <3>1, <2>2
  <2>4. CASE k # Current[1]
    <3>1. Precedes(LineEnd(FileLines, k), Current) <=> k < Current[1]
      BY <2>2, <2>4 DEF Precedes
    <3> QED BY <2>1, <3>1
  <2> QED BY <2>3, <2>4
<1>3. Ended = {k \in SplitLines(FileLines) : k < Current[1]}
  BY <1>2 DEF Ended
<1>4. ASSUME NEW q \in SplitWords(FileLines)
      PROVE  q \notin DOMAIN tokens /\ q[1] \notin Ended
               <=> q[1] = Current[1] /\ Precedes(q, Current)
  <2>1. q \notin DOMAIN tokens <=> Precedes(q, Current)
    BY CurrentPlace, WordsArePlaces
  <2>2. q[1] \in SplitLines(FileLines)
    BY SceneLines, WordBeforeEnd
  <2>3. q[1] \notin Ended <=> ~(q[1] < Current[1])
    BY <1>3, <2>2
  <2>4. q \in Nat \X Nat /\ Current \in Nat \X Nat
    BY SceneLines, WordPlaces, CurrentPlace
  <2>5. Precedes(q, Current) => (~(q[1] < Current[1]) <=> q[1] = Current[1])
    BY <2>4 DEF Precedes
  <2> QED BY <2>1, <2>3, <2>5
<1>5. Half = {q \in WordsOf(FileLines, Current[1]) : Precedes(q, Current)}
  BY <1>4 DEF Half, WordsOf
<1> QED BY <1>1, <1>3, <1>5

\* Where a line ends, all of its words have been read.
LEMMA AtLineEnd ==
  ASSUME Scene, NEW k \in SplitLines(FileLines), Current = LineEnd(FileLines, k)
  PROVE  /\ Ended = {j \in SplitLines(FileLines) : j < k}
         /\ Half = WordsOf(FileLines, k)
<1>1. ASSUME NEW j \in SplitLines(FileLines)
      PROVE  LineEnd(FileLines, j) \notin DOMAIN tokens <=> j < k
  <2>1. LineEnd(FileLines, j) \notin DOMAIN tokens <=> Precedes(LineEnd(FileLines, j), Current)
    BY CurrentPlace, WordsArePlaces
  <2>2. /\ LineEnd(FileLines, j) \in Nat \X Nat /\ LineEnd(FileLines, j)[1] = j
        /\ Current \in Nat \X Nat /\ Current[1] = k
    BY SceneLines, EndPlaces
  <2>3. CASE j = k
    BY <2>1, <2>2, <2>3, PlaceOrder
  <2>4. CASE j # k
    <3>1. Precedes(LineEnd(FileLines, j), Current) <=> j < k
      BY <2>2, <2>4 DEF Precedes
    <3> QED BY <2>1, <3>1
  <2> QED BY <2>3, <2>4
<1>2. Ended = {j \in SplitLines(FileLines) : j < k}
  BY <1>1 DEF Ended
<1>3. ASSUME NEW q \in SplitWords(FileLines)
      PROVE  q \notin DOMAIN tokens /\ q[1] \notin Ended <=> q[1] = k
  <2>1. q \notin DOMAIN tokens <=> Precedes(q, Current)
    BY CurrentPlace, WordsArePlaces
  <2>2. q[1] \in SplitLines(FileLines) /\ Precedes(q, LineEnd(FileLines, q[1]))
    BY SceneLines, WordBeforeEnd
  <2>3. q[1] \notin Ended <=> ~(q[1] < k)
    BY <1>2, <2>2
  <2>4. q \in Nat \X Nat /\ Current \in Nat \X Nat /\ Current[1] = k
    BY SceneLines, WordPlaces, EndPlaces
  <2>5. q[1] = k => Precedes(q, Current)
    BY <2>2
  <2>6. Precedes(q, Current) /\ ~(q[1] < k) => q[1] = k
    BY <2>4 DEF Precedes
  <2>7. q[1] = k => ~(q[1] < k)
    BY <2>4
  <2> QED BY <2>1, <2>3, <2>5, <2>6, <2>7
<1>4. Half = WordsOf(FileLines, k)
  BY <1>3 DEF Half, WordsOf
<1> QED BY <1>2, <1>4

\* Where the file ends, all of its lines have been read.
LEMMA AtFileEnd ==
  ASSUME Scene, Current = FileEnd(FileLines)
  PROVE  /\ DOMAIN tokens = {Current}
         /\ Ended = SplitLines(FileLines)
         /\ Half = {}
<1>1. ASSUME NEW q \in Places(FileLines), q # Current
      PROVE  q \notin DOMAIN tokens
  BY <1>1, SceneLines, PlacesArePairs, CurrentPlace
<1>2. DOMAIN tokens = {Current}
  BY <1>1, CurrentPlace DEF Scene, TokensInv
<1>3. Ended = SplitLines(FileLines)
  BY <1>1, SceneLines, EndPlaces, WordsArePlaces DEF Ended
<1>4. Half = {}
  BY <1>3, SceneLines, WordBeforeEnd DEF Half
<1> QED BY <1>2, <1>3, <1>4

-----------------------------------------------------------------------------
(***************************************************************************)
(* How a statement grows with the words of its line.                       *)
(***************************************************************************)

LEMMA KindsAreTypes ==
  ASSUME NEW w \in Texts, Kind(w) \in Kinds
  PROVE  Reading(w) \in Operand /\ w.value \in Names /\ Kind(w) # "Unknown"
<1>1. w.value \in Names
  BY DEF Texts, Names
<1>2. Kind(w) # "Unknown"
  BY DEF Kinds, StatementHandlers, Operands
<1>3. Reading(w) \in Operand
  BY <1>1 DEF Reading, Operand
<1> QED BY <1>1, <1>2, <1>3

LEMMA UnknownStatement == Unknown \in Statement
<1>1. <<>> \in Seq(Operand)
  OBVIOUS
<1>2. "" \in Names /\ "Unknown" \in Kinds \cup {"Unknown"}
  BY DEF Names
<1> HIDE DEF Kinds
<1> QED BY <1>1, <1>2 DEF Unknown, Statement

LEMMA FirstWordMeans ==
  ASSUME NEW lines, NEW p \in Nat \X Nat, NEW s \in Statement,
         s.operands = <<>>,
         s.type = Kind(WordAt(lines, p)), s.name = WordAt(lines, p).value,
         Begins(WordAt(lines, p))
  PROVE  Means(s, lines, {p}) /\ Good(lines, {p})
<1>1. Cardinality({p}) = 1
  BY FS_Singleton
<1>2. Rank(p, {p}) = 1
  BY RankOfLeast, PlaceOrder
<1>3. Len(s.operands) + 1 = 1
  OBVIOUS
<1>4. Means(s, lines, {p})
  BY <1>1, <1>2, <1>3 DEF Means
<1>5. Good(lines, {p})
  BY <1>2 DEF Good
<1> QED BY <1>4, <1>5

LEMMA NextWordMeans ==
  ASSUME NEW lines, NEW S \in SUBSET (Nat \X Nat), IsFiniteSet(S), S # {},
         NEW s \in Statement, Means(s, lines, S),
         NEW p \in Nat \X Nat, \A q \in S : Precedes(q, p),
         Reading(WordAt(lines, p)) \in Operand
  PROVE  Means([s EXCEPT !.operands = Append(@, Reading(WordAt(lines, p)))], lines, S \cup {p})
<1> DEFINE r == Reading(WordAt(lines, p))
           o == s.operands
           t == [s EXCEPT !.operands = Append(@, r)]
<1>1. /\ Cardinality(S) \in Nat
      /\ Cardinality(S \cup {p}) = Cardinality(S) + 1
      /\ Rank(p, S \cup {p}) = Cardinality(S) + 1
      /\ \A q \in S : Rank(q, S \cup {p}) = Rank(q, S)
  BY RankBehind
<1>2. /\ o \in Seq(Operand)
      /\ t.operands = Append(o, r) /\ t.type = s.type /\ t.name = s.name
  BY DEF Statement
<1>3. Len(o) + 1 = Cardinality(S)
  BY DEF Means
<1>4. Cardinality(S) # 0
  BY FS_EmptySet
<1>5. /\ Len(o) \in Nat /\ Len(Append(o, r)) = Len(o) + 1
      /\ Append(o, r)[Len(o) + 1] = r
      /\ \A i \in 1..Len(o) : Append(o, r)[i] = o[i]
  <2> HIDE DEF o, r
  <2> QED BY <1>2
<1>6. ASSUME NEW q \in S
      PROVE  LET word == WordAt(lines, q)
             IN  IF Rank(q, S \cup {p}) = 1
                 THEN t.type = Kind(word) /\ t.name = word.value
                 ELSE t.operands[Rank(q, S \cup {p}) - 1] = Reading(word)
  <2>1. Rank(q, S) \in 1..Cardinality(S)
    BY RankBounds
  <2>2. Rank(q, S \cup {p}) = Rank(q, S)
    BY <1>1
  <2>3. CASE Rank(q, S) = 1
    BY <1>2, <2>2, <2>3 DEF Means
  <2>4. CASE Rank(q, S) # 1
    <3>1. Rank(q, S) - 1 \in 1..Len(o)
      <4> HIDE DEF o
      <4> QED BY <1>1, <1>3, <1>5, <2>1, <2>4
    <3>2. o[Rank(q, S) - 1] = Reading(WordAt(lines, q))
      BY <2>4 DEF Means
    <3> HIDE DEF o, r, t
    <3> QED BY <1>2, <1>5, <2>2, <2>4, <3>1, <3>2
  <2> QED BY <2>3, <2>4
<1>7. Rank(p, S \cup {p}) # 1 /\ Rank(p, S \cup {p}) - 1 = Len(o) + 1
  <2> HIDE DEF o
  <2> QED BY <1>1, <1>3, <1>4
<1>8. t.operands[Rank(p, S \cup {p}) - 1] = r
  <2> HIDE DEF o, r, t
  <2> QED BY <1>2, <1>5, <1>7
<1>9. Len(t.operands) + 1 = Cardinality(S \cup {p})
  <2> HIDE DEF o, r, t
  <2> QED BY <1>1, <1>2, <1>3, <1>5
<1>10. Means(t, lines, S \cup {p})
  <2> HIDE DEF t, o
  <2> QED BY <1>6, <1>7, <1>8, <1>9 DEF Means
<1> QED BY <1>10

LEMMA NextWordGood ==
  ASSUME NEW lines, NEW S \in SUBSET (Nat \X Nat), IsFiniteSet(S), S # {},
         Good(lines, S), \A q \in S : "Label" \notin WordAt(lines, q).shapes,
         NEW p \in Nat \X Nat, \A q \in S : Precedes(q, p),
         ~Begins(WordAt(lines, p)), "Label" \notin WordAt(lines, p).shapes
  PROVE  Good(lines, S \cup {p})
<1>1. /\ Cardinality(S) \in Nat
      /\ Rank(p, S \cup {p}) = Cardinality(S) + 1
      /\ \A q \in S : Rank(q, S \cup {p}) = Rank(q, S)
  BY RankBehind
<1>2. Rank(p, S \cup {p}) # 1
  BY <1>1, FS_EmptySet
<1> QED BY <1>1, <1>2 DEF Good

\* The first of the words a statement has says what it is.
LEMMA FirstWordOf ==
  ASSUME NEW lines, NEW S \in SUBSET (Nat \X Nat), IsFiniteSet(S), S # {},
         NEW s, Means(s, lines, S), Good(lines, S)
  PROVE  \E q \in S : s.type = Kind(WordAt(lines, q)) /\ Begins(WordAt(lines, q))
<1>1. Least(S) \in S /\ \A q \in S : ~Precedes(q, Least(S))
  BY LeastPlace
<1>2. Rank(Least(S), S) = 1
  BY <1>1, RankOfLeast
<1> QED BY <1>1, <1>2 DEF Means, Good

(***************************************************************************)
(* One statement more, for a line behind all others.                       *)
(***************************************************************************)
LEMMA OneMoreTold ==
  ASSUME NEW files, NEW told \in Seq(Statement), NEW full \in SUBSET (Nat \X Nat),
         Told(files, told, full),
         NEW p \in Nat \X Nat, \A q \in full : Precedes(q, p),
         NEW s \in Statement,
         Good(files[p[1]].lines, WordsOf(files[p[1]].lines, p[2])),
         Means(s, files[p[1]].lines, WordsOf(files[p[1]].lines, p[2]))
  PROVE  Told(files, Append(told, s), full \cup {p})
<1>1. IsFiniteSet(full) /\ Len(told) = Cardinality(full)
  BY DEF Told
<1>2. /\ IsFiniteSet(full \cup {p})
      /\ Cardinality(full) \in Nat
      /\ Cardinality(full \cup {p}) = Cardinality(full) + 1
      /\ Rank(p, full \cup {p}) = Cardinality(full) + 1
      /\ \A q \in full : Rank(q, full \cup {p}) = Rank(q, full)
  BY <1>1, RankBehind
<1>3. /\ Len(Append(told, s)) = Len(told) + 1
      /\ Append(told, s)[Len(told) + 1] = s
      /\ \A i \in 1..Len(told) : Append(told, s)[i] = told[i]
  OBVIOUS
<1>4. \A q \in full : Append(told, s)[Rank(q, full \cup {p})] = told[Rank(q, full)]
  BY <1>1, <1>2, <1>3, RankBounds
<1>5. Append(told, s)[Rank(p, full \cup {p})] = s
  BY <1>1, <1>2, <1>3
<1>6. Len(Append(told, s)) = Cardinality(full \cup {p})
  BY <1>1, <1>2, <1>3
<1>7. ASSUME NEW q \in full \cup {p}
      PROVE  LET lines == files[q[1]].lines
                 words == WordsOf(lines, q[2])
             IN  /\ Good(lines, words)
                 /\ Means(Append(told, s)[Rank(q, full \cup {p})], lines, words)
  <2>1. CASE q = p
    BY <1>5, <2>1
  <2>2. CASE q \in full
    BY <1>4, <2>2 DEF Told
  <2> QED BY <2>1, <2>2
<1> QED BY <1>2, <1>6, <1>7 DEF Told

-----------------------------------------------------------------------------
(***************************************************************************)
(* One token further.                                                      *)
(***************************************************************************)

LEMMA SameTokens ==
  ASSUME UNCHANGED <<instructionSet, source, file>>
  PROVE  /\ FileLines' = FileLines
         /\ Tokens(FileLines)' = Tokens(FileLines)
         /\ \A w : Unreadable(w)' <=> Unreadable(w)
<1>1. FileLines' = FileLines
  BY DEF FileLines
<1>2. ASSUME NEW h, NEW w PROVE Accepts(h, w)' <=> Accepts(h, w)
  BY DEF Accepts
<1>3. ASSUME NEW w PROVE TryParseToken(w)' = TryParseToken(w)
  BY DEF TryParseToken, Accepts
<1>4. ASSUME NEW w PROVE Token(w)' = Token(w)
  BY <1>3 DEF Token
<1>5. Tokens(FileLines)' = Tokens(FileLines)
  BY <1>1, <1>4 DEF Tokens
<1>6. \A w : Unreadable(w)' <=> Unreadable(w)
  BY <1>3 DEF Unreadable
<1> QED BY <1>1, <1>5, <1>6

LEMMA Moved ==
  ASSUME Scene, Advance, UNCHANGED <<instructionSet, source, file>>
  PROVE  /\ FileLines' = FileLines
         /\ DOMAIN tokens' = DOMAIN tokens \ {Current}
         /\ Ended' = {k \in SplitLines(FileLines) :
                        k \in Ended \/ LineEnd(FileLines, k) = Current}
         /\ Half' = {p \in SplitWords(FileLines) :
                       (p \notin DOMAIN tokens \/ p = Current) /\ p[1] \notin Ended'}
         /\ Current # FileEnd(FileLines) => TokensInv'
<1>1. FileLines' = FileLines
  BY SameTokens
<1>2. DOMAIN tokens' = DOMAIN tokens \ {Current} /\ \A p \in DOMAIN tokens' : tokens'[p] = tokens[p]
  BY DEF Advance
<1>3. Ended' = {k \in SplitLines(FileLines) : LineEnd(FileLines, k) \notin DOMAIN tokens'}
  BY <1>1 DEF Ended
<1>4. Half' = {p \in SplitWords(FileLines) : p \notin DOMAIN tokens' /\ p[1] \notin Ended'}
  BY <1>1 DEF Half
<1>5. Current \in DOMAIN tokens
  BY CurrentPlace
<1>6. ASSUME Current # FileEnd(FileLines)
      PROVE  TokensInv'
  <2>1. DOMAIN tokens' \subseteq Places(FileLines) /\ FileEnd(FileLines) \in DOMAIN tokens'
    BY <1>2, <1>6 DEF Scene, TokensInv
  <2>2. \A p \in DOMAIN tokens' : tokens'[p] = Tokens(FileLines)[p]
    BY <1>2 DEF Scene, TokensInv
  <2>3. ASSUME NEW p \in DOMAIN tokens', NEW q \in Places(FileLines), Precedes(p, q)
        PROVE  q \in DOMAIN tokens'
    <3>1. q \in DOMAIN tokens /\ p \in DOMAIN tokens
      BY <1>2, <2>3 DEF Scene, TokensInv
    <3>2. p \in Places(FileLines)
      BY <2>1
    <3>3. q # Current
      BY <2>3, <3>1, <3>2, CurrentPlace
    <3> QED BY <1>2, <3>1, <3>3
  <2>4. \A p \in SplitWords(FileLines) : ~Unreadable(WordAt(FileLines, p))
    BY DEF Scene, TokensInv
  <2>5. Tokens(FileLines)' = Tokens(FileLines) /\ \A w : Unreadable(w)' <=> Unreadable(w)
    BY SameTokens
  <2> QED BY <1>1, <2>1, <2>2, <2>3, <2>4, <2>5 DEF TokensInv
<1> QED BY <1>1, <1>2, <1>3, <1>4, <1>5, <1>6 DEF Ended

LEMMA PastWord ==
  ASSUME Scene, Current \in SplitWords(FileLines),
         Advance, UNCHANGED <<instructionSet, source, file>>
  PROVE  /\ TokensInv'
         /\ FileLines' = FileLines
         /\ Ended' = Ended
         /\ Half' = Half \cup {Current}
         /\ Full' = Full
<1>1. Current # FileEnd(FileLines) /\ \A k \in SplitLines(FileLines) : LineEnd(FileLines, k) # Current
  BY SceneLines, EndPlaces
<1>2. Ended' = Ended
  BY <1>1, Moved DEF Ended
<1>3. Current[1] \notin Ended
  <2>1. Current[1] \in Nat
    BY CurrentPlace
  <2> QED BY <2>1, AtWord
<1>4. Half' = Half \cup {Current}
  BY <1>2, <1>3, Moved DEF Half
<1>5. Full' = Full
  BY <1>2, Moved DEF Full, Program
<1> QED BY <1>1, <1>2, <1>4, <1>5, Moved

-----------------------------------------------------------------------------
(***************************************************************************)
(* The statement being built is that of the words read of its line.        *)
(***************************************************************************)

LEMMA OutcomesDiffer ==
  /\ Now("parsing") # Now("starting") /\ Now("parsing") # Now("reading")
  /\ Now("parsing") # Now("assembled")
  /\ Now("parsing").kind = "parsing"
  /\ Now("parsing") \in [kind : Outcomes, line : Nat]
<1>1. Now("parsing") \in [kind : Outcomes, line : Nat]
  BY DEF Now, Failed, Outcomes
<1> QED BY <1>1 DEF Now, Failed

LEMMA HalfFinite ==
  ASSUME Scene
  PROVE  IsFiniteSet(Half) /\ Half \in SUBSET (Nat \X Nat)
<1>1. CASE Current \in SplitWords(FileLines)
  <2>1. Current[1] \in DOMAIN FileLines
    BY <1>1, AtWord DEF SplitLines
  <2>2. /\ IsFiniteSet(WordsOf(FileLines, Current[1]))
        /\ WordsOf(FileLines, Current[1]) \in SUBSET (Nat \X Nat)
    BY <2>1, SceneLines, WordsFinite
  <2>3. Half \in SUBSET WordsOf(FileLines, Current[1])
    BY <1>1, AtWord
  <2> QED BY <2>2, <2>3, FS_Subset
<1>2. CASE Current = FileEnd(FileLines)
  BY <1>2, AtFileEnd, FS_EmptySet
<1>3. CASE \E k \in SplitLines(FileLines) : Current = LineEnd(FileLines, k)
  <2>1. PICK k \in SplitLines(FileLines) : Current = LineEnd(FileLines, k)
    BY <1>3
  <2>2. Half = WordsOf(FileLines, k)
    BY <2>1, AtLineEnd
  <2>3. k \in DOMAIN FileLines
    BY DEF SplitLines
  <2> QED BY <2>2, <2>3, SceneLines, WordsFinite
<1> QED BY <1>1, <1>2, <1>3, WordsAndEnds

LEMMA HalfWords ==
  ASSUME Scene, NEW q \in Half
  PROVE  LET word == WordAt(FileLines, q)
         IN  /\ word \in Texts
             /\ Kind(word) \in Kinds
             /\ Begins(word) <=> Kind(word) \in StatementHandlers
             /\ "Label" \in word.shapes <=> Kind(word) = "Label"
<1> DEFINE word == WordAt(FileLines, q)
<1>1. q \in SplitWords(FileLines)
  BY DEF Half
<1>2. word \in Texts
  BY <1>1, SceneLines, WordPlaces
<1>3. ~Unreadable(word) /\ instructionSet = Instructions
  BY <1>1 DEF Scene, TokensInv
<1> HIDE DEF word
<1>4. /\ Kind(word) \in StatementHandlers \cup Operands
      /\ Begins(word) <=> Kind(word) \in StatementHandlers
      /\ "Label" \in word.shapes <=> Kind(word) = "Label"
  BY <1>2, <1>3, HandlerIsKind
<1> QED BY <1>2, <1>4 DEF word, Kinds

LEMMA HalfStatement ==
  ASSUME Scene, HalfInv
  PROVE  /\ next.type = "Unknown" <=> Half = {}
         /\ Half # {} =>
              \E q \in Half : next.type = Kind(WordAt(FileLines, q))
                              /\ Begins(WordAt(FileLines, q))
<1>1. CASE Half = {}
  <2>1. next = Unknown
    BY <1>1 DEF HalfInv
  <2>2. next.type = "Unknown"
    BY <2>1 DEF Unknown
  <2> QED BY <1>1, <2>2
<1>2. CASE Half # {}
  <2>1. Means(next, FileLines, Half) /\ Good(FileLines, Half)
    BY <1>2 DEF HalfInv
  <2>2. PICK q \in Half : next.type = Kind(WordAt(FileLines, q))
                          /\ Begins(WordAt(FileLines, q))
    BY <1>2, <2>1, HalfFinite, FirstWordOf
  <2>3. Kind(WordAt(FileLines, q)) \in Kinds
    BY HalfWords
  <2>4. Kind(WordAt(FileLines, q)) # "Unknown"
    BY <2>3 DEF Kinds, StatementHandlers, Operands
  <2> QED BY <1>2, <2>2, <2>4
<1> QED BY <1>1, <1>2

LEMMA WordHandlers ==
  ASSUME Scene, NEW S \in SUBSET Kinds, Parsing(S)
  PROVE  /\ outcome = Now("parsing")
         /\ Current \in SplitWords(FileLines)
         /\ tokens[Current] = Reading(WordAt(FileLines, Current))
         /\ tokens[Current] \in Operand
         /\ tokens[Current].handler \in S
         /\ Kind(WordAt(FileLines, Current)) \in S
<1>1. outcome = Now("parsing") /\ tokens[Current].handler \in S
  BY DEF Parsing
<1>2. tokens[Current].handler \notin Terminators
  BY <1>1 DEF Kinds, StatementHandlers, Operands, Terminators
<1>3. Current \in SplitWords(FileLines)
  BY <1>2, WordsAndEnds
<1> DEFINE word == WordAt(FileLines, Current)
<1>4. /\ word \in Texts /\ Kind(word) \in Kinds
      /\ tokens[Current] = Reading(word)
  BY <1>3, CurrentWord DEF Kinds
<1>5. Reading(word).handler = Kind(word)
  BY DEF Reading
<1> HIDE DEF word
<1>6. Reading(word) \in Operand
  BY <1>4, KindsAreTypes
<1> QED BY <1>1, <1>3, <1>4, <1>5, <1>6 DEF word

-----------------------------------------------------------------------------
(***************************************************************************)
(* The parser's turns at a word.                                           *)
(***************************************************************************)

LEMMA NoSyntaxError ==
  ASSUME outcome.kind # "syntax"
  PROVE  ErrorNamesLine
  BY DEF ErrorNamesLine

\* Whatever ends the program leaves nothing more to keep.
LEMMA ThrownInv ==
  ASSUME KasmInv, outcome = Now("parsing"), UNCHANGED <<instructionSet, source, file, line>>,
         next' \in Statement, statements' = statements, symbols' \subseteq Names,
         NEW kind \in {"syntax", "twice"}, outcome' = Failed(kind, line),
         ErrorNamesLine'
  PROVE  KasmInv'
<1>1. outcome' \in [kind : Outcomes, line : Nat]
  BY DEF KasmInv, TypeInv, Failed, Outcomes
<1>2. outcome'.kind = kind
  BY DEF Failed
<1>3. /\ outcome' # Now("starting") /\ outcome' # Now("reading")
      /\ outcome' # Now("assembled") /\ outcome' # Now("parsing")
  BY <1>2 DEF Now, Failed
<1>4. TypeInv'
  BY <1>1, <1>3, OutcomesDiffer DEF KasmInv, TypeInv
<1> QED BY <1>3, <1>4 DEF KasmInv, BetweenInv, ParsingInv

\* One word more, of the same statement.
LEMMA ParsedInv ==
  ASSUME KasmInv, outcome = Now("parsing"), Current \in SplitWords(FileLines), Advance,
         UNCHANGED <<instructionSet, source, file, line, statements, outcome>>,
         next' \in Statement, symbols' \subseteq Names,
         Means(next', FileLines, Half \cup {Current}), Good(FileLines, Half \cup {Current})
  PROVE  KasmInv'
<1>1. Scene
  BY ParsingScene DEF KasmInv
<1>2. /\ TokensInv' /\ FileLines' = FileLines /\ Ended' = Ended
      /\ Half' = Half \cup {Current} /\ Full' = Full
  BY <1>1, PastWord
<1>3. TypeInv'
  BY DEF KasmInv, TypeInv
<1>4. HalfInv'
  BY <1>2 DEF HalfInv
<1>5. ParsingInv'
  BY <1>2, <1>4 DEF KasmInv, ParsingInv
<1>6. BetweenInv'
  BY OutcomesDiffer DEF BetweenInv
<1>7. ErrorNamesLine'
  BY OutcomesDiffer DEF ErrorNamesLine
<1> QED BY <1>3, <1>5, <1>6, <1>7 DEF KasmInv

LEMMA BeginStatementInv ==
  ASSUME KasmInv, BeginStatement
  PROVE  KasmInv'
<1> DEFINE word == WordAt(FileLines, Current)
<1>1. Parsing(StatementHandlers) /\ outcome = Now("parsing")
  BY DEF BeginStatement, Parsing
<1>2. Scene /\ HalfInv
  BY <1>1, ParsingScene DEF KasmInv, ParsingInv
<1>3. StatementHandlers \in SUBSET Kinds
  BY DEF Kinds
<1>4. /\ Current \in SplitWords(FileLines)
      /\ tokens[Current] = Reading(word)
      /\ tokens[Current] \in Operand
      /\ tokens[Current].handler \in StatementHandlers
      /\ Kind(word) \in StatementHandlers
  BY <1>1, <1>2, <1>3, WordHandlers
<1>5. Half = {} /\ next = Unknown
  <2>1. Half = {}
    BY <1>2, HalfStatement DEF BeginStatement
  <2> QED BY <1>2, <2>1 DEF HalfInv
<1>6. /\ next' \in Statement
      /\ next'.type = Kind(word) /\ next'.name = word.value /\ next'.operands = <<>>
  <2>1. next' = [next EXCEPT !.type = tokens[Current].handler, !.name = tokens[Current].value]
    BY DEF BeginStatement
  <2>2. next \in Statement /\ next.operands = <<>>
    BY <1>5, UnknownStatement DEF Unknown
  <2>3. tokens[Current].handler \in Kinds /\ tokens[Current].value \in Names
    BY <1>4 DEF Operand
  <2>4. tokens[Current].handler = Kind(word) /\ tokens[Current].value = word.value
    BY <1>4 DEF Reading
  <2>5. next' \in Statement
    BY <2>1, <2>2, <2>3 DEF Statement
  <2>6. /\ next'.type = tokens[Current].handler /\ next'.name = tokens[Current].value
        /\ next'.operands = next.operands
    BY <2>1, <2>2 DEF Statement
  <2> QED BY <2>2, <2>4, <2>5, <2>6
<1>7. Begins(word) /\ Current \in Nat \X Nat
  BY <1>2, <1>4, CurrentWord, CurrentPlace
<1>8. Means(next', FileLines, {Current}) /\ Good(FileLines, {Current})
  BY <1>6, <1>7, FirstWordMeans
<1>9. UNCHANGED <<instructionSet, source, file, line, statements>>
  BY DEF BeginStatement, projectVars
<1>10. tokens[Current].value \in Names /\ symbols \subseteq Names
  BY <1>4 DEF Operand, KasmInv, TypeInv
<1>11. CASE /\ UNCHANGED outcome /\ Advance
            /\ symbols' = symbols \/ symbols' = symbols \cup {tokens[Current].value}
  <2>1. symbols' \subseteq Names
    BY <1>10, <1>11
  <2>2. Half \cup {Current} = {Current}
    BY <1>5
  <2> QED BY <1>1, <1>4, <1>6, <1>8, <1>9, <1>11, <2>1, <2>2, ParsedInv
<1>12. CASE outcome' = Failed("twice", line) /\ UNCHANGED <<symbols, tokens>>
  <2>1. outcome'.kind # "syntax"
    BY <1>12 DEF Failed
  <2>2. ErrorNamesLine'
    BY <2>1 DEF ErrorNamesLine
  <2>3. symbols' \subseteq Names
    BY <1>10, <1>12
  <2> QED BY <1>1, <1>6, <1>9, <1>12, <2>2, <2>3, ThrownInv
<1> QED BY <1>11, <1>12 DEF BeginStatement, AddSymbol

LEMMA AddOperandInv ==
  ASSUME KasmInv, AddOperand
  PROVE  KasmInv'
<1> DEFINE word == WordAt(FileLines, Current)
<1>1. Parsing(Operands) /\ outcome = Now("parsing")
  BY DEF AddOperand, Parsing
<1>2. Scene /\ HalfInv
  BY <1>1, ParsingScene DEF KasmInv, ParsingInv
<1>3. Operands \in SUBSET Kinds
  BY DEF Kinds
<1>4. /\ Current \in SplitWords(FileLines)
      /\ tokens[Current] = Reading(word)
      /\ tokens[Current] \in Operand
      /\ Kind(word) \in Operands
  BY <1>1, <1>2, <1>3, WordHandlers
<1>5. next.type \in {"Directive", "Instruction"}
  BY DEF AddOperand
<1>6. Half # {} /\ Means(next, FileLines, Half) /\ Good(FileLines, Half)
  <2>1. Half # {}
    BY <1>2, <1>5, HalfStatement
  <2> QED BY <1>2, <2>1 DEF HalfInv
<1>7. IsFiniteSet(Half) /\ Half \in SUBSET (Nat \X Nat) /\ Current \in Nat \X Nat
  BY <1>2, HalfFinite, CurrentPlace
<1>8. \A q \in Half : Precedes(q, Current)
  BY <1>2, <1>4, AtWord
<1>9. next \in Statement /\ next' = [next EXCEPT !.operands = Append(@, Reading(word))]
  BY <1>4 DEF AddOperand, KasmInv, TypeInv
<1>10. next' \in Statement
  <2>1. Reading(word) \in Operand
    BY <1>4
  <2>2. next.operands \in Seq(Operand)
    BY <1>9 DEF Statement
  <2>3. Append(next.operands, Reading(word)) \in Seq(Operand)
    BY <2>1, <2>2
  <2> HIDE DEF word
  <2> QED BY <1>9, <2>3 DEF Statement
<1>11. Means(next', FileLines, Half \cup {Current})
  BY <1>4, <1>6, <1>7, <1>8, <1>9, NextWordMeans
<1>12. ~Begins(word) /\ "Label" \notin word.shapes
  <2>1. Kind(word) \notin StatementHandlers
    BY <1>4 DEF Operands, StatementHandlers
  <2>2. Kind(word) # "Label"
    BY <2>1 DEF StatementHandlers
  <2> QED BY <1>2, <1>4, <2>1, <2>2, CurrentWord
<1>13. ASSUME NEW q \in Half PROVE "Label" \notin WordAt(FileLines, q).shapes
  <2> SUFFICES ASSUME "Label" \in WordAt(FileLines, q).shapes PROVE FALSE
    OBVIOUS
  <2>1. Half = {q}
    BY <1>6 DEF Good
  <2>2. next.type = Kind(WordAt(FileLines, q))
    BY <1>2, <1>6, <2>1, HalfStatement
  <2>3. Kind(WordAt(FileLines, q)) = "Label"
    BY <1>2, HalfWords
  <2> QED BY <1>5, <2>2, <2>3
<1>14. Good(FileLines, Half \cup {Current})
  BY <1>6, <1>7, <1>8, <1>12, <1>13, NextWordGood
<1>15. /\ Advance /\ UNCHANGED <<instructionSet, source, file, line, statements, outcome>>
       /\ symbols' \subseteq Names
  BY DEF AddOperand, projectVars, KasmInv, TypeInv
<1> QED BY <1>1, <1>4, <1>10, <1>11, <1>14, <1>15, ParsedInv

-----------------------------------------------------------------------------
(***************************************************************************)
(* Where a line cannot be read on, it is the first that means nothing.     *)
(***************************************************************************)

LEMMA EndedLinesGood ==
  ASSUME KasmInv, outcome = Now("parsing"), NEW j \in DOMAIN FileLines,
         j \notin SplitLines(FileLines) \/ j \in Ended
  PROVE  Good(FileLines, WordsOf(FileLines, j))
<1>1. Scene /\ Told(source, statements, Full)
  BY ParsingScene DEF KasmInv, ParsingInv
<1>2. CASE WordsOf(FileLines, j) = {}
  BY <1>2 DEF Good
<1>3. CASE WordsOf(FileLines, j) # {}
  <2>1. j \in SplitLines(FileLines)
    BY <1>1, <1>3, SceneLines, WordBeforeEnd DEF WordsOf
  <2>2. <<file, j>> \in Full
    BY <1>3, <2>1 DEF Full
  <2>3. LET p == <<file, j>>
        IN  Good(source[p[1]].lines, WordsOf(source[p[1]].lines, p[2]))
    BY <1>1, <2>2 DEF Told
  <2> QED BY <2>3 DEF FileLines
<1> QED BY <1>2, <1>3

LEMMA SyntaxErrorInv ==
  ASSUME KasmInv, outcome = Now("parsing"), Current \in SplitWords(FileLines),
         ~Good(FileLines, WordsOf(FileLines, Current[1])), Throw("syntax")
  PROVE  KasmInv'
<1> DEFINE k == Current[1]
           bad == {j \in DOMAIN FileLines : ~Good(FileLines, WordsOf(FileLines, j))}
<1>1. Scene
  BY ParsingScene DEF KasmInv
<1>2. k \in SplitLines(FileLines) /\ Ended = {j \in SplitLines(FileLines) : j < k}
  BY <1>1, AtWord
<1>3. DOMAIN FileLines \in SUBSET Nat /\ k \in DOMAIN FileLines
  BY <1>1, <1>2, SceneLines, LineTypes DEF SplitLines
<1>4. k \in bad
  BY <1>3
<1>5. ASSUME NEW j \in bad PROVE k <= j
  <2> SUFFICES ASSUME j < k PROVE FALSE
    BY <1>3
  <2>1. j \notin SplitLines(FileLines) \/ j \in Ended
    BY <1>2
  <2> QED BY <2>1, EndedLinesGood
<1>6. line = LinesBefore(FileLines, k)
  BY <1>2 DEF KasmInv, ParsingInv, LinesBefore
<1>7. UNCHANGED <<instructionSet, source, file, line, next, statements, symbols>>
  BY DEF Throw, projectVars, parserVars
<1>8. outcome' = Failed("syntax", line)
  BY DEF Throw
<1>9. FileLines' = FileLines
  BY <1>7 DEF FileLines
<1>10. outcome'.line = LinesBefore(FileLines, k)
  BY <1>6, <1>8 DEF Failed
<1>11. ErrorNamesLine'
  <2>1. \E i \in bad : (\A j \in bad : i <= j) /\ outcome'.line = LinesBefore(FileLines, i)
    <3> HIDE DEF bad, k
    <3> QED BY <1>4, <1>5, <1>10
  <2> QED BY <1>9, <2>1 DEF ErrorNamesLine, FileLines
<1>12. next' \in Statement /\ statements' = statements /\ symbols' \subseteq Names
  BY <1>7 DEF KasmInv, TypeInv
<1> QED BY <1>7, <1>8, <1>11, <1>12, ThrownInv

\* The word is the first of its line, or there are some before it.
LEMMA RankOfWord ==
  ASSUME Scene, Current \in SplitWords(FileLines)
  PROVE  LET words == WordsOf(FileLines, Current[1])
         IN  /\ Current \in words
             /\ Half \in SUBSET words /\ Current \notin Half
             /\ Half = {} <=> Rank(Current, words) = 1
<1> DEFINE words == WordsOf(FileLines, Current[1])
<1>1. Current[1] \in DOMAIN FileLines
  BY AtWord DEF SplitLines
<1>2. IsFiniteSet(words) /\ words \in SUBSET (Nat \X Nat)
  BY <1>1, SceneLines, WordsFinite
<1>3. Half = {q \in words : Precedes(q, Current)}
  BY AtWord
<1>4. Current \in words
  BY DEF WordsOf
<1>5. Current \notin Half
  BY <1>3, CurrentPlace, PlaceOrder
<1> HIDE DEF words
<1>6. CASE Half = {}
  <2>1. \A q \in words : ~Precedes(q, Current)
    BY <1>3, <1>6
  <2> QED BY <1>2, <1>3, <1>4, <1>5, <1>6, <2>1, RankOfLeast DEF words
<1>7. CASE Half # {}
  <2>1. PICK q \in words : Precedes(q, Current)
    BY <1>3, <1>7
  <2>2. Rank(Current, words) # 1
    BY <1>2, <1>4, <2>1, RankOfTwo
  <2> QED BY <1>3, <1>4, <1>5, <1>7, <2>2 DEF words
<1> QED BY <1>6, <1>7

LEMMA OperandFirstInv ==
  ASSUME KasmInv, OperandFirst
  PROVE  KasmInv'
<1>1. Parsing(Operands) /\ outcome = Now("parsing") /\ next.type = "Unknown" /\ Throw("syntax")
  BY DEF OperandFirst, Parsing
<1>2. Scene /\ HalfInv
  BY <1>1, ParsingScene DEF KasmInv, ParsingInv
<1>3. Operands \in SUBSET Kinds
  BY DEF Kinds
<1>4. Current \in SplitWords(FileLines) /\ Kind(WordAt(FileLines, Current)) \in Operands
  BY <1>1, <1>2, <1>3, WordHandlers
<1>5. ~Begins(WordAt(FileLines, Current))
  <2>1. \A s \in Operands : s \notin StatementHandlers
    BY DEF Operands, StatementHandlers
  <2> QED BY <1>2, <1>4, <2>1, CurrentWord
<1>6. Half = {}
  BY <1>1, <1>2, HalfStatement
<1>7. ~Good(FileLines, WordsOf(FileLines, Current[1]))
  BY <1>2, <1>4, <1>5, <1>6, RankOfWord DEF Good
<1> QED BY <1>1, <1>4, <1>7, SyntaxErrorInv

LEMMA SecondStatementInv ==
  ASSUME KasmInv, SecondStatement
  PROVE  KasmInv'
<1>1. /\ Parsing(StatementHandlers) /\ outcome = Now("parsing")
      /\ next.type # "Unknown" /\ Throw("syntax")
  BY DEF SecondStatement, Parsing
<1>2. Scene /\ HalfInv
  BY <1>1, ParsingScene DEF KasmInv, ParsingInv
<1>3. StatementHandlers \in SUBSET Kinds
  BY DEF Kinds
<1>4. Current \in SplitWords(FileLines) /\ Kind(WordAt(FileLines, Current)) \in StatementHandlers
  BY <1>1, <1>2, <1>3, WordHandlers
<1>5. Begins(WordAt(FileLines, Current))
  BY <1>2, <1>4, CurrentWord
<1>6. Half # {}
  BY <1>1, <1>2, HalfStatement
<1>7. ~Good(FileLines, WordsOf(FileLines, Current[1]))
  BY <1>2, <1>4, <1>5, <1>6, RankOfWord DEF Good
<1> QED BY <1>1, <1>4, <1>7, SyntaxErrorInv

LEMMA OperandOfLabelInv ==
  ASSUME KasmInv, OperandOfLabel
  PROVE  KasmInv'
<1>1. Parsing(Operands) /\ outcome = Now("parsing") /\ next.type = "Label" /\ Throw("syntax")
  BY DEF OperandOfLabel, Parsing
<1>2. Scene /\ HalfInv
  BY <1>1, ParsingScene DEF KasmInv, ParsingInv
<1>3. Operands \in SUBSET Kinds
  BY DEF Kinds
<1>4. Current \in SplitWords(FileLines)
  BY <1>1, <1>2, <1>3, WordHandlers
<1>5. PICK q \in Half : next.type = Kind(WordAt(FileLines, q))
  BY <1>1, <1>2, HalfStatement
<1>6. "Label" \in WordAt(FileLines, q).shapes
  BY <1>1, <1>2, <1>5, HalfWords
<1>7. ~Good(FileLines, WordsOf(FileLines, Current[1]))
  BY <1>2, <1>4, <1>5, <1>6, RankOfWord DEF Good
<1> QED BY <1>1, <1>4, <1>7, SyntaxErrorInv

-----------------------------------------------------------------------------
(***************************************************************************)
(* Where a line ends, its words have become a statement.                   *)
(***************************************************************************)

LEMMA ProgramLines ==
  ASSUME TypeInv, NEW n \in 0..Len(source)
  PROVE  \A p : p \in Program(n) <=>
           /\ p \in Nat \X Nat
           /\ p[1] \in 1..n /\ p[2] \in DOMAIN source[p[1]].lines
           /\ WordsOf(source[p[1]].lines, p[2]) # {}
<1> DEFINE D == UNION {DOMAIN source[i].lines : i \in 1..n}
           Full0(p) == p[2] \in DOMAIN source[p[1]].lines
                         /\ WordsOf(source[p[1]].lines, p[2]) # {}
<1>1. n \in Nat /\ \A i \in 1..n : DOMAIN source[i].lines \in SUBSET Nat
  <2>1. Len(source) \in Nat /\ \A i \in 1..Len(source) : source[i].lines \in AllLines
    BY ProjectLines DEF TypeInv
  <2>2. \A i \in 1..Len(source) : DOMAIN source[i].lines \in SUBSET Nat
    BY <2>1, LineTypes
  <2> QED BY <2>1, <2>2
<1>2. Program(n) = {p \in (1..n) \X D : Full0(p)}
  BY DEF Program
<1>3. D \in SUBSET Nat
  BY <1>1
<1>4. ASSUME NEW p \in Nat \X Nat, p[1] \in 1..n, Full0(p)
      PROVE  p \in (1..n) \X D
  BY <1>4
<1>5. ASSUME NEW p \in (1..n) \X D
      PROVE  p \in Nat \X Nat /\ p[1] \in 1..n
  <2> HIDE DEF D
  <2>1. p[1] \in 1..n /\ p[2] \in D /\ p = <<p[1], p[2]>>
    OBVIOUS
  <2>2. p[2] \in Nat
    BY <1>3, <2>1
  <2>3. n \in Nat
    BY <1>1
  <2>4. p[1] \in Nat
    BY <2>1, <2>3
  <2> QED BY <2>1, <2>2, <2>4
<1> HIDE DEF D
<1> QED BY <1>2, <1>4, <1>5

LEMMA FullPlaces ==
  ASSUME Scene
  PROVE  /\ Full \in SUBSET (Nat \X Nat)
         /\ \A q \in Full : q[1] = file => q[2] \in Ended
         /\ \A q \in Full : q[1] <= file
<1>1. file \in Nat /\ file - 1 \in Nat /\ file - 1 \in 0..Len(source)
  BY SceneLines, ProjectLines DEF Scene, TypeInv
<1>2. \A q \in Program(file - 1) : q \in Nat \X Nat /\ q[1] \in 1..(file - 1)
  BY <1>1, ProgramLines DEF Scene
<1>3. \A k \in Ended : k \in Nat
  BY SceneLines, EndPlaces DEF Ended
<1>4. ASSUME NEW q \in Full, q \notin Program(file - 1)
      PROVE  q \in Nat \X Nat /\ q[1] = file /\ q[2] \in Ended
  BY <1>1, <1>3, <1>4 DEF Full
<1>5. \A q \in Program(file - 1) : q[1] < file
  BY <1>1, <1>2
<1> QED BY <1>1, <1>2, <1>4, <1>5

\* At its end, the lines of a file are all there are to be told.
LEMMA AllTold ==
  ASSUME Scene, Current = FileEnd(FileLines)
  PROVE  Full = Program(file)
<1>1. /\ file \in Nat /\ file > 0 /\ file - 1 \in 0..Len(source) /\ file \in 0..Len(source)
  BY SceneLines, ProjectLines DEF Scene, TypeInv
<1>2. TypeInv /\ FileLines \in AllLines
  BY SceneLines DEF Scene
<1>3. Ended = SplitLines(FileLines)
  BY AtFileEnd
<1>4. \A k : k \in DOMAIN FileLines /\ WordsOf(FileLines, k) # {}
               <=> k \in Ended /\ WordsOf(FileLines, k) # {}
  BY <1>2, <1>3, WordBeforeEnd DEF SplitLines, WordsOf
<1>5. ASSUME NEW p \in Full PROVE p \in Program(file)
  <2>1. CASE p \in Program(file - 1)
    <3>1. p[1] \in 1..file
      BY <1>1, <1>2, <2>1, ProgramLines
    <3> QED BY <1>1, <1>2, <2>1, <3>1, ProgramLines
  <2>2. CASE p \notin Program(file - 1)
    <3>1. PICK k \in Ended : p = <<file, k>> /\ WordsOf(FileLines, k) # {}
      BY <2>2 DEF Full
    <3>2. k \in DOMAIN FileLines
      BY <1>4, <3>1
    <3>3. p \in Nat \X Nat
      BY FullPlaces
    <3>4. p[1] = file /\ p[2] = k /\ p[1] \in 1..file
      BY <1>1, <3>1
    <3>5. source[p[1]].lines = FileLines
      BY <3>4 DEF FileLines
    <3> HIDE DEF Full
    <3> QED BY <1>1, <1>2, <3>1, <3>2, <3>3, <3>4, <3>5, ProgramLines
  <2> QED BY <2>1, <2>2
<1>6. ASSUME NEW p \in Program(file) PROVE p \in Full
  <2>1. /\ p \in Nat \X Nat
        /\ p[1] \in 1..file /\ p[2] \in DOMAIN source[p[1]].lines
        /\ WordsOf(source[p[1]].lines, p[2]) # {}
    BY <1>1, <1>2, ProgramLines
  <2>2. CASE p[1] = file
    <3>1. p[2] \in Ended /\ WordsOf(FileLines, p[2]) # {}
      BY <1>4, <2>1, <2>2 DEF FileLines
    <3>2. p = <<file, p[2]>>
      BY <2>1, <2>2
    <3> QED BY <3>1, <3>2 DEF Full
  <2>3. CASE p[1] # file
    <3>1. p[1] \in 1..(file - 1)
      BY <1>1, <2>1, <2>3
    <3>2. p \in Program(file - 1)
      BY <1>1, <1>2, <2>1, <3>1, ProgramLines
    <3> QED BY <3>2 DEF Full
  <2> QED BY <2>2, <2>3
<1> QED BY <1>5, <1>6

LEMMA TerminateFileInv ==
  ASSUME KasmInv, Terminate, Current = FileEnd(FileLines)
  PROVE  KasmInv'
<1>1. outcome = Now("parsing")
  BY DEF Terminate, Parsing
<1>2. Scene /\ HalfInv /\ Told(source, statements, Full)
  BY <1>1, ParsingScene DEF KasmInv, ParsingInv
<1>3. DOMAIN tokens = {Current} /\ Half = {}
  BY <1>2, AtFileEnd
<1>4. next = Unknown
  BY <1>2, <1>3 DEF HalfInv
<1>5. next.type = "Unknown"
  BY <1>4 DEF Unknown
<1>6. /\ UNCHANGED <<next, statements>> /\ outcome' = Now("reading")
      /\ UNCHANGED <<instructionSet, source, file, symbols>> /\ line' = line + 1
  BY <1>3, <1>5 DEF Terminate, projectVars
<1>7. Told(source, statements, Program(file))
  BY <1>2, AllTold
<1>8. Program(file)' = Program(file)
  BY <1>6 DEF Program
<1>9. /\ Now("reading") # Now("parsing") /\ Now("reading") # Now("starting")
      /\ Now("reading").kind # "syntax" /\ Now("reading") \in [kind : Outcomes, line : Nat]
  BY DEF Now, Failed, Outcomes
<1>10. TypeInv'
  BY <1>1, <1>6, <1>9, OutcomesDiffer DEF KasmInv, TypeInv
<1>11. BetweenInv'
  BY <1>4, <1>6, <1>7, <1>8 DEF BetweenInv
<1>12. ParsingInv' /\ ErrorNamesLine'
  BY <1>6, <1>9 DEF ParsingInv, ErrorNamesLine
<1> QED BY <1>10, <1>11, <1>12 DEF KasmInv

\* The end of a line read, nothing of the next one.
LEMMA PastLine ==
  ASSUME Scene, NEW k \in SplitLines(FileLines), Current = LineEnd(FileLines, k),
         Advance, UNCHANGED <<instructionSet, source, file>>
  PROVE  /\ TokensInv'
         /\ FileLines' = FileLines
         /\ Ended' = Ended \cup {k} /\ k \notin Ended
         /\ Half' = {}
         /\ Full' = IF WordsOf(FileLines, k) = {} THEN Full ELSE Full \cup {<<file, k>>}
         /\ \A q \in Full : Precedes(q, <<file, k>>)
<1>1. /\ Ended = {j \in SplitLines(FileLines) : j < k}
      /\ Half = WordsOf(FileLines, k)
  BY AtLineEnd
<1>2. /\ FileLines' = FileLines
      /\ Ended' = {j \in SplitLines(FileLines) : j \in Ended \/ LineEnd(FileLines, j) = Current}
      /\ Half' = {p \in SplitWords(FileLines) :
                    (p \notin DOMAIN tokens \/ p = Current) /\ p[1] \notin Ended'}
      /\ Current # FileEnd(FileLines) => TokensInv'
  BY Moved
<1>3. \A j \in SplitLines(FileLines) : LineEnd(FileLines, j) = Current <=> j = k
  BY SceneLines, EndPlaces
<1>4. Current # FileEnd(FileLines) /\ Current \notin SplitWords(FileLines) /\ k \in Nat
  BY SceneLines, EndPlaces, LineTypes
<1>5. Ended' = Ended \cup {k} /\ k \notin Ended
  <2>1. \A j : j \in Ended' <=> j \in SplitLines(FileLines) /\ (j \in Ended \/ j = k)
    BY <1>2, <1>3
  <2>2. k \notin Ended
    BY <1>1, <1>4
  <2>3. \A j \in Ended : j \in SplitLines(FileLines)
    BY <1>1
  <2> QED BY <2>1, <2>2, <2>3
<1>6. Half' = {}
  <2> SUFFICES ASSUME NEW p \in Half' PROVE FALSE
    OBVIOUS
  <2>1. /\ p \in SplitWords(FileLines) /\ (p \notin DOMAIN tokens \/ p = Current)
        /\ p[1] \notin Ended'
    BY <1>2
  <2>2. p \notin DOMAIN tokens /\ p[1] \notin Ended /\ p[1] # k
    BY <1>4, <1>5, <2>1
  <2>3. p \in Half
    BY <2>1, <2>2 DEF Half
  <2> QED BY <1>1, <2>2, <2>3 DEF WordsOf
<1>7. Full' = Program(file - 1)
                \cup {<<file, j>> : j \in {i \in Ended \cup {k} : WordsOf(FileLines, i) # {}}}
  BY <1>2, <1>5 DEF Full, Program
<1>8. Full' = IF WordsOf(FileLines, k) = {} THEN Full ELSE Full \cup {<<file, k>>}
  <2>1. CASE WordsOf(FileLines, k) = {}
    <3>1. {i \in Ended \cup {k} : WordsOf(FileLines, i) # {}}
            = {i \in Ended : WordsOf(FileLines, i) # {}}
      BY <2>1
    <3> QED BY <1>7, <2>1, <3>1 DEF Full
  <2>2. CASE WordsOf(FileLines, k) # {}
    <3>1. {i \in Ended \cup {k} : WordsOf(FileLines, i) # {}}
            = {i \in Ended : WordsOf(FileLines, i) # {}} \cup {k}
      BY <2>2
    <3> QED BY <1>7, <2>2, <3>1 DEF Full
  <2> QED BY <2>1, <2>2
<1>9. ASSUME NEW q \in Full PROVE Precedes(q, <<file, k>>)
  <2>1. q \in Nat \X Nat /\ q[1] <= file /\ (q[1] = file => q[2] \in Ended)
    BY FullPlaces
  <2>2. q[1] = file => q[2] < k
    BY <1>1, <2>1
  <2>3. file \in Nat
    BY SceneLines
  <2> QED BY <1>4, <2>1, <2>2, <2>3 DEF Precedes
<1> QED BY <1>2, <1>4, <1>5, <1>6, <1>8, <1>9

LEMMA TerminateLineInv ==
  ASSUME KasmInv, Terminate,
         NEW k \in SplitLines(FileLines), Current = LineEnd(FileLines, k)
  PROVE  KasmInv'
<1>1. outcome = Now("parsing")
  BY DEF Terminate, Parsing
<1>2. Scene /\ HalfInv /\ Told(source, statements, Full) /\ line = Cardinality(Ended) /\ file > 0
  BY <1>1, ParsingScene DEF KasmInv, ParsingInv
<1>3. DOMAIN tokens # {Current}
  BY <1>2, SceneLines, EndPlaces DEF Scene, TokensInv
<1>4. /\ outcome' = outcome /\ Advance /\ line' = line + 1
      /\ UNCHANGED <<instructionSet, source, file, symbols>>
      /\ IF next.type = "Unknown" THEN UNCHANGED <<next, statements>>
         ELSE statements' = Append(statements, next) /\ next' = Unknown
  BY <1>3 DEF Terminate, Build, projectVars
<1>5. /\ TokensInv' /\ FileLines' = FileLines
      /\ Ended' = Ended \cup {k} /\ k \notin Ended
      /\ Half' = {}
      /\ Full' = IF WordsOf(FileLines, k) = {} THEN Full ELSE Full \cup {<<file, k>>}
      /\ \A q \in Full : Precedes(q, <<file, k>>)
  BY <1>2, <1>4, PastLine
<1>6. Half = WordsOf(FileLines, k)
  BY <1>2, AtLineEnd
<1>7. line' = Cardinality(Ended')
  <2>1. IsFiniteSet(Ended)
    <3>1. Ended \in SUBSET SplitLines(FileLines)
      BY DEF Ended
    <3> QED BY <1>2, <3>1, SceneLines, LinesFinite
  <2> QED BY <1>2, <1>4, <1>5, <2>1, FS_AddElement
<1>8. next' = Unknown
  <2>1. CASE next.type = "Unknown"
    <3>1. Half = {}
      BY <1>2, <2>1, HalfStatement
    <3> QED BY <1>2, <1>4, <2>1, <3>1 DEF HalfInv
  <2>2. CASE next.type # "Unknown"
    BY <1>4, <2>2
  <2> QED BY <2>1, <2>2
<1>9. HalfInv'
  BY <1>5, <1>8 DEF HalfInv
<1>10. next \in Statement /\ statements \in Seq(Statement)
  BY DEF KasmInv, TypeInv
<1>11. Told(source', statements', Full')
  <2>1. CASE next.type = "Unknown"
    <3>1. WordsOf(FileLines, k) = {}
      BY <1>2, <1>6, <2>1, HalfStatement
    <3> QED BY <1>2, <1>4, <1>5, <2>1, <3>1
  <2>2. CASE next.type # "Unknown"
    <3>1. WordsOf(FileLines, k) # {}
      BY <1>2, <1>6, <2>2, HalfStatement
    <3>2. Means(next, FileLines, WordsOf(FileLines, k)) /\ Good(FileLines, WordsOf(FileLines, k))
      BY <1>2, <1>6, <3>1 DEF HalfInv
    <3> DEFINE p == <<file, k>>
    <3>3. p \in Nat \X Nat /\ p[1] = file /\ p[2] = k
      BY <1>2, SceneLines, EndPlaces
    <3>4. /\ Means(next, source[p[1]].lines, WordsOf(source[p[1]].lines, p[2]))
          /\ Good(source[p[1]].lines, WordsOf(source[p[1]].lines, p[2]))
      BY <3>2, <3>3 DEF FileLines
    <3>5. Full \in SUBSET (Nat \X Nat) /\ \A q \in Full : Precedes(q, p)
      BY <1>2, <1>5, FullPlaces
    <3>6. Full' = Full \cup {p}
      BY <1>5, <3>1
    <3>7. source' = source /\ statements' = Append(statements, next)
      BY <1>4, <2>2
    <3> HIDE DEF p
    <3>8. Told(source, Append(statements, next), Full \cup {p})
      BY <1>2, <1>10, <3>3, <3>4, <3>5, OneMoreTold
    <3> QED BY <3>6, <3>7, <3>8
  <2> QED BY <2>1, <2>2
<1>12. TypeInv'
  <2>1. next' \in Statement
    BY <1>8, UnknownStatement
  <2>2. statements' \in Seq(Statement)
    BY <1>4, <1>10
  <2> QED BY <1>4, <2>1, <2>2 DEF KasmInv, TypeInv
<1>13. ParsingInv'
  BY <1>2, <1>4, <1>5, <1>7, <1>9, <1>11 DEF ParsingInv
<1>14. BetweenInv' /\ ErrorNamesLine'
  BY <1>1, <1>4, OutcomesDiffer DEF BetweenInv, ErrorNamesLine
<1> QED BY <1>12, <1>13, <1>14 DEF KasmInv

LEMMA TerminateInv ==
  ASSUME KasmInv, Terminate
  PROVE  KasmInv'
<1>1. Scene
  BY ParsingScene DEF KasmInv, Terminate, Parsing
<1>2. Current \notin SplitWords(FileLines)
  BY <1>1, WordsAndEnds DEF Terminate, Parsing
<1> QED BY <1>1, <1>2, WordsAndEnds, TerminateFileInv, TerminateLineInv

-----------------------------------------------------------------------------
(***************************************************************************)
(* Between the files.                                                      *)
(***************************************************************************)

LEMMA OtherOutcomes ==
  ASSUME NEW kind \in Outcomes, NEW n \in Nat
  PROVE  /\ Failed(kind, n) \in [kind : Outcomes, line : Nat]
         /\ Failed(kind, n).kind = kind
         /\ \A k : kind # k => Failed(kind, n) # Now(k)
  BY DEF Failed, Now

LEMMA InitInv == Init => KasmInv
<1> SUFFICES ASSUME Init PROVE KasmInv
  OBVIOUS
<1>1. Len(source) \in Nat
  BY ProjectLines DEF Init
<1>2. outcome = Now("starting") /\ "starting" \in Outcomes
  BY DEF Init, Outcomes
<1>3. /\ outcome \in [kind : Outcomes, line : Nat] /\ outcome.kind = "starting"
      /\ outcome # Now("parsing")
  BY <1>2, OtherOutcomes DEF Now
<1>4. TypeInv
  <2>1. statements \in Seq(Statement)
    BY DEF Init
  <2> QED BY <1>1, <1>2, <1>3, <2>1, UnknownStatement DEF Init, TypeInv
<1>5. Program(file) = {}
  BY <1>1, <1>4, ProgramLines DEF Init
<1>6. Told(source, statements, {})
  BY FS_EmptySet DEF Told, Init
<1> QED BY <1>3, <1>4, <1>5, <1>6 DEF Init, KasmInv, BetweenInv, ParsingInv, ErrorNamesLine

LEMMA ValidateInv ==
  ASSUME KasmInv, Validate
  PROVE  KasmInv'
<1>1. /\ outcome = Now("starting")
      /\ outcome' = Now("reading") \/ outcome' = Now("not found")
      /\ instructionSet' = Instructions
      /\ UNCHANGED <<source, file, tokens, line, next, statements, symbols>>
  BY DEF Validate, parserVars
<1>2. /\ outcome' \in [kind : Outcomes, line : Nat]
      /\ outcome'.kind # "syntax"
      /\ outcome' # Now("parsing") /\ outcome' # Now("starting")
  <2>1. "reading" \in Outcomes /\ "not found" \in Outcomes
    BY DEF Outcomes
  <2> QED BY <1>1, <2>1, OtherOutcomes DEF Now
<1>3. next = Unknown /\ Told(source, statements, Program(file))
  BY <1>1 DEF KasmInv, BetweenInv
<1>4. Program(file)' = Program(file)
  <2>1. source' = source /\ file' = file
    BY <1>1
  <2> QED BY <2>1 DEF Program
<1>5. BetweenInv'
  BY <1>1, <1>3, <1>4 DEF BetweenInv
<1>6. TypeInv'
  BY <1>1, <1>2 DEF KasmInv, TypeInv
<1> QED BY <1>2, <1>5, <1>6 DEF KasmInv, ParsingInv, ErrorNamesLine

LEMMA FinishInv ==
  ASSUME KasmInv, Finish
  PROVE  KasmInv'
<1>1. /\ outcome = Now("reading") /\ outcome' = Now("assembled")
      /\ UNCHANGED <<instructionSet, source, file, tokens, line, next, statements, symbols>>
  BY DEF Finish, projectVars, parserVars
<1>2. /\ outcome' \in [kind : Outcomes, line : Nat]
      /\ outcome'.kind # "syntax"
      /\ outcome' # Now("parsing") /\ outcome' # Now("starting")
  <2>1. "assembled" \in Outcomes
    BY DEF Outcomes
  <2> QED BY <1>1, <2>1, OtherOutcomes DEF Now
<1>3. next = Unknown /\ Told(source, statements, Program(file))
  BY <1>1 DEF KasmInv, BetweenInv
<1>4. Program(file)' = Program(file)
  BY <1>1 DEF Program
<1>5. BetweenInv'
  BY <1>1, <1>3, <1>4 DEF BetweenInv
<1>6. outcome # Now("starting")
  BY <1>1 DEF Now, Failed
<1>7. TypeInv'
  BY <1>1, <1>2, <1>6 DEF KasmInv, TypeInv
<1> QED BY <1>2, <1>5, <1>7 DEF KasmInv, ParsingInv, ErrorNamesLine

\* A file read: all of its tokens are left, and nothing of it is told yet.
LEMMA ReadInv ==
  ASSUME KasmInv, outcome = Now("reading"), file < Len(source),
         UNCHANGED <<instructionSet, source, next, statements, symbols>>,
         file' = file + 1, line' = 0, outcome' = Now("parsing"),
         NEW lines, lines = source[file + 1].lines,
         \A p \in SplitWords(lines) : ~Unreadable(WordAt(lines, p)),
         tokens' = Tokens(lines)
  PROVE  KasmInv'
<1>1. file \in 0..Len(source) /\ Len(source) \in Nat
  BY ProjectLines DEF KasmInv, TypeInv
<1>2. lines \in AllLines /\ file + 1 \in 0..Len(source)
  BY <1>1, ProjectLines DEF KasmInv, TypeInv
<1>3. FileLines' = lines
  BY DEF FileLines
<1>4. DOMAIN tokens' = Places(lines)
  BY <1>2, TokenOfPlace
<1>5. \A w : Unreadable(w)' <=> Unreadable(w)
  <2>1. ASSUME NEW w PROVE TryParseToken(w)' = TryParseToken(w)
    BY DEF TryParseToken, Accepts
  <2> QED BY <2>1 DEF Unreadable
<1>6. Tokens(FileLines)' = Tokens(lines)
  <2>1. ASSUME NEW w PROVE Token(w)' = Token(w)
    BY DEF Token, TryParseToken, Accepts
  <2> QED BY <1>3, <2>1 DEF Tokens
<1>7. TokensInv'
  <2>1. FileEnd(lines) \in Places(lines)
    BY DEF Places
  <2> QED BY <1>3, <1>4, <1>5, <1>6, <2>1 DEF TokensInv
<1>8. Ended' = {}
  BY <1>3, <1>4, WordsArePlaces DEF Ended
<1>9. Half' = {}
  BY <1>3, <1>4, WordsArePlaces DEF Half
<1>10. next = Unknown /\ Told(source, statements, Program(file))
  BY DEF KasmInv, BetweenInv
<1>11. Full' = Program(file)
  <2>1. file' - 1 = file
    BY <1>1
  <2> QED BY <1>8, <2>1 DEF Full, Program
<1>12. HalfInv'
  BY <1>9, <1>10 DEF HalfInv
<1>13. line' = Cardinality(Ended') /\ file' > 0
  BY <1>1, <1>8, FS_EmptySet
<1>14. ParsingInv'
  BY <1>7, <1>10, <1>11, <1>12, <1>13 DEF ParsingInv
<1>15. TypeInv'
  <2>1. outcome # Now("starting")
    BY DEF Now, Failed
  <2> QED BY <1>2, <2>1, OutcomesDiffer DEF KasmInv, TypeInv
<1> QED BY <1>14, <1>15, OutcomesDiffer DEF KasmInv, BetweenInv, ErrorNamesLine

LEMMA TokenizeInv ==
  ASSUME KasmInv, Tokenize
  PROVE  KasmInv'
<1> DEFINE lines == source[file + 1].lines
           bad == {p \in SplitWords(lines) : Unreadable(WordAt(lines, p))}
<1>1. /\ outcome = Now("reading") /\ file < Len(source)
      /\ UNCHANGED <<instructionSet, source, next, statements, symbols>>
      /\ file' = file + 1 /\ line' = 0
  BY DEF Tokenize, projectVars
<1>2. CASE bad = {} /\ tokens' = Tokens(lines) /\ outcome' = Now("parsing")
  <2>1. \A p \in SplitWords(lines) : ~Unreadable(WordAt(lines, p))
    BY <1>2
  <2> HIDE DEF bad
  <2> QED BY <1>1, <1>2, <2>1, ReadInv
<1>3. CASE outcome' = TokenError(lines, Least(bad))
  <2>1. file \in 0..Len(source) /\ Len(source) \in Nat
    BY ProjectLines DEF KasmInv, TypeInv
  <2>2. lines \in AllLines /\ file + 1 \in 0..Len(source)
    BY <1>1, <2>1, ProjectLines DEF KasmInv, TypeInv
  <2>3. \A k : LinesBefore(lines, k) \in Nat
    <3> TAKE k
    <3>1. {j \in SplitLines(lines) : j < k} \in SUBSET SplitLines(lines)
      OBVIOUS
    <3> QED BY <2>2, <3>1, LinesFinite DEF LinesBefore
  <2>4. /\ "format" \in Outcomes /\ "no token" \in Outcomes /\ 0 \in Nat
    BY DEF Outcomes
  <2>5. \E n \in Nat : outcome' = Failed("format", n) \/ outcome' = Failed("no token", n)
    <3> HIDE DEF bad, lines
    <3> QED BY <1>3, <2>3, <2>4 DEF TokenError, Now
  <2>6. /\ outcome' \in [kind : Outcomes, line : Nat]
        /\ outcome'.kind # "syntax"
        /\ outcome' # Now("parsing") /\ outcome' # Now("starting")
        /\ outcome' # Now("reading") /\ outcome' # Now("assembled")
    BY <2>4, <2>5, OtherOutcomes
  <2>7. outcome # Now("starting")
    BY <1>1 DEF Now, Failed
  <2>8. TypeInv'
    BY <1>1, <2>2, <2>6, <2>7 DEF KasmInv, TypeInv
  <2> QED BY <2>6, <2>8 DEF KasmInv, BetweenInv, ParsingInv, ErrorNamesLine
<1> QED BY <1>2, <1>3 DEF Tokenize

LEMMA StepInv == KasmInv /\ [Next]_vars => KasmInv'
<1> SUFFICES ASSUME KasmInv, [Next]_vars PROVE KasmInv'
  OBVIOUS
<1>1. CASE Validate
  BY <1>1, ValidateInv
<1>2. CASE Tokenize
  BY <1>2, TokenizeInv
<1>3. CASE Finish
  BY <1>3, FinishInv
<1>4. CASE OperandFirst
  BY <1>4, OperandFirstInv
<1>5. CASE BeginStatement
  BY <1>5, BeginStatementInv
<1>6. CASE SecondStatement
  BY <1>6, SecondStatementInv
<1>7. CASE OperandOfLabel
  BY <1>7, OperandOfLabelInv
<1>8. CASE AddOperand
  BY <1>8, AddOperandInv
<1>9. CASE Terminate
  BY <1>9, TerminateInv
<1>10. CASE UNCHANGED vars
  <2>1. UNCHANGED <<instructionSet, source, file, tokens, line, next, statements, symbols, outcome>>
    BY <1>10 DEF vars
  <2>2. FileLines' = FileLines /\ Tokens(FileLines)' = Tokens(FileLines)
        /\ \A w : Unreadable(w)' <=> Unreadable(w)
    BY <2>1, SameTokens
  <2>3. Ended' = Ended
    BY <2>1, <2>2 DEF Ended
  <2>4. Half' = Half
    BY <2>1, <2>2, <2>3 DEF Half
  <2>5. Full' = Full /\ Program(file)' = Program(file)
    BY <2>1, <2>2, <2>3 DEF Full, Program
  <2>6. TokensInv => TokensInv'
    BY <2>1, <2>2 DEF TokensInv
  <2>7. HalfInv => HalfInv'
    BY <2>1, <2>2, <2>4 DEF HalfInv
  <2>8. TypeInv' /\ ErrorNamesLine'
    BY <2>1 DEF KasmInv, TypeInv, ErrorNamesLine
  <2>9. BetweenInv' /\ ParsingInv'
    BY <2>1, <2>3, <2>5, <2>6, <2>7 DEF KasmInv, BetweenInv, ParsingInv
  <2> QED BY <2>8, <2>9 DEF KasmInv
<1> QED BY <1>1, <1>2, <1>3, <1>4, <1>5, <1>6, <1>7, <1>8, <1>9, <1>10 DEF Next

LEMMA Invariance == Spec => []KasmInv
<1> QED BY InitInv, StepInv, PTL DEF Spec

(***************************************************************************)
(* Between two files every line of the files read is one statement, with   *)
(* its operands and none of its neighbours', in order and over all files   *)
(* (Parser.cs:14-61, StatementBuilder.cs:26-36).                           *)
(***************************************************************************)
THEOREM LinesBecomeStatements == Spec => []StatementsAreLines
<1>1. KasmInv => StatementsAreLines
  BY DEF KasmInv, BetweenInv, StatementsAreLines, Told
<1> QED BY <1>1, Invariance, PTL

(***************************************************************************)
(* The line that a syntax error names is the first that means nothing, by  *)
(* its number among the lines of its file that are not empty (Parser.cs:16 *)
(* and 40).                                                                *)
(***************************************************************************)
THEOREM ErrorsFound == Spec => []ErrorNamesLine
<1>1. KasmInv => ErrorNamesLine
  BY DEF KasmInv
<1> QED BY <1>1, Invariance, PTL

-----------------------------------------------------------------------------
(***************************************************************************)
(* The symbols.                                                            *)
(***************************************************************************)

LabelsOf(built) == {i \in DOMAIN built : built[i].type = "Label"}

\* A set of symbols that has the name of every label, and each name once.
SymbolsOf(built, names) ==
  /\ names = {built[i].name : i \in LabelsOf(built)}
  /\ \A i, j \in LabelsOf(built) : built[i].name = built[j].name => i = j

SymbolInv == outcome.kind # "twice" => SymbolsOf(Append(statements, next), symbols)

\* Statements are built of lists that differ in no label.
LEMMA SameLabels ==
  ASSUME NEW b, NEW c, NEW names, SymbolsOf(b, names), LabelsOf(c) = LabelsOf(b),
         \A i \in LabelsOf(b) : c[i].name = b[i].name
  PROVE  SymbolsOf(c, names)
  BY DEF SymbolsOf

LEMMA OneLabelMore ==
  ASSUME NEW b, NEW c, NEW names, SymbolsOf(b, names),
         NEW i, i \notin LabelsOf(b), LabelsOf(c) = LabelsOf(b) \cup {i},
         \A j \in LabelsOf(b) : c[j].name = b[j].name,
         c[i].name \notin names
  PROVE  SymbolsOf(c, names \cup {c[i].name})
<1>1. {c[j].name : j \in LabelsOf(c)} = {b[j].name : j \in LabelsOf(b)} \cup {c[i].name}
  OBVIOUS
<1>2. \A j \in LabelsOf(b) : c[j].name # c[i].name
  BY DEF SymbolsOf
<1> QED BY <1>1, <1>2 DEF SymbolsOf

LEMMA BuiltList ==
  ASSUME NEW told \in Seq(Statement), NEW s \in Statement
  PROVE  /\ DOMAIN Append(told, s) = 1..(Len(told) + 1)
         /\ Len(told) \in Nat
         /\ Append(told, s) \in Seq(Statement)
         /\ Len(Append(told, s)) = Len(told) + 1
         /\ \A i \in 1..Len(told) : Append(told, s)[i] = told[i]
         /\ Append(told, s)[Len(told) + 1] = s
  OBVIOUS

LEMMA BeginSymbols ==
  ASSUME KasmInv, KasmInv', SymbolInv, BeginStatement
  PROVE  SymbolInv'
<1> DEFINE b == Append(statements, next)
           c == Append(statements, next')
           n == Len(statements) + 1
<1>1. /\ next \in Statement /\ next' \in Statement /\ statements \in Seq(Statement)
      /\ statements' = statements
  BY DEF KasmInv, TypeInv, BeginStatement
<1>2. /\ outcome = Now("parsing") /\ next.type = "Unknown"
      /\ next' = [next EXCEPT !.type = tokens[Current].handler, !.name = tokens[Current].value]
  BY DEF BeginStatement, Parsing
<1>3. next'.type = tokens[Current].handler /\ next'.name = tokens[Current].value
  BY <1>1, <1>2 DEF Statement
<1>4. SymbolsOf(b, symbols)
  BY <1>2, OutcomesDiffer DEF SymbolInv
<1>5. /\ DOMAIN b = 1..n /\ DOMAIN c = 1..n /\ n \in Nat
      /\ \A i \in 1..n : i # n => b[i] = statements[i] /\ c[i] = statements[i]
      /\ b[n] = next /\ c[n] = next'
  BY <1>1, BuiltList
<1>0. n \in 1..n
  BY <1>1, BuiltList
<1>6. /\ n \notin LabelsOf(b) /\ n \in 1..n
      /\ \A i : i # n => (i \in LabelsOf(c) <=> i \in LabelsOf(b))
      /\ \A i \in LabelsOf(b) : c[i].name = b[i].name
  <2> HIDE DEF b, c, n
  <2>1. b[n].type # "Label"
    BY <1>2, <1>5
  <2>2. n \notin LabelsOf(b)
    BY <2>1 DEF LabelsOf
  <2>3. \A i : i \in 1..n /\ i # n => b[i] = c[i]
    BY <1>5
  <2>4. \A i : i # n => (i \in LabelsOf(c) <=> i \in LabelsOf(b))
    BY <1>5, <2>3 DEF LabelsOf
  <2>5. ASSUME NEW i \in LabelsOf(b) PROVE c[i].name = b[i].name
    <3>1. i \in 1..n /\ i # n
      BY <1>5, <2>2 DEF LabelsOf
    <3> QED BY <2>3, <3>1
  <2> QED BY <1>0, <2>2, <2>4, <2>5
<1>7. CASE /\ tokens[Current].handler = "Label" /\ tokens[Current].value \notin symbols
           /\ symbols' = symbols \cup {tokens[Current].value}
  <2>1. n \in LabelsOf(c)
    <3> HIDE DEF b, c, n
    <3> QED BY <1>3, <1>5, <1>6, <1>7 DEF LabelsOf
  <2>2. LabelsOf(c) = LabelsOf(b) \cup {n}
    <3> HIDE DEF b, c, n
    <3> QED BY <1>6, <2>1
  <2>3. c[n].name \notin symbols /\ symbols' = symbols \cup {c[n].name}
    BY <1>3, <1>5, <1>7
  <2>4. SymbolsOf(c, symbols')
    <3> HIDE DEF b, c, n
    <3> QED BY <1>4, <1>6, <2>2, <2>3, OneLabelMore
  <2> QED BY <1>1, <2>4 DEF SymbolInv
<1>8. CASE tokens[Current].handler # "Label" /\ symbols' = symbols
  <2>1. n \notin LabelsOf(c)
    <3> HIDE DEF b, c, n
    <3> QED BY <1>3, <1>5, <1>8 DEF LabelsOf
  <2>2. LabelsOf(c) = LabelsOf(b)
    <3> HIDE DEF b, c, n
    <3> QED BY <1>6, <2>1
  <2>3. SymbolsOf(c, symbols')
    <3> HIDE DEF b, c, n
    <3> QED BY <1>4, <1>6, <1>8, <2>2, SameLabels
  <2> QED BY <1>1, <2>3 DEF SymbolInv
<1>9. CASE outcome' = Failed("twice", line)
  BY <1>9 DEF SymbolInv, Failed
<1> QED BY <1>7, <1>8, <1>9 DEF BeginStatement, AddSymbol

LEMMA OperandSymbols ==
  ASSUME KasmInv, KasmInv', SymbolInv, AddOperand
  PROVE  SymbolInv'
<1> DEFINE b == Append(statements, next)
           c == Append(statements, next')
           n == Len(statements) + 1
<1>1. /\ next \in Statement /\ next' \in Statement /\ statements \in Seq(Statement)
      /\ statements' = statements /\ symbols' = symbols
  BY DEF KasmInv, TypeInv, AddOperand
<1>2. outcome = Now("parsing") /\ next'.type = next.type /\ next'.name = next.name
  BY <1>1 DEF AddOperand, Parsing, Statement
<1>3. SymbolsOf(b, symbols)
  BY <1>2, OutcomesDiffer DEF SymbolInv
<1>4. /\ DOMAIN b = 1..n /\ DOMAIN c = 1..n /\ n \in Nat
      /\ \A i \in 1..n : i # n => b[i] = statements[i] /\ c[i] = statements[i]
      /\ b[n] = next /\ c[n] = next'
  BY <1>1, BuiltList
<1>5. LabelsOf(c) = LabelsOf(b) /\ \A i \in LabelsOf(b) : c[i].name = b[i].name
  <2> HIDE DEF b, c, n
  <2> QED BY <1>2, <1>4 DEF LabelsOf
<1>6. SymbolsOf(c, symbols)
  <2> HIDE DEF b, c
  <2> QED BY <1>3, <1>5, SameLabels
<1> QED BY <1>1, <1>6 DEF SymbolInv

LEMMA TerminateSymbols ==
  ASSUME KasmInv, KasmInv', SymbolInv, Terminate
  PROVE  SymbolInv'
<1> DEFINE b == Append(statements, next)
           c == Append(b, Unknown)
           n == Len(statements) + 1
<1>1. next \in Statement /\ statements \in Seq(Statement) /\ symbols' = symbols
  BY DEF KasmInv, TypeInv, Terminate
<1>2. outcome = Now("parsing")
  BY DEF Terminate, Parsing
<1>3. SymbolsOf(b, symbols)
  BY <1>2, OutcomesDiffer DEF SymbolInv
<1>4. CASE next.type = "Unknown"
  <2>1. next' = next /\ statements' = statements
    BY <1>4 DEF Terminate
  <2> QED BY <1>1, <1>3, <2>1 DEF SymbolInv
<1>5. CASE next.type # "Unknown"
  <2>1. statements' = b /\ next' = Unknown
    BY <1>5 DEF Terminate, Build
  <2>2. DOMAIN b = 1..n /\ n \in Nat /\ b \in Seq(Statement) /\ Len(b) = n
    BY <1>1, BuiltList
  <2>3. /\ DOMAIN c = 1..(n + 1)
        /\ \A i \in 1..n : c[i] = b[i]
        /\ c[n + 1] = Unknown
    <3> HIDE DEF b, n
    <3> QED BY <2>2, BuiltList, UnknownStatement
  <2>4. Unknown.type # "Label"
    BY DEF Unknown
  <2>5. LabelsOf(c) = LabelsOf(b) /\ \A i \in LabelsOf(b) : c[i].name = b[i].name
    <3> HIDE DEF b, c, n
    <3> QED BY <2>2, <2>3, <2>4 DEF LabelsOf
  <2>6. SymbolsOf(c, symbols)
    <3> HIDE DEF b, c
    <3> QED BY <1>3, <2>5, SameLabels
  <2> QED BY <1>1, <2>1, <2>6 DEF SymbolInv
<1> QED BY <1>4, <1>5

LEMMA InitSymbols == Init => SymbolInv
<1> SUFFICES ASSUME Init PROVE SymbolInv
  OBVIOUS
<1>1. statements = <<>> /\ next = Unknown /\ symbols = {}
  BY DEF Init
<1>2. <<>> \in Seq(Statement)
  OBVIOUS
<1>3. DOMAIN Append(<<>>, Unknown) = {1} /\ Append(<<>>, Unknown)[1] = Unknown
  BY <1>2, UnknownStatement, BuiltList
<1>4. Unknown.type # "Label"
  BY DEF Unknown
<1>5. LabelsOf(Append(<<>>, Unknown)) = {}
  BY <1>3, <1>4 DEF LabelsOf
<1> QED BY <1>1, <1>5 DEF SymbolInv, SymbolsOf

LEMMA StepSymbols == KasmInv /\ KasmInv' /\ SymbolInv /\ [Next]_vars => SymbolInv'
<1> SUFFICES ASSUME KasmInv, KasmInv', SymbolInv, [Next]_vars PROVE SymbolInv'
  OBVIOUS
<1>1. ASSUME UNCHANGED <<next, statements, symbols>>,
             outcome.kind # "twice" \/ UNCHANGED outcome
      PROVE  SymbolInv'
  BY <1>1 DEF SymbolInv
<1>2. CASE BeginStatement
  BY <1>2, BeginSymbols
<1>3. CASE AddOperand
  BY <1>3, OperandSymbols
<1>4. CASE Terminate
  BY <1>4, TerminateSymbols
<1>5. CASE Validate \/ Tokenize \/ Finish
  <2>1. UNCHANGED <<next, statements, symbols>>
    BY <1>5 DEF Validate, Tokenize, Finish, parserVars
  <2>2. outcome = Now("starting") \/ outcome = Now("reading")
    BY <1>5 DEF Validate, Tokenize, Finish
  <2>3. outcome.kind # "twice"
    BY <2>2 DEF Now, Failed
  <2> QED BY <1>1, <2>1, <2>3
<1>6. CASE OperandFirst \/ SecondStatement \/ OperandOfLabel
  <2>1. UNCHANGED <<next, statements, symbols>>
    BY <1>6 DEF OperandFirst, SecondStatement, OperandOfLabel, Throw, parserVars
  <2>2. outcome = Now("parsing")
    BY <1>6 DEF OperandFirst, SecondStatement, OperandOfLabel, Parsing
  <2> QED BY <1>1, <2>1, <2>2, OutcomesDiffer
<1>7. CASE UNCHANGED vars
  BY <1>1, <1>7 DEF vars
<1> QED BY <1>2, <1>3, <1>4, <1>5, <1>6, <1>7 DEF Next

LEMMA EachLabelOnce ==
  ASSUME NEW built \in Seq(Statement), NEW names, SymbolsOf(built, names)
  PROVE  Cardinality(names) = Cardinality(LabelsOf(built))
<1> DEFINE L == LabelsOf(built)
           f == [i \in L |-> built[i].name]
<1>1. IsFiniteSet(L)
  <2>1. L \in SUBSET (1..Len(built)) /\ Len(built) \in Nat
    BY DEF LabelsOf
  <2>2. IsFiniteSet(1..Len(built))
    BY <2>1, FS_Interval
  <2> HIDE DEF L
  <2> QED BY <2>1, <2>2, FS_Subset
<1>2. f \in Bijection(L, names)
  <2>1. f \in [L -> names]
    BY DEF SymbolsOf
  <2>2. \A i, j \in L : f[i] = f[j] => i = j
    BY DEF SymbolsOf
  <2>3. \A x \in names : \E i \in L : f[i] = x
    BY DEF SymbolsOf
  <2> HIDE DEF f, L
  <2> QED BY <2>1, <2>2, <2>3 DEF Bijection, Injection, Surjection, IsInjective
<1>3. ExistsBijection(L, names)
  BY <1>2 DEF ExistsBijection
<1> QED BY <1>1, <1>3, FS_Bijection

(***************************************************************************)
(* The symbols are the labels of the statements, each there once: no label *)
(* of any file is lost, and none is given a second meaning                 *)
(* (Parser.cs:27-30, SymbolTable.cs:17-20).                                *)
(***************************************************************************)
THEOREM LabelsBecomeSymbols == Spec => []SymbolsAreLabels
<1>1. ASSUME KasmInv, SymbolInv PROVE SymbolsAreLabels
  <2> SUFFICES ASSUME outcome.kind # "twice" PROVE
        LET built == Append(statements, next)
            labels == {i \in DOMAIN built : built[i].type = "Label"}
        IN  /\ symbols = {built[i].name : i \in labels}
            /\ Cardinality(symbols) = Cardinality(labels)
    BY DEF SymbolsAreLabels
  <2>1. SymbolsOf(Append(statements, next), symbols)
    BY <1>1 DEF SymbolInv
  <2>2. Append(statements, next) \in Seq(Statement)
    BY <1>1, BuiltList DEF KasmInv, TypeInv
  <2>3. Cardinality(symbols) = Cardinality(LabelsOf(Append(statements, next)))
    BY <2>1, <2>2, EachLabelOnce
  <2> QED BY <2>1, <2>3 DEF SymbolsOf, LabelsOf
<1>2. KasmInv /\ SymbolInv => SymbolsAreLabels
  BY <1>1
<1> QED BY <1>2, Invariance, InitSymbols, StepSymbols, PTL DEF Spec

-----------------------------------------------------------------------------
(***************************************************************************)
(* The instruction set.  It has one row for each opcode of the CPU's       *)
(* table: its instructions are read off the opcodes, and the opcode of an  *)
(* instruction off its mnemonic and its operands.                          *)
(***************************************************************************)

MnemonicOf(c) ==
  CASE c = 0 -> "NOP"  [] c \in {1, 2} -> "LDR" [] c = 3 -> "STR" [] c = 4 -> "MOV"
    [] c = 5 -> "SWP"  [] c = 6 -> "PSH" [] c = 7 -> "POP" [] c = 8 -> "CLR"
    [] c \in {16, 17} -> "ADD" [] c \in {18, 19} -> "ADC" [] c = 20 -> "INC"
    [] c \in {21, 22} -> "SUB" [] c \in {23, 24} -> "SBC" [] c = 25 -> "DEC"
    [] c \in {26, 27} -> "CMP" [] c \in {32, 33} -> "AND" [] c \in {34, 35} -> "OR"
    [] c \in {36, 37} -> "XOR" [] c = 38 -> "NOT" [] c = 39 -> "SHL" [] c = 40 -> "SHR"
    [] c = 41 -> "ROL" [] c = 42 -> "ROR" [] c \in {43, 44} -> "TST"
    [] c \in {48, 49} -> "JMP" [] c \in {50, 51} -> "JZ" [] c \in {52, 53} -> "JNZ"
    [] c \in {54, 55} -> "JC" [] c \in {56, 57} -> "JNC" [] c \in {58, 59} -> "JN"
    [] c \in {60, 61} -> "JNN" [] c \in {62, 63} -> "JV" [] c \in {64, 65} -> "JNV"
    [] c \in {66, 67} -> "CALL" [] c = 68 -> "RET" [] c = 69 -> "HLT"

FirstOpcode(m) ==
  CASE m = "NOP" -> 0 [] m = "LDR" -> 1 [] m = "STR" -> 3 [] m = "MOV" -> 4
    [] m = "SWP" -> 5 [] m = "PSH" -> 6 [] m = "POP" -> 7 [] m = "CLR" -> 8
    [] m = "ADD" -> 16 [] m = "ADC" -> 18 [] m = "INC" -> 20 [] m = "SUB" -> 21
    [] m = "SBC" -> 23 [] m = "DEC" -> 25 [] m = "CMP" -> 26 [] m = "AND" -> 32
    [] m = "OR" -> 34 [] m = "XOR" -> 36 [] m = "NOT" -> 38 [] m = "SHL" -> 39
    [] m = "SHR" -> 40 [] m = "ROL" -> 41 [] m = "ROR" -> 42 [] m = "TST" -> 43
    [] m = "JMP" -> 48 [] m = "JZ" -> 50 [] m = "JNZ" -> 52 [] m = "JC" -> 54
    [] m = "JNC" -> 56 [] m = "JN" -> 58 [] m = "JNN" -> 60 [] m = "JV" -> 62
    [] m = "JNV" -> 64 [] m = "CALL" -> 66 [] m = "RET" -> 68 [] m = "HLT" -> 69

RowOf(c) == Instruction(MnemonicOf(c), c, Takes(c))

\* The opcodes by the operands their instructions take.
NoneCodes == {0, 68, 69}
RegisterCodes ==
  {6, 7, 8, 20, 25, 38, 39, 40, 41, 42, 49, 51, 53, 55, 57, 59, 61, 63, 65, 67}
AddressCodes == {48, 50, 52, 54, 56, 58, 60, 62, 64, 66}
PairCodes == {4, 5, 16, 18, 21, 23, 26, 32, 34, 36, 43}
ByteCodes == {2, 17, 19, 22, 24, 27, 33, 35, 37, 44}
MemoryCodes == {1, 3}

LEMMA CodesAssigned ==
  Assigned = NoneCodes \cup RegisterCodes \cup AddressCodes \cup PairCodes
               \cup ByteCodes \cup MemoryCodes
  BY DEF Assigned, NoneCodes, RegisterCodes, AddressCodes, PairCodes, ByteCodes, MemoryCodes,
         NOP, LDR_MEM, LDR_IMM, STR, MOV, SWP, PSH, POP, CLR, BinaryOps, UnaryOps, JumpOps,
         ADD, ADC, INC, SUB, SBC, DEC, CMP, AND, OR, XOR, TST, NOT, SHL, SHR, ROL, ROR,
         JMP, JZ, JNZ, JC, JNC, JN, JNN, JV, JNV, CAL_MEM, CAL_REG, RET, HLT

LEMMA CodesApart ==
  /\ \A c \in PairCodes : c \notin MemoryCodes
  /\ \A c \in ByteCodes : c \notin MemoryCodes \cup PairCodes
  /\ \A c \in AddressCodes : c \notin MemoryCodes \cup PairCodes \cup ByteCodes
  /\ \A c \in RegisterCodes :
       c \notin MemoryCodes \cup PairCodes \cup ByteCodes \cup AddressCodes
  /\ \A c \in NoneCodes :
       c \notin MemoryCodes \cup PairCodes \cup ByteCodes \cup AddressCodes \cup RegisterCodes
  BY DEF NoneCodes, RegisterCodes, AddressCodes, PairCodes, ByteCodes, MemoryCodes

LEMMA TakesByCodes ==
  ASSUME NEW c
  PROVE  Takes(c) =
           CASE c \in MemoryCodes -> <<R, A>>
             [] c \in PairCodes -> <<R, R>>
             [] c \in ByteCodes -> <<R, I>>
             [] c \in AddressCodes -> <<A>>
             [] c \in RegisterCodes -> <<R>>
             [] OTHER -> <<>>
<1> USE DEF RegisterForms, ImmediateForms, MemoryJumps,
         LDR_MEM, LDR_IMM, STR, MOV, SWP, PSH, POP, CLR, BinaryOps, UnaryOps, JumpOps,
         ADD, ADC, INC, SUB, SBC, DEC, CMP, AND, OR, XOR, TST, NOT, SHL, SHR, ROL, ROR,
         JMP, JZ, JNZ, JC, JNC, JN, JNN, JV, JNV, CAL_MEM, CAL_REG
<1>1. {LDR_MEM, STR} = MemoryCodes
  BY DEF MemoryCodes
<1>2. {MOV, SWP} \cup RegisterForms = PairCodes
  BY DEF PairCodes
<1>3. {LDR_IMM} \cup ImmediateForms = ByteCodes
  BY DEF ByteCodes
<1>4. {CAL_MEM} \cup MemoryJumps = AddressCodes
  BY DEF AddressCodes
<1>5. {PSH, POP, CLR, CAL_REG} \cup INC \cup DEC \cup UnaryOps \cup (JumpOps \ MemoryJumps)
        = RegisterCodes
  BY DEF RegisterCodes
<1> HIDE DEF RegisterForms, ImmediateForms, MemoryJumps,
         LDR_MEM, LDR_IMM, STR, MOV, SWP, PSH, POP, CLR, BinaryOps, UnaryOps, JumpOps,
         ADD, ADC, INC, SUB, SBC, DEC, CMP, AND, OR, XOR, TST, NOT, SHL, SHR, ROL, ROR,
         JMP, JZ, JNZ, JC, JNC, JN, JNN, JV, JNV, CAL_MEM, CAL_REG
<1> QED BY <1>1, <1>2, <1>3, <1>4, <1>5 DEF Takes

LEMMA CodesTake ==
  /\ \A c \in NoneCodes : Takes(c) = <<>>
  /\ \A c \in RegisterCodes : Takes(c) = <<R>>
  /\ \A c \in AddressCodes : Takes(c) = <<A>>
  /\ \A c \in PairCodes : Takes(c) = <<R, R>>
  /\ \A c \in ByteCodes : Takes(c) = <<R, I>>
  /\ \A c \in MemoryCodes : Takes(c) = <<R, A>>
<1>1. \A c \in NoneCodes : Takes(c) = <<>>
  BY TakesByCodes, CodesApart
<1>2. \A c \in RegisterCodes : Takes(c) = <<R>>
  BY TakesByCodes, CodesApart
<1>3. \A c \in AddressCodes : Takes(c) = <<A>>
  BY TakesByCodes, CodesApart
<1>4. \A c \in PairCodes : Takes(c) = <<R, R>>
  BY TakesByCodes, CodesApart
<1>5. \A c \in ByteCodes : Takes(c) = <<R, I>>
  BY TakesByCodes, CodesApart
<1>6. \A c \in MemoryCodes : Takes(c) = <<R, A>>
  BY TakesByCodes, CodesApart
<1> QED BY <1>1, <1>2, <1>3, <1>4, <1>5, <1>6

LEMMA CodesSize ==
  /\ \A c \in NoneCodes : Size(c) = 1
  /\ \A c \in RegisterCodes : Size(c) = 2
  /\ \A c \in AddressCodes \cup PairCodes \cup ByteCodes : Size(c) = 3
  /\ \A c \in MemoryCodes : Size(c) = 4
<1> USE DEF Size, FourByteOps, ThreeByteOps, TwoByteOps, RegisterForms, ImmediateForms,
         MemoryJumps,
         LDR_MEM, LDR_IMM, STR, MOV, SWP, PSH, POP, CLR, BinaryOps, UnaryOps, JumpOps,
         ADD, ADC, INC, SUB, SBC, DEC, CMP, AND, OR, XOR, TST, NOT, SHL, SHR, ROL, ROR,
         JMP, JZ, JNZ, JC, JNC, JN, JNN, JV, JNV, CAL_MEM, CAL_REG
<1>1. \A c \in NoneCodes : Size(c) = 1
  BY DEF NoneCodes
<1>2. \A c \in RegisterCodes : Size(c) = 2
  BY DEF RegisterCodes
<1>3. \A c \in AddressCodes \cup PairCodes \cup ByteCodes : Size(c) = 3
  BY DEF AddressCodes, PairCodes, ByteCodes
<1>4. \A c \in MemoryCodes : Size(c) = 4
  BY DEF MemoryCodes
<1> QED BY <1>1, <1>2, <1>3, <1>4

LEMMA EncodedSizes ==
  ASSUME NEW m, NEW c
  PROVE  /\ Encoded(Instruction(m, c, <<>>)) = 1
         /\ Encoded(Instruction(m, c, <<R>>)) = 2
         /\ Encoded(Instruction(m, c, <<A>>)) = 3
         /\ Encoded(Instruction(m, c, <<R, R>>)) = 3
         /\ Encoded(Instruction(m, c, <<R, I>>)) = 3
         /\ Encoded(Instruction(m, c, <<R, A>>)) = 4
<1>1. GetSize(R) = 1 /\ GetSize(I) = 1 /\ GetSize(A) = 2
  BY DEF GetSize, R, I, A
<1>2. \A ops : Instruction(m, c, ops).operands = ops
  BY DEF Instruction
<1> QED BY <1>1, <1>2 DEF Encoded

LEMMA RowsEncoded ==
  ASSUME NEW c \in Assigned
  PROVE  Encoded(RowOf(c)) = Size(c)
  BY CodesAssigned, CodesTake, CodesSize, EncodedSizes DEF RowOf

LEMMA Mnemonics ==
  /\ MnemonicOf(0) = "NOP"
  /\ MnemonicOf(1) = "LDR"
  /\ MnemonicOf(2) = "LDR"
  /\ MnemonicOf(3) = "STR"
  /\ MnemonicOf(4) = "MOV"
  /\ MnemonicOf(5) = "SWP"
  /\ MnemonicOf(6) = "PSH"
  /\ MnemonicOf(7) = "POP"
  /\ MnemonicOf(8) = "CLR"
  /\ MnemonicOf(16) = "ADD"
  /\ MnemonicOf(17) = "ADD"
  /\ MnemonicOf(18) = "ADC"
  /\ MnemonicOf(19) = "ADC"
  /\ MnemonicOf(20) = "INC"
  /\ MnemonicOf(21) = "SUB"
  /\ MnemonicOf(22) = "SUB"
  /\ MnemonicOf(23) = "SBC"
  /\ MnemonicOf(24) = "SBC"
  /\ MnemonicOf(25) = "DEC"
  /\ MnemonicOf(26) = "CMP"
  /\ MnemonicOf(27) = "CMP"
  /\ MnemonicOf(32) = "AND"
  /\ MnemonicOf(33) = "AND"
  /\ MnemonicOf(34) = "OR"
  /\ MnemonicOf(35) = "OR"
  /\ MnemonicOf(36) = "XOR"
  /\ MnemonicOf(37) = "XOR"
  /\ MnemonicOf(38) = "NOT"
  /\ MnemonicOf(39) = "SHL"
  /\ MnemonicOf(40) = "SHR"
  /\ MnemonicOf(41) = "ROL"
  /\ MnemonicOf(42) = "ROR"
  /\ MnemonicOf(43) = "TST"
  /\ MnemonicOf(44) = "TST"
  /\ MnemonicOf(48) = "JMP"
  /\ MnemonicOf(49) = "JMP"
  /\ MnemonicOf(50) = "JZ"
  /\ MnemonicOf(51) = "JZ"
  /\ MnemonicOf(52) = "JNZ"
  /\ MnemonicOf(53) = "JNZ"
  /\ MnemonicOf(54) = "JC"
  /\ MnemonicOf(55) = "JC"
  /\ MnemonicOf(56) = "JNC"
  /\ MnemonicOf(57) = "JNC"
  /\ MnemonicOf(58) = "JN"
  /\ MnemonicOf(59) = "JN"
  /\ MnemonicOf(60) = "JNN"
  /\ MnemonicOf(61) = "JNN"
  /\ MnemonicOf(62) = "JV"
  /\ MnemonicOf(63) = "JV"
  /\ MnemonicOf(64) = "JNV"
  /\ MnemonicOf(65) = "JNV"
  /\ MnemonicOf(66) = "CALL"
  /\ MnemonicOf(67) = "CALL"
  /\ MnemonicOf(68) = "RET"
  /\ MnemonicOf(69) = "HLT"
  BY DEF MnemonicOf

LEMMA FirstOpcodes ==
  /\ FirstOpcode("NOP") = 0
  /\ FirstOpcode("LDR") = 1
  /\ FirstOpcode("STR") = 3
  /\ FirstOpcode("MOV") = 4
  /\ FirstOpcode("SWP") = 5
  /\ FirstOpcode("PSH") = 6
  /\ FirstOpcode("POP") = 7
  /\ FirstOpcode("CLR") = 8
  /\ FirstOpcode("ADD") = 16
  /\ FirstOpcode("ADC") = 18
  /\ FirstOpcode("INC") = 20
  /\ FirstOpcode("SUB") = 21
  /\ FirstOpcode("SBC") = 23
  /\ FirstOpcode("DEC") = 25
  /\ FirstOpcode("CMP") = 26
  /\ FirstOpcode("AND") = 32
  /\ FirstOpcode("OR") = 34
  /\ FirstOpcode("XOR") = 36
  /\ FirstOpcode("NOT") = 38
  /\ FirstOpcode("SHL") = 39
  /\ FirstOpcode("SHR") = 40
  /\ FirstOpcode("ROL") = 41
  /\ FirstOpcode("ROR") = 42
  /\ FirstOpcode("TST") = 43
  /\ FirstOpcode("JMP") = 48
  /\ FirstOpcode("JZ") = 50
  /\ FirstOpcode("JNZ") = 52
  /\ FirstOpcode("JC") = 54
  /\ FirstOpcode("JNC") = 56
  /\ FirstOpcode("JN") = 58
  /\ FirstOpcode("JNN") = 60
  /\ FirstOpcode("JV") = 62
  /\ FirstOpcode("JNV") = 64
  /\ FirstOpcode("CALL") = 66
  /\ FirstOpcode("RET") = 68
  /\ FirstOpcode("HLT") = 69
  BY DEF FirstOpcode

LEMMA MnemonicsFirst ==
  /\ \A c \in {49, 51, 53, 55, 57, 59, 61, 63, 65, 67} :
       c = FirstOpcode(MnemonicOf(c)) + 1 /\ FirstOpcode(MnemonicOf(c)) >= 48
  /\ \A c \in {6, 7, 8, 20, 25, 38, 39, 40, 41, 42} :
       c = FirstOpcode(MnemonicOf(c)) /\ FirstOpcode(MnemonicOf(c)) < 48
  /\ \A c \in ByteCodes : c = FirstOpcode(MnemonicOf(c)) + 1
  /\ \A c \in NoneCodes \cup AddressCodes \cup PairCodes \cup MemoryCodes :
       c = FirstOpcode(MnemonicOf(c))
<1>1. \A c \in {49, 51, 53, 55, 57, 59, 61, 63, 65, 67} :
       c = FirstOpcode(MnemonicOf(c)) + 1 /\ FirstOpcode(MnemonicOf(c)) >= 48
  BY Mnemonics, FirstOpcodes
<1>2. \A c \in {6, 7, 8, 20, 25, 38, 39, 40, 41, 42} :
       c = FirstOpcode(MnemonicOf(c)) /\ FirstOpcode(MnemonicOf(c)) < 48
  BY Mnemonics, FirstOpcodes
<1>3. \A c \in ByteCodes : c = FirstOpcode(MnemonicOf(c)) + 1
  BY Mnemonics, FirstOpcodes DEF ByteCodes
<1>4. \A c \in NoneCodes : c = FirstOpcode(MnemonicOf(c))
  BY Mnemonics, FirstOpcodes DEF NoneCodes
<1>5. \A c \in AddressCodes : c = FirstOpcode(MnemonicOf(c))
  BY Mnemonics, FirstOpcodes DEF AddressCodes
<1>6. \A c \in PairCodes : c = FirstOpcode(MnemonicOf(c))
  BY Mnemonics, FirstOpcodes DEF PairCodes
<1>7. \A c \in MemoryCodes : c = FirstOpcode(MnemonicOf(c))
  BY Mnemonics, FirstOpcodes DEF MemoryCodes
<1> QED BY <1>1, <1>2, <1>3, <1>4, <1>5, <1>6, <1>7

RowsOf(codes) == {RowOf(c) : c \in codes}

LEMMA RowsTake ==
  /\ \A c \in NoneCodes : RowOf(c) = Instruction(MnemonicOf(c), c, <<>>)
  /\ \A c \in RegisterCodes : RowOf(c) = Instruction(MnemonicOf(c), c, <<R>>)
  /\ \A c \in AddressCodes : RowOf(c) = Instruction(MnemonicOf(c), c, <<A>>)
  /\ \A c \in PairCodes : RowOf(c) = Instruction(MnemonicOf(c), c, <<R, R>>)
  /\ \A c \in ByteCodes : RowOf(c) = Instruction(MnemonicOf(c), c, <<R, I>>)
  /\ \A c \in MemoryCodes : RowOf(c) = Instruction(MnemonicOf(c), c, <<R, A>>)
  BY CodesTake DEF RowOf

LEMMA PlainRows == Plain = RowsOf({0, 3, 4, 5, 68, 69})
<1>1. /\ RowOf(0) = Instruction("NOP", 0, <<>>)
      /\ RowOf(68) = Instruction("RET", 68, <<>>)
      /\ RowOf(69) = Instruction("HLT", 69, <<>>)
  BY RowsTake, Mnemonics DEF NoneCodes
<1>2. RowOf(4) = Instruction("MOV", 4, <<R, R>>) /\ RowOf(5) = Instruction("SWP", 5, <<R, R>>)
  BY RowsTake, Mnemonics DEF PairCodes
<1>3. RowOf(3) = Instruction("STR", 3, <<R, A>>)
  BY RowsTake, Mnemonics DEF MemoryCodes
<1>4. RowsOf({0, 3, 4, 5, 68, 69}) =
        {RowOf(0), RowOf(3), RowOf(4), RowOf(5), RowOf(68), RowOf(69)}
  BY DEF RowsOf
<1> QED BY <1>1, <1>2, <1>3, <1>4 DEF Plain

LEMMA OnRegisterRows == OnRegister = RowsOf({6, 7, 8, 20, 25, 38, 39, 40, 41, 42})
<1>1. /\ RowOf(6) = Instruction("PSH", 6, <<R>>) /\ RowOf(7) = Instruction("POP", 7, <<R>>)
      /\ RowOf(8) = Instruction("CLR", 8, <<R>>) /\ RowOf(20) = Instruction("INC", 20, <<R>>)
      /\ RowOf(25) = Instruction("DEC", 25, <<R>>) /\ RowOf(38) = Instruction("NOT", 38, <<R>>)
      /\ RowOf(39) = Instruction("SHL", 39, <<R>>) /\ RowOf(40) = Instruction("SHR", 40, <<R>>)
      /\ RowOf(41) = Instruction("ROL", 41, <<R>>) /\ RowOf(42) = Instruction("ROR", 42, <<R>>)
  BY RowsTake, Mnemonics DEF RegisterCodes
<1>2. RowsOf({6, 7, 8, 20, 25, 38, 39, 40, 41, 42}) =
        {RowOf(6), RowOf(7), RowOf(8), RowOf(20), RowOf(25), RowOf(38), RowOf(39),
         RowOf(40), RowOf(41), RowOf(42)}
  BY DEF RowsOf
<1> QED BY <1>1, <1>2 DEF OnRegister

LEMMA LoadRows == Load = RowsOf({1, 2})
<1>1. RowOf(1) = Instruction("LDR", 1, <<R, A>>)
  BY RowsTake, Mnemonics DEF MemoryCodes
<1>2. RowOf(1 + 1) = Instruction("LDR", 1 + 1, <<R, I>>)
  BY RowsTake, Mnemonics DEF ByteCodes
<1>3. RowsOf({1, 2}) = {RowOf(1), RowOf(1 + 1)}
  BY DEF RowsOf
<1> QED BY <1>1, <1>2, <1>3 DEF Load, Pair2

\* The pairs of one mnemonic: two rows for each.
PairsOf(pairs, first, second) == UNION {Pair2(p[1], p[2], first, second) : p \in pairs}

LEMMA RowsOfPairs ==
  ASSUME NEW pairs, NEW first, NEW second, NEW codes,
         \A p \in pairs :
           /\ p[2] \in codes /\ p[2] + 1 \in codes
           /\ RowOf(p[2]) = Instruction(p[1], p[2], first)
           /\ RowOf(p[2] + 1) = Instruction(p[1], p[2] + 1, second),
         \A c \in codes : \E p \in pairs : c = p[2] \/ c = p[2] + 1
  PROVE  PairsOf(pairs, first, second) = RowsOf(codes)
<1>1. \A p \in pairs : Pair2(p[1], p[2], first, second) = {RowOf(p[2]), RowOf(p[2] + 1)}
  BY DEF Pair2
<1>2. ASSUME NEW i \in UNION {Pair2(p[1], p[2], first, second) : p \in pairs}
      PROVE  i \in RowsOf(codes)
  BY <1>1, <1>2 DEF RowsOf
<1>3. ASSUME NEW i \in RowsOf(codes)
      PROVE  i \in UNION {Pair2(p[1], p[2], first, second) : p \in pairs}
  <2>1. PICK c \in codes : i = RowOf(c)
    BY DEF RowsOf
  <2>2. PICK p \in pairs : c = p[2] \/ c = p[2] + 1
    OBVIOUS
  <2>3. i \in Pair2(p[1], p[2], first, second)
    BY <1>1, <2>1, <2>2
  <2> QED BY <2>3
<1> QED BY <1>2, <1>3 DEF PairsOf

LEMMA OnRegisterOrByteRows ==
  OnRegisterOrByte = RowsOf({16, 17, 18, 19, 21, 22, 23, 24, 26, 27, 32, 33, 34, 35, 36, 37, 43, 44})
<1> DEFINE pairs ==
      {<<"ADD", 16>>, <<"ADC", 18>>, <<"SUB", 21>>, <<"SBC", 23>>, <<"CMP", 26>>,
       <<"AND", 32>>, <<"OR", 34>>, <<"XOR", 36>>, <<"TST", 43>>}
    codes == {16, 17, 18, 19, 21, 22, 23, 24, 26, 27, 32, 33, 34, 35, 36, 37, 43, 44}
<1>1. \A p \in pairs : /\ p[2] \in codes /\ p[2] + 1 \in codes
                       /\ p[2] \in PairCodes /\ p[2] + 1 \in ByteCodes
  BY DEF PairCodes, ByteCodes
<1>2. \A p \in pairs : MnemonicOf(p[2]) = p[1] /\ MnemonicOf(p[2] + 1) = p[1]
  BY Mnemonics
<1>3. \A c \in codes : \E p \in pairs : c = p[2] \/ c = p[2] + 1
  OBVIOUS
<1> HIDE DEF pairs, codes
<1>4. \A p \in pairs : /\ RowOf(p[2]) = Instruction(p[1], p[2], <<R, R>>)
                       /\ RowOf(p[2] + 1) = Instruction(p[1], p[2] + 1, <<R, I>>)
  BY <1>1, <1>2, RowsTake
<1> DEFINE first == <<R, R>>
           second == <<R, I>>
<1>5. \A p \in pairs :
        /\ p[2] \in codes /\ p[2] + 1 \in codes
        /\ RowOf(p[2]) = Instruction(p[1], p[2], first)
        /\ RowOf(p[2] + 1) = Instruction(p[1], p[2] + 1, second)
  BY <1>1, <1>4
<1> HIDE DEF first, second
<1>6. PairsOf(pairs, first, second) = RowsOf(codes)
  BY <1>3, <1>5, RowsOfPairs
<1> QED BY <1>6 DEF PairsOf, first, second, OnRegisterOrByte, pairs, codes

LEMMA ToAddressOrPairRows ==
  ToAddressOrPair = RowsOf({48, 49, 50, 51, 52, 53, 54, 55, 56, 57, 58, 59, 60, 61, 62, 63,
                            64, 65, 66, 67})
<1> DEFINE pairs ==
      {<<"JMP", 48>>, <<"JZ", 50>>, <<"JNZ", 52>>, <<"JC", 54>>, <<"JNC", 56>>,
       <<"JN", 58>>, <<"JNN", 60>>, <<"JV", 62>>, <<"JNV", 64>>, <<"CALL", 66>>}
    codes == {48, 49, 50, 51, 52, 53, 54, 55, 56, 57, 58, 59, 60, 61, 62, 63, 64, 65, 66, 67}
<1>1. \A p \in pairs : /\ p[2] \in codes /\ p[2] + 1 \in codes
                       /\ p[2] \in AddressCodes /\ p[2] + 1 \in RegisterCodes
  BY DEF AddressCodes, RegisterCodes
<1>2. \A p \in pairs : MnemonicOf(p[2]) = p[1] /\ MnemonicOf(p[2] + 1) = p[1]
  BY Mnemonics
<1>3. \A c \in codes : \E p \in pairs : c = p[2] \/ c = p[2] + 1
  OBVIOUS
<1> HIDE DEF pairs, codes
<1>4. \A p \in pairs : /\ RowOf(p[2]) = Instruction(p[1], p[2], <<A>>)
                       /\ RowOf(p[2] + 1) = Instruction(p[1], p[2] + 1, <<R>>)
  BY <1>1, <1>2, RowsTake
<1> DEFINE first == <<A>>
           second == <<R>>
<1>5. \A p \in pairs :
        /\ p[2] \in codes /\ p[2] + 1 \in codes
        /\ RowOf(p[2]) = Instruction(p[1], p[2], first)
        /\ RowOf(p[2] + 1) = Instruction(p[1], p[2] + 1, second)
  BY <1>1, <1>4
<1> HIDE DEF first, second
<1>6. PairsOf(pairs, first, second) = RowsOf(codes)
  BY <1>3, <1>5, RowsOfPairs
<1> QED BY <1>6 DEF PairsOf, first, second, ToAddressOrPair, pairs, codes

LEMMA InstructionsAreRows == Instructions = RowsOf(Assigned)
<1>1. Assigned =
        {0, 3, 4, 5, 68, 69} \cup {6, 7, 8, 20, 25, 38, 39, 40, 41, 42} \cup {1, 2}
          \cup {16, 17, 18, 19, 21, 22, 23, 24, 26, 27, 32, 33, 34, 35, 36, 37, 43, 44}
          \cup {48, 49, 50, 51, 52, 53, 54, 55, 56, 57, 58, 59, 60, 61, 62, 63, 64, 65, 66, 67}
  BY CodesAssigned
     DEF NoneCodes, RegisterCodes, AddressCodes, PairCodes, ByteCodes, MemoryCodes
<1> DEFINE a == {0, 3, 4, 5, 68, 69}
           b == {6, 7, 8, 20, 25, 38, 39, 40, 41, 42}
           c == {1, 2}
           d == {16, 17, 18, 19, 21, 22, 23, 24, 26, 27, 32, 33, 34, 35, 36, 37, 43, 44}
           e == {48, 49, 50, 51, 52, 53, 54, 55, 56, 57, 58, 59, 60, 61, 62, 63, 64, 65, 66, 67}
<1>2. /\ Plain = RowsOf(a) /\ OnRegister = RowsOf(b) /\ Load = RowsOf(c)
      /\ OnRegisterOrByte = RowsOf(d) /\ ToAddressOrPair = RowsOf(e)
  BY PlainRows, OnRegisterRows, LoadRows, OnRegisterOrByteRows, ToAddressOrPairRows
<1>3. Assigned = a \cup b \cup c \cup d \cup e
  BY <1>1
<1> HIDE DEF a, b, c, d, e
<1>4. RowsOf(a \cup b \cup c \cup d \cup e)
        = RowsOf(a) \cup RowsOf(b) \cup RowsOf(c) \cup RowsOf(d) \cup RowsOf(e)
  BY DEF RowsOf
<1>5. Instructions = RowsOf(a) \cup RowsOf(b) \cup RowsOf(c) \cup RowsOf(d) \cup RowsOf(e)
  BY <1>2 DEF Instructions
<1> QED BY <1>3, <1>4, <1>5

LEMMA OperandsTell ==
  ASSUME NEW c \in Assigned, NEW d \in Assigned,
         MnemonicOf(c) = MnemonicOf(d), Takes(c) = Takes(d)
  PROVE  c = d
<1>1. /\ <<>> # <<R>> /\ <<>> # <<A>> /\ <<>> # <<R, R>> /\ <<>> # <<R, I>> /\ <<>> # <<R, A>>
      /\ <<R>> # <<A>> /\ <<R>> # <<R, R>> /\ <<R>> # <<R, I>> /\ <<R>> # <<R, A>>
      /\ <<A>> # <<R, R>> /\ <<A>> # <<R, I>> /\ <<A>> # <<R, A>>
      /\ <<R, R>> # <<R, I>> /\ <<R, R>> # <<R, A>> /\ <<R, I>> # <<R, A>>
  BY DEF R, I, A
<1>2. \/ c \in NoneCodes /\ d \in NoneCodes
      \/ c \in RegisterCodes /\ d \in RegisterCodes
      \/ c \in AddressCodes /\ d \in AddressCodes
      \/ c \in PairCodes /\ d \in PairCodes
      \/ c \in ByteCodes /\ d \in ByteCodes
      \/ c \in MemoryCodes /\ d \in MemoryCodes
  BY <1>1, CodesAssigned, CodesTake
<1>3. CASE c \in RegisterCodes /\ d \in RegisterCodes
  <2>1. RegisterCodes = {49, 51, 53, 55, 57, 59, 61, 63, 65, 67}
                          \cup {6, 7, 8, 20, 25, 38, 39, 40, 41, 42}
    BY DEF RegisterCodes
  <2>2. /\ c \in {49, 51, 53, 55, 57, 59, 61, 63, 65, 67}
           => c = FirstOpcode(MnemonicOf(c)) + 1 /\ c >= 49
        /\ c \in {6, 7, 8, 20, 25, 38, 39, 40, 41, 42}
           => c = FirstOpcode(MnemonicOf(c)) /\ c <= 42
        /\ d \in {49, 51, 53, 55, 57, 59, 61, 63, 65, 67}
           => d = FirstOpcode(MnemonicOf(d)) + 1 /\ d >= 49
        /\ d \in {6, 7, 8, 20, 25, 38, 39, 40, 41, 42}
           => d = FirstOpcode(MnemonicOf(d)) /\ d <= 42
    BY MnemonicsFirst
  <2>3. c \in Int /\ d \in Int
    BY <1>3 DEF RegisterCodes
  <2> QED BY <1>3, <2>1, <2>2, <2>3
<1>4. CASE c \in ByteCodes /\ d \in ByteCodes
  BY <1>4, MnemonicsFirst
<1>5. CASE \/ c \in NoneCodes /\ d \in NoneCodes
           \/ c \in AddressCodes /\ d \in AddressCodes
           \/ c \in PairCodes /\ d \in PairCodes
           \/ c \in MemoryCodes /\ d \in MemoryCodes
  BY <1>5, MnemonicsFirst
<1> QED BY <1>2, <1>3, <1>4, <1>5

LEMMA AssignedFinite == IsFiniteSet(Assigned)
<1>1. Assigned \in SUBSET Nat /\ \A c \in Assigned : c <= 69
  BY CodesAssigned
     DEF NoneCodes, RegisterCodes, AddressCodes, PairCodes, ByteCodes, MemoryCodes
<1>2. PICK n \in Nat : \A c \in Assigned : c <= n
  BY <1>1
<1> QED BY <1>1, <1>2, FS_BoundedSetOfNaturals

LEMMA OneToOne ==
  ASSUME NEW S, NEW T, NEW f \in [S -> T], IsFiniteSet(S),
         \A x, y \in S : f[x] = f[y] => x = y,
         \A t \in T : \E x \in S : f[x] = t
  PROVE  IsFiniteSet(T) /\ Cardinality(T) = Cardinality(S)
<1>1. f \in Bijection(S, T)
  BY DEF Bijection, Injection, Surjection, IsInjective
<1>2. ExistsBijection(S, T)
  BY <1>1 DEF ExistsBijection
<1> QED BY <1>2, FS_Bijection

LEMMA RowFields ==
  ASSUME NEW c
  PROVE  /\ RowOf(c).opcode = c
         /\ RowOf(c).mnemonic = MnemonicOf(c)
         /\ RowOf(c).operands = Takes(c)
  BY DEF RowOf, Instruction

LEMMA OneRowPerOpcode ==
  IsFiniteSet(Instructions) /\ Cardinality(Instructions) = Cardinality(Assigned)
<1> DEFINE f == [c \in Assigned |-> RowOf(c)]
<1>1. f \in [Assigned -> Instructions]
  BY InstructionsAreRows DEF RowsOf
<1>2. \A c, d \in Assigned : f[c] = f[d] => c = d
  BY RowFields
<1>3. \A i \in Instructions : \E c \in Assigned : f[c] = i
  BY InstructionsAreRows DEF RowsOf
<1> HIDE DEF f
<1> QED BY <1>1, <1>2, <1>3, AssignedFinite, OneToOne

LEMMA OneRowPerForm ==
  Cardinality({<<i.mnemonic, i.operands>> : i \in Instructions}) = Cardinality(Instructions)
<1> DEFINE forms == {<<i.mnemonic, i.operands>> : i \in Instructions}
           f == [i \in Instructions |-> <<i.mnemonic, i.operands>>]
<1>1. f \in [Instructions -> forms]
  OBVIOUS
<1>2. ASSUME NEW i \in Instructions, NEW j \in Instructions, f[i] = f[j]
      PROVE  i = j
  <2>1. PICK c \in Assigned : i = RowOf(c)
    BY InstructionsAreRows DEF RowsOf
  <2>2. PICK d \in Assigned : j = RowOf(d)
    BY InstructionsAreRows DEF RowsOf
  <2>3. i.mnemonic = j.mnemonic /\ i.operands = j.operands
    BY <1>2
  <2>4. MnemonicOf(c) = MnemonicOf(d) /\ Takes(c) = Takes(d)
    BY <2>1, <2>2, <2>3, RowFields
  <2> QED BY <2>1, <2>2, <2>4, OperandsTell
<1>3. \A t \in forms : \E i \in Instructions : f[i] = t
  OBVIOUS
<1> HIDE DEF f, forms
<1>4. Cardinality(forms) = Cardinality(Instructions)
  BY <1>1, <1>2, <1>3, OneRowPerOpcode, OneToOne
<1> QED BY <1>4 DEF forms

(***************************************************************************)
(* The set the assembler has bound and the CPU's table agree: an           *)
(* instruction for every opcode that has a handler and for no other, one   *)
(* only, of the size the CPU fetches, with the operands the handler takes; *)
(* and the operands tell the instructions of one mnemonic apart            *)
(* (km8-isa-v1.json, opcodes.c:628-691).                                   *)
(***************************************************************************)
THEOREM EncodingsAreTheTable == Spec => []EncodingsAgree
<1>1. {i.opcode : i \in Instructions} = Assigned
  BY InstructionsAreRows, RowFields DEF RowsOf
<1>2. ASSUME NEW i \in Instructions
      PROVE  Encoded(i) = Size(i.opcode) /\ i.operands = Takes(i.opcode)
  <2>1. PICK c \in Assigned : i = RowOf(c)
    BY InstructionsAreRows DEF RowsOf
  <2> QED BY <2>1, RowFields, RowsEncoded
<1>3. ASSUME TypeInv PROVE EncodingsAgree
  <2>1. instructionSet # {} => instructionSet = Instructions
    BY <1>3 DEF TypeInv
  <2> QED BY <1>1, <1>2, <2>1, OneRowPerOpcode, OneRowPerForm DEF EncodingsAgree
<1>4. KasmInv => EncodingsAgree
  BY <1>3 DEF KasmInv
<1> QED BY <1>4, Invariance, PTL
=============================================================================
