---------------------------- MODULE OperandParser -----------------------------
(* Operands of an instruction as the phrase actions read them, a token at a time   *)
(* and one dictionary for each state, and as the compiler's own assembler reads a  *)
(* text it was given whole. A word is a register, a number, a size or a label; a    *)
(* blank follows a size, and words are kept apart by something that is not a word. *)
EXTENDS InstructionEncoding

CONSTANTS RegisterNames,   \* register words and what they are
          Numbers,         \* number words and their magnitudes, below 2^Width(64)
          Negatives,       \* negative number words: one word outside brackets, two inside
          Labels,
          MaxTokens        \* bound: words and signs on a line

VARIABLES parser, typed    \* the state of the phrase actions, and what was typed so far

Sizes == [byte |-> 8, word |-> 16, dword |-> 32, qword |-> 64]
Operators == {"+", "-", "*", "]"}
Smallest == -(2^(Width(64) - 1))
Largest == 2^(Width(64) - 1) - 1
Wrapped(magnitude) == IF magnitude > Largest THEN magnitude - Modulus ELSE magnitude

-----------------------------------------------------------------------------
(* The phrase actions. *)
Empty == [kind |-> "empty"]
OpenMemory(bits) == [kind |-> "memory", base |-> Absent, index |-> Absent, scale |-> 1, displacement |-> 0, bits |-> bits,
                     pending |-> NoRegister, termSign |-> 1, signExplicit |-> FALSE, hasTerm |-> FALSE]
Opened == [state |-> "operands", operand |-> Empty, required |-> FALSE, operands |-> <<>>]
Failed == [state |-> "failed", operand |-> Empty, required |-> FALSE, operands |-> <<>>]
Done(s) == [s EXCEPT !.state = "emitted"]
To(s, state) == [s EXCEPT !.state = state]

Finish(s, operand) == [Opened EXCEPT !.state = "complete", !.operands = Append(s.operands, operand)]
Plainly(m) == [kind |-> "memory", base |-> m.base, index |-> m.index, scale |-> m.scale, displacement |-> m.displacement, bits |-> m.bits]
ValidateRegister(r) == r.bits = 64 /\ ~r.high
TermDone(m) == [m EXCEPT !.pending = NoRegister, !.hasTerm = TRUE, !.termSign = 1, !.signExplicit = FALSE]
Committable(m, scaled) ==
    /\ m.pending # NoRegister /\ m.termSign > 0
    /\ scaled => m.index = Absent /\ Low(m.pending.code) # 4
    /\ ~scaled /\ m.base # Absent => m.index = Absent /\ Low(m.pending.code) # 4
CommitMemoryRegister(m, scaled, scale) ==
    TermDone(IF scaled THEN [m EXCEPT !.index = m.pending.code, !.scale = scale]
             ELSE IF m.base = Absent THEN [m EXCEPT !.base = m.pending.code]
             ELSE [m EXCEPT !.index = m.pending.code])
AddDisplacement(s, value) ==
    LET m == s.operand  sum == m.displacement + m.termSign * value
    IN IF sum \notin Smallest..Largest THEN Failed
       ELSE [s EXCEPT !.operand = TermDone([m EXCEPT !.displacement = sum]), !.state = "memory term"]

Register_(s, r) ==
    CASE s.state = "operands" -> Finish(s, r)
      [] s.state = "memory expect" /\ ValidateRegister(r) -> [s EXCEPT !.operand.pending = r, !.state = "memory register"]
      [] OTHER -> Failed
Size(s, bits) == IF s.state = "operands" THEN [s EXCEPT !.operand = OpenMemory(bits), !.state = "size whitespace"] ELSE Failed
Whitespace(s) == IF s.state = "size whitespace" THEN To(s, "size bracket") ELSE s
MemoryBegin(s) ==
    CASE s.state = "operands" -> [s EXCEPT !.operand = OpenMemory(0), !.state = "memory expect"]
      [] s.state = "size bracket" -> To(s, "memory expect")
      [] OTHER -> Failed
MemoryOperator(s, operation) ==
    LET m == s.operand
        Signed_(memory) == [s EXCEPT !.operand = [memory EXCEPT !.termSign = IF operation = "-" THEN -1 ELSE 1, !.signExplicit = TRUE],
                                     !.state = "memory expect"]
    IN CASE operation = "*" /\ s.state = "memory register" -> To(s, "memory scale")
         [] operation \in {"+", "-"} /\ s.state = "memory expect" -> IF m.signExplicit THEN Failed ELSE Signed_(m)
         [] operation \in {"+", "-"} /\ s.state = "memory register" ->
              IF Committable(m, FALSE) THEN Signed_(CommitMemoryRegister(m, FALSE, 1)) ELSE Failed
         [] operation \in {"+", "-"} /\ s.state = "memory term" -> Signed_(m)
         [] OTHER -> Failed
MemoryEnd(s) ==
    LET Ended(m) == IF ~m.hasTerm \/ (m.base = Absent /\ m.index = Absent /\ ~FitsSigned(m.displacement, 32))
                    THEN Failed ELSE Finish(s, Plainly(m))
    IN CASE s.state = "memory term" -> Ended(s.operand)
         [] s.state = "memory register" /\ Committable(s.operand, FALSE) -> Ended(CommitMemoryRegister(s.operand, FALSE, 1))
         [] OTHER -> Failed
SeparatorFault(s) == IF s.state = "complete" THEN To(s, "operands") ELSE Failed
Separator(s) == IF s.state = "complete" THEN [To(s, "operands") EXCEPT !.required = TRUE] ELSE Failed
(* A separator of statements or a comment ends the instruction. *)
EndLine(s) ==
    IF (s.state = "operands" /\ s.required) \/ s.state \notin {"operands", "complete"} THEN Failed ELSE Done(s)
DynamicNumber(s, magnitude) ==
    CASE s.state = "operands" -> Finish(s, Immediate(Wrapped(magnitude)))
      [] s.state = "memory expect" -> AddDisplacement(s, Wrapped(magnitude))
      [] s.state = "memory scale" ->
           IF magnitude \in {1, 2, 4, 8} /\ Committable(s.operand, TRUE)
           THEN [s EXCEPT !.operand = CommitMemoryRegister(s.operand, TRUE, magnitude), !.state = "memory term"] ELSE Failed
      [] OTHER -> Failed
DynamicNegative(s, magnitude) ==
    IF s.state = "operands" /\ -magnitude >= Smallest THEN Finish(s, Immediate(-magnitude)) ELSE Failed
DynamicLabel(s) == IF s.state = "operands" THEN Finish(s, Label) ELSE Failed
Step(s, token) ==
    CASE token = "\n" -> EndLine(s)
      [] token = " " -> Whitespace(s)
      [] token = "," -> Separator(s)
      [] token = "[" -> MemoryBegin(s)
      [] token = "]" -> MemoryEnd(s)
      [] token \in {"+", "-", "*"} -> MemoryOperator(s, token)
      [] token \in DOMAIN RegisterNames -> Register_(s, RegisterNames[token])
      [] token \in DOMAIN Sizes -> Size(s, Sizes[token])
      [] token \in DOMAIN Numbers -> DynamicNumber(s, Numbers[token])
      [] token \in DOMAIN Negatives -> DynamicNegative(s, Negatives[token])
      [] token \in Labels -> DynamicLabel(s)

-----------------------------------------------------------------------------
(* The same text read whole. *)
Trimmed(tokens) == SelectSeq(tokens, LAMBDA token : token # " ")
SplitOperands(tokens) ==
    FoldLeft(LAMBDA split, token :
               CASE token = "[" -> [split EXCEPT !.brackets = @ + 1, !.operand = Append(@, token)]
                 [] token = "]" -> [split EXCEPT !.brackets = @ - 1, !.operand = Append(@, token), !.ok = @ /\ split.brackets > 0]
                 [] token = "," /\ split.brackets = 0 ->
                      [split EXCEPT !.done = Append(@, split.operand), !.operand = <<>>, !.ok = @ /\ Trimmed(split.operand) # <<>>]
                 [] OTHER -> [split EXCEPT !.operand = Append(@, token)],
             [brackets |-> 0, operand |-> <<>>, done |-> <<>>, ok |-> TRUE], tokens)
Unreadable == [kind |-> "unreadable"]
Terms(expression) ==
    FoldLeftDomain(LAMBDA split, i :
               IF expression[i] \in {"+", "-"} /\ i = 1 THEN [split EXCEPT !.sign = IF expression[i] = "-" THEN -1 ELSE 1]
               ELSE IF expression[i] \in {"+", "-"}
               THEN [done |-> Append(split.done, [sign |-> split.sign, term |-> split.term]), term |-> <<>>,
                     sign |-> IF expression[i] = "-" THEN -1 ELSE 1]
               ELSE [split EXCEPT !.term = Append(@, expression[i])],
             [done |-> <<>>, term |-> <<>>, sign |-> 1], expression)
AddRegister(memory, r, sign, term) ==
    LET scale == IF Len(term) = 3 /\ term[3] \in DOMAIN Numbers THEN Numbers[term[3]] ELSE 0
        index == CASE Len(term) > 1 -> IF term[2] = "*" /\ scale \in {1, 2, 4, 8} /\ memory.index = Absent THEN "scaled" ELSE "refused"
                   [] memory.base = Absent -> "base"
                   [] memory.index = Absent /\ Low(r.code) # 4 -> "index"
                   [] OTHER -> "refused"
    IN IF ~ValidateRegister(r) \/ sign < 0 THEN Unreadable
       ELSE CASE index = "scaled" -> [memory EXCEPT !.index = r.code, !.scale = scale]
              [] index = "base" -> [memory EXCEPT !.base = r.code]
              [] index = "index" -> [memory EXCEPT !.index = r.code]
              [] OTHER -> Unreadable
(* Only the overflow by a positive literal is looked for. *)
AddNumber(memory, value, sign) ==
    LET sum == memory.displacement + sign * value
    IN IF value > 0 /\ sum \notin Smallest..Largest THEN Unreadable ELSE [memory EXCEPT !.displacement = Wrapped(sum % Modulus)]
AddTerm(memory, sign, term) ==
    CASE memory = Unreadable \/ term = <<>> -> Unreadable
      [] term[1] \in DOMAIN RegisterNames -> AddRegister(memory, RegisterNames[term[1]], sign, term)
      [] term[1] \in DOMAIN Numbers /\ Len(term) = 1 -> AddNumber(memory, Wrapped(Numbers[term[1]]), sign)
      [] OTHER -> Unreadable
ParseMemory(expression, bits) ==
    LET split == Terms(expression)
        terms == Append(split.done, [sign |-> split.sign, term |-> split.term])
        memory == FoldLeft(LAMBDA m, t : AddTerm(m, t.sign, t.term),
                           [kind |-> "memory", base |-> Absent, index |-> Absent, scale |-> 1, displacement |-> 0, bits |-> bits], terms)
    IN IF memory = Unreadable \/ expression = <<>> THEN Unreadable
       ELSE IF (memory.base = Absent /\ memory.index = Absent /\ ~FitsSigned(memory.displacement, 32))
               \/ (memory.index # Absent /\ Low(memory.index) = 4) THEN Unreadable
       ELSE memory
ParseOperand(text) ==
    LET tokens == Trimmed(text)
        sized == tokens[1] \in DOMAIN Sizes /\ Len(tokens) > 1
        rest == IF sized THEN Tail(tokens) ELSE tokens
    IN CASE rest[1] = "[" /\ Last(rest) = "]" /\ Len(rest) > 1 ->
              ParseMemory(SubSeq(rest, 2, Len(rest) - 1), IF sized THEN Sizes[tokens[1]] ELSE 0)
         [] sized \/ Len(rest) # 1 -> Unreadable
         [] rest[1] \in DOMAIN RegisterNames -> RegisterNames[rest[1]]
         [] rest[1] \in DOMAIN Numbers -> Immediate(Wrapped(Numbers[rest[1]]))
         [] rest[1] \in DOMAIN Negatives -> IF -Negatives[rest[1]] < Smallest THEN Unreadable ELSE Immediate(-Negatives[rest[1]])
         [] rest[1] \in Labels \cup DOMAIN Sizes -> Label
         [] OTHER -> Unreadable
EncodeText(tokens) ==
    LET split == SplitOperands(tokens)
        texts == IF Trimmed(tokens) = <<>> THEN <<>> ELSE Append(split.done, split.operand)
    IN IF ~split.ok \/ split.brackets # 0 \/ (\E i \in DOMAIN texts : Trimmed(texts[i]) = <<>>) THEN <<Unreadable>>
       ELSE [i \in DOMAIN texts |-> ParseOperand(texts[i])]

-----------------------------------------------------------------------------
(* A line is typed a token at a time. Numbers are not offered negative where they are  *)
(* two words, sizes but one, and one blank.                                          *)
Words == DOMAIN RegisterNames \cup DOMAIN Numbers \cup DOMAIN Negatives \cup Labels \cup {"qword"}
Tokens == Words \cup Operators \cup {"[", ",", " ", "\n"}
Init == parser = Opened /\ typed = <<>>
Type(token) ==
    /\ parser.state \notin {"failed", "emitted"} /\ Len(typed) < MaxTokens
    /\ parser.state = "size whitespace" => token = " "
    /\ token = " " => typed # <<>> /\ " " \notin ToSet(typed)
    /\ ~(token \in Words /\ typed # <<>> /\ Last(typed) \in Words)
    /\ token \in DOMAIN Negatives => parser.state \notin {"memory expect", "memory register", "memory term", "memory scale"}
    /\ typed' = Append(typed, token) /\ parser' = Step(parser, token)
Next == \E token \in Tokens : Type(token)

-----------------------------------------------------------------------------
(* A label that is called like a size may not be followed by a blank here.            *)
LoneSize == \E i \in 1..Len(typed) - 2 : typed[i] \in DOMAIN Sizes /\ typed[i + 1] = " " /\ typed[i + 2] \in {",", "\n"}
(* A line that is accepted means what the text means, and no other line is accepted;  *)
(* and an address is the sum that was written between the brackets.                 *)
AddressWritten(tokens) ==
    LET Coefficient(i) == IF i < Len(tokens) /\ tokens[i + 1] = "*" THEN Numbers[tokens[i + 2]] ELSE 1
        Sign(i) == IF i > 1 /\ tokens[i - 1] = "-" THEN -1 ELSE 1
        Count(r) == FoldLeftDomain(LAMBDA sum, i :
            IF tokens[i] \in DOMAIN RegisterNames /\ RegisterNames[tokens[i]].code = r THEN sum + Coefficient(i) ELSE sum, 0, tokens)
    IN [form |-> [r \in 0..15 |-> Count(r)],
        displacement |-> FoldLeftDomain(LAMBDA sum, i :
            IF tokens[i] \in DOMAIN Numbers /\ (i = 1 \/ tokens[i - 1] # "*") THEN sum + Sign(i) * Numbers[tokens[i]] ELSE sum, 0, tokens) % Modulus]
OperandsMean ==
    /\ typed # <<>> /\ Last(typed) = "\n" =>
         LET operands == EncodeText(Front(typed))
         IN IF parser.state = "emitted" THEN operands = parser.operands ELSE Unreadable \in ToSet(operands) \/ LoneSize
    /\ parser.state = "complete" /\ Last(typed) = "]" =>
         LET start == Max({ i \in DOMAIN typed : typed[i] = "[" })
             address == AddressWritten(Trimmed(SubSeq(typed, start + 1, Len(typed) - 1)))
             operand == Last(parser.operands)
             read == MemoryRead(operand.base, operand.index, operand.scale, operand.displacement, operand.bits)
         IN read.form = address.form /\ read.displacement = address.displacement
=============================================================================
