------------------------- MODULE InstructionEncoding -------------------------
(* Instructions become bytes (compiler/Assembler.cpp), and what is assembled must   *)
(* decode, by the rules of the processor, to the instruction that was written. A     *)
(* byte of a displacement or an immediate has ByteBits bits; opcodes and prefixes    *)
(* have eight.                                                                       *)
EXTENDS Integers, SequencesExt, FiniteSetsExt, TLC

CONSTANT ByteBits

Absent == -1
Low(number) == number % 8
Register(code, bits, high) ==
    [kind |-> "register", code |-> code, bits |-> bits, high |-> high, requiresRex |-> bits = 8 /\ ~high /\ code >= 4]
NoRegister == [kind |-> "none", code |-> 0, bits |-> 0, high |-> FALSE, requiresRex |-> FALSE]
Immediate(value) == [kind |-> "immediate", value |-> value]
Label == [kind |-> "label"]
NoMemory == [kind |-> "memory", base |-> Absent, index |-> Absent, scale |-> 1, displacement |-> 0, bits |-> 0]
Instruction(mnemonic, operands) == [mnemonic |-> mnemonic, operands |-> operands]
Refused == <<>>

Width(bits) == (bits \div 8) * ByteBits
Little(value, size) == [i \in 1..size |-> (value \div 2^((i - 1) * ByteBits)) % 2^ByteBits]
FitsSigned(value, bits) == bits = 64 \/ value \in -(2^(Width(bits) - 1))..2^(Width(bits) - 1) - 1
FitsValue(value, bits) == bits = 64 \/ value \in -(2^(Width(bits) - 1))..2^Width(bits) - 1
OperandBits(o) == IF o.kind \in {"register", "memory"} THEN o.bits ELSE 0
PairBits(a, b) ==
    LET left == OperandBits(a)  right == OperandBits(b)
    IN IF left # 0 /\ right # 0 /\ left # right THEN Absent ELSE IF left # 0 THEN left ELSE right

-----------------------------------------------------------------------------
(* ModRM, SIB, displacement and prefixes. *)
MakeRMFault(o, field) ==
    LET base == IF o.base = Absent THEN 5 ELSE Low(o.base)
        sib == o.index # Absent \/ o.base = Absent \/ base = 4
        mode == CASE o.base = Absent \/ (o.displacement = 0 /\ base # 5) -> 0
                  [] FitsSigned(o.displacement, 8) -> 1
                  [] OTHER -> 2
        scale == CHOOSE s \in 0..3 : 2^s = o.scale
        index == IF o.index = Absent THEN 4 ELSE Low(o.index)
    IN IF o.kind = "register"
       THEN [fits |-> TRUE, bytes |-> <<192 + Low(field) * 8 + Low(o.code)>>,
             b |-> o.code >= 8, x |-> FALSE, rex |-> o.requiresRex, high |-> o.high]
       ELSE [fits |-> o.base = Absent \/ FitsSigned(o.displacement, 32),
             bytes |-> <<mode * 64 + Low(field) * 8 + (IF sib THEN 4 ELSE base)>>
                       \o (IF sib THEN <<scale * 64 + index * 8 + base>> ELSE <<>>)
                       \o Little(o.displacement, CASE o.base = Absent -> 4 [] mode = 0 -> 0 [] mode = 1 -> 1 [] mode = 2 -> 4),
             b |-> o.index >= 8, x |-> o.base >= 8, rex |-> FALSE, high |-> FALSE]
MakeRM(o, field) ==
    LET base == IF o.base = Absent THEN 5 ELSE Low(o.base)
        sib == o.index # Absent \/ o.base = Absent \/ base = 4
        mode == CASE o.base = Absent \/ (o.displacement = 0 /\ base # 5) -> 0
                  [] FitsSigned(o.displacement, 8) -> 1
                  [] OTHER -> 2
        scale == CHOOSE s \in 0..3 : 2^s = o.scale
        index == IF o.index = Absent THEN 4 ELSE Low(o.index)
    IN IF o.kind = "register"
       THEN [fits |-> TRUE, bytes |-> <<192 + Low(field) * 8 + Low(o.code)>>,
             b |-> o.code >= 8, x |-> FALSE, rex |-> o.requiresRex, high |-> o.high]
       ELSE [fits |-> o.base = Absent \/ FitsSigned(o.displacement, 32),
             bytes |-> <<mode * 64 + Low(field) * 8 + (IF sib THEN 4 ELSE base)>>
                       \o (IF sib THEN <<scale * 64 + index * 8 + base>> ELSE <<>>)
                       \o Little(o.displacement, CASE o.base = Absent -> 4 [] mode = 0 -> 0 [] mode = 1 -> 1 [] mode = 2 -> 4),
             b |-> o.base >= 8, x |-> o.index >= 8, rex |-> FALSE, high |-> FALSE]
Rex(w, r, x, b) == 64 + (IF w THEN 8 ELSE 0) + (IF r THEN 4 ELSE 0) + (IF x THEN 2 ELSE 0) + (IF b THEN 1 ELSE 0)
EmitRM(opcodes, field, fieldRegister, o, bits) ==
    IF bits \notin {8, 16, 32, 64} \/ o.kind \notin {"register", "memory"} THEN Refused ELSE
    LET rm == MakeRM(o, field)
        rex == bits = 64 \/ field >= 8 \/ rm.x \/ rm.b \/ rm.rex \/ fieldRegister.requiresRex
    IN IF ~rm.fits \/ ((fieldRegister.high \/ rm.high) /\ rex) THEN Refused ELSE
       (IF bits = 16 THEN <<102>> ELSE <<>>) \o (IF rex THEN <<Rex(bits = 64, field >= 8, rm.x, rm.b)>> ELSE <<>>)
       \o opcodes \o rm.bytes
Followed(code, fits, bytes) == IF code = Refused \/ ~fits THEN Refused ELSE code \o bytes
EmitImmediate(code, value, bits) ==
    IF bits = 64 THEN Followed(code, FitsSigned(value, 32), Little(value, 4))
    ELSE Followed(code, FitsValue(value, bits), Little(value, bits \div 8))
Sized(bits, byte, wider) == <<IF bits = 8 THEN byte ELSE wider>>

-----------------------------------------------------------------------------
(* One operator for each group of mnemonics that the encoder tells apart. *)
Plain == ("nop" :> <<144>>) @@ ("ret" :> <<195>>) @@ ("leave" :> <<201>>) @@ ("syscall" :> <<15, 5>>) @@ ("int3" :> <<204>>)
    @@ ("ud2" :> <<15, 11>>) @@ ("hlt" :> <<244>>) @@ ("clc" :> <<248>>) @@ ("stc" :> <<249>>) @@ ("cmc" :> <<245>>)
    @@ ("cld" :> <<252>>) @@ ("std" :> <<253>>) @@ ("cli" :> <<250>>) @@ ("sti" :> <<251>>) @@ ("pushfq" :> <<156>>)
    @@ ("popfq" :> <<157>>) @@ ("cdq" :> <<153>>) @@ ("cqo" :> <<72, 153>>) @@ ("cpuid" :> <<15, 162>>) @@ ("rdtsc" :> <<15, 49>>)
EncodePlain(name, o) ==
    CASE name = "nop" /\ Len(o) = 1 ->
           IF OperandBits(o[1]) = 8 THEN Refused ELSE EmitRM(<<15, 31>>, 0, NoRegister, o[1], OperandBits(o[1]))
      [] name = "ret" /\ Len(o) = 1 ->
           IF o[1].kind # "immediate" THEN Refused ELSE EmitImmediate(<<194>>, o[1].value, 16)
      [] OTHER -> IF o # <<>> THEN Refused ELSE Plain[name]
EncodeInterrupt(o) == IF Len(o) # 1 \/ o[1].kind # "immediate" THEN Refused ELSE EmitImmediate(<<205>>, o[1].value, 8)

Conditions == [jo |-> 0, jno |-> 1, jb |-> 2, jc |-> 2, jnae |-> 2, jae |-> 3, jnb |-> 3, jnc |-> 3, je |-> 4, jz |-> 4,
               jne |-> 5, jnz |-> 5, jbe |-> 6, jna |-> 6, ja |-> 7, jnbe |-> 7, js |-> 8, jns |-> 9, jpe |-> 10, jp |-> 10,
               jpo |-> 11, jnp |-> 11, jl |-> 12, jnge |-> 12, jge |-> 13, jnl |-> 13, jle |-> 14, jng |-> 14, jg |-> 15, jnle |-> 15]
EncodeBranch(name, o) ==
    IF Len(o) # 1 THEN Refused
    ELSE IF o[1].kind = "label"
         THEN (CASE name = "jmp" -> <<233>> [] name = "call" -> <<232>> [] OTHER -> <<15, 128 + Conditions[name]>>) \o Little(0, 4)
    ELSE IF name \in DOMAIN Conditions \/ OperandBits(o[1]) # 64 THEN Refused
    ELSE EmitRM(<<255>>, IF name = "call" THEN 2 ELSE 4, NoRegister, o[1], 64)

EncodeStack(name, o) ==
    IF Len(o) # 1 THEN Refused
    ELSE CASE o[1].kind = "register" ->
                IF o[1].bits \notin {16, 64} THEN Refused
                ELSE (IF o[1].bits = 16 THEN <<102>> ELSE <<>>) \o (IF o[1].code >= 8 THEN <<65>> ELSE <<>>)
                     \o <<(IF name = "push" THEN 80 ELSE 88) + Low(o[1].code)>>
           [] o[1].kind = "immediate" /\ name = "push" -> Followed(<<104>>, FitsSigned(o[1].value, 32), Little(o[1].value, 4))
           [] OTHER -> IF OperandBits(o[1]) \notin {16, 64} THEN Refused
                       ELSE EmitRM(<<IF name = "push" THEN 255 ELSE 143>>, IF name = "push" THEN 6 ELSE 0, NoRegister,
                                   o[1], OperandBits(o[1]))

EncodeMoveImmediate(r, value) ==
    LET rex == r.bits = 64 \/ r.code >= 8 \/ r.requiresRex
        code == (IF r.bits = 16 THEN <<102>> ELSE <<>>) \o (IF rex THEN <<Rex(r.bits = 64, FALSE, FALSE, r.code >= 8)>> ELSE <<>>)
                \o <<(IF r.bits = 8 THEN 176 ELSE 184) + Low(r.code)>>
    IN IF r.high /\ rex THEN Refused ELSE Followed(code, FitsValue(value, r.bits), Little(value, r.bits \div 8))
EncodeMove(o) ==
    IF Len(o) # 2 THEN Refused
    ELSE LET a == o[1]  b == o[2]  bits == PairBits(a, b)
         IN CASE a.kind = "register" /\ b.kind = "immediate" -> EncodeMoveImmediate(a, b.value)
              [] a.kind = "register" -> EmitRM(Sized(bits, 138, 139), a.code, a, b, bits)
              [] a.kind = "memory" /\ b.kind = "register" -> EmitRM(Sized(bits, 136, 137), b.code, b, a, bits)
              [] a.kind = "memory" /\ b.kind = "immediate" ->
                   EmitImmediate(EmitRM(Sized(bits, 198, 199), 0, NoRegister, a, bits), b.value, bits)
              [] OTHER -> Refused
EncodeLea(o) ==
    IF Len(o) # 2 \/ o[1].kind # "register" \/ o[2].kind # "memory" \/ o[1].bits = 8 THEN Refused
    ELSE EmitRM(<<141>>, o[1].code, o[1], o[2], o[1].bits)
EncodeExtend(name, o) ==
    IF Len(o) # 2 \/ o[1].kind # "register" THEN Refused
    ELSE LET bits == OperandBits(o[2])
         IN IF name = "movsxd"
            THEN IF o[1].bits # 64 \/ bits # 32 THEN Refused ELSE EmitRM(<<99>>, o[1].code, o[1], o[2], 64)
            ELSE IF bits \notin {8, 16} \/ o[1].bits <= bits THEN Refused
            ELSE EmitRM(<<15, (IF name = "movzx" THEN 182 ELSE 190) + (IF bits = 8 THEN 0 ELSE 1)>>, o[1].code, o[1], o[2], o[1].bits)
EncodeSwap(o) ==
    IF Len(o) # 1 \/ o[1].kind # "register" \/ o[1].bits \notin {32, 64} THEN Refused
    ELSE (IF o[1].bits = 64 \/ o[1].code >= 8 THEN <<Rex(o[1].bits = 64, FALSE, FALSE, o[1].code >= 8)>> ELSE <<>>)
         \o <<15, 200 + Low(o[1].code)>>

Binary == [add |-> 0, or |-> 1, adc |-> 2, sbb |-> 3, and |-> 4, sub |-> 5, xor |-> 6, cmp |-> 7]
EncodeBinary(name, o) ==
    IF Len(o) # 2 THEN Refused
    ELSE LET a == o[1]  b == o[2]  bits == PairBits(a, b)  opcode == 8 * Binary[name]
         IN CASE b.kind = "immediate" -> EmitImmediate(EmitRM(Sized(bits, 128, 129), Binary[name], NoRegister, a, bits), b.value, bits)
              [] a.kind = "register" -> EmitRM(Sized(bits, opcode + 2, opcode + 3), a.code, a, b, bits)
              [] b.kind = "register" -> EmitRM(Sized(bits, opcode, opcode + 1), b.code, b, a, bits)
              [] OTHER -> Refused
EncodeTest(o) ==
    IF Len(o) # 2 THEN Refused
    ELSE LET a == o[1]  b == o[2]  bits == PairBits(a, b)
         IN CASE b.kind = "immediate" -> EmitImmediate(EmitRM(Sized(bits, 246, 247), 0, NoRegister, a, bits), b.value, bits)
              [] b.kind = "register" -> EmitRM(Sized(bits, 132, 133), b.code, b, a, bits)
              [] OTHER -> Refused
EncodeMultiply(o) ==
    LET source == IF Len(o) = 2 THEN o[1] ELSE o[2]  value == Last(o)
        bits == PairBits(o[1], IF value.kind = "immediate" THEN source ELSE o[2])
    IN CASE Len(o) = 1 -> EmitRM(Sized(OperandBits(o[1]), 246, 247), 5, NoRegister, o[1], OperandBits(o[1]))
         [] Len(o) \notin 1..3 -> Refused
         [] OTHER -> IF o[1].kind # "register" \/ bits = 8 THEN Refused
                     ELSE IF Len(o) = 2 /\ value.kind # "immediate" THEN EmitRM(<<15, 175>>, o[1].code, o[1], o[2], bits)
                     ELSE IF value.kind # "immediate" THEN Refused
                     ELSE EmitImmediate(EmitRM(<<105>>, o[1].code, o[1], source, bits), value.value, bits)
Unary == [mul |-> 4, div |-> 6, idiv |-> 7]
EncodeUnary(name, o) ==
    IF Len(o) # 1 THEN Refused
    ELSE EmitRM(Sized(OperandBits(o[1]), 246, 247), Unary[name], NoRegister, o[1], OperandBits(o[1]))
Steps == [inc |-> 0, dec |-> 1, not |-> 2, neg |-> 3]
EncodeStep(name, o) ==
    IF Len(o) # 1 THEN Refused
    ELSE EmitRM(IF Steps[name] < 2 THEN Sized(OperandBits(o[1]), 254, 255) ELSE Sized(OperandBits(o[1]), 246, 247),
                Steps[name], NoRegister, o[1], OperandBits(o[1]))
Shifts == [rol |-> 0, ror |-> 1, shl |-> 4, sal |-> 4, shr |-> 5, sar |-> 7]
EncodeShift(name, o) ==
    IF Len(o) \notin {1, 2} THEN Refused
    ELSE LET bits == OperandBits(o[1])
             Shift(byte, wider) == EmitRM(Sized(bits, byte, wider), Shifts[name], NoRegister, o[1], bits)
         IN CASE Len(o) = 1 -> Shift(208, 209)
              [] Len(o) = 2 /\ o[2].kind = "immediate" -> EmitImmediate(Shift(192, 193), o[2].value, 8)
              [] Len(o) = 2 /\ o[2] = Register(1, 8, FALSE) -> Shift(210, 211)
              [] OTHER -> Refused
EncodeExchange(o) ==
    IF Len(o) # 2 THEN Refused
    ELSE LET a == o[1]  b == o[2]  bits == PairBits(a, b)
         IN CASE b.kind = "register" -> EmitRM(Sized(bits, 134, 135), b.code, b, a, bits)
              [] a.kind = "register" /\ b.kind = "memory" -> EmitRM(Sized(bits, 134, 135), a.code, a, b, bits)
              [] OTHER -> Refused

Encode(i) ==
    LET name == i.mnemonic  o == i.operands
    IN CASE name \in DOMAIN Plain -> EncodePlain(name, o)
         [] name = "int" -> EncodeInterrupt(o)
         [] name \in {"jmp", "call"} \cup DOMAIN Conditions -> EncodeBranch(name, o)
         [] name \in {"push", "pop"} -> EncodeStack(name, o)
         [] name = "mov" -> EncodeMove(o)
         [] name = "lea" -> EncodeLea(o)
         [] name \in {"movzx", "movsx", "movsxd"} -> EncodeExtend(name, o)
         [] name = "bswap" -> EncodeSwap(o)
         [] name \in DOMAIN Binary -> EncodeBinary(name, o)
         [] name = "test" -> EncodeTest(o)
         [] name = "imul" -> EncodeMultiply(o)
         [] name \in DOMAIN Unary -> EncodeUnary(name, o)
         [] name \in DOMAIN Steps -> EncodeStep(name, o)
         [] name \in DOMAIN Shifts -> EncodeShift(name, o)
         [] name = "xchg" -> EncodeExchange(o)
Mnemonics == DOMAIN Plain \cup {"int", "jmp", "call", "push", "pop", "mov", "lea", "movzx", "movsx", "movsxd", "bswap", "test", "imul", "xchg"}
             \cup DOMAIN Conditions \cup DOMAIN Binary \cup DOMAIN Unary \cup DOMAIN Steps \cup DOMAIN Shifts

-----------------------------------------------------------------------------
(* What a processor reads: prefixes, opcode, ModRM and SIB, displacement, immediate. *)
(* A memory operand is the linear form of its address.                              *)
Modulus == 2^Width(64)
Signed(bytes) ==
    LET value == FoldLeftDomain(LAMBDA sum, i : sum + bytes[i] * 2^((i - 1) * ByteBits), 0, bytes)
    IN IF bytes # <<>> /\ value >= 2^(Len(bytes) * ByteBits - 1) THEN value - 2^(Len(bytes) * ByteBits) ELSE value
RegisterRead(number, bits, rex) ==
    [kind |-> "register", code |-> number, bits |-> bits, high |-> bits = 8 /\ rex = 0 /\ number \in 4..7]
MemoryRead(base, index, scale, displacement, bits) ==
    [kind |-> "memory", bits |-> bits, displacement |-> displacement % Modulus,
     form |-> [r \in 0..15 |-> (IF r = base THEN 1 ELSE 0) + (IF r = index THEN scale ELSE 0)]]
ImmediateRead(value, bits) == [kind |-> "immediate", value |-> value % 2^Width(bits)]
LabelRead(relative) == [kind |-> "label", relative |-> relative]
Does(mnemonic, args) == [mnemonic |-> mnemonic, args |-> args]

Bit(rex, place) == (rex \div place) % 2
AddressRead(code, rex, bits, mode, sib, low) ==
    LET s == code[2]
        baseless == mode = 0 /\ (IF sib THEN Low(s) ELSE low) = 5
        index == IF sib THEN Low(s \div 8) + 8 * Bit(rex, 2) ELSE 4
        size == IF baseless THEN 4 ELSE IF mode = 1 THEN 1 ELSE IF mode = 2 THEN 4 ELSE 0
        at == IF sib THEN 3 ELSE 2
    IN [operand |-> MemoryRead(IF baseless THEN Absent ELSE (IF sib THEN Low(s) ELSE low) + 8 * Bit(rex, 1),
                               IF index = 4 THEN Absent ELSE index, IF sib THEN 2^(s \div 64) ELSE 1,
                               Signed(SubSeq(code, at, at + size - 1)), bits),
        relative |-> baseless /\ ~sib, rest |-> SubSeq(code, at + size, Len(code))]
RmRead(code, rex, bits) ==
    IF code[1] >= 192
    THEN [operand |-> RegisterRead(Low(code[1]) + 8 * Bit(rex, 1), bits, rex), relative |-> FALSE, rest |-> Tail(code)]
    ELSE AddressRead(code, rex, bits, code[1] \div 64, Low(code[1]) = 4, Low(code[1]))
FieldRead(code, rex) == Low(code[1] \div 8) + 8 * Bit(rex, 4)

Group(names, code) == names[Low(code[1] \div 8) + 1]
BinaryNames == <<"add", "or", "adc", "sbb", "and", "sub", "xor", "cmp">>
UnaryNames == <<"test", "test", "not", "neg", "mul", "imul", "div", "idiv">>
StepNames == <<"inc", "dec", "call", "call", "jmp", "jmp", "push", "push">>
ShiftNames == <<"rol", "ror", "rcl", "rcr", "shl", "shr", "sal", "sar">>
BranchNames == <<"jo", "jno", "jb", "jae", "je", "jne", "jbe", "ja", "js", "jns", "jp", "jnp", "jl", "jge", "jle", "jg">>
PlainNames == (144 :> "nop") @@ (195 :> "ret") @@ (201 :> "leave") @@ (261 :> "syscall") @@ (204 :> "int3") @@ (267 :> "ud2")
    @@ (244 :> "hlt") @@ (248 :> "clc") @@ (249 :> "stc") @@ (245 :> "cmc") @@ (252 :> "cld") @@ (253 :> "std")
    @@ (250 :> "cli") @@ (251 :> "sti") @@ (156 :> "pushfq") @@ (157 :> "popfq") @@ (418 :> "cpuid") @@ (305 :> "rdtsc")
ImmediateAt(code, bits) == ImmediateRead(Signed(SubSeq(code, 1, IF bits = 64 THEN 4 ELSE bits \div 8)), bits)

(* With a ModRM byte: what is read through it, its field, and what follows.          *)
ModRead(op, bits, rex, code, rm) ==
    LET field == RegisterRead(FieldRead(code, rex), bits, rex)
        three == Low(code[1] \div 8)
    IN CASE op < 64 -> Does(BinaryNames[op \div 8 + 1], IF op % 4 < 2 THEN <<rm.operand, field>> ELSE <<field, rm.operand>>)
         [] op \in {128, 129} -> Does(Group(BinaryNames, code), <<rm.operand, ImmediateAt(rm.rest, bits)>>)
         [] op \in {132, 133} -> Does("test", <<rm.operand, field>>)
         [] op \in {134, 135} -> Does("xchg", {rm.operand, field})
         [] op \in {136, 137} -> Does("mov", <<rm.operand, field>>)
         [] op \in {138, 139} -> Does("mov", <<field, rm.operand>>)
         [] op = 141 -> Does("lea", <<field, rm.operand>>)
         [] op = 143 -> Does("pop", <<rm.operand>>)
         [] op = 99 -> Does("movsxd", <<field, rm.operand>>)
         [] op = 105 -> Does("imul", <<field, rm.operand, ImmediateAt(rm.rest, bits)>>)
         [] op = 431 -> Does("imul", <<field, rm.operand>>)
         [] op \in {438, 439} -> Does("movzx", <<field, rm.operand>>)
         [] op \in {446, 447} -> Does("movsx", <<field, rm.operand>>)
         [] op = 287 -> Does("nop", <<rm.operand>>)
         [] op \in {192, 193} -> Does(Group(ShiftNames, code), <<rm.operand, ImmediateAt(rm.rest, 8)>>)
         [] op \in {208, 209} -> Does(Group(ShiftNames, code), <<rm.operand, ImmediateRead(1, 8)>>)
         [] op \in {210, 211} -> Does(Group(ShiftNames, code), <<rm.operand, RegisterRead(1, 8, 0)>>)
         [] op \in {198, 199} -> Does("mov", <<rm.operand, ImmediateAt(rm.rest, bits)>>)
         [] op \in {246, 247} -> Does(Group(UnaryNames, code), IF three < 2 THEN <<rm.operand, ImmediateAt(rm.rest, bits)>> ELSE <<rm.operand>>)
         [] op \in {254, 255} -> Does(Group(StepNames, code), <<rm.operand>>)
HasMod(op) == \/ op < 64 /\ Low(op) < 4
              \/ op \in {99, 105, 141, 143, 287, 431, 438, 439, 446, 447} \cup 128..139 \cup {192, 193, 198, 199} \cup 208..211
              \/ op \in {246, 247, 254, 255}
ByteForm(op) == op % 2 = 0 /\ op \notin {438, 446}
StackWide(op, code, bits) ==
    IF bits = 32 /\ (op = 143 \/ (op = 255 /\ Low(code[1] \div 8) \in 2..6)) THEN 64 ELSE bits
(* The field of movzx, movsx and movsxd is wider than what is read.                  *)
ReadBits(op, bits) == CASE op \in {438, 446} -> 8 [] op \in {439, 447} -> 16 [] op = 99 -> 32 [] OTHER -> bits
OpcodeRead(op, bits, rex, code) ==
    LET number == Low(op) + 8 * Bit(rex, 1)
    IN CASE HasMod(op) ->
              LET wide == IF ByteForm(op) THEN 8 ELSE StackWide(op, code, bits)
                  rm == RmRead(code, rex, ReadBits(op, wide))
              IN IF rm.relative THEN Does("relative", <<>>) ELSE ModRead(op, wide, rex, code, rm)
         [] op \in DOMAIN PlainNames -> Does(PlainNames[op], <<>>)
         [] op = 153 -> Does(IF bits = 64 THEN "cqo" ELSE "cdq", <<>>)
         [] op \in 80..95 -> Does(IF op < 88 THEN "push" ELSE "pop", <<RegisterRead(number, IF bits = 16 THEN 16 ELSE 64, rex)>>)
         [] op = 104 -> Does("push", <<ImmediateAt(code, 64)>>)
         [] op \in 176..183 -> Does("mov", <<RegisterRead(number, 8, rex), ImmediateAt(code, 8)>>)
         [] op \in 184..191 ->
              Does("mov", <<RegisterRead(number, bits, rex), ImmediateRead(Signed(SubSeq(code, 1, bits \div 8)), bits)>>)
         [] op = 194 -> Does("ret", <<ImmediateAt(code, 16)>>)
         [] op = 205 -> Does("int", <<ImmediateAt(code, 8)>>)
         [] op \in {232, 233} -> Does(IF op = 232 THEN "call" ELSE "jmp", <<LabelRead(Signed(SubSeq(code, 1, 4)))>>)
         [] op \in 384..399 -> Does(BranchNames[op - 383], <<LabelRead(Signed(SubSeq(code, 1, 4)))>>)
         [] op \in 456..463 -> Does("bswap", <<RegisterRead(number, bits, rex)>>)
         [] OTHER -> Does("unknown", <<>>)
AfterRex(code, rex, narrow) ==
    LET two == code[1] = 15
    IN OpcodeRead(IF two THEN 256 + code[2] ELSE code[1], IF rex >= 72 THEN 64 ELSE IF narrow THEN 16 ELSE 32, rex,
                  SubSeq(code, IF two THEN 3 ELSE 2, Len(code)))
AfterPrefix(code, narrow) ==
    IF code[1] \in 64..79 THEN AfterRex(Tail(code), code[1], narrow) ELSE AfterRex(code, 0, narrow)
Decode(code) == IF code[1] = 102 THEN AfterPrefix(Tail(code), TRUE) ELSE AfterPrefix(code, FALSE)

-----------------------------------------------------------------------------
(* What is written, in the same terms.                                              *)
Written(o, bits) ==
    CASE o.kind = "register" -> [kind |-> "register", code |-> o.code, bits |-> o.bits, high |-> o.high]
      [] o.kind = "memory" -> MemoryRead(o.base, o.index, o.scale, o.displacement, bits)
      [] o.kind = "immediate" -> ImmediateRead(o.value, bits)
      [] o.kind = "label" -> LabelRead(0)
OperationBits(i) ==
    LET sizes == { OperandBits(i.operands[p]) : p \in DOMAIN i.operands } IN IF sizes \subseteq {0} THEN 0 ELSE CHOOSE b \in sizes \ {0} : TRUE
ArgumentBits(i, p) ==
    CASE i.mnemonic = "ret" -> 16
      [] i.mnemonic = "int" \/ (i.mnemonic \in DOMAIN Shifts /\ p = 2) -> 8
      [] i.mnemonic = "push" /\ i.operands[p].kind = "immediate" -> 64
      [] i.mnemonic \in {"movzx", "movsx", "movsxd"} \cup DOMAIN Shifts -> OperandBits(i.operands[p])
      [] i.mnemonic = "lea" -> i.operands[1].bits
      [] OTHER -> OperationBits(i)
Meaning(i) ==
    LET args == [p \in DOMAIN i.operands |-> Written(i.operands[p], ArgumentBits(i, p))]
    IN CASE i.mnemonic \in DOMAIN Conditions -> Does(BranchNames[Conditions[i.mnemonic] + 1], args)
         [] i.mnemonic = "xchg" -> Does("xchg", { args[p] : p \in DOMAIN args })
         [] i.mnemonic = "imul" /\ Len(args) = 2 /\ args[2].kind = "immediate" -> Does("imul", <<args[1], args[1], args[2]>>)
         [] i.mnemonic \in DOMAIN Shifts ->
              Does(IF i.mnemonic = "sal" THEN "shl" ELSE i.mnemonic,
                   IF Len(args) = 1 THEN Append(args, ImmediateRead(1, 8)) ELSE args)
         [] OTHER -> Does(i.mnemonic, args)

(* An address of an index and no base keeps the low four bytes of its displacement.  *)
Truncated(i) == \E p \in DOMAIN i.operands :
    LET o == i.operands[p] IN o.kind = "memory" /\ o.base = Absent /\ ~FitsSigned(o.displacement, 32)

(* What is assembled is read as what was written.                                    *)
AssemblesWhatIsWritten(i) ==
    LET code == Encode(i) IN code = Refused \/ Truncated(i) \/ Decode(code) = Meaning(i)
=============================================================================
