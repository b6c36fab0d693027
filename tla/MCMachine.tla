------------------------------ MODULE MCMachine ------------------------------
(* Machine code: a debugged target whose leader starts one thread, both looping      *)
(* through a function; instructions of every mnemonic; lines of operands typed a token *)
(* at a time; and blocks of the assembler. `part` says which one a behaviour is of; the *)
(* variables of the others stand still.                                              *)
EXTENDS NativeDebugger

CONSTANTS main, worker, ByteBits, Labels, MaxTokens,
          LabelNames, Reserved, EntryName, Interpreted, Native, References, Kinds, Switches, Capacity, MaxStatements

VARIABLES part, body, parser, typed, lex, session, code, extent, custom, kind, written, result, stale
operands == <<parser, typed>>
blocks == <<lex, session, code, extent, custom, kind, written, result, stale>>

Op(op, to) == [op |-> op, to |-> to]
MCProgram == (2 :> Op("plain", {4})) @@ (4 :> Op("clone", {})) @@ (6 :> Op("call", {10}))
             @@ (8 :> Op("plain", {6, 12})) @@ (10 :> Op("return", {})) @@ (12 :> Op("exit", {}))
MCPoints == (4 :> [line |-> 1, function |-> "main"]) @@ (6 :> [line |-> 2, function |-> "main"])
            @@ (10 :> [line |-> 4, function |-> "callee"]) @@ (12 :> [line |-> 4, function |-> "main"])
MCConfigurable == {[kind |-> "function", function |-> "main"], [kind |-> "line", line |-> 3]}

-----------------------------------------------------------------------------
Register(number, bits, high) ==
    [kind |-> "register", code |-> number, bits |-> bits, high |-> high, requiresRex |-> bits = 8 /\ ~high /\ number >= 4]
A == INSTANCE OperandParser WITH
       RegisterNames <- [rax |-> Register(0, 64, FALSE), r12 |-> Register(12, 64, FALSE), ecx |-> Register(1, 32, FALSE)],
       Numbers <- ("4" :> 4) @@ ("8388607" :> 2^23 - 1) @@ ("8388608" :> 2^23),
       Negatives <- ("-8388608" :> 2^23) @@ ("-8388609" :> 2^23 + 1)

(* Operands at the edges of the encodings: registers that need a prefix, a SIB byte or  *)
(* forbid a prefix, addresses without a base, numbers around the size of a byte.       *)
Registers == { Register(0, 8, FALSE), Register(5, 8, FALSE), Register(4, 8, TRUE), Register(7, 8, TRUE), Register(9, 8, FALSE),
               Register(1, 8, FALSE), Register(0, 16, FALSE), Register(12, 16, FALSE), Register(1, 32, FALSE), Register(15, 32, FALSE),
               Register(0, 64, FALSE), Register(4, 64, FALSE), Register(13, 64, FALSE) }
Memory(base, index, scale, displacement, bits) ==
    [kind |-> "memory", base |-> base, index |-> index, scale |-> scale, displacement |-> displacement, bits |-> bits]
Memories == { Memory(3, -1, 1, 0, 0), Memory(5, -1, 1, 0, 32), Memory(4, -1, 1, 3, 8), Memory(12, -1, 1, 4, 16), Memory(13, -1, 1, 0, 64),
              Memory(13, 13, 4, -5, 0), Memory(5, 9, 8, 0, 64), Memory(0, 5, 2, 100, 32), Memory(-1, 1, 4, -100, 64), Memory(-1, -1, 1, 9, 0),
              Memory(-1, 8, 1, 5000, 16), Memory(1, -1, 1, 5000, 64) }
Immediates == { [kind |-> "immediate", value |-> v] : v \in {0, 1, -1, 5, 7, -5, 60, 3000, 5000, -2048} }
Operands == Registers \cup Memories \cup Immediates \cup {[kind |-> "label"]}
Lists(mnemonic) ==
    {<<>>} \cup { <<a>> : a \in Operands } \cup { <<a, b>> : a, b \in Operands }
    \cup (IF mnemonic = "imul" THEN { <<a, b, c>> : a, b \in Registers \cup Memories, c \in Immediates } ELSE {})

-----------------------------------------------------------------------------
S == INSTANCE Assembly

-----------------------------------------------------------------------------
(* A target that is not launched. *)
DebuggerIdle == Init /\ configured = {}
OperandsIdle == parser = <<>> /\ typed = <<>>
MachineInit ==
    /\ S!Init
    /\ \/ part = "debugger" /\ Init /\ body = "" /\ OperandsIdle
       \/ DebuggerIdle /\ \/ part = "encoding" /\ body \in A!Mnemonics /\ OperandsIdle
                          \/ part = "operands" /\ body = "" /\ A!Init
                          \/ part = "assembly" /\ body = "" /\ OperandsIdle
MachineNext ==
    /\ UNCHANGED <<part, body>>
    /\ \/ part = "debugger" /\ Next /\ UNCHANGED <<operands, blocks>>
       \/ part = "operands" /\ A!Next /\ UNCHANGED <<vars, blocks>>
       \/ part = "assembly" /\ S!Next /\ UNCHANGED <<vars, operands>>
MachineSpec ==
    /\ MachineInit /\ [][MachineNext]_<<vars, part, body, operands, blocks>>
    /\ WF_vars(part = "debugger" /\ Control) /\ \A t \in Threads : WF_vars(part = "debugger" /\ ThreadStep(t))

-----------------------------------------------------------------------------
(* What is assembled is read by the processor as what was written (compiler/Assembler. *)
(* cpp 474-952).                                                                     *)
AssemblesWhatIsWritten ==
    part = "encoding" => \A list \in Lists(body) : A!AssemblesWhatIsWritten(A!Instruction(body, list))
(* A line of operands means the same to the phrase actions and to the reader of whole  *)
(* texts, and an address is the sum that was written (AssemblerOperand.cpp 107-486,    *)
(* compiler/Assembler.cpp 40-80, 332-447).                                           *)
OperandsMean == part = "operands" => A!OperandsMean
(* A block's code is its statements in order, a branch lands where its label was       *)
(* written, an invocation reaches its phrase, and the lexicon keeps what was accepted   *)
(* while the block is open and nothing after it (AssemblerOutput.cpp 30-183, 652-977).  *)
AssemblyMeans == S!AssemblyMeans
=============================================================================
