------------------------------ MODULE Assembly -------------------------------
(* The blocks of the assembler: statements put code and data into the workspace     *)
(* and labels, references and invocations into the lexicon; the closing brace makes  *)
(* a module of them or, outside a definition, patches the code; and the lexicon is    *)
(* taken back (AssemblerSession.cpp, AssemblerInstruction.cpp, AssemblerOutput.cpp,   *)
(* AssemblerOperand.cpp 482-764, Assembler.cpp). An instruction is one cell or, with   *)
(* an address to be patched, two; the template of an interpreted invocation is its    *)
(* three addresses. The lexicon is the sequence of the records the block has made.    *)
EXTENDS Integers, Sequences, SequencesExt, FiniteSets, FiniteSetsExt, Once

CONSTANTS
    LabelNames,     \* the labels a program jumps to; those of Reserved are words of the grammar
    Reserved,
    EntryName,          \* the name of the definition, which a label may have too
    Interpreted,    \* the phrases an invocation finds ...
    Native,         \* ... and those with a native entry
    References,     \* what invocations name, found or not
    Kinds,          \* the outputs that are asked for
    Switches,       \* the sections a block may turn to, next to the custom one
    Capacity,       \* the cells of the workspace (bound)
    MaxStatements   \* (bound)

VARIABLES
    lex,        \* the records made since the first open block began
    session,    \* the payload of the session's phrase
    code,       \* workspace.code
    extent,     \* the bytes of the other sections
    custom,     \* the type of the custom section: "absent", "bytes", "nobits"
    kind,       \* the requested output: "none", "object", "executable", "raw"
    written,    \* what was accepted since the workspace was empty
    result,     \* the module of a definition that has just ended
    stale       \* the code of a definition that failed was left in the workspace, where the model ends
assembly == <<lex, session, code, extent, custom, kind, written, result, stale>>

NoSession == [open |-> "none"]
NoInstruction == [name |-> "none"]
NoModule == [code |-> <<>>]
Sections == {"data", "bss", "custom"}
Empty == [s \in Sections |-> 0]

-----------------------------------------------------------------------------
(* The records of the lexicon. *)
Restore(records, checkpoint) == SubSeq(records, 1, checkpoint)
Find(records, name) == { k \in DOMAIN records : records[k].is = "label" /\ records[k].name = name }
Acceptable(records, name) == ~(Find(records, name) = {} /\ name \in Reserved)
EnsureLabel(records, name) ==
    IF Find(records, name) # {} THEN records
    ELSE records \o << [is |-> "label", name |-> name, defined |-> FALSE, section |-> "text", offset |-> 0, references |-> 0],
                       [is |-> "word", name |-> name] >>
AddRelocation(records, name, start) ==
    With(EnsureLabel(records, name), LAMBDA with : With(Max(Find(with, name)), LAMBDA k :
        Append([with EXCEPT ![k].references = @ + 1],
               [is |-> "reference", name |-> name, index |-> with[k].references, patch |-> start + 1, end |-> start + 2])))

Linked == kind \in {"object", "executable"}
Item(do, name, section, size) ==
    [do |-> do, name |-> name, section |-> section, size |-> size, block |-> session.block, inline |-> session.open = "inline"]
Said(do, name, section, size) == written' = Append(written, Item(do, name, section, size))
Room(cells) == Len(code) + cells + 1 <= Capacity /\ Len(written) < MaxStatements

-----------------------------------------------------------------------------
(* `emit object ...` and its like ask for the next definition's output. *)
SetNativeOutput(k) ==
    /\ session = NoSession /\ kind = "none" /\ ~stale
    /\ kind' = k /\ result' = NoModule
    /\ UNCHANGED <<lex, session, code, extent, custom, written, stale>>

Begin(open) ==
    /\ session = NoSession /\ ~stale /\ (open = "inline" => kind = "none") /\ Len(written) < MaxStatements
    /\ session' = [open |-> open, checkpoint |-> Len(lex), start |-> Len(code), section |-> "text", invocations |-> 0,
                   instruction |-> NoInstruction, tail |-> -1, tailEnd |-> -1, block |-> Len(written)]
    /\ lex' = Append(lex, [is |-> "session"])
    /\ result' = NoModule
    /\ UNCHANGED <<code, extent, custom, kind, written, stale>>

InBlock == session.open \in {"inline", "staged"}
AtStatement == InBlock /\ session.instruction = NoInstruction
OpenInstruction(name) ==
    /\ AtStatement /\ session.section = "text" /\ Len(written) < MaxStatements
    /\ session' = [session EXCEPT !.instruction = [name |-> name, checkpoint |-> Len(lex), operands |-> <<>>]]
    /\ UNCHANGED <<lex, code, extent, custom, kind, written, result, stale>>
FinishOperand(operand) ==
    /\ InBlock /\ session.instruction # NoInstruction /\ session.instruction.operands = <<>>
    /\ session' = [session EXCEPT !.instruction.operands = Append(@, operand)]
    /\ lex' = Append(lex, [is |-> "operand", value |-> operand])
    /\ UNCHANGED <<code, extent, custom, kind, written, result, stale>>

(* A conditional jump takes a label, an increment takes a register. The operands'     *)
(* records are taken back before the label and the reference are made.               *)
Encodable(i) == Len(i.operands) = 1 /\ (i.name = "jz" <=> i.operands[1] \in LabelNames)
Cells(i) == IF i.name = "jz" THEN << [op |-> "jz"], [op |-> "relative", to |-> 0] >> ELSE << [op |-> i.name] >>
Emittable(i) ==
    /\ Encodable(i) /\ Room(Len(Cells(i)))
    /\ (i.name = "jz" => Acceptable(Restore(lex, i.checkpoint), i.operands[1]))
Emitted(records, i) == IF i.name = "jz" THEN AddRelocation(records, i.operands[1], Len(code)) ELSE records
EmitFault(i) ==
    /\ Emittable(i)
    /\ lex' = Restore(Emitted(lex, i), i.checkpoint)
    /\ code' = code \o Cells(i) /\ session' = [session EXCEPT !.instruction = NoInstruction]
    /\ Said(i.name, i.operands[1], "text", Len(Cells(i)))
    /\ UNCHANGED <<extent, custom, kind, result, stale>>
Emit(i) ==
    /\ Emittable(i)
    /\ lex' = Emitted(Restore(lex, i.checkpoint), i)
    /\ code' = code \o Cells(i) /\ session' = [session EXCEPT !.instruction = NoInstruction]
    /\ Said(i.name, i.operands[1], "text", Len(Cells(i)))
    /\ UNCHANGED <<extent, custom, kind, result, stale>>
(* An operand or an instruction that fails takes the open instruction back. *)
Discard(i) ==
    /\ lex' = Restore(lex, i.checkpoint) /\ session' = [session EXCEPT !.instruction = NoInstruction]
    /\ UNCHANGED <<code, extent, custom, kind, written, result, stale>>
EndInstruction ==
    /\ InBlock /\ session.instruction # NoInstruction
    /\ IF Emittable(session.instruction) THEN Emit(session.instruction) ELSE Discard(session.instruction)

(* A NOBITS custom section counts what was reserved apart from its bytes, and a label  *)
(* in it takes the count of the bytes.                                               *)
Offset(section) ==
    CASE section = "text" -> Len(code)
      [] section = "custom" /\ custom = "nobits" -> 0
      [] OTHER -> extent[section]
DefineLabel(name) ==
    /\ AtStatement /\ Len(written) < MaxStatements
    /\ Acceptable(lex, name)
    /\ \E with \in {EnsureLabel(lex, name)} : \E k \in Find(with, name) :
         /\ ~with[k].defined
         /\ lex' = Append([with EXCEPT ![k].defined = TRUE, ![k].section = session.section, ![k].offset = Offset(session.section)],
                          [is |-> "definition", name |-> name])
    /\ Said("label", name, session.section, 0)
    /\ UNCHANGED <<session, code, extent, custom, kind, result, stale>>

Section(section) ==
    /\ AtStatement /\ Len(written) < MaxStatements /\ session.section # section /\ section # "custom"
    /\ session' = [session EXCEPT !.section = section]
    /\ UNCHANGED <<lex, code, extent, custom, kind, written, result, stale>>
(* A custom section that exists keeps the type it was made with. *)
CustomSection(type) ==
    /\ AtStatement /\ Len(written) < MaxStatements /\ session.section # "custom"
    /\ session' = [session EXCEPT !.section = "custom"]
    /\ custom' = (IF custom = "absent" THEN type ELSE custom)
    /\ UNCHANGED <<lex, code, extent, kind, written, result, stale>>

(* A directive that fails keeps the bytes it has written (`db 1, x`), so that it counts *)
(* as one that ended before.                                                          *)
Bytes ==
    /\ AtStatement /\ Len(written) < MaxStatements
    /\ \/ session.section = "text" /\ Room(0) /\ code' = Append(code, [op |-> "byte"]) /\ UNCHANGED extent
       \/ /\ session.section \in {"data", "custom"} /\ ~(session.section = "custom" /\ custom = "nobits")
          /\ extent' = [extent EXCEPT ![session.section] = @ + 1] /\ UNCHANGED code
    /\ Said("byte", "", session.section, 1)
    /\ UNCHANGED <<lex, session, custom, kind, result, stale>>
Reserve ==
    /\ AtStatement /\ Len(written) < MaxStatements
    /\ session.section \in {"bss", "custom"} /\ ~(session.section = "custom" /\ custom # "nobits")
    /\ extent' = [extent EXCEPT ![session.section] = @ + 1]
    /\ Said("reserve", "", session.section, 1)
    /\ UNCHANGED <<lex, session, code, custom, kind, result, stale>>

-----------------------------------------------------------------------------
(* Invocations: a call through the module's symbols when an object is made, or to a   *)
(* native entry of this process; otherwise the template that calls invoke_phrase.      *)
(* A block looks its reference up at its end, a compiled scope at once.                *)
EncodeNativeInvocation == << [op |-> "call"], [op |-> "relative", to |-> 0] >>
EncodePhraseInvocation ==
    << [op |-> "context", to |-> ""], [op |-> "phrase", to |-> ""], [op |-> "trampoline", to |-> ""] >>
Invocation(native) == IF native THEN EncodeNativeInvocation ELSE EncodePhraseInvocation
Record(reference, native, direct) ==
    [is |-> "invocation", index |-> session.invocations, reference |-> reference, native |-> native, direct |-> direct,
     patch |-> IF native THEN Len(code) + 1 ELSE Len(code)]
AddInvocation(reference) ==
    /\ AtStatement /\ session.section = "text" /\ kind # "raw" /\ Room(Len(Invocation(Linked)))
    /\ lex' = Append(lex, Record(reference, Linked, FALSE))
    /\ session' = [session EXCEPT !.invocations = @ + 1]
    /\ code' = code \o Invocation(Linked)
    /\ Said(IF Linked THEN "call" ELSE "template", reference, "text", Len(Invocation(Linked)))
    /\ UNCHANGED <<extent, custom, kind, result, stale>>

Resolves(reference) == reference \in Interpreted \cup Native
Direct(reference) == ~Linked /\ reference \in Native
EmitResolvedPhraseInvocation(reference) ==
    /\ session.open = "scope" /\ Resolves(reference) /\ kind # "raw"
    /\ \E native \in {Linked \/ Direct(reference)} :
         /\ Room(Len(Invocation(native)))
         /\ lex' = Append(lex, Record(reference, native, Direct(reference)))
         /\ session' = [session EXCEPT !.invocations = @ + 1, !.tail = IF native THEN Len(code) ELSE -1,
                                       !.tailEnd = Len(code) + Len(Invocation(native))]
         /\ code' = code \o Invocation(native)
         /\ Said(IF native THEN "call" ELSE "template", reference, "text", Len(Invocation(native)))
    /\ UNCHANGED <<extent, custom, kind, result, stale>>

-----------------------------------------------------------------------------
(* A definition becomes a module: its code, the symbols it defines and imports, and    *)
(* what is to be filled in where.                                                     *)
Records(is) == { lex[k] : k \in { i \in DOMAIN lex : lex[i].is = is } }
Symbol(name, section, offset) == [name |-> name, section |-> section, offset |-> offset]
RequiresEntry == kind # "raw"
Entries == IF RequiresEntry THEN {Symbol(EntryName, "text", 0)} ELSE {}
Named(name) == <<name, 0>>
PhraseSymbol(record) == <<"recurloop.phrase", record.index>>
SymbolOf(record) == IF record.direct THEN <<".Lrecurloop.direct", record.index>> ELSE Named(record.reference)
InvocationRelocations(record) ==
    IF record.native THEN {[at |-> record.patch, symbol |-> SymbolOf(record), addend |-> -1]}
    ELSE { [at |-> record.patch, symbol |-> Named("recurloop.context"), addend |-> 0],
           [at |-> record.patch + 1, symbol |-> PhraseSymbol(record), addend |-> 0],
           [at |-> record.patch + 2, symbol |-> Named("recurloop.invoke"), addend |-> 0] }
Imports(record) ==
    IF record.direct THEN { <<SymbolOf(record), record.reference>> }
    ELSE IF record.native THEN {}
    ELSE { <<Named("recurloop.context"), "context">>, <<PhraseSymbol(record), record.reference>>, <<Named("recurloop.invoke"), "invoke_phrase">> }
LabelSymbols == { Symbol(label.name, label.section, label.offset) : label \in { l \in Records("label") : l.defined } }
LabelRelocations ==
    { [at |-> r.patch, symbol |-> Named(r.name), addend |-> r.patch - r.end] : r \in Records("reference") }
LinkDefinition(text, said) ==
    [code |-> text, written |-> said, symbols |-> Entries \cup LabelSymbols,
     relocations |-> LabelRelocations \cup UNION { InvocationRelocations(r) : r \in Records("invocation") },
     imports |-> UNION { Imports(r) : r \in Records("invocation") },
     extent |-> extent, scope |-> session.open = "scope"]

(* The end of a block fails, and the block stays open, when a reference is not found or *)
(* a label is missing, or when a label has the name of a symbol the module has already. *)
ResolveInvocations == \A r \in Records("invocation") : Resolves(r.reference)
ResolveLabels == \A label \in Records("label") : label.references > 0 => label.defined
Unambiguous ==
    /\ ~(RequiresEntry /\ \E label \in LabelSymbols : label.name = EntryName)
    /\ \A r \in Records("invocation") : r.native => \A label \in LabelSymbols : label.name # r.reference

(* An output needs its entry, and drivers and files that work; a raw one is the bytes of  *)
(* the sections. The lexicon is taken back first. An output that is written, a definition that is     *)
(* linked now and one that is linked when it is called leave an empty workspace; one    *)
(* that cannot be finished leaves its code there.                                     *)
WriteNativeOutput(module) ==
    \/ kind = "raw"
    \/ Linked /\ Symbol(EntryName, "text", 0) \in module.symbols
FinalizeNativeDefinition(module) ==
    /\ result' = module
    /\ \/ ~(kind # "none" /\ ~WriteNativeOutput(module)) /\ code' = <<>> /\ extent' = Empty /\ custom' = "absent" /\ kind' = "none" /\ written' = <<>> /\ stale' = FALSE
       \/ code' = module.code /\ written' = module.written /\ stale' = TRUE /\ UNCHANGED <<extent, custom, kind>>
EndStaged ==
    /\ AtStatement /\ session.open = "staged"
    /\ ResolveInvocations /\ ResolveLabels /\ Unambiguous
    /\ lex' = Restore(lex, session.checkpoint) /\ session' = NoSession
    /\ FinalizeNativeDefinition(LinkDefinition(code, written))

(* A final native call of a scope becomes a jump; otherwise the scope ends in a return. *)
ScopeEnd ==
    /\ session.open = "scope"
    /\ \E tail \in {session.tail # -1 /\ session.tailEnd = Len(code)} :
         /\ ~(~tail /\ Len(code) + 2 > Capacity)
         /\ FinalizeNativeDefinition(LinkDefinition(
              IF tail THEN [code EXCEPT ![session.tail + 1].op = "jmp"] ELSE Append(code, [op |-> "ret"]),
              IF tail THEN [written EXCEPT ![Len(written)].do = "jmp"] ELSE Append(written, Item("ret", "", "text", 1))))
    /\ lex' = Restore(lex, session.checkpoint) /\ session' = NoSession

(* Outside a definition the block's code stays in the workspace, patched. *)
PatchInvocations(text) ==
    [k \in DOMAIN text |->
       LET mine == { r \in Records("invocation") : k - 1 - r.patch \in 0..2 }
       IN  IF mine = {} THEN text[k]
           ELSE [text[k] EXCEPT !.to = (CHOOSE r \in mine : TRUE).reference]]
PatchLabels(text) ==
    [k \in DOMAIN text |->
       LET mine == { r \in Records("reference") : r.patch = k - 1 }
       IN  IF mine = {} THEN text[k]
           ELSE LET r == CHOOSE r \in mine : TRUE
                IN  [text[k] EXCEPT !.to = (CHOOSE label \in Records("label") : label.name = r.name).offset - r.end]]
EndInline ==
    /\ AtStatement /\ session.open = "inline"
    /\ ResolveInvocations /\ ResolveLabels
    /\ code' = PatchLabels(PatchInvocations(code))
    /\ lex' = Restore(lex, session.checkpoint) /\ session' = NoSession
    /\ UNCHANGED <<extent, custom, kind, written, result, stale>>
(* A label that is missing is found after the invocations have been patched. (Those    *)
(* before an invocation that is not found, and the labels before one that is missing,   *)
(* are patched as well; the close that succeeds in the end patches all of them again.)  *)
EndInlineFails ==
    /\ AtStatement /\ session.open = "inline"
    /\ ResolveInvocations /\ ~ResolveLabels
    /\ code' = PatchInvocations(code)
    /\ UNCHANGED <<lex, session, extent, custom, kind, written, result, stale>>

(* A definition without a block takes the code the workspace holds, not its custom section. *)
FinalizeStagedCode ==
    /\ session = NoSession /\ code # <<>> /\ ~stale
    /\ FinalizeNativeDefinition([code |-> code, written |-> written, symbols |-> Entries, relocations |-> {},
                                 imports |-> {}, extent |-> [extent EXCEPT !["custom"] = 0], scope |-> FALSE])
    /\ UNCHANGED <<lex, session>>

-----------------------------------------------------------------------------
Init ==
    /\ lex = <<>> /\ session = NoSession /\ code = <<>> /\ extent = Empty /\ custom = "absent" /\ kind = "none"
    /\ written = <<>> /\ result = NoModule /\ stale = FALSE
Next ==
    \/ \E k \in Kinds : SetNativeOutput(k)
    \/ \E open \in {"inline", "staged", "scope"} : Begin(open)
    \/ \E name \in {"inc", "jz"} : OpenInstruction(name)
    \/ \E operand \in LabelNames \cup {"register"} : FinishOperand(operand)
    \/ EndInstruction \/ Bytes \/ Reserve \/ EndStaged \/ ScopeEnd \/ EndInline \/ EndInlineFails \/ FinalizeStagedCode
    \/ \E name \in LabelNames \cup {EntryName} : DefineLabel(name)
    \/ \E section \in {"text"} \cup Switches : Section(section)
    \/ \E type \in {"bytes", "nobits"} : CustomSection(type)
    \/ \E reference \in References : AddInvocation(reference) \/ EmitResolvedPhraseInvocation(reference)

-----------------------------------------------------------------------------
(* Where item k of what was said is: what was put into its section before it. *)
Total(said, section) == FoldLeft(LAMBDA total, item : IF item.section = section THEN total + item.size ELSE total, 0, said)
Before(said, k) == Total(SubSeq(said, 1, k - 1), said[k].section)
Written(said, name, block) ==
    { k \in DOMAIN said : said[k].do = "label" /\ said[k].name = name /\ said[k].block = block }
Filled(module, at, symbol, addend) ==
    { r \in module.relocations : r.at = at } = {[at |-> at, symbol |-> symbol, addend |-> addend]}

(* A branch of a definition's module names its label, whose symbol is where the label    *)
(* was written; one outside a definition holds the distance.                           *)
BranchLands(module, k) ==
    LET item == module.written[k]
        at == Before(module.written, k)
    IN  \A to \in Written(module.written, item.name, item.block) :
          IF item.inline
          THEN module.written[to].section = "text" => at + 2 + module.code[at + 2].to = Before(module.written, to)
          ELSE Filled(module, at + 1, Named(item.name), -1)
BranchHasLabel(module, k) ==
    Cardinality(Written(module.written, module.written[k].name, module.written[k].block)) = 1
Reaches(module, k) ==
    LET item == module.written[k]
        at == Before(module.written, k)
    IN  IF item.inline
        THEN \A i \in 1..3 : module.code[at + i].to = item.name
        ELSE /\ Filled(module, at, Named("recurloop.context"), 0) /\ Filled(module, at + 2, Named("recurloop.invoke"), 0)
             /\ \E r \in module.relocations : r.at = at + 1 /\ <<r.symbol, item.name>> \in module.imports
Calls(module, k) ==
    LET item == module.written[k]
        at == Before(module.written, k)
    IN  \E r \in module.relocations :
          /\ r.at = at + 1 /\ r.addend = -1
          /\ r.symbol # Named(item.name) => <<r.symbol, item.name>> \in module.imports
ItemMeans(module, k) ==
    LET item == module.written[k]
    IN  item.section = "text" /\ item.size > 0 =>
          /\ module.code[Before(module.written, k) + 1].op = (IF item.do = "template" THEN "context" ELSE item.do)
          /\ item.do = "jz" => BranchHasLabel(module, k) /\ BranchLands(module, k)
          /\ item.do = "template" => Reaches(module, k)
          /\ item.do \in {"call", "jmp"} => Calls(module, k)
(* A symbol is where its label was written, except in a NOBITS section after a reservation. *)
SymbolMeans(module, symbol) ==
    \/ symbol = Symbol(EntryName, "text", 0)
    \/ \E k \in DOMAIN module.written :
         /\ module.written[k].do = "label" /\ module.written[k].name = symbol.name /\ ~module.written[k].inline
         /\ module.written[k].section = symbol.section
         /\ ~(symbol.section = "custom" /\ \E i \in DOMAIN module.written : module.written[i].section = "custom" /\ module.written[i].do = "reserve")
            => Before(module.written, k) = symbol.offset
ModuleMeans(module) ==
    /\ Len(module.code) = Total(module.written, "text")
    /\ \A s \in {"data", "bss"} : module.extent[s] = Total(module.written, s)
    /\ \A k \in DOMAIN module.written : ItemMeans(module, k)
    /\ \A symbol \in module.symbols : SymbolMeans(module, symbol)
    /\ \A a, b \in module.symbols : a.name = b.name => a = b
    /\ module.scope => LET last == module.code[Len(module.code)].op
                       IN  last = "ret" \/ (last = "relative" /\ module.code[Len(module.code) - 1].op = "jmp")

(* What a block leaves in the lexicon while it is open is what was accepted, and nothing  *)
(* when it is closed.                                                                 *)
LexiconMeans ==
    /\ session = NoSession => lex = <<>>
    /\ session # NoSession /\ session.instruction = NoInstruction =>
         /\ Records("operand") = {}
         /\ Cardinality(Records("reference")) =
              Cardinality({ k \in DOMAIN written : written[k].do = "jz" /\ written[k].block = session.block /\ session.open # "scope" })
         /\ Cardinality(Records("invocation")) = session.invocations
AssemblyMeans == LexiconMeans /\ (result # NoModule => ModuleMeans(result))
=============================================================================
