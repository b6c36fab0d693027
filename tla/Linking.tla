------------------------------- MODULE Linking --------------------------------
(* Native modules (Module.cpp): what is linked to a root is read from objects    *)
(* (ElfReader.cpp), chosen by name (LanguageState.cpp) or taken from archives    *)
(* (StaticLinker.cpp), merged, and placed in executable memory (JitLinker.cpp).  *)
(*                                                                               *)
(* A cell is eight bytes, the widest patch. A cell of a section carries a tag    *)
(* that says which cell of which object it is, and the value a relocation put    *)
(* there; storage without bytes (.bss) has cells like any other. Names are       *)
(* tuples: a name local to an object has the object in it.                       *)
EXTENDS Once, Integers, Sequences, TLC, SequencesExt

CONSTANTS Writable, Executable,  \* the two addresses at which executable memory is mapped
          Reach,                 \* the farthest distance of a 32-bit displacement
          Low,                   \* the lowest address beyond 32 bits
          Capacity               \* cells of executable memory

-----------------------------------------------------------------------------
(* Modules.                                                                    *)
EmptySection(name) == [name |-> name, bare |-> name = "bss", write |-> name # "text", alignment |-> 1, cells |-> <<>>]
Empty == [sections |-> <<EmptySection("text"), EmptySection("data"), EmptySection("bss")>>,
          symbols |-> <<>>, relocations |-> <<>>, failure |-> "none"]
Fail(m, why) == [m EXCEPT !.failure = IF @ = "none" THEN why ELSE @]
AlignUp(value, alignment) == ((value + alignment - 1) \div alignment) * alignment
FindSection(m, name) == SelectInSeq(m.sections, LAMBDA s : s.name = name)
FindSymbol(m, name) == SelectInSeq(m.symbols, LAMBDA s : s.name = name)
Imports(m, name) == FindSymbol(m, name) # 0 /\ m.symbols[FindSymbol(m, name)].imported
Defines(m, name) == FindSymbol(m, name) # 0 /\ ~m.symbols[FindSymbol(m, name)].imported

Padding(count) == [i \in 1..count |-> [tag |-> <<>>, value |-> 0]]
AppendCells(m, id, cells, alignment) ==
    LET offset == AlignUp(Len(m.sections[id].cells), alignment)
    IN  [module |-> [m EXCEPT !.sections[id].alignment = IF @ < alignment THEN alignment ELSE @,
                              !.sections[id].cells = @ \o Padding(offset - Len(@)) \o cells],
         id |-> id, offset |-> offset]
(* A section of the same name is continued, if it is of the same kind. *)
PlaceIn(m, s, id) ==
    IF id = 0
    THEN AppendCells([m EXCEPT !.sections = Append(@, [s EXCEPT !.cells = <<>>])], Len(m.sections) + 1, s.cells, s.alignment)
    ELSE AppendCells(IF <<m.sections[id].bare, m.sections[id].write>> # <<s.bare, s.write>> THEN Fail(m, "section") ELSE m,
                     id, s.cells, s.alignment)
Place(m, s) == PlaceIn(m, s, FindSection(m, s.name))
PlaceAll(m, sections) ==
    FoldLeft(LAMBDA done, s : With(Place(done.module, s), LAMBDA p :
               [module |-> p.module, ids |-> Append(done.ids, p.id), offsets |-> Append(done.offsets, p.offset)]),
             [module |-> m, ids |-> <<>>, offsets |-> <<>>], sections)

Define(m, symbol) ==
    IF FindSymbol(m, symbol.name) # 0 THEN Fail(m, "duplicate") ELSE [m EXCEPT !.symbols = Append(@, symbol)]
RemoveSymbol(m, name) == [m EXCEPT !.symbols = SelectSeq(@, LAMBDA s : s.name # name)]
Relocate(m, id, offset, kind, name, addend) ==
    [m EXCEPT !.relocations = Append(@, [section |-> id, offset |-> offset, kind |-> kind, name |-> name, addend |-> addend])]

(* An import takes what there is; a definition replaces an import or a weak one. *)
MergeSymbol(m, symbol) ==
    IF symbol.imported THEN IF FindSymbol(m, symbol.name) = 0 THEN Define(m, symbol) ELSE m
    ELSE IF Defines(m, symbol.name) /\ symbol.binding = "weak" THEN m
    ELSE IF Defines(m, symbol.name) /\ m.symbols[FindSymbol(m, symbol.name)].binding # "weak" THEN Fail(m, "duplicate")
    ELSE Define(RemoveSymbol(m, symbol.name), symbol)
Moved(symbol, placed) ==
    IF symbol.imported \/ symbol.absolute THEN symbol
    ELSE [symbol EXCEPT !.section = placed.ids[@], !.offset = placed.offsets[symbol.section] + @]
Merge(m, other) ==
    With(PlaceAll(m, other.sections), LAMBDA placed :
    With(FoldLeft(LAMBDA done, s : MergeSymbol(done, Moved(s, placed)), placed.module, other.symbols), LAMBDA named :
    With(FoldLeft(LAMBDA done, r : Relocate(done, placed.ids[r.section], placed.offsets[r.section] + r.offset,
                                            r.kind, r.name, r.addend), named, other.relocations), LAMBDA patched :
         IF other.failure # "none" THEN Fail(patched, other.failure) ELSE patched)))

-----------------------------------------------------------------------------
(* Objects. A symbol is undefined ("undef"), a value ("abs"), storage to be given *)
(* to it ("common") or a cell of a section; a relocation of kind "got" asks for   *)
(* the address of a cell that holds the address.                                  *)
Name(o, i) == IF o.symbols[i].binding = "local" THEN <<o.origin, i>> ELSE o.symbols[i].name
GotTag(o, i) == <<o.origin, "got", i>>
Stored(m, name, write, alignment, tag) ==
    PlaceAll(m, << [name |-> name, bare |-> name = "bss", write |-> write, alignment |-> alignment,
                    cells |-> << [tag |-> tag, value |-> 0] >>] >>)
In(symbol, placed, k) == [symbol EXCEPT !.section = placed.ids[k], !.offset = placed.offsets[k] + @]
ReadSymbol(m, o, i, placed) ==
    LET s == o.symbols[i]
        symbol == [name |-> Name(o, i), binding |-> s.binding, imported |-> s.in = "undef", absolute |-> s.in = "abs",
                   section |-> 1, offset |-> IF s.in = "common" THEN 0 ELSE s.at]
    IN  CASE s.in \in {"undef", "abs"} -> Define(m, symbol)
          [] s.in = "common" -> With(Stored(m, "bss", TRUE, s.at, <<o.origin, "common", i>>), LAMBDA storage :
                                     Define(storage.module, In(symbol, storage, 1)))
          [] OTHER -> Define(m, In(symbol, placed, SelectInSeq(o.sections, LAMBDA t : t.name = s.in)))
GotEntry(m, o, i) ==
    With(Stored(m, "got", TRUE, 1, GotTag(o, i)), LAMBDA entry :
         Relocate(Define(entry.module, [name |-> GotTag(o, i), binding |-> "local", imported |-> FALSE, absolute |-> FALSE,
                                        section |-> entry.ids[1], offset |-> entry.offsets[1]]),
                  entry.ids[1], entry.offsets[1], "abs", Name(o, i), 0))
ReadRelocation(m, o, r, placed) ==
    LET k == SelectInSeq(o.sections, LAMBDA t : t.name = r.in)
        got == GotTag(o, r.symbol)
    IN  IF r.kind = "got"
        THEN Relocate(IF FindSymbol(m, got) # 0 THEN m ELSE GotEntry(m, o, r.symbol),
                      placed.ids[k], placed.offsets[k] + r.at, "pc", got, r.addend)
        ELSE Relocate(m, placed.ids[k], placed.offsets[k] + r.at, r.kind, Name(o, r.symbol), r.addend)
Read(o) ==
    With(PlaceAll(Empty, o.sections), LAMBDA placed :
    With(FoldLeftDomain(LAMBDA m, i : ReadSymbol(m, o, i, placed), placed.module, o.symbols), LAMBDA named :
         FoldLeft(LAMBDA m, r : ReadRelocation(m, o, r, placed), named, o.relocations)))
Definitions(o) == { s.name : s \in { t \in ToSet(o.symbols) : t.binding # "local" /\ t.in # "undef" } }

-----------------------------------------------------------------------------
(* Modules remembered by name. A job says what was remembered, which names are   *)
(* included (1) or excluded (2), what others provide, and the objects and         *)
(* archives to link. Code of the compiler itself is composed without choices.     *)
Known(job, name) == name \in DOMAIN job.remembered
Wanted(job, m) ==
    LET wanted == SelectSeq(m.symbols, LAMBDA s : /\ s.imported /\ Known(job, s.name)
                                                 /\ IF job.internal THEN s.name \notin job.provided
                                                    ELSE s.name \notin job.excluded)
    IN  [i \in DOMAIN wanted |-> wanted[i].name]
RECURSIVE Gather(_, _, _), GatherAll(_, _, _)
Gather(job, done, name) ==
    With([done EXCEPT !.merged = @ \cup {name}], LAMBDA reached :
         IF name \in done.merged \cup job.provided \/ Defines(done.module, name) THEN reached
         ELSE IF ~Known(job, name)
              THEN IF job.internal THEN reached ELSE [reached EXCEPT !.module = Fail(@, "missing")]
         ELSE With([reached EXCEPT !.module = Merge(@, Read(job.remembered[name]))], LAMBDA merged :
                   IF ~job.automatic /\ ~job.internal THEN merged
                   ELSE GatherAll(job, merged, Wanted(job, merged.module))))
GatherAll(job, done, names) == FoldLeft(LAMBDA d, name : Gather(job, d, name), done, names)
ComposeModules(job) ==
    With([module |-> Read(job.root), merged |-> {}], LAMBDA root :
    With(IF job.internal THEN root ELSE GatherAll(job, root, job.included), LAMBDA included :
         IF job.automatic \/ job.internal
         THEN GatherAll(job, included, Wanted(job, included.module)).module ELSE included.module))

(* Members of archives are merged while one of them is needed. *)
ResolvesImport(m, o) ==
    \E name \in Definitions(o) : Imports(m, name) /\ m.symbols[FindSymbol(m, name)].binding # "weak"
Scan(done, o) ==
    IF o.origin \in done.selected \/ ~ResolvesImport(done.module, o) THEN done
    ELSE [module |-> Merge(done.module, Read(o)), selected |-> done.selected \cup {o.origin}]
RECURSIVE Extract(_, _)
ExtractFault(done, archives) == FoldLeft(Scan, done, FlattenSeq(archives))
Extract(done, archives) ==
    With(FoldLeft(Scan, done, FlattenSeq(archives)), LAMBDA pass :
         IF pass.selected = done.selected THEN pass ELSE Extract(pass, archives))
Compose(job) ==
    With(ComposeModules(job), LAMBDA composed :
         IF job.internal THEN composed
         ELSE Extract([module |-> FoldLeft(LAMBDA m, o : Merge(m, Read(o)), composed, job.objects), selected |-> {}],
                      job.archives).module)

-----------------------------------------------------------------------------
(* Executable memory. Imports, and weak definitions that the process has too, are *)
(* external; a call to one goes through a stub that is near.                      *)
External(m, resolver, name) ==
    Imports(m, name) \/ (name \in DOMAIN resolver /\ m.symbols[FindSymbol(m, name)].binding = "weak")
Layout(m, start) ==
    FoldLeft(LAMBDA done, s : LET at == AlignUp(done.end, s.alignment)
                              IN  [offsets |-> Append(done.offsets, at), end |-> at + Len(s.cells)],
             [offsets |-> <<>>, end |-> start], m.sections)
Stubs(m, resolver) ==
    FoldLeft(LAMBDA stubs, r : IF r.kind = "plt" /\ External(m, resolver, r.name) /\ ~Contains(stubs, r.name)
                               THEN Append(stubs, r.name) ELSE stubs, <<>>, m.relocations)
SectionAddress(m, layout, id) == (IF m.sections[id].write THEN Writable ELSE Executable) + layout.offsets[id]
Address(m, layout, resolver, name) ==
    LET s == m.symbols[FindSymbol(m, name)]
    IN  IF External(m, resolver, name) THEN IF name \in DOMAIN resolver THEN resolver[name] ELSE 0
        ELSE IF s.absolute THEN s.offset ELSE SectionAddress(m, layout, s.section) + s.offset
PatchTarget(m, layout, stubs, resolver, r) ==
    LET stub == SelectInSeq(stubs, LAMBDA name : name = r.name)
    IN  IF r.kind = "plt" /\ stub # 0 THEN Executable + layout.end + stub - 1 ELSE Address(m, layout, resolver, r.name)
Patch(m, layout, stubs, resolver, r) ==
    PatchTarget(m, layout, stubs, resolver, r) + r.addend
    - IF r.kind \in {"pc", "plt"} THEN SectionAddress(m, layout, r.section) + r.offset ELSE 0
InRange(kind, value) ==
    CASE kind \in {"pc", "plt"} -> value >= -Reach /\ value <= Reach
      [] kind = "abs32" -> value >= 0 /\ value < Low
      [] OTHER -> value >= 0
Written(m, start, layout, stubs, resolver) ==
    LET laid == [id \in DOMAIN m.sections |-> layout.offsets[id] + 1 .. layout.offsets[id] + Len(m.sections[id].cells)]
    IN  [c \in start + 1 .. layout.end + Len(stubs) |->
           IF c > layout.end THEN [tag |-> <<"stub">>, value |-> Address(m, layout, resolver, stubs[c - layout.end])]
           ELSE IF \E id \in DOMAIN laid : c \in laid[id]
                THEN LET id == CHOOSE id \in DOMAIN laid : c \in laid[id] IN m.sections[id].cells[c - layout.offsets[id]]
                ELSE [tag |-> <<>>, value |-> 0]]
LinkAt(m, start, layout, stubs, resolver) ==
    LET patches == [i \in DOMAIN m.relocations |-> Patch(m, layout, stubs, resolver, m.relocations[i])]
    IN  CASE m.failure # "none" -> [failure |-> m.failure]
          [] layout.end + Len(stubs) >= Capacity -> [failure |-> "full"]
          [] \E s \in ToSet(m.symbols) : s.imported /\ s.name \notin DOMAIN resolver /\ s.binding # "weak" ->
               [failure |-> "unresolved"]
          [] \E i \in DOMAIN patches : ~InRange(m.relocations[i].kind, patches[i]) -> [failure |-> "range"]
          [] OTHER -> [failure |-> "none",
                       cells |-> FoldLeftDomain(LAMBDA cells, i :
                                   LET r == m.relocations[i]
                                   IN  [cells EXCEPT ![layout.offsets[r.section] + r.offset + 1].value = patches[i]],
                                   Written(m, start, layout, stubs, resolver), m.relocations)]
Link(m, start, resolver) == LinkAt(m, start, Layout(m, start), Stubs(m, resolver), resolver)

-----------------------------------------------------------------------------
(* What linking means, said of the objects of a job alone.                     *)
Objects(job) ==
    {job.root} \cup { job.remembered[name] : name \in DOMAIN job.remembered }
    \cup ToSet(job.objects) \cup ToSet(FlattenSeq(job.archives))
Members(job) == ToSet(FlattenSeq(job.archives))
Tags(o) == { c.tag : c \in UNION { ToSet(s.cells) : s \in ToSet(o.sections) } }
LinkedTags(m) == { c.tag : c \in UNION { ToSet(s.cells) : s \in ToSet(m.sections) } }
LinkedObjects(job, m) == { o \in Objects(job) : Tags(o) \subseteq LinkedTags(m) }

Undefined(o) == { i \in DOMAIN o.symbols : o.symbols[i].in = "undef" }
Needs(o, strength) == { o.symbols[i].name : i \in { j \in Undefined(o) : o.symbols[j].binding \in strength } }
Defining(o, name) == { i \in DOMAIN o.symbols \ Undefined(o) : o.symbols[i].name = name /\ o.symbols[i].binding # "local" }
Strong(os, name) == { o \in os : \E i \in Defining(o, name) : o.symbols[i].binding = "global" }
Weak(os, name) == { o \in os : \E i \in Defining(o, name) : o.symbols[i].binding = "weak" }
Defined(os, name) == Strong(os, name) \cup Weak(os, name) # {}

(* Everything linked was asked for, and nothing that could be had is missing. *)
(* An import that is weak in one object and not in another stays as weak as   *)
(* the first of them was: names imported both ways are left aside.             *)
Asked(job, os, o) ==
    \/ o = job.root \/ (~job.internal /\ o \in ToSet(job.objects))
    \/ \E name \in DOMAIN job.remembered : /\ o = job.remembered[name]
                                            /\ \/ ~job.internal /\ name \in ToSet(job.included)
                                               \/ \E p \in os \ {o} : name \in Needs(p, {"global", "weak"})
    \/ ~job.internal /\ o \in Members(job) /\ \E name \in Definitions(o), p \in os \ {o} : name \in Needs(p, {"global"})
TwoWays(os, name) == \A strength \in {"global", "weak"} : \E o \in os : name \in Needs(o, {strength})
Chosen(job, name) == IF job.internal THEN name \notin job.provided ELSE job.automatic /\ name \notin job.excluded \cup job.provided
Complete(job, os, m) ==
    \A name \in UNION { Needs(o, {"global", "weak"}) : o \in os } : Defined(os, name) \/
        /\ ~(Known(job, name) /\ Chosen(job, name) /\ \E o \in os \ (ToSet(job.objects) \cup Members(job)) : name \in Needs(o, {"global", "weak"}))
        /\ ~(/\ ~job.internal /\ ~TwoWays(os, name) /\ (\E o \in os : name \in Needs(o, {"global"}))
             /\ \E o \in Members(job) : name \in Definitions(o))

(* Where a relocation leads in the linked memory. *)
CellAt(image, address) ==
    LET c == IF address >= Executable THEN address - Executable + 1 ELSE address - Writable + 1
    IN  IF address >= Writable /\ address < Executable + Capacity /\ c \in DOMAIN image.cells THEN image.cells[c]
        ELSE [tag |-> <<"outside">>, value |-> 0]
ReachedFrom(image, o, r, address, value) ==
    LET first == value - r.addend + IF r.kind \in {"pc", "plt", "got"} THEN address ELSE 0
    IN  CASE r.kind = "got" -> IF CellAt(image, first).tag = GotTag(o, r.symbol) THEN CellAt(image, first).value ELSE -1
          [] r.kind = "plt" /\ CellAt(image, first).tag = <<"stub">> -> CellAt(image, first).value
          [] OTHER -> first
Reached(image, o, r) ==
    LET section == o.sections[SelectInSeq(o.sections, LAMBDA s : s.name = r.in)]
    IN  With(CHOOSE c \in DOMAIN image.cells : image.cells[c].tag = section.cells[r.at + 1].tag, LAMBDA place :
             ReachedFrom(image, o, r, (IF section.write THEN Writable ELSE Executable) + place - 1, image.cells[place].value))
IsDefinition(image, address, o, i) ==
    LET s == o.symbols[i]
        k == SelectInSeq(o.sections, LAMBDA t : t.name = s.in)
        written == s.in = "common" \/ o.sections[k].write
    IN  CASE s.in = "abs" -> address = s.at
          [] s.in = "common" -> CellAt(image, address).tag = <<o.origin, "common", i>> /\ address < Executable
          [] OTHER -> /\ CellAt(image, address).tag = o.sections[k].cells[s.at + 1].tag
                      /\ (address < Executable) = written
Leads(job, os, image, o, r, address) ==
    LET s == o.symbols[r.symbol]
        definers == IF Strong(os, s.name) # {} THEN Strong(os, s.name) ELSE Weak(os, s.name)
    IN  IF s.binding = "local" THEN IsDefinition(image, address, o, r.symbol)
        ELSE IF Strong(os, s.name) = {} /\ s.name \in DOMAIN job.resolver THEN address = job.resolver[s.name]
        ELSE IF definers = {} THEN address = 0
        ELSE \E d \in definers : \E i \in Defining(d, s.name) : IsDefinition(image, address, d, i)
Linked(job, os, image) ==
    /\ \A o \in os : \A r \in ToSet(o.relocations) : Leads(job, os, image, o, r, Reached(image, o, r))
    /\ \A o, p \in os : \A r \in ToSet(o.relocations), q \in ToSet(p.relocations) :
          o.symbols[r.symbol].name = p.symbols[q.symbol].name
          /\ "local" \notin {o.symbols[r.symbol].binding, p.symbols[q.symbol].binding}
            => Reached(image, o, r) = Reached(image, p, q)

(* A refusal has its reason in the objects. *)
Twice(os, name) == Strong(os, name) # {} /\ \E o \in os : Strong(os \ {o}, name) # {}
Names(os) == UNION { UNION { { o.symbols[i].name } : i \in DOMAIN o.symbols } : o \in os }
Far(job, os, address) == address >= Low \/ address < Writable - Reach \/ address > Executable + Capacity + Reach
Refused(job, os, failure) ==
    CASE failure = "duplicate" ->
           \/ \E name \in Names(Objects(job)) : Twice(Objects(job), name)
           \/ ~IsInjective(job.objects) \/ \E name \in DOMAIN job.remembered : job.remembered[name] \in ToSet(job.objects) \cup Members(job)
      [] failure = "section" ->
           \E o, p \in Objects(job) : \E s \in ToSet(o.sections), t \in ToSet(p.sections) :
             s.name = t.name /\ (s.bare # t.bare \/ s.write # t.write)
      [] failure = "missing" -> \E name \in ToSet(job.included) : ~Known(job, name)
      [] failure = "unresolved" ->
           \E o \in os : \E name \in Needs(o, {"global"}) :
             /\ ~Defined(os, name) /\ name \notin DOMAIN job.resolver
             /\ job.internal \/ TwoWays(os, name) \/ ~\E p \in Members(job) : name \in Definitions(p)
      [] failure = "range" ->
           \E o \in os : \E r \in ToSet(o.relocations) :
             r.kind \in {"pc", "abs32"} /\ (r.kind = "abs32" \/ o.symbols[r.symbol].in \in {"undef", "abs"} \/ o.symbols[r.symbol].binding = "weak")
      [] OTHER -> FALSE

LinkMeans(job) ==
    \A m \in {Compose(job)} : \A os \in {LinkedObjects(job, m)}, image \in {Link(m, job.start, job.resolver)} :
        /\ m.failure = "none" => Complete(job, os, m) /\ \A o \in os : Asked(job, os, o)
        /\ IF image.failure = "none" THEN Linked(job, os, image) ELSE Refused(job, os, image.failure)
=============================================================================
