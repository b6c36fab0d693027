----------------------------- MODULE EngineImage -----------------------------
(* Images of the lexicon (recurloop/EngineImage.cpp): what of a lexicon an image  *)
(* holds, what comes back from a full, a partial and a linked image and from a    *)
(* merge, which part of a request's phrases a promotion keeps, and the order in    *)
(* which an image's dependencies are loaded.                                       *)
(*                                                                                 *)
(* A lexicon is a sequence of phrases: the position is the address and position 1  *)
(* is the root. `ref` stands for the five references a phrase may hold (prototype, *)
(* type, successor, action implementation, relocated payload), `what` for its      *)
(* behaviour and payload. An image is a sequence of phrases whose `owner` and      *)
(* `ref` are positions of the image.                                               *)
EXTENDS Once, Naturals, Sequences, FiniteSets, SequencesExt, FiniteSetsExt

CONSTANTS Keys,        \* of phrases an image keeps, numbers in the order of their bytes
          Hidden,      \* keys of phrases that are not serializable
          MaxPhrases,  \* phrases of a lexicon, the root aside
          Graphs       \* what files hold: [path -> [identity, dependencies]]

VARIABLES lexicon,     \* the phrases of the session
          checkpoint,  \* where a request or a source file began, 0 before
          files        \* the image files of a load

images == <<lexicon, checkpoint, files>>

Root == [owner |-> 0, key |-> 0, dict |-> TRUE, ref |-> 0, hidden |-> FALSE, what |-> 0]
Failed == <<>>

-----------------------------------------------------------------------------
(* The lexicon.                                                                *)
Versions(L, p) == {q \in DOMAIN L : L[q].owner = L[p].owner /\ L[q].key = L[p].key}
Visible(L, p) == \A q \in Versions(L, p) : q <= p
Older(L, p) == Max({0} \cup {q \in Versions(L, p) : q < p})
Exact(L, owner, key) == Max({0} \cup {q \in DOMAIN L : L[q].owner = owner /\ L[q].key = key})
Children(L, p) == {q \in DOMAIN L : L[q].owner = p /\ Visible(L, q) /\ ~L[q].hidden}

Closure(S, After(_)) ==
    LET RECURSIVE Grow(_)
        Grow(T) == With(T \cup UNION {After(p) : p \in T}, LAMBDA more : IF more = T THEN T ELSE Grow(more))
    IN  Grow(S)
Existing(positions) == positions \ {0}

RECURSIVE PathOf(_, _)
PathOf(L, p) == IF p = 1 THEN <<>> ELSE Append(PathOf(L, L[p].owner), L[p].key)
RECURSIVE Along(_, _, _)
Along(L, from, path) ==
    IF path = <<>> \/ from = 0 THEN from
    ELSE IF ~L[from].dict THEN 0 ELSE Along(L, Exact(L, from, Head(path)), Tail(path))
Found(L) == {p \in DOMAIN L : Along(L, 1, PathOf(L, p)) = p}

-----------------------------------------------------------------------------
(* What an image holds.                                                        *)
Dictionaries(L) == Closure({1}, LAMBDA p : {q \in Children(L, p) : L[q].dict})
SeedsFault(L, since) == {1} \cup IF since = 0 THEN {} ELSE {q \in Children(L, 1) : q >= since}
Seeds(L, since) ==
    {1} \cup IF since = 0 THEN {} ELSE {q \in UNION {Children(L, p) : p \in Dictionaries(L)} : q >= since}
Captured(L, since) ==
    Closure(Seeds(L, since),
            LAMBDA p : Existing({L[p].owner, L[p].ref}) \cup {q \in Children(L, p) : since = 0 \/ q >= since})

(* Owners first, then by key; only among versions does the address decide. *)
RECURSIVE Canonical(_, _, _, _)
Canonical(L, kept, ordered, cursor) ==
    IF cursor > Len(ordered) THEN ordered
    ELSE LET owned == {q \in kept : L[q].owner = ordered[cursor]}
             before(p, q) == L[p].key < L[q].key \/ (L[p].key = L[q].key /\ p < q)
         IN  Canonical(L, kept, ordered \o SetToSortSeq(owned, before), cursor + 1)

Ids(ordered) == [p \in ToSet(ordered) |-> CHOOSE i \in DOMAIN ordered : ordered[i] = p]
Known(ids, p) == IF p = 0 THEN 0 ELSE ids[p]
CaptureOf(L, kept, ordered) ==
    LET ids == Ids(ordered)
    IN  IF \E p \in kept : L[p].hidden THEN Failed
        ELSE [sources |-> ordered,
              phrases |-> [i \in DOMAIN ordered |-> [L[ordered[i]] EXCEPT !.owner = Known(ids, @), !.ref = Known(ids, @)]]]
Capture(L, since) == With(Captured(L, since), LAMBDA kept : CaptureOf(L, kept, Canonical(L, kept, <<1>>, 1)))

(* A full image replaces the lexicon. *)
Restore(image) == image.phrases

-----------------------------------------------------------------------------
(* An image imported over a lexicon: phrases whose path the image lacks are kept *)
(* behind the imported ones; their owners and references are found again, among  *)
(* the kept ones or else by path.                                                 *)
Preserved(previous, image) ==
    LET imported == {PathOf(image, i) : i \in DOMAIN image}
    IN  SelectSeq([i \in DOMAIN previous |-> i], LAMBDA i : PathOf(previous, i) \notin imported)
RECURSIVE Appended(_, _, _, _)
OwnerOf(result, previous, preserved, n, owner) ==
    With({m \in 1..(n - 1) : preserved[m] = owner}, LAMBDA kept :
         IF kept # {} THEN Len(result) - (n - 1) + Max(kept) ELSE Along(result, 1, PathOf(previous, owner)))
Appended(result, previous, preserved, n) ==
    IF n > Len(preserved) \/ result = Failed THEN result
    ELSE LET record == previous[preserved[n]]
         IN  With(OwnerOf(result, previous, preserved, n, record.owner), LAMBDA owner :
                  IF owner = 0 \/ ~result[owner].dict THEN Failed
                  ELSE Appended(Append(result, [record EXCEPT !.owner = owner]), previous, preserved, n + 1))
ResolvedIn(appended, imported, previous, preserved) ==
    [i \in {previous[preserved[n]].ref : n \in DOMAIN preserved} \ {0} |->
       IF \E n \in DOMAIN preserved : preserved[n] = i
       THEN imported + CHOOSE n \in DOMAIN preserved : preserved[n] = i
       ELSE Along(appended, 1, PathOf(previous, i))]
OverlayOn(previous, image, preserved) ==
    With(Appended(image, previous, preserved, 1), LAMBDA appended :
         IF appended = Failed THEN Failed
         ELSE With(ResolvedIn(appended, Len(image), previous, preserved), LAMBDA resolved :
                   IF \E i \in DOMAIN resolved : resolved[i] = 0 THEN Failed
                   ELSE [p \in DOMAIN appended |->
                           IF p <= Len(image) \/ appended[p].ref = 0 THEN appended[p]
                           ELSE [appended[p] EXCEPT !.ref = resolved[@]]]))
Overlay(L, image) ==
    With(Capture(L, 0), LAMBDA capture :
         IF capture = Failed THEN Failed
         ELSE OverlayOn(capture.phrases, image, Preserved(capture.phrases, image)))

-----------------------------------------------------------------------------
(* A linked image holds the phrases since the checkpoint; the others are named by *)
(* path and by how many newer versions of it the exporting session had.           *)
RECURSIVE Depth(_, _, _)
Depth(L, visible, p) == IF visible = p THEN 0 ELSE 1 + Depth(L, Older(L, visible), p)
Describable(L, p, visible) == visible # 0 /\ p \in Versions(L, visible)
Describe(L, p) == With(PathOf(L, p), LAMBDA path : [path |-> path, older |-> Depth(L, Along(L, 1, path), p)])
RECURSIVE Back(_, _, _)
Back(L, p, n) == IF n = 0 \/ p = 0 THEN p ELSE Back(L, Older(L, p), n - 1)
Resolve(L, external) == Back(L, Along(L, 1, external.path), external.older)

Linked(owner, ref, record) == [record EXCEPT !.owner = owner, !.ref = ref]
LinkedId(L, ids, p) ==
    CASE p = 0 -> [none |-> TRUE]
      [] p # 0 /\ p \in DOMAIN ids -> [local |-> ids[p]]
      [] OTHER -> [external |-> Describe(L, p)]
CaptureLinkedOf(L, kept, local, ids) ==
    With(Existing(UNION {{L[p].owner, L[p].ref} : p \in ToSet(local)} \ DOMAIN ids), LAMBDA external :
         IF \/ \E p \in kept : L[p].hidden
            \/ \E p \in external : ~Describable(L, p, Along(L, 1, PathOf(L, p)))
         THEN Failed
         ELSE [sources |-> local,
               external |-> {Describe(L, p) : p \in external},
               phrases |-> [i \in DOMAIN local |->
                              With(L[local[i]], LAMBDA record :
                                   Linked(LinkedId(L, ids, record.owner), LinkedId(L, ids, record.ref), record))]])
CaptureLinked(L, since) ==
    With(Captured(L, since), LAMBDA kept :
    With(SelectSeq(Canonical(L, kept, <<1>>, 1), LAMBDA p : p >= since), LAMBDA local :
         CaptureLinkedOf(L, kept, local, Ids(local))))

Resolved(L, id) ==
    CASE "none" \in DOMAIN id -> 0
      [] "local" \in DOMAIN id -> Len(L) + id.local
      [] "external" \in DOMAIN id -> Resolve(L, id.external)
ApplyLinked(L, image) ==
    With([i \in DOMAIN image.phrases |->
            Linked(Resolved(L, image.phrases[i].owner), Resolved(L, image.phrases[i].ref), image.phrases[i])], LAMBDA added :
         IF \/ \E external \in image.external : Resolve(L, external) = 0
            \/ \E p \in DOMAIN added : ~(L \o added)[added[p].owner].dict
         THEN Failed ELSE L \o added)

-----------------------------------------------------------------------------
(* Merges: what is there stays, what is missing is added.                       *)
RECURSIVE MergeRecords(_, _, _, _)
MergeRecords(L, image, at, i) ==
    IF i > Len(image) THEN [lexicon |-> L, at |-> at]
    ELSE With(at[image[i].owner], LAMBDA owner : With(Exact(L, owner, image[i].key), LAMBDA existing :
              IF ~L[owner].dict \/ (existing # 0 /\ image[i].dict /\ ~L[existing].dict)
              THEN [lexicon |-> Failed, at |-> at]
              ELSE IF existing # 0 THEN MergeRecords(L, image, Append(at, existing), i + 1)
              ELSE MergeRecords(Append(L, [image[i] EXCEPT !.owner = owner]), image, Append(at, Len(L) + 1), i + 1)))
Redirected(L, created, To(_)) ==
    IF L = Failed THEN Failed ELSE [p \in DOMAIN L |-> IF p \in created THEN [L[p] EXCEPT !.ref = To(p)] ELSE L[p]]
MergeSnapshot(L, image, target) ==
    With(MergeRecords(L, image, <<target>>, 2), LAMBDA merged :
         Redirected(merged.lexicon, (Len(L) + 1)..Len(merged.lexicon),
                    LAMBDA p : Known(merged.at, image[CHOOSE i \in DOMAIN image : merged.at[i] = p].ref)))

(* The same within one lexicon, without an image; here phrases that are not *)
(* serializable are copied too.                                              *)
Populated(L, p) == SetToSortSeq({q \in DOMAIN L : L[q].owner = p /\ Visible(L, q)}, LAMBDA q, r : L[q].key < L[r].key)
RECURSIVE MergeEntries(_, _, _)
Nested(sources, target) == [i \in DOMAIN sources |-> [source |-> sources[i], target |-> target]]
MergeEntry(L, entry, existing) ==
    IF existing # 0 THEN L ELSE Append(L, [L[entry.source] EXCEPT !.owner = entry.target, !.hidden = FALSE])
MergeEntries(L, pending, mapped) ==
    IF pending = <<>> THEN [lexicon |-> L, mapped |-> mapped]
    ELSE With(Last(pending), LAMBDA entry :
         With(Exact(L, entry.target, L[entry.source].key), LAMBDA existing :
         With(MergeEntry(L, entry, existing), LAMBDA grown :
         With(IF existing # 0 THEN existing ELSE Len(L) + 1, LAMBDA destination :
              IF existing # 0 /\ L[entry.source].dict /\ ~L[existing].dict
              THEN [lexicon |-> Failed, mapped |-> mapped]
              ELSE MergeEntries(grown, Front(pending) \o Nested(Populated(grown, entry.source), destination),
                                mapped \cup {<<entry.source, destination>>})))))
Mapped(mapped, p) ==
    With({pair \in mapped : pair[1] = p}, LAMBDA pairs : IF pairs = {} THEN p ELSE (CHOOSE pair \in pairs : TRUE)[2])
MergeDictionary(L, source, target) ==
    With(MergeEntries(L, Nested(Populated(L, source), target), {<<source, target>>}), LAMBDA merged :
         Redirected(merged.lexicon, (Len(L) + 1)..Len(merged.lexicon),
                    LAMBDA p : Mapped(merged.mapped, merged.lexicon[p].ref)))

-----------------------------------------------------------------------------
(* A promotion undoes a request except for the chosen phrases and what they own. *)
Selection(L, roots) == Closure(roots, LAMBDA p : Children(L, p))
Required(L, since, selected, p) ==
    {L[p].owner, L[p].ref} \subseteq {0} \cup selected \cup 1..(since - 1)
RECURSIVE Replayed(_, _, _, _)
Replayed(result, L, order, at) ==
    IF order = <<>> THEN [lexicon |-> result, at |-> at]
    ELSE LET owner == at[L[Head(order)].owner]
         IN  Replayed(Append(result, [L[Head(order)] EXCEPT !.owner = owner]), L, Tail(order),
                      [at EXCEPT ![Head(order)] = Len(result) + 1])
Refused(L, since, selected, captured) ==
    \/ captured = Failed
    \/ \E p \in selected : L[p].hidden \/ ~Required(L, since, selected, p)
    \/ ~(selected \subseteq ToSet(captured.sources))
Promote(L, since, selected, captured) ==
    IF Refused(L, since, selected, captured) THEN Failed
    ELSE With(Replayed(SubSeq(L, 1, since - 1), L, SelectSeq(captured.sources, LAMBDA p : p \in selected),
                       [p \in 0..Len(L) |-> IF p < since THEN p ELSE 0]), LAMBDA replayed :
              Redirected(replayed.lexicon, since..Len(replayed.lexicon), LAMBDA p : replayed.at[replayed.lexicon[p].ref]))

-----------------------------------------------------------------------------
(* Loading an image loads what it depends on first, and nothing twice.         *)
Session == [loaded |-> {}, applied |-> <<>>, failed |-> FALSE]
Remember(session, path, file) ==
    [session EXCEPT !.applied = Append(@, path),
                    !.loaded = @ \cup {file.identity} \cup {d.identity : d \in ToSet(file.dependencies)}]
RECURSIVE LoadImage(_, _, _, _), LoadAll(_, _, _)
LoadImage(session, path, expected, loading) ==
    LET file == files[path]
    IN  IF session.failed \/ expected \in session.loaded THEN session
        ELSE IF path \notin DOMAIN files THEN [session EXCEPT !.failed = TRUE]
        ELSE IF expected # 0 /\ file.identity # expected THEN [session EXCEPT !.failed = TRUE]
        ELSE IF file.identity \in session.loaded THEN session
        ELSE IF file.identity \in loading THEN [session EXCEPT !.failed = TRUE]
        ELSE With(LoadAll(session, file.dependencies, loading \cup {file.identity}), LAMBDA after :
                  IF after.failed THEN after ELSE Remember(after, path, file))
LoadAll(session, dependencies, loading) ==
    IF dependencies = <<>> THEN session
    ELSE LoadAll(LoadImage(session, Head(dependencies).path, Head(dependencies).identity, loading),
                 Tail(dependencies), loading)
Load(session, path) == LoadImage(session, path, 0, {})
-----------------------------------------------------------------------------
(* A session defines phrases, one names another, a request begins.              *)
Kinds(L) ==
    {"plain"} \cup IF Len(L) = MaxPhrases THEN {}
                  ELSE {"dictionary"} \cup IF \E p \in DOMAIN L : L[p].hidden THEN {} ELSE {"hidden"}
Define ==
    /\ Len(lexicon) <= MaxPhrases
    /\ \E owner \in {p \in Found(lexicon) : lexicon[p].dict}, kind \in Kinds(lexicon) :
         \E key \in IF kind = "hidden" THEN Hidden ELSE Keys,
            ref \in {0} \cup IF kind = "plain" /\ Len(lexicon) > 1 THEN {2, Len(lexicon)} ELSE {} :
            lexicon' = Append(lexicon, [owner |-> owner, key |-> key, dict |-> kind = "dictionary", ref |-> ref,
                                        hidden |-> kind = "hidden", what |-> Len(lexicon)])
    /\ UNCHANGED <<checkpoint, files>>
Name ==
    /\ Len(lexicon) = MaxPhrases + 1
    /\ \E p \in DOMAIN lexicon \ {1} :
         /\ p >= checkpoint /\ checkpoint # 0 /\ lexicon[p].dict /\ lexicon[p].ref = 0
         /\ lexicon' = [lexicon EXCEPT ![p].ref = Len(lexicon)]
    /\ UNCHANGED <<checkpoint, files>>
Begin ==
    /\ checkpoint = 0 /\ Len(lexicon) \in 2..(MaxPhrases - 1) /\ checkpoint' = Len(lexicon) + 1
    /\ UNCHANGED <<lexicon, files>>
Init ==
    /\ checkpoint = 0
    /\ \/ lexicon = <<Root>> /\ files = <<>>
       \/ lexicon = <<>> /\ files \in Graphs
Next == lexicon # <<>> /\ (Define \/ Name \/ Begin)

-----------------------------------------------------------------------------
(* What a lexicon means, whatever its addresses: of every phrase that can be    *)
(* found or is named by one that can, where it is, what it names and what can be *)
(* found in it.                                                                   *)
Reached(L) == Closure({1}, LAMBDA p : Children(L, p) \cup Existing({L[p].owner, L[p].ref}))
What(L, p) == IF p = 0 THEN <<>> ELSE <<L[p].what>>
Fact(L, p) == [what |-> L[p].what, key |-> L[p].key, dict |-> L[p].dict, owner |-> What(L, L[p].owner),
               ref |-> What(L, L[p].ref), children |-> {What(L, q) : q \in Children(L, p)}]
Facts(L) == {Fact(L, p) : p \in Reached(L)}

Base == SubSeq(lexicon, 1, checkpoint - 1)
Single(L) == \A p, q \in DOMAIN L : PathOf(L, p) = PathOf(L, q) => p = q
Shareable(L) == \A p \in Reached(L) : ~L[p].hidden
Redefined == \E p \in Found(Base) \ Found(lexicon) : lexicon[p].dict

(* A full image is refused exactly when something in it names a phrase that is not *)
(* serializable; else it restores the lexicon's meaning, and what it restores is    *)
(* saved as the same image.                                                         *)
FullMeans(image, facts) ==
    /\ (image = Failed) <=> ~Shareable(lexicon)
    /\ image # Failed =>
         /\ Facts(Restore(image)) = facts
         /\ Capture(Restore(image), 0).phrases = image.phrases

(* A linked image loads over the base it was made on, and over that base restored  *)
(* from an image of its own, and brings back the exporting session, as long as what *)
(* it names of the base is still found under its path.                              *)
NamesVisible(image) == \A external \in image.external : external.older = 0
LinkedMeans(facts) ==
    checkpoint # 0 /\ Shareable(lexicon) /\ ~Redefined =>
      \A image \in {CaptureLinked(lexicon, checkpoint)}, base \in {Capture(Base, 0)} :
        image # Failed /\ base # Failed /\ NamesVisible(image) =>
          \A under \in {Base, Restore(base)} : Facts(ApplyLinked(under, image)) = facts

(* Merging one dictionary of a lexicon into another adds what the other lacks and  *)
(* changes nothing that is there; a copy names the copy, or what took its place,    *)
(* where the original named a phrase of its dictionary. A dictionary merged into    *)
(* one of its own is excluded: the walk would never end.                            *)
RECURSIVE Below(_, _)
Below(L, p) == {<<>>} \cup UNION {{<<L[q].key>> \o path : path \in Below(L, q)} : q \in ToSet(Populated(L, p))}
Named(L, result, source, target, paths, ref) ==
    With({path \in paths : Along(L, source, path) = ref}, LAMBDA inside :
         IF inside = {} THEN ref ELSE Along(result, target, CHOOSE path \in inside : TRUE))
MergeKeeps(L, source, target) ==
    \A result \in {MergeDictionary(L, source, target)}, paths \in {Below(L, source)} : result # Failed =>
      /\ SubSeq(result, 1, Len(L)) = L
      /\ \A path \in paths :
           \A copy \in {Along(result, target, path)}, original \in {L[Along(L, source, path)]} :
             /\ copy # 0
             /\ copy > Len(L) => /\ result[copy].what = original.what
                                 /\ result[copy].ref = IF original.ref = 0 THEN 0
                                                       ELSE Named(L, result, source, target, paths, original.ref)
MergeMeans ==
    checkpoint = 0 /\ lexicon # <<>> =>
      \A source, target \in {p \in Found(lexicon) : lexicon[p].dict} :
        (\A path \in Below(lexicon, source) : Along(lexicon, source, path) # target)
          => MergeKeeps(lexicon, source, target)

(* A partial image imported over its base, and a merge of the full image into it,  *)
(* bring back the exporting session when no phrase shadows another.                *)
ImportsMean(full, partial, facts) ==
    checkpoint # 0 /\ Shareable(lexicon) /\ Single(lexicon) =>
      /\ Facts(Overlay(Base, partial.phrases)) = facts
      /\ Facts(MergeSnapshot(Base, full.phrases, 1)) = facts

(* A promotion that is allowed replays what was chosen with its meaning, changes  *)
(* nothing before the checkpoint and keeps nothing else.                          *)
PromotionMeans(partial) ==
    checkpoint # 0 =>
      \A selected \in {Selection(lexicon, {p, q}) : p, q \in checkpoint..Len(lexicon)} :
        \A result \in {Promote(lexicon, checkpoint, selected, partial)} : result # Failed =>
          /\ SubSeq(result, 1, checkpoint - 1) = Base
          /\ Len(result) = checkpoint - 1 + Cardinality(selected)
          /\ \A p \in selected : \A new \in {CHOOSE q \in DOMAIN result : result[q].what = lexicon[p].what} :
               Fact(result, new) = Fact(lexicon, p)

(* Dependencies are applied before what names them, under the identity it names,  *)
(* nothing twice, and the image asked for last (2218-2277).                        *)
LoadsInOrder ==
    files # <<>> =>
      \A session \in {Load(Session, "a")} :
        /\ \A m, n \in DOMAIN session.applied :
             m # n => files[session.applied[m]].identity # files[session.applied[n]].identity
        /\ ~session.failed => session.applied # <<>> /\ Last(session.applied) = "a"
        /\ \A n \in DOMAIN session.applied : \A d \in ToSet(files[session.applied[n]].dependencies) :
             \E m \in 1..(n - 1) : files[session.applied[m]].identity = d.identity

Means ==
    /\ lexicon # <<>> =>
         \A facts \in {Facts(lexicon)}, full \in {Capture(lexicon, 0)}, partial \in {Capture(lexicon, checkpoint)} :
           /\ FullMeans(full, facts) /\ LinkedMeans(facts) /\ ImportsMean(full, partial, facts) /\ MergeMeans
           /\ PromotionMeans(partial)
    /\ LoadsInOrder
=============================================================================
