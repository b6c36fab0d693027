------------------------------ MODULE MCLexicon ------------------------------
(* The lexicon: the programs and texts of the run of RadixTree and, beside it,     *)
(* images of small lexicons. `part` says which one a behaviour is of; the variables *)
(* of the other stand still.                                                        *)
EXTENDS RadixTree, TLC

CONSTANT MaxPhrases
VARIABLES part, lexicon, checkpoint, files
images == <<lexicon, checkpoint, files>>

(* One key ends inside two others, which part in the middle of an edge; two *)
(* nested scopes and room for three phrases.                                *)
Plainly == [keys |-> {<<0>>, <<0, 1, 0>>, <<0, 1, 1>>, <<1>>}, kinds |-> {Plain},
            memory |-> 14, scopes |-> 2]

(* Each key splits the edge of the other, some phrases are permanent and    *)
(* have dictionaries of their own.                                          *)
Varied == [keys |-> {<<0, 0>>, <<0, 1>>},
           kinds |-> {Plain, [owner |-> TRUE, permanent |-> TRUE]},
           memory |-> 12, scopes |-> 1]

(* While images are looked at the tree stays empty. *)
Nothing == [keys |-> {}, kinds |-> {}, memory |-> 2, scopes |-> 0]

MCPrograms == {Plainly, Varied, Nothing}

MCProbes == {<<>>, <<0>>, <<0, 1>>, <<1>>, <<0, 1, 1>>, <<0, 1, 0, 1>>}

(* Images that name each other, a file that is lost and one that has changed.   *)
Links == { [path |-> "b", identity |-> 2], [path |-> "c", identity |-> 3], [path |-> "b", identity |-> 3],
           [path |-> "a", identity |-> 1], [path |-> "lost", identity |-> 4] }
Lists == {<<>>} \cup {<<d>> : d \in Links} \cup {<<d, e>> : d, e \in Links}
I == INSTANCE EngineImage WITH
       Keys <- {1, 2}, Hidden <- {3},
       Graphs <- { "a" :> [identity |-> 1, dependencies |-> a] @@ "b" :> [identity |-> 2, dependencies |-> b]
                   @@ "c" :> [identity |-> i, dependencies |-> c] :
                     a, b \in Lists, c \in {<<>>} \cup {<<d>> : d \in Links}, i \in {2, 3} }

ImagesIdle == lexicon = <<>> /\ checkpoint = 0 /\ files = <<>>
LexiconInit ==
    \/ part = "tree" /\ Init /\ program # Nothing /\ ImagesIdle
    \/ part = "images" /\ I!Init /\ Init /\ program = Nothing
LexiconNext ==
    /\ UNCHANGED part
    /\ \/ part = "tree" /\ Next /\ UNCHANGED images
       \/ part = "images" /\ I!Next /\ UNCHANGED vars
LexiconSpec == LexiconInit /\ [][LexiconNext]_<<vars, part, images>>

(* What an image of the lexicon means survives export and import in each of its     *)
(* forms, a restored lexicon is saved as the same image, a merge changes nothing that *)
(* is there, a promotion keeps what was chosen and nothing else, and images are       *)
(* applied after what they name, once (EngineImage.cpp 416-733, 1038-1153, 1346-1411, *)
(* 1737-2216, 2218-2386).                                                             *)
ImagesMean == part = "images" => I!Means
==============================================================================
