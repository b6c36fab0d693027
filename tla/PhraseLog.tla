----------------------------- MODULE PhraseLog -----------------------------
(***************************************************************************)
(* What the language sees of the lexicon: phrases in the order in which    *)
(* they were defined, each in a dictionary, under a key, and a stack of    *)
(* open scopes that can be undone.  A dictionary is the root (0) or the    *)
(* position in the log of the phrase that owns it, so the specification    *)
(* knows nothing of addresses, nodes or memory.                            *)
(***************************************************************************)
EXTENDS Naturals, Sequences, SequencesExt

CONSTANTS Keys,    \* the keys phrases are defined under
          Kinds    \* [owner, permanent]: whether a phrase has a dictionary, and may not be shadowed

VARIABLES log,    \* the phrases, oldest first
          marks   \* for each open scope, how many phrases preceded it

vars == <<log, marks>>

Phrases == [dict: Nat, key: Keys, owner: BOOLEAN, permanent: BOOLEAN, payload: Nat]

Dictionaries == {0} \cup {i \in DOMAIN log : log[i].owner}

(* The position of the newest phrase of key k in dictionary d, 0 if there  *)
(* is none.                                                                *)
NewestIn(phrases, d, k) ==
  LET found == {i \in DOMAIN phrases : phrases[i].dict = d /\ phrases[i].key = k}
  IN  IF found = {} THEN 0 ELSE CHOOSE i \in found : \A j \in found : j <= i

(* A permanent phrase is never shadowed. *)
MayDefine(d, k) == LET i == NewestIn(log, d, k) IN i # 0 => ~log[i].permanent

Init == log = <<>> /\ marks = <<>>

(* One phrase is added, without payload, to a dictionary that exists. *)
Define ==
  /\ Len(log') = Len(log) + 1
  /\ LET added == Last(log')
     IN  /\ log' = Append(log, added)
         /\ added \in Phrases /\ added.dict \in Dictionaries
         /\ [owner |-> added.owner, permanent |-> added.permanent] \in Kinds
         /\ added.payload = 0
         /\ MayDefine(added.dict, added.key)

DefinePhrase == Define /\ UNCHANGED marks

(* Only the newest phrase can still take payload. *)
Extend ==
  /\ log # <<>>
  /\ log' = [log EXCEPT ![Len(log)].payload = @ + 1]
  /\ UNCHANGED marks

(* Opening a scope defines the phrase that will close it. *)
Open ==
  /\ Define
  /\ Last(log').owner = FALSE /\ Last(log').permanent = FALSE
  /\ marks' = Append(marks, Len(log))

Rollback(i) ==
  /\ i \in DOMAIN marks
  /\ log' = SubSeq(log, 1, marks[i])
  /\ marks' = SubSeq(marks, 1, i - 1)

Commit(i) ==
  /\ i \in DOMAIN marks
  /\ marks' = SubSeq(marks, 1, i - 1)
  /\ UNCHANGED log

Next ==
  \/ DefinePhrase
  \/ Extend
  \/ Open
  \/ \E i \in DOMAIN marks : Rollback(i) \/ Commit(i)

LogSpec == Init /\ [][Next]_vars
=============================================================================
