---------------------------- MODULE ConsoleProofs ----------------------------
(***************************************************************************)
(* Proofs about Console, for any number of commands, of lines typed into    *)
(* them and of Ctrl+C.                                                      *)
(***************************************************************************)
EXTENDS Console, WellFoundedInduction, FiniteSetTheorems, TLAPS

(***************************************************************************)
(* Induction over the natural numbers, stated about sets.                   *)
(***************************************************************************)
(* A nonempty set of natural numbers has a least element. *)
LEMMA LeastNatural ==
  ASSUME NEW S \in SUBSET Nat, S # {}
  PROVE  \E x \in S : \A y \in S : x <= y
<1> DEFINE Less == {p \in Nat \X Nat : p[1] < p[2]}
<1>1. IsWellFoundedOn(Less, Nat)
  <2>1. OpToRel(<, Nat) = Less
    BY DEF OpToRel
  <2> QED
    BY <2>1, NatLessThanWellFounded
<1>2. \A x, y \in Nat : <<y, x>> \in Less <=> y < x
  OBVIOUS
<1> HIDE DEF Less
<1>3. PICK x \in S : \A y \in S : ~(<<y, x>> \in Less)
  BY <1>1, WFMin
<1>4. ASSUME NEW y \in S PROVE x <= y
  <2>1. x \in Nat /\ y \in Nat
    OBVIOUS
  <2>2. ~(y < x)
    BY <1>2, <1>3, <2>1
  <2> QED
    BY <2>1, <2>2
<1> QED
  BY <1>4

(* A set that holds 0 and with every number the next one holds them all. *)
LEMMA SetInduction ==
  ASSUME NEW S \in SUBSET Nat, 0 \in S, \A n \in S : n + 1 \in S
  PROVE  S = Nat
<1> SUFFICES ASSUME Nat \ S # {} PROVE FALSE
  OBVIOUS
<1>1. PICK x \in Nat \ S : \A y \in Nat \ S : x <= y
  BY LeastNatural
<1>2. x # 0 /\ x - 1 \in Nat
  BY <1>1
<1>3. x - 1 \in S
  BY <1>1, <1>2
<1> QED
  BY <1>1, <1>2, <1>3

(***************************************************************************)
(* The lines of a chunk.                                                    *)
(***************************************************************************)
Keep(chunk, f, i) ==
  IF i = 0 THEN <<>> ELSE IF IsLine(chunk[i]) THEN Append(f[i - 1], chunk[i]) ELSE f[i - 1]

(* The recursion of LinesOf has a solution. *)
LEMMA KeptExists ==
  ASSUME NEW chunk, NEW n \in Nat
  PROVE  \E f : f = [i \in 0 .. n |-> Keep(chunk, f, i)]
<1> DEFINE Solved == {m \in Nat : \E f : f = [i \in 0 .. m |-> Keep(chunk, f, i)]}
<1>1. 0 \in Solved
  <2>1. [i \in 0 .. 0 |-> <<>>] = [i \in 0 .. 0 |-> Keep(chunk, [j \in 0 .. 0 |-> <<>>], i)]
    BY DEF Keep
  <2> QED
    BY <2>1
<1>2. ASSUME NEW m \in Solved PROVE m + 1 \in Solved
  <2>1. PICK f : f = [i \in 0 .. m |-> Keep(chunk, f, i)]
    OBVIOUS
  <2> DEFINE g == [i \in 0 .. m + 1 |-> IF i = m + 1 THEN Keep(chunk, f, m + 1) ELSE f[i]]
  <2>2. ASSUME NEW i \in 0 .. m + 1 PROVE g[i] = Keep(chunk, g, i)
    <3>1. CASE i = m + 1
      <4>1. i - 1 = m /\ m \in 0 .. m + 1 /\ m # m + 1
        BY <3>1
      <4>2. g[i - 1] = f[i - 1]
        BY <4>1
      <4> QED
        BY <3>1, <4>2 DEF Keep
    <3>2. CASE i # m + 1
      <4>1. i \in 0 .. m
        BY <3>2
      <4>2. f[i] = Keep(chunk, f, i)
        BY <2>1, <4>1
      <4>3. i # 0 => g[i - 1] = f[i - 1]
        BY <4>1
      <4> QED
        BY <3>2, <4>2, <4>3 DEF Keep
    <3> QED
      BY <3>1, <3>2
  <2>3. g = [i \in 0 .. m + 1 |-> Keep(chunk, g, i)]
    BY <2>2
  <2> HIDE DEF g
  <2> QED
    BY <2>3
<1> HIDE DEF Solved
<1>3. Solved = Nat
  <2>1. Solved \in SUBSET Nat
    BY DEF Solved
  <2> QED
    BY <1>1, <1>2, <2>1, SetInduction
<1> QED
  BY <1>3 DEF Solved

(* What the lines kept of the first i messages are: those among them that   *)
(* are lines, in their order.                                               *)
LinesAt(chunk, i, kept, at) ==
  /\ at \in [1 .. Len(kept) -> 1 .. i]
  /\ \A j \in 1 .. Len(kept) : kept[j] = chunk[at[j]] /\ IsLine(kept[j])
  /\ \A j, k \in 1 .. Len(kept) : j < k => at[j] < at[k]
  /\ \A x \in 1 .. i : IsLine(chunk[x]) => \E j \in 1 .. Len(kept) : at[j] = x

(* The connection's buffer gets the lines of a chunk of any length, all of  *)
(* them and in their order, whatever Ctrl+C bytes stand between them         *)
(* (the splitting of a read in serveUnixClient).                             *)
THEOREM LinesOfIsOrdered ==
  ASSUME NEW S, NEW chunk \in Seq(S)
  PROVE  LinesOf(chunk) \in Seq(S) /\ \E at : LinesAt(chunk, Len(chunk), LinesOf(chunk), at)
<1> DEFINE n == Len(chunk)
<1> DEFINE F == CHOOSE f : f = [i \in 0 .. n |-> Keep(chunk, f, i)]
<1>1. n \in Nat
  OBVIOUS
<1>2. LinesOf(chunk) = F[n]
  BY DEF LinesOf, Keep
<1>3. F = [i \in 0 .. n |-> Keep(chunk, F, i)]
  BY <1>1, KeptExists
<1> HIDE DEF F
<1> DEFINE Kept == {i \in Nat : i \in 0 .. n => F[i] \in Seq(S) /\ \E at : LinesAt(chunk, i, F[i], at)}
<1>4. 0 \in Kept
  <2>1. F[0] = <<>>
    BY <1>1, <1>3 DEF Keep
  <2>2. F[0] \in Seq(S) /\ Len(F[0]) = 0
    BY <2>1
  <2>3. LinesAt(chunk, 0, F[0], [j \in {} |-> 0])
    BY <2>2 DEF LinesAt
  <2> QED
    BY <2>2, <2>3
<1>5. ASSUME NEW i \in Kept PROVE i + 1 \in Kept
  <2> SUFFICES ASSUME i + 1 \in 0 .. n
               PROVE  F[i + 1] \in Seq(S) /\ \E at : LinesAt(chunk, i + 1, F[i + 1], at)
    OBVIOUS
  <2>1. i \in Nat /\ i \in 0 .. n /\ i + 1 \in 1 .. n /\ (i + 1) - 1 = i /\ i + 1 # 0
    BY <1>1
  <2>2. F[i + 1] = IF IsLine(chunk[i + 1]) THEN Append(F[i], chunk[i + 1]) ELSE F[i]
    BY <1>3, <2>1 DEF Keep
  <2>3. F[i] \in Seq(S)
    BY <2>1
  <2>4. PICK at : LinesAt(chunk, i, F[i], at)
    BY <2>1
  <2> DEFINE k == Len(F[i])
  <2>5. CASE IsLine(chunk[i + 1])
    <3>1. F[i + 1] = Append(F[i], chunk[i + 1]) /\ chunk[i + 1] \in S
      BY <2>1, <2>2, <2>5
    <3>2. /\ F[i + 1] \in Seq(S) /\ Len(F[i + 1]) = k + 1 /\ k \in Nat
          /\ F[i + 1][k + 1] = chunk[i + 1]
          /\ \A j \in 1 .. k : F[i + 1][j] = F[i][j]
      BY <2>3, <3>1
    <3> DEFINE to == [j \in 1 .. k + 1 |-> IF j = k + 1 THEN i + 1 ELSE at[j]]
    <3>3. LinesAt(chunk, i + 1, F[i + 1], to)
      <4>1. to \in [1 .. k + 1 -> 1 .. i + 1]
        BY <2>1, <2>4, <3>2 DEF LinesAt
      <4>2. \A j \in 1 .. k + 1 : F[i + 1][j] = chunk[to[j]] /\ IsLine(F[i + 1][j])
        BY <2>4, <2>5, <3>2 DEF LinesAt
      <4>3. ASSUME NEW j \in 1 .. k + 1, NEW l \in 1 .. k + 1, j < l PROVE to[j] < to[l]
        <5>1. j \in 1 .. k /\ to[j] = at[j] /\ at[j] \in 1 .. i
          <6>1. j \in 1 .. k /\ j # k + 1
            BY <3>2, <4>3
          <6>2. at \in [1 .. k -> 1 .. i]
            BY <2>4 DEF LinesAt
          <6> QED
            BY <4>3, <6>1, <6>2
        <5>2. CASE l = k + 1
          BY <2>1, <5>1, <5>2
        <5>3. CASE l # k + 1
          <6>1. l \in 1 .. k /\ to[l] = at[l]
            BY <3>2, <5>3
          <6> QED
            BY <2>4, <4>3, <5>1, <6>1 DEF LinesAt
        <5> QED
          BY <5>2, <5>3
      <4>4. \A x \in 1 .. i + 1 : IsLine(chunk[x]) => \E j \in 1 .. k + 1 : to[j] = x
        <5> SUFFICES ASSUME NEW x \in 1 .. i + 1, IsLine(chunk[x]) PROVE \E j \in 1 .. k + 1 : to[j] = x
          OBVIOUS
        <5>1. CASE x = i + 1
          BY <3>2, <5>1
        <5>2. CASE x # i + 1
          <6>1. x \in 1 .. i
            BY <2>1, <5>2
          <6>2. PICK j \in 1 .. k : at[j] = x
            BY <2>4, <6>1 DEF LinesAt
          <6>3. j \in 1 .. k + 1 /\ j # k + 1
            BY <3>2, <6>2
          <6> QED
            BY <6>2, <6>3
        <5> QED
          BY <5>1, <5>2
      <4> HIDE DEF to
      <4> QED
        BY <3>2, <4>1, <4>2, <4>3, <4>4 DEF LinesAt
    <3> HIDE DEF to
    <3> QED
      BY <3>2, <3>3
  <2>6. CASE ~IsLine(chunk[i + 1])
    <3>1. F[i + 1] = F[i]
      BY <2>2, <2>6
    <3>2. LinesAt(chunk, i + 1, F[i], at)
      BY <2>1, <2>3, <2>4, <2>6 DEF LinesAt
    <3> QED
      BY <2>3, <3>1, <3>2
  <2> QED
    BY <2>5, <2>6
<1> HIDE DEF Kept
<1>6. Kept = Nat
  <2>1. Kept \in SUBSET Nat
    BY DEF Kept
  <2> QED
    BY <1>4, <1>5, <2>1, SetInduction
<1> QED
  BY <1>1, <1>2, <1>6 DEF Kept

-----------------------------------------------------------------------------
(***************************************************************************)
(* The inductive invariant.  The two directions of the connection carry one *)
(* exchange at a time.  What the connection has not taken yet is its buffer *)
(* and, behind it, what is on its way; it holds one request at most, the    *)
(* last command's; what was sent before that request belongs to the command *)
(* before, what was sent behind it, or when none is left, to the last one.  *)
(***************************************************************************)
Messages == [kind : Kinds, n : Nat]
Frames == [kind : {"O", "P"}, n : Nat]
Asking == {"waiting", "asking"}

Consoles ==
  [phase : {"editing", "waiting", "asking", "gone"}, n : 0 .. Commands, typed : SUBSET Nat, pressed : Nat]
Connections ==
  [at : {"recv", "lines", "running", "closing", "closed"}, buffer : Seq(Messages), current : Nat,
   needs : Nat, level : Nat, worker : {"none", "starting", "busy", "done"}]

TypeOK ==
  /\ client \in Consoles
  /\ toServer \in Seq(Messages)
  /\ toClient \in Seq(Frames)
  /\ conn \in Connections
  /\ late \subseteq Nat
  /\ hits \subseteq Nat \X Nat
  /\ inputs \subseteq Nat \X Nat
  /\ refused \subseteq Nat

IsAsk(m) == m.kind \in {"evaluate", "complete", "highlight"}

(* What every message says of its sender. *)
Honest(s, typed) ==
  \A i \in 1 .. Len(s) :
    /\ s[i].kind = "stdin" => s[i].n \in typed
    /\ s[i].kind = "interrupt" \/ IsAsk(s[i]) => s[i].n # 0
    /\ s[i].kind = "console" => s[i].n = 0

NoneAsked(s, n) == \A i \in 1 .. Len(s) : s[i].n = n /\ ~IsAsk(s[i])

Asked(s, n, i) ==
  /\ i \in 1 .. Len(s) /\ IsAsk(s[i]) /\ s[i].n = n
  /\ \A j \in 1 .. Len(s) : j < i => s[j].n + 1 = n /\ ~IsAsk(s[j])
  /\ \A j \in 1 .. Len(s) : j > i => s[j].n = n /\ ~IsAsk(s[j])

OneAsked(s, n) == \E i \in 1 .. Len(s) : Asked(s, n, i)

NonePending == NoneAsked(conn.buffer, client.n) /\ NoneAsked(toServer, client.n)
OnItsWay ==
  /\ client.phase # "editing" /\ conn.at \in {"recv", "lines"}
  /\ \A i \in 1 .. Len(conn.buffer) : conn.buffer[i].n + 1 = client.n /\ ~IsAsk(conn.buffer[i])
  /\ OneAsked(toServer, client.n)
InBuffer ==
  /\ client.phase # "editing" /\ conn.at = "lines"
  /\ OneAsked(conn.buffer, client.n)
  /\ NoneAsked(toServer, client.n)

Exchange ==
  /\ conn.at = "recv" => conn.buffer = <<>>
  /\ \A i \in 1 .. Len(conn.buffer) : IsLine(conn.buffer[i])
  /\ conn.at # "closed" =>
       /\ Honest(conn.buffer, client.typed) /\ Honest(toServer, client.typed)
       /\ NonePending \/ OnItsWay \/ InBuffer

(* A command that can be interrupted was sent by Enter. *)
Struck == \E i \in 1 .. Len(toServer) : IsInterrupt(toServer[i]) /\ toServer[i].n = client.n
StruckIsEvaluated ==
  conn.at # "closed" /\ (client.phase = "waiting" \/ Struck) =>
    /\ \A i \in 1 .. Len(toServer) : IsAsk(toServer[i]) => toServer[i].kind = "evaluate"
    /\ \A i \in 1 .. Len(conn.buffer) : IsAsk(conn.buffer[i]) => conn.buffer[i].kind = "evaluate"

(* The request that runs is the last command, and its console waits for it. *)
RunsTheLast ==
  /\ conn.at = "running" => conn.current = client.n /\ client.phase # "editing"
  /\ conn.at = "closing" => Gone
  /\ client.phase \in Asking => client.n # 0

(* Frames are for the last command, and the completion frame is sent last. *)
RepliesInStep ==
  /\ client.phase = "editing" => toClient = <<>>
  /\ client.phase \in Asking =>
       /\ \A i \in 1 .. Len(toClient) : toClient[i].n = client.n
       /\ \A i \in 1 .. Len(toClient) : toClient[i].kind = "P" => i = Len(toClient)
       /\ conn.at # "closed" /\ (\E i \in 1 .. Len(toClient) : toClient[i].kind = "P") =>
            conn.at # "running" /\ NonePending

(* A Ctrl+C kept for later stands behind a line of its own command. *)
LateIsExcused ==
  conn.at # "closed" =>
    \A n \in late :
      /\ n <= client.n
      /\ \/ n \in client.typed \cup refused
         \/ n = client.n /\ \E i \in 1 .. Len(conn.buffer) : conn.buffer[i].kind = "evaluate"

IInv ==
  /\ TypeOK /\ Exchange /\ StruckIsEvaluated /\ RunsTheLast /\ RepliesInStep /\ LateIsExcused
  /\ InputReachesItsOwn

(* What SkipInput, Handshake and Deliver do to the buffer, and Highlight and *)
(* NoTerminal.                                                               *)
TakeLine ==
  /\ conn.at \in {"lines", "running"}
  /\ conn.buffer # <<>> /\ ~IsAsk(Head(conn.buffer))
  /\ conn' = [conn EXCEPT !.buffer = Tail(@)]
  /\ UNCHANGED <<client, toServer, toClient, late, hits, refused>>

AnswerFirst ==
  /\ conn.at = "lines"
  /\ conn.buffer # <<>> /\ IsAsk(Head(conn.buffer))
  /\ Answer(Reply(Head(conn.buffer).n))
  /\ UNCHANGED <<client, toServer, late, hits, inputs>>

-----------------------------------------------------------------------------
(* The fields of a message on its way.                                      *)
LEMMA MessageFields ==
  ASSUME NEW s \in Seq(Messages), NEW i \in 1 .. Len(s)
  PROVE  s[i] \in Messages /\ s[i].n \in Nat /\ s[i].kind \in Kinds
<1>1. s[i] \in Messages
  OBVIOUS
<1> QED
  BY <1>1 DEF Messages

(* What taking the first message of s leaves.                               *)
Tails(s, n, typed) ==
  /\ Tail(s) \in Seq(Messages) /\ Head(s) = s[1] /\ 1 \in 1 .. Len(s) /\ Head(s) \in Messages
  /\ \A i \in 1 .. Len(Tail(s)) : i + 1 \in 1 .. Len(s) /\ Tail(s)[i] = s[i + 1]
  /\ \A i \in 1 .. Len(s) : s[i] = Head(s) \/ \E j \in 1 .. Len(Tail(s)) : s[i] = Tail(s)[j]
  /\ Honest(s, typed) => Honest(Tail(s), typed)
  /\ NoneAsked(s, n) => NoneAsked(Tail(s), n) /\ ~IsAsk(Head(s))
  /\ OneAsked(s, n) /\ IsAsk(Head(s)) => NoneAsked(Tail(s), n) /\ Head(s).n = n
  /\ OneAsked(s, n) /\ ~IsAsk(Head(s)) => OneAsked(Tail(s), n)

(* The exchange stays in order when its first message is taken.             *)
LEMMA TailKeeps ==
  ASSUME NEW s \in Seq(Messages), s # <<>>, NEW n, NEW typed
  PROVE  Tails(s, n, typed)
<1>1. /\ Tail(s) \in Seq(Messages) /\ Head(s) = s[1] /\ 1 \in 1 .. Len(s) /\ Len(Tail(s)) = Len(s) - 1
      /\ \A i \in 1 .. Len(Tail(s)) : i + 1 \in 1 .. Len(s) /\ Tail(s)[i] = s[i + 1]
  OBVIOUS
<1>2. Honest(s, typed) => Honest(Tail(s), typed)
  BY <1>1 DEF Honest
<1>3. NoneAsked(s, n) => NoneAsked(Tail(s), n) /\ ~IsAsk(Head(s))
  BY <1>1 DEF NoneAsked
<1>4. ASSUME NEW i, Asked(s, n, i), IsAsk(Head(s)) PROVE NoneAsked(Tail(s), n) /\ Head(s).n = n
  <2>1. i = 1
    BY <1>1, <1>4 DEF Asked
  <2> QED
    BY <1>1, <1>4, <2>1 DEF Asked, NoneAsked
<1>5. ASSUME NEW i, Asked(s, n, i), ~IsAsk(Head(s)) PROVE Asked(Tail(s), n, i - 1)
  <2>1. i # 1 /\ i \in 1 .. Len(s)
    BY <1>1, <1>5 DEF Asked
  <2>2. i - 1 \in 1 .. Len(Tail(s)) /\ Tail(s)[i - 1] = s[i]
    BY <1>1, <2>1
  <2>3. ASSUME NEW j \in 1 .. Len(Tail(s)) PROVE j < i - 1 <=> j + 1 < i
    BY <1>1, <2>1
  <2> QED
    BY <1>1, <1>5, <2>1, <2>2, <2>3 DEF Asked
<1>6. OneAsked(s, n) /\ ~IsAsk(Head(s)) => OneAsked(Tail(s), n)
  <2>1. \A i : Asked(Tail(s), n, i) => i \in 1 .. Len(Tail(s))
    BY DEF Asked
  <2> QED
    BY <1>5, <2>1 DEF OneAsked
<1>7. OneAsked(s, n) /\ IsAsk(Head(s)) => NoneAsked(Tail(s), n) /\ Head(s).n = n
  BY <1>4 DEF OneAsked
<1>8. ASSUME NEW i \in 1 .. Len(s) PROVE s[i] = Head(s) \/ \E j \in 1 .. Len(Tail(s)) : s[i] = Tail(s)[j]
  <2>1. i # 1 => i - 1 \in 1 .. Len(Tail(s)) /\ Tail(s)[i - 1] = s[i]
    BY <1>1
  <2> QED
    BY <1>1, <2>1
<1>9. Head(s) \in Messages
  BY <1>1
<1> QED
  BY <1>1, <1>2, <1>3, <1>6, <1>7, <1>8, <1>9 DEF Tails

(* Nor by a message sent behind.                                            *)
LEMMA AppendKeeps ==
  ASSUME NEW s \in Seq(Messages), NEW m \in Messages, NEW n \in Nat, NEW typed
  PROVE  /\ Append(s, m) \in Seq(Messages)
         /\ \A i \in 1 .. Len(Append(s, m)) : (i \in 1 .. Len(s) /\ Append(s, m)[i] = s[i]) \/ Append(s, m)[i] = m
         /\ Honest(s, typed) /\ Honest(<<m>>, typed) => Honest(Append(s, m), typed)
         /\ NoneAsked(s, n) /\ m.n = n /\ ~IsAsk(m) => NoneAsked(Append(s, m), n)
         /\ NoneAsked(s, n) /\ m.n = n + 1 /\ IsAsk(m) => OneAsked(Append(s, m), n + 1)
         /\ OneAsked(s, n) /\ m.n = n /\ ~IsAsk(m) => OneAsked(Append(s, m), n)
<1> DEFINE t == Append(s, m)
<1>1. /\ t \in Seq(Messages) /\ Len(t) = Len(s) + 1 /\ t[Len(s) + 1] = m /\ Len(s) \in Nat
      /\ \A i \in 1 .. Len(s) : t[i] = s[i] /\ i \in 1 .. Len(t) /\ i # Len(s) + 1
      /\ \A i \in 1 .. Len(t) : i # Len(s) + 1 => i \in 1 .. Len(s)
      /\ <<m>>[1] = m /\ 1 \in 1 .. Len(<<m>>) /\ Len(s) + 1 \in 1 .. Len(t)
  OBVIOUS
<1> HIDE DEF t
<1>2. Honest(s, typed) /\ Honest(<<m>>, typed) => Honest(t, typed)
  BY <1>1 DEF Honest
<1>3. NoneAsked(s, n) /\ m.n = n /\ ~IsAsk(m) => NoneAsked(t, n)
  BY <1>1 DEF NoneAsked
<1>4. NoneAsked(s, n) /\ m.n = n + 1 /\ IsAsk(m) => Asked(t, n + 1, Len(s) + 1)
  BY <1>1 DEF NoneAsked, Asked
<1>5. ASSUME NEW i, Asked(s, n, i), m.n = n, ~IsAsk(m) PROVE Asked(t, n, i)
  <2>1. i \in 1 .. Len(s) /\ i \in 1 .. Len(t) /\ t[i] = s[i] /\ Len(s) + 1 > i
    BY <1>1, <1>5 DEF Asked
  <2> QED
    BY <1>1, <1>5, <2>1 DEF Asked
<1> QED
  BY <1>1, <1>2, <1>3, <1>4, <1>5 DEF OneAsked, t

(* What a read that takes the first k messages of s leaves: the lines of    *)
(* the chunk, and the rest.                                                 *)
Splits(s, k, n, typed) ==
  LET chunk == SubSeq(s, 1, k)
      rest == SubSeq(s, k + 1, Len(s))
      b == LinesOf(chunk)
  IN  /\ chunk \in Seq(Messages) /\ rest \in Seq(Messages) /\ b \in Seq(Messages)
      /\ Len(chunk) = k /\ \A i \in 1 .. k : i \in 1 .. Len(s) /\ chunk[i] = s[i]
      /\ \A j \in 1 .. Len(b) : IsLine(b[j]) /\ \E i \in 1 .. Len(s) : b[j] = s[i]
      /\ \A j \in 1 .. Len(rest) : \E i \in 1 .. Len(s) : i > k /\ rest[j] = s[i]
      /\ \A i \in 1 .. k : IsLine(s[i]) => \E j \in 1 .. Len(b) : b[j] = s[i]
      /\ Honest(s, typed) => Honest(b, typed) /\ Honest(rest, typed)
      /\ NoneAsked(s, n) => NoneAsked(b, n) /\ NoneAsked(rest, n)
      /\ OneAsked(s, n) =>
           \/ /\ \A j \in 1 .. Len(b) : b[j].n + 1 = n /\ ~IsAsk(b[j])
              /\ OneAsked(rest, n)
           \/ OneAsked(b, n) /\ NoneAsked(rest, n)

(* Nothing of what is pending is lost, changed or reordered by a read.      *)
LEMMA ChunkSplits ==
  ASSUME NEW s \in Seq(Messages), NEW k \in 1 .. Len(s), NEW n \in Nat, NEW typed
  PROVE  Splits(s, k, n, typed)
<1> DEFINE chunk == SubSeq(s, 1, k)
           rest == SubSeq(s, k + 1, Len(s))
           b == LinesOf(chunk)
<1>1. /\ chunk \in Seq(Messages) /\ Len(chunk) = k /\ k \in Nat /\ Len(s) \in Nat /\ k <= Len(s)
      /\ \A i \in 1 .. k : i \in 1 .. Len(s) /\ chunk[i] = s[i]
  OBVIOUS
<1>2. /\ rest \in Seq(Messages) /\ Len(rest) = Len(s) - k
      /\ \A j \in 1 .. Len(rest) : j + k \in 1 .. Len(s) /\ j + k > k /\ rest[j] = s[j + k]
  OBVIOUS
<1>3. b \in Seq(Messages) /\ \E at : LinesAt(chunk, k, b, at)
  BY <1>1, LinesOfIsOrdered
<1>4. PICK at : LinesAt(chunk, k, b, at)
  BY <1>3
<1> HIDE DEF chunk, rest, b
<1>5. /\ Len(b) \in Nat
      /\ \A j \in 1 .. Len(b) : at[j] \in 1 .. k /\ at[j] \in 1 .. Len(s) /\ b[j] = s[at[j]] /\ IsLine(b[j])
      /\ \A i, j \in 1 .. Len(b) : i < j => at[i] < at[j]
      /\ \A x \in 1 .. k : IsLine(s[x]) => \E j \in 1 .. Len(b) : at[j] = x
  <2>1. Len(b) \in Nat /\ at \in [1 .. Len(b) -> 1 .. k]
    BY <1>3, <1>4 DEF LinesAt
  <2>2. ASSUME NEW j \in 1 .. Len(b)
        PROVE  at[j] \in 1 .. k /\ at[j] \in 1 .. Len(s) /\ b[j] = s[at[j]] /\ IsLine(b[j])
    <3>1. at[j] \in 1 .. k /\ b[j] = chunk[at[j]] /\ IsLine(b[j])
      BY <1>4, <2>1 DEF LinesAt
    <3> QED
      BY <1>1, <3>1
  <2>3. \A x \in 1 .. k : IsLine(s[x]) => \E j \in 1 .. Len(b) : at[j] = x
    BY <1>1, <1>4 DEF LinesAt
  <2> QED
    BY <1>4, <2>1, <2>2, <2>3 DEF LinesAt
<1>6. Honest(s, typed) => Honest(b, typed) /\ Honest(rest, typed)
  <2>1. Honest(s, typed) => Honest(b, typed)
    BY <1>5 DEF Honest
  <2>2. Honest(s, typed) => Honest(rest, typed)
    BY <1>2 DEF Honest
  <2> QED
    BY <2>1, <2>2
<1>7. NoneAsked(s, n) => NoneAsked(b, n) /\ NoneAsked(rest, n)
  <2>1. NoneAsked(s, n) => NoneAsked(b, n)
    BY <1>5 DEF NoneAsked
  <2>2. NoneAsked(s, n) => NoneAsked(rest, n)
    BY <1>2 DEF NoneAsked
  <2> QED
    BY <2>1, <2>2
<1>8. ASSUME NEW p, Asked(s, n, p)
      PROVE  \/ /\ \A j \in 1 .. Len(b) : b[j].n + 1 = n /\ ~IsAsk(b[j])
                /\ OneAsked(rest, n)
             \/ OneAsked(b, n) /\ NoneAsked(rest, n)
  <2>1. p \in 1 .. Len(s) /\ IsAsk(s[p]) /\ s[p].n = n /\ IsLine(s[p])
    BY <1>8 DEF Asked, IsAsk, IsLine
  <2>2. CASE p <= k
    <3>1. PICK j \in 1 .. Len(b) : at[j] = p
      BY <1>1, <1>5, <2>1, <2>2
    <3>2. Asked(b, n, j)
      <4>1. b[j] = s[p]
        BY <1>5, <3>1
      <4>2. ASSUME NEW i \in 1 .. Len(b), i < j PROVE b[i].n + 1 = n /\ ~IsAsk(b[i])
        <5>1. at[i] < p /\ at[i] \in 1 .. Len(s) /\ b[i] = s[at[i]]
          BY <1>5, <3>1, <4>2
        <5> QED
          BY <1>8, <5>1 DEF Asked
      <4>3. ASSUME NEW i \in 1 .. Len(b), i > j PROVE b[i].n = n /\ ~IsAsk(b[i])
        <5>1. at[j] < at[i]
          BY <1>5, <3>1, <4>3
        <5>2. at[i] > p /\ at[i] \in 1 .. Len(s)
          BY <1>5, <2>1, <3>1, <5>1
        <5> QED
          BY <1>5, <1>8, <5>2 DEF Asked
      <4> QED
        BY <2>1, <4>1, <4>2, <4>3 DEF Asked
    <3>3. NoneAsked(rest, n)
      <4> SUFFICES ASSUME NEW x \in 1 .. Len(rest) PROVE rest[x].n = n /\ ~IsAsk(rest[x])
        BY DEF NoneAsked
      <4>1. x + k > p /\ x + k \in 1 .. Len(s) /\ rest[x] = s[x + k]
        BY <1>1, <1>2, <2>1, <2>2
      <4> QED
        BY <1>8, <4>1 DEF Asked
    <3> QED
      BY <3>2, <3>3 DEF OneAsked
  <2>3. CASE p > k
    <3>1. \A j \in 1 .. Len(b) : b[j].n + 1 = n /\ ~IsAsk(b[j])
      <4> SUFFICES ASSUME NEW j \in 1 .. Len(b) PROVE b[j].n + 1 = n /\ ~IsAsk(b[j])
        OBVIOUS
      <4>1. at[j] < p /\ at[j] \in 1 .. Len(s)
        BY <1>1, <1>5, <2>1, <2>3
      <4> QED
        BY <1>5, <1>8, <4>1 DEF Asked
    <3>2. Asked(rest, n, p - k)
      <4>1. p - k \in 1 .. Len(rest) /\ rest[p - k] = s[p]
        BY <1>1, <1>2, <2>1, <2>3
      <4>2. ASSUME NEW j \in 1 .. Len(rest) PROVE (j < p - k <=> j + k < p) /\ (j > p - k <=> j + k > p)
        BY <1>1, <1>2, <2>1
      <4>3. ASSUME NEW j \in 1 .. Len(rest), j < p - k PROVE rest[j].n + 1 = n /\ ~IsAsk(rest[j])
        <5>1. j + k < p /\ j + k \in 1 .. Len(s) /\ rest[j] = s[j + k]
          BY <1>2, <4>2, <4>3
        <5> QED
          BY <1>8, <5>1 DEF Asked
      <4>4. ASSUME NEW j \in 1 .. Len(rest), j > p - k PROVE rest[j].n = n /\ ~IsAsk(rest[j])
        <5>1. j + k > p /\ j + k \in 1 .. Len(s) /\ rest[j] = s[j + k]
          BY <1>2, <4>2, <4>4
        <5> QED
          BY <1>8, <5>1 DEF Asked
      <4> QED
        BY <2>1, <4>1, <4>3, <4>4 DEF Asked
    <3>3. p - k \in 1 .. Len(rest)
      BY <3>2 DEF Asked
    <3> QED
      BY <3>1, <3>2, <3>3 DEF OneAsked
  <2> QED
    BY <1>1, <2>1, <2>2, <2>3
<1>9. \A i \in 1 .. k : IsLine(s[i]) => \E j \in 1 .. Len(b) : b[j] = s[i]
  BY <1>5
<1>10. \A j \in 1 .. Len(b) : IsLine(b[j]) /\ \E i \in 1 .. Len(s) : b[j] = s[i]
  BY <1>5
<1>11. \A j \in 1 .. Len(rest) : \E i \in 1 .. Len(s) : i > k /\ rest[j] = s[i]
  BY <1>2
<1>12. OneAsked(s, n) =>
         \/ /\ \A j \in 1 .. Len(b) : b[j].n + 1 = n /\ ~IsAsk(b[j])
            /\ OneAsked(rest, n)
         \/ OneAsked(b, n) /\ NoneAsked(rest, n)
  <2>1. OneAsked(s, n) => \E p : Asked(s, n, p)
    BY DEF OneAsked
  <2> QED
    BY <1>8, <2>1
<1> QED
  BY <1>1, <1>2, <1>3, <1>6, <1>7, <1>9, <1>10, <1>11, <1>12 DEF Splits, chunk, rest, b

(* A reply behind the frames t: only its last frame completes the command.  *)
Replied(t, n) ==
  LET u == t \o Reply(n)
  IN  /\ u \in Seq(Frames)
      /\ \A i \in 1 .. Len(u) :
           \/ \E j \in 1 .. Len(t) : u[i] = t[j]
           \/ u[i].n = n /\ (u[i].kind = "P" => i = Len(u))

LEMMA ReplyKeeps ==
  ASSUME NEW t \in Seq(Frames), NEW n \in Nat
  PROVE  Replied(t, n)
<1> DEFINE u == t \o Reply(n)
<1>1. /\ Reply(n) \in Seq(Frames) /\ Len(Reply(n)) = 2
      /\ Reply(n)[1] = Frame("O", n) /\ Reply(n)[2] = Frame("P", n)
  BY DEF Reply, Frame, Frames
<1>2. u \in Seq(Frames) /\ Len(u) = Len(t) + 2 /\ Len(t) \in Nat
  <2>1. \A r \in Seq(Frames) : t \o r \in Seq(Frames) /\ Len(t \o r) = Len(t) + Len(r)
    OBVIOUS
  <2>2. Len(t) \in Nat
    OBVIOUS
  <2> QED
    BY <1>1, <2>1, <2>2
<1>3. ASSUME NEW i \in 1 .. Len(u)
      PROVE  \/ \E j \in 1 .. Len(t) : u[i] = t[j]
             \/ u[i].n = n /\ (u[i].kind = "P" => i = Len(u))
  <2>1. CASE i \in 1 .. Len(t)
    <3>1. u[i] = t[i]
      BY <1>1, <2>1
    <3> QED
      BY <2>1, <3>1
  <2>2. CASE i = Len(t) + 1
    <3>1. u[i] = Reply(n)[1]
      BY <1>1, <2>2
    <3> QED
      BY <1>1, <3>1 DEF Frame
  <2>3. CASE i = Len(t) + 2
    <3>1. u[i] = Reply(n)[2]
      BY <1>1, <2>3
    <3> QED
      BY <1>1, <1>2, <2>3, <3>1 DEF Frame
  <2> QED
    BY <1>2, <2>1, <2>2, <2>3
<1> QED
  BY <1>2, <1>3 DEF Replied

(* The lines of a read go behind those the connection holds already.        *)
Joins(s, t, n, typed) ==
  /\ s \o t \in Seq(Messages)
  /\ \A i \in 1 .. Len(s \o t) :
       (\E j \in 1 .. Len(s) : (s \o t)[i] = s[j]) \/ \E j \in 1 .. Len(t) : (s \o t)[i] = t[j]
  /\ Honest(s, typed) /\ Honest(t, typed) => Honest(s \o t, typed)
  /\ NoneAsked(s, n) /\ NoneAsked(t, n) => NoneAsked(s \o t, n)

LEMMA JoinKeeps ==
  ASSUME NEW s \in Seq(Messages), NEW t \in Seq(Messages), NEW n, NEW typed
  PROVE  Joins(s, t, n, typed)
<1> DEFINE u == s \o t
<1>1. u \in Seq(Messages)
  OBVIOUS
<1>2. ASSUME NEW i \in 1 .. Len(u)
      PROVE  (\E j \in 1 .. Len(s) : u[i] = s[j]) \/ \E j \in 1 .. Len(t) : u[i] = t[j]
  <2>1. \/ i \in 1 .. Len(s) /\ u[i] = s[i]
        \/ i - Len(s) \in 1 .. Len(t) /\ u[i] = t[i - Len(s)]
    OBVIOUS
  <2> QED
    BY <2>1
<1> HIDE DEF u
<1>3. ASSUME Honest(s, typed), Honest(t, typed)
      PROVE  Honest(u, typed)
  <2>1. ASSUME NEW i \in 1 .. Len(u)
        PROVE  /\ u[i].kind = "stdin" => u[i].n \in typed
               /\ u[i].kind = "interrupt" \/ IsAsk(u[i]) => u[i].n # 0
               /\ u[i].kind = "console" => u[i].n = 0
    <3>1. CASE \E j \in 1 .. Len(s) : u[i] = s[j]
      <4>1. PICK j \in 1 .. Len(s) : u[i] = s[j]
        BY <3>1
      <4> QED
        BY <1>3, <4>1 DEF Honest
    <3>2. CASE \E j \in 1 .. Len(t) : u[i] = t[j]
      <4>1. PICK j \in 1 .. Len(t) : u[i] = t[j]
        BY <3>2
      <4> QED
        BY <1>3, <4>1 DEF Honest
    <3> QED
      BY <1>2, <3>1, <3>2
  <2> QED
    BY <2>1 DEF Honest
<1>4. NoneAsked(s, n) /\ NoneAsked(t, n) => NoneAsked(u, n)
  BY <1>2 DEF NoneAsked
<1> QED
  BY <1>1, <1>2, <1>3, <1>4 DEF Joins, u

-----------------------------------------------------------------------------
(* A command goes out behind what is left of the one before. *)
LEMMA CommandStep ==
  ASSUME IInv, NEW kind \in {"evaluate", "complete", "highlight"}, NEW phase \in Asking, kind = "evaluate" <=> phase = "waiting", Command(kind, phase)
  PROVE  IInv'
<1>0. /\ TypeOK /\ Exchange /\ StruckIsEvaluated /\ RunsTheLast /\ RepliesInStep
      /\ LateIsExcused /\ InputReachesItsOwn
  BY DEF IInv
<1>a. /\ client.phase \in {"editing", "waiting", "asking", "gone"} /\ client.n \in Nat /\ client.n <= Commands
      /\ toServer \in Seq(Messages) /\ toClient \in Seq(Frames) /\ conn.buffer \in Seq(Messages)
      /\ conn.at \in {"recv", "lines", "running", "closing", "closed"} /\ late \subseteq Nat
  BY <1>0, BoundsAssumption DEF TypeOK, Consoles, Connections
<1>b. /\ client.phase = "editing"
      /\ client.n + 1 <= Commands
      /\ client'.phase = phase
      /\ client'.n = client.n + 1
      /\ client'.typed = client.typed
      /\ toServer' = Append(toServer, Message(kind, client.n + 1))
      /\ UNCHANGED <<toClient, conn, late, hits, inputs, refused>>
  BY <1>0, <1>a, BoundsAssumption DEF Command, Send, Asking, TypeOK, Consoles, Connections
<1>t. client' \in Consoles
  <2>1. client' = [phase |-> phase, n |-> client.n + 1, typed |-> client.typed, pressed |-> 0]
    BY <1>0 DEF Command, Send, Asking, TypeOK, Consoles, Connections
  <2> QED
    BY <1>0, <1>a, <1>b, <2>1 DEF TypeOK, Consoles, Connections, Asking
<1> DEFINE m == Message(kind, client.n + 1)
<1>c. m \in Messages /\ IsAsk(m) /\ ~IsInterrupt(m) /\ m.n = client.n + 1 /\ m.kind = kind /\ toServer' = Append(toServer, m)
  BY <1>0, <1>a, <1>b DEF Messages, Message, Kinds, IsAsk, IsInterrupt, RunsTheLast, Asking
<1>d. Honest(<<m>>, client'.typed)
  BY <1>a, <1>b, <1>c DEF Honest, IsAsk, IsInterrupt
<1> HIDE DEF m
<1>k. /\ toServer' \in Seq(Messages)
      /\ \A i \in 1 .. Len(toServer') : (i \in 1 .. Len(toServer) /\ toServer'[i] = toServer[i]) \/ toServer'[i] = m
      /\ (NoneAsked(toServer, client.n) => OneAsked(toServer', client.n + 1))
  BY <1>a, <1>c, AppendKeeps
<1>e. /\ Honest(conn.buffer, client.typed) => Honest(conn.buffer, client'.typed)
      /\ Honest(toServer, client.typed) => Honest(toServer', client'.typed)
  <2>1. \A s \in Seq(Messages) : Honest(s, client.typed) => Honest(s, client'.typed)
    BY <1>b DEF Honest
  <2> QED
    BY <1>a, <1>c, <1>d, <2>1, AppendKeeps

<1>f. conn.at # "closed" => NonePending /\ conn.at \in {"recv", "lines"}
  BY <1>0, <1>b DEF Exchange, OnItsWay, InBuffer, RunsTheLast, Gone, TypeOK, Connections
<1>1. TypeOK'
  BY <1>0, <1>a, <1>b, <1>t, <1>c, <1>k DEF TypeOK
<1>2. Exchange'
  <2>1. CASE conn.at = "closed"
    BY <1>0, <1>b, <2>1 DEF Exchange
  <2>2. CASE conn.at # "closed"
    <3>1. OnItsWay'
      BY <1>a, <1>b, <1>c, <1>k, <1>f, <2>2 DEF OnItsWay, NonePending, NoneAsked, Asking
    <3> QED
      BY <1>0, <1>b, <1>e, <2>2, <3>1 DEF Exchange
  <2> QED
    BY <2>1, <2>2
<1>3. StruckIsEvaluated'
  BY <1>0, <1>a, <1>b, <1>c, <1>k, <1>f DEF StruckIsEvaluated, Struck, Asking, NonePending, NoneAsked
<1>4. RunsTheLast'
  BY <1>0, <1>a, <1>b, <1>c, <1>k DEF RunsTheLast, Asking, Gone
<1>5. RepliesInStep'
  BY <1>0, <1>a, <1>b, <1>c, <1>k DEF RepliesInStep, NonePending, Asking
<1>6. LateIsExcused'
  <2> SUFFICES ASSUME conn.at # "closed", NEW x \in late
               PROVE  x <= client'.n /\ x \in client'.typed \cup refused'
    BY <1>b DEF LateIsExcused
  <2>1. \A i \in 1 .. Len(conn.buffer) : conn.buffer[i].kind # "evaluate"
    BY <1>f DEF NonePending, NoneAsked, IsAsk
  <2>2. x <= client.n /\ x \in client.typed \cup refused
    BY <1>0, <2>1 DEF LateIsExcused
  <2>3. x \in Nat
    BY <1>a
  <2> QED
    BY <1>a, <1>b, <2>2, <2>3
<1>7. InputReachesItsOwn'
  BY <1>0, <1>a, <1>b, <1>c, <1>k DEF InputReachesItsOwn
<1> QED
  BY <1>1, <1>2, <1>3, <1>4, <1>5, <1>6, <1>7 DEF IInv

(* Input goes out behind the request it is for. *)
LEMMA TypeLineStep ==
  ASSUME IInv, TypeLine
  PROVE  IInv'
<1>0. /\ TypeOK /\ Exchange /\ StruckIsEvaluated /\ RunsTheLast /\ RepliesInStep
      /\ LateIsExcused /\ InputReachesItsOwn
  BY DEF IInv
<1>a. /\ client.phase \in {"editing", "waiting", "asking", "gone"} /\ client.n \in Nat /\ client.n <= Commands
      /\ toServer \in Seq(Messages) /\ toClient \in Seq(Frames) /\ conn.buffer \in Seq(Messages)
      /\ conn.at \in {"recv", "lines", "running", "closing", "closed"} /\ late \subseteq Nat
  BY <1>0, BoundsAssumption DEF TypeOK, Consoles, Connections
<1>b. /\ client.phase = "waiting"
      /\ client'.phase = client.phase
      /\ client'.n = client.n
      /\ client'.typed = client.typed \cup {client.n}
      /\ toServer' = Append(toServer, Message("stdin", client.n))
      /\ UNCHANGED <<toClient, conn, late, hits, inputs, refused>>
  BY <1>0, <1>a, BoundsAssumption DEF TypeLine, Send, TypeOK, Consoles, Connections
<1>t. client' \in Consoles
  <2>1. client' = [phase |-> client.phase, n |-> client.n, typed |-> client.typed \cup {client.n}, pressed |-> client.pressed]
    BY <1>0 DEF TypeLine, Send, TypeOK, Consoles, Connections
  <2> QED
    BY <1>0, <1>a, <1>b, <2>1 DEF TypeOK, Consoles, Connections
<1> DEFINE m == Message("stdin", client.n)
<1>c. m \in Messages /\ ~IsAsk(m) /\ ~IsInterrupt(m) /\ m.n = client.n /\ m.kind = "stdin" /\ toServer' = Append(toServer, m)
  BY <1>0, <1>a, <1>b DEF Messages, Message, Kinds, IsAsk, IsInterrupt, RunsTheLast, Asking
<1>d. Honest(<<m>>, client'.typed)
  BY <1>a, <1>b, <1>c DEF Honest, IsAsk, IsInterrupt
<1> HIDE DEF m
<1>k. /\ toServer' \in Seq(Messages)
      /\ \A i \in 1 .. Len(toServer') : (i \in 1 .. Len(toServer) /\ toServer'[i] = toServer[i]) \/ toServer'[i] = m
      /\ (NoneAsked(toServer, client.n) => NoneAsked(toServer', client.n))
      /\ (OneAsked(toServer, client.n) => OneAsked(toServer', client.n))
  BY <1>a, <1>c, AppendKeeps
<1>e. /\ Honest(conn.buffer, client.typed) => Honest(conn.buffer, client'.typed)
      /\ Honest(toServer, client.typed) => Honest(toServer', client'.typed)
  <2>1. \A s \in Seq(Messages) : Honest(s, client.typed) => Honest(s, client'.typed)
    BY <1>b DEF Honest
  <2> QED
    BY <1>a, <1>c, <1>d, <2>1, AppendKeeps
<1>1. TypeOK'
  BY <1>0, <1>a, <1>b, <1>t, <1>c, <1>k DEF TypeOK
<1>2. Exchange'
  <2>1. CASE NonePending
    BY <1>0, <1>a, <1>b, <1>k, <1>e, <2>1 DEF Exchange, NonePending
  <2>2. CASE OnItsWay
    BY <1>0, <1>a, <1>b, <1>k, <1>e, <2>2 DEF Exchange, OnItsWay
  <2>3. CASE InBuffer
    BY <1>0, <1>a, <1>b, <1>k, <1>e, <2>3 DEF Exchange, InBuffer
  <2>4. CASE conn.at = "closed"
    BY <1>0, <1>b, <2>4 DEF Exchange
  <2> QED
    BY <1>0, <2>1, <2>2, <2>3, <2>4 DEF Exchange
<1>3. StruckIsEvaluated'
  BY <1>0, <1>a, <1>b, <1>c, <1>k DEF StruckIsEvaluated, Struck
<1>4. RunsTheLast'
  BY <1>0, <1>a, <1>b, <1>c, <1>k DEF RunsTheLast, Asking, Gone
<1>5. RepliesInStep'
  BY <1>0, <1>a, <1>b, <1>c, <1>k DEF RepliesInStep, NonePending, Asking
<1>6. LateIsExcused'
  BY <1>0, <1>a, <1>b, <1>c, <1>k DEF LateIsExcused
<1>7. InputReachesItsOwn'
  BY <1>0, <1>a, <1>b, <1>c, <1>k DEF InputReachesItsOwn
<1> QED
  BY <1>1, <1>2, <1>3, <1>4, <1>5, <1>6, <1>7 DEF IInv

(* Ctrl+C goes out behind the request it is for. *)
LEMMA PressCtrlCStep ==
  ASSUME IInv, PressCtrlC
  PROVE  IInv'
<1>0. /\ TypeOK /\ Exchange /\ StruckIsEvaluated /\ RunsTheLast /\ RepliesInStep
      /\ LateIsExcused /\ InputReachesItsOwn
  BY DEF IInv
<1>a. /\ client.phase \in {"editing", "waiting", "asking", "gone"} /\ client.n \in Nat /\ client.n <= Commands
      /\ toServer \in Seq(Messages) /\ toClient \in Seq(Frames) /\ conn.buffer \in Seq(Messages)
      /\ conn.at \in {"recv", "lines", "running", "closing", "closed"} /\ late \subseteq Nat
  BY <1>0, BoundsAssumption DEF TypeOK, Consoles, Connections
<1>b. /\ client.phase = "waiting"
      /\ client'.phase = client.phase
      /\ client'.n = client.n
      /\ client'.typed = client.typed
      /\ toServer' = Append(toServer, Message("interrupt", client.n))
      /\ UNCHANGED <<toClient, conn, late, hits, inputs, refused>>
  BY <1>0, <1>a, BoundsAssumption DEF PressCtrlC, Send, TypeOK, Consoles, Connections
<1>t. client' \in Consoles
  <2>1. client' = [phase |-> client.phase, n |-> client.n, typed |-> client.typed, pressed |-> client.pressed + 1]
    BY <1>0 DEF PressCtrlC, Send, TypeOK, Consoles, Connections
  <2> QED
    BY <1>0, <1>a, <1>b, <2>1 DEF TypeOK, Consoles, Connections
<1> DEFINE m == Message("interrupt", client.n)
<1>c. m \in Messages /\ ~IsAsk(m) /\ IsInterrupt(m) /\ m.n = client.n /\ m.kind = "interrupt" /\ m.n # 0 /\ toServer' = Append(toServer, m)
  BY <1>0, <1>a, <1>b DEF Messages, Message, Kinds, IsAsk, IsInterrupt, RunsTheLast, Asking
<1>d. Honest(<<m>>, client'.typed)
  BY <1>a, <1>b, <1>c DEF Honest, IsAsk, IsInterrupt
<1> HIDE DEF m
<1>k. /\ toServer' \in Seq(Messages)
      /\ \A i \in 1 .. Len(toServer') : (i \in 1 .. Len(toServer) /\ toServer'[i] = toServer[i]) \/ toServer'[i] = m
      /\ (NoneAsked(toServer, client.n) => NoneAsked(toServer', client.n))
      /\ (OneAsked(toServer, client.n) => OneAsked(toServer', client.n))
  BY <1>a, <1>c, AppendKeeps
<1>e. /\ Honest(conn.buffer, client.typed) => Honest(conn.buffer, client'.typed)
      /\ Honest(toServer, client.typed) => Honest(toServer', client'.typed)
  <2>1. \A s \in Seq(Messages) : Honest(s, client.typed) => Honest(s, client'.typed)
    BY <1>b DEF Honest
  <2> QED
    BY <1>a, <1>c, <1>d, <2>1, AppendKeeps
<1>1. TypeOK'
  BY <1>0, <1>a, <1>b, <1>t, <1>c, <1>k DEF TypeOK
<1>2. Exchange'
  <2>1. CASE NonePending
    BY <1>0, <1>a, <1>b, <1>k, <1>e, <2>1 DEF Exchange, NonePending
  <2>2. CASE OnItsWay
    BY <1>0, <1>a, <1>b, <1>k, <1>e, <2>2 DEF Exchange, OnItsWay
  <2>3. CASE InBuffer
    BY <1>0, <1>a, <1>b, <1>k, <1>e, <2>3 DEF Exchange, InBuffer
  <2>4. CASE conn.at = "closed"
    BY <1>0, <1>b, <2>4 DEF Exchange
  <2> QED
    BY <1>0, <2>1, <2>2, <2>3, <2>4 DEF Exchange
<1>3. StruckIsEvaluated'
  BY <1>0, <1>a, <1>b, <1>c, <1>k DEF StruckIsEvaluated, Struck
<1>4. RunsTheLast'
  BY <1>0, <1>a, <1>b, <1>c, <1>k DEF RunsTheLast, Asking, Gone
<1>5. RepliesInStep'
  BY <1>0, <1>a, <1>b, <1>c, <1>k DEF RepliesInStep, NonePending, Asking
<1>6. LateIsExcused'
  BY <1>0, <1>a, <1>b, <1>c, <1>k DEF LateIsExcused
<1>7. InputReachesItsOwn'
  BY <1>0, <1>a, <1>b, <1>c, <1>k DEF InputReachesItsOwn
<1> QED
  BY <1>1, <1>2, <1>3, <1>4, <1>5, <1>6, <1>7 DEF IInv

(* The console takes a reply up to its completion frame, which is the last. *)
LEMMA ConsumeStep ==
  ASSUME IInv, Consume
  PROVE  IInv'
<1>0. /\ TypeOK /\ Exchange /\ StruckIsEvaluated /\ RunsTheLast /\ RepliesInStep
      /\ LateIsExcused /\ InputReachesItsOwn
  BY DEF IInv
<1>a. /\ client.phase \in {"editing", "waiting", "asking", "gone"} /\ client.n \in Nat /\ client.n <= Commands
      /\ toServer \in Seq(Messages) /\ toClient \in Seq(Frames) /\ conn.buffer \in Seq(Messages)
      /\ conn.at \in {"recv", "lines", "running", "closing", "closed"} /\ late \subseteq Nat
  BY <1>0, BoundsAssumption DEF TypeOK, Consoles, Connections
<1>b. /\ client.phase \in Asking
      /\ UNCHANGED <<toServer, conn, late, hits, inputs, refused>>
      /\ client'.n = client.n
      /\ client'.typed = client.typed
      /\ \E k \in 1 .. Len(toClient) :
           LET completed == {i \in 1 .. k : toClient[i].kind = "P"}
           IN  /\ toClient' = SubSeq(toClient, k + 1, Len(toClient))
               /\ client' = [client EXCEPT !.phase = IF completed = {} THEN @
                                ELSE IF completed = {k} \/ @ = "asking" THEN "editing" ELSE "gone"]
  BY <1>0, <1>a, BoundsAssumption DEF Consume, Asking, TypeOK, Consoles, TypeOK, Consoles,
     Connections
<1>c. PICK k \in 1 .. Len(toClient) :
        LET completed == {i \in 1 .. k : toClient[i].kind = "P"}
        IN  /\ toClient' = SubSeq(toClient, k + 1, Len(toClient))
            /\ client' = [client EXCEPT !.phase = IF completed = {} THEN @
                             ELSE IF completed = {k} \/ @ = "asking" THEN "editing" ELSE "gone"]
  BY <1>b
<1>d. /\ toClient' \in Seq(Frames) /\ Len(toClient') = Len(toClient) - k
      /\ \A i \in 1 .. Len(toClient') : i + k \in 1 .. Len(toClient) /\ toClient'[i] = toClient[i + k]
  BY <1>a, <1>c
<1>e. \/ client' = client
      \/ /\ client'.phase = "editing" /\ client' = [client EXCEPT !.phase = "editing"] /\ toClient' = <<>>
         /\ conn.at # "closed" => conn.at # "running" /\ NonePending
  <2> DEFINE completed == {i \in 1 .. k : toClient[i].kind = "P"}
  <2>1. CASE completed = {}
    <3>1. client' = [client EXCEPT !.phase = client.phase]
      BY <1>c, <2>1
    <3> QED
      BY <1>0, <3>1 DEF TypeOK, Consoles
  <2>2. CASE completed # {}
    <3>1. PICK i \in 1 .. k : toClient[i].kind = "P"
      BY <2>2
    <3>2. i \in 1 .. Len(toClient)
      BY <1>a, <3>1
    <3>3. i = Len(toClient) /\ k = Len(toClient)
      BY <1>0, <1>a, <1>b, <3>1, <3>2 DEF RepliesInStep
    <3>4. \A j \in completed : j = k
      BY <1>0, <1>a, <1>b, <3>3 DEF RepliesInStep
    <3>5. completed = {k}
      BY <2>2, <3>4
    <3>6. client' = [client EXCEPT !.phase = "editing"]
      BY <1>c, <3>5
    <3>7. toClient' = <<>>
      BY <1>d, <3>3
    <3>8. conn.at # "closed" => conn.at # "running" /\ NonePending
      BY <1>0, <1>b, <3>1, <3>2 DEF RepliesInStep
    <3> QED
      BY <1>0, <3>6, <3>7, <3>8 DEF TypeOK, Consoles
  <2> QED
    BY <2>1, <2>2
<1> DEFINE same == client' = client
           over == /\ client'.phase = "editing" /\ client' = [client EXCEPT !.phase = "editing"] /\ toClient' = <<>>
                   /\ conn.at # "closed" => conn.at # "running" /\ NonePending
<1>1. TypeOK'
  BY <1>0, <1>b, <1>d, <1>e DEF TypeOK, Consoles
<1>2. Exchange'
  BY <1>0, <1>b, <1>e DEF Exchange, NonePending, OnItsWay, InBuffer
<1>3. StruckIsEvaluated'
  BY <1>0, <1>b, <1>e DEF StruckIsEvaluated, Struck
<1>4. RunsTheLast'
  BY <1>0, <1>a, <1>b, <1>e DEF RunsTheLast, Asking, Gone, Exchange, OnItsWay, InBuffer
<1>5. RepliesInStep'
  <2>1. CASE client' = client
    <3>1. ASSUME NEW i \in 1 .. Len(toClient'), toClient'[i].kind = "P" PROVE i = Len(toClient')
      <4>1. i + k = Len(toClient)
        BY <1>0, <1>b, <1>d, <2>1, <3>1 DEF RepliesInStep
      <4> QED
        BY <1>a, <1>c, <1>d, <4>1
    <3> QED
      BY <1>0, <1>b, <1>d, <2>1, <3>1 DEF RepliesInStep, NonePending
  <2>2. CASE client'.phase = "editing" /\ toClient' = <<>>
    BY <2>2 DEF RepliesInStep, Asking
  <2> QED
    BY <1>e, <2>1, <2>2
<1>6. LateIsExcused'
  BY <1>0, <1>b, <1>e DEF LateIsExcused
<1>7. InputReachesItsOwn'
  BY <1>0, <1>b DEF InputReachesItsOwn
<1> QED
  BY <1>1, <1>2, <1>3, <1>4, <1>5, <1>6, <1>7 DEF IInv

(* The connection has ended and nothing is left to read. *)
LEMMA ServerClosedStep ==
  ASSUME IInv, ServerClosed
  PROVE  IInv'
<1>0. /\ TypeOK /\ Exchange /\ StruckIsEvaluated /\ RunsTheLast /\ RepliesInStep
      /\ LateIsExcused /\ InputReachesItsOwn
  BY DEF IInv
<1>a. /\ client.phase \in {"editing", "waiting", "asking", "gone"} /\ client.n \in Nat /\ client.n <= Commands
      /\ toServer \in Seq(Messages) /\ toClient \in Seq(Frames) /\ conn.buffer \in Seq(Messages)
      /\ conn.at \in {"recv", "lines", "running", "closing", "closed"} /\ late \subseteq Nat
  BY <1>0, BoundsAssumption DEF TypeOK, Consoles, Connections
<1>b. /\ client.phase \in Asking
      /\ conn.at = "closed"
      /\ toClient = <<>>
      /\ client'.phase \in {"editing", "gone"}
      /\ client'.n = client.n
      /\ client'.typed = client.typed
      /\ client' = [client EXCEPT !.phase = client'.phase]
      /\ UNCHANGED <<toServer, toClient, conn, late, hits, inputs, refused>>
  BY <1>0, <1>a, BoundsAssumption DEF ServerClosed, Asking, TypeOK, Consoles, Connections
<1>1. TypeOK'
  BY <1>0, <1>a, <1>b DEF TypeOK, Consoles
<1>2. Exchange'
  BY <1>0, <1>a, <1>b DEF Exchange, NonePending, OnItsWay, InBuffer, RunsTheLast, Asking, Gone
<1>3. StruckIsEvaluated'
  BY <1>0, <1>a, <1>b DEF StruckIsEvaluated, Struck
<1>4. RunsTheLast'
  BY <1>0, <1>a, <1>b DEF RunsTheLast, Asking, Gone
<1>5. RepliesInStep'
  BY <1>0, <1>a, <1>b DEF RepliesInStep, NonePending, Asking
<1>6. LateIsExcused'
  BY <1>0, <1>a, <1>b DEF LateIsExcused
<1>7. InputReachesItsOwn'
  BY <1>0, <1>a, <1>b DEF InputReachesItsOwn
<1> QED
  BY <1>1, <1>2, <1>3, <1>4, <1>5, <1>6, <1>7 DEF IInv

(* The console leaves. *)
LEMMA LeaveConsoleStep ==
  ASSUME IInv, LeaveConsole
  PROVE  IInv'
<1>0. /\ TypeOK /\ Exchange /\ StruckIsEvaluated /\ RunsTheLast /\ RepliesInStep
      /\ LateIsExcused /\ InputReachesItsOwn
  BY DEF IInv
<1>a. /\ client.phase \in {"editing", "waiting", "asking", "gone"} /\ client.n \in Nat /\ client.n <= Commands
      /\ toServer \in Seq(Messages) /\ toClient \in Seq(Frames) /\ conn.buffer \in Seq(Messages)
      /\ conn.at \in {"recv", "lines", "running", "closing", "closed"} /\ late \subseteq Nat
  BY <1>0, BoundsAssumption DEF TypeOK, Consoles, Connections
<1>b. /\ client'.phase = "gone"
      /\ client'.n = client.n
      /\ client'.typed = client.typed
      /\ client' = [client EXCEPT !.phase = "gone"]
      /\ UNCHANGED <<toServer, toClient, conn, late, hits, inputs, refused>>
  BY <1>0, <1>a, BoundsAssumption DEF LeaveConsole, TypeOK, Consoles, Connections
<1>1. TypeOK'
  BY <1>0, <1>a, <1>b DEF TypeOK, Consoles
<1>2. Exchange'
  BY <1>0, <1>a, <1>b DEF Exchange, NonePending, OnItsWay, InBuffer, RunsTheLast, Asking, Gone
<1>3. StruckIsEvaluated'
  BY <1>0, <1>a, <1>b DEF StruckIsEvaluated, Struck
<1>4. RunsTheLast'
  BY <1>0, <1>a, <1>b DEF RunsTheLast, Asking, Gone
<1>5. RepliesInStep'
  BY <1>0, <1>a, <1>b DEF RepliesInStep, NonePending, Asking
<1>6. LateIsExcused'
  BY <1>0, <1>a, <1>b DEF LateIsExcused
<1>7. InputReachesItsOwn'
  BY <1>0, <1>a, <1>b DEF InputReachesItsOwn
<1> QED
  BY <1>1, <1>2, <1>3, <1>4, <1>5, <1>6, <1>7 DEF IInv

(* A read takes lines and Ctrl+C from the front; a Ctrl+C behind a line is kept. *)
LEMMA RecvStep ==
  ASSUME IInv, Recv
  PROVE  IInv'
<1>0. /\ TypeOK /\ Exchange /\ StruckIsEvaluated /\ RunsTheLast /\ RepliesInStep
      /\ LateIsExcused /\ InputReachesItsOwn
  BY DEF IInv
<1>a. /\ client.phase \in {"editing", "waiting", "asking", "gone"} /\ client.n \in Nat /\ client.n <= Commands
      /\ toServer \in Seq(Messages) /\ toClient \in Seq(Frames) /\ conn.buffer \in Seq(Messages)
      /\ conn.at \in {"recv", "lines", "running", "closing", "closed"} /\ late \subseteq Nat
  BY <1>0, BoundsAssumption DEF TypeOK, Consoles, Connections
<1>b. /\ conn.at = "recv"
      /\ UNCHANGED <<client, toClient, hits, inputs, refused>>
      /\ \E k \in 1 .. Len(toServer) :
           /\ toServer' = SubSeq(toServer, k + 1, Len(toServer))
           /\ conn' = [conn EXCEPT !.at = "lines", !.buffer = LinesOf(SubSeq(toServer, 1, k))]
           /\ late' = late \union LateIn(SubSeq(toServer, 1, k))
  BY <1>0, <1>a, BoundsAssumption DEF Recv, TypeOK, Consoles, Connections
<1>c. PICK k \in 1 .. Len(toServer) :
        /\ toServer' = SubSeq(toServer, k + 1, Len(toServer))
        /\ conn' = [conn EXCEPT !.at = "lines", !.buffer = LinesOf(SubSeq(toServer, 1, k))]
        /\ late' = late \union LateIn(SubSeq(toServer, 1, k))
  BY <1>b
<1> DEFINE b == LinesOf(SubSeq(toServer, 1, k))
<1>s. Splits(toServer, k, client.n, client.typed)
  BY <1>a, <1>c, ChunkSplits
<1>d. /\ toServer' \in Seq(Messages) /\ SubSeq(toServer, 1, k) \in Seq(Messages)
      /\ b \in Seq(Messages) /\ Len(SubSeq(toServer, 1, k)) = k
      /\ \A i \in 1 .. k : i \in 1 .. Len(toServer) /\ SubSeq(toServer, 1, k)[i] = toServer[i]
      /\ \A j \in 1 .. Len(b) : IsLine(b[j]) /\ \E i \in 1 .. Len(toServer) : b[j] = toServer[i]
      /\ \A j \in 1 .. Len(toServer') : \E i \in 1 .. Len(toServer) : toServer'[j] = toServer[i]
      /\ \A i \in 1 .. k : IsLine(toServer[i]) => \E j \in 1 .. Len(b) : b[j] = toServer[i]
      /\ Honest(toServer, client.typed) => Honest(b, client.typed) /\ Honest(toServer', client.typed)
      /\ NoneAsked(toServer, client.n) => NoneAsked(b, client.n) /\ NoneAsked(toServer', client.n)
      /\ OneAsked(toServer, client.n) =>
           \/ /\ \A j \in 1 .. Len(b) : b[j].n + 1 = client.n /\ ~IsAsk(b[j])
              /\ OneAsked(toServer', client.n)
           \/ OneAsked(b, client.n) /\ NoneAsked(toServer', client.n)
  <2> USE <1>c, <1>s DEF Splits
  <2> QED
    OBVIOUS
<1>e. conn'.at = "lines" /\ conn'.buffer = b /\ conn'.current = conn.current
  BY <1>0, <1>c DEF TypeOK, Connections
<1>f. b \in Seq(Messages)
  BY <1>d
<1> HIDE DEF b

<1>g. ASSUME NEW j \in 1 .. k, IsInterrupt(toServer[j]), NEW i \in 1 .. j - 1, IsLine(toServer[i])
      PROVE  /\ toServer[j].n <= client.n
             /\ \/ toServer[j].n \in client.typed
                \/ /\ toServer[j].n = client.n
                   /\ \E x \in 1 .. Len(b) : b[x].kind = "evaluate"
  <2>1. /\ j \in 1 .. Len(toServer) /\ i \in 1 .. Len(toServer) /\ i < j /\ i \in 1 .. k
        /\ toServer[j].n \in Nat /\ toServer[i].n \in Nat /\ toServer[i].kind \in Kinds
        /\ Honest(toServer, client.typed)
    <3>1. j \in 1 .. Len(toServer) /\ i \in 1 .. Len(toServer) /\ i < j /\ i \in 1 .. k
      BY <1>a, <1>c
    <3>2. Honest(toServer, client.typed)
      BY <1>0, <1>b DEF Exchange
    <3> QED
      BY <1>a, <3>1, <3>2, MessageFields
  <2>2. toServer[j].n # 0
    BY <1>g, <2>1 DEF Honest, IsInterrupt
  <2>3. ASSUME toServer[i].n = toServer[j].n, ~IsAsk(toServer[i]) PROVE toServer[j].n \in client.typed
    <3>1. toServer[i].kind \in {"stdin", "console"}
      BY <1>g, <2>1, <2>3 DEF IsLine, IsAsk, Kinds
    <3> QED
      BY <2>1, <2>2, <2>3, <3>1 DEF Honest
  <2>4. CASE NonePending
    BY <1>a, <2>1, <2>3, <2>4 DEF NonePending, NoneAsked
  <2>5. CASE OnItsWay
    <3>1. PICK p : Asked(toServer, client.n, p)
      BY <2>5 DEF OnItsWay, OneAsked
    <3>2. p \in 1 .. Len(toServer) /\ p # j /\ IsAsk(toServer[p]) /\ IsLine(toServer[p])
      BY <1>g, <3>1 DEF Asked, IsAsk, IsInterrupt, IsLine
    <3>3. CASE p < j
      <4>1. toServer[j].n = client.n
        BY <2>1, <3>1, <3>3 DEF Asked
      <4>2. Struck
        BY <1>g, <2>1, <4>1 DEF Struck
      <4>3. toServer[p].kind = "evaluate"
        BY <1>0, <1>b, <3>2, <4>2 DEF StruckIsEvaluated
      <4>4. p \in 1 .. k
        BY <1>c, <3>2, <3>3
      <4> QED
        BY <1>a, <1>d, <3>2, <4>1, <4>3, <4>4
    <3>4. CASE p > j
      <4>1. toServer[j].n + 1 = client.n /\ toServer[i].n + 1 = client.n /\ ~IsAsk(toServer[i])
        BY <2>1, <3>1, <3>2, <3>4 DEF Asked
      <4> QED
        BY <1>a, <2>1, <2>3, <4>1
    <3> QED
      BY <2>1, <3>2, <3>3, <3>4
  <2> QED
    BY <1>0, <1>b, <2>4, <2>5 DEF Exchange, InBuffer
<1>1. TypeOK'
  <2>1. conn' \in Connections
    <3>1. conn' = [at |-> "lines", buffer |-> b, current |-> conn.current, needs |-> conn.needs,
                   level |-> conn.level, worker |-> conn.worker]
      BY <1>0, <1>c DEF TypeOK, Connections, b
    <3> QED
      BY <1>0, <1>d, <3>1 DEF TypeOK, Connections
  <2>2. late' \subseteq Nat
    <3>1. LateIn(SubSeq(toServer, 1, k)) \subseteq Nat
      <4>1. \A s \in Seq(Messages) : \A j \in DOMAIN s : s[j].n \in Nat
        BY MessageFields
      <4> QED
        BY <1>d, <4>1 DEF LateIn
    <3> QED
      BY <1>a, <1>c, <3>1
  <2> QED
    BY <1>0, <1>b, <1>d, <2>1, <2>2 DEF TypeOK
<1>2. Exchange'
  <2>1. Honest(conn'.buffer, client'.typed) /\ Honest(toServer', client'.typed)
    BY <1>0, <1>b, <1>d, <1>e DEF Exchange
  <2>2. CASE NonePending
    <3>1. NonePending'
      BY <1>b, <1>d, <1>e, <2>2 DEF NonePending
    <3> QED
      BY <1>d, <1>e, <2>1, <3>1 DEF Exchange
  <2>3. CASE OnItsWay
    <3>1. OnItsWay' \/ InBuffer'
      BY <1>b, <1>d, <1>e, <2>3 DEF OnItsWay, InBuffer
    <3> QED
      BY <1>d, <1>e, <2>1, <3>1 DEF Exchange
  <2> QED
    BY <1>0, <1>b, <2>2, <2>3 DEF Exchange, InBuffer
<1>3. StruckIsEvaluated'
  <2>1. Struck' => Struck
    <3> SUFFICES ASSUME NEW j \in 1 .. Len(toServer'), IsInterrupt(toServer'[j]), toServer'[j].n = client'.n
                 PROVE  Struck
      BY DEF Struck
    <3>1. PICK i \in 1 .. Len(toServer) : toServer'[j] = toServer[i]
      BY <1>d
    <3> QED
      BY <1>b, <3>1 DEF Struck, IsInterrupt
  <2> SUFFICES ASSUME client.phase = "waiting" \/ Struck
               PROVE  /\ \A i \in 1 .. Len(toServer') : IsAsk(toServer'[i]) => toServer'[i].kind = "evaluate"
                      /\ \A i \in 1 .. Len(conn'.buffer) : IsAsk(conn'.buffer[i]) => conn'.buffer[i].kind = "evaluate"
    BY <1>b, <2>1 DEF StruckIsEvaluated
  <2>2. \A i \in 1 .. Len(toServer) : IsAsk(toServer[i]) => toServer[i].kind = "evaluate"
    BY <1>0, <1>b DEF StruckIsEvaluated
  <2>3. \A i \in 1 .. Len(toServer') : IsAsk(toServer'[i]) => toServer'[i].kind = "evaluate"
    BY <1>d, <2>2
  <2>4. \A i \in 1 .. Len(b) : IsAsk(b[i]) => b[i].kind = "evaluate"
    BY <1>d, <2>2
  <2> QED
    BY <1>e, <2>3, <2>4
<1>4. RunsTheLast'
  BY <1>0, <1>a, <1>b, <1>e DEF RunsTheLast, Asking, Gone
<1>5. RepliesInStep'
  <2>1. NonePending => NonePending'
    BY <1>b, <1>d, <1>e DEF NonePending
  <2> QED
    BY <1>0, <1>b, <1>e, <2>1 DEF RepliesInStep
<1>6. LateIsExcused'
  <2> SUFFICES ASSUME NEW n \in late'
               PROVE  /\ n <= client'.n
                      /\ \/ n \in client'.typed \cup refused'
                         \/ n = client'.n /\ \E x \in 1 .. Len(conn'.buffer) : conn'.buffer[x].kind = "evaluate"
    BY DEF LateIsExcused
  <2>1. CASE n \in late
    BY <1>0, <1>a, <1>b, <2>1 DEF LateIsExcused, Exchange
  <2>2. CASE n \in LateIn(SubSeq(toServer, 1, k))
    <3>1. PICK j \in 1 .. k : /\ n = toServer[j].n /\ IsInterrupt(toServer[j])
                             /\ \E i \in 1 .. j - 1 : IsLine(toServer[i])
      <4>1. PICK j \in 1 .. k : /\ n = SubSeq(toServer, 1, k)[j].n /\ IsInterrupt(SubSeq(toServer, 1, k)[j])
                               /\ \E i \in 1 .. (j - 1) : IsLine(SubSeq(toServer, 1, k)[i])
        <5>1. DOMAIN SubSeq(toServer, 1, k) = 1 .. k
          BY <1>d
        <5> QED
          BY <2>2, <5>1 DEF LateIn
      <4>2. \A i \in 1 .. (j - 1) : i \in 1 .. k
        BY <1>a, <1>c
      <4> QED
        BY <1>d, <4>1, <4>2
    <3> QED
      BY <1>b, <1>e, <1>g, <3>1
  <2> QED
    BY <1>c, <2>1, <2>2
<1>7. InputReachesItsOwn'
  BY <1>0, <1>b DEF InputReachesItsOwn
<1> QED
  BY <1>1, <1>2, <1>3, <1>4, <1>5, <1>6, <1>7 DEF IInv

(* The console is gone and nothing is left to read. *)
LEMMA RecvEndStep ==
  ASSUME IInv, RecvEnd
  PROVE  IInv'
<1>0. /\ TypeOK /\ Exchange /\ StruckIsEvaluated /\ RunsTheLast /\ RepliesInStep
      /\ LateIsExcused /\ InputReachesItsOwn
  BY DEF IInv
<1>a. /\ client.phase \in {"editing", "waiting", "asking", "gone"} /\ client.n \in Nat /\ client.n <= Commands
      /\ toServer \in Seq(Messages) /\ toClient \in Seq(Frames) /\ conn.buffer \in Seq(Messages)
      /\ conn.at \in {"recv", "lines", "running", "closing", "closed"} /\ late \subseteq Nat
  BY <1>0, BoundsAssumption DEF TypeOK, Consoles, Connections
<1>b. /\ client.phase = "gone"
      /\ conn'.at = "closed"
      /\ conn'.buffer = conn.buffer
      /\ conn'.current = conn.current
      /\ UNCHANGED <<client, toServer, toClient, late, hits, inputs, refused>>
  BY <1>0, <1>a, BoundsAssumption DEF RecvEnd, Gone, TypeOK, Consoles, Connections
<1>t. conn' \in Connections
  <2>1. conn' = [conn EXCEPT !.at = "closed"]
    BY <1>0 DEF RecvEnd, Gone, TypeOK, Consoles, Connections
  <2> QED
    BY <1>0, <1>a, <1>b, <2>1 DEF TypeOK, Consoles, Connections, Gone
<1>1. TypeOK'
  BY <1>0, <1>a, <1>b, <1>t DEF TypeOK
<1>2. Exchange'
  BY <1>0, <1>a, <1>b DEF Exchange, NonePending, OnItsWay, InBuffer, RunsTheLast, Asking, Gone
<1>3. StruckIsEvaluated'
  BY <1>0, <1>a, <1>b DEF StruckIsEvaluated, Struck
<1>4. RunsTheLast'
  BY <1>0, <1>a, <1>b DEF RunsTheLast, Asking, Gone
<1>5. RepliesInStep'
  BY <1>0, <1>a, <1>b DEF RepliesInStep, NonePending, Asking
<1>6. LateIsExcused'
  BY <1>0, <1>a, <1>b DEF LateIsExcused
<1>7. InputReachesItsOwn'
  BY <1>0, <1>a, <1>b DEF InputReachesItsOwn
<1> QED
  BY <1>1, <1>2, <1>3, <1>4, <1>5, <1>6, <1>7 DEF IInv

(* No line is left. *)
LEMMA NoLineStep ==
  ASSUME IInv, NoLine
  PROVE  IInv'
<1>0. /\ TypeOK /\ Exchange /\ StruckIsEvaluated /\ RunsTheLast /\ RepliesInStep
      /\ LateIsExcused /\ InputReachesItsOwn
  BY DEF IInv
<1>a. /\ client.phase \in {"editing", "waiting", "asking", "gone"} /\ client.n \in Nat /\ client.n <= Commands
      /\ toServer \in Seq(Messages) /\ toClient \in Seq(Frames) /\ conn.buffer \in Seq(Messages)
      /\ conn.at \in {"recv", "lines", "running", "closing", "closed"} /\ late \subseteq Nat
  BY <1>0, BoundsAssumption DEF TypeOK, Consoles, Connections
<1>b. /\ conn.at = "lines"
      /\ conn.buffer = <<>>
      /\ conn'.at = "recv"
      /\ conn'.buffer = conn.buffer
      /\ conn'.current = conn.current
      /\ UNCHANGED <<client, toServer, toClient, late, hits, inputs, refused>>
  BY <1>0, <1>a, BoundsAssumption DEF NoLine, TypeOK, Consoles, Connections
<1>t. conn' \in Connections
  <2>1. conn' = [conn EXCEPT !.at = "recv"]
    BY <1>0 DEF NoLine, TypeOK, Consoles, Connections
  <2> QED
    BY <1>0, <1>a, <1>b, <2>1 DEF TypeOK, Consoles, Connections
<1>1. TypeOK'
  BY <1>0, <1>a, <1>b, <1>t DEF TypeOK
<1>2. Exchange'
  BY <1>0, <1>a, <1>b DEF Exchange, NonePending, OnItsWay, InBuffer, RunsTheLast, Asking, Gone, OneAsked
<1>3. StruckIsEvaluated'
  BY <1>0, <1>a, <1>b DEF StruckIsEvaluated, Struck
<1>4. RunsTheLast'
  BY <1>0, <1>a, <1>b DEF RunsTheLast, Asking, Gone
<1>5. RepliesInStep'
  BY <1>0, <1>a, <1>b DEF RepliesInStep, NonePending, Asking
<1>6. LateIsExcused'
  BY <1>0, <1>a, <1>b DEF LateIsExcused
<1>7. InputReachesItsOwn'
  BY <1>0, <1>a, <1>b DEF InputReachesItsOwn
<1> QED
  BY <1>1, <1>2, <1>3, <1>4, <1>5, <1>6, <1>7 DEF IInv

(* Taking a line that asks for nothing leaves the exchange in order. *)
LEMMA TakeLineStep ==
  ASSUME IInv, inputs' \subseteq Nat \X Nat, InputReachesItsOwn', TakeLine
  PROVE  IInv'
<1>0. /\ TypeOK /\ Exchange /\ StruckIsEvaluated /\ RunsTheLast /\ RepliesInStep
      /\ LateIsExcused /\ InputReachesItsOwn
  BY DEF IInv
<1>a. /\ client.phase \in {"editing", "waiting", "asking", "gone"} /\ client.n \in Nat /\ client.n <= Commands
      /\ toServer \in Seq(Messages) /\ toClient \in Seq(Frames) /\ conn.buffer \in Seq(Messages)
      /\ conn.at \in {"recv", "lines", "running", "closing", "closed"} /\ late \subseteq Nat
  BY <1>0, BoundsAssumption DEF TypeOK, Consoles, Connections
<1>b. /\ conn.at \in {"lines", "running"}
      /\ conn.buffer # <<>>
      /\ ~IsAsk(Head(conn.buffer))
      /\ conn' = [conn EXCEPT !.buffer = Tail(@)]
      /\ conn'.at = conn.at
      /\ conn'.buffer = Tail(conn.buffer)
      /\ conn'.current = conn.current
      /\ UNCHANGED <<client, toServer, toClient, late, hits, refused>>
      /\ inputs' \subseteq Nat \X Nat
      /\ InputReachesItsOwn'
  BY <1>0, <1>a, BoundsAssumption DEF TakeLine, TypeOK, Consoles, Connections
<1>c. Tails(conn.buffer, client.n, client.typed)
  BY <1>a, <1>b, TailKeeps
<1>d. /\ Tail(conn.buffer) \in Seq(Messages)
      /\ \A i \in 1 .. Len(Tail(conn.buffer)) : \E j \in 1 .. Len(conn.buffer) : Tail(conn.buffer)[i] = conn.buffer[j]
      /\ \A i \in 1 .. Len(conn.buffer) :
           conn.buffer[i] = Head(conn.buffer) \/ \E j \in 1 .. Len(Tail(conn.buffer)) : conn.buffer[i] = Tail(conn.buffer)[j]
      /\ \E i \in 1 .. Len(conn.buffer) : Head(conn.buffer) = conn.buffer[i]
  BY <1>c DEF Tails

<1>e. /\ NonePending => NonePending'
      /\ OnItsWay => OnItsWay'
      /\ InBuffer => InBuffer'
  <2>1. NonePending => NonePending'
    BY <1>b, <1>c DEF Tails, NonePending
  <2>2. OnItsWay => OnItsWay'
    BY <1>b, <1>d DEF OnItsWay
  <2>3. InBuffer => InBuffer'
    BY <1>b, <1>c DEF Tails, InBuffer
  <2> QED
    BY <2>1, <2>2, <2>3
<1>1. TypeOK'
  <2>1. conn' \in Connections
    <3>1. conn' = [at |-> conn.at, buffer |-> Tail(conn.buffer), current |-> conn.current, needs |-> conn.needs,
                   level |-> conn.level, worker |-> conn.worker]
      BY <1>0, <1>b DEF TypeOK, Connections
    <3> QED
      BY <1>0, <1>d, <3>1 DEF TypeOK, Connections
  <2> QED
    BY <1>0, <1>b, <2>1 DEF TypeOK
<1>2. Exchange'
  <2>1. Honest(conn'.buffer, client'.typed) /\ Honest(toServer', client'.typed)
    BY <1>0, <1>b, <1>c DEF Exchange, Tails
  <2>2. \A i \in 1 .. Len(conn'.buffer) : IsLine(conn'.buffer[i])
    BY <1>0, <1>b, <1>d DEF Exchange
  <2>3. NonePending' \/ OnItsWay' \/ InBuffer'
    BY <1>0, <1>b, <1>e DEF Exchange
  <2> QED
    BY <1>b, <2>1, <2>2, <2>3 DEF Exchange
<1>3. StruckIsEvaluated'
  <2> SUFFICES ASSUME client.phase = "waiting" \/ Struck, conn.at # "closed"
               PROVE  /\ \A i \in 1 .. Len(toServer) : IsAsk(toServer[i]) => toServer[i].kind = "evaluate"
                      /\ \A i \in 1 .. Len(Tail(conn.buffer)) :
                           IsAsk(Tail(conn.buffer)[i]) => Tail(conn.buffer)[i].kind = "evaluate"
    BY <1>b DEF StruckIsEvaluated, Struck
  <2>1. /\ \A i \in 1 .. Len(toServer) : IsAsk(toServer[i]) => toServer[i].kind = "evaluate"
        /\ \A i \in 1 .. Len(conn.buffer) : IsAsk(conn.buffer[i]) => conn.buffer[i].kind = "evaluate"
    BY <1>0 DEF StruckIsEvaluated
  <2> QED
    BY <1>d, <2>1
<1>4. RunsTheLast'
  BY <1>0, <1>a, <1>b DEF RunsTheLast, Asking, Gone
<1>5. RepliesInStep'
  BY <1>0, <1>b, <1>e DEF RepliesInStep
<1>6. LateIsExcused'
  <2> SUFFICES ASSUME NEW n \in late
               PROVE  /\ n <= client.n
                      /\ \/ n \in client.typed \cup refused
                         \/ /\ n = client.n
                            /\ \E i \in 1 .. Len(Tail(conn.buffer)) : Tail(conn.buffer)[i].kind = "evaluate"
    BY <1>b DEF LateIsExcused
  <2>1. CASE \E i \in 1 .. Len(conn.buffer) : conn.buffer[i].kind = "evaluate"
    <3>1. PICK i \in 1 .. Len(conn.buffer) : conn.buffer[i].kind = "evaluate"
      BY <2>1
    <3>2. conn.buffer[i] # Head(conn.buffer)
      BY <1>b, <3>1 DEF IsAsk
    <3>3. \E j \in 1 .. Len(Tail(conn.buffer)) : Tail(conn.buffer)[j].kind = "evaluate"
      BY <1>d, <3>1, <3>2
    <3> QED
      BY <1>0, <1>b, <3>3 DEF LateIsExcused
  <2> QED
    BY <1>0, <1>b, <2>1 DEF LateIsExcused
<1>7. InputReachesItsOwn'
  BY <1>b
<1> QED
  BY <1>1, <1>2, <1>3, <1>4, <1>5, <1>6, <1>7 DEF IInv

(* An answer goes to the console that asked for it, or the connection ends. *)
LEMMA AnswerFirstStep ==
  ASSUME IInv, refused' = refused \/ refused' = refused \cup {Head(conn.buffer).n}, Head(conn.buffer).kind = "evaluate" => client.n \in refused' \/ Head(conn.buffer).n \in refused', AnswerFirst
  PROVE  IInv'
<1>0. /\ TypeOK /\ Exchange /\ StruckIsEvaluated /\ RunsTheLast /\ RepliesInStep
      /\ LateIsExcused /\ InputReachesItsOwn
  BY DEF IInv
<1>a. /\ client.phase \in {"editing", "waiting", "asking", "gone"} /\ client.n \in Nat /\ client.n <= Commands
      /\ toServer \in Seq(Messages) /\ toClient \in Seq(Frames) /\ conn.buffer \in Seq(Messages)
      /\ conn.at \in {"recv", "lines", "running", "closing", "closed"} /\ late \subseteq Nat
  BY <1>0, BoundsAssumption DEF TypeOK, Consoles, Connections
<1>b. /\ conn.at = "lines"
      /\ conn.buffer # <<>>
      /\ IsAsk(Head(conn.buffer))
      /\ Answer(Reply(Head(conn.buffer).n))
      /\ UNCHANGED <<client, toServer, late, hits, inputs>>
  BY <1>0, <1>a, BoundsAssumption DEF AnswerFirst, TypeOK, Consoles, Connections
<1>c. Tails(conn.buffer, client.n, client.typed)
  BY <1>a, <1>b, TailKeeps
<1>d. /\ Tail(conn.buffer) \in Seq(Messages)
      /\ \A i \in 1 .. Len(Tail(conn.buffer)) : \E j \in 1 .. Len(conn.buffer) : Tail(conn.buffer)[i] = conn.buffer[j]
      /\ \A i \in 1 .. Len(conn.buffer) :
           conn.buffer[i] = Head(conn.buffer) \/ \E j \in 1 .. Len(Tail(conn.buffer)) : conn.buffer[i] = Tail(conn.buffer)[j]
      /\ \E i \in 1 .. Len(conn.buffer) : Head(conn.buffer) = conn.buffer[i]
  BY <1>c DEF Tails

<1>e. InBuffer /\ ~NonePending
  BY <1>0, <1>b, <1>d DEF Exchange, OnItsWay, NonePending, NoneAsked
<1>f. Head(conn.buffer).n = client.n /\ NoneAsked(Tail(conn.buffer), client.n) /\ NoneAsked(toServer, client.n)
  BY <1>b, <1>c, <1>e DEF Tails, InBuffer

<1>g. refused \subseteq refused' /\ refused' \subseteq Nat /\ (Head(conn.buffer).kind = "evaluate" => client.n \in refused')
  BY <1>0, <1>a, <1>f DEF TypeOK
<1>x. CASE Gone
  <2>1. toClient' = toClient /\ conn' = [conn EXCEPT !.at = "closed"]
    BY <1>b, <1>x DEF Answer
  <2>2. conn'.at = "closed" /\ conn'.buffer = conn.buffer /\ conn' \in Connections
    BY <1>0, <2>1 DEF TypeOK, Connections
  <2>3. TypeOK'
    BY <1>0, <1>b, <1>g, <2>1, <2>2 DEF TypeOK
  <2>4. Exchange'
    BY <1>0, <2>2 DEF Exchange
  <2>5. StruckIsEvaluated' /\ LateIsExcused'
    BY <2>2 DEF StruckIsEvaluated, LateIsExcused
  <2>6. RunsTheLast' /\ RepliesInStep'
    BY <1>b, <1>x, <2>2 DEF RunsTheLast, RepliesInStep, Gone, Asking
  <2>7. InputReachesItsOwn'
    BY <1>0, <1>b, <1>g DEF InputReachesItsOwn
  <2> QED
    BY <2>3, <2>4, <2>5, <2>6, <2>7 DEF IInv
<1>y. ASSUME ~Gone
      PROVE  /\ toClient' = toClient \o Reply(client.n)
             /\ conn' = [conn EXCEPT !.buffer = Tail(@)]
             /\ conn'.at = "lines" /\ conn'.buffer = Tail(conn.buffer) /\ conn'.current = conn.current
             /\ conn' \in Connections
  <2>1. toClient' = toClient \o Reply(client.n) /\ conn' = [conn EXCEPT !.buffer = Tail(@)]
    BY <1>b, <1>f, <1>y DEF Answer
  <2>2. conn' = [at |-> "lines", buffer |-> Tail(conn.buffer), current |-> conn.current, needs |-> conn.needs,
                 level |-> conn.level, worker |-> conn.worker]
    BY <1>0, <1>b, <2>1 DEF TypeOK, Connections
  <2>3. conn' \in Connections
    BY <1>0, <1>d, <2>2 DEF TypeOK, Connections
  <2> QED
    BY <2>1, <2>2, <2>3
<1> SUFFICES ASSUME ~Gone PROVE IInv'
  BY <1>x
<1>z. NonePending'
  BY <1>b, <1>f, <1>y DEF NonePending
<1>r. /\ toClient' \in Seq(Frames)
      /\ \A i \in 1 .. Len(toClient') :
           \/ \E j \in 1 .. Len(toClient) : toClient'[i] = toClient[j]
           \/ toClient'[i].n = client.n /\ (toClient'[i].kind = "P" => i = Len(toClient'))
  <2>1. Replied(toClient, client.n)
    BY <1>a, ReplyKeeps
  <2> QED
    BY <1>y, <2>1 DEF Replied
<1>1. TypeOK'
  BY <1>0, <1>b, <1>g, <1>r, <1>y DEF TypeOK
<1>2. Exchange'
  <2>1. Honest(conn'.buffer, client'.typed) /\ Honest(toServer', client'.typed)
    BY <1>0, <1>b, <1>c, <1>y DEF Exchange, Tails
  <2>2. \A i \in 1 .. Len(conn'.buffer) : IsLine(conn'.buffer[i])
    BY <1>0, <1>d, <1>y DEF Exchange
  <2> QED
    BY <1>y, <1>z, <2>1, <2>2 DEF Exchange
<1>3. StruckIsEvaluated'
  <2> SUFFICES ASSUME client.phase = "waiting" \/ Struck, conn.at # "closed"
               PROVE  /\ \A i \in 1 .. Len(toServer) : IsAsk(toServer[i]) => toServer[i].kind = "evaluate"
                      /\ \A i \in 1 .. Len(Tail(conn.buffer)) :
                           IsAsk(Tail(conn.buffer)[i]) => Tail(conn.buffer)[i].kind = "evaluate"
    BY <1>b, <1>y DEF StruckIsEvaluated, Struck
  <2>1. /\ \A i \in 1 .. Len(toServer) : IsAsk(toServer[i]) => toServer[i].kind = "evaluate"
        /\ \A i \in 1 .. Len(conn.buffer) : IsAsk(conn.buffer[i]) => conn.buffer[i].kind = "evaluate"
    BY <1>0 DEF StruckIsEvaluated
  <2> QED
    BY <1>d, <2>1
<1>4. RunsTheLast'
  BY <1>0, <1>b, <1>y DEF RunsTheLast
<1>5. RepliesInStep'
  <2>1. client.phase \in Asking
    BY <1>a, <1>e DEF InBuffer, Gone, Asking
  <2>2. /\ \A j \in 1 .. Len(toClient) : toClient[j].n = client.n
        /\ \A j \in 1 .. Len(toClient) : toClient[j].kind # "P"
    BY <1>0, <1>b, <1>e, <2>1 DEF RepliesInStep
  <2>3. /\ \A i \in 1 .. Len(toClient') : toClient'[i].n = client.n
        /\ \A i \in 1 .. Len(toClient') : toClient'[i].kind = "P" => i = Len(toClient')
    BY <1>r, <2>2
  <2> QED
    BY <1>b, <1>y, <1>z, <2>1, <2>3 DEF RepliesInStep, Asking
<1>6. LateIsExcused'
  <2> SUFFICES ASSUME NEW n \in late
               PROVE  n <= client.n /\ n \in client.typed \cup refused'
    BY <1>b DEF LateIsExcused
  <2>1. ASSUME NEW i \in 1 .. Len(conn.buffer), conn.buffer[i].kind = "evaluate" PROVE client.n \in refused'
    <3>1. IsAsk(conn.buffer[i])
      BY <2>1 DEF IsAsk
    <3>2. conn.buffer[i] = Head(conn.buffer)
      BY <1>d, <1>f, <3>1 DEF NoneAsked
    <3> QED
      BY <1>g, <2>1, <3>2
  <2> QED
    BY <1>0, <1>b, <1>g, <2>1 DEF LateIsExcused
<1>7. InputReachesItsOwn'
  BY <1>0, <1>b, <1>g DEF InputReachesItsOwn
<1> QED
  BY <1>1, <1>2, <1>3, <1>4, <1>5, <1>6, <1>7 DEF IInv

(* The line that is answered by a request starts it; the Ctrl+C kept for it are excused. *)
LEMMA StartRequestStep ==
  ASSUME IInv, StartRequest
  PROVE  IInv'
<1>0. /\ TypeOK /\ Exchange /\ StruckIsEvaluated /\ RunsTheLast /\ RepliesInStep
      /\ LateIsExcused /\ InputReachesItsOwn
  BY DEF IInv
<1>a. /\ client.phase \in {"editing", "waiting", "asking", "gone"} /\ client.n \in Nat /\ client.n <= Commands
      /\ toServer \in Seq(Messages) /\ toClient \in Seq(Frames) /\ conn.buffer \in Seq(Messages)
      /\ conn.at \in {"recv", "lines", "running", "closing", "closed"} /\ late \subseteq Nat
  BY <1>0, BoundsAssumption DEF TypeOK, Consoles, Connections
<1>b. /\ conn.at = "lines"
      /\ conn.buffer # <<>>
      /\ Head(conn.buffer).kind \notin {"console", "highlight", "stdin"}
      /\ conn' = [at |-> "running", buffer |-> Tail(conn.buffer), current |-> Head(conn.buffer).n,
                  needs |-> IF Head(conn.buffer).kind = "evaluate" THEN Needs[Head(conn.buffer).n] ELSE 0,
                  level |-> StartLevel, worker |-> "starting"]
      /\ hits' = hits \union {<<n, Head(conn.buffer).n>> : n \in late}
      /\ late' = {}
      /\ UNCHANGED <<client, toServer, toClient, inputs, refused>>
  BY <1>0, <1>a, BoundsAssumption DEF StartRequest, IsLeftover, IsInput, TypeOK, Consoles,
     Connections
<1>c. Tails(conn.buffer, client.n, client.typed)
  BY <1>a, <1>b, TailKeeps
<1>d. /\ Tail(conn.buffer) \in Seq(Messages)
      /\ \A i \in 1 .. Len(Tail(conn.buffer)) : \E j \in 1 .. Len(conn.buffer) : Tail(conn.buffer)[i] = conn.buffer[j]
      /\ \A i \in 1 .. Len(conn.buffer) :
           conn.buffer[i] = Head(conn.buffer) \/ \E j \in 1 .. Len(Tail(conn.buffer)) : conn.buffer[i] = Tail(conn.buffer)[j]
      /\ \E i \in 1 .. Len(conn.buffer) : Head(conn.buffer) = conn.buffer[i]
  BY <1>c DEF Tails

<1>e. IsAsk(Head(conn.buffer)) /\ InBuffer /\ ~NonePending
  <2>1. Head(conn.buffer).kind \in Kinds /\ IsLine(Head(conn.buffer))
    BY <1>0, <1>a, <1>d, MessageFields DEF Exchange
  <2>2. IsAsk(Head(conn.buffer))
    BY <1>b, <2>1 DEF Kinds, IsLine, IsAsk
  <2> QED
    BY <1>0, <1>b, <1>d, <2>2 DEF Exchange, OnItsWay, NonePending, NoneAsked
<1>f. Head(conn.buffer).n = client.n /\ NoneAsked(Tail(conn.buffer), client.n) /\ NoneAsked(toServer, client.n)
  BY <1>b, <1>c, <1>e DEF Tails, InBuffer
<1>g. conn'.at = "running" /\ conn'.buffer = Tail(conn.buffer) /\ conn'.current = client.n
  BY <1>b, <1>f
<1>z. NonePending'
  BY <1>b, <1>f, <1>g DEF NonePending
<1>1. TypeOK'
  <2>1. client.n \in 1 .. Commands
    <3>1. client.n # 0
      BY <1>0, <1>b, <1>d, <1>e, <1>f DEF Exchange, Honest
    <3> QED
      BY <1>a, <3>1, BoundsAssumption
  <2>2. Needs[client.n] \in Nat
    BY <2>1, NeedsAssumption
  <2>3. conn' \in Connections
    BY <1>a, <1>b, <1>d, <1>f, <2>2 DEF Connections, StartLevel
  <2>4. hits' \subseteq Nat \X Nat
    BY <1>0, <1>a, <1>b, <1>f DEF TypeOK
  <2> QED
    BY <1>0, <1>b, <2>3, <2>4 DEF TypeOK
<1>2. Exchange'
  <2>1. Honest(conn'.buffer, client'.typed) /\ Honest(toServer', client'.typed)
    BY <1>0, <1>b, <1>c, <1>g DEF Exchange, Tails
  <2>2. \A i \in 1 .. Len(conn'.buffer) : IsLine(conn'.buffer[i])
    BY <1>0, <1>d, <1>g DEF Exchange
  <2> QED
    BY <1>g, <1>z, <2>1, <2>2 DEF Exchange
<1>3. StruckIsEvaluated'
  <2> SUFFICES ASSUME client.phase = "waiting" \/ Struck, conn.at # "closed"
               PROVE  /\ \A i \in 1 .. Len(toServer) : IsAsk(toServer[i]) => toServer[i].kind = "evaluate"
                      /\ \A i \in 1 .. Len(Tail(conn.buffer)) :
                           IsAsk(Tail(conn.buffer)[i]) => Tail(conn.buffer)[i].kind = "evaluate"
    BY <1>b, <1>g DEF StruckIsEvaluated, Struck
  <2>1. /\ \A i \in 1 .. Len(toServer) : IsAsk(toServer[i]) => toServer[i].kind = "evaluate"
        /\ \A i \in 1 .. Len(conn.buffer) : IsAsk(conn.buffer[i]) => conn.buffer[i].kind = "evaluate"
    BY <1>0 DEF StruckIsEvaluated
  <2> QED
    BY <1>d, <2>1
<1>4. RunsTheLast'
  BY <1>0, <1>b, <1>e, <1>g DEF RunsTheLast, InBuffer
<1>5. RepliesInStep'
  BY <1>0, <1>b, <1>e, <1>g DEF RepliesInStep
<1>6. LateIsExcused'
  BY <1>b DEF LateIsExcused
<1>7. InputReachesItsOwn'
  <2>1. ASSUME NEW n \in late PROVE n = client.n \/ (n < client.n /\ n \in client.typed \cup refused)
    <3>1. n <= client.n /\ (n = client.n \/ n \in client.typed \cup refused) /\ n \in Nat
      BY <1>0, <1>a, <1>b DEF LateIsExcused
    <3> QED
      BY <1>a, <3>1
  <2>2. ASSUME NEW pair \in hits'
        PROVE  pair[1] = pair[2] \/ (pair[1] < pair[2] /\ pair[1] \in client.typed \cup refused)
    <3>1. CASE pair \in hits
      BY <1>0, <3>1 DEF InputReachesItsOwn
    <3>2. CASE pair \in {<<n, client.n>> : n \in late}
      BY <2>1, <3>2
    <3> QED
      BY <1>b, <1>f, <3>1, <3>2
  <2> QED
    BY <1>0, <1>b, <2>2 DEF InputReachesItsOwn
<1> QED
  BY <1>1, <1>2, <1>3, <1>4, <1>5, <1>6, <1>7 DEF IInv

(* While a request runs a Ctrl+C acts when it is read, and the lines wait behind the buffer. *)
LEMMA RecvRunningStep ==
  ASSUME IInv, RecvRunning
  PROVE  IInv'
<1>0. /\ TypeOK /\ Exchange /\ StruckIsEvaluated /\ RunsTheLast /\ RepliesInStep
      /\ LateIsExcused /\ InputReachesItsOwn
  BY DEF IInv
<1>a. /\ client.phase \in {"editing", "waiting", "asking", "gone"} /\ client.n \in Nat /\ client.n <= Commands
      /\ toServer \in Seq(Messages) /\ toClient \in Seq(Frames) /\ conn.buffer \in Seq(Messages)
      /\ conn.at \in {"recv", "lines", "running", "closing", "closed"} /\ late \subseteq Nat
  BY <1>0, BoundsAssumption DEF TypeOK, Consoles, Connections
<1>b. /\ conn.at = "running"
      /\ conn.current = client.n
      /\ NonePending
      /\ UNCHANGED <<client, toClient, late, inputs, refused>>
  BY <1>0, <1>a, BoundsAssumption DEF RecvRunning, Running, RunsTheLast, Exchange, OnItsWay,
     InBuffer, TypeOK, Consoles, Connections
<1>c. PICK k \in 1 .. Len(toServer) :
        /\ toServer' = SubSeq(toServer, k + 1, Len(toServer))
        /\ conn' = [conn EXCEPT !.buffer = @ \o LinesOf(SubSeq(toServer, 1, k)),
                                !.level = Interrupted(@, Cardinality({i \in 1 .. k : IsInterrupt(SubSeq(toServer, 1, k)[i])}))]
        /\ hits' = hits \union {<<SubSeq(toServer, 1, k)[i].n, conn.current>> :
                                i \in {i \in 1 .. k : IsInterrupt(SubSeq(toServer, 1, k)[i])}}
  BY DEF RecvRunning
<1> DEFINE b == LinesOf(SubSeq(toServer, 1, k))
<1>s. Splits(toServer, k, client.n, client.typed)
  BY <1>a, <1>c, ChunkSplits
<1>d. /\ toServer' \in Seq(Messages) /\ SubSeq(toServer, 1, k) \in Seq(Messages)
      /\ b \in Seq(Messages) /\ Len(SubSeq(toServer, 1, k)) = k
      /\ \A i \in 1 .. k : i \in 1 .. Len(toServer) /\ SubSeq(toServer, 1, k)[i] = toServer[i]
      /\ \A j \in 1 .. Len(b) : IsLine(b[j]) /\ \E i \in 1 .. Len(toServer) : b[j] = toServer[i]
      /\ \A j \in 1 .. Len(toServer') : \E i \in 1 .. Len(toServer) : toServer'[j] = toServer[i]
      /\ \A i \in 1 .. k : IsLine(toServer[i]) => \E j \in 1 .. Len(b) : b[j] = toServer[i]
      /\ Honest(toServer, client.typed) => Honest(b, client.typed) /\ Honest(toServer', client.typed)
      /\ NoneAsked(toServer, client.n) => NoneAsked(b, client.n) /\ NoneAsked(toServer', client.n)
      /\ OneAsked(toServer, client.n) =>
           \/ /\ \A j \in 1 .. Len(b) : b[j].n + 1 = client.n /\ ~IsAsk(b[j])
              /\ OneAsked(toServer', client.n)
           \/ OneAsked(b, client.n) /\ NoneAsked(toServer', client.n)
  <2> USE <1>c, <1>s DEF Splits
  <2> QED
    OBVIOUS
<1>e. conn'.at = "running" /\ conn'.buffer = conn.buffer \o b /\ conn'.current = client.n
  BY <1>0, <1>b, <1>c DEF TypeOK, Connections
<1>f. b \in Seq(Messages) /\ NoneAsked(b, client.n) /\ NoneAsked(toServer', client.n)
  BY <1>b, <1>d DEF NonePending
<1> HIDE DEF b

<1>j. Joins(conn.buffer, b, client.n, client.typed)
  BY <1>a, <1>f, JoinKeeps
<1>g. /\ conn'.buffer \in Seq(Messages)
      /\ \A i \in 1 .. Len(conn'.buffer) :
           (\E j \in 1 .. Len(conn.buffer) : conn'.buffer[i] = conn.buffer[j]) \/ \E j \in 1 .. Len(b) : conn'.buffer[i] = b[j]
  BY <1>e, <1>j DEF Joins
<1>z. NonePending'
  BY <1>b, <1>e, <1>f, <1>j DEF NonePending, Joins
<1>1. TypeOK'
  <2>1. conn' \in Connections
    <3> DEFINE strokes == {i \in 1 .. k : IsInterrupt(SubSeq(toServer, 1, k)[i])}
    <3>1. conn' = [at |-> conn.at, buffer |-> conn.buffer \o b, current |-> conn.current, needs |-> conn.needs,
                   level |-> Interrupted(conn.level, Cardinality(strokes)), worker |-> conn.worker]
      BY <1>0, <1>c DEF TypeOK, Connections, b
    <3>2. Cardinality(strokes) \in Nat
      <4>1. IsFiniteSet(1 .. k) /\ strokes \subseteq 1 .. k
        <5>1. 1 \in Int /\ k \in Int
          BY <1>a, <1>c
        <5> QED
          BY <5>1, FS_Interval
      <4> QED
        BY <4>1, FS_Subset, FS_CardinalityType
    <3> HIDE DEF strokes
    <3>3. Interrupted(conn.level, Cardinality(strokes)) \in Nat
      BY <1>0, <3>2 DEF TypeOK, Connections, Interrupted
    <3> QED
      BY <1>0, <1>e, <1>g, <3>1, <3>3 DEF TypeOK, Connections
  <2>2. hits' \subseteq Nat \X Nat
    <3>1. \A i \in 1 .. k : SubSeq(toServer, 1, k)[i].n \in Nat
      BY <1>d, MessageFields
    <3> QED
      BY <1>0, <1>a, <1>b, <1>c, <3>1 DEF TypeOK
  <2> QED
    BY <1>0, <1>b, <1>d, <2>1, <2>2 DEF TypeOK
<1>2. Exchange'
  <2>1. Honest(conn'.buffer, client'.typed) /\ Honest(toServer', client'.typed)
    BY <1>0, <1>b, <1>d, <1>e, <1>j DEF Exchange, Joins
  <2>2. \A i \in 1 .. Len(conn'.buffer) : IsLine(conn'.buffer[i])
    BY <1>0, <1>d, <1>g DEF Exchange
  <2> QED
    BY <1>e, <1>z, <2>1, <2>2 DEF Exchange
<1>3. StruckIsEvaluated'
  <2>1. /\ \A i \in 1 .. Len(toServer') : ~IsAsk(toServer'[i])
        /\ \A i \in 1 .. Len(conn'.buffer) : ~IsAsk(conn'.buffer[i])
    BY <1>z DEF NonePending, NoneAsked
  <2> QED
    BY <2>1 DEF StruckIsEvaluated
<1>4. RunsTheLast'
  BY <1>0, <1>b, <1>e DEF RunsTheLast
<1>5. RepliesInStep'
  BY <1>0, <1>b, <1>e, <1>z DEF RepliesInStep
<1>6. LateIsExcused'
  <2>1. \A i \in 1 .. Len(conn.buffer) : conn.buffer[i].kind # "evaluate"
    BY <1>b DEF NonePending, NoneAsked, IsAsk
  <2> QED
    BY <1>0, <1>b, <2>1 DEF LateIsExcused
<1>7. InputReachesItsOwn'
  <2>1. ASSUME NEW i \in 1 .. k PROVE SubSeq(toServer, 1, k)[i].n = client.n
    BY <1>b, <1>d DEF NonePending, NoneAsked
  <2>2. ASSUME NEW pair \in hits'
        PROVE  pair[1] = pair[2] \/ (pair[1] < pair[2] /\ pair[1] \in client.typed \cup refused)
    <3>1. CASE pair \in hits
      BY <1>0, <3>1 DEF InputReachesItsOwn
    <3>2. CASE pair \in {<<SubSeq(toServer, 1, k)[i].n, conn.current>> :
                         i \in {i \in 1 .. k : IsInterrupt(SubSeq(toServer, 1, k)[i])}}
      BY <1>b, <2>1, <3>2
    <3> QED
      BY <1>c, <3>1, <3>2
  <2> QED
    BY <1>0, <1>b, <2>2 DEF InputReachesItsOwn
<1> QED
  BY <1>1, <1>2, <1>3, <1>4, <1>5, <1>6, <1>7 DEF IInv

(* The poll reports that the console is gone. *)
LEMMA HangUpStep ==
  ASSUME IInv, HangUp
  PROVE  IInv'
<1>0. /\ TypeOK /\ Exchange /\ StruckIsEvaluated /\ RunsTheLast /\ RepliesInStep
      /\ LateIsExcused /\ InputReachesItsOwn
  BY DEF IInv
<1>a. /\ client.phase \in {"editing", "waiting", "asking", "gone"} /\ client.n \in Nat /\ client.n <= Commands
      /\ toServer \in Seq(Messages) /\ toClient \in Seq(Frames) /\ conn.buffer \in Seq(Messages)
      /\ conn.at \in {"recv", "lines", "running", "closing", "closed"} /\ late \subseteq Nat
  BY <1>0, BoundsAssumption DEF TypeOK, Consoles, Connections
<1>b. /\ conn.at = "running"
      /\ client.phase = "gone"
      /\ conn'.at = "closing"
      /\ conn'.buffer = conn.buffer
      /\ conn'.current = conn.current
      /\ UNCHANGED <<client, toServer, toClient, late, hits, inputs, refused>>
  BY <1>0, <1>a, BoundsAssumption DEF HangUp, Running, Gone, TypeOK, Consoles, Connections
<1>t. conn' \in Connections
  <2>1. conn' = [conn EXCEPT !.at = "closing", !.level = 2]
    BY <1>0 DEF HangUp, Running, Gone, TypeOK, Consoles, Connections
  <2> QED
    BY <1>0, <1>a, <1>b, <2>1 DEF TypeOK, Consoles, Connections
<1>1. TypeOK'
  BY <1>0, <1>a, <1>b, <1>t DEF TypeOK
<1>2. Exchange'
  BY <1>0, <1>a, <1>b DEF Exchange, NonePending, OnItsWay, InBuffer, RunsTheLast, Asking, Gone
<1>3. StruckIsEvaluated'
  BY <1>0, <1>a, <1>b DEF StruckIsEvaluated, Struck
<1>4. RunsTheLast'
  BY <1>0, <1>a, <1>b DEF RunsTheLast, Asking, Gone
<1>5. RepliesInStep'
  BY <1>0, <1>a, <1>b DEF RepliesInStep, NonePending, Asking
<1>6. LateIsExcused'
  BY <1>0, <1>a, <1>b DEF LateIsExcused
<1>7. InputReachesItsOwn'
  BY <1>0, <1>a, <1>b DEF InputReachesItsOwn
<1> QED
  BY <1>1, <1>2, <1>3, <1>4, <1>5, <1>6, <1>7 DEF IInv

(* The terminal's output cannot be sent. *)
LEMMA DrainFailsStep ==
  ASSUME IInv, DrainFails
  PROVE  IInv'
<1>0. /\ TypeOK /\ Exchange /\ StruckIsEvaluated /\ RunsTheLast /\ RepliesInStep
      /\ LateIsExcused /\ InputReachesItsOwn
  BY DEF IInv
<1>a. /\ client.phase \in {"editing", "waiting", "asking", "gone"} /\ client.n \in Nat /\ client.n <= Commands
      /\ toServer \in Seq(Messages) /\ toClient \in Seq(Frames) /\ conn.buffer \in Seq(Messages)
      /\ conn.at \in {"recv", "lines", "running", "closing", "closed"} /\ late \subseteq Nat
  BY <1>0, BoundsAssumption DEF TypeOK, Consoles, Connections
<1>b. /\ conn.at = "running"
      /\ client.phase = "gone"
      /\ conn'.at = "closing"
      /\ conn'.buffer = conn.buffer
      /\ conn'.current = conn.current
      /\ UNCHANGED <<client, toServer, toClient, late, hits, inputs, refused>>
  BY <1>0, <1>a, BoundsAssumption DEF DrainFails, Running, Gone, TypeOK, Consoles, Connections
<1>1. TypeOK'
  <2>1. conn' = [at |-> "closing", buffer |-> conn.buffer, current |-> conn.current, needs |-> conn.needs,
                 level |-> Interrupted(conn.level, 1), worker |-> conn.worker]
    BY <1>0 DEF DrainFails, TypeOK, Connections
  <2>2. Interrupted(conn.level, 1) \in Nat
    BY <1>0 DEF TypeOK, Connections, Interrupted
  <2>3. conn' \in Connections
    BY <1>0, <2>1, <2>2 DEF TypeOK, Connections
  <2> QED
    BY <1>0, <1>b, <2>3 DEF TypeOK
<1>2. Exchange'
  BY <1>0, <1>a, <1>b DEF Exchange, NonePending, OnItsWay, InBuffer, RunsTheLast, Asking, Gone
<1>3. StruckIsEvaluated'
  BY <1>0, <1>a, <1>b DEF StruckIsEvaluated, Struck
<1>4. RunsTheLast'
  BY <1>0, <1>a, <1>b DEF RunsTheLast, Asking, Gone
<1>5. RepliesInStep'
  BY <1>0, <1>a, <1>b DEF RepliesInStep, NonePending, Asking
<1>6. LateIsExcused'
  BY <1>0, <1>a, <1>b DEF LateIsExcused
<1>7. InputReachesItsOwn'
  BY <1>0, <1>a, <1>b DEF InputReachesItsOwn
<1> QED
  BY <1>1, <1>2, <1>3, <1>4, <1>5, <1>6, <1>7 DEF IInv

(* The request is over and the console gone. *)
LEMMA FinishClosingStep ==
  ASSUME IInv, FinishClosing
  PROVE  IInv'
<1>0. /\ TypeOK /\ Exchange /\ StruckIsEvaluated /\ RunsTheLast /\ RepliesInStep
      /\ LateIsExcused /\ InputReachesItsOwn
  BY DEF IInv
<1>a. /\ client.phase \in {"editing", "waiting", "asking", "gone"} /\ client.n \in Nat /\ client.n <= Commands
      /\ toServer \in Seq(Messages) /\ toClient \in Seq(Frames) /\ conn.buffer \in Seq(Messages)
      /\ conn.at \in {"recv", "lines", "running", "closing", "closed"} /\ late \subseteq Nat
  BY <1>0, BoundsAssumption DEF TypeOK, Consoles, Connections
<1>b. /\ conn.at = "closing"
      /\ conn'.at = "closed"
      /\ conn'.buffer = conn.buffer
      /\ conn'.current = conn.current
      /\ UNCHANGED <<client, toServer, toClient, late, hits, inputs, refused>>
  BY <1>0, <1>a, BoundsAssumption DEF FinishClosing, Gone, TypeOK, Consoles, Connections
<1>t. conn' \in Connections
  <2>1. conn' = [conn EXCEPT !.at = "closed", !.worker = "none"]
    BY <1>0 DEF FinishClosing, Gone, TypeOK, Consoles, Connections
  <2> QED
    BY <1>0, <1>a, <1>b, <2>1 DEF TypeOK, Consoles, Connections
<1>1. TypeOK'
  BY <1>0, <1>a, <1>b, <1>t DEF TypeOK
<1>2. Exchange'
  BY <1>0, <1>a, <1>b DEF Exchange, NonePending, OnItsWay, InBuffer, RunsTheLast, Asking, Gone
<1>3. StruckIsEvaluated'
  BY <1>0, <1>a, <1>b DEF StruckIsEvaluated, Struck
<1>4. RunsTheLast'
  BY <1>0, <1>a, <1>b DEF RunsTheLast, Asking, Gone
<1>5. RepliesInStep'
  BY <1>0, <1>a, <1>b DEF RepliesInStep, NonePending, Asking
<1>6. LateIsExcused'
  BY <1>0, <1>a, <1>b DEF LateIsExcused
<1>7. InputReachesItsOwn'
  BY <1>0, <1>a, <1>b DEF InputReachesItsOwn
<1> QED
  BY <1>1, <1>2, <1>3, <1>4, <1>5, <1>6, <1>7 DEF IInv

(* The worker returns. *)
LEMMA WorkerStep ==
  ASSUME IInv, WorkerStarts \/ WorkerEnds
  PROVE  IInv'
<1>0. /\ TypeOK /\ Exchange /\ StruckIsEvaluated /\ RunsTheLast /\ RepliesInStep
      /\ LateIsExcused /\ InputReachesItsOwn
  BY DEF IInv
<1>a. /\ client.phase \in {"editing", "waiting", "asking", "gone"} /\ client.n \in Nat /\ client.n <= Commands
      /\ toServer \in Seq(Messages) /\ toClient \in Seq(Frames) /\ conn.buffer \in Seq(Messages)
      /\ conn.at \in {"recv", "lines", "running", "closing", "closed"} /\ late \subseteq Nat
  BY <1>0, BoundsAssumption DEF TypeOK, Consoles, Connections
<1>w. PICK worker \in {"busy", "done"} : conn' = [conn EXCEPT !.worker = worker]
  BY DEF WorkerStarts, WorkerEnds, FirstStep
<1>b. /\ conn'.at = conn.at
      /\ conn'.buffer = conn.buffer
      /\ conn'.current = conn.current
      /\ UNCHANGED <<client, toServer, toClient, late, hits, inputs, refused>>
  BY <1>0, <1>w DEF WorkerStarts, WorkerEnds, TypeOK, Connections
<1>t. conn' \in Connections
  BY <1>0, <1>w DEF TypeOK, Connections
<1>1. TypeOK'
  BY <1>0, <1>a, <1>b, <1>t DEF TypeOK
<1>2. Exchange'
  BY <1>0, <1>a, <1>b DEF Exchange, NonePending, OnItsWay, InBuffer, RunsTheLast, Asking, Gone
<1>3. StruckIsEvaluated'
  BY <1>0, <1>a, <1>b DEF StruckIsEvaluated, Struck
<1>4. RunsTheLast'
  BY <1>0, <1>a, <1>b DEF RunsTheLast, Asking, Gone
<1>5. RepliesInStep'
  BY <1>0, <1>a, <1>b DEF RepliesInStep, NonePending, Asking
<1>6. LateIsExcused'
  BY <1>0, <1>a, <1>b DEF LateIsExcused
<1>7. InputReachesItsOwn'
  BY <1>0, <1>a, <1>b DEF InputReachesItsOwn
<1> QED
  BY <1>1, <1>2, <1>3, <1>4, <1>5, <1>6, <1>7 DEF IInv

(* The output of the request that runs is for the console that waits for it. *)
LEMMA StreamStep ==
  ASSUME IInv, Stream
  PROVE  IInv'
<1>0. /\ TypeOK /\ Exchange /\ StruckIsEvaluated /\ RunsTheLast /\ RepliesInStep
      /\ LateIsExcused /\ InputReachesItsOwn
  BY DEF IInv
<1>a. /\ client.phase \in {"editing", "waiting", "asking", "gone"} /\ client.n \in Nat /\ client.n <= Commands
      /\ toServer \in Seq(Messages) /\ toClient \in Seq(Frames) /\ conn.buffer \in Seq(Messages)
      /\ conn.at \in {"recv", "lines", "running", "closing", "closed"} /\ late \subseteq Nat
  BY <1>0, BoundsAssumption DEF TypeOK, Consoles, Connections
<1>b. /\ conn.at = "running"
      /\ conn.current = client.n
      /\ client.phase \in Asking
      /\ toClient' = <<Frame("O", client.n)>>
      /\ UNCHANGED <<client, toServer, conn, late, hits, inputs, refused>>
  BY <1>0, <1>a, BoundsAssumption DEF Stream, Running, RunsTheLast, Asking, Gone, TypeOK, Consoles,
     Connections
<1>1. TypeOK'
  BY <1>0, <1>a, <1>b DEF TypeOK, Frame, Frames
<1>2. Exchange'
  BY <1>0, <1>a, <1>b DEF Exchange, NonePending, OnItsWay, InBuffer, RunsTheLast, Asking, Gone
<1>3. StruckIsEvaluated'
  BY <1>0, <1>a, <1>b DEF StruckIsEvaluated, Struck
<1>4. RunsTheLast'
  BY <1>0, <1>a, <1>b DEF RunsTheLast, Asking, Gone
<1>5. RepliesInStep'
  BY <1>b DEF RepliesInStep, Frame, Asking
<1>6. LateIsExcused'
  BY <1>0, <1>a, <1>b DEF LateIsExcused
<1>7. InputReachesItsOwn'
  BY <1>0, <1>a, <1>b DEF InputReachesItsOwn
<1> QED
  BY <1>1, <1>2, <1>3, <1>4, <1>5, <1>6, <1>7 DEF IInv

(* The reply of the request that ran goes to the console that waits for it. *)
LEMMA FinishStep ==
  ASSUME IInv, Finish
  PROVE  IInv'
<1>0. /\ TypeOK /\ Exchange /\ StruckIsEvaluated /\ RunsTheLast /\ RepliesInStep
      /\ LateIsExcused /\ InputReachesItsOwn
  BY DEF IInv
<1>a. /\ client.phase \in {"editing", "waiting", "asking", "gone"} /\ client.n \in Nat /\ client.n <= Commands
      /\ toServer \in Seq(Messages) /\ toClient \in Seq(Frames) /\ conn.buffer \in Seq(Messages)
      /\ conn.at \in {"recv", "lines", "running", "closing", "closed"} /\ late \subseteq Nat
  BY <1>0, BoundsAssumption DEF TypeOK, Consoles, Connections
<1>b. /\ conn.at = "running"
      /\ conn.current = client.n
      /\ NonePending
      /\ client.phase # "editing"
      /\ \/ Gone /\ toClient' = toClient
         \/ ~Gone /\ toClient' = toClient \o Reply(client.n)
      /\ conn'.at \in {"lines", "closed"}
      /\ conn'.buffer = conn.buffer
      /\ UNCHANGED <<client, toServer, late, hits, inputs, refused>>
  BY <1>0, <1>a, BoundsAssumption DEF Finish, Running, RunsTheLast, Exchange, OnItsWay, InBuffer,
     TypeOK, Consoles, Connections, TypeOK, Consoles, Connections
<1>c. conn' \in Connections
  <2>1. PICK quit \in BOOLEAN : conn' = [conn EXCEPT !.at = IF Gone \/ quit THEN "closed" ELSE "lines", !.worker = "none"]
    BY DEF Finish
  <2>2. conn' = [at |-> IF Gone \/ quit THEN "closed" ELSE "lines", buffer |-> conn.buffer, current |-> conn.current,
                 needs |-> conn.needs, level |-> conn.level, worker |-> "none"]
    BY <1>0, <2>1 DEF TypeOK, Connections
  <2> QED
    BY <1>0, <2>2 DEF TypeOK, Connections
<1>z. NonePending'
  BY <1>b DEF NonePending
<1>r. ~Gone => /\ toClient' \in Seq(Frames)
               /\ \A i \in 1 .. Len(toClient') :
                    \/ \E j \in 1 .. Len(toClient) : toClient'[i] = toClient[j]
                    \/ toClient'[i].n = client.n /\ (toClient'[i].kind = "P" => i = Len(toClient'))
  <2>1. Replied(toClient, client.n)
    BY <1>a, ReplyKeeps
  <2> QED
    BY <1>b, <2>1 DEF Replied
<1>1. TypeOK'
  BY <1>0, <1>b, <1>c, <1>r DEF TypeOK
<1>2. Exchange'
  BY <1>0, <1>b, <1>z DEF Exchange
<1>3. StruckIsEvaluated'
  BY <1>0, <1>a, <1>b DEF StruckIsEvaluated, Struck
<1>4. RunsTheLast'
  BY <1>0, <1>a, <1>b DEF RunsTheLast, Asking, Gone
<1>5. RepliesInStep'
  <2>1. CASE Gone
    BY <1>b, <2>1 DEF RepliesInStep, Gone, Asking
  <2>2. CASE ~Gone
    <3>1. client.phase \in Asking
      BY <1>a, <1>b, <2>2 DEF Gone, Asking
    <3>2. /\ \A j \in 1 .. Len(toClient) : toClient[j].n = client.n
          /\ \A j \in 1 .. Len(toClient) : toClient[j].kind # "P"
      BY <1>0, <1>b, <3>1 DEF RepliesInStep
    <3>3. /\ \A i \in 1 .. Len(toClient') : toClient'[i].n = client.n
          /\ \A i \in 1 .. Len(toClient') : toClient'[i].kind = "P" => i = Len(toClient')
      BY <1>r, <2>2, <3>2
    <3> QED
      BY <1>b, <1>z, <3>1, <3>3 DEF RepliesInStep, Asking
  <2> QED
    BY <2>1, <2>2
<1>6. LateIsExcused'
  BY <1>0, <1>a, <1>b DEF LateIsExcused
<1>7. InputReachesItsOwn'
  BY <1>0, <1>a, <1>b DEF InputReachesItsOwn
<1> QED
  BY <1>1, <1>2, <1>3, <1>4, <1>5, <1>6, <1>7 DEF IInv
(* The connection starts with the console's handshake on its way.           *)
LEMMA InitIInv ==
  ASSUME Init
  PROVE  IInv
<1>1. /\ client = [phase |-> "editing", n |-> 0, typed |-> {}, pressed |-> 0]
      /\ toServer = <<Message("console", 0)>> /\ toClient = <<>>
      /\ conn = [at |-> "recv", buffer |-> <<>>, current |-> 0, needs |-> 0, level |-> 0, worker |-> "none"]
      /\ late = {} /\ hits = {} /\ inputs = {} /\ refused = {}
  BY DEF Init
<1>2. TypeOK
  BY <1>1, BoundsAssumption DEF TypeOK, Consoles, Connections, Messages, Message, Kinds
<1>3. NonePending
  BY <1>1 DEF NonePending, NoneAsked, IsAsk, Message
<1>4. Exchange
  BY <1>1, <1>3 DEF Exchange, Honest, IsAsk, Message
<1>5. StruckIsEvaluated /\ RunsTheLast /\ RepliesInStep
  BY <1>1 DEF StruckIsEvaluated, Struck, RunsTheLast, RepliesInStep, IsInterrupt, IsAsk, Message, Asking
<1>6. LateIsExcused /\ InputReachesItsOwn
  BY <1>1 DEF LateIsExcused, InputReachesItsOwn
<1> QED
  BY <1>2, <1>4, <1>5, <1>6 DEF IInv

(* The lines that ask for nothing, and the answers. *)
LEMMA LineStep ==
  ASSUME IInv, Handshake \/ SkipInput \/ Deliver \/ Highlight \/ NoTerminal
  PROVE  IInv'
<1>0. TypeOK /\ RunsTheLast /\ InputReachesItsOwn /\ Exchange
  BY DEF IInv
<1>1. ASSUME Handshake \/ SkipInput PROVE IInv'
  <2>1. TakeLine /\ inputs' = inputs /\ hits' = hits /\ client' = client /\ refused' = refused
    BY <1>1 DEF Handshake, SkipInput, NextLine, TakeLine, IsLeftover, AfterLeftover, IsInput, IsAsk
  <2>2. inputs' \subseteq Nat \X Nat /\ InputReachesItsOwn'
    BY <1>0, <2>1 DEF TypeOK, InputReachesItsOwn
  <2> QED
    BY <2>1, <2>2, TakeLineStep
<1>2. ASSUME Deliver PROVE IInv'
  <2>1. TakeLine
    BY <1>2 DEF Deliver, Running, TakeLine, IsInput, IsAsk
  <2>2. /\ inputs' = inputs \union {<<Head(conn.buffer).n, conn.current>>}
        /\ hits' = hits /\ client' = client /\ refused' = refused /\ conn.buffer # <<>>
        /\ conn.current = client.n /\ NonePending /\ client.n \in Nat /\ conn.buffer \in Seq(Messages)
    BY <1>0, <1>2 DEF Deliver, Running, RunsTheLast, Exchange, OnItsWay, InBuffer, TypeOK, Consoles, Connections
  <2>3. Head(conn.buffer).n = client.n
    BY <2>2 DEF NonePending, NoneAsked
  <2>4. inputs' \subseteq Nat \X Nat
    BY <1>0, <2>2, <2>3 DEF TypeOK
  <2>5. InputReachesItsOwn'
    BY <1>0, <2>2, <2>3 DEF InputReachesItsOwn
  <2> QED
    BY <2>1, <2>4, <2>5, TakeLineStep
<1>3. ASSUME Highlight PROVE IInv'
  <2>1. AnswerFirst /\ refused' = refused /\ Head(conn.buffer).kind # "evaluate"
    BY <1>3 DEF Highlight, NextLine, AnswerFirst, IsAsk
  <2> QED
    BY <2>1, AnswerFirstStep
<1>4. ASSUME NoTerminal PROVE IInv'
  <2>1. AnswerFirst /\ refused' = refused \cup {Head(conn.buffer).n}
    BY <1>4 DEF NoTerminal, IsRequest, AnswerFirst, IsAsk
  <2> QED
    BY <2>1, AnswerFirstStep
<1> QED
  BY <1>1, <1>2, <1>3, <1>4

(* The inductive invariant holds in every reachable state. *)
THEOREM Invariance == Spec => []IInv
<1>1. Init => IInv
  BY InitIInv
<1>2. IInv /\ [Next]_vars => IInv'
  <2> SUFFICES ASSUME IInv, [Next]_vars PROVE IInv'
    OBVIOUS
  <2>1. CASE Submit
    BY <2>1, CommandStep DEF Submit, Asking
  <2>2. CASE Ask
    <3>1. PICK kind \in {"complete", "highlight"} : Command(kind, "asking")
      BY <2>2 DEF Ask
    <3> QED
      BY <3>1, CommandStep DEF Asking
  <2>3. CASE TypeLine \/ PressCtrlC \/ Consume \/ ServerClosed \/ LeaveConsole
    BY <2>3, TypeLineStep, PressCtrlCStep, ConsumeStep, ServerClosedStep, LeaveConsoleStep
  <2>4. CASE Recv \/ RecvEnd \/ NoLine
    BY <2>4, RecvStep, RecvEndStep, NoLineStep
  <2>5. CASE Handshake \/ SkipInput \/ Highlight \/ NoTerminal \/ Deliver
    BY <2>5, LineStep
  <2>6. CASE StartRequest \/ RecvRunning \/ HangUp \/ DrainFails \/ Finish \/ FinishClosing
    BY <2>6, StartRequestStep, RecvRunningStep, HangUpStep, DrainFailsStep, FinishStep, FinishClosingStep
  <2>7. CASE WorkerStarts \/ WorkerEnds \/ Stream
    BY <2>7, WorkerStep, StreamStep
  <2>8. CASE UNCHANGED vars
    <3> USE <2>8 DEF vars
    <3>1. TypeOK' /\ InputReachesItsOwn'
      BY DEF IInv, TypeOK, InputReachesItsOwn
    <3>2. Exchange'
      BY DEF IInv, Exchange, NonePending, OnItsWay, InBuffer
    <3>3. StruckIsEvaluated' /\ RunsTheLast'
      BY DEF IInv, StruckIsEvaluated, Struck, RunsTheLast, Gone
    <3>4. RepliesInStep' /\ LateIsExcused'
      BY DEF IInv, RepliesInStep, LateIsExcused, NonePending
    <3> QED
      BY <3>1, <3>2, <3>3, <3>4 DEF IInv
  <2> QED
    BY <2>1, <2>2, <2>3, <2>4, <2>5, <2>6, <2>7, <2>8 DEF Next, ConsoleStep, ServerStep
<1> QED
  BY <1>1, <1>2, PTL DEF Spec

(* At the prompt no frame is on its way, while the console waits every      *)
(* frame is for the command it waits for and nothing follows the completion *)
(* frame (ConsoleFrames::consume).                                          *)
THEOREM RepliesAreInStep == Spec => []ReplyIsMine
<1>1. IInv => ReplyIsMine
  <2> SUFFICES ASSUME IInv PROVE ReplyIsMine
    OBVIOUS
  <2>1. RepliesInStep /\ toClient \in Seq(Frames)
    BY DEF IInv, TypeOK
  <2>2. DOMAIN toClient = 1 .. Len(toClient)
    BY <2>1
  <2> QED
    BY <2>1, <2>2 DEF ReplyIsMine, RepliesInStep, Asking
<1> QED
  BY <1>1, Invariance, PTL

(* A line typed while a command runs reaches its own terminal or none, and  *)
(* a Ctrl+C that interrupts another command was kept behind input of its    *)
(* own, or of a command that got no terminal (the comment in                *)
(* Server.cpp on input arriving just after a command completed).            *)
THEOREM InputIsSound == Spec => []InputReachesItsOwn
<1>1. IInv => InputReachesItsOwn
  BY DEF IInv
<1> QED
  BY <1>1, Invariance, PTL
=============================================================================
