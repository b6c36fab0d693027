------------------------- MODULE NativeDebuggerProofs -------------------------
(* Proofs about the debugger's controller: for any program, any number of threads *)
(* and any breakpoints.                                                          *)
EXTENDS NativeDebugger, TLAPS, SequenceTheorems

StopEvents == {"stop", "signal", "sigstop", "tty", "int3", "trace", "clone"}
KThread == [state : {"absent", "running", "stopped", "zombie", "gone"}, event : StopEvents \cup {Free, "exit"},
            interrupt : BOOLEAN, sig : {Free, "queued", "halt", "terminal", "offered", "halting"}, single : BOOLEAN,
            frames : Seq(DOMAIN Program), born : Threads \cup {0}]
(* No thread is ever recorded with a trap of the debugger's own. *)
DThread == [stopped : BOOLEAN, signal : {Free, "app"}, instruction : Nat, breakpoint : Nat]

Typed(s) ==
    /\ s = [rip |-> s.rip, text |-> s.text, threads |-> s.threads, bps |-> s.bps, sel |-> s.sel, cur |-> s.cur]
    /\ s.rip \in [Threads -> Nat]
    /\ s.threads \in [DOMAIN s.threads -> DThread] /\ DOMAIN s.threads \subseteq Threads
    /\ s.bps \in [DOMAIN s.bps -> BOOLEAN] /\ DOMAIN s.bps \subseteq DOMAIN Points
    /\ s.sel \in Threads \cup {0} /\ s.cur \in DThread
Phases == {"launch", "prompt", "passing", "over", "newborn", "resume", "waiting", "stopping", "stepping", "stepped",
           "error", "ended"}
CtlTyped(c) ==
    /\ c = [todo |-> c.todo, chosen |-> c.chosen, back |-> c.back, address |-> c.address, parent |-> c.parent, mode |-> c.mode,
            base |-> c.base, moved |-> c.moved, first |-> c.first, target |-> c.target]
    /\ c.todo \subseteq Threads

TypeOK ==
    /\ k \in [Threads -> KThread] /\ Typed(d) /\ phase \in Phases /\ CtlTyped(ctl)
    /\ configured \subseteq Configurable
    /\ initialStop \in BOOLEAN

(* The kernel: what a thread's state says of its events, and where it stands. *)
Kernel ==
    \A t \in Threads :
        /\ k[t].state = "zombie" <=> k[t].event = "exit"
        /\ k[t].state \in {"absent", "running", "gone"} => k[t].event = Free
        /\ k[t].sig = "offered" => k[t].state = "stopped" /\ k[t].event \in {Free, "signal"}
        /\ k[t].event = "clone" => k[t].born \in Threads
        /\ Alive(t) => IF k[t].event = "int3" THEN d.rip[t] - 1 \in DOMAIN d.bps ELSE d.rip[t] \in DOMAIN Program

TextMatches == phase # "ended" => d.text = {a \in DOMAIN d.bps : d.bps[a]}
Covered ==
    /\ phase = "launch" => d.bps = <<>> /\ d.cur = NativeThread /\ \A t \in Threads : k[t].state = "absent"
    /\ phase = "ended" => \A t \in Threads : ~Alive(t)
    /\ phase \notin {"launch", "error", "ended"} =>
         /\ Known(d.sel)
         /\ \A b \in configured : Selected(b) \subseteq DOMAIN d.bps

(* Where the controller is, or goes back to when it has the new thread. *)
Stage == IF phase = "newborn" THEN ctl.back ELSE phase
SomeAlive == \E t \in Threads : Alive(t)
Active == phase \notin {"launch", "error", "ended"} /\ SomeAlive

Held(t) == Known(t) /\ d.threads[t].stopped /\ ~(phase \in {"over", "stepped"} /\ t = d.sel)
Settled(t) ==
    /\ k[t].state = "stopped" /\ k[t].event = Free
    /\ Belief(t).instruction = d.rip[t]
    /\ Belief(t).breakpoint # NoAddress => Belief(t).breakpoint = d.rip[t] /\ d.rip[t] \in DOMAIN d.bps
    /\ k[t].sig = "offered" => Belief(t).signal # Free
Beliefs == Active => \A t \in Threads : Held(t) => Settled(t)

Flags ==
    /\ Stage \in {"prompt", "passing", "stepping", "over", "stepped"} => \A t \in DOMAIN d.threads : d.threads[t].stopped
    /\ phase = "waiting" => \A t \in DOMAIN d.threads : ~d.threads[t].stopped
Newborns ==
    /\ Active => \A t \in {u \in Threads : Alive(u) /\ ~Known(u)} :
         /\ k[t].state = "stopped" /\ k[t].event = "stop"
         /\ \/ \E u \in Threads : k[u].event = "clone" /\ k[u].born = t
            \/ phase = "newborn" /\ k[ctl.parent].born = t
    /\ phase = "newborn" => /\ ctl.back \in {"passing", "stepping", "resume", "stopping"}
                            /\ ctl.parent \in Threads /\ k[ctl.parent].state # "running"
                            /\ k[ctl.parent].born \in Threads /\ ~Known(k[ctl.parent].born)
Over ==
    phase = "over" =>
        /\ ctl.back \in {"passing", "stepping"}
        /\ ctl.address \in DOMAIN d.bps /\ ~d.bps[ctl.address]
        /\ k[d.sel].event # "int3"
        /\ k[d.sel].state = "running" => k[d.sel].single /\ d.rip[d.sel] = ctl.address
        /\ SomeAlive /\ ~Alive(d.sel) => Program[ctl.address].op = "exit"

Standing(S, a) == \E t \in S : Held(t) /\ Belief(t).breakpoint = a
(* A breakpoint out of the text comes back, but for one where a thread ended while it *)
(* was stepped over.                                                              *)
Installed ==
    Active => \A a \in {b \in DOMAIN d.bps : ~d.bps[b] /\ Program[b].op # "exit"} :
        /\ Stage \in {"prompt", "stopping"} => Standing(Threads, a)
        /\ Stage = "passing" => Standing(ctl.todo, a)
        /\ phase = "over" => a = ctl.address \/ Standing(IF ctl.back = "passing" THEN ctl.todo ELSE Threads, a)
        /\ Stage \notin {"resume", "waiting"}
Synced ==
    /\ Stage \in {"passing", "resume"} \/ (phase = "over" /\ ctl.back = "passing")
    /\ d.threads[d.sel].stopped
    => d.threads[d.sel].signal = d.cur.signal

IInv == TypeOK /\ Kernel /\ TextMatches /\ Covered /\ Beliefs /\ Flags /\ Newborns /\ Over /\ Installed /\ Synced
-----------------------------------------------------------------------------
(* The controller's bookkeeping, operator by operator. `Bel` is what it believes   *)
(* of a thread in a given state of its knowledge.                                *)
Bel(s, t) == IF t = s.sel THEN s.cur ELSE s.threads[t]
Matches(s) == s.text = {a \in DOMAIN s.bps : s.bps[a]}

(* The target's bytes and threads are as they were, and so is what is known of each. *)
Same(s, r) ==
    /\ r.rip = s.rip /\ r.text = s.text /\ r.bps = s.bps
    /\ DOMAIN r.threads = DOMAIN s.threads
    /\ \A u \in DOMAIN s.threads : /\ r.threads[u].stopped = s.threads[u].stopped
                                   /\ Bel(r, u).instruction = Bel(s, u).instruction
                                   /\ Bel(r, u).breakpoint = Bel(s, u).breakpoint
                                   /\ Bel(r, u).signal = Bel(s, u).signal

(* The selected thread's copy is written back.                                *)
LEMMA SaveKeeps ==
  ASSUME NEW s, Typed(s)
  PROVE  /\ Typed(SaveThread(s)) /\ Same(s, SaveThread(s))
         /\ SaveThread(s).sel = s.sel /\ SaveThread(s).cur = s.cur
         /\ s.sel \in DOMAIN s.threads => SaveThread(s).threads[s.sel].signal = s.cur.signal
<1> DEFINE r == SaveThread(s)
<1>1. CASE s.sel \notin DOMAIN s.threads
  BY <1>1 DEF SaveThread, Same
<1>2. CASE s.sel \in DOMAIN s.threads
  <2>1. /\ r = [rip |-> s.rip, text |-> s.text, threads |-> r.threads, bps |-> s.bps, sel |-> s.sel, cur |-> s.cur]
        /\ r.threads = [s.threads EXCEPT ![s.sel] = Saved(s.threads[s.sel], s.cur)]
    BY <1>2 DEF SaveThread, Typed
  <2>2. /\ Saved(s.threads[s.sel], s.cur) \in DThread
        /\ Saved(s.threads[s.sel], s.cur).stopped = s.threads[s.sel].stopped
        /\ Saved(s.threads[s.sel], s.cur).signal = s.cur.signal
    BY <1>2 DEF Saved, Typed, DThread
  <2> HIDE DEF r
  <2>3. Typed(r)
    BY <1>2, <2>1, <2>2 DEF Typed
  <2>4. Same(s, r)
    BY <1>2, <2>1, <2>2 DEF Same, Bel, Typed
  <2> QED
    BY <1>2, <2>1, <2>2, <2>3, <2>4 DEF r, Typed
<1> QED
  BY <1>1, <1>2

(* Another thread is selected, and its copy is its record.                    *)
LEMMA SelectKeeps ==
  ASSUME NEW s, Typed(s), NEW t \in DOMAIN s.threads
  PROVE  /\ Typed(SelectThread(s, t)) /\ Same(s, SelectThread(s, t))
         /\ SelectThread(s, t).sel = t /\ SelectThread(s, t).cur = SelectThread(s, t).threads[t]
<1> DEFINE m == SaveThread(s)
           r == SelectThread(s, t)
<1>1. Typed(m) /\ Same(s, m) /\ m.sel = s.sel /\ m.cur = s.cur
  BY SaveKeeps
<1>2. s.sel \in DOMAIN s.threads => /\ m.threads[s.sel].signal = s.cur.signal
                                    /\ m.threads[s.sel].instruction = s.cur.instruction
                                    /\ m.threads[s.sel].breakpoint = s.cur.breakpoint
  BY DEF SaveThread, Saved, Typed, DThread
<1>3. r = [m EXCEPT !.sel = t, !.cur = m.threads[t]]
  BY DEF SelectThread, Load
<1> HIDE DEF m, r
<1>4. r = [rip |-> m.rip, text |-> m.text, threads |-> m.threads, bps |-> m.bps, sel |-> t, cur |-> m.threads[t]]
  BY <1>1, <1>3 DEF Typed
<1>5. Typed(r)
  BY <1>1, <1>4 DEF Typed, Same
<1>6. Same(s, r)
  BY <1>1, <1>2, <1>4 DEF Same, Bel
<1> QED
  BY <1>4, <1>5, <1>6 DEF r

(* A thread that has gone is forgotten; the others are known as before. *)
Forgets(s, t, r) ==
    /\ r.rip = s.rip /\ r.text = s.text /\ r.bps = s.bps
    /\ DOMAIN r.threads = DOMAIN s.threads \ {t}
    /\ \A u \in DOMAIN r.threads : r.threads[u] = s.threads[u] /\ Bel(r, u) = Bel(s, u)
    /\ DOMAIN r.threads # {} => r.sel \in DOMAIN r.threads
    /\ IF r.sel = s.sel THEN r.cur = s.cur ELSE r.cur = r.threads[r.sel]

(* RecordExit: another thread is selected if the selected one has gone.       *)
LEMMA ExitForgets ==
  ASSUME NEW s, Typed(s), s.sel \in DOMAIN s.threads, NEW t \in Threads
  PROVE  Typed(RecordExit(s, t)) /\ Forgets(s, t, RecordExit(s, t))
<1> DEFINE m == [s EXCEPT !.threads = Restrict(@, DOMAIN @ \ {t})]
<1>1. m = [rip |-> s.rip, text |-> s.text, threads |-> [u \in DOMAIN s.threads \ {t} |-> s.threads[u]], bps |-> s.bps,
           sel |-> s.sel, cur |-> s.cur]
  BY DEF Restrict, Typed
<1> HIDE DEF m
<1>2. Typed(m)
  BY <1>1 DEF Typed
<1>3. CASE DOMAIN m.threads = {} \/ s.sel # t
  <2>1. RecordExit(s, t) = m
    BY <1>3 DEF RecordExit, m
  <2> QED
    BY <1>1, <1>2, <1>3, <2>1 DEF Forgets, Bel
<1>4. CASE DOMAIN m.threads # {} /\ s.sel = t
  <2> DEFINE v == CHOOSE u \in DOMAIN m.threads : TRUE
  <2>1. v \in DOMAIN m.threads
    BY <1>4
  <2>2. RecordExit(s, t) = [m EXCEPT !.sel = v, !.cur = m.threads[v]]
    BY <1>4 DEF RecordExit, m, Load
  <2> HIDE DEF v
  <2>3. RecordExit(s, t) = [rip |-> m.rip, text |-> m.text, threads |-> m.threads, bps |-> m.bps, sel |-> v, cur |-> m.threads[v]]
    BY <1>1, <2>2
  <2> HIDE DEF RecordExit
  <2>4. Typed(RecordExit(s, t))
    BY <1>2, <2>1, <2>3 DEF Typed
  <2>5. Forgets(s, t, RecordExit(s, t))
    BY <1>1, <1>4, <2>1, <2>3 DEF Forgets, Bel
  <2> QED
    BY <2>4, <2>5
<1> QED
  BY <1>3, <1>4

(* A stop is recorded: a thread behind an INT3 is moved back to it.             *)
Records(s, t, ev, r) ==
    /\ DOMAIN r.bps = DOMAIN s.bps /\ r.sel = s.sel
    /\ DOMAIN r.threads = DOMAIN s.threads \cup {t}
    /\ \A u \in Threads \ {t} : r.rip[u] = s.rip[u]
    /\ \A u \in DOMAIN s.threads \ {t} : r.threads[u] = s.threads[u] /\ Bel(r, u) = Bel(s, u)
    /\ r.threads[t].stopped /\ Bel(r, t) = r.threads[t] /\ Bel(r, t).instruction = r.rip[t]
    /\ ev = "signal" => Bel(r, t).signal = "app"
    /\ IF ev = "int3" THEN /\ r.rip[t] = s.rip[t] - 1 /\ r.rip[t] \in DOMAIN s.bps
                           /\ Bel(r, t).breakpoint = r.rip[t]
                           /\ r.bps = [s.bps EXCEPT ![r.rip[t]] = FALSE]
       ELSE /\ r.rip = s.rip /\ r.bps = s.bps /\ r.text = s.text
            /\ Bel(r, t).breakpoint = NoAddress

(* RecordThreadStop, of an INT3 only behind a known breakpoint.               *)
LEMMA StopRecords ==
  ASSUME NEW s, Typed(s), NEW t \in Threads, NEW ev \in StopEvents,
         ev = "int3" => s.rip[t] - 1 \in DOMAIN s.bps
  PROVE  /\ Typed(RecordThreadStop(s, t, ev)) /\ Records(s, t, ev, RecordThreadStop(s, t, ev))
         /\ Matches(s) => Matches(RecordThreadStop(s, t, ev))
<1> DEFINE a == s.rip[t] - 1
           th == [stopped |-> TRUE, instruction |-> IF ev = "int3" THEN a ELSE s.rip[t],
                  breakpoint |-> IF ev = "int3" THEN a ELSE NoAddress,
                  signal |-> IF ev = "signal" THEN "app" ELSE Free]
           r == RecordThreadStop(s, t, ev)
<1>0. /\ ev = "int3" => a \in DOMAIN Program /\ a \in Nat
      /\ s.rip[t] \in Nat /\ DOMAIN s.bps \subseteq Nat
  BY DebuggerAssumption DEF Typed, DebuggerAssumption
<1>1. th \in DThread
  BY <1>0 DEF DThread, NoAddress, Free
<1>2. r = [rip |-> IF ev = "int3" THEN [s.rip EXCEPT ![t] = a] ELSE s.rip,
           text |-> IF ev = "int3" THEN s.text \ {a} ELSE s.text,
           threads |-> [u \in DOMAIN s.threads \cup {t} |-> IF u = t THEN th ELSE s.threads[u]],
           bps |-> IF ev = "int3" THEN [s.bps EXCEPT ![a] = FALSE] ELSE s.bps,
           sel |-> s.sel, cur |-> IF t = s.sel THEN th ELSE s.cur]
  <2> DEFINE threads == [u \in DOMAIN s.threads \cup {t} |-> IF u = t THEN th ELSE s.threads[u]]
             m == RestoreBreakpoint(s, a)
             q == [m EXCEPT !.rip = [s.rip EXCEPT ![t] = a]]
  <2>1. CASE ev = "int3"
    <3>1. m = [s EXCEPT !.text = s.text \ {a}, !.bps = [s.bps EXCEPT ![a] = FALSE]] /\ q = [m EXCEPT !.rip = [s.rip EXCEPT ![t] = a]]
      BY DEF RestoreBreakpoint
    <3> HIDE DEF m, q
    <3>2. q = [rip |-> [s.rip EXCEPT ![t] = a], text |-> s.text \ {a}, threads |-> s.threads,
               bps |-> [s.bps EXCEPT ![a] = FALSE], sel |-> s.sel, cur |-> s.cur]
      BY <3>1 DEF Typed
    <3>3. q.rip[t] = a
      BY <3>2 DEF Typed
    <3>4. r = [q EXCEPT !.threads = threads, !.cur = IF t = s.sel THEN th ELSE s.cur]
      BY <2>1, <3>3 DEF RecordThreadStop, q, m, Free
    <3> HIDE DEF r, threads, th
    <3>5. r = [rip |-> [s.rip EXCEPT ![t] = a], text |-> s.text \ {a}, threads |-> threads,
               bps |-> [s.bps EXCEPT ![a] = FALSE], sel |-> s.sel, cur |-> IF t = s.sel THEN th ELSE s.cur]
      BY <3>2, <3>4
    <3> QED
      BY <2>1, <3>5 DEF threads
  <2>2. CASE ev # "int3"
    <3>1. r = [s EXCEPT !.threads = threads, !.cur = IF t = s.sel THEN th ELSE s.cur]
      BY <2>2 DEF RecordThreadStop, Free
    <3> HIDE DEF r, threads, th
    <3>2. r = [rip |-> s.rip, text |-> s.text, threads |-> threads, bps |-> s.bps, sel |-> s.sel,
               cur |-> IF t = s.sel THEN th ELSE s.cur]
      BY <3>1 DEF Typed
    <3> QED
      BY <2>2, <3>2 DEF threads
  <2> QED
    BY <2>1, <2>2
<1> HIDE DEF th, r
<1>3. Typed(r)
  BY <1>0, <1>1, <1>2 DEF Typed
<1>4. th.stopped /\ th.instruction = r.rip[t] /\ (ev = "signal" => th.signal = "app")
      /\ th.breakpoint = IF ev = "int3" THEN r.rip[t] ELSE NoAddress
  BY <1>2 DEF th, Typed
<1>5. Records(s, t, ev, r)
  BY <1>2, <1>4 DEF Records, Bel, Typed
<1>6. Matches(s) => Matches(r)
  BY <1>2 DEF Matches, Typed
<1> QED
  BY <1>3, <1>5, <1>6 DEF r
(* The patched bytes. *)
SameThreads(s, r) == r.rip = s.rip /\ r.threads = s.threads /\ r.sel = s.sel /\ r.cur = s.cur

(* One byte is restored, reinserted; all are restored; some are added.        *)
LEMMA RestoreOne ==
  ASSUME NEW s, Typed(s), Matches(s), NEW a \in DOMAIN s.bps
  PROVE  LET r == RestoreBreakpoint(s, a)
         IN Typed(r) /\ Matches(r) /\ SameThreads(s, r) /\ r.bps = [s.bps EXCEPT ![a] = FALSE]
<1> DEFINE r == RestoreBreakpoint(s, a)
<1>0. r = [s EXCEPT !.text = s.text \ {a}, !.bps = [s.bps EXCEPT ![a] = FALSE]]
  BY DEF RestoreBreakpoint
<1> HIDE DEF r
<1>1. r = [rip |-> s.rip, text |-> s.text \ {a}, threads |-> s.threads, bps |-> [s.bps EXCEPT ![a] = FALSE],
           sel |-> s.sel, cur |-> s.cur]
  BY <1>0 DEF Typed
<1> QED
  BY <1>1 DEF Typed, Matches, SameThreads, r

LEMMA ReinsertOne ==
  ASSUME NEW s, Typed(s), Matches(s), NEW a \in DOMAIN s.bps
  PROVE  LET r == ReinsertBreakpoint(s, a)
         IN Typed(r) /\ Matches(r) /\ SameThreads(s, r) /\ r.bps = [s.bps EXCEPT ![a] = TRUE]
<1> DEFINE r == ReinsertBreakpoint(s, a)
<1>0. r = [s EXCEPT !.text = s.text \cup {a}, !.bps = [s.bps EXCEPT ![a] = TRUE]]
  BY DEF ReinsertBreakpoint
<1> HIDE DEF r
<1>1. r = [rip |-> s.rip, text |-> s.text \cup {a}, threads |-> s.threads, bps |-> [s.bps EXCEPT ![a] = TRUE],
           sel |-> s.sel, cur |-> s.cur]
  BY <1>0 DEF Typed
<1> QED
  BY <1>1 DEF Typed, Matches, SameThreads, r

LEMMA RestoreEvery ==
  ASSUME NEW s, Typed(s), Matches(s)
  PROVE  LET r == RestoreAllBreakpoints(s)
         IN Typed(r) /\ Matches(r) /\ SameThreads(s, r) /\ DOMAIN r.bps = DOMAIN s.bps /\ r.text = {}
<1> DEFINE r == RestoreAllBreakpoints(s)
<1>0. r = [s EXCEPT !.text = s.text \ DOMAIN s.bps, !.bps = [a \in DOMAIN s.bps |-> FALSE]]
  BY DEF RestoreAllBreakpoints
<1> HIDE DEF r
<1>1. r = [rip |-> s.rip, text |-> s.text \ DOMAIN s.bps, threads |-> s.threads, bps |-> [a \in DOMAIN s.bps |-> FALSE],
           sel |-> s.sel, cur |-> s.cur]
  BY <1>0 DEF Typed
<1>2. s.text \ DOMAIN s.bps = {}
  BY DEF Matches
<1> QED
  BY <1>1, <1>2 DEF Typed, Matches, SameThreads, r

LEMMA InstallAdds ==
  ASSUME NEW s, Typed(s), Matches(s), NEW S \in SUBSET DOMAIN Points
  PROVE  LET r == Install(s, S)
         IN /\ Typed(r) /\ Matches(r) /\ SameThreads(s, r) /\ DOMAIN r.bps = DOMAIN s.bps \cup S
            /\ \A a \in DOMAIN r.bps : r.bps[a] = IF a \in DOMAIN s.bps THEN s.bps[a] ELSE TRUE
<1> DEFINE r == Install(s, S)
<1>0. r = [s EXCEPT !.text = s.text \cup (S \ DOMAIN s.bps),
                      !.bps = [a \in S \cup DOMAIN s.bps |-> IF a \in DOMAIN s.bps THEN s.bps[a] ELSE TRUE]]
  BY DEF Install
<1> HIDE DEF r
<1>1. r = [rip |-> s.rip, text |-> s.text \cup (S \ DOMAIN s.bps), threads |-> s.threads,
           bps |-> [a \in S \cup DOMAIN s.bps |-> IF a \in DOMAIN s.bps THEN s.bps[a] ELSE TRUE],
           sel |-> s.sel, cur |-> s.cur]
  BY <1>0 DEF Typed
<1>2. Matches(r)
  BY <1>1 DEF Matches
<1>3. Typed(r)
  BY <1>1 DEF Typed
<1>4. /\ SameThreads(s, r) /\ DOMAIN r.bps = DOMAIN s.bps \cup S
      /\ \A a \in DOMAIN r.bps : r.bps[a] = IF a \in DOMAIN s.bps THEN s.bps[a] ELSE TRUE
  BY <1>1 DEF SameThreads
<1> QED
  BY <1>2, <1>3, <1>4 DEF r

(* A breakpoint stands for debug points, and those are addresses.             *)
LEMMA SelectedArePoints == \A b : Selected(b) \subseteq DOMAIN Points
  BY DEF Selected, FirstOf

LEMMA PointsAreNumbers == DOMAIN Points \subseteq Nat \ {NoAddress}
  BY DebuggerAssumption DEF DebuggerAssumption, NoAddress

(* The configured breakpoints and no others, all of them in the text; a thread that *)
(* stands on one knows it.                                                        *)
Configures(s, B, r) ==
    /\ r.rip = s.rip /\ r.sel = s.sel
    /\ DOMAIN r.bps = UNION {Selected(b) : b \in B} /\ \A a \in DOMAIN r.bps : r.bps[a]
    /\ DOMAIN r.threads = DOMAIN s.threads
    /\ r.cur.instruction = s.cur.instruction /\ r.cur.signal = s.cur.signal
    /\ \A u \in DOMAIN s.threads :
         /\ r.threads[u].stopped = s.threads[u].stopped
         /\ Bel(r, u).instruction = Bel(s, u).instruction
         /\ Bel(r, u).signal = Bel(s, u).signal
         /\ Bel(s, u).breakpoint \in {NoAddress, Bel(s, u).instruction} /\ Bel(r, u).breakpoint # NoAddress =>
                Bel(r, u).breakpoint = Bel(r, u).instruction /\ Bel(r, u).instruction \in DOMAIN r.bps

(* InstallConfigured, from any text that matches what is known of it.         *)
LEMMA InstallConfigures ==
  ASSUME NEW s, Typed(s), Matches(s), NEW B
  PROVE  LET r == InstallConfigured(s, B)
         IN Typed(r) /\ Matches(r) /\ Configures(s, B, r)
<1> DEFINE none == << >>
           U == UNION {Selected(b) : b \in B}
           m == [RestoreAllBreakpoints(s) EXCEPT !.bps = none]
           fresh == Install(m, U)
           On(a) == IF a \in U THEN a ELSE NoAddress
           bp == IF s.cur.instruction \in U THEN s.cur.instruction ELSE On(s.cur.breakpoint)
           th == [u \in DOMAIN s.threads |-> [s.threads[u] EXCEPT !.breakpoint = On(s.threads[u].instruction)]]
           r == InstallConfigured(s, B)
<1>0. /\ none \in [DOMAIN none -> BOOLEAN] /\ DOMAIN none = {}
      /\ U \subseteq DOMAIN Points
  BY SelectedArePoints
<1> HIDE DEF none, U
<1> DEFINE n == RestoreAllBreakpoints(s)
<1>1. Typed(n) /\ SameThreads(s, n) /\ n.text = {}
  BY RestoreEvery
<1>1a. m = [n EXCEPT !.bps = none]
  OBVIOUS
<1> HIDE DEF m, n
<1>2. m = [rip |-> s.rip, text |-> {}, threads |-> s.threads, bps |-> none, sel |-> s.sel, cur |-> s.cur]
  BY <1>1, <1>1a DEF Typed, SameThreads
<1>3. Typed(m) /\ Matches(m)
  BY <1>0, <1>2 DEF Typed, Matches
<1>4a. U \in SUBSET DOMAIN Points
  BY <1>0
<1>4. /\ Typed(fresh) /\ Matches(fresh) /\ SameThreads(m, fresh) /\ DOMAIN fresh.bps = U
      /\ \A a \in U : fresh.bps[a]
  <2>1. LET q == Install(m, U)
        IN /\ Typed(q) /\ Matches(q) /\ SameThreads(m, q) /\ DOMAIN q.bps = DOMAIN m.bps \cup U
           /\ \A a \in DOMAIN q.bps : q.bps[a] = IF a \in DOMAIN m.bps THEN m.bps[a] ELSE TRUE
    BY <1>3, <1>4a, InstallAdds
  <2> QED
    BY <1>0, <1>2, <2>1
<1> HIDE DEF fresh
<1>5. r = [fresh EXCEPT !.cur = [s.cur EXCEPT !.breakpoint = bp], !.threads = th]
  BY <1>0, <1>2, <1>4, PointsAreNumbers DEF InstallConfigured, fresh, m, none, U, SameThreads
<1>6. r = [rip |-> s.rip, text |-> fresh.text, threads |-> th, bps |-> fresh.bps, sel |-> s.sel,
           cur |-> [s.cur EXCEPT !.breakpoint = bp]]
  BY <1>2, <1>4, <1>5 DEF Typed, SameThreads
<1> HIDE DEF r
<1>7. U \subseteq Nat \ {NoAddress} /\ NoAddress \in Nat
  BY <1>0, PointsAreNumbers DEF NoAddress
<1>8. /\ [s.cur EXCEPT !.breakpoint = bp] \in DThread
      /\ [s.cur EXCEPT !.breakpoint = bp].instruction = s.cur.instruction
      /\ [s.cur EXCEPT !.breakpoint = bp].signal = s.cur.signal
      /\ [s.cur EXCEPT !.breakpoint = bp].breakpoint = bp
  BY <1>7 DEF Typed, DThread
<1>9. \A u \in DOMAIN s.threads : /\ th[u] \in DThread
                                  /\ th[u].stopped = s.threads[u].stopped
                                  /\ th[u].instruction = s.threads[u].instruction
                                  /\ th[u].signal = s.threads[u].signal
                                  /\ th[u].breakpoint = On(s.threads[u].instruction)
  BY <1>7 DEF Typed, DThread
<1>10. DOMAIN th = DOMAIN s.threads
  OBVIOUS
<1>11. th \in [DOMAIN th -> DThread]
  BY <1>9, <1>10
<1>12. Typed(r)
  BY <1>4, <1>6, <1>8, <1>10, <1>11 DEF Typed
<1>13. Matches(r)
  BY <1>4, <1>6 DEF Matches
<1> DEFINE c == [s.cur EXCEPT !.breakpoint = bp]
<1> HIDE DEF th, c
<1>14. Configures(s, B, r)
  <2>1. \A u \in DOMAIN s.threads :
         /\ r.threads[u].stopped = s.threads[u].stopped
         /\ Bel(r, u).instruction = Bel(s, u).instruction
         /\ Bel(r, u).signal = Bel(s, u).signal
         /\ Bel(s, u).breakpoint \in {NoAddress, Bel(s, u).instruction} /\ Bel(r, u).breakpoint # NoAddress =>
                Bel(r, u).breakpoint = Bel(r, u).instruction /\ Bel(r, u).instruction \in U
    BY <1>6, <1>7, <1>8, <1>9 DEF Bel, c
  <2> QED
    BY <1>4, <1>6, <1>8, <1>10, <2>1 DEF Configures, U, c
<1> QED
  BY <1>12, <1>13, <1>14 DEF r
-----------------------------------------------------------------------------
(* Steps of the target. A running thread moves alone: the controller holds it not,  *)
(* and if it is being stepped over a breakpoint it stops behind that instruction.   *)
Moves(t) ==
    /\ k[t].state = "running"
    /\ k' \in [Threads -> KThread] /\ \A u \in Threads \ {t} : k'[u] = k[u]
    /\ Typed(d') /\ \A u \in Threads \ {t} : d'.rip[u] = d.rip[u]
    /\ d'.text = d.text /\ d'.threads = d.threads /\ d'.bps = d.bps /\ d'.sel = d.sel /\ d'.cur = d.cur
    /\ k'[t].state \in {"running", "stopped", "zombie"} /\ k'[t].event # "clone"
    /\ k'[t].state = "zombie" <=> k'[t].event = "exit"
    /\ k'[t].state = "running" => k'[t].event = Free /\ k'[t].sig # "offered"
    /\ k'[t].sig = "offered" => k'[t].event = "signal"
    /\ k'[t].state # "zombie" => IF k'[t].event = "int3" THEN d'.rip[t] - 1 \in DOMAIN d.bps ELSE d'.rip[t] \in DOMAIN Program
    /\ phase = "over" /\ t = d.sel =>
         \/ k'[t].state = "stopped" /\ k'[t].event # "int3"
         \/ k'[t].state = "running" /\ k'[t].single = k[t].single /\ d'.rip[t] = d.rip[t]
         \/ k'[t].state = "zombie" /\ Program[d.rip[t]].op = "exit"
    /\ UNCHANGED <<phase, ctl, configured, initialStop>>

(* Every such move keeps the invariant.                                       *)
LEMMA MovesKeep ==
  ASSUME IInv, NEW t \in Threads, Moves(t)
  PROVE  IInv'
<1> USE DEF Alive, Known, Free
<1>1. TypeOK'
  BY DEF IInv, TypeOK, Moves
<1>2. Kernel'
  BY DEF IInv, Kernel, Moves, TypeOK
<1>3. TextMatches' /\ Flags'
  BY DEF IInv, TextMatches, Flags, Moves, Stage
<1>4. Covered'
  BY DEF IInv, Covered, Moves
<1>5. Active' => Active
  BY DEF Moves, Active, SomeAlive
<1>6. Active => \A u \in Threads : Held(u) => u # t
  BY DEF IInv, Beliefs, Settled, Moves
<1>7. /\ \A u : Held(u)' <=> Held(u)
      /\ \A u : Belief(u)' = Belief(u)
      /\ Stage' = Stage
  BY DEF Moves, Held, Belief, Stage
<1>8. Beliefs'
  BY <1>5, <1>6, <1>7 DEF IInv, Beliefs, Settled, Moves
<1>9. Newborns'
  <2>1. ASSUME Active, NEW u \in Threads, Alive(u)', ~Known(u)
        PROVE  /\ u # t /\ k[u].state = "stopped" /\ k[u].event = "stop"
               /\ \/ \E v \in Threads : v # t /\ k[v].event = "clone" /\ k[v].born = u
                  \/ phase = "newborn" /\ k[ctl.parent].born = u
    <3>1. Alive(u)
      BY <2>1 DEF Moves
    <3>2. k[t].event = Free
      BY DEF IInv, Kernel, Moves
    <3> QED
      BY <2>1, <3>1, <3>2 DEF IInv, Newborns, Moves
  <2>2. phase = "newborn" => ctl.parent # t
    BY DEF IInv, Newborns, Moves
  <2> QED
    BY <1>5, <2>1, <2>2 DEF IInv, Newborns, Moves
<1>10. Over'
  <2>1. SUFFICES ASSUME phase = "over"
                 PROVE  Over'
    BY DEF Over, Moves
  <2>2. d.sel \in Threads /\ SomeAlive
    BY <2>1 DEF IInv, Covered, TypeOK, Typed, SomeAlive, Moves
  <2>3. CASE d.sel = t
    BY <2>1, <2>2, <2>3 DEF IInv, Over, Moves
  <2>4. CASE d.sel # t
    BY <2>1, <2>2, <2>4 DEF IInv, Over, Moves
  <2> QED
    BY <2>3, <2>4
<1>11. Installed'
  BY <1>5, <1>7 DEF IInv, Installed, Standing, Moves
<1>12. Synced'
  BY <1>7 DEF IInv, Synced, Moves
<1> QED
  BY <1>1, <1>2, <1>3, <1>4, <1>8, <1>9, <1>10, <1>11, <1>12 DEF IInv

(* A dead thread has no signal, and its exit is to be waited for.             *)
LEMMA DieKeeps ==
  ASSUME NEW th \in KThread
  PROVE  /\ Die(th) \in KThread /\ Die(th).state = "zombie" /\ Die(th).event = "exit"
         /\ Die(th).sig = Free /\ Die(th).born = th.born
<1> DEFINE none == <<>>
           q == Die(th)
<1>1. q = [th EXCEPT !.state = "zombie", !.event = "exit", !.interrupt = FALSE, !.sig = Free, !.frames = none]
  BY DEF Die
<1>2. none \in Seq(DOMAIN Program)
  OBVIOUS
<1> HIDE DEF q, none
<1> QED
  BY <1>1, <1>2 DEF KThread, Free, q

(* The whole target ends. *)
LEMMA KillKeeps ==
  ASSUME IInv, k' = KillAll, UNCHANGED <<d, phase, ctl, configured, initialStop>>
  PROVE  IInv'
<1> USE DEF Alive, Known, Free
<1>1. k' \in [Threads -> KThread] /\ \A t \in Threads : IF Alive(t) THEN /\ k'[t].state = "zombie" /\ k'[t].event = "exit"
                                                                        /\ k'[t].sig = Free /\ k'[t].born = k[t].born
                                                        ELSE k'[t] = k[t]
  <2>1. \A t \in Threads : /\ Die(k[t]) \in KThread /\ Die(k[t]).state = "zombie" /\ Die(k[t]).event = "exit"
                           /\ Die(k[t]).sig = Free /\ Die(k[t]).born = k[t].born
    BY DieKeeps DEF IInv, TypeOK
  <2> QED
    BY <2>1 DEF IInv, TypeOK, KillAll
<1>2. ~SomeAlive'
  BY <1>1 DEF SomeAlive
<1>3. TypeOK' /\ TextMatches' /\ Flags' /\ Beliefs' /\ Installed' /\ Synced'
  BY <1>1, <1>2 DEF IInv, TypeOK, TextMatches, Flags, Beliefs, Installed, Synced, Active, Stage
<1>4. Kernel' /\ Covered'
  BY <1>1 DEF IInv, Kernel, Covered
<1>5. Newborns'
  BY <1>1, <1>2 DEF IInv, Newborns, Active
<1>6. Over'
  <2>1. phase = "over" => d.sel \in Threads
    BY DEF IInv, Covered, TypeOK, Typed
  <2> QED
    BY <1>1, <1>2, <2>1 DEF IInv, Over
<1> QED
  BY <1>3, <1>4, <1>5, <1>6 DEF IInv
(* What a single thread does, but for the birth of another, is such a move. *)
Stands(th, rip) ==
    th.state # "zombie" => IF th.event = "int3" THEN rip - 1 \in DOMAIN d.bps ELSE rip \in DOMAIN Program

(* A move, from what becomes of the thread and where it goes.                 *)
LEMMA MovesBy ==
  ASSUME IInv, NEW t \in Threads, k[t].state = "running",
         NEW th \in KThread, k' = [k EXCEPT ![t] = th], NEW rip \in Nat, d' = [d EXCEPT !.rip[t] = rip],
         th.state \in {"running", "stopped", "zombie"}, th.event # "clone",
         th.state = "zombie" <=> th.event = "exit",
         th.state = "running" => th.event = Free /\ th.sig # "offered",
         th.sig = "offered" => th.event = "signal", Stands(th, rip),
         phase = "over" /\ t = d.sel =>
           \/ th.state = "stopped" /\ th.event # "int3"
           \/ th.state = "running" /\ th.single = k[t].single /\ rip = d.rip[t]
           \/ th.state = "zombie" /\ Program[d.rip[t]].op = "exit",
         UNCHANGED <<phase, ctl, configured, initialStop>>
  PROVE  Moves(t)
<1> DEFINE rips == [d.rip EXCEPT ![t] = rip]
<1>1. d' = [d EXCEPT !.rip = rips]
  OBVIOUS
<1> HIDE DEF rips
<1>2. d' = [rip |-> rips, text |-> d.text, threads |-> d.threads, bps |-> d.bps, sel |-> d.sel, cur |-> d.cur]
  BY <1>1 DEF IInv, TypeOK, Typed
<1>3. /\ rips \in [Threads -> Nat] /\ rips[t] = rip
      /\ \A u \in Threads \ {t} : rips[u] = d.rip[u]
  BY DEF rips, IInv, TypeOK, Typed
<1>4. Typed(d')
  BY <1>2, <1>3 DEF IInv, TypeOK, Typed
<1>5. k' \in [Threads -> KThread] /\ k'[t] = th /\ \A u \in Threads \ {t} : k'[u] = k[u]
  BY DEF IInv, TypeOK
<1> QED
  BY <1>2, <1>3, <1>4, <1>5 DEF Moves, Stands

(* How a thread stops. *)
LEMMA StopWithKeeps ==
  ASSUME NEW th \in KThread, NEW ev \in StopEvents
  PROVE  LET q == StopWith(th, ev)
         IN /\ q \in KThread /\ q.state = "stopped" /\ q.event = ev /\ q.sig = th.sig /\ q.born = th.born
            /\ q.frames = th.frames
  BY DEF StopWith, KThread

(* A thread that is single-stepped stops behind its instruction.              *)
LEMMA AfterKeeps ==
  ASSUME NEW th \in KThread
  PROVE  LET q == After(th)
         IN /\ q \in KThread
            /\ IF th.single THEN q.state = "stopped" /\ q.event = "trace" /\ q.sig = th.sig ELSE q = th
  BY StopWithKeeps DEF After, StopEvents, KThread

(* Where a running thread is, and that it can leave a breakpoint it is stepped over. *)
LEMMA RunningStands ==
  ASSUME IInv, NEW t \in Threads, k[t].state = "running"
  PROVE  /\ k[t] \in KThread /\ k[t].event = Free /\ k[t].sig # "offered" /\ d.rip[t] \in DOMAIN Program
         /\ d.rip[t] \in Nat
         /\ phase = "over" /\ t = d.sel => /\ k[t].single /\ d.rip[t] \in DOMAIN Points /\ d.rip[t] \notin d.text
<1>1. k[t] \in KThread /\ k[t].event = Free /\ k[t].sig # "offered" /\ d.rip[t] \in DOMAIN Program /\ d.rip[t] \in Nat
  BY DEF IInv, TypeOK, Typed, Kernel, Alive, Free
<1>2. phase = "over" /\ t = d.sel => k[t].single /\ d.rip[t] \in DOMAIN d.bps /\ ~d.bps[d.rip[t]]
  BY DEF IInv, Over
<1>3. phase = "over" /\ t = d.sel => d.rip[t] \in DOMAIN Points /\ d.rip[t] \notin d.text
  BY <1>2 DEF IInv, TextMatches, TypeOK, Typed
<1> QED
  BY <1>1, <1>2, <1>3

(* A program's control stays in its instructions. *)
LEMMA ProgramCloses ==
  ASSUME NEW a \in DOMAIN Program
  PROVE  /\ \A to \in Program[a].to : to \in DOMAIN Program
         /\ Program[a].op \in {"call", "clone"} => a + 2 \in DOMAIN Program
  BY ProgramAssumption DEF ProgramAssumption

(* The moves one by one.                                                      *)
LEMMA InterruptedMoves == ASSUME IInv, NEW t \in Threads, Interrupted(t) PROVE Moves(t)
<1> DEFINE q == StopWith(k[t], "stop")
<1>1. k[t].state = "running" /\ k' = [k EXCEPT ![t] = q]
      /\ UNCHANGED <<d, phase, ctl, configured, initialStop>>
  BY DEF Interrupted, Debuggee
<1>2. d' = [d EXCEPT !.rip[t] = d.rip[t]]
  BY <1>1 DEF IInv, TypeOK, Typed
<1>3. k[t] \in KThread /\ k[t].sig # "offered" /\ d.rip[t] \in DOMAIN Program /\ d.rip[t] \in Nat
  BY <1>1, RunningStands
<1>4. q \in KThread /\ q.state = "stopped" /\ q.event = "stop" /\ q.sig = k[t].sig
  BY <1>3, StopWithKeeps DEF StopEvents
<1> HIDE DEF q
<1>5. Stands(q, d.rip[t])
  BY <1>3, <1>4 DEF Stands
<1> QED
  BY <1>1, <1>2, <1>3, <1>4, <1>5, MovesBy

LEMMA SignalledMoves == ASSUME IInv, NEW t \in Threads, Signalled(t) PROVE Moves(t)
<1> DEFINE q == StopWith([k[t] EXCEPT !.sig = "offered"], "signal")
           h == StopWith([k[t] EXCEPT !.sig = "halting"], "sigstop")
           y == StopWith([k[t] EXCEPT !.sig = Free], "tty")
<1>1. k[t].state = "running" /\ (k' = [k EXCEPT ![t] = q] \/ k' = [k EXCEPT ![t] = h] \/ k' = [k EXCEPT ![t] = y])
      /\ UNCHANGED <<d, phase, ctl, configured, initialStop>>
  BY DEF Signalled, Debuggee
<1>2. d' = [d EXCEPT !.rip[t] = d.rip[t]]
  BY <1>1 DEF IInv, TypeOK, Typed
<1>3. k[t] \in KThread /\ d.rip[t] \in DOMAIN Program /\ d.rip[t] \in Nat
  BY <1>1, RunningStands
<1>4. /\ [k[t] EXCEPT !.sig = "offered"] \in KThread /\ [k[t] EXCEPT !.sig = "offered"].sig = "offered"
      /\ [k[t] EXCEPT !.sig = "halting"] \in KThread /\ [k[t] EXCEPT !.sig = "halting"].sig = "halting"
      /\ [k[t] EXCEPT !.sig = Free] \in KThread /\ [k[t] EXCEPT !.sig = Free].sig = Free
  BY <1>3 DEF KThread, Free
<1>5. /\ q \in KThread /\ q.state = "stopped" /\ q.event = "signal"
      /\ h \in KThread /\ h.state = "stopped" /\ h.event = "sigstop" /\ h.sig = "halting"
      /\ y \in KThread /\ y.state = "stopped" /\ y.event = "tty" /\ y.sig = Free
  <2>1. \A th \in KThread, ev \in StopEvents :
           LET r == StopWith(th, ev) IN r \in KThread /\ r.state = "stopped" /\ r.event = ev /\ r.sig = th.sig
    BY StopWithKeeps
  <2>2. {"signal", "sigstop", "tty"} \subseteq StopEvents
    BY DEF StopEvents
  <2>3. q \in KThread /\ q.state = "stopped" /\ q.event = "signal"
    BY <1>4, <2>1, <2>2
  <2>4. h \in KThread /\ h.state = "stopped" /\ h.event = "sigstop" /\ h.sig = "halting"
    BY <1>4, <2>1, <2>2
  <2>5. y \in KThread /\ y.state = "stopped" /\ y.event = "tty" /\ y.sig = Free
    BY <1>4, <2>1, <2>2
  <2> QED
    BY <2>3, <2>4, <2>5
<1> HIDE DEF q, h, y
<1>6. Stands(q, d.rip[t]) /\ Stands(h, d.rip[t]) /\ Stands(y, d.rip[t])
  BY <1>3, <1>5 DEF Stands
<1>7. CASE k' = [k EXCEPT ![t] = q]
  BY <1>1, <1>2, <1>3, <1>5, <1>6, <1>7, MovesBy
<1>8. CASE k' = [k EXCEPT ![t] = h]
  BY <1>1, <1>2, <1>3, <1>5, <1>6, <1>8, MovesBy
<1>9. CASE k' = [k EXCEPT ![t] = y]
  BY <1>1, <1>2, <1>3, <1>5, <1>6, <1>9, MovesBy DEF Free
<1> QED
  BY <1>1, <1>7, <1>8, <1>9

LEMMA HitInt3Moves == ASSUME IInv, NEW t \in Threads, HitInt3(t) PROVE Moves(t)
<1> DEFINE q == StopWith(k[t], "int3")
<1>1. /\ k[t].state = "running" /\ k[t].sig = Free /\ d.rip[t] \in d.text /\ d' = [d EXCEPT !.rip[t] = d.rip[t] + 1]
      /\ k' = [k EXCEPT ![t] = q] /\ UNCHANGED <<phase, ctl, configured, initialStop>>
  BY DEF HitInt3, Proceeds, Debuggee
<1>2. /\ k[t] \in KThread /\ d.rip[t] \in Nat
      /\ phase = "over" /\ t = d.sel => d.rip[t] \notin d.text
  BY <1>1, RunningStands
<1>3. q \in KThread /\ q.state = "stopped" /\ q.event = "int3" /\ q.sig = Free
  BY <1>1, <1>2, StopWithKeeps DEF StopEvents
<1> HIDE DEF q
<1>4. phase # "ended"
  BY <1>1 DEF IInv, Covered, Alive
<1>5. (d.rip[t] + 1) - 1 = d.rip[t] /\ d.rip[t] + 1 \in Nat /\ d.rip[t] \in DOMAIN d.bps
  BY <1>1, <1>2, <1>4 DEF IInv, TextMatches
<1>6. Stands(q, d.rip[t] + 1)
  BY <1>3, <1>5 DEF Stands
<1> QED
  BY <1>1, <1>2, <1>3, <1>5, <1>6, MovesBy DEF Free

LEMMA ExecutesMoves ==
  ASSUME IInv, NEW t \in Threads, Proceeds(t), k[t].state = "running", NEW rip \in DOMAIN Program,
         d' = [d EXCEPT !.rip[t] = rip],
         NEW th \in KThread, th.state = "running", th.event = Free, th.sig = Free, th.single = k[t].single,
         k' = [k EXCEPT ![t] = After(th)]
  PROVE  Moves(t)
<1> DEFINE q == After(th)
<1>1. /\ q \in KThread
      /\ IF th.single THEN q.state = "stopped" /\ q.event = "trace" /\ q.sig = th.sig ELSE q = th
  BY AfterKeeps
<1>2. k' = [k EXCEPT ![t] = q]
  OBVIOUS
<1> HIDE DEF q
<1>3. rip \in Nat /\ (phase = "over" /\ t = d.sel => k[t].single)
  BY RunningStands, DebuggerAssumption DEF DebuggerAssumption
<1>4. Stands(q, rip)
  BY <1>1 DEF Stands, Free
<1>5. UNCHANGED <<phase, ctl, configured, initialStop>>
  BY DEF Proceeds, Debuggee
<1> QED
  BY <1>1, <1>2, <1>3, <1>4, <1>5, MovesBy DEF Free

LEMMA PlainMoves == ASSUME IInv, NEW t \in Threads, Plain(t) PROVE Moves(t)
<1>1. k[t].state = "running" /\ Proceeds(t) /\ k[t].sig = Free /\ d.rip[t] \in DOMAIN Program /\ k' = [k EXCEPT ![t] = After(k[t])]
  BY DEF Plain, Executes, Proceeds, Debuggee
<1>2. PICK to \in Program[d.rip[t]].to : d' = [d EXCEPT !.rip[t] = to]
  BY DEF Plain
<1>3. to \in DOMAIN Program
  BY <1>1, <1>2, ProgramCloses
<1> QED
  BY <1>1, <1>2, <1>3, RunningStands, ExecutesMoves

LEMMA CallOrReturnMoves == ASSUME IInv, NEW t \in Threads, CallOrReturn(t) PROVE Moves(t)
<1>1. k[t].state = "running" /\ Proceeds(t) /\ k[t].sig = Free /\ d.rip[t] \in DOMAIN Program
  BY DEF CallOrReturn, Executes, Proceeds, Debuggee
<1>2. k[t] \in KThread /\ k[t].event = Free /\ k[t].frames \in Seq(DOMAIN Program)
  BY <1>1, RunningStands DEF KThread
<1>3. \A frames \in Seq(DOMAIN Program) :
         LET th == [k[t] EXCEPT !.frames = frames]
         IN th \in KThread /\ th.state = "running" /\ th.event = Free /\ th.sig = Free /\ th.single = k[t].single
  BY <1>1, <1>2 DEF KThread
<1>4. CASE Executes(t, "call")
  <2>1. PICK to \in Program[d.rip[t]].to : d' = [d EXCEPT !.rip[t] = to]
    BY <1>4 DEF CallOrReturn, Executes
  <2> DEFINE frames == <<d.rip[t] + 2>> \o k[t].frames
             th == [k[t] EXCEPT !.frames = frames]
  <2>2. k' = [k EXCEPT ![t] = After(th)]
    BY <1>4 DEF CallOrReturn, Executes
  <2>3. to \in DOMAIN Program /\ d.rip[t] + 2 \in DOMAIN Program
    BY <1>1, <1>4, <2>1, ProgramCloses DEF Executes
  <2>4. frames \in Seq(DOMAIN Program)
    BY <1>2, <2>3
  <2> HIDE DEF frames
  <2>5. th \in KThread /\ th.state = "running" /\ th.event = Free /\ th.sig = Free /\ th.single = k[t].single
    BY <1>3, <2>4
  <2> HIDE DEF th
  <2> QED
    BY <1>1, <2>1, <2>2, <2>3, <2>5, ExecutesMoves
<1>5. CASE Executes(t, "return")
  <2> DEFINE frames == Tail(k[t].frames)
             th == [k[t] EXCEPT !.frames = frames]
  <2>1. k[t].frames # <<>> /\ k' = [k EXCEPT ![t] = After(th)] /\ d' = [d EXCEPT !.rip[t] = Head(k[t].frames)]
    BY <1>5 DEF CallOrReturn, Executes
  <2>2. frames \in Seq(DOMAIN Program) /\ Head(k[t].frames) \in DOMAIN Program
    BY <1>2, <2>1, HeadTailProperties
  <2> HIDE DEF frames
  <2>3. th \in KThread /\ th.state = "running" /\ th.event = Free /\ th.sig = Free /\ th.single = k[t].single
    BY <1>3, <2>2
  <2> HIDE DEF th
  <2> QED
    BY <1>1, <2>1, <2>2, <2>3, ExecutesMoves
<1> QED
  BY <1>4, <1>5 DEF CallOrReturn
(* A new thread is stopped behind the clone that its parent was stopped for. *)
LEMMA CloneKeeps ==
  ASSUME IInv, NEW t \in Threads, Clone(t)
  PROVE  IInv'
<1> USE DEF Alive, Known, Free
<1>1. PICK c \in Threads : /\ k[c].state = "absent"
                           /\ k' = [k EXCEPT ![c] = StopWith(k[c], "stop"), ![t] = [StopWith(k[t], "clone") EXCEPT !.born = c]]
                           /\ d' = [d EXCEPT !.rip[c] = Worker, !.rip[t] = @ + 2]
  BY DEF Clone
<1>2. /\ k[t].state = "running" /\ k[t].sig # "offered" /\ d.rip[t] \in DOMAIN Program /\ Program[d.rip[t]].op = "clone" /\ c # t
      /\ k[t].event = Free /\ k[t] \in KThread /\ k[c] \in KThread /\ k[c].event = Free /\ k[c].sig # "offered"
      /\ UNCHANGED <<phase, ctl, configured, initialStop>>
  BY <1>1, RunningStands DEF Clone, Executes, Proceeds, Debuggee, IInv, TypeOK, Kernel
<1> DEFINE newborn == StopWith(k[c], "stop")
           parent == [StopWith(k[t], "clone") EXCEPT !.born = c]
           rips == [d.rip EXCEPT ![c] = Worker, ![t] = d.rip[t] + 2]
<1>3. /\ newborn \in KThread /\ newborn.state = "stopped" /\ newborn.event = "stop" /\ newborn.sig # "offered"
      /\ newborn.born = k[c].born
      /\ parent \in KThread /\ parent.state = "stopped" /\ parent.event = "clone" /\ parent.born = c /\ parent.sig # "offered"
  <2>1. LET q == StopWith(k[t], "clone")
        IN q \in KThread /\ q.state = "stopped" /\ q.event = "clone" /\ q.sig = k[t].sig
    BY <1>2, StopWithKeeps DEF StopEvents
  <2>2. LET q == StopWith(k[c], "stop")
        IN q \in KThread /\ q.state = "stopped" /\ q.event = "stop" /\ q.sig = k[c].sig /\ q.born = k[c].born
    BY <1>2, StopWithKeeps DEF StopEvents
  <2> QED
    BY <1>2, <2>1, <2>2 DEF KThread
<1>4. k' = [k EXCEPT ![c] = newborn, ![t] = parent] /\ d' = [d EXCEPT !.rip = rips]
  BY <1>1, <1>2 DEF IInv, TypeOK, Typed
<1> HIDE DEF newborn, parent, rips
<1>5. /\ k' \in [Threads -> KThread] /\ k'[c] = newborn /\ k'[t] = parent
      /\ \A u \in Threads \ {c, t} : k'[u] = k[u]
  BY <1>2, <1>3, <1>4 DEF IInv, TypeOK
<1>6. d' = [rip |-> rips, text |-> d.text, threads |-> d.threads, bps |-> d.bps, sel |-> d.sel, cur |-> d.cur]
  BY <1>4 DEF IInv, TypeOK, Typed
<1>7. /\ rips \in [Threads -> Nat] /\ \A u \in Threads \ {c, t} : rips[u] = d.rip[u]
      /\ rips[c] \in DOMAIN Program /\ rips[t] \in DOMAIN Program
  BY <1>2, ProgramCloses, DebuggerAssumption DEF rips, IInv, TypeOK, Typed, DebuggerAssumption
<1>8. TypeOK'
  BY <1>2, <1>5, <1>6, <1>7 DEF IInv, TypeOK, Typed
<1>9. Kernel'
  <2> SUFFICES ASSUME NEW u \in Threads
               PROVE  /\ k'[u].state = "zombie" <=> k'[u].event = "exit"
                      /\ k'[u].state \in {"absent", "running", "gone"} => k'[u].event = Free
                      /\ k'[u].sig = "offered" => k'[u].state = "stopped" /\ k'[u].event \in {Free, "signal"}
                      /\ k'[u].event = "clone" => k'[u].born \in Threads
                      /\ Alive(u)' => IF k'[u].event = "int3" THEN d'.rip[u] - 1 \in DOMAIN d'.bps ELSE d'.rip[u] \in DOMAIN Program
    BY DEF Kernel
  <2>1. CASE u \in {c, t}
    BY <1>2, <1>3, <1>5, <1>6, <1>7, <2>1
  <2>2. CASE u \notin {c, t}
    <3>1. k'[u] = k[u] /\ d'.rip[u] = d.rip[u] /\ d'.bps = d.bps
      BY <1>5, <1>6, <1>7, <2>2
    <3> QED
      BY <3>1 DEF IInv, Kernel
  <2> QED
    BY <2>1, <2>2
<1>10. TextMatches' /\ Flags'
  BY <1>2, <1>6 DEF IInv, TextMatches, Flags, Stage
<1>11. Covered'
  BY <1>2, <1>6 DEF IInv, Covered
<1>12. Active' <=> Active
  BY <1>2, <1>3, <1>5 DEF Active, SomeAlive
<1>13. /\ \A u : Held(u)' <=> Held(u)
       /\ \A u : Belief(u)' = Belief(u)
       /\ Stage' = Stage
  BY <1>2, <1>6 DEF Held, Belief, Stage
<1>14. Active => \A u \in Threads : Held(u) => u \notin {c, t}
  BY <1>1, <1>2 DEF IInv, Beliefs, Settled
<1>15. Beliefs'
  BY <1>5, <1>6, <1>7, <1>12, <1>13, <1>14 DEF IInv, Beliefs, Settled
<1>16. Newborns'
  <2>1. ASSUME Active, NEW u \in Threads, Alive(u)', ~Known(u)
        PROVE  /\ k'[u].state = "stopped" /\ k'[u].event = "stop"
               /\ \/ \E v \in Threads : k'[v].event = "clone" /\ k'[v].born = u
                  \/ phase = "newborn" /\ k'[ctl.parent].born = u
    <3>1. CASE u = c
      BY <1>3, <1>5, <3>1
    <3>2. CASE u # c
      <4>1. u # t
        BY <1>2, <2>1 DEF IInv, Newborns
      <4>2. /\ k[u].state = "stopped" /\ k[u].event = "stop"
            /\ \/ \E v \in Threads \ {c, t} : k[v].event = "clone" /\ k[v].born = u
               \/ phase = "newborn" /\ k[ctl.parent].born = u
        BY <1>2, <1>5, <2>1, <3>2, <4>1 DEF IInv, Newborns
      <4>3. phase = "newborn" => k'[ctl.parent].born = k[ctl.parent].born
        BY <1>2, <1>3, <1>5 DEF IInv, Newborns
      <4> QED
        BY <1>5, <3>2, <4>1, <4>2, <4>3
    <3> QED
      BY <3>1, <3>2
  <2>2. phase = "newborn" => k'[ctl.parent].born = k[ctl.parent].born /\ k'[ctl.parent].state # "running"
    BY <1>2, <1>3, <1>5 DEF IInv, Newborns
  <2> QED
    BY <1>2, <1>6, <1>12, <2>1, <2>2 DEF IInv, Newborns
<1>17. Over'
  <2>1. SUFFICES ASSUME phase = "over"
                 PROVE  Over'
    BY <1>2 DEF Over
  <2>2. d.sel = t
    <3>1. Active
      BY <1>2, <2>1 DEF Active, SomeAlive
    <3>2. Known(t)
      BY <1>2, <3>1 DEF IInv, Newborns
    <3>3. ~Held(t)
      BY <1>2, <3>1 DEF IInv, Beliefs, Settled
    <3> QED
      BY <2>1, <3>2, <3>3 DEF IInv, Flags, Stage, Held
  <2> QED
    BY <1>2, <1>3, <1>5, <1>6, <2>1, <2>2 DEF IInv, Over
<1>18. Installed'
  BY <1>2, <1>6, <1>12, <1>13 DEF IInv, Installed, Standing
<1>19. Synced'
  BY <1>2, <1>6, <1>13 DEF IInv, Synced
<1> QED
  BY <1>8, <1>9, <1>10, <1>11, <1>15, <1>16, <1>17, <1>18, <1>19 DEF IInv

(* A thread ends, alone or with all others.                                   *)
LEMMA ExitKeeps ==
  ASSUME IInv, NEW t \in Threads, Exit(t)
  PROVE  IInv'
<1>1. /\ k[t].state = "running" /\ Program[d.rip[t]].op = "exit"
      /\ UNCHANGED <<d, phase, ctl, configured, initialStop>>
  BY DEF Exit, Executes, Proceeds, Debuggee
<1>2. CASE k' = KillAll
  BY <1>1, <1>2, KillKeeps
<1>3. CASE k' = [k EXCEPT ![t] = Die(k[t])]
  <2>1. k[t] \in KThread /\ d.rip[t] \in Nat
    BY <1>1, RunningStands
  <2>2. /\ Die(k[t]) \in KThread /\ Die(k[t]).state = "zombie" /\ Die(k[t]).event = "exit"
        /\ Die(k[t]).sig = Free
    BY <2>1, DieKeeps
  <2>3. d' = [d EXCEPT !.rip[t] = d.rip[t]]
    BY <1>1 DEF IInv, TypeOK, Typed
  <2> DEFINE q == Die(k[t])
  <2>4. Stands(q, d.rip[t])
    BY <2>2 DEF Stands
  <2> HIDE DEF q
  <2>5. Moves(t)
    BY <1>1, <1>3, <2>1, <2>2, <2>3, <2>4, MovesBy DEF q, Free
  <2> QED
    BY <2>5, MovesKeep
<1> QED
  BY <1>2, <1>3 DEF Exit

(* Any step of a thread.                                                      *)
LEMMA ThreadStepKeeps ==
  ASSUME IInv, NEW t \in Threads, ThreadStep(t)
  PROVE  IInv'
<1>1. CASE HitInt3(t)
  BY <1>1, HitInt3Moves, MovesKeep
<1>2. CASE Plain(t)
  BY <1>2, PlainMoves, MovesKeep
<1>3. CASE CallOrReturn(t)
  BY <1>3, CallOrReturnMoves, MovesKeep
<1>4. CASE Clone(t)
  BY <1>4, CloneKeeps
<1>5. CASE Exit(t)
  BY <1>5, ExitKeeps
<1>6. CASE Interrupted(t)
  BY <1>6, InterruptedMoves, MovesKeep
<1>7. CASE Signalled(t)
  BY <1>7, SignalledMoves, MovesKeep
<1> QED
  BY <1>1, <1>2, <1>3, <1>4, <1>5, <1>6, <1>7 DEF ThreadStep

(* What comes from outside. *)
LEMMA SendSignalKeeps ==
  ASSUME IInv, SendSignal
  PROVE  IInv'
<1>1. PICK t \in Threads, s \in {"queued", "halt", "terminal"} :
         k[t].state = "running" /\ k' = [k EXCEPT ![t] = [k[t] EXCEPT !.sig = s]]
  BY DEF SendSignal
<1>2. UNCHANGED <<d, phase, ctl, configured, initialStop>>
  BY DEF SendSignal
<1> DEFINE q == [k[t] EXCEPT !.sig = s]
<1>3. k[t] \in KThread /\ k[t].event = Free /\ d.rip[t] \in DOMAIN Program /\ d.rip[t] \in Nat
  BY <1>1, RunningStands
<1>4. q \in KThread /\ q.state = "running" /\ q.event = Free /\ q.sig = s /\ q.single = k[t].single
  BY <1>1, <1>3 DEF KThread
<1>5. d' = [d EXCEPT !.rip[t] = d.rip[t]]
  BY <1>2 DEF IInv, TypeOK, Typed
<1>6. k' = [k EXCEPT ![t] = q]
  BY <1>1
<1> HIDE DEF q
<1>7. Stands(q, d.rip[t])
  BY <1>3, <1>4 DEF Stands, Free
<1>8. Moves(t)
  BY <1>1, <1>2, <1>3, <1>4, <1>5, <1>6, <1>7, MovesBy DEF Free
<1> QED
  BY <1>8, MovesKeep

(* A stop is requested of the thread that was selected when the run began.    *)
LEMMA PauseKeeps ==
  ASSUME IInv, Pause
  PROVE  IInv'
<1> USE DEF Alive, Known
<1> DEFINE t == ctl.target
           q == [k[t] EXCEPT !.interrupt = TRUE]
<1>1. UNCHANGED <<d, phase, ctl, configured, initialStop>> /\ (k' = k \/ k' = [k EXCEPT ![t] = q])
  BY DEF Pause
<1>2. k' \in [Threads -> KThread] /\ \A u \in Threads : /\ k'[u].state = k[u].state /\ k'[u].event = k[u].event
                                                        /\ k'[u].sig = k[u].sig /\ k'[u].single = k[u].single
                                                        /\ k'[u].born = k[u].born
  <2>1. t \in Threads => /\ q \in KThread /\ q.state = k[t].state /\ q.event = k[t].event
                         /\ q.sig = k[t].sig /\ q.single = k[t].single /\ q.born = k[t].born
    <3>1. \A th \in KThread : LET r == [th EXCEPT !.interrupt = TRUE]
                             IN /\ r \in KThread /\ r.state = th.state /\ r.event = th.event
                                /\ r.sig = th.sig /\ r.single = th.single /\ r.born = th.born
      BY DEF KThread
    <3>2. t \in Threads => k[t] \in KThread
      BY DEF IInv, TypeOK
    <3> QED
      BY <3>1, <3>2
  <2> HIDE DEF t, q
  <2> QED
    BY <1>1, <2>1 DEF IInv, TypeOK
<1> HIDE DEF t, q
<1>3. \A u \in Threads : Alive(u)' <=> Alive(u)
  BY <1>2
<1>4. Active' <=> Active
  BY <1>1, <1>3 DEF Active, SomeAlive
<1>5. TypeOK' /\ TextMatches' /\ Flags' /\ Synced'
  BY <1>1, <1>2 DEF IInv, TypeOK, TextMatches, Flags, Synced, Stage
<1>6. Kernel'
  BY <1>1, <1>2 DEF IInv, Kernel
<1>7. Covered'
  BY <1>1, <1>2 DEF IInv, Covered
<1>8. Beliefs'
  BY <1>1, <1>2, <1>4 DEF IInv, Beliefs, Settled, Held, Belief
<1>9. Newborns'
  BY <1>1, <1>2, <1>4 DEF IInv, Newborns
<1>10. Over'
  <2>1. phase = "over" => d.sel \in Threads
    BY DEF IInv, Covered, TypeOK, Typed
  <2> QED
    BY <1>1, <1>2, <1>3, <2>1 DEF IInv, Over, SomeAlive
<1>11. Installed'
  BY <1>1, <1>4 DEF IInv, Installed, Standing, Held, Belief, Stage
<1> QED
  BY <1>5, <1>6, <1>7, <1>8, <1>9, <1>10, <1>11 DEF IInv
-----------------------------------------------------------------------------
(* Steps of the controller. *)
LEMMA Controls ==
  ASSUME NEW p \in Phases, NEW c, CtlTyped(c), Controller(p, c)
  PROVE  /\ phase' = p /\ phase' \in Phases /\ CtlTyped(ctl') /\ configured' = configured
         /\ p \notin {"prompt", "error", "ended"} => ctl' = c
<1>1. CtlTyped(Ctl)
  BY DEF CtlTyped, Ctl
<1> QED
  BY <1>1 DEF Controller

(* After an error, and at the end, hardly anything is claimed.                *)
LEMMA ErrorHolds ==
  ASSUME TypeOK', Kernel', Matches(d'), phase' = "error"
  PROVE  IInv'
  BY DEF IInv, TextMatches, Matches, Covered, Beliefs, Active, Flags, Stage, Newborns, Over, Installed, Synced

LEMMA EndedHolds ==
  ASSUME TypeOK', Kernel', phase' = "ended", \A t \in Threads : ~Alive(t)'
  PROVE  IInv'
  BY DEF IInv, TextMatches, Matches, Covered, Beliefs, Active, Flags, Stage, Newborns, Over, Installed, Synced

(* The prompt, and the other places where every thread stands still. *)
Stills == {"prompt", "passing", "stepping"}
Calm ==
    /\ d.sel \in DOMAIN d.threads
    /\ \A b \in configured : Selected(b) \subseteq DOMAIN d.bps
    /\ \A t \in DOMAIN d.threads : d.threads[t].stopped
    /\ SomeAlive => /\ \A t \in DOMAIN d.threads : Settled(t)
                    /\ \A t \in Threads : Alive(t) => t \in DOMAIN d.threads
AllIn == \A a \in DOMAIN d.bps : d.bps[a]

(* Where the controller is calm the rest of the invariant follows.            *)
LEMMA CalmHolds ==
  ASSUME TypeOK', Kernel', Matches(d'), phase' \in Stills, Calm', Installed', Synced'
  PROVE  IInv'
<1> USE DEF Stills
<1>1. TextMatches' /\ Covered' /\ Flags' /\ Over'
  BY DEF TextMatches, Matches, Covered, Calm, Flags, Stage, Known, Over
<1>2. Beliefs'
  BY DEF Beliefs, Active, Calm, Held, Known
<1>3. Newborns'
  BY DEF Newborns, Active, Calm, Known
<1> QED
  BY <1>1, <1>2, <1>3 DEF IInv

LEMMA PromptHolds ==
  ASSUME TypeOK', Kernel', Matches(d'), phase' = "prompt", Calm', AllIn'
  PROVE  IInv'
<1>1. Installed' /\ Synced'
  BY DEF Installed, AllIn, Synced, Stage
<1> QED
  BY <1>1, CalmHolds DEF Stills

(* It is calm at the prompt, while it passes breakpoints, and between two steps. *)
LEMMA CalmIs ==
  ASSUME IInv, phase \in Stills
  PROVE  Calm /\ Matches(d)
<1> USE DEF Stills, Alive, Known
<1>1. /\ Matches(d) /\ d.sel \in DOMAIN d.threads
      /\ \A b \in configured : Selected(b) \subseteq DOMAIN d.bps
      /\ \A t \in DOMAIN d.threads : d.threads[t].stopped
  BY DEF IInv, TextMatches, Matches, Covered, Flags, Stage
<1>2. SomeAlive => \A t \in DOMAIN d.threads : Settled(t)
  BY <1>1 DEF IInv, TypeOK, Typed, Beliefs, Active, Held
<1>3. ASSUME SomeAlive, NEW t \in Threads, Alive(t), t \notin DOMAIN d.threads
      PROVE  FALSE
  <2>1. PICK u \in Threads : k[u].event = "clone" /\ k[u].born = t
    BY <1>3 DEF IInv, Newborns, Active
  <2>2. Alive(u) /\ k[u].event # "stop"
    BY <2>1 DEF IInv, Kernel, TypeOK, KThread, Free
  <2>3. u \in DOMAIN d.threads
    BY <1>3, <2>2 DEF IInv, Newborns, Active
  <2> QED
    BY <1>2, <1>3, <2>1, <2>3 DEF Settled, Free
<1> QED
  BY <1>1, <1>2, <1>3 DEF Calm

(* Nothing moves while the controller only looks. *)
LEMMA SameSettled ==
  ASSUME TypeOK, Kernel, k' = k, Same(d, d'), Typed(d'), initialStop' \in BOOLEAN,
         phase' \in Phases, CtlTyped(ctl'), configured' = configured
  PROVE  /\ TypeOK' /\ Kernel' /\ (Matches(d) => Matches(d'))
         /\ \A t \in DOMAIN d.threads : Settled(t)' <=> Settled(t)
<1>1. TypeOK' /\ Kernel' /\ (Matches(d) => Matches(d'))
  BY DEF TypeOK, Kernel, Matches, Same, Alive
<1>2. \A t \in DOMAIN d.threads : Settled(t)' <=> Settled(t)
  BY DEF Settled, Belief, Bel, Same
<1> QED
  BY <1>1, <1>2

(* It stays so while it only looks.                                           *)
LEMMA SameCalm ==
  ASSUME IInv, phase \in Stills, k' = k, Same(d, d'), Typed(d'), d'.sel \in DOMAIN d'.threads, initialStop' \in BOOLEAN,
         phase' \in Phases, CtlTyped(ctl'), configured' = configured
  PROVE  /\ TypeOK' /\ Kernel' /\ Matches(d') /\ Calm'
         /\ \A t \in DOMAIN d.threads : Belief(t)'.breakpoint = Belief(t).breakpoint
<1>1. TypeOK' /\ Kernel' /\ Matches(d') /\ \A t \in DOMAIN d.threads : Settled(t)' <=> Settled(t)
  BY SameSettled, CalmIs DEF IInv
<1>2. Calm'
  BY <1>1, CalmIs DEF Calm, Same, SomeAlive, Alive
<1>3. \A t \in DOMAIN d.threads : Belief(t)'.breakpoint = Belief(t).breakpoint
  BY DEF Same, Belief, Bel
<1> QED
  BY <1>1, <1>2, <1>3
(* The same of a given state of the kernel and of the controller's knowledge. *)
Lives(kk, t) == kk[t].state \in {"running", "stopped"}
KernelOf(kk, s) ==
    \A t \in Threads :
        /\ kk[t].state = "zombie" <=> kk[t].event = "exit"
        /\ kk[t].state \in {"absent", "running", "gone"} => kk[t].event = Free
        /\ kk[t].sig = "offered" => kk[t].state = "stopped" /\ kk[t].event \in {Free, "signal"}
        /\ kk[t].event = "clone" => kk[t].born \in Threads
        /\ Lives(kk, t) => IF kk[t].event = "int3" THEN s.rip[t] - 1 \in DOMAIN s.bps ELSE s.rip[t] \in DOMAIN Program
Rests(kk, s, t) ==
    /\ kk[t].state = "stopped" /\ kk[t].event = Free
    /\ Bel(s, t).instruction = s.rip[t]
    /\ Bel(s, t).breakpoint # NoAddress => Bel(s, t).breakpoint = s.rip[t] /\ s.rip[t] \in DOMAIN s.bps
    /\ kk[t].sig = "offered" => Bel(s, t).signal # Free
AllRest(kk, s) ==
    /\ s.sel \in DOMAIN s.threads
    /\ \A t \in DOMAIN s.threads : s.threads[t].stopped
    /\ (\E t \in Threads : Lives(kk, t)) => /\ \A t \in DOMAIN s.threads : Rests(kk, s, t)
                                            /\ \A t \in Threads : Lives(kk, t) => t \in DOMAIN s.threads

(* Calm, of the states as they are.                                           *)
LEMMA CalmRests ==
  ASSUME IInv, phase \in Stills
  PROVE  AllRest(k, d) /\ KernelOf(k, d) /\ Typed(d) /\ Matches(d)
  BY CalmIs DEF Calm, AllRest, Rests, Lives, Alive, SomeAlive, Settled, Belief, Bel, IInv, Kernel, KernelOf, TypeOK

(* A prompt behind a new installation of the breakpoints. *)
LEMMA ConfiguredPrompt ==
  ASSUME NEW s, Typed(s), Matches(s), k' \in [Threads -> KThread], KernelOf(k', s), AllRest(k', s),
         d' = InstallConfigured(s, configured') \/ d' = SaveThread(InstallConfigured(s, configured')),
         phase' = "prompt", CtlTyped(ctl'), configured' \subseteq Configurable, initialStop' \in BOOLEAN
  PROVE  IInv'
<1> DEFINE r == InstallConfigured(s, configured')
<1>1. Typed(r) /\ Matches(r) /\ Configures(s, configured', r)
  BY InstallConfigures
<1> HIDE DEF r
<1>2. Typed(d') /\ Same(r, d') /\ d'.sel = r.sel
  <2>1. CASE d' = r
    BY <1>1, <2>1 DEF Same
  <2>2. CASE d' = SaveThread(r)
    BY <1>1, <2>2, SaveKeeps
  <2> QED
    BY <2>1, <2>2 DEF r
<1>3. TypeOK'
  BY <1>2 DEF TypeOK, Phases
<1>4. Matches(d') /\ AllIn'
  BY <1>1, <1>2 DEF Matches, Same, AllIn, Configures
<1>5. \A t \in Threads : Lives(k', t) => k'[t].event = Free
  BY DEF AllRest, Rests
<1>6. d'.rip = s.rip
  BY <1>1, <1>2 DEF Same, Configures
<1>7. Kernel'
  BY <1>5, <1>6 DEF Kernel, KernelOf, Alive, Lives, Free
<1>8. \A t \in DOMAIN s.threads : Rests(k', s, t) => Settled(t)'
  <2>1. SUFFICES ASSUME NEW t \in DOMAIN s.threads, Rests(k', s, t)
                 PROVE  Settled(t)'
    OBVIOUS
  <2>2. /\ Bel(r, t).instruction = s.rip[t] /\ Bel(r, t).signal = Bel(s, t).signal
        /\ Bel(r, t).breakpoint # NoAddress => Bel(r, t).breakpoint = s.rip[t] /\ s.rip[t] \in DOMAIN r.bps
    BY <1>1, <2>1 DEF Configures, Rests
  <2>3. /\ Belief(t)'.instruction = s.rip[t] /\ Belief(t)'.signal = Bel(s, t).signal
        /\ Belief(t)'.breakpoint # NoAddress => Belief(t)'.breakpoint = s.rip[t] /\ s.rip[t] \in DOMAIN d'.bps
    BY <1>1, <1>2, <2>2 DEF Same, Belief, Bel, Configures
  <2> QED
    BY <1>6, <2>1, <2>3 DEF Rests, Settled
<1>9. Calm'
  <2>1. DOMAIN d'.threads = DOMAIN s.threads /\ d'.sel = s.sel /\ DOMAIN d'.bps = UNION {Selected(b) : b \in configured'}
        /\ \A t \in DOMAIN s.threads : d'.threads[t].stopped = s.threads[t].stopped
    BY <1>1, <1>2 DEF Same, Configures
  <2>2. \A b \in configured' : Selected(b) \subseteq DOMAIN d'.bps
    BY <2>1
  <2>3. SomeAlive' => /\ \A t \in DOMAIN d'.threads : Settled(t)'
                      /\ \A t \in Threads : Alive(t)' => t \in DOMAIN d'.threads
    BY <1>8, <2>1 DEF SomeAlive, Alive, Lives, AllRest
  <2> QED
    BY <2>1, <2>2, <2>3 DEF Calm, AllRest
<1> QED
  BY <1>3, <1>4, <1>7, <1>9, PromptHolds

(* The commands, and the launch.                                              *)
LEMMA BreakKeeps ==
  ASSUME IInv, Break \/ DeleteBreakpoint
  PROVE  IInv'
<1>1. /\ phase = "prompt" /\ d' = InstallConfigured(d, configured') /\ configured' \subseteq Configurable
      /\ UNCHANGED <<k, phase, ctl, initialStop>>
  BY DEF Break, DeleteBreakpoint, Responsive, Prompt, IInv, TypeOK
<1> QED
  BY <1>1, CalmRests, ConfiguredPrompt DEF IInv, TypeOK, Stills

LEMMA LaunchKeeps ==
  ASSUME IInv, Launch
  PROVE  IInv'
<1> USE DEF Alive
<1>0. /\ phase = "launch" /\ initialStop' = initialStop /\ configured' = configured /\ CtlTyped(ctl')
      /\ \A t \in Threads : k[t].state = "absent" /\ k[t].event = Free /\ k[t].sig # "offered"
      /\ k \in [Threads -> KThread] /\ Typed(d) /\ Matches(d) /\ Leader \in Threads
  BY DebuggerAssumption, Controls DEF Launch, IInv, Covered, Kernel, TypeOK, Phases, CtlTyped, Ctl, TextMatches, Matches, DebuggerAssumption
<1>1. CASE k' = k /\ d' = d /\ Controller("ended", Ctl)
  <2>1. phase' = "ended"
    BY <1>1 DEF Controller
  <2>2. TypeOK' /\ Kernel' /\ \A t \in Threads : ~Alive(t)'
    BY <1>0, <1>1, <2>1 DEF IInv, TypeOK, Kernel, Phases
  <2> QED
    BY <2>1, <2>2, EndedHolds
<1>2. CASE ~(k' = k /\ d' = d /\ Controller("ended", Ctl))
  <2> DEFINE rips == [d.rip EXCEPT ![Leader] = Entry]
             threads == [t \in {Leader} |-> NativeThread]
             new == [d EXCEPT !.rip = rips, !.threads = threads, !.sel = Leader]
             m == InstallConfigured(new, configured)
             cur == [m.cur EXCEPT !.instruction = Entry]
             r == [m EXCEPT !.cur = cur]
  <2>1. /\ k' = [k EXCEPT ![Leader] = [k[Leader] EXCEPT !.state = "stopped"]]
        /\ d' = SaveThread(r) /\ phase' = "prompt"
    BY <1>2 DEF Launch, Controller
  <2>1a. new = [d EXCEPT !.rip = rips, !.threads = threads, !.sel = Leader]
    OBVIOUS
  <2> HIDE DEF new, rips, threads
  <2>2. new = [rip |-> rips, text |-> d.text, threads |-> threads, bps |-> d.bps, sel |-> Leader, cur |-> d.cur]
    BY <1>0, <2>1a DEF Typed
  <2>3. /\ rips \in [Threads -> Nat] /\ rips[Leader] = Entry /\ Entry \in Nat /\ Entry \in DOMAIN Program
        /\ threads \in [{Leader} -> DThread]
    BY <1>0, DebuggerAssumption DEF Typed, DebuggerAssumption, NativeThread, DThread, NoAddress, rips, threads
  <2>4. Typed(new) /\ Matches(new)
    BY <1>0, <2>2, <2>3 DEF Typed, Matches
  <2>5. Typed(m) /\ Matches(m) /\ Configures(new, configured, m)
    BY <2>4, InstallConfigures
  <2> HIDE DEF m
  <2>6. m.cur.breakpoint = NoAddress /\ m.sel = Leader /\ m.rip = rips /\ DOMAIN m.threads = {Leader} /\ m.threads[Leader].stopped
    <3>1. /\ Bel(new, Leader).breakpoint = NoAddress /\ Bel(new, Leader).instruction = NoAddress
          /\ new.threads[Leader].stopped /\ DOMAIN new.threads = {Leader} /\ new.sel = Leader /\ new.rip = rips
      BY <1>0, <2>2 DEF Bel, NativeThread, IInv, Covered, threads
    <3>2. m.cur.breakpoint # NoAddress => NoAddress \in DOMAIN m.bps
      BY <2>5, <3>1 DEF Configures, Bel
    <3>3. NoAddress \notin DOMAIN m.bps
      BY <2>5, PointsAreNumbers DEF Typed
    <3> QED
      BY <2>5, <3>1, <3>2, <3>3 DEF Configures
  <2>7. cur \in DThread /\ cur.instruction = Entry /\ cur.breakpoint = NoAddress
    BY <2>3, <2>5, <2>6 DEF Typed, DThread
  <2> HIDE DEF cur, r
  <2>8. r = [rip |-> m.rip, text |-> m.text, threads |-> m.threads, bps |-> m.bps, sel |-> m.sel, cur |-> cur]
    BY <2>5 DEF Typed, r
  <2>9. Typed(r) /\ Matches(r)
    BY <2>5, <2>7, <2>8 DEF Typed, Matches
  <2>10. Typed(d') /\ Same(r, d') /\ d'.sel = Leader
    BY <2>1, <2>6, <2>8, <2>9, SaveKeeps
  <2>11. /\ k' \in [Threads -> KThread] /\ \A t \in Threads \ {Leader} : k'[t] = k[t]
         /\ k'[Leader].state = "stopped" /\ k'[Leader].event = Free /\ k'[Leader].sig # "offered"
    <3> DEFINE q == [k[Leader] EXCEPT !.state = "stopped"]
    <3>1. k[Leader] \in KThread
      BY <1>0
    <3>2. q \in KThread /\ q.state = "stopped" /\ q.event = k[Leader].event /\ q.sig = k[Leader].sig
      BY <3>1 DEF KThread
    <3> HIDE DEF q
    <3> QED
      BY <1>0, <2>1, <3>2 DEF q
  <2>12. TypeOK'
    BY <1>0, <2>1, <2>10, <2>11 DEF IInv, TypeOK, Phases
  <2>13. Matches(d') /\ AllIn' /\ d'.rip = rips
    BY <2>5, <2>6, <2>8, <2>9, <2>10 DEF Matches, Same, AllIn, Configures
  <2>14. Kernel'
    BY <1>0, <2>3, <2>11, <2>13 DEF Kernel, Free
  <2>15. Settled(Leader)'
    <3>1. Belief(Leader)'.instruction = Entry /\ Belief(Leader)'.breakpoint = NoAddress
      BY <2>6, <2>7, <2>8, <2>10 DEF Same, Belief, Bel
    <3> QED
      BY <2>3, <2>11, <2>13, <3>1 DEF Settled
  <2>16. Calm'
    <3>1. DOMAIN d'.threads = {Leader} /\ d'.threads[Leader].stopped /\ d'.bps = m.bps
      BY <2>6, <2>8, <2>10 DEF Same
    <3>2. \A b \in configured' : Selected(b) \subseteq DOMAIN d'.bps
      BY <1>0, <2>5, <3>1 DEF Configures
    <3> QED
      BY <1>0, <2>10, <2>11, <2>15, <3>1, <3>2 DEF Calm
  <2> QED
    BY <2>1, <2>12, <2>13, <2>14, <2>16, PromptHolds
<1> QED
  BY <1>1, <1>2

LEMMA ThreadCommandKeeps ==
  ASSUME IInv, ThreadCommand
  PROVE  IInv'
<1>1. PICK t \in DOMAIN d.threads : d' = SelectThread(d, t)
  BY DEF ThreadCommand
<1>2. phase = "prompt" /\ UNCHANGED <<k, phase, ctl, configured, initialStop>>
  BY DEF ThreadCommand, Prompt
<1>3. Typed(d') /\ Same(d, d') /\ d'.sel \in DOMAIN d'.threads
  BY <1>1, SelectKeeps DEF IInv, TypeOK, Same
<1>4. /\ TypeOK' /\ Kernel' /\ Matches(d') /\ Calm'
      /\ \A u \in DOMAIN d.threads : Belief(u)'.breakpoint = Belief(u).breakpoint
  BY <1>2, <1>3, SameCalm DEF IInv, TypeOK, Stills
<1>5. Installed'
  BY <1>2, <1>3, <1>4 DEF IInv, Installed, Standing, Held, Same, Known, Active, SomeAlive, Alive, Stage
<1>6. Synced'
  BY <1>2 DEF Synced, Stage
<1> QED
  BY <1>2, <1>4, <1>5, <1>6, CalmHolds DEF Stills

LEMMA TerminateKeeps ==
  ASSUME IInv, TerminateExecutable
  PROVE  IInv'
<1>1. k' = [t \in Threads |-> IF k[t].state = "absent" THEN k[t] ELSE [Die(k[t]) EXCEPT !.state = "gone", !.event = Free]]
      /\ d' = [d EXCEPT !.sel = 0, !.threads = << >>, !.text = {}] /\ Controller("ended", Ctl)
      /\ initialStop' = initialStop
  BY DEF TerminateExecutable
<1>2. \A t \in Threads : LET q == [Die(k[t]) EXCEPT !.state = "gone", !.event = Free]
                         IN q \in KThread /\ q.state = "gone" /\ q.event = Free /\ q.sig = Free
  <2>1. \A t \in Threads : Die(k[t]) \in KThread /\ Die(k[t]).sig = Free
    BY DieKeeps DEF IInv, TypeOK
  <2> QED
    BY <2>1 DEF KThread, Free
<1>3. k' \in [Threads -> KThread] /\ \A t \in Threads : /\ k'[t].state \in {"absent", "gone"} /\ k'[t].event = Free
                                                        /\ k'[t].sig # "offered"
  BY <1>1, <1>2 DEF IInv, TypeOK, Kernel, Free
<1> DEFINE none == << >>
<1>4. none \in [DOMAIN none -> DThread] /\ DOMAIN none = {}
  OBVIOUS
<1>5. d' = [d EXCEPT !.sel = 0, !.threads = none, !.text = {}]
  BY <1>1
<1> HIDE DEF none
<1>6. d' = [rip |-> d.rip, text |-> {}, threads |-> none, bps |-> d.bps, sel |-> 0, cur |-> d.cur]
  BY <1>5 DEF IInv, TypeOK, Typed
<1>7. Typed(d')
  BY <1>4, <1>6 DEF IInv, TypeOK, Typed
<1>8. CtlTyped(Ctl)
  BY DEF CtlTyped, Ctl
<1>9. phase' = "ended" /\ CtlTyped(ctl') /\ configured' = configured
  BY <1>1, <1>8, Controls DEF Phases
<1>10. TypeOK' /\ Kernel' /\ \A t \in Threads : ~Alive(t)'
  BY <1>1, <1>3, <1>7, <1>9 DEF IInv, TypeOK, Kernel, Alive, Phases, Free
<1> QED
  BY <1>9, <1>10, EndedHolds
-----------------------------------------------------------------------------
(* Before anything runs freely: the threads still to be moved past a breakpoint  *)
(* are all of them.                                                             *)
LEMMA PassingBegins ==
  ASSUME IInv, phase = "prompt", k' = k, NEW r, Typed(r), Matches(r), SameThreads(d, r), DOMAIN d.bps \subseteq DOMAIN r.bps,
         \A a \in DOMAIN r.bps : r.bps[a] = IF a \in DOMAIN d.bps THEN d.bps[a] ELSE TRUE,
         d' = SaveThread(r), phase' = "passing", CtlTyped(ctl'), ctl'.todo = DOMAIN d.threads,
         configured' = configured, initialStop' \in BOOLEAN
  PROVE  IInv'
<1>1. AllRest(k, d) /\ KernelOf(k, d) /\ Typed(d) /\ Matches(d) /\ Calm
  BY CalmRests, CalmIs DEF Stills
<1>2. /\ Typed(d') /\ Same(r, d') /\ d'.sel = d.sel /\ d'.cur = d.cur
      /\ d'.threads[d'.sel].signal = d'.cur.signal
  BY <1>1, SaveKeeps DEF SameThreads, AllRest
<1>3. /\ d'.rip = d.rip /\ d'.bps = r.bps /\ DOMAIN d'.threads = DOMAIN d.threads /\ d'.text = r.text
      /\ \A u \in DOMAIN d.threads : /\ d'.threads[u].stopped = d.threads[u].stopped
                                     /\ Belief(u)'.instruction = Belief(u).instruction
                                     /\ Belief(u)'.breakpoint = Belief(u).breakpoint
                                     /\ Belief(u)'.signal = Belief(u).signal
  BY <1>2 DEF Same, SameThreads, Bel, Belief
<1>4. TypeOK' /\ Matches(d')
  BY <1>2, <1>3 DEF IInv, TypeOK, Phases, Matches
<1>5. Kernel'
  BY <1>3 DEF IInv, Kernel, Alive
<1>6. \A u \in DOMAIN d.threads : Settled(u) => Settled(u)'
  BY <1>3 DEF Settled
<1>7. Calm'
  BY <1>1, <1>2, <1>3, <1>6 DEF Calm, SomeAlive, Alive
<1>8. Installed'
  <2>1. SUFFICES ASSUME Active', NEW a \in DOMAIN d'.bps, ~d'.bps[a], Program[a].op # "exit"
                 PROVE  Standing(ctl.todo, a)'
    BY DEF Installed, Stage
  <2>2. Active /\ a \in DOMAIN d.bps /\ ~d.bps[a]
    BY <1>3, <2>1 DEF Active, SomeAlive, Alive
  <2>3. PICK u \in Threads : Held(u) /\ Belief(u).breakpoint = a
    BY <2>1, <2>2 DEF IInv, Installed, Standing, Stage
  <2>4. Held(u)' /\ Belief(u)'.breakpoint = a /\ u \in ctl'.todo
    BY <1>3, <2>3 DEF Held, Known
  <2> QED
    BY <2>4 DEF Standing
<1>9. Synced'
  BY <1>2 DEF Synced
<1> QED
  BY <1>4, <1>5, <1>7, <1>8, <1>9, CalmHolds DEF Stills

(* `continue`, and the first step.                                            *)
LEMMA ContinueKeeps ==
  ASSUME IInv, ContinueExecutable
  PROVE  IInv'
<1> DEFINE c == [Ctl EXCEPT !.todo = DOMAIN d.threads, !.chosen = d.sel, !.target = d.sel]
<1>1. phase = "prompt" /\ k' = k /\ initialStop' \in BOOLEAN /\ d' = SaveThread(d)
      /\ Controller("passing", c)
  BY DEF ContinueExecutable, Responsive, Prompt, Quiet
<1>2a. c = [Ctl EXCEPT !.todo = DOMAIN d.threads, !.chosen = d.sel, !.target = d.sel]
  OBVIOUS
<1> HIDE DEF c
<1>2b. c = [todo |-> DOMAIN d.threads, chosen |-> d.sel, back |-> Free, address |-> NoAddress, parent |-> 0, mode |-> Free,
            base |-> 0, moved |-> FALSE, first |-> FALSE, target |-> d.sel]
  BY <1>2a DEF Ctl
<1>2. CtlTyped(c) /\ c.todo = DOMAIN d.threads
  BY <1>2b DEF CtlTyped, IInv, TypeOK, Typed
<1>3. phase' = "passing" /\ CtlTyped(ctl') /\ configured' = configured /\ ctl' = c
  BY <1>1, <1>2, Controls DEF Phases
<1>4. Typed(d) /\ Matches(d) /\ SameThreads(d, d)
  BY <1>1, CalmRests DEF Stills, SameThreads
<1> QED
  BY <1>1, <1>2, <1>3, <1>4, PassingBegins

LEMMA StepToFirstKeeps ==
  ASSUME IInv, StepToFirst
  PROVE  IInv'
<1> DEFINE c == [Ctl EXCEPT !.todo = DOMAIN d.threads, !.chosen = d.sel, !.target = d.sel, !.first = TRUE]
           r == Install(d, DOMAIN Points)
<1>1. phase = "prompt" /\ k' = k /\ initialStop' \in BOOLEAN /\ d' = SaveThread(r)
      /\ Controller("passing", c)
  BY DEF StepToFirst, Responsive, Prompt, Quiet
<1>2a. c = [Ctl EXCEPT !.todo = DOMAIN d.threads, !.chosen = d.sel, !.target = d.sel, !.first = TRUE]
  OBVIOUS
<1> HIDE DEF c
<1>2b. c = [todo |-> DOMAIN d.threads, chosen |-> d.sel, back |-> Free, address |-> NoAddress, parent |-> 0, mode |-> Free,
            base |-> 0, moved |-> FALSE, first |-> TRUE, target |-> d.sel]
  BY <1>2a DEF Ctl
<1>2. CtlTyped(c) /\ c.todo = DOMAIN d.threads
  BY <1>2b DEF CtlTyped, IInv, TypeOK, Typed
<1>3. phase' = "passing" /\ CtlTyped(ctl') /\ configured' = configured /\ ctl' = c
  BY <1>1, <1>2, Controls DEF Phases
<1>4a. Typed(d) /\ Matches(d) /\ DOMAIN Points \in SUBSET DOMAIN Points
  BY <1>1, CalmRests DEF Stills
<1>4. /\ Typed(r) /\ Matches(r) /\ SameThreads(d, r) /\ DOMAIN d.bps \subseteq DOMAIN r.bps
      /\ \A a \in DOMAIN r.bps : r.bps[a] = IF a \in DOMAIN d.bps THEN d.bps[a] ELSE TRUE
  <2>1. LET q == Install(d, DOMAIN Points)
        IN /\ Typed(q) /\ Matches(q) /\ SameThreads(d, q) /\ DOMAIN q.bps = DOMAIN d.bps \cup DOMAIN Points
           /\ \A a \in DOMAIN q.bps : q.bps[a] = IF a \in DOMAIN d.bps THEN d.bps[a] ELSE TRUE
    BY <1>4a, InstallAdds
  <2> QED
    BY <2>1
<1> HIDE DEF r
<1> QED
  BY <1>1, <1>2, <1>3, <1>4, PassingBegins

(* A thread stopped by the debugger goes on. *)
LEMMA ResumedKeeps ==
  ASSUME NEW th \in KThread, NEW single \in BOOLEAN
  PROVE  LET q == Resumed(th, single)
         IN /\ q \in KThread /\ q.state = "running" /\ q.single = single /\ q.event = th.event /\ q.sig # "offered"
            /\ q.born = th.born
<1> DEFINE sig == IF th.sig \in Offered THEN Free ELSE th.sig
           q == Resumed(th, single)
<1>1. q = [th EXCEPT !.state = "running", !.single = single, !.sig = sig]
  BY DEF Resumed
<1>2. sig \in {Free, "queued", "halt", "terminal"} /\ Free # "offered"
  BY DEF KThread, Free, Offered
<1> HIDE DEF q, sig
<1>3. q = [state |-> "running", event |-> th.event, interrupt |-> th.interrupt, sig |-> sig, single |-> single,
           frames |-> th.frames, born |-> th.born]
  BY <1>1 DEF KThread
<1> QED
  BY <1>2, <1>3 DEF KThread, q

(* The selected thread leaves its breakpoint, the only one that does while it does. *)
LEMMA OverBegins ==
  ASSUME IInv, phase \in Stills, NEW s, Typed(s), Same(d, s), s.sel \in DOMAIN s.threads, Alive(s.sel),
         s.cur.breakpoint # NoAddress, k' = [k EXCEPT ![s.sel] = Resumed(k[s.sel], TRUE)],
         d' = RestoreBreakpoint(s, s.cur.breakpoint), phase' = "over", CtlTyped(ctl'), ctl'.back \in {"passing", "stepping"},
         ctl'.address = s.cur.breakpoint,
         ctl'.back = "passing" => /\ phase = "passing" /\ ctl'.todo = ctl.todo
                                  /\ s.threads[s.sel].signal = s.cur.signal,
         ctl'.back = "stepping" => phase = "prompt",
         configured' = configured, initialStop' \in BOOLEAN
  PROVE  IInv'
<1> DEFINE t == s.sel
           q == Resumed(k[t], TRUE)
           a == s.cur.breakpoint
<1>1. AllRest(k, d) /\ KernelOf(k, d) /\ Typed(d) /\ Matches(d) /\ Calm
  BY CalmRests, CalmIs
<1>2. t \in Threads /\ t \in DOMAIN d.threads /\ SomeAlive /\ k[t] \in KThread /\ Active
  BY <1>1 DEF Same, Typed, SomeAlive, IInv, TypeOK, Active, Stills
<1>3. \A u \in DOMAIN d.threads : Rests(k, s, u)
  BY <1>1, <1>2 DEF AllRest, Rests, Same, SomeAlive, Alive, Lives
<1>4. /\ k[t].state = "stopped" /\ k[t].event = Free /\ a = s.rip[t] /\ a \in DOMAIN s.bps /\ a = Belief(t).breakpoint
      /\ s.rip[t] \in DOMAIN Program
  BY <1>1, <1>2, <1>3 DEF Rests, Bel, Belief, Same, KernelOf, Lives, Free
<1>5. q \in KThread /\ q.state = "running" /\ q.single = TRUE /\ q.event = Free /\ q.sig # "offered" /\ q.born = k[t].born
  BY <1>2, <1>4, ResumedKeeps
<1>6. Matches(s)
  BY <1>1 DEF Same, Matches
<1>7. Typed(d') /\ Matches(d') /\ SameThreads(s, d') /\ d'.bps = [s.bps EXCEPT ![a] = FALSE]
  BY <1>4, <1>6, RestoreOne
<1> HIDE DEF q
<1>8. k' \in [Threads -> KThread] /\ k'[t] = q /\ \A u \in Threads \ {t} : k'[u] = k[u]
  BY <1>2, <1>5 DEF IInv, TypeOK, q
<1> HIDE DEF t, a
<1>9. /\ d'.sel = t /\ d'.rip = d.rip /\ DOMAIN d'.bps = DOMAIN d.bps /\ DOMAIN d'.threads = DOMAIN d.threads
      /\ \A b \in DOMAIN d.bps \ {a} : d'.bps[b] = d.bps[b]
      /\ a \in DOMAIN d.bps /\ ~d'.bps[a]
      /\ \A u \in DOMAIN d.threads : /\ Belief(u)' = Bel(s, u)
                                     /\ Belief(u)'.breakpoint = Belief(u).breakpoint
                                     /\ d'.threads[u].stopped = d.threads[u].stopped
  <2>1. /\ d'.sel = t /\ d'.rip = d.rip /\ DOMAIN d'.threads = DOMAIN d.threads
        /\ \A u \in DOMAIN d.threads : d'.threads[u].stopped = d.threads[u].stopped
    BY <1>7 DEF SameThreads, Same, t
  <2>2. /\ DOMAIN d'.bps = DOMAIN d.bps /\ a \in DOMAIN d.bps /\ ~d'.bps[a]
        /\ \A b \in DOMAIN d.bps \ {a} : d'.bps[b] = d.bps[b]
    BY <1>4, <1>7 DEF Same
  <2>3. \A u : Belief(u)' = Bel(s, u)
    BY <1>7 DEF SameThreads, Belief, Bel
  <2>4. \A u \in DOMAIN d.threads : Bel(s, u).breakpoint = Belief(u).breakpoint
    BY DEF Same, Belief, Bel
  <2> QED
    BY <2>1, <2>2, <2>3, <2>4
<1>10. TypeOK'
  BY <1>7, <1>8 DEF IInv, TypeOK, Phases
<1>11. Kernel'
  <2>1. ASSUME NEW u \in Threads
        PROVE  /\ k'[u].state = "zombie" <=> k'[u].event = "exit"
               /\ k'[u].state \in {"absent", "running", "gone"} => k'[u].event = Free
               /\ k'[u].sig = "offered" => k'[u].state = "stopped" /\ k'[u].event \in {Free, "signal"}
               /\ k'[u].event = "clone" => k'[u].born \in Threads
               /\ Alive(u)' => IF k'[u].event = "int3" THEN d'.rip[u] - 1 \in DOMAIN d'.bps ELSE d'.rip[u] \in DOMAIN Program
    <3>1. CASE u = t
      <4>1. d'.rip[u] \in DOMAIN Program /\ k'[u] = q
        BY <1>4, <1>8, <1>9, <3>1 DEF Same
      <4> QED
        BY <1>5, <4>1 DEF Free
    <3>2. CASE u # t
      <4>1. k'[u] = k[u] /\ d'.rip[u] = d.rip[u] /\ DOMAIN d'.bps = DOMAIN d.bps
        BY <1>8, <1>9, <3>2
      <4>2. Alive(u)' => Lives(k, u)
        BY <4>1 DEF Alive, Lives
      <4> QED
        BY <1>1, <4>1, <4>2 DEF KernelOf
    <3> QED
      BY <3>1, <3>2
  <2> QED
    BY <2>1 DEF Kernel
<1>12. \A u \in Threads : Alive(u)' <=> Alive(u)
  BY <1>4, <1>5, <1>8 DEF Alive
<1>13. TextMatches' /\ Covered' /\ Flags'
  BY <1>1, <1>2, <1>7, <1>9 DEF TextMatches, Matches, Covered, Calm, Known, Flags, Stage
<1>14. Beliefs'
  <2>1. SUFFICES ASSUME NEW u \in Threads, Held(u)'
                 PROVE  Settled(u)'
    BY DEF Beliefs
  <2>2. u \in DOMAIN d.threads /\ u # t /\ k'[u] = k[u]
    BY <1>8, <1>9, <2>1 DEF Held, Known
  <2>3. Rests(k, s, u)
    BY <1>3, <2>2
  <2> QED
    BY <1>9, <2>2, <2>3 DEF Settled, Rests, Same
<1>15. Newborns'
  BY <1>1, <1>2, <1>9, <1>12 DEF Newborns, Calm, Known
<1>16. Over'
  <2>1. Alive(t)' /\ k'[t].event # "int3" /\ k'[t].single
    BY <1>2, <1>5, <1>8 DEF Alive, Free
  <2>2. d'.rip[t] = a
    BY <1>4, <1>9 DEF Same
  <2>3. ctl'.address = a
    BY DEF a
  <2> QED
    BY <1>9, <2>1, <2>2, <2>3 DEF Over
<1>17. Installed'
  <2> DEFINE S == IF ctl.back = "passing" THEN ctl.todo ELSE Threads
  <2>1. SUFFICES ASSUME NEW b \in DOMAIN d'.bps, ~d'.bps[b], Program[b].op # "exit", b # a
                 PROVE  Standing(S, b)'
    BY DEF Installed, Stage, a
  <2>2. \E u \in S' : Held(u) /\ Belief(u).breakpoint = b
    BY <1>2, <1>9, <2>1 DEF IInv, Installed, Stage, Standing
  <2>3. PICK u \in S' : Held(u) /\ Belief(u).breakpoint = b
    BY <2>2
  <2>4. u # t /\ u \in DOMAIN d.threads
    BY <1>4, <2>1, <2>3 DEF Held, Known, a, t
  <2>5. Held(u)' /\ Belief(u)'.breakpoint = b
    BY <1>9, <2>3, <2>4 DEF Held, Known
  <2> QED
    BY <2>3, <2>5 DEF Standing
<1>18. Synced'
  BY <1>7 DEF Synced, Stage, SameThreads, t
<1> QED
  BY <1>10, <1>11, <1>13, <1>14, <1>15, <1>16, <1>17, <1>18 DEF IInv

(* A thread is passed over its breakpoint, or has none, or an error ends the run. *)
LEMMA PassThreadKeeps ==
  ASSUME IInv, PassThread
  PROVE  IInv'
<1>1. PICK t \in ctl.todo :
         LET s == SelectThread(d, t) IN
         \/ /\ Known(t) /\ d.threads[t].stopped /\ s.cur.breakpoint # NoAddress /\ Alive(t)
            /\ SingleStepOver(s, "passing")
         \/ /\ Known(t) /\ (~d.threads[t].stopped \/ (s.cur.breakpoint # NoAddress /\ ~Alive(t)))
            /\ d' = IF d.threads[t].stopped THEN s ELSE SaveThread(d)
            /\ Controller("error", Ctl) /\ Quiet
         \/ /\ Known(t) => d.threads[t].stopped /\ s.cur.breakpoint = NoAddress
            /\ d' = IF Known(t) THEN SaveThread(s) ELSE d
            /\ Controller("passing", [ctl EXCEPT !.todo = ctl.todo \ {t}]) /\ Quiet
  BY DEF PassThread
<1>2. phase = "passing" /\ initialStop' = initialStop /\ t \in Threads /\ Typed(d) /\ CtlTyped(ctl)
  BY DEF PassThread, IInv, TypeOK, CtlTyped
<1>3. phase \in Stills
  BY <1>2 DEF Stills
<1> DEFINE s == SelectThread(d, t)
<1>4. Known(t) => /\ Typed(s) /\ Same(d, s) /\ s.sel = t /\ s.cur = s.threads[t]
                  /\ Belief(t).breakpoint = s.cur.breakpoint /\ t \in DOMAIN s.threads
  <2>1. Known(t) => Typed(s) /\ Same(d, s) /\ s.sel = t /\ s.cur = s.threads[t]
    BY <1>2, SelectKeeps DEF Known
  <2> HIDE DEF s
  <2> QED
    BY <2>1 DEF Same, Belief, Bel, Known
<1>5. CASE /\ Known(t) /\ d.threads[t].stopped /\ s.cur.breakpoint # NoAddress /\ Alive(t)
           /\ SingleStepOver(s, "passing")
  <2> DEFINE c == [ctl EXCEPT !.back = "passing", !.address = s.cur.breakpoint]
  <2>1. /\ k' = [k EXCEPT ![s.sel] = Resumed(k[s.sel], TRUE)] /\ d' = RestoreBreakpoint(s, s.cur.breakpoint)
        /\ initialStop' = initialStop /\ Controller("over", c)
    BY <1>2, <1>5 DEF SingleStepOver, Resume
  <2>2. c = [ctl EXCEPT !.back = "passing", !.address = s.cur.breakpoint]
    OBVIOUS
  <2> HIDE DEF c, s
  <2>3. c = [todo |-> ctl.todo, chosen |-> ctl.chosen, back |-> "passing", address |-> s.cur.breakpoint, parent |-> ctl.parent,
             mode |-> ctl.mode, base |-> ctl.base, moved |-> ctl.moved, first |-> ctl.first, target |-> ctl.target]
    BY <1>2, <2>2 DEF CtlTyped
  <2>4. CtlTyped(c) /\ c.todo = ctl.todo /\ c.back = "passing" /\ c.address = s.cur.breakpoint
    BY <1>2, <2>3 DEF CtlTyped
  <2>5. phase' = "over" /\ CtlTyped(ctl') /\ ctl' = c /\ configured' = configured
    BY <2>1, <2>4, Controls DEF Phases
  <2>6. initialStop' \in BOOLEAN
    BY <1>2, <2>1 DEF IInv, TypeOK
  <2> QED
    BY <1>2, <1>3, <1>4, <1>5, <2>1, <2>4, <2>5, <2>6, OverBegins
<1>6. CASE /\ Known(t) /\ d' = (IF d.threads[t].stopped THEN s ELSE SaveThread(d))
           /\ Controller("error", Ctl) /\ Quiet
  <2>1. Typed(d') /\ Same(d, d')
    BY <1>2, <1>4, <1>6, SaveKeeps
  <2>2. CtlTyped(Ctl)
    BY DEF CtlTyped, Ctl
  <2>3. phase' = "error" /\ CtlTyped(ctl') /\ configured' = configured
    BY <1>6, <2>2, Controls DEF Phases
  <2>4. k' = k
    BY <1>6 DEF Quiet
  <2>5. TypeOK' /\ Kernel' /\ Matches(d')
    BY <1>2, <1>3, <2>1, <2>3, <2>4, SameSettled, CalmIs DEF IInv, TypeOK, Phases
  <2> QED
    BY <2>3, <2>5, ErrorHolds
<1>7. CASE /\ Known(t) => d.threads[t].stopped /\ s.cur.breakpoint = NoAddress
           /\ d' = (IF Known(t) THEN SaveThread(s) ELSE d)
           /\ Controller("passing", [ctl EXCEPT !.todo = ctl.todo \ {t}]) /\ Quiet
  <2> DEFINE c == [ctl EXCEPT !.todo = ctl.todo \ {t}]
  <2>1. CtlTyped(c) /\ c.todo = ctl.todo \ {t}
    BY <1>2 DEF CtlTyped
  <2> HIDE DEF c, s
  <2>2. phase' = "passing" /\ CtlTyped(ctl') /\ ctl' = c /\ configured' = configured
    BY <1>7, <2>1, Controls DEF Phases, c
  <2>3. k' = k
    BY <1>7 DEF Quiet
  <2>4. /\ Typed(d') /\ Same(d, d') /\ d'.sel \in DOMAIN d'.threads
        /\ Known(t) => d'.threads[d'.sel].signal = d'.cur.signal
    <3>1. CASE Known(t)
      <4>1. /\ Typed(d') /\ Same(s, d') /\ d'.sel = t /\ d'.cur = s.cur
            /\ d'.threads[d'.sel].signal = d'.cur.signal
        BY <1>4, <1>7, <3>1, SaveKeeps
      <4> QED
        BY <1>4, <3>1, <4>1 DEF Same
    <3>2. CASE ~Known(t)
      BY <1>2, <1>3, <1>7, <3>2, CalmIs DEF Same, Calm
    <3> QED
      BY <3>1, <3>2
  <2>5. /\ TypeOK' /\ Kernel' /\ Matches(d') /\ Calm'
        /\ \A u \in DOMAIN d.threads : Belief(u)'.breakpoint = Belief(u).breakpoint
    BY <1>2, <1>3, <2>2, <2>3, <2>4, SameCalm DEF IInv, TypeOK
  <2>6. Installed'
    <3>1. SUFFICES ASSUME Active', NEW a \in DOMAIN d'.bps, ~d'.bps[a], Program[a].op # "exit"
                   PROVE  Standing(ctl.todo, a)'
      BY <2>2 DEF Installed, Stage
    <3>2. Standing(ctl.todo, a) /\ a # NoAddress
      BY <1>2, <2>3, <2>4, <3>1, PointsAreNumbers DEF IInv, Installed, Stage, Active, SomeAlive, Alive, Same, Typed
    <3>3. PICK u \in ctl.todo : Held(u) /\ Belief(u).breakpoint = a
      BY <3>2 DEF Standing
    <3>4. u # t
      BY <1>4, <1>7, <3>2, <3>3 DEF Held
    <3>5. Held(u)' /\ Belief(u)'.breakpoint = a
      BY <1>2, <2>2, <2>4, <2>5, <3>3 DEF Held, Known, Same
    <3> QED
      BY <2>1, <2>2, <3>3, <3>4, <3>5 DEF Standing
  <2>7. Synced'
    BY <1>2, <1>7, <2>2, <2>4 DEF IInv, Synced, Stage
  <2> QED
    BY <2>2, <2>5, <2>6, <2>7, CalmHolds DEF Stills
<1> QED
  BY <1>1, <1>5, <1>6, <1>7

(* None is left that stands on a breakpoint out of the text.                  *)
LEMMA PassedKeeps ==
  ASSUME IInv, Passed
  PROVE  IInv'
<1>1. /\ phase = "passing" /\ ctl.todo = {} /\ k' = k /\ initialStop' = initialStop
      /\ d' = (IF Known(ctl.chosen) THEN SelectThread(d, ctl.chosen) ELSE d) /\ Controller("resume", ctl)
  BY DEF Passed, Quiet
<1>2. phase \in Stills /\ Typed(d) /\ CtlTyped(ctl)
  BY <1>1 DEF Stills, IInv, TypeOK
<1>3. phase' = "resume" /\ CtlTyped(ctl') /\ ctl' = ctl /\ configured' = configured
  BY <1>1, <1>2, Controls DEF Phases
<1>4. /\ Typed(d') /\ Same(d, d') /\ d'.sel \in DOMAIN d'.threads
      /\ d'.threads[d'.sel].stopped => d'.threads[d'.sel].signal = d'.cur.signal
  <2>1. CASE Known(ctl.chosen)
    <3>1. LET r == SelectThread(d, ctl.chosen)
          IN Typed(r) /\ Same(d, r) /\ r.sel = ctl.chosen /\ r.cur = r.threads[ctl.chosen]
      BY <1>2, <2>1, SelectKeeps DEF Known
    <3> QED
      BY <1>1, <2>1, <3>1 DEF Same, Known
  <2>2. CASE ~Known(ctl.chosen)
    BY <1>1, <1>2, <2>2, CalmIs DEF Same, Calm, IInv, Synced, Stage
  <2> QED
    BY <2>1, <2>2
<1>5. TypeOK' /\ Kernel' /\ Matches(d') /\ Calm'
  BY <1>1, <1>2, <1>3, <1>4, SameCalm DEF IInv, TypeOK, Phases
<1>6. TextMatches' /\ Covered' /\ Flags' /\ Over'
  BY <1>3, <1>5 DEF TextMatches, Matches, Covered, Calm, Known, Flags, Stage, Over
<1>7. Beliefs' /\ Newborns'
  BY <1>3, <1>5 DEF Beliefs, Newborns, Active, Calm, Held, Known
<1>8. Installed'
  <2>1. Active' => Active
    BY <1>1 DEF Active, SomeAlive, Alive
  <2>2. Active => \A a \in DOMAIN d.bps : d.bps[a] \/ Program[a].op = "exit"
    BY <1>1 DEF IInv, Installed, Standing, Stage
  <2> QED
    BY <1>4, <2>1, <2>2 DEF Installed, Same
<1>9. Synced'
  BY <1>4 DEF Synced
<1> QED
  BY <1>5, <1>6, <1>7, <1>8, <1>9 DEF IInv

(* A source step, over the breakpoint it starts on or from anywhere else.     *)
LEMMA StepExecutableKeeps ==
  ASSUME IInv, StepExecutable
  PROVE  IInv'
<1>1. /\ phase = "prompt" /\ Alive(d.sel) /\ initialStop' \in BOOLEAN
  BY DEF StepExecutable, Responsive, Prompt
<1>2. phase \in Stills /\ Typed(d) /\ Matches(d) /\ Calm
  BY <1>1, CalmIs DEF Stills, IInv, TypeOK
<1>3. PICK mode \in {"step", "next", "finish"} :
         LET c == [Ctl EXCEPT !.mode = mode, !.base = Len(k[d.sel].frames), !.target = d.sel,
                              !.moved = d.cur.breakpoint # NoAddress]
         IN IF d.cur.breakpoint = NoAddress
            THEN /\ d' = RestoreAllBreakpoints(d)
                 /\ Controller("stepping", c) /\ Quiet
            ELSE /\ Resume(RestoreBreakpoint(d, d.cur.breakpoint), d.sel, TRUE, Free)
                 /\ Controller("over", [c EXCEPT !.back = "stepping", !.address = d.cur.breakpoint])
  BY DEF StepExecutable
<1> DEFINE c == [Ctl EXCEPT !.mode = mode, !.base = Len(k[d.sel].frames), !.target = d.sel,
                            !.moved = d.cur.breakpoint # NoAddress]
           o == [c EXCEPT !.back = "stepping", !.address = d.cur.breakpoint]
<1>4. IF d.cur.breakpoint = NoAddress
      THEN /\ d' = RestoreAllBreakpoints(d) /\ Controller("stepping", c) /\ k' = k
      ELSE /\ k' = [k EXCEPT ![d.sel] = Resumed(k[d.sel], TRUE)] /\ d' = RestoreBreakpoint(d, d.cur.breakpoint)
           /\ Controller("over", o)
  BY <1>3 DEF Quiet, Resume, IInv, TypeOK
<1>5. c = [Ctl EXCEPT !.mode = mode, !.base = Len(k[d.sel].frames), !.target = d.sel, !.moved = d.cur.breakpoint # NoAddress]
  OBVIOUS
<1>6. o = [c EXCEPT !.back = "stepping", !.address = d.cur.breakpoint]
  OBVIOUS
<1> HIDE DEF c, o
<1>7. c = [todo |-> {}, chosen |-> 0, back |-> Free, address |-> NoAddress, parent |-> 0, mode |-> mode,
           base |-> Len(k[d.sel].frames), moved |-> d.cur.breakpoint # NoAddress, first |-> FALSE, target |-> d.sel]
  BY <1>5 DEF Ctl
<1>8. o = [todo |-> {}, chosen |-> 0, back |-> "stepping", address |-> d.cur.breakpoint, parent |-> 0, mode |-> mode,
           base |-> Len(k[d.sel].frames), moved |-> d.cur.breakpoint # NoAddress, first |-> FALSE, target |-> d.sel]
  BY <1>6, <1>7
<1>9. CtlTyped(c) /\ CtlTyped(o) /\ o.back = "stepping" /\ o.address = d.cur.breakpoint
  BY <1>7, <1>8 DEF CtlTyped
<1>10. CASE d.cur.breakpoint # NoAddress
  <2>1. phase' = "over" /\ CtlTyped(ctl') /\ ctl' = o /\ configured' = configured
    BY <1>4, <1>9, <1>10, Controls DEF Phases
  <2>2. Same(d, d) /\ d.sel \in DOMAIN d.threads
    BY <1>2 DEF Same, Calm
  <2> QED
    BY <1>1, <1>2, <1>4, <1>9, <1>10, <2>1, <2>2, OverBegins
<1>11. CASE d.cur.breakpoint = NoAddress
  <2>1. phase' = "stepping" /\ CtlTyped(ctl') /\ configured' = configured
    BY <1>4, <1>9, <1>11, Controls DEF Phases
  <2>2. Typed(d') /\ Matches(d') /\ SameThreads(d, d') /\ DOMAIN d'.bps = DOMAIN d.bps
    BY <1>2, <1>4, <1>11, RestoreEvery
  <2>3. k' = k
    BY <1>4, <1>11
  <2>4. TypeOK' /\ Kernel'
    BY <1>1, <2>1, <2>2, <2>3 DEF IInv, TypeOK, Phases, Kernel, SameThreads, Alive
  <2>5. \A u : Settled(u) <=> Settled(u)'
    BY <2>2, <2>3 DEF Settled, SameThreads, Belief
  <2>6. Calm'
    BY <1>2, <2>1, <2>2, <2>3, <2>5 DEF Calm, SameThreads, SomeAlive, Alive
  <2>7. Installed' /\ Synced'
    BY <2>1 DEF Installed, Synced, Stage
  <2> QED
    BY <2>1, <2>2, <2>4, <2>6, <2>7, CalmHolds DEF Stills
<1> QED
  BY <1>10, <1>11
-----------------------------------------------------------------------------
(* A stop or an exit is waited for. Who is alive does not change.                *)
LEMMA ReapedKeeps ==
  ASSUME IInv, NEW t \in Threads, Reapable(t), k' = Reaped(t)
  PROVE  /\ k' \in [Threads -> KThread] /\ \A u \in Threads \ {t} : k'[u] = k[u]
         /\ k'[t].event = Free /\ k'[t].sig = k[t].sig /\ k'[t].born = k[t].born /\ k[t].event # Free
         /\ IF k[t].event = "exit" THEN k[t].state = "zombie" /\ k'[t].state = "gone" /\ k[t].sig # "offered"
            ELSE k[t].state = "stopped" /\ k'[t].state = "stopped" /\ k[t].event \in StopEvents
         /\ \A u \in Threads : Alive(u)' <=> Alive(u)
<1> DEFINE state == IF k[t].event = "exit" THEN "gone" ELSE k[t].state
           q == Reported(k[t])
<1>1. k[t] \in KThread /\ k[t].event # Free
  BY DEF IInv, TypeOK, Reapable
<1>2. IF k[t].event = "exit" THEN k[t].state = "zombie" /\ k[t].sig # "offered"
      ELSE k[t].state = "stopped" /\ k[t].event \in StopEvents
  BY <1>1 DEF IInv, Kernel, KThread, Free
<1>3. q = [k[t] EXCEPT !.event = Free, !.state = state]
  BY DEF Reported
<1>4. state = IF k[t].event = "exit" THEN "gone" ELSE "stopped"
  BY <1>2
<1> HIDE DEF state, q
<1>5. q = [state |-> state, event |-> Free, interrupt |-> k[t].interrupt, sig |-> k[t].sig, single |-> k[t].single,
           frames |-> k[t].frames, born |-> k[t].born]
  BY <1>1, <1>3 DEF KThread
<1>6. q \in KThread
  BY <1>1, <1>4, <1>5 DEF KThread
<1>7. k' \in [Threads -> KThread] /\ k'[t] = q /\ \A u \in Threads \ {t} : k'[u] = k[u]
  BY <1>6 DEF IInv, TypeOK, Reaped, q
<1>8. \A u \in Threads : Alive(u)' <=> Alive(u)
  BY <1>2, <1>4, <1>5, <1>7 DEF Alive
<1> QED
  BY <1>1, <1>2, <1>4, <1>5, <1>7, <1>8

(* While a thread lives that is not known, one that is known waits to report it. *)
LEMMA NewbornHasParent ==
  ASSUME IInv, Active, phase # "newborn", NEW t \in Threads, Alive(t), ~Known(t)
  PROVE  /\ k[t].event = "stop" /\ k[t].state = "stopped"
         /\ \E u \in Threads : Known(u) /\ Alive(u) /\ k[u].event = "clone" /\ k[u].born = t
<1>1. k[t].event = "stop" /\ k[t].state = "stopped"
  BY DEF IInv, Newborns
<1>2. PICK u \in Threads : k[u].event = "clone" /\ k[u].born = t
  BY DEF IInv, Newborns
<1>3. Alive(u) /\ k[u].event # "stop"
  BY <1>2 DEF IInv, Kernel, TypeOK, KThread, Free, Alive
<1>4. Known(u)
  BY <1>3 DEF IInv, Newborns
<1> QED
  BY <1>1, <1>2, <1>3, <1>4

(* The exit of a thread while the controller steps over a breakpoint, waits or stops. *)
LEMMA ReapExitKeeps ==
  ASSUME IInv, NEW t \in Threads, Reap(t), Event(t) = "exit", NEW p, NEW c, ReapExit(t, p, c), CtlTyped(c),
         \/ /\ phase = "over" /\ t = d.sel /\ p = IF ctl.back = "passing" THEN "passing" ELSE "prompt"
            /\ c.todo = ctl.todo \ {t}
         \/ phase \in {"waiting", "stopping"} /\ p = phase
  PROVE  IInv'
<1> DEFINE s == RecordExit(d, t)
<1>1. Typed(d) /\ Matches(d) /\ d.sel \in DOMAIN d.threads /\ \A b \in configured : Selected(b) \subseteq DOMAIN d.bps
  BY DEF IInv, TypeOK, TextMatches, Matches, Covered, Known
<1>2. Typed(s) /\ Forgets(d, t, s)
  BY <1>1, ExitForgets
<1>3. /\ k' \in [Threads -> KThread] /\ \A u \in Threads \ {t} : k'[u] = k[u]
      /\ k'[t].event = Free /\ k'[t].state = "gone" /\ k'[t].sig # "offered" /\ k[t].state = "zombie"
      /\ \A u \in Threads : Alive(u)' <=> Alive(u)
      /\ initialStop' = initialStop /\ k[t].event = "exit"
  BY ReapedKeeps DEF Reap, Event
<1>4. CASE DOMAIN s.threads = {}
  <2> DEFINE none == << >>
             e == Ended(s)
  <2>1. d' = e /\ Controller("ended", Ctl) /\ CtlTyped(Ctl)
    BY <1>4 DEF ReapExit, CtlTyped, Ctl
  <2>2. phase' = "ended" /\ CtlTyped(ctl') /\ configured' = configured
    BY <2>1, Controls DEF Phases
  <2>3. none \in [DOMAIN none -> DThread] /\ none \in [DOMAIN none -> BOOLEAN] /\ DOMAIN none = {}
    OBVIOUS
  <2>4. e = [s EXCEPT !.threads = none, !.bps = none, !.sel = 0, !.cur = NativeThread]
    BY DEF Ended
  <2> HIDE DEF none, e, s
  <2>5. e = [rip |-> s.rip, text |-> s.text, threads |-> none, bps |-> none, sel |-> 0, cur |-> NativeThread]
    BY <1>2, <2>4 DEF Typed
  <2>6. Typed(d')
    BY <1>2, <2>1, <2>3, <2>5 DEF Typed, NativeThread, DThread, NoAddress, Free
  <2>7. \A u \in Threads : ~Alive(u)
    <3>1. SUFFICES ASSUME NEW u \in Threads, Alive(u)
                   PROVE  FALSE
      OBVIOUS
    <3>2. \A v : Known(v) => v = t
      BY <1>2, <1>4 DEF Forgets, Known
    <3>3. Active /\ phase # "newborn" /\ ~Alive(t)
      BY <1>3, <3>1 DEF Active, SomeAlive, Alive
    <3> QED
      BY <3>1, <3>2, <3>3, NewbornHasParent
  <2>8. TypeOK' /\ Kernel'
    BY <1>3, <2>2, <2>6, <2>7 DEF IInv, TypeOK, Kernel, Phases, Free
  <2> QED
    BY <1>3, <2>2, <2>7, <2>8, EndedHolds
<1>5. CASE DOMAIN s.threads # {}
  <2>1. d' = s /\ Controller(p, c) /\ p \in Phases
    BY <1>5 DEF ReapExit, Phases
  <2>2. phase' = p /\ CtlTyped(ctl') /\ configured' = configured /\ (p = "passing" => ctl' = c)
    BY <2>1, Controls
  <2> HIDE DEF s
  <2>3. /\ d'.rip = d.rip /\ d'.bps = d.bps /\ d'.text = d.text /\ d'.sel \in DOMAIN d'.threads
        /\ DOMAIN d'.threads = DOMAIN d.threads \ {t}
        /\ \A u \in DOMAIN d'.threads : d'.threads[u] = d.threads[u] /\ Belief(u)' = Belief(u)
    BY <1>2, <1>5, <2>1 DEF Forgets, Belief, Bel
  <2>4. TypeOK'
    BY <1>2, <1>3, <2>1, <2>2 DEF IInv, TypeOK
  <2>5. Kernel'
    <3>1. \A u \in Threads \ {t} : k'[u] = k[u] /\ (Alive(u)' <=> Alive(u)) /\ d'.rip[u] = d.rip[u] /\ d'.bps = d.bps
      BY <1>3, <2>3
    <3>2. ~Alive(t)'
      BY <1>3 DEF Alive
    <3> QED
      BY <1>3, <3>1, <3>2 DEF IInv, Kernel, Free
  <2>6. TextMatches' /\ Covered'
    BY <1>1, <2>2, <2>3 DEF TextMatches, Matches, Covered, Known
  <2>7. Flags' /\ Over'
    BY <2>2, <2>3 DEF IInv, Flags, Stage, Over
  <2>8. Active' => /\ Active
                   /\ phase' = phase \/ (phase = "over" /\ Program[ctl.address].op = "exit")
    <3>1. Active' => SomeAlive
      BY <1>3 DEF Active, SomeAlive
    <3>2. phase = "over" /\ SomeAlive => Program[ctl.address].op = "exit"
      BY <1>3 DEF IInv, Over, Alive
    <3> QED
      BY <2>2, <3>1, <3>2 DEF Active
  <2>9. \A u \in Threads : Held(u)' => Held(u) /\ u # t
    BY <2>2, <2>3 DEF Held, Known
  <2>10. Beliefs'
    BY <1>3, <2>3, <2>8, <2>9 DEF IInv, Beliefs, Settled, Held, Known
  <2>11. Newborns'
    <3>1. ASSUME Active', NEW u \in Threads, Alive(u)', ~Known(u)'
          PROVE  k'[u].state = "stopped" /\ k'[u].event = "stop" /\ \E v \in Threads : k'[v].event = "clone" /\ k'[v].born = u
      <4>1. Alive(u) /\ u # t /\ ~Known(u) /\ Active /\ phase # "newborn"
        BY <1>3, <2>3, <2>8, <3>1 DEF Known, Alive
      <4>2. PICK v \in Threads : k[v].event = "clone" /\ k[v].born = u
        BY <4>1, NewbornHasParent
      <4> QED
        BY <1>3, <4>1, <4>2, NewbornHasParent
    <3> QED
      BY <2>2, <3>1 DEF Newborns
  <2>12. Installed'
    <3>1. SUFFICES ASSUME Active', NEW a \in DOMAIN d'.bps, ~d'.bps[a], Program[a].op # "exit"
                   PROVE  /\ phase' # "waiting"
                          /\ IF phase' = "passing" THEN Standing(ctl.todo, a)' ELSE Standing(Threads, a)'
      BY <2>2, <2>8 DEF Installed, Stage
    <3>2. /\ phase # "waiting"
          /\ \E u \in Threads : /\ Held(u) /\ Belief(u).breakpoint = a
                                /\ phase = "over" /\ ctl.back = "passing" => u \in ctl.todo
      <4>1. a \in DOMAIN d.bps /\ ~d.bps[a] /\ Program[a].op # "exit" /\ Active
        BY <2>3, <2>8, <3>1
      <4>2. CASE phase = "over"
        <5>1. a # ctl.address
          BY <2>2, <2>8, <3>1, <4>1, <4>2
        <5>2. Standing(IF ctl.back = "passing" THEN ctl.todo ELSE Threads, a)
          BY <4>1, <4>2, <5>1 DEF IInv, Installed
        <5>3. ctl.todo \subseteq Threads
          BY DEF IInv, TypeOK, CtlTyped
        <5> QED
          BY <4>2, <5>2, <5>3 DEF Standing
      <4>3. CASE phase \in {"waiting", "stopping"}
        BY <4>1, <4>3 DEF IInv, Installed, Stage, Standing
      <4> QED
        BY <4>2, <4>3
    <3>3. PICK u \in Threads : /\ Held(u) /\ Belief(u).breakpoint = a
                               /\ phase = "over" /\ ctl.back = "passing" => u \in ctl.todo
      BY <3>2
    <3>4. u # t
      BY <1>3, <2>8, <3>1, <3>3 DEF IInv, Beliefs, Settled, Free
    <3>5. Held(u)' /\ Belief(u)' = Belief(u)
      BY <2>2, <2>3, <3>3, <3>4 DEF Held, Known
    <3> QED
      BY <2>2, <3>2, <3>3, <3>4, <3>5 DEF Standing
  <2>13. Synced'
    <3>1. phase = "over" => d'.cur = d'.threads[d'.sel]
      BY <1>2, <2>1, <2>3 DEF Forgets
    <3> QED
      BY <2>2, <3>1 DEF Synced, Stage
  <2> QED
    BY <2>4, <2>5, <2>6, <2>7, <2>10, <2>11, <2>12, <2>13 DEF IInv
<1> QED
  BY <1>4, <1>5

(* What the wait for thread t has changed in the kernel, but for stops requested since. *)
Waited(t) ==
    /\ k' \in [Threads -> KThread]
    /\ \A u \in Threads \ {t} : /\ k'[u].state = k[u].state /\ k'[u].event = k[u].event /\ k'[u].sig = k[u].sig
                                /\ k'[u].born = k[u].born /\ k'[u].single = k[u].single
    /\ k'[t].event = Free /\ k'[t].state = "stopped" /\ k'[t].sig = k[t].sig /\ k'[t].born = k[t].born
    /\ k[t].state = "stopped" /\ k[t].event \in StopEvents

(* Reaping a stop is such a wait.                                             *)
LEMMA ReapWaited ==
  ASSUME IInv, NEW t \in Threads, Reapable(t), k' = Reaped(t), Event(t) # "exit"
  PROVE  Waited(t)
  BY ReapedKeeps DEF Waited, Event

(* A stop that was waited for is recorded, and the controller knows what it should. *)
LEMMA Recorded ==
  ASSUME IInv, phase \notin {"launch", "error", "ended"}, NEW t \in Threads, Waited(t)
  PROVE  LET s == RecordThreadStop(d, t, Event(t))
         IN /\ Typed(s) /\ Matches(s) /\ Records(d, t, Event(t), s) /\ KernelOf(k', s) /\ Rests(k', s, t)
            /\ \A u \in Threads \ {t} : Active /\ Held(u) => Rests(k', s, u)
            /\ \A u \in Threads : Alive(u)' <=> Alive(u)
            /\ Active /\ Active' = (phase' \notin {"launch", "error", "ended"})
<1> DEFINE s == RecordThreadStop(d, t, Event(t))
           ev == Event(t)
<1>1. Typed(d) /\ Matches(d) /\ ev \in StopEvents /\ ev = k[t].event
  BY DEF IInv, TypeOK, TextMatches, Matches, Waited, Event
<1>2. Alive(t) /\ \A u \in Threads : Alive(u)' <=> Alive(u)
  BY DEF Waited, Alive
<1>3. IF ev = "int3" THEN d.rip[t] - 1 \in DOMAIN d.bps ELSE d.rip[t] \in DOMAIN Program
  BY <1>1, <1>2 DEF IInv, Kernel
<1> HIDE DEF ev
<1>4. /\ Typed(RecordThreadStop(d, t, ev)) /\ Records(d, t, ev, RecordThreadStop(d, t, ev))
      /\ Matches(d) => Matches(RecordThreadStop(d, t, ev))
  BY <1>1, <1>3, StopRecords
<1>5. Typed(s) /\ Matches(s) /\ Records(d, t, ev, s)
  BY <1>1, <1>4 DEF ev
<1> HIDE DEF s
<1>6. DOMAIN d.bps \subseteq DOMAIN Program /\ DOMAIN s.bps = DOMAIN d.bps
  BY <1>1, <1>5, DebuggerAssumption DEF Typed, Records, DebuggerAssumption
<1>7. s.rip[t] \in DOMAIN Program /\ (ev = "int3" => s.rip[t] \in DOMAIN s.bps)
  BY <1>3, <1>5, <1>6 DEF Records
<1>8. KernelOf(k', s)
  <2>1. ASSUME NEW u \in Threads
        PROVE  /\ k'[u].state = "zombie" <=> k'[u].event = "exit"
               /\ k'[u].state \in {"absent", "running", "gone"} => k'[u].event = Free
               /\ k'[u].sig = "offered" => k'[u].state = "stopped" /\ k'[u].event \in {Free, "signal"}
               /\ k'[u].event = "clone" => k'[u].born \in Threads
               /\ Lives(k', u) => IF k'[u].event = "int3" THEN s.rip[u] - 1 \in DOMAIN s.bps ELSE s.rip[u] \in DOMAIN Program
    <3>1. CASE u = t
      BY <1>7, <3>1 DEF Waited, Free
    <3>2. CASE u # t
      <4>1. /\ k'[u].state = k[u].state /\ k'[u].event = k[u].event /\ k'[u].sig = k[u].sig
            /\ k'[u].born = k[u].born /\ s.rip[u] = d.rip[u]
        BY <1>5, <3>2 DEF Waited, Records
      <4> QED
        BY <1>6, <4>1 DEF IInv, Kernel, Lives, Alive
    <3> QED
      BY <3>1, <3>2
  <2> QED
    BY <2>1 DEF KernelOf
<1>9. Rests(k', s, t)
  <2>1. k'[t].sig = "offered" => ev = "signal"
    BY <1>1 DEF Waited, IInv, Kernel, StopEvents, Free
  <2>2. Bel(s, t).instruction = s.rip[t] /\ (ev = "signal" => Bel(s, t).signal = "app")
    BY <1>5 DEF Records
  <2>3. Bel(s, t).breakpoint # NoAddress => Bel(s, t).breakpoint = s.rip[t] /\ s.rip[t] \in DOMAIN s.bps
    BY <1>5, <1>7 DEF Records
  <2> QED
    BY <2>1, <2>2, <2>3 DEF Rests, Waited, Free
<1>10. ASSUME Active, NEW u \in Threads \ {t}, Held(u)
       PROVE  Rests(k', s, u)
  <2>1. Settled(u) /\ u \in DOMAIN d.threads
    BY <1>10 DEF IInv, Beliefs, Held, Known
  <2>2. Bel(s, u) = Belief(u) /\ s.rip[u] = d.rip[u] /\ DOMAIN s.bps = DOMAIN d.bps
    BY <1>5, <1>6, <2>1 DEF Records, Bel, Belief
  <2>3. k'[u].state = k[u].state /\ k'[u].event = k[u].event /\ k'[u].sig = k[u].sig
    BY DEF Waited
  <2> QED
    BY <2>1, <2>2, <2>3 DEF Settled, Rests
<1>11. Active /\ Active' = (phase' \notin {"launch", "error", "ended"})
  BY <1>2 DEF Active, SomeAlive
<1> QED
  BY <1>2, <1>5, <1>8, <1>9, <1>10, <1>11 DEF s, ev

(* The stop of a clone is followed by the wait for its thread, unless that is known. *)
LEMMA AfterCloneWaits ==
  ASSUME IInv, phase \in {"over", "waiting", "stopping", "stepped"}, NEW t \in Threads, Waited(t),
         NEW p \in {"passing", "stepping", "resume", "stopping"}, NEW c, CtlTyped(c), AfterClone(t, p, c),
         DOMAIN d'.threads = DOMAIN d.threads \cup {t}
  PROVE  /\ Stage' = p /\ ctl'.todo = c.todo /\ phase' \in {p, "newborn"} /\ CtlTyped(ctl') /\ configured' = configured
         /\ Newborns'
<1>1. Alive(t) /\ Active /\ phase # "newborn" /\ t \notin {u \in Threads : Alive(u) /\ ~Known(u) /\ Event(t) = "clone"}
  <2>1. Alive(t) /\ Active /\ phase # "newborn"
    BY DEF Waited, Alive, Active, SomeAlive
  <2> QED
    BY <2>1, NewbornHasParent DEF Event
<1>2. ASSUME NEW u \in Threads, Alive(u)', ~Known(u)'
      PROVE  /\ k'[u].state = "stopped" /\ k'[u].event = "stop" /\ u # t /\ ~Known(u)
             /\ \/ \E v \in Threads : k'[v].event = "clone" /\ k'[v].born = u
                \/ Event(t) = "clone" /\ k'[t].born = u /\ k[t].born = u
  <2>1. u # t /\ ~Known(u) /\ Alive(u)
    BY <1>2 DEF Known, Alive, Waited
  <2>2. PICK v \in Threads : k[v].event = "clone" /\ k[v].born = u
    BY <1>1, <2>1, NewbornHasParent
  <2>3. k[u].event = "stop" /\ k[u].state = "stopped"
    BY <1>1, <2>1, NewbornHasParent
  <2> QED
    BY <2>1, <2>2, <2>3 DEF Waited, Event
<1>3. CASE Event(t) = "clone" /\ ~Known(k[t].born)
  <2> DEFINE n == [c EXCEPT !.parent = t, !.back = p]
  <2>1. Controller("newborn", n)
    BY <1>3 DEF AfterClone
  <2>2. n = [c EXCEPT !.parent = t, !.back = p]
    OBVIOUS
  <2> HIDE DEF n
  <2>3. n = [todo |-> c.todo, chosen |-> c.chosen, back |-> p, address |-> c.address, parent |-> t, mode |-> c.mode,
             base |-> c.base, moved |-> c.moved, first |-> c.first, target |-> c.target]
    BY <2>2 DEF CtlTyped
  <2>4. CtlTyped(n) /\ n.todo = c.todo /\ n.back = p /\ n.parent = t
    BY <2>3 DEF CtlTyped
  <2>5. phase' = "newborn" /\ CtlTyped(ctl') /\ configured' = configured /\ ctl' = n
    BY <2>1, <2>4, Controls DEF Phases
  <2>6. k[t].born \in Threads /\ k'[t].born = k[t].born /\ k'[t].state # "running"
    BY <1>3 DEF IInv, Kernel, Event, Waited
  <2>7. k[t].born # t
    BY <1>1, <1>3
  <2>8. ~Known(k[t].born)'
    BY <1>3, <2>6, <2>7 DEF Known
  <2>9. Newborns'
    BY <1>2, <2>4, <2>5, <2>6, <2>8 DEF Newborns, Known
  <2> QED
    BY <2>4, <2>5, <2>9 DEF Stage
<1>4. CASE ~(Event(t) = "clone" /\ ~Known(k[t].born))
  <2>1. Controller(p, c) /\ p \in Phases
    BY <1>4 DEF AfterClone, Phases
  <2>2. phase' = p /\ CtlTyped(ctl') /\ configured' = configured /\ ctl' = c
    BY <2>1, Controls
  <2>3. Newborns'
    BY <1>2, <1>4, <2>2 DEF Newborns
  <2> QED
    BY <2>2, <2>3 DEF Stage
<1> QED
  BY <1>3, <1>4

(* A stop that is recorded while the controller looks at any thread. *)
LEMMA StopHolds ==
  ASSUME IInv, phase \notin {"launch", "over", "stepped", "error", "ended"}, NEW t \in Threads, Waited(t),
         d' = RecordThreadStop(d, t, Event(t)), phase' \in Phases \ {"launch", "over", "stepped", "error", "ended"},
         CtlTyped(ctl'), configured' = configured, initialStop' = initialStop,
         Flags', Newborns', Installed', Synced'
  PROVE  IInv'
<1>1. /\ Typed(d') /\ Matches(d') /\ Records(d, t, Event(t), d') /\ KernelOf(k', d') /\ Rests(k', d', t)
      /\ \A u \in Threads \ {t} : Active /\ Held(u) => Rests(k', d', u)
      /\ Active
  BY Recorded
<1>2. TypeOK' /\ TextMatches' /\ Over'
  BY <1>1 DEF IInv, TypeOK, TextMatches, Matches, Over, Waited
<1>3. Kernel'
  BY <1>1 DEF Kernel, KernelOf, Alive, Lives
<1>4. Covered'
  BY <1>1 DEF IInv, Covered, Records, Known
<1>5. Beliefs'
  <2>1. SUFFICES ASSUME NEW u \in Threads, Held(u)'
                 PROVE  Settled(u)'
    BY DEF Beliefs
  <2>2. CASE u = t
    BY <1>1, <2>2 DEF Rests, Settled, Bel, Belief
  <2>3. CASE u # t
    <3>1. Held(u)
      BY <1>1, <2>1, <2>3 DEF Held, Known, Records
    <3> QED
      BY <1>1, <2>3, <3>1 DEF Rests, Settled, Bel, Belief
  <2> QED
    BY <2>2, <2>3
<1> QED
  BY <1>2, <1>3, <1>4, <1>5 DEF IInv

(* The stops that end the wait, or go on with it.                             *)
LEMMA WaitCloneKeeps ==
  ASSUME IInv, WaitClone
  PROVE  IInv'
<1>1. PICK t \in DOMAIN d.threads : /\ Event(t) = "clone" /\ Reap(t) /\ d' = RecordThreadStop(d, t, "clone")
                                    /\ AfterClone(t, "resume", ctl)
  BY DEF WaitClone
<1>2. phase = "waiting" /\ t \in Threads /\ CtlTyped(ctl) /\ initialStop' = initialStop
  BY <1>1 DEF WaitClone, IInv, TypeOK, Typed, Reap
<1>3. Waited(t)
  BY <1>1, <1>2, ReapWaited DEF Reap
<1>4. Typed(d') /\ Records(d, t, Event(t), d') /\ Active
  BY <1>1, <1>2, <1>3, Recorded
<1>5. Stage' = "resume" /\ phase' \in {"resume", "newborn"} /\ CtlTyped(ctl') /\ configured' = configured /\ Newborns'
  BY <1>1, <1>2, <1>3, <1>4, AfterCloneWaits DEF Records
<1>6. Flags'
  BY <1>5 DEF Flags
<1>7. Installed'
  BY <1>1, <1>2, <1>4, <1>5 DEF IInv, Installed, Stage, Records
<1>8. Synced'
  <2>1. d'.sel = d.sel /\ d.sel \in DOMAIN d.threads /\ \A u \in DOMAIN d.threads : ~d.threads[u].stopped
    BY <1>2, <1>4 DEF Records, IInv, Covered, Known, Flags
  <2>2. d'.threads[d'.sel].stopped => d'.sel = t
    BY <1>4, <2>1 DEF Records
  <2>3. d'.sel = t => d'.cur = d'.threads[d'.sel]
    BY <1>4 DEF Records, Bel
  <2> QED
    BY <2>2, <2>3 DEF Synced
<1> QED
  BY <1>1, <1>2, <1>3, <1>5, <1>6, <1>7, <1>8, StopHolds DEF Phases

LEMMA WaitStopKeeps ==
  ASSUME IInv, WaitStop
  PROVE  IInv'
<1>1. PICK t \in DOMAIN d.threads :
        /\ Event(t) \notin {Free, "exit", "clone"} /\ Reapable(t)
        /\ k' = InterruptRunning(Reaped(t), RecordThreadStop(d, t, Event(t)))
        /\ d' = RecordThreadStop(d, t, Event(t))
        /\ Controller("stopping", [ctl EXCEPT !.chosen = t])
  BY DEF WaitStop
<1>2. phase = "waiting" /\ t \in Threads /\ CtlTyped(ctl) /\ initialStop' = initialStop
  BY <1>1 DEF WaitStop, IInv, TypeOK, Typed
<1>3. Waited(t)
  <2> DEFINE kk == Reaped(t)
  <2>1. /\ kk \in [Threads -> KThread] /\ \A u \in Threads \ {t} : kk[u] = k[u]
        /\ kk[t].event = Free /\ kk[t].sig = k[t].sig /\ kk[t].born = k[t].born /\ kk[t].state = "stopped"
        /\ k[t].state = "stopped" /\ k[t].event \in StopEvents
    <3>1. k[t] \in KThread /\ k[t].event \in StopEvents /\ k[t].state = "stopped"
      BY <1>1, <1>2 DEF IInv, TypeOK, Kernel, KThread, Event, Free
    <3>2. Reported(k[t]) = [k[t] EXCEPT !.event = Free, !.state = k[t].state]
      BY <1>1 DEF Reported, Event
    <3>3. Reported(k[t]) \in KThread /\ Reported(k[t]).event = Free /\ Reported(k[t]).sig = k[t].sig
          /\ Reported(k[t]).born = k[t].born /\ Reported(k[t]).state = "stopped"
      BY <3>1, <3>2 DEF KThread
    <3> QED
      BY <1>2, <3>1, <3>3 DEF Reaped, IInv, TypeOK
  <2> HIDE DEF kk
  <2>2. k' = InterruptRunning(kk, d')
    BY <1>1 DEF kk
  <2>3. \A u \in Threads : /\ k'[u] \in KThread /\ k'[u].state = kk[u].state /\ k'[u].event = kk[u].event
                           /\ k'[u].sig = kk[u].sig /\ k'[u].born = kk[u].born /\ k'[u].single = kk[u].single
    <3> SUFFICES ASSUME NEW u \in Threads
                 PROVE  /\ k'[u] \in KThread /\ k'[u].state = kk[u].state /\ k'[u].event = kk[u].event
                        /\ k'[u].sig = kk[u].sig /\ k'[u].born = kk[u].born /\ k'[u].single = kk[u].single
      OBVIOUS
    <3>1. k'[u] = kk[u] \/ k'[u] = [kk[u] EXCEPT !.interrupt = TRUE]
      BY <2>2 DEF InterruptRunning
    <3>2. kk[u] \in KThread
      BY <2>1
    <3> QED
      BY <3>1, <3>2 DEF KThread
  <2>4. k' \in [Threads -> KThread]
    BY <2>2, <2>3 DEF InterruptRunning
  <2> QED
    BY <1>2, <2>1, <2>3, <2>4 DEF Waited
<1>4. /\ Typed(d') /\ Records(d, t, Event(t), d') /\ Active /\ Rests(k', d', t)
      /\ \A u \in Threads : Alive(u)' <=> Alive(u)
  BY <1>1, <1>2, <1>3, Recorded
<1> DEFINE c == [ctl EXCEPT !.chosen = t]
<1>5. CtlTyped(c)
  BY <1>2 DEF CtlTyped
<1>6. phase' = "stopping" /\ CtlTyped(ctl') /\ configured' = configured
  BY <1>1, <1>5, Controls DEF Phases
<1>7. Flags'
  BY <1>6 DEF Flags, Stage
<1>8. Newborns'
  <2>1. ASSUME NEW u \in Threads, Alive(u)', ~Known(u)'
        PROVE  /\ k'[u].state = "stopped" /\ k'[u].event = "stop"
               /\ \E v \in Threads : k'[v].event = "clone" /\ k'[v].born = u
    <3>1. u # t /\ ~Known(u) /\ Alive(u)
      BY <1>4, <2>1 DEF Known, Records
    <3>2. k[u].event = "stop" /\ k[u].state = "stopped"
      BY <1>2, <1>4, <3>1, NewbornHasParent
    <3>3. PICK v \in Threads : k[v].event = "clone" /\ k[v].born = u
      BY <1>2, <1>4, <3>1, NewbornHasParent
    <3>4. v # t
      BY <1>1, <3>3 DEF Event
    <3> QED
      BY <1>3, <3>1, <3>2, <3>3, <3>4 DEF Waited
  <2> QED
    BY <1>6, <2>1 DEF Newborns
<1>9. Installed'
  <2>1. SUFFICES ASSUME NEW a \in DOMAIN d'.bps, ~d'.bps[a], Program[a].op # "exit"
                 PROVE  Standing(Threads, a)'
    BY <1>6 DEF Installed, Stage
  <2>2. \A b \in DOMAIN d.bps : d.bps[b] \/ Program[b].op = "exit"
    BY <1>2, <1>4 DEF IInv, Installed, Stage
  <2>3. Bel(d', t).breakpoint = a
    BY <1>4, <2>1, <2>2 DEF Records, IInv, TypeOK, Typed
  <2>4. Held(t)'
    BY <1>4, <1>6 DEF Held, Known, Records
  <2> QED
    BY <1>2, <2>3, <2>4 DEF Standing, Belief, Bel
<1>10. Synced'
  BY <1>6 DEF Synced, Stage
<1> QED
  BY <1>1, <1>2, <1>3, <1>6, <1>7, <1>8, <1>9, <1>10, StopHolds DEF Phases

LEMMA StopOtherThreadKeeps ==
  ASSUME IInv, StopOtherThread
  PROVE  IInv'
<1>1. PICK t \in Threads :
        /\ Event(t) # Free /\ Reap(t)
        /\ IF Event(t) = "exit" THEN ReapExit(t, "stopping", ctl)
           ELSE d' = RecordThreadStop(d, t, Event(t)) /\ AfterClone(t, "stopping", ctl)
  BY DEF StopOtherThread
<1>2. phase = "stopping" /\ CtlTyped(ctl) /\ initialStop' = initialStop
  BY <1>1 DEF StopOtherThread, IInv, TypeOK, Reap
<1>3. CASE Event(t) = "exit"
  BY <1>1, <1>2, <1>3, ReapExitKeeps
<1>4. CASE Event(t) # "exit"
  <2>1. Waited(t)
    BY <1>1, <1>4, ReapWaited DEF Reap
  <2>2. /\ Typed(d') /\ Records(d, t, Event(t), d') /\ Active
    BY <1>1, <1>2, <1>4, <2>1, Recorded
  <2>3. Stage' = "stopping" /\ phase' \in {"stopping", "newborn"} /\ CtlTyped(ctl') /\ configured' = configured /\ Newborns'
    BY <1>1, <1>2, <1>4, <2>1, <2>2, AfterCloneWaits DEF Records
  <2>4. Flags' /\ Synced'
    BY <2>3 DEF Flags, Synced
  <2>5. Installed'
    <3>1. SUFFICES ASSUME NEW a \in DOMAIN d'.bps, ~d'.bps[a], Program[a].op # "exit"
                   PROVE  Standing(Threads, a)'
      BY <2>3 DEF Installed
    <3>2. CASE d.bps[a]
      <4>1. Bel(d', t).breakpoint = a
        BY <2>2, <3>1, <3>2 DEF Records, IInv, TypeOK, Typed
      <4>2. Held(t)'
        BY <2>2, <2>3 DEF Held, Known, Records
      <4> QED
        BY <4>1, <4>2 DEF Standing, Belief, Bel
    <3>3. CASE ~d.bps[a]
      <4>1. a \in DOMAIN d.bps
        BY <2>2, <3>1 DEF Records
      <4>2. PICK u \in Threads : Held(u) /\ Belief(u).breakpoint = a
        BY <1>2, <2>2, <3>1, <3>3, <4>1 DEF IInv, Installed, Standing, Stage
      <4>3. u # t /\ u \in DOMAIN d.threads
        BY <1>1, <2>2, <4>2 DEF IInv, Beliefs, Settled, Event, Held, Known
      <4>4. Held(u)' /\ Belief(u)' = Belief(u)
        BY <2>2, <2>3, <4>2, <4>3 DEF Records, Held, Known, Belief, Bel
      <4> QED
        BY <4>2, <4>4 DEF Standing
    <3> QED
      BY <3>2, <3>3
  <2> QED
    BY <1>1, <1>2, <1>4, <2>1, <2>3, <2>4, <2>5, StopHolds DEF Phases
<1> QED
  BY <1>3, <1>4

(* An exit while the controller waits.                                        *)
LEMMA WaitExitKeeps ==
  ASSUME IInv, WaitExit
  PROVE  IInv'
<1>1. PICK t \in Threads : Event(t) = "exit" /\ Reap(t) /\ ReapExit(t, "waiting", ctl)
  BY DEF WaitExit
<1>2. phase = "waiting" /\ CtlTyped(ctl)
  BY DEF WaitExit, IInv, TypeOK
<1> QED
  BY <1>1, <1>2, ReapExitKeeps

(* The first stop of a thread whose clone was reported. *)
LEMMA AwaitNewbornKeeps ==
  ASSUME IInv, AwaitNewborn
  PROVE  IInv'
<1> DEFINE t == k[ctl.parent].born
<1>1. /\ phase = "newborn" /\ t \in Threads /\ ~Known(t) /\ ctl.back \in {"passing", "stepping", "resume", "stopping"}
      /\ CtlTyped(ctl) /\ Typed(d) /\ Matches(d) /\ Known(d.sel)
  BY DEF AwaitNewborn, IInv, Newborns, TypeOK, TextMatches, Matches, Covered
<1>2. \/ /\ Reap(t)
         /\ d' = IF Event(t) = "exit" THEN d ELSE RecordThreadStop(d, t, Event(t))
         /\ Controller(ctl.back, ctl)
      \/ /\ d' = d /\ Quiet /\ UNCHANGED initialStop
         /\ Controller("error", Ctl)
  BY DEF AwaitNewborn
<1> HIDE DEF t
<1>3. ASSUME Active, NEW u \in Threads, Alive(u), ~Known(u)
      PROVE  /\ k[u].event = "stop" /\ k[u].state = "stopped"
             /\ u # t => \E v \in Threads : k[v].event = "clone" /\ k[v].born = u
  BY <1>1, <1>3 DEF IInv, Newborns, t
<1>4. CASE Quiet /\ d' = d /\ UNCHANGED initialStop /\ Controller("error", Ctl)
  <2>1. phase' = "error" /\ CtlTyped(ctl') /\ configured' = configured
    BY <1>4, Controls DEF Phases, CtlTyped, Ctl
  <2>2. TypeOK' /\ Kernel'
    BY <1>4, <2>1 DEF IInv, TypeOK, Kernel, Quiet, Phases, Alive
  <2> QED
    BY <1>1, <1>4, <2>1, <2>2, ErrorHolds DEF Matches
<1>5. CASE Reap(t) /\ Event(t) = "exit" /\ d' = d /\ Controller(ctl.back, ctl)
  <2>1. /\ phase' = ctl.back /\ CtlTyped(ctl') /\ ctl' = ctl /\ configured' = configured
        /\ initialStop' = initialStop
    BY <1>1, <1>5, Controls DEF Phases, Reap
  <2>2. /\ k' \in [Threads -> KThread] /\ \A u \in Threads \ {t} : k'[u] = k[u]
        /\ k'[t].event = Free /\ k'[t].state = "gone" /\ k'[t].sig # "offered"
        /\ \A u \in Threads : Alive(u)' <=> Alive(u)
    BY <1>1, <1>5, ReapedKeeps DEF Reap, Event
  <2>3. /\ Stage' = Stage /\ (Active' <=> Active)
        /\ \A u : (Held(u)' <=> Held(u)) /\ Belief(u)' = Belief(u)
    <3>1. Stage' = Stage /\ (Active' <=> Active)
      BY <1>1, <2>1, <2>2 DEF Stage, Active, SomeAlive
    <3>2. \A u : (Held(u)' <=> Held(u)) /\ Belief(u)' = Belief(u)
      BY <1>1, <1>5, <2>1 DEF Held, Known, Belief
    <3> QED
      BY <3>1, <3>2
  <2>4. TypeOK' /\ TextMatches' /\ Covered' /\ Over'
    BY <1>1, <1>5, <2>1, <2>2 DEF IInv, TypeOK, TextMatches, Covered, Known, Over, Phases
  <2>5. Kernel'
    <3>1. \A u \in Threads \ {t} : k'[u] = k[u] /\ (Alive(u)' <=> Alive(u)) /\ d' = d
      BY <1>5, <2>2
    <3>2. \A u \in Threads : u = t => ~Alive(u)'
      BY <2>2 DEF Alive
    <3> QED
      BY <2>2, <3>1, <3>2 DEF IInv, Kernel, Free
  <2>6. Beliefs'
    BY <1>1, <1>5, <2>2, <2>3 DEF IInv, Beliefs, Settled, Held
  <2>7. Flags' /\ Installed' /\ Synced'
    BY <1>1, <1>5, <2>1, <2>3 DEF IInv, Flags, Stage, Installed, Standing, Synced
  <2>8. Newborns'
    <3>1. ASSUME Active', NEW u \in Threads, Alive(u)', ~Known(u)'
          PROVE  k'[u].state = "stopped" /\ k'[u].event = "stop" /\ \E v \in Threads : k'[v].event = "clone" /\ k'[v].born = u
      <4>1. u # t /\ Alive(u) /\ ~Known(u) /\ Active
        BY <1>5, <2>2, <2>3, <3>1 DEF Known, Alive
      <4>2. PICK v \in Threads : k[v].event = "clone" /\ k[v].born = u
        BY <1>3, <4>1
      <4> QED
        BY <1>3, <1>5, <2>2, <4>1, <4>2 DEF Event
    <3> QED
      BY <1>1, <2>1, <3>1 DEF Newborns
  <2> QED
    BY <2>4, <2>5, <2>6, <2>7, <2>8 DEF IInv
<1>6. CASE Reap(t) /\ Event(t) # "exit" /\ d' = RecordThreadStop(d, t, Event(t)) /\ Controller(ctl.back, ctl)
  <2>1. /\ phase' = ctl.back /\ CtlTyped(ctl') /\ ctl' = ctl /\ configured' = configured
        /\ initialStop' = initialStop
    BY <1>1, <1>6, Controls DEF Phases, Reap
  <2>2. Waited(t)
    BY <1>1, <1>6, ReapWaited DEF Reap
  <2>3. /\ Typed(d') /\ Records(d, t, Event(t), d') /\ Active
        /\ \A u \in Threads : Alive(u)' <=> Alive(u)
    BY <1>1, <1>6, <2>2, Recorded
  <2>4. Event(t) = "stop"
    BY <1>1, <1>3, <2>2, <2>3 DEF Event, Waited, Alive
  <2>5. /\ d'.bps = d.bps /\ d'.sel = d.sel /\ d.sel # t /\ d.sel \in DOMAIN d.threads /\ t \notin DOMAIN d.threads
        /\ d'.threads[d.sel] = d.threads[d.sel] /\ d'.cur = d.cur
    BY <1>1, <2>3, <2>4 DEF Records, Known, Bel
  <2>6. Stage' = Stage
    BY <1>1, <2>1 DEF Stage
  <2>7. Flags'
    <3>1. \A u \in DOMAIN d'.threads : u = t \/ (u \in DOMAIN d.threads /\ d'.threads[u] = d.threads[u])
      BY <2>3 DEF Records
    <3>2. d'.threads[t].stopped
      BY <2>3 DEF Records
    <3> QED
      BY <1>1, <2>1, <2>6, <3>1, <3>2 DEF IInv, Flags
  <2>8. Newborns'
    <3>1. ASSUME NEW u \in Threads, Alive(u)', ~Known(u)'
          PROVE  k'[u].state = "stopped" /\ k'[u].event = "stop" /\ \E v \in Threads : k'[v].event = "clone" /\ k'[v].born = u
      <4>1. u # t /\ Alive(u) /\ ~Known(u)
        BY <2>3, <3>1 DEF Known, Records
      <4>2. PICK v \in Threads : k[v].event = "clone" /\ k[v].born = u
        BY <1>3, <2>3, <4>1
      <4>3. v # t
        BY <2>4, <4>2 DEF Event
      <4> QED
        BY <1>3, <2>2, <2>3, <4>1, <4>2, <4>3 DEF Waited
    <3> QED
      BY <1>1, <2>1, <3>1 DEF Newborns
  <2>9. Installed'
    <3>1. \A S, a : Standing(S, a) => Standing(S, a)'
      <4>1. ASSUME NEW u, Held(u)
            PROVE  Held(u)' /\ Belief(u)' = Belief(u)
        <5>1. u \in DOMAIN d.threads /\ u # t /\ d'.threads[u] = d.threads[u] /\ Bel(d', u) = Bel(d, u) /\ u \in DOMAIN d'.threads
          BY <2>3, <2>5, <4>1 DEF Held, Known, Records
        <5> QED
          BY <1>1, <2>1, <4>1, <5>1 DEF Held, Known, Belief, Bel
      <4> QED
        BY <4>1 DEF Standing
    <3> QED
      BY <1>1, <2>1, <2>3, <2>5, <2>6, <3>1 DEF IInv, Installed
  <2>10. Synced'
    BY <1>1, <2>1, <2>5, <2>6 DEF IInv, Synced
  <2> QED
    BY <1>1, <1>6, <2>1, <2>2, <2>7, <2>8, <2>9, <2>10, StopHolds DEF Phases
<1> QED
  BY <1>2, <1>4, <1>5, <1>6

(* A new thread whose clone is not reported yet goes on at once. *)
LEMMA WaitNewbornKeeps ==
  ASSUME IInv, WaitNewborn
  PROVE  IInv'
<1>1. PICK t \in Threads : /\ Event(t) \notin {Free, "exit"} /\ ~Known(t)
                           /\ k' = [k EXCEPT ![t] = Resumed(Reported(k[t]), FALSE)]
                           /\ d' = [RecordThreadStop(d, t, Event(t)) EXCEPT
                                        !.threads[t] = [@ EXCEPT !.stopped = FALSE, !.signal = Free]]
  BY DEF WaitNewborn
<1>2. /\ phase = "waiting" /\ Controller("waiting", ctl) /\ initialStop' = initialStop
      /\ CtlTyped(ctl) /\ Typed(d) /\ Matches(d) /\ Known(d.sel)
  BY DEF WaitNewborn, IInv, TypeOK, TextMatches, Matches, Covered
<1>3. phase' = "waiting" /\ CtlTyped(ctl') /\ configured' = configured
  BY <1>2, Controls DEF Phases
<1>4. Alive(t) /\ Active /\ k[t].event = "stop" /\ k[t].state = "stopped" /\ k[t] \in KThread /\ d.rip[t] \in DOMAIN Program
  <2>1. Alive(t) /\ k[t] \in KThread
    BY <1>1 DEF IInv, TypeOK, Kernel, KThread, Event, Free, Alive
  <2>2. Active
    BY <1>2, <2>1 DEF Active, SomeAlive
  <2>3. k[t].event = "stop" /\ k[t].state = "stopped"
    BY <1>1, <1>2, <2>1, <2>2, NewbornHasParent
  <2> QED
    BY <2>1, <2>2, <2>3 DEF IInv, Kernel
<1> DEFINE r == Reported(k[t])
           q == Resumed(r, FALSE)
           s == RecordThreadStop(d, t, "stop")
           th == [s.threads[t] EXCEPT !.stopped = FALSE, !.signal = Free]
           threads == [s.threads EXCEPT ![t] = th]
<1>5. q \in KThread /\ q.state = "running" /\ q.event = Free /\ q.sig # "offered"
  <2>1. r = [k[t] EXCEPT !.event = Free, !.state = k[t].state]
    BY <1>4 DEF Reported
  <2> HIDE DEF r
  <2>2. r \in KThread /\ r.event = Free
    BY <1>4, <2>1 DEF KThread
  <2> QED
    BY <2>2, ResumedKeeps
<1>6. /\ Typed(s) /\ Records(d, t, "stop", s) /\ Matches(s)
  BY <1>2, StopRecords DEF StopEvents
<1>7. k' = [k EXCEPT ![t] = q] /\ d' = [s EXCEPT !.threads = threads]
  BY <1>1, <1>4 DEF Event
<1> HIDE DEF r, q, s
<1>8. k' \in [Threads -> KThread] /\ k'[t] = q /\ \A u \in Threads \ {t} : k'[u] = k[u]
  BY <1>5, <1>7 DEF IInv, TypeOK
<1>9. th \in DThread /\ ~th.stopped
  <2>1. s.threads[t] \in DThread
    BY <1>6 DEF Records, Typed
  <2> QED
    BY <2>1 DEF DThread
<1> HIDE DEF th
<1>10. /\ threads \in [DOMAIN threads -> DThread] /\ DOMAIN threads = DOMAIN s.threads /\ threads[t] = th
       /\ \A u \in DOMAIN s.threads \ {t} : threads[u] = s.threads[u]
  BY <1>6, <1>9 DEF Records, Typed
<1> HIDE DEF threads
<1>11. d' = [rip |-> s.rip, text |-> s.text, threads |-> threads, bps |-> s.bps, sel |-> s.sel, cur |-> s.cur]
  BY <1>6, <1>7 DEF Typed
<1>12. Typed(d') /\ Matches(d')
  BY <1>6, <1>10, <1>11 DEF Typed, Matches
<1>13. /\ d'.rip = d.rip /\ d'.bps = d.bps /\ d'.sel = d.sel /\ DOMAIN d'.threads = DOMAIN d.threads \cup {t}
       /\ \A u \in DOMAIN d.threads : d'.threads[u] = d.threads[u]
       /\ ~d'.threads[t].stopped
  BY <1>1, <1>6, <1>9, <1>10, <1>11 DEF Records, Known
<1>14. \A u \in Threads : Alive(u)' <=> Alive(u)
  BY <1>4, <1>5, <1>8 DEF Alive
<1>15. TypeOK' /\ TextMatches' /\ Over' /\ Synced'
  BY <1>2, <1>3, <1>8, <1>12 DEF IInv, TypeOK, TextMatches, Matches, Over, Synced, Stage
<1>16. Kernel'
  <2>1. \A u \in Threads \ {t} : k'[u] = k[u] /\ (Alive(u)' <=> Alive(u)) /\ d'.rip[u] = d.rip[u] /\ d'.bps = d.bps
    BY <1>8, <1>13, <1>14
  <2>2. d'.rip[t] \in DOMAIN Program
    BY <1>4, <1>13
  <2> QED
    BY <1>5, <1>8, <2>1, <2>2 DEF IInv, Kernel, Free
<1>17. Covered' /\ Flags'
  BY <1>2, <1>3, <1>13 DEF IInv, Covered, Known, Flags, Stage
<1>18. Beliefs'
  BY <1>3, <1>17 DEF Beliefs, Flags, Held, Known
<1>19. Newborns'
  <2>1. ASSUME NEW u \in Threads, Alive(u)', ~Known(u)'
        PROVE  k'[u].state = "stopped" /\ k'[u].event = "stop" /\ \E v \in Threads : k'[v].event = "clone" /\ k'[v].born = u
    <3>1. u # t /\ Alive(u) /\ ~Known(u)
      BY <1>13, <1>14, <2>1 DEF Known
    <3>2. k[u].event = "stop" /\ k[u].state = "stopped"
      BY <1>2, <1>4, <3>1, NewbornHasParent
    <3>3. PICK v \in Threads : k[v].event = "clone" /\ k[v].born = u
      BY <1>2, <1>4, <3>1, NewbornHasParent
    <3> QED
      BY <1>4, <1>8, <3>1, <3>2, <3>3
  <2> QED
    BY <1>3, <2>1 DEF Newborns
<1>20. Installed'
  BY <1>2, <1>3, <1>4, <1>13 DEF IInv, Installed, Stage
<1> QED
  BY <1>15, <1>16, <1>17, <1>18, <1>19, <1>20 DEF IInv

(* Every stopped thread goes on, or one of them is no longer there. *)
LEMMA ResumeThreadsKeeps ==
  ASSUME IInv, ResumeThreads
  PROVE  IInv'
<1> DEFINE stopped == {t \in DOMAIN d.threads : d.threads[t].stopped}
           Freed(t) == [d.threads[t] EXCEPT !.stopped = FALSE, !.signal = Free]
           threads == [t \in DOMAIN d.threads |-> IF t \in stopped THEN Freed(t) ELSE d.threads[t]]
<1>1. /\ phase = "resume" /\ initialStop' = initialStop /\ CtlTyped(ctl) /\ Typed(d) /\ Matches(d) /\ Known(d.sel)
      /\ stopped \subseteq Threads
  BY DEF ResumeThreads, IInv, TypeOK, TextMatches, Matches, Covered, Typed
<1>2. CASE ~(\A t \in stopped : Alive(t))
  <2>1. d' = d /\ Controller("error", Ctl) /\ k' = k
    BY <1>2 DEF ResumeThreads, Quiet
  <2>2. phase' = "error" /\ CtlTyped(ctl') /\ configured' = configured
    BY <2>1, Controls DEF Phases, CtlTyped, Ctl
  <2>3. TypeOK' /\ Kernel'
    BY <1>1, <2>1, <2>2 DEF IInv, TypeOK, Kernel, Phases, Alive
  <2> QED
    BY <1>1, <2>1, <2>2, <2>3, ErrorHolds DEF Matches
<1>3. CASE \A t \in stopped : Alive(t)
  <2>1. /\ k' = [t \in Threads |-> IF t \in stopped THEN Resumed(k[t], FALSE) ELSE k[t]]
        /\ d' = [d EXCEPT !.threads = threads] /\ Controller("waiting", ctl)
    BY <1>3 DEF ResumeThreads, IInv, TypeOK
  <2>2. phase' = "waiting" /\ CtlTyped(ctl') /\ configured' = configured
    BY <1>1, <2>1, Controls DEF Phases
  <2>3. \A t \in stopped : k[t] \in KThread /\ k[t].event = Free /\ k[t].state = "stopped"
    BY <1>1, <1>3 DEF IInv, TypeOK, Beliefs, Active, SomeAlive, Held, Known, Settled
  <2>4. \A t \in stopped : LET q == Resumed(k[t], FALSE)
                           IN q \in KThread /\ q.state = "running" /\ q.event = Free /\ q.sig # "offered"
    BY <2>3, ResumedKeeps
  <2>5. /\ \A t \in stopped : k'[t] \in KThread /\ k'[t].state = "running" /\ k'[t].event = Free /\ k'[t].sig # "offered"
        /\ \A t \in Threads \ stopped : k'[t] = k[t]
        /\ k' \in [Threads -> KThread]
    BY <1>1, <2>1, <2>4 DEF IInv, TypeOK
  <2>6. \A t \in DOMAIN d.threads : threads[t] \in DThread /\ ~threads[t].stopped
    <3>1. \A t \in DOMAIN d.threads : d.threads[t] \in DThread
      BY <1>1 DEF Typed
    <3>2. ASSUME NEW t \in DOMAIN d.threads
          PROVE  Freed(t) \in DThread /\ ~Freed(t).stopped
      <4> DEFINE f == Freed(t)
      <4>1. f = [d.threads[t] EXCEPT !.stopped = FALSE, !.signal = Free]
        OBVIOUS
      <4> HIDE DEF f
      <4>2. f = [stopped |-> FALSE, signal |-> Free, instruction |-> d.threads[t].instruction, breakpoint |-> d.threads[t].breakpoint]
        BY <3>1, <4>1 DEF DThread
      <4> QED
        BY <3>1, <4>2 DEF DThread, f
    <3> HIDE DEF Freed
    <3> QED
      BY <3>1, <3>2
  <2>7. DOMAIN threads = DOMAIN d.threads /\ threads \in [DOMAIN threads -> DThread]
    BY <2>6
  <2> HIDE DEF threads
  <2>8. d' = [rip |-> d.rip, text |-> d.text, threads |-> threads, bps |-> d.bps, sel |-> d.sel, cur |-> d.cur]
    BY <1>1, <2>1 DEF Typed
  <2>9. Typed(d') /\ Matches(d')
    BY <1>1, <2>6, <2>7, <2>8 DEF Typed, Matches
  <2>10. \A u \in Threads : Alive(u)' <=> Alive(u)
    BY <1>3, <2>5 DEF Alive
  <2> HIDE DEF stopped
  <2>11. TypeOK' /\ TextMatches' /\ Over' /\ Synced'
    <3>1. TypeOK'
      BY <1>1, <2>1, <2>2, <2>5, <2>9 DEF IInv, TypeOK, Phases
    <3> QED
      BY <2>2, <2>9, <3>1 DEF TextMatches, Matches, Over, Synced, Stage
  <2>12. Kernel'
    <3>1. ASSUME NEW u \in Threads
          PROVE  /\ k'[u].state = "zombie" <=> k'[u].event = "exit"
                 /\ k'[u].state \in {"absent", "running", "gone"} => k'[u].event = Free
                 /\ k'[u].sig = "offered" => k'[u].state = "stopped" /\ k'[u].event \in {Free, "signal"}
                 /\ k'[u].event = "clone" => k'[u].born \in Threads
                 /\ Alive(u)' => IF k'[u].event = "int3" THEN d'.rip[u] - 1 \in DOMAIN d'.bps ELSE d'.rip[u] \in DOMAIN Program
      <4>1. CASE u \in stopped
        <5>1. d'.rip[u] \in DOMAIN Program
          BY <1>3, <2>3, <2>8, <4>1 DEF IInv, Kernel, Free
        <5> QED
          BY <2>5, <4>1, <5>1 DEF Free
      <4>2. CASE u \notin stopped
        <5>1. k'[u] = k[u] /\ (Alive(u)' <=> Alive(u)) /\ d'.rip[u] = d.rip[u] /\ d'.bps = d.bps
          BY <2>5, <2>8, <2>10, <4>2
        <5> QED
          BY <5>1 DEF IInv, Kernel
      <4> QED
        BY <4>1, <4>2
    <3> QED
      BY <3>1 DEF Kernel
  <2>13. Covered' /\ Flags'
    BY <1>1, <2>2, <2>6, <2>7, <2>8 DEF IInv, Covered, Known, Flags, Stage
  <2>14. Beliefs'
    BY <2>2, <2>13 DEF Beliefs, Flags, Held, Known
  <2>15. Active' => Active
    BY <1>1, <2>10 DEF Active, SomeAlive
  <2>16. Newborns'
    <3>1. ASSUME Active', NEW u \in Threads, Alive(u)', ~Known(u)'
          PROVE  k'[u].state = "stopped" /\ k'[u].event = "stop" /\ \E v \in Threads : k'[v].event = "clone" /\ k'[v].born = u
      <4>1. Alive(u) /\ ~Known(u) /\ Active /\ u \notin stopped
        BY <2>7, <2>8, <2>10, <2>15, <3>1 DEF Known, stopped
      <4>2. k[u].event = "stop" /\ k[u].state = "stopped"
        BY <1>1, <4>1, NewbornHasParent
      <4>3. PICK v \in Threads : k[v].event = "clone" /\ k[v].born = u
        BY <1>1, <4>1, NewbornHasParent
      <4>4. v \notin stopped
        BY <2>3, <4>3 DEF Free
      <4> QED
        BY <2>5, <4>1, <4>2, <4>3, <4>4
    <3> QED
      BY <2>2, <3>1 DEF Newborns
  <2>17. Installed'
    BY <1>1, <2>2, <2>8, <2>15 DEF IInv, Installed, Stage
  <2> QED
    BY <2>11, <2>12, <2>13, <2>14, <2>16, <2>17 DEF IInv
<1> QED
  BY <1>2, <1>3

(* Every thread that is known stands still, and so all that live are known. *)
LEMMA KnownRest ==
  ASSUME IInv, Active, phase # "newborn", \A t \in Threads : Known(t) /\ Alive(t) => k[t].event # "clone"
  PROVE  \A t \in Threads : Alive(t) => Known(t)
  BY NewbornHasParent

(* All threads have stopped, and the prompt is shown.                         *)
LEMMA StopIsPresentedKeeps ==
  ASSUME IInv, StopIsPresented
  PROVE  IInv'
<1> DEFINE t == IF Known(ctl.chosen) THEN ctl.chosen ELSE CHOOSE u \in DOMAIN d.threads : TRUE
           s == SelectThread(d, t)
<1>1. /\ phase = "stopping" /\ k' = k /\ initialStop' = initialStop /\ Controller("prompt", Ctl)
      /\ d' = (IF ctl.first THEN SaveThread(InstallConfigured(s, configured)) ELSE s)
      /\ \A u \in DOMAIN d.threads : d.threads[u].stopped
  BY DEF StopIsPresented, Quiet, AllStopped
<1>2. /\ phase' = "prompt" /\ CtlTyped(ctl') /\ configured' = configured /\ Typed(d) /\ Matches(d) /\ d.sel \in DOMAIN d.threads
      /\ \A b \in configured : Selected(b) \subseteq DOMAIN d.bps
  BY <1>1, Controls DEF Phases, CtlTyped, Ctl, IInv, TypeOK, TextMatches, Matches, Covered, Known
<1>3. t \in DOMAIN d.threads
  BY <1>2 DEF Known
<1> HIDE DEF t
<1>4. Typed(s) /\ Same(d, s) /\ s.sel = t /\ t \in DOMAIN s.threads
  BY <1>2, <1>3, SelectKeeps DEF Same
<1> HIDE DEF s
<1>5. SomeAlive => \A u \in DOMAIN d.threads : Settled(u)
  BY <1>1, <1>2 DEF IInv, Beliefs, Active, Held, Known, Typed
<1>6. SomeAlive => \A u \in Threads : Alive(u) => u \in DOMAIN d.threads
  <2>1. SomeAlive => \A u \in Threads : Known(u) /\ Alive(u) => k[u].event # "clone"
    BY <1>5 DEF Settled, Known, Free
  <2> QED
    BY <1>1, <2>1, KnownRest DEF Active, Known
<1>7. CASE ctl.first
  <2>1. AllRest(k', s)
    <3>1. \A u \in DOMAIN d.threads : Settled(u) => Rests(k', s, u)
      BY <1>1, <1>4 DEF Settled, Rests, Same, Belief, Bel
    <3> QED
      BY <1>1, <1>4, <1>5, <1>6, <3>1 DEF AllRest, Same, Lives, Alive, SomeAlive
  <2>2. KernelOf(k', s) /\ Matches(s) /\ k' \in [Threads -> KThread]
    BY <1>1, <1>2, <1>4 DEF IInv, TypeOK, Kernel, KernelOf, Lives, Alive, Same, Matches
  <2> QED
    BY <1>1, <1>2, <1>4, <1>7, <2>1, <2>2, ConfiguredPrompt DEF IInv, TypeOK
<1>8. CASE ~ctl.first
  <2>1. d' = s
    BY <1>1, <1>8
  <2>2. TypeOK' /\ Kernel' /\ Matches(d') /\ \A u \in DOMAIN d.threads : Settled(u)' <=> Settled(u)
    BY <1>1, <1>2, <1>4, <2>1, SameSettled DEF IInv, TypeOK, Phases
  <2>3. Calm'
    BY <1>1, <1>2, <1>4, <1>5, <1>6, <2>1, <2>2 DEF Calm, Same, SomeAlive, Alive
  <2>4. Installed'
    <3>1. SUFFICES ASSUME Active', NEW a \in DOMAIN d'.bps, ~d'.bps[a], Program[a].op # "exit"
                   PROVE  Standing(Threads, a)'
      BY <1>2 DEF Installed, Stage
    <3>2. Active /\ a \in DOMAIN d.bps /\ ~d.bps[a]
      BY <1>1, <1>4, <2>1, <3>1 DEF Active, SomeAlive, Alive, Same
    <3>3. PICK u \in Threads : Held(u) /\ Belief(u).breakpoint = a
      BY <1>1, <3>1, <3>2 DEF IInv, Installed, Standing, Stage
    <3>4. Held(u)' /\ Belief(u)'.breakpoint = a
      BY <1>2, <1>4, <2>1, <3>3 DEF Held, Known, Same, Belief, Bel
    <3> QED
      BY <3>4 DEF Standing
  <2>5. Synced'
    BY <1>2 DEF Synced, Stage
  <2> QED
    BY <1>2, <2>2, <2>3, <2>4, <2>5, CalmHolds DEF Stills
<1> QED
  BY <1>7, <1>8

(* A source step: the selected thread is stepped, or the prompt is shown. *)
LEMMA SteppingKeeps ==
  ASSUME IInv, Stepping
  PROVE  IInv'
<1>1. /\ phase = "stepping" /\ initialStop' = initialStop /\ phase \in Stills
  BY DEF Stepping, Stills
<1>2. AllRest(k, d) /\ KernelOf(k, d) /\ Typed(d) /\ Matches(d) /\ Calm /\ CtlTyped(ctl) /\ CtlTyped(Ctl)
  BY <1>1, CalmRests, CalmIs DEF IInv, TypeOK, CtlTyped, Ctl
<1>3. CASE d' = d /\ Controller("error", Ctl) /\ Quiet
  <2>1. phase' = "error" /\ CtlTyped(ctl') /\ configured' = configured
    BY <1>2, <1>3, Controls DEF Phases
  <2>2. TypeOK' /\ Kernel'
    BY <1>1, <1>3, <2>1 DEF IInv, TypeOK, Kernel, Quiet, Phases, Alive
  <2> QED
    BY <1>2, <1>3, <2>1, <2>2, ErrorHolds DEF Matches
<1>4. CASE d' = SaveThread(InstallConfigured(d, configured)) /\ Controller("prompt", Ctl) /\ Quiet
  <2>1. phase' = "prompt" /\ CtlTyped(ctl') /\ configured' = configured
    BY <1>2, <1>4, Controls DEF Phases
  <2> QED
    BY <1>1, <1>2, <1>4, <2>1, ConfiguredPrompt DEF IInv, TypeOK, Quiet
<1>5. CASE /\ Alive(d.sel) /\ Resume([d EXCEPT !.cur.signal = Free], d.sel, TRUE, d.cur.signal)
           /\ Controller("stepped", [ctl EXCEPT !.moved = TRUE])
  <2> DEFINE t == d.sel
             q == Resumed(k[t], TRUE)
             cur == [d.cur EXCEPT !.signal = Free]
             c == [ctl EXCEPT !.moved = TRUE]
  <2>1. k' = [k EXCEPT ![t] = q] /\ d' = [d EXCEPT !.cur = cur] /\ Controller("stepped", c)
    BY <1>5 DEF Resume
  <2>2a. c = [ctl EXCEPT !.moved = TRUE]
    OBVIOUS
  <2> HIDE DEF c
  <2>2b. c = [todo |-> ctl.todo, chosen |-> ctl.chosen, back |-> ctl.back, address |-> ctl.address, parent |-> ctl.parent,
              mode |-> ctl.mode, base |-> ctl.base, moved |-> TRUE, first |-> ctl.first, target |-> ctl.target]
    BY <1>2, <2>2a DEF CtlTyped
  <2>2. CtlTyped(c)
    BY <1>2, <2>2b DEF CtlTyped
  <2>3. phase' = "stepped" /\ CtlTyped(ctl') /\ configured' = configured
    BY <2>1, <2>2, Controls DEF Phases
  <2>4. cur \in DThread
    BY <1>2 DEF Typed, DThread
  <2> HIDE DEF cur, q
  <2>5. d' = [rip |-> d.rip, text |-> d.text, threads |-> d.threads, bps |-> d.bps, sel |-> d.sel, cur |-> cur]
    BY <1>2, <2>1 DEF Typed
  <2>6. Typed(d') /\ Matches(d')
    BY <1>2, <2>4, <2>5 DEF Typed, Matches
  <2>7. t \in Threads /\ SomeAlive /\ Active /\ k[t].state = "stopped" /\ k[t].event = Free /\ k[t] \in KThread
        /\ d.rip[t] \in DOMAIN Program /\ t \in DOMAIN d.threads
    <3>1. t \in Threads /\ t \in DOMAIN d.threads /\ SomeAlive /\ Active /\ k[t] \in KThread
      BY <1>1, <1>2, <1>5 DEF Calm, Typed, SomeAlive, Active, IInv, TypeOK
    <3>2. k[t].state = "stopped" /\ k[t].event = Free
      BY <1>2, <3>1 DEF Calm, Settled
    <3> QED
      BY <1>2, <3>1, <3>2 DEF KernelOf, Lives, Free
  <2>8. q \in KThread /\ q.state = "running" /\ q.event = Free /\ q.sig # "offered"
    BY <2>7, ResumedKeeps DEF q
  <2>9. k' \in [Threads -> KThread] /\ k'[t] = q /\ \A u \in Threads \ {t} : k'[u] = k[u]
    BY <2>1, <2>7, <2>8 DEF IInv, TypeOK
  <2>10. \A u \in Threads : Alive(u)' <=> Alive(u)
    BY <2>7, <2>8, <2>9 DEF Alive
  <2>11. TypeOK' /\ TextMatches' /\ Over' /\ Synced' /\ Installed'
    <3>1. TypeOK'
      BY <1>1, <2>1, <2>3, <2>6, <2>9 DEF IInv, TypeOK, Phases
    <3> QED
      BY <2>3, <2>6, <3>1 DEF TextMatches, Matches, Over, Synced, Installed, Stage
  <2>12. Kernel'
    <3>1. \A u \in Threads \ {t} : k'[u] = k[u] /\ (Alive(u)' <=> Alive(u)) /\ d'.rip[u] = d.rip[u] /\ d'.bps = d.bps
      BY <2>5, <2>9, <2>10
    <3>2. d'.rip[t] \in DOMAIN Program
      BY <2>5, <2>7
    <3> QED
      BY <2>8, <2>9, <3>1, <3>2 DEF IInv, Kernel, Free
  <2>13. Covered' /\ Flags'
    BY <1>2, <2>3, <2>5 DEF Calm, Covered, Known, Flags, Stage
  <2>14. Beliefs'
    <3>1. SUFFICES ASSUME NEW u \in Threads, Held(u)'
                   PROVE  Settled(u)'
      BY DEF Beliefs
    <3>2. u # t /\ u \in DOMAIN d.threads
      BY <2>3, <2>5, <3>1 DEF Held, Known
    <3>3. Settled(u) /\ k'[u] = k[u]
      BY <1>2, <2>7, <2>9, <3>2 DEF Calm
    <3> QED
      BY <2>5, <3>2, <3>3 DEF Settled, Belief
  <2>15. Newborns'
    BY <1>2, <2>3, <2>5, <2>7, <2>10 DEF Newborns, Calm, Known
  <2> QED
    BY <2>11, <2>12, <2>13, <2>14, <2>15 DEF IInv
<1> QED
  BY <1>3, <1>4, <1>5 DEF Stepping

(* What is known behind a single step of the selected thread. *)
BehindStep(t) == SelectThread([RecordThreadStop(d, t, Event(t)) EXCEPT !.cur.breakpoint = NoAddress], t)

(* That step was recorded, and the thread stands on no breakpoint it would be moved over. *)
LEMMA SingleStepped ==
  ASSUME IInv, phase \in {"over", "stepped"}, NEW t \in Threads, t = d.sel, Waited(t)
  PROVE  LET r == BehindStep(t)
         IN /\ Typed(r) /\ Matches(r) /\ KernelOf(k', r) /\ Active /\ \A u \in Threads : Alive(u)' <=> Alive(u)
            /\ r.sel = t /\ t \in DOMAIN d.threads /\ DOMAIN r.threads = DOMAIN d.threads /\ DOMAIN r.bps = DOMAIN d.bps
            /\ r.threads[t].stopped /\ r.cur = r.threads[t]
            /\ (Event(t) # "int3" => r.bps = d.bps)
            /\ (Event(t) = "clone" => r.cur.signal = Free)
            /\ \A u \in DOMAIN d.threads \ {t} : r.threads[u] = d.threads[u]
            /\ Rests(k', r, t) /\ \A u \in DOMAIN d.threads \ {t} : d.threads[u].stopped => Rests(k', r, u)
            /\ r.rip \in [Threads -> Nat]
<1> DEFINE s == RecordThreadStop(d, t, Event(t))
           cur == [s.cur EXCEPT !.breakpoint = NoAddress]
           m == [s EXCEPT !.cur = cur]
           r == BehindStep(t)
<1>1. /\ Typed(s) /\ Matches(s) /\ Records(d, t, Event(t), s) /\ KernelOf(k', s) /\ Rests(k', s, t)
      /\ \A u \in Threads \ {t} : Active /\ Held(u) => Rests(k', s, u)
      /\ \A u \in Threads : Alive(u)' <=> Alive(u)
      /\ Active
  BY Recorded
<1>2. t \in DOMAIN d.threads
  BY DEF IInv, Covered, Known
<1>3. r = SelectThread(m, t)
  BY DEF BehindStep
<1>4. Event(t) = "clone" => s.cur.signal = Free
  BY DEF RecordThreadStop, Free
<1> HIDE DEF s, r
<1>5. cur \in DThread /\ cur.breakpoint = NoAddress /\ cur.instruction = s.cur.instruction /\ cur.signal = s.cur.signal
  BY <1>1 DEF Typed, DThread, NoAddress
<1> HIDE DEF cur
<1>6. m = [rip |-> s.rip, text |-> s.text, threads |-> s.threads, bps |-> s.bps, sel |-> s.sel, cur |-> cur]
  BY <1>1 DEF Typed
<1> HIDE DEF m
<1>7. Typed(m) /\ Matches(m) /\ s.sel = t /\ t \in DOMAIN m.threads
  BY <1>1, <1>2, <1>5, <1>6 DEF Typed, Matches, Records
<1>8. Typed(r) /\ Same(m, r) /\ r.sel = t /\ r.cur = r.threads[t]
  BY <1>3, <1>7, SelectKeeps
<1>9. Matches(r) /\ KernelOf(k', r) /\ r.rip = s.rip /\ r.bps = s.bps
  BY <1>1, <1>6, <1>7, <1>8 DEF Same, Matches, KernelOf
<1>10. DOMAIN r.threads = DOMAIN d.threads /\ DOMAIN r.bps = DOMAIN d.bps /\ (Event(t) # "int3" => r.bps = d.bps)
  BY <1>1, <1>2, <1>6, <1>8, <1>9 DEF Same, Records
<1>11. \A u \in DOMAIN d.threads \ {t} : r.threads[u] = d.threads[u]
  <2>1. \A u \in DOMAIN m.threads \ {t} : r.threads[u] = m.threads[u]
    BY <1>3, <1>6, <1>7 DEF SelectThread, SaveThread, Load, Typed
  <2> QED
    BY <1>1, <1>6, <2>1 DEF Records
<1>12. r.threads[t].stopped
  BY <1>1, <1>6, <1>7, <1>8 DEF Same, Records
<1>13. Rests(k', r, t)
  <2>1. /\ Bel(r, t).breakpoint = NoAddress /\ Bel(r, t).instruction = Bel(s, t).instruction
        /\ Bel(r, t).signal = Bel(s, t).signal
    BY <1>5, <1>6, <1>7, <1>8 DEF Same, Bel
  <2> QED
    BY <1>1, <1>9, <2>1 DEF Rests
<1>14. ASSUME NEW u \in DOMAIN d.threads \ {t}, d.threads[u].stopped
       PROVE  Rests(k', r, u)
  <2>1. u \in Threads /\ Held(u)
    BY <1>14 DEF IInv, TypeOK, Typed, Held, Known
  <2>2. Rests(k', s, u)
    BY <1>1, <1>14, <2>1
  <2>3. Bel(s, u) = Bel(r, u)
    BY <1>1, <1>7, <1>8, <1>11, <1>14 DEF Bel, Records
  <2> QED
    BY <1>9, <2>2, <2>3 DEF Rests
<1>15. Event(t) = "clone" => r.cur.signal = Free
  BY <1>4, <1>5, <1>6, <1>7, <1>8 DEF Same, Bel
<1> QED
  BY <1>1, <1>2, <1>8, <1>9, <1>10, <1>11, <1>12, <1>13, <1>14, <1>15 DEF r, Typed

(* The breakpoint is put back, but for a source step.                         *)
LEMMA StepOverEndsKeeps ==
  ASSUME IInv, StepOverEnds
  PROVE  IInv'
<1> DEFINE t == d.sel
           c == [ctl EXCEPT !.todo = ctl.todo \ {t}]
<1>1. /\ phase = "over" /\ Reap(t) /\ Typed(d) /\ CtlTyped(ctl) /\ t \in Threads /\ ctl.back \in {"passing", "stepping"}
      /\ initialStop' = initialStop /\ ctl.address \in DOMAIN d.bps
      /\ \A b \in configured : Selected(b) \subseteq DOMAIN d.bps
      /\ \A u \in DOMAIN d.threads : d.threads[u].stopped
  BY DEF StepOverEnds, IInv, TypeOK, Typed, Covered, Known, Over, Flags, Stage, Reap
<1>2. CtlTyped(c) /\ c.todo = ctl.todo \ {t}
  <2>1. \A S \in SUBSET Threads : LET n == [ctl EXCEPT !.todo = S] IN CtlTyped(n) /\ n.todo = S
    BY <1>1 DEF CtlTyped
  <2>2. ctl.todo \ {t} \in SUBSET Threads
    BY <1>1 DEF CtlTyped
  <2> QED
    BY <2>1, <2>2
<1>3. CASE Event(t) = "exit"
  <2>1. ReapExit(t, IF ctl.back = "passing" THEN "passing" ELSE "prompt", c)
    BY <1>3 DEF StepOverEnds
  <2> QED
    BY <1>1, <1>2, <1>3, <2>1, ReapExitKeeps
<1>4. CASE Event(t) # "exit"
  <2> DEFINE s == BehindStep(t)
  <2>1. /\ d' = IF ctl.back = "passing" THEN SaveThread(ReinsertBreakpoint(s, ctl.address)) ELSE RestoreAllBreakpoints(s)
        /\ AfterClone(t, ctl.back, c)
    BY <1>4 DEF StepOverEnds, BehindStep
  <2>2. Waited(t)
    BY <1>1, <1>4, ReapWaited DEF Reap
  <2>3. /\ Typed(s) /\ Matches(s) /\ KernelOf(k', s) /\ Active /\ \A u \in Threads : Alive(u)' <=> Alive(u)
        /\ s.sel = t /\ t \in DOMAIN d.threads /\ DOMAIN s.threads = DOMAIN d.threads /\ DOMAIN s.bps = DOMAIN d.bps
        /\ s.threads[t].stopped /\ s.cur = s.threads[t]
        /\ \A u \in DOMAIN d.threads \ {t} : s.threads[u] = d.threads[u]
        /\ \A u \in DOMAIN d.threads : Rests(k', s, u)
        /\ (Event(t) # "int3" => s.bps = d.bps)
    BY <1>1, <2>2, SingleStepped
  <2>4. s.bps = d.bps
    BY <1>1, <2>3 DEF IInv, Over, Event
  <2> HIDE DEF s, t, c
  <2>5. /\ Typed(d') /\ Matches(d') /\ d'.rip = s.rip /\ d'.sel = t /\ DOMAIN d'.threads = DOMAIN d.threads
        /\ DOMAIN d'.bps = DOMAIN d.bps
        /\ \A u \in DOMAIN d.threads : /\ d'.threads[u].stopped = s.threads[u].stopped
                                       /\ Bel(d', u).instruction = Bel(s, u).instruction
                                       /\ Bel(d', u).breakpoint = Bel(s, u).breakpoint
                                       /\ Bel(d', u).signal = Bel(s, u).signal
        /\ ctl.back = "passing" => d'.bps = [d.bps EXCEPT ![ctl.address] = TRUE] /\ d'.threads[d'.sel].signal = d'.cur.signal
    <3>1. CASE ctl.back = "passing"
      <4> DEFINE m == ReinsertBreakpoint(s, ctl.address)
      <4>1. Typed(m) /\ Matches(m) /\ SameThreads(s, m) /\ m.bps = [s.bps EXCEPT ![ctl.address] = TRUE]
        BY <1>1, <2>3, ReinsertOne
      <4>2. d' = SaveThread(m)
        BY <2>1, <3>1
      <4> HIDE DEF m
      <4>3. /\ Typed(d') /\ Same(m, d') /\ d'.sel = m.sel /\ d'.cur = m.cur
            /\ m.sel \in DOMAIN m.threads => d'.threads[m.sel].signal = m.cur.signal
        BY <4>1, <4>2, SaveKeeps
      <4>4. Matches(d') /\ d'.bps = m.bps
        BY <4>1, <4>3 DEF Same, Matches
      <4>5. m.sel = t /\ m.rip = s.rip /\ m.threads = s.threads /\ \A u : Bel(m, u) = Bel(s, u)
        BY <2>3, <4>1 DEF SameThreads, Bel
      <4>6. DOMAIN d'.bps = DOMAIN d.bps
        BY <2>3, <4>1, <4>4 DEF Typed
      <4>7. /\ d'.rip = s.rip /\ DOMAIN d'.threads = DOMAIN d.threads
            /\ \A u \in DOMAIN d.threads : /\ d'.threads[u].stopped = s.threads[u].stopped
                                           /\ Bel(d', u).instruction = Bel(s, u).instruction
                                           /\ Bel(d', u).breakpoint = Bel(s, u).breakpoint
                                           /\ Bel(d', u).signal = Bel(s, u).signal
        BY <2>3, <4>3, <4>5 DEF Same
      <4> QED
        BY <2>3, <2>4, <4>1, <4>3, <4>4, <4>5, <4>6, <4>7
    <3>2. CASE ctl.back # "passing"
      <4>1. d' = RestoreAllBreakpoints(s)
        BY <2>1, <3>2
      <4>2. Typed(d') /\ Matches(d') /\ SameThreads(s, d') /\ DOMAIN d'.bps = DOMAIN s.bps
        BY <2>3, <4>1, RestoreEvery
      <4> QED
        BY <2>3, <3>2, <4>2 DEF SameThreads, Bel
    <3> QED
      BY <3>1, <3>2
  <2>6. /\ Stage' = ctl.back /\ ctl'.todo = ctl.todo \ {t} /\ phase' \in {ctl.back, "newborn"} /\ CtlTyped(ctl')
        /\ configured' = configured /\ Newborns'
    <3>1. DOMAIN d'.threads = DOMAIN d.threads \cup {t}
      BY <2>3, <2>5
    <3>2. t \in Threads
      BY <1>1 DEF t
    <3>3. Waited(t)
      BY <2>2 DEF t
    <3>4. ctl.back \in {"passing", "stepping", "resume", "stopping"}
      BY <1>1
    <3>5. /\ Stage' = ctl.back /\ ctl'.todo = c.todo /\ phase' \in {ctl.back, "newborn"} /\ CtlTyped(ctl')
          /\ configured' = configured /\ Newborns'
      BY <1>1, <1>2, <2>1, <3>1, <3>2, <3>3, <3>4, AfterCloneWaits
    <3> QED
      BY <1>2, <3>5
  <2>7. TypeOK' /\ TextMatches' /\ Over'
    <3>1. TypeOK'
      BY <1>1, <2>2, <2>5, <2>6 DEF IInv, TypeOK, Phases, Waited
    <3> QED
      BY <1>1, <2>5, <2>6, <3>1 DEF TextMatches, Matches, Over
  <2>8. Kernel'
    BY <2>3, <2>5 DEF Kernel, KernelOf, Alive, Lives
  <2>9. Covered' /\ Flags'
    <3>1. \A u \in DOMAIN d'.threads : d'.threads[u].stopped
      BY <1>1, <2>3, <2>5
    <3> QED
      BY <1>1, <2>3, <2>5, <2>6, <3>1 DEF Covered, Known, Flags
  <2>10. Beliefs'
    <3>1. \A u \in DOMAIN d.threads : Settled(u)'
      BY <2>3, <2>5 DEF Rests, Settled, Belief, Bel
    <3> QED
      BY <2>5, <3>1 DEF Beliefs, Held, Known
  <2>11. Installed'
    <3>1. SUFFICES ASSUME ctl.back = "passing", NEW a \in DOMAIN d'.bps, ~d'.bps[a], Program[a].op # "exit"
                   PROVE  Standing(ctl.todo, a)'
      BY <1>1, <2>6 DEF Installed
    <3>2. a # ctl.address /\ a \in DOMAIN d.bps /\ ~d.bps[a]
      BY <1>1, <2>5, <3>1 DEF Typed
    <3>3. Standing(ctl.todo, a)
      BY <1>1, <2>3, <3>1, <3>2 DEF IInv, Installed
    <3>4. PICK u \in ctl.todo : Held(u) /\ Belief(u).breakpoint = a
      BY <3>3 DEF Standing
    <3>5. u # t /\ u \in DOMAIN d.threads
      BY <1>1, <3>4 DEF Held, Known, t
    <3>6. Bel(s, u) = Bel(d, u)
      BY <2>3, <3>5 DEF Bel, t
    <3>7. Held(u)' /\ Belief(u)'.breakpoint = a
      BY <1>1, <2>3, <2>5, <2>6, <3>1, <3>4, <3>5, <3>6 DEF Held, Known, Belief, Bel
    <3> QED
      BY <2>6, <3>4, <3>5, <3>7 DEF Standing
  <2>12. Synced'
    BY <1>1, <2>5, <2>6 DEF Synced
  <2> QED
    BY <2>6, <2>7, <2>8, <2>9, <2>10, <2>11, <2>12 DEF IInv
<1> QED
  BY <1>3, <1>4

(* One instruction of a source step: it goes on, or ends.                     *)
LEMMA SteppedKeeps ==
  ASSUME IInv, Stepped
  PROVE  IInv'
<1> DEFINE t == d.sel
<1>1. /\ phase = "stepped" /\ Reap(t) /\ Typed(d) /\ Matches(d) /\ CtlTyped(ctl) /\ CtlTyped(Ctl) /\ t \in Threads
      /\ t \in DOMAIN d.threads /\ initialStop' = initialStop
      /\ \A b \in configured : Selected(b) \subseteq DOMAIN d.bps
      /\ \A u \in DOMAIN d.threads : d.threads[u].stopped
  BY DEF Stepped, IInv, TypeOK, TextMatches, Matches, Typed, Covered, Known, Flags, Stage, Reap, CtlTyped, Ctl
<1>2. SomeAlive => \A u \in DOMAIN d.threads \ {t} : Settled(u)
  BY <1>1 DEF IInv, Beliefs, Active, Held, Known, Typed
<1>3. SomeAlive /\ Event(t) # "clone" => \A u \in Threads : Alive(u) => u \in DOMAIN d.threads
  <2>1. SomeAlive /\ Event(t) # "clone" => \A u \in Threads : Known(u) /\ Alive(u) => k[u].event # "clone"
    BY <1>2 DEF Settled, Known, Event, Free
  <2> QED
    BY <1>1, <2>1, KnownRest DEF Active, Known
<1>4. CASE Event(t) = "exit"
  <2> DEFINE r == RecordExit(d, t)
  <2>1. Typed(r) /\ Forgets(d, t, r)
    BY <1>1, ExitForgets
  <2>2. /\ k' \in [Threads -> KThread] /\ \A u \in Threads \ {t} : k'[u] = k[u]
        /\ k'[t].event = Free /\ k'[t].state = "gone" /\ k'[t].sig # "offered" /\ k[t].state = "zombie"
        /\ \A u \in Threads : Alive(u)' <=> Alive(u)
    BY <1>1, <1>4, ReapedKeeps DEF Reap, Event
  <2>3. /\ DOMAIN r.threads = DOMAIN d.threads \ {t} /\ r.rip = d.rip /\ r.bps = d.bps /\ r.text = d.text /\ Matches(r)
        /\ \A u \in DOMAIN r.threads : r.threads[u] = d.threads[u] /\ Bel(r, u) = Bel(d, u)
        /\ DOMAIN r.threads # {} => r.sel \in DOMAIN r.threads
    BY <1>1, <2>1 DEF Forgets, Matches
  <2>4. KernelOf(k', r)
    <3>1. \A u \in Threads \ {t} : k'[u] = k[u] /\ r.rip[u] = d.rip[u] /\ r.bps = d.bps
      BY <2>2, <2>3
    <3> QED
      BY <2>2, <3>1 DEF IInv, Kernel, KernelOf, Lives, Alive, Free
  <2>5. CASE DOMAIN r.threads = {}
    <3> DEFINE none == << >>
               e == Ended(r)
    <3>1. d' = e /\ Controller("ended", Ctl)
      BY <1>4, <2>5 DEF Stepped
    <3>2. phase' = "ended" /\ CtlTyped(ctl') /\ configured' = configured
      BY <1>1, <3>1, Controls DEF Phases
    <3>3. none \in [DOMAIN none -> DThread] /\ none \in [DOMAIN none -> BOOLEAN] /\ DOMAIN none = {}
      OBVIOUS
    <3>4. e = [r EXCEPT !.threads = none, !.bps = none, !.sel = 0, !.cur = NativeThread]
      BY DEF Ended
    <3> HIDE DEF none, e, r
    <3>5. e = [rip |-> r.rip, text |-> r.text, threads |-> none, bps |-> none, sel |-> 0, cur |-> NativeThread]
      BY <2>1, <3>4 DEF Typed
    <3>6. Typed(d')
      BY <2>1, <3>1, <3>3, <3>5 DEF Typed, NativeThread, DThread, NoAddress, Free
    <3>7. \A u \in Threads : ~Alive(u)
      BY <1>3, <1>4, <2>2, <2>3, <2>5 DEF SomeAlive, Alive
    <3>8. TypeOK' /\ Kernel'
      BY <1>1, <2>2, <3>2, <3>6, <3>7 DEF IInv, TypeOK, Kernel, Phases, Free
    <3> QED
      BY <2>2, <3>2, <3>7, <3>8, EndedHolds
  <2>6. CASE DOMAIN r.threads # {} /\ Alive(r.sel)
    <3> DEFINE s == SelectThread(r, r.sel)
    <3>1. d' = InstallConfigured(s, configured) /\ Controller("prompt", Ctl)
      BY <1>4, <2>6 DEF Stepped
    <3>2. phase' = "prompt" /\ CtlTyped(ctl') /\ configured' = configured
      BY <1>1, <3>1, Controls DEF Phases
    <3> HIDE DEF r
    <3>3. Typed(s) /\ Same(r, s) /\ s.sel \in DOMAIN s.threads
      BY <2>1, <2>3, <2>6, SelectKeeps DEF Same
    <3> HIDE DEF s
    <3>4. KernelOf(k', s) /\ Matches(s)
      BY <2>3, <2>4, <3>3 DEF KernelOf, Same, Matches
    <3>5. AllRest(k', s)
      <4>1. SomeAlive
        BY <2>1, <2>3, <2>6 DEF SomeAlive, Typed
      <4>2. DOMAIN s.threads = DOMAIN d.threads \ {t} /\ \A u \in DOMAIN s.threads : s.threads[u].stopped
        BY <1>1, <2>3, <3>3 DEF Same
      <4>3. ASSUME NEW u \in DOMAIN s.threads
            PROVE  Rests(k', s, u)
        <5>1. Settled(u) /\ u \in Threads /\ u # t
          BY <1>1, <1>2, <4>1, <4>2, <4>3 DEF Typed
        <5>2. k'[u] = k[u]
          BY <2>2, <5>1
        <5>3. /\ Bel(s, u).instruction = Belief(u).instruction /\ Bel(s, u).breakpoint = Belief(u).breakpoint
              /\ Bel(s, u).signal = Belief(u).signal /\ s.rip = d.rip /\ s.bps = d.bps
          BY <2>3, <3>3, <4>2, <4>3 DEF Same, Bel, Belief
        <5> QED
          BY <5>1, <5>2, <5>3 DEF Settled, Rests
      <4>4. \A u \in Threads : Lives(k', u) => u \in DOMAIN s.threads
        BY <1>3, <1>4, <2>2, <4>1, <4>2 DEF Lives, Alive
      <4> QED
        BY <3>3, <4>2, <4>3, <4>4 DEF AllRest
    <3> QED
      BY <1>1, <2>2, <3>1, <3>2, <3>3, <3>4, <3>5, ConfiguredPrompt DEF IInv, TypeOK
  <2>7. CASE DOMAIN r.threads # {} /\ ~Alive(r.sel)
    <3>1. d' = r /\ Controller("error", Ctl)
      BY <1>4, <2>7 DEF Stepped
    <3>2. phase' = "error" /\ CtlTyped(ctl') /\ configured' = configured
      BY <1>1, <3>1, Controls DEF Phases
    <3> HIDE DEF r
    <3>3. TypeOK' /\ Kernel'
      BY <1>1, <2>1, <2>2, <2>4, <3>1, <3>2 DEF IInv, TypeOK, Kernel, KernelOf, Lives, Alive, Phases
    <3> QED
      BY <2>3, <3>1, <3>2, <3>3, ErrorHolds
  <2> QED
    BY <2>5, <2>6, <2>7
<1>5. CASE Event(t) # "exit"
  <2> DEFINE s == BehindStep(t)
             stops == s.cur.signal # Free \/ Event(t) = "stop"
  <2>1. /\ d' = IF stops THEN InstallConfigured(s, configured) ELSE s
        /\ IF stops THEN Controller("prompt", Ctl) ELSE AfterClone(t, "stepping", ctl)
    BY <1>5 DEF Stepped, BehindStep
  <2>2. Waited(t)
    BY <1>1, <1>5, ReapWaited DEF Reap
  <2>3. /\ Typed(s) /\ Matches(s) /\ KernelOf(k', s) /\ Active /\ \A u \in Threads : Alive(u)' <=> Alive(u)
        /\ s.sel = t /\ DOMAIN s.threads = DOMAIN d.threads /\ DOMAIN s.bps = DOMAIN d.bps
        /\ s.threads[t].stopped
        /\ (Event(t) = "clone" => s.cur.signal = Free)
        /\ \A u \in DOMAIN d.threads \ {t} : s.threads[u] = d.threads[u]
        /\ \A u \in DOMAIN d.threads : Rests(k', s, u)
    BY <1>1, <2>2, SingleStepped
  <2>4. k' \in [Threads -> KThread]
    BY <2>2 DEF Waited
  <2> HIDE DEF s
  <2>5. \A u \in DOMAIN d.threads : s.threads[u].stopped
    BY <1>1, <2>3
  <2>6. CASE stops
    <3>1. d' = InstallConfigured(s, configured) /\ Controller("prompt", Ctl)
      BY <2>1, <2>6
    <3>2. phase' = "prompt" /\ CtlTyped(ctl') /\ configured' = configured
      BY <1>1, <3>1, Controls DEF Phases
    <3>3. \A u \in Threads : Lives(k', u) => u \in DOMAIN d.threads
      BY <1>3, <2>3, <2>6 DEF Active, Lives, Alive
    <3>4. AllRest(k', s)
      BY <1>1, <2>3, <2>5, <3>3 DEF AllRest
    <3> QED
      BY <1>1, <2>3, <2>4, <3>1, <3>2, <3>4, ConfiguredPrompt DEF IInv, TypeOK
  <2>7. CASE ~stops
    <3>1. d' = s /\ AfterClone(t, "stepping", ctl)
      BY <2>1, <2>7
    <3> HIDE DEF t, stops
    <3>2. Stage' = "stepping" /\ phase' \in {"stepping", "newborn"} /\ CtlTyped(ctl') /\ configured' = configured /\ Newborns'
      <4>1. t \in Threads /\ DOMAIN d'.threads = DOMAIN d.threads \cup {t}
        BY <1>1, <2>3, <3>1 DEF t
      <4> QED
        BY <1>1, <2>2, <3>1, <4>1, AfterCloneWaits
    <3>3. TypeOK' /\ TextMatches' /\ Over' /\ Synced' /\ Installed'
      <4>1. TypeOK'
        BY <1>1, <2>3, <2>4, <3>1, <3>2 DEF IInv, TypeOK, Phases
      <4> QED
        BY <2>3, <3>1, <3>2, <4>1 DEF TextMatches, Matches, Over, Synced, Installed
    <3>4. Kernel'
      BY <2>3, <3>1 DEF Kernel, KernelOf, Alive, Lives
    <3>5. Covered' /\ Flags'
      BY <1>1, <2>3, <2>5, <3>1, <3>2 DEF Covered, Known, Flags, t
    <3>6. Beliefs'
      <4>1. \A u \in DOMAIN d.threads : Settled(u)'
        BY <2>3, <3>1 DEF Rests, Settled, Belief, Bel
      <4> QED
        BY <2>3, <3>1, <4>1 DEF Beliefs, Held, Known
    <3> QED
      BY <3>2, <3>3, <3>4, <3>5, <3>6 DEF IInv
  <2> QED
    BY <2>6, <2>7
<1> QED
  BY <1>4, <1>5
-----------------------------------------------------------------------------
(* The invariant, for every program, every set of threads and every choice of    *)
(* breakpoints.                                                                  *)
LEMMA InitHolds == Init => IInv
<1> SUFFICES ASSUME Init
             PROVE  IInv
  OBVIOUS
<1> USE DEF Init
<1> DEFINE none == << >>
<1>1. Absent \in KThread
  <2> DEFINE q == Absent
  <2>1. none \in Seq(DOMAIN Program)
    OBVIOUS
  <2> HIDE DEF none
  <2>2. q = [state |-> "absent", event |-> Free, interrupt |-> FALSE, sig |-> Free, single |-> FALSE, frames |-> none, born |-> 0]
    BY DEF Absent, none
  <2> HIDE DEF q
  <2>3. q \in KThread
    BY <2>1, <2>2 DEF KThread, Free
  <2> QED
    BY <2>3 DEF q
<1>2. k \in [Threads -> KThread] /\ \A t \in Threads : k[t].state = "absent" /\ k[t].event = Free /\ k[t].sig = Free
  BY <1>1 DEF Absent
<1>3. none \in [DOMAIN none -> DThread] /\ none \in [DOMAIN none -> BOOLEAN] /\ DOMAIN none = {}
  OBVIOUS
<1>4. d = [rip |-> [t \in Threads |-> NoAddress], text |-> {}, threads |-> none, bps |-> none, sel |-> 0, cur |-> NativeThread]
  OBVIOUS
<1> HIDE DEF none
<1>5. Typed(d)
  BY <1>3, <1>4 DEF Typed, NativeThread, DThread, NoAddress, Free
<1>6. CtlTyped(ctl)
  BY DEF CtlTyped, Ctl
<1>7. TypeOK
  BY <1>2, <1>5, <1>6 DEF TypeOK, Phases
<1>8. Kernel /\ \A t \in Threads : ~Alive(t)
  BY <1>2 DEF Kernel, Alive, Free
<1>9. TextMatches
  BY <1>3, <1>4 DEF TextMatches
<1>10. Covered
  BY <1>2, <1>4 DEF Covered, none
<1>11. Beliefs /\ Flags /\ Newborns /\ Over /\ Installed /\ Synced
  BY DEF Beliefs, Flags, Newborns, Over, Installed, Synced, Active, Stage
<1> QED
  BY <1>7, <1>8, <1>9, <1>10, <1>11 DEF IInv

(* A step that changes nothing, and any step.                                 *)
LEMMA StutterKeeps ==
  ASSUME IInv, UNCHANGED vars
  PROVE  IInv'
<1> USE DEF vars
<1>1. \A t : /\ Alive(t)' <=> Alive(t)
             /\ Known(t)' <=> Known(t)
             /\ Held(t)' <=> Held(t)
             /\ Belief(t)' = Belief(t)
             /\ Settled(t)' <=> Settled(t)
  BY DEF Alive, Known, Held, Belief, Settled
<1>2. Stage' = Stage /\ (SomeAlive' <=> SomeAlive)
  BY DEF Stage, SomeAlive, Alive
<1>3. Active' <=> Active
  BY <1>2 DEF Active
<1>4. TypeOK' /\ TextMatches' /\ Synced' /\ Flags'
  BY <1>2 DEF IInv, TypeOK, TextMatches, Synced, Flags
<1>5. Kernel' /\ Covered'
  BY <1>1 DEF IInv, Kernel, Covered
<1>6. Beliefs' /\ Newborns'
  BY <1>1, <1>3 DEF IInv, Beliefs, Newborns
<1>7. Over'
  BY <1>1, <1>2 DEF IInv, Over
<1>8. Installed'
  BY <1>1, <1>2, <1>3 DEF IInv, Installed, Standing
<1> QED
  BY <1>4, <1>5, <1>6, <1>7, <1>8 DEF IInv

LEMMA NextKeeps ==
  ASSUME IInv, [Next]_vars
  PROVE  IInv'
<1>1. CASE Command
  BY <1>1, BreakKeeps, ThreadCommandKeeps, TerminateKeeps, ContinueKeeps, StepToFirstKeeps, StepExecutableKeeps DEF Command
<1>2. CASE Control
  BY <1>2, LaunchKeeps, PassThreadKeeps, PassedKeeps, StepOverEndsKeeps, AwaitNewbornKeeps, ResumeThreadsKeeps, WaitExitKeeps,
     WaitNewbornKeeps, WaitCloneKeeps, WaitStopKeeps, StopOtherThreadKeeps, StopIsPresentedKeeps, SteppingKeeps, SteppedKeeps
  DEF Control
<1>3. CASE Pause
  BY <1>3, PauseKeeps
<1>4. CASE SendSignal
  BY <1>4, SendSignalKeeps
<1>5. CASE KillTarget
  BY <1>5, KillKeeps DEF KillTarget
<1>6. CASE \E t \in Threads : ThreadStep(t)
  BY <1>6, ThreadStepKeeps
<1>7. CASE UNCHANGED vars
  BY <1>7, StutterKeeps
<1> QED
  BY <1>1, <1>2, <1>3, <1>4, <1>5, <1>6, <1>7 DEF Next

(* Every reachable state satisfies the invariant (Debugger.cpp 467-789).      *)
THEOREM Invariance == Spec => []IInv
<1>1. Init => IInv
  BY InitHolds
<1>2. IInv /\ [Next]_vars => IInv'
  BY NextKeeps
<1> QED
  BY <1>1, <1>2, PTL DEF Spec

(* Whenever the prompt is shown nothing of the target runs, no stop of it is left   *)
(* to be looked at, and what the controller believes of each thread and of the text *)
(* is true (Debugger.cpp 497-686).                                                *)
THEOREM StoppedWorld == Spec => []StoppedWorldIsTrue
<1>1. IInv => StoppedWorldIsTrue
  <2>1. SUFFICES ASSUME IInv, phase = "prompt"
                 PROVE  StoppedWorldIsTrue
    BY DEF StoppedWorldIsTrue, Prompt
  <2>2. Calm /\ Matches(d)
    BY <2>1, CalmIs DEF Stills
  <2>3. ASSUME NEW t \in Threads, Alive(t)
        PROVE  Known(t) /\ Settled(t)
    BY <2>2, <2>3 DEF Calm, SomeAlive, Known
  <2>4. \A t \in Threads : k[t].state # "running"
    BY <2>3 DEF Alive, Settled
  <2>5. \A t \in Threads : Alive(t) => /\ Known(t) /\ k[t].event = Free
                                       /\ Belief(t).instruction = d.rip[t]
                                       /\ Belief(t).breakpoint \in {NoAddress, d.rip[t]} \cap ({NoAddress} \cup DOMAIN d.bps)
    BY <2>3 DEF Settled
  <2> QED
    BY <2>2, <2>4, <2>5 DEF StoppedWorldIsTrue, Matches
<1> QED
  BY <1>1, Invariance, PTL

(* No thread goes on from behind an INT3, no trap of the debugger is kept for the   *)
(* program, and while threads run freely every configured breakpoint is in the text, *)
(* one on an instruction that ends its thread excepted (467-495, 523-564, 688-711,  *)
(* 768-789).                                                                      *)
THEOREM Breakpoints == Spec => []BreakpointsHold
<1>1. IInv => BreakpointsHold
  <2> SUFFICES ASSUME IInv
               PROVE  BreakpointsHold
    OBVIOUS
  <2>1. ASSUME NEW t \in Threads, k[t].state = "running"
        PROVE  d.rip[t] \in DOMAIN Program
    BY <2>1, RunningStands
  <2>2. ASSUME NEW t \in Threads, Known(t)
        PROVE  d.threads[t].signal # "trap"
    BY <2>2 DEF IInv, TypeOK, Typed, DThread, Known, Free
  <2>3. ASSUME phase = "waiting", NEW t \in Threads, k[t].state = "running", NEW b \in configured
        PROVE  {a \in Selected(b) : Program[a].op # "exit"} \subseteq d.text
    <3>1. Active
      BY <2>3 DEF Active, SomeAlive, Alive
    <3>2. Selected(b) \subseteq DOMAIN d.bps /\ \A a \in DOMAIN d.bps : d.bps[a] \/ Program[a].op = "exit"
      BY <2>3, <3>1 DEF IInv, Covered, Installed, Stage
    <3> QED
      BY <2>3, <3>2 DEF IInv, TextMatches
  <2> QED
    BY <2>1, <2>2, <2>3 DEF BreakpointsHold
<1> QED
  BY <1>1, Invariance, PTL

(* A signal of the program is swallowed only where a thread is moved over a         *)
(* breakpoint it stands on, or if it is a SIGSTOP (528, 595-602, 688-711).        *)
LEMMA OverSwallows ==
  ASSUME IInv, phase \in Stills, NEW t \in DOMAIN d.threads, Alive(t), Belief(t).breakpoint # NoAddress, Swallows(t, Free)
  PROVE  Excused(t)
<1>1. t \in Threads
  BY DEF IInv, TypeOK, Typed
<1>2. Settled(t)
  BY <1>1, CalmIs DEF Calm, SomeAlive
<1> QED
  BY <1>1, <1>2 DEF Settled, Swallows, Offered, Excused

(* A thread that goes on with the signal recorded for it goes on with the signal it  *)
(* was stopped for, unless that is a SIGSTOP (528, 595-602, 834-836).              *)
LEMMA ResumeSwallows ==
  ASSUME NEW t, Settled(t), Swallows(t, Belief(t).signal)
  PROVE  Excused(t)
BY DEF Settled, Swallows, Offered, Excused

(* Whoever is resumed, by any step of the controller, is resumed with the signal it   *)
(* was stopped for; it is lost only on the way over a breakpoint, and a SIGSTOP        *)
(* always (528, 595-602, 688-711, 834-836).                                         *)
THEOREM Signals == Spec => SignalsSurvive
<1> DEFINE Survives == \A t \in dropped' : Excused(t)
<1>1. ASSUME IInv, Next
      PROVE  Survives
  <2>0. Typed(d)
    BY <1>1 DEF IInv, TypeOK
  <2>1. CASE PassThread
    <3>1. PICK t \in ctl.todo :
             \/ dropped' = {}
             \/ /\ Known(t) /\ SelectThread(d, t).cur.breakpoint # NoAddress /\ Alive(t)
                /\ SingleStepOver(SelectThread(d, t), "passing") /\ phase = "passing"
      BY <2>1 DEF PassThread, Quiet, NoneDropped
    <3> DEFINE s == SelectThread(d, t)
    <3>2. ASSUME /\ Known(t) /\ s.cur.breakpoint # NoAddress /\ Alive(t)
                 /\ SingleStepOver(s, "passing") /\ phase = "passing"
          PROVE  Survives
      <4>1. Same(d, s) /\ s.sel = t /\ s.cur = s.threads[t]
        BY <2>0, <3>2, SelectKeeps DEF Known
      <4>2. dropped' = {u \in {s.sel} : Swallows(u, Free)}
        BY <3>2 DEF SingleStepOver, Resume
      <4> HIDE DEF s
      <4>3. Belief(t).breakpoint # NoAddress
        BY <3>2, <4>1 DEF Same, Bel, Belief, Known
      <4> QED
        BY <1>1, <3>2, <4>1, <4>2, <4>3, OverSwallows DEF Stills, Known
    <3> QED
      BY <3>1, <3>2
  <2>2. CASE StepExecutable
    <3>1. CASE d.cur.breakpoint # NoAddress
      <4>1. phase = "prompt" /\ Alive(d.sel) /\ dropped' = {u \in {d.sel} : Swallows(u, Free)}
        BY <2>2, <3>1 DEF StepExecutable, Responsive, Prompt, Resume
      <4>2. d.sel \in DOMAIN d.threads /\ Belief(d.sel) = d.cur
        BY <1>1, <4>1 DEF IInv, Covered, Known, Belief
      <4> QED
        BY <1>1, <3>1, <4>1, <4>2, OverSwallows DEF Stills
    <3>2. CASE d.cur.breakpoint = NoAddress
      BY <2>2, <3>2 DEF StepExecutable, Quiet, NoneDropped
    <3> QED
      BY <3>1, <3>2
  <2>3. CASE ResumeThreads
    <3>1. SUFFICES ASSUME NEW t \in dropped'
                   PROVE  Excused(t)
      OBVIOUS
    <3>2. phase = "resume" /\ t \in DOMAIN d.threads /\ d.threads[t].stopped /\ Alive(t) /\ Swallows(t, d.threads[t].signal)
      BY <2>3, <3>1 DEF ResumeThreads, Quiet, NoneDropped
    <3>3. t \in Threads
      BY <2>0, <3>2 DEF Typed
    <3>4. Settled(t)
      BY <1>1, <3>2, <3>3 DEF IInv, Beliefs, Active, SomeAlive, Held, Known
    <3>5. Belief(t).signal = d.threads[t].signal
      BY <1>1, <3>2 DEF IInv, Synced, Stage, Belief
    <3> QED
      BY <3>2, <3>4, <3>5, ResumeSwallows
  <2>4. CASE Stepping
    <3>1. CASE dropped' = {}
      BY <3>1
    <3>2. CASE phase = "stepping" /\ Alive(d.sel) /\ dropped' = {u \in {d.sel} : Swallows(u, d.cur.signal)}
      <4>1. Settled(d.sel) /\ Belief(d.sel) = d.cur
        BY <1>1, <2>0, <3>2, CalmIs DEF Calm, Stills, SomeAlive, Typed, Belief
      <4> QED
        BY <3>2, <4>1, ResumeSwallows
    <3> QED
      BY <2>4, <3>1, <3>2 DEF Stepping, Quiet, NoneDropped, Resume
  <2>5. CASE WaitNewborn
    <3>1. PICK t \in Threads :
             /\ phase = "waiting" /\ Event(t) \notin {Free, "exit"} /\ ~Known(t)
             /\ dropped' = {u \in {t} : Swallows(u, RecordThreadStop(d, t, Event(t)).threads[u].signal)}
      BY <2>5 DEF WaitNewborn
    <3>2. k[t].event = "stop"
      <4>1. Alive(t)
        BY <1>1, <3>1 DEF IInv, TypeOK, Kernel, KThread, Event, Free, Alive
      <4> QED
        BY <1>1, <3>1, <4>1, NewbornHasParent DEF Active, SomeAlive
    <3>3. k[t].sig # "offered"
      BY <1>1, <3>2 DEF IInv, Kernel, Free
    <3> QED
      BY <3>1, <3>3 DEF Swallows, Offered, Excused
  <2>6. CASE Command /\ ~StepExecutable
    BY <2>6 DEF Command, Break, DeleteBreakpoint, ThreadCommand, TerminateExecutable, ContinueExecutable, StepToFirst, Quiet,
                NoneDropped
  <2>7. CASE Control /\ ~PassThread /\ ~ResumeThreads /\ ~Stepping /\ ~WaitNewborn
    BY <2>7 DEF Control, Launch, Passed, StepOverEnds, AwaitNewborn, WaitExit, WaitClone, WaitStop, StopOtherThread,
                StopIsPresented, Stepped, Reap, Quiet, NoneDropped
  <2>8. CASE Pause \/ SendSignal \/ KillTarget
    BY <2>8 DEF Pause, SendSignal, KillTarget, NoneDropped
  <2>9. CASE \E t \in Threads : ThreadStep(t)
    BY <2>9 DEF ThreadStep, HitInt3, Plain, CallOrReturn, Clone, Exit, Interrupted, Signalled, Executes, Proceeds, Debuggee,
                NoneDropped
  <2> QED
    BY <1>1, <2>1, <2>2, <2>3, <2>4, <2>5, <2>6, <2>7, <2>8, <2>9 DEF Next, Command, Control
<1>2. IInv /\ [Next]_vars => [Survives]_vars
  BY <1>1
<1> QED
  BY <1>2, Invariance, PTL DEF Spec, SignalsSurvive, Excused
=============================================================================
