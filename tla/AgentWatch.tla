------------------------------ MODULE AgentWatch ------------------------------
(***************************************************************************)
(* The watcher that reads an agent's state off its pane (agentdetect): it  *)
(* is armed on the pane's output, feeds what it drains to an emulator, and *)
(* writes the state the manifest matches to a file and a pane option.  A   *)
(* re-arm starts a second watcher while the first still has input, the     *)
(* pane is resized under both, a backlog is cut, and the emulator panics   *)
(* on rows it does not have.  A screen is the state it matches; "none"     *)
(* matches no rule.                                                        *)
(*                                                                         *)
(* Bounds: MaxPrints prints, MaxResizes resizes, MaxFails lost stamps, a   *)
(* backlog of Cap chunks.  With Overlap a watcher may be re-armed while it *)
(* starts, and a superseded one acts on a resize: neither of those writes  *)
(* asks who is registered.                                                 *)
(***************************************************************************)
EXTENDS Naturals, Sequences, FiniteSets

CONSTANTS Watchers, States, None, Cap, MaxPrints, MaxResizes, MaxFails, Overlap

VARIABLES
    screen, cols, up, piped,     \* the pane: what it shows, its size, its pipe
    pc, scr, geo, last,          \* a watcher: its emulator and that one's size
    buf, cut, eof, dirty, wake,  \* its backlog, debouncer and resize report
    reg, file, opt, missed,      \* the registered watcher, the state file, the option
    prints, resizes, fails

paneVars == <<screen, cols, up, piped>>
input == <<buf, cut, eof>>
shownVars == <<file, opt, missed, fails, last>>
emulator == <<scr, geo>>
counts == <<prints, resizes>>
avars == <<paneVars, pc, emulator, input, dirty, wake, reg, shownVars, counts>>

Of(v) == [w \in Watchers |-> v]
Init ==
    /\ screen = "none" /\ cols = 0 /\ up = TRUE /\ piped = None
    /\ pc = Of("off") /\ scr = Of("none") /\ geo = Of(0) /\ last = Of(None)
    /\ buf = Of(<<>>) /\ cut = Of(FALSE) /\ eof = Of(FALSE) /\ dirty = Of(FALSE) /\ wake = Of(FALSE)
    /\ reg = None /\ file = None /\ opt = None /\ missed = FALSE
    /\ prints = 0 /\ resizes = 0 /\ fails = 0

Step(w, where) == pc' = [pc EXCEPT ![w] = where]
Starting(w) == pc[w] \in {"armed", "claimed", "seeded"}
Running(w) == Starting(w) \/ pc[w] = "run"

----------------------------------------------------------------------------
(* The pane.  A full repaint leads to its screen at its size; a few cells  *)
(* change nothing the manifest reads.                                      *)
Full(s, n) == [to |-> s, cols |-> n]
Cells == [to |-> None, cols |-> 0]

\* drainbuf.Append: over the cap only the newest half is kept.
Drain(w, c) ==
    IF piped # w THEN UNCHANGED <<buf, cut>>
    ELSE LET b == Append(buf[w], c) over == Len(b) > Cap
         IN  /\ buf' = [buf EXCEPT ![w] = IF over THEN SubSeq(b, Len(b) - (Cap \div 2) + 1, Len(b)) ELSE b]
             /\ cut' = [cut EXCEPT ![w] = @ \/ over]
Drained(c) == IF piped = None THEN UNCHANGED <<buf, cut>> ELSE Drain(piped, c)

Paints(s, whole) ==
    /\ up /\ prints < MaxPrints /\ prints' = prints + 1
    /\ screen' = (IF whole THEN s ELSE screen) /\ Drained(IF whole THEN Full(s, cols) ELSE Cells)
    /\ UNCHANGED <<cols, up, piped, pc, emulator, eof, dirty, wake, reg, shownVars, resizes>>

\* The program repaints at its new size; each waiting watcher is told.
Resize ==
    /\ up /\ resizes < MaxResizes /\ resizes' = resizes + 1 /\ cols' = 1 - cols
    /\ Drained(Full(screen, cols')) /\ wake' = [w \in Watchers |-> Running(w)]
    /\ UNCHANGED <<screen, up, piped, pc, emulator, eof, dirty, reg, shownVars, prints>>

Dies ==
    /\ up /\ up' = FALSE /\ opt' = None /\ eof' = [w \in Watchers |-> eof[w] \/ piped = w]
    /\ UNCHANGED <<screen, cols, piped, pc, emulator, buf, cut, dirty, wake, reg, file, missed, fails, last, counts>>

\* pipe-pane: the watcher before it reads its end of file.
Arm(w) ==
    /\ up /\ pc[w] = "off" /\ (Overlap \/ \A v \in Watchers : ~Starting(v))
    /\ Step(w, "armed") /\ piped' = w
    /\ eof' = [v \in Watchers |-> eof[v] \/ v = piped]
    /\ UNCHANGED <<screen, cols, up, emulator, buf, cut, dirty, wake, reg, shownVars, counts>>

----------------------------------------------------------------------------
(* The state file (statefile.go).                                          *)
Stamped(w, s) ==
    \/ opt' = (IF up THEN s ELSE opt) /\ UNCHANGED <<missed, fails>>
    \/ fails < MaxFails /\ fails' = fails + 1 /\ missed' = TRUE /\ UNCHANGED opt

\* Update, and Clear when no rule matches.
Update(w, s) ==
    IF s = "none" THEN /\ file' = None /\ last' = [last EXCEPT ![w] = None]
                       /\ IF file = None THEN UNCHANGED <<opt, missed, fails>> ELSE Stamped(w, None)
    ELSE IF s = last[w] THEN UNCHANGED shownVars
    ELSE file' = s /\ last' = [last EXCEPT ![w] = s] /\ Stamped(w, s)

StillOwner(w) == reg = w

EmitIfOwner(w) == IF StillOwner(w) THEN Update(w, scr[w]) ELSE UNCHANGED shownVars

----------------------------------------------------------------------------
(* A watcher (main.go).                                                    *)
\* registerWatcher.
Claim(w) ==
    /\ pc[w] = "armed" /\ Step(w, "claimed") /\ reg' = w
    /\ UNCHANGED <<paneVars, emulator, input, dirty, wake, shownVars, counts>>

\* seededScreen: the size and the contents the pane has now.
Seeded(w) == scr' = [scr EXCEPT ![w] = IF up THEN screen ELSE "none"] /\ geo' = [geo EXCEPT ![w] = cols]
Seed(w) ==
    /\ pc[w] = "claimed" /\ Step(w, "seeded") /\ Seeded(w)
    /\ UNCHANGED <<paneVars, input, dirty, wake, reg, shownVars, counts>>
FirstEmit(w) ==
    /\ pc[w] = "seeded" /\ Step(w, "run") /\ Update(w, scr[w])
    /\ UNCHANGED <<paneVars, emulator, input, dirty, wake, reg, counts>>

\* What the emulator shows after a chunk: one painted for another size is
\* clamped, or panics and is seeded anew (feedSafe).
Fed(s, n, b) ==
    LET full == {i \in DOMAIN b : b[i].to # None}
        i == CHOOSE k \in full : \A j \in full : j <= k
    IN  IF full = {} THEN {s} ELSE IF b[i].cols = n THEN {b[i].to} ELSE {"none", screen}

NeverCut(w) == FALSE  \* Mutant: a cut backlog is fed to the screen as it is
Cut(w) == cut[w]

Take(w) ==
    /\ pc[w] = "run" /\ buf[w] # <<>>
    /\ buf' = [buf EXCEPT ![w] = <<>>] /\ cut' = [cut EXCEPT ![w] = FALSE]
    /\ LET n == IF Cut(w) THEN cols ELSE geo[w]
           s == IF Cut(w) THEN screen ELSE scr[w]
       IN  \E t \in Fed(s, n, buf[w]) :
             /\ scr' = [scr EXCEPT ![w] = t]
             /\ geo' = [geo EXCEPT ![w] = n]
    /\ dirty' = [dirty EXCEPT ![w] = TRUE]
    /\ UNCHANGED <<paneVars, pc, eof, wake, reg, shownVars, counts>>

\* The last read reports the end of the input.
Closed(w) ==
    /\ pc[w] = "run" /\ eof[w] /\ buf[w] = <<>> /\ EmitIfOwner(w) /\ Step(w, "gone")
    /\ UNCHANGED <<paneVars, emulator, input, dirty, wake, reg, counts>>

\* The sample tick, once the debouncer is due.
Tick(w) ==
    /\ pc[w] = "run" /\ dirty[w]
    /\ IF StillOwner(w) THEN Update(w, scr[w]) /\ UNCHANGED pc ELSE Step(w, "gone") /\ UNCHANGED shownVars
    /\ dirty' = [dirty EXCEPT ![w] = FALSE]
    /\ UNCHANGED <<paneVars, emulator, input, wake, reg, counts>>

\* A resize was reported, or polled on the geometry tick.
Reshape(w) ==
    /\ pc[w] = "run" /\ (wake[w] \/ geo[w] # cols) /\ (Overlap \/ StillOwner(w))
    /\ wake' = [wake EXCEPT ![w] = FALSE]
    /\ IF geo[w] # cols /\ up THEN Seeded(w) /\ Update(w, screen) ELSE UNCHANGED <<emulator, shownVars>>
    /\ UNCHANGED <<paneVars, pc, input, dirty, reg, counts>>

Superseded(w) ==
    /\ pc[w] = "run" /\ ~StillOwner(w) /\ Step(w, "gone")
    /\ UNCHANGED <<paneVars, emulator, input, dirty, wake, reg, shownVars, counts>>

\* paneAlive says no, with no end of file.
Reaped(w) ==
    /\ pc[w] = "run" /\ ~up /\ EmitIfOwner(w) /\ Step(w, "gone")
    /\ UNCHANGED <<paneVars, emulator, input, dirty, wake, reg, counts>>

Watches(w) == Claim(w) \/ Seed(w) \/ FirstEmit(w) \/ Take(w) \/ Closed(w) \/ Tick(w) \/ Reshape(w) \/ Superseded(w) \/ Reaped(w)
Next ==
    \/ Resize \/ Dies
    \/ \E s \in States, whole \in BOOLEAN : Paints(s, whole)
    \/ \E w \in Watchers : Arm(w) \/ Watches(w)
Spec == Init /\ [][Next]_avars

----------------------------------------------------------------------------
(* When the pane is at rest and its watcher has caught up, the file and    *)
(* the option hold what the screen shows, whatever was cut, resized or     *)
(* handed from one watcher to the next; only a lost stamp leaves the       *)
(* option behind (statefile.go calls it best effort).                      *)
Quiet(w) ==
    /\ up /\ pc[w] = "run" /\ piped = w /\ buf[w] = <<>> /\ ~cut[w] /\ ~dirty[w] /\ ~wake[w] /\ geo[w] = cols
    /\ \A v \in Watchers \ {w} : ~Running(v)
Told(s) == IF s = "none" THEN None ELSE s
StateShown == \A w \in Watchers : Quiet(w) => file = Told(screen) /\ (missed \/ opt = file)

----------------------------------------------------------------------------
(* Why, without Overlap.  Only the piped watcher starts, and once it has    *)
(* claimed the pane nobody else writes (Alone).  The newest full repaint it *)
(* has yet to take is what the pane shows; with none left its emulator      *)
(* shows that, or has another size and will be seeded anew (Follows).  What *)
(* the owner wrote last is in the file, and is what its emulator shows or   *)
(* will be written at the next tick (Written).                              *)
Screens == States \union {"none"}
Chunks == [to : Screens \union {None}, cols : {0, 1}]
Fulls(b) == {i \in DOMAIN b : b[i].to # None}
Newest(b, s, n) == Fulls(b) = {} \/ \E k \in Fulls(b) : b[k] = Full(s, n) /\ \A j \in Fulls(b) : j <= k

Typed ==
    /\ screen \in Screens /\ cols \in {0, 1} /\ up \in BOOLEAN
    /\ piped \in Watchers \union {None} /\ reg \in Watchers \union {None}
    /\ pc \in [Watchers -> {"off", "armed", "claimed", "seeded", "run", "gone"}]
    /\ scr \in [Watchers -> Screens] /\ geo \in [Watchers -> {0, 1}]
    /\ last \in [Watchers -> Screens \union {None}] /\ buf \in [Watchers -> Seq(Chunks)]
    /\ cut \in [Watchers -> BOOLEAN] /\ dirty \in [Watchers -> BOOLEAN]

Alone == \A w \in Watchers :
    /\ Starting(w) => piped = w
    /\ piped = w /\ pc[w] # "armed" => reg = w
    /\ pc[w] \notin {"run", "gone"} => last[w] = None
    /\ pc[w] = "off" => buf[w] = <<>> /\ piped # w

Follows == \A w \in Watchers : piped = w =>
    /\ Newest(buf[w], screen, cols)
    /\ up /\ pc[w] \in {"seeded", "run"} /\ ~cut[w] /\ Fulls(buf[w]) = {} =>
          geo[w] # cols \/ scr[w] = screen

Written == \A w \in Watchers : reg = w /\ pc[w] = "run" =>
    file = last[w] /\ (dirty[w] \/ last[w] = Told(scr[w]))

IInv == Typed /\ Alone /\ Follows /\ Written /\ (up => missed \/ opt = file)
===============================================================================
