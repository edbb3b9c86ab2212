-------------------------------- MODULE Selected --------------------------------
(***************************************************************************)
(* Which of the remote session's windows a daemon mirrors, and that its    *)
(* control client stays on that session.  A selector (selector.go) names   *)
(* the windows whose option has a value; a subscription tells of changes,  *)
(* a reconcile reads the list, and the panes of the other windows are      *)
(* excluded from the router.  A switch-client typed in a mirror takes the  *)
(* client elsewhere (sessionpin.go): it is switched back and every pane    *)
(* repainted.  What a window's own reconcile does is WindowMirror's.       *)
(*                                                                         *)
(* Bounds: MaxMoves changes on the remote; MaxFaults excursions, failed    *)
(* reads and malformed flags together.  With Overlap a pane may move while *)
(* another change is still on its way to the daemon.                       *)
(***************************************************************************)
EXTENDS Naturals, Sequences, FiniteSets

CONSTANTS Wins, Panes, None, MaxMoves, MaxFaults, Overlap

VARIABLES
    in, sel,     \* the remote: windows of the session, windows whose option matches
    home,        \* pane -> its window
    told,        \* window -> the flag last reported
    here, alive, \* the client is on the pinned session; that session exists
    stream,      \* notifications on their way
    mirrored,    \* the registry's windows
    has,         \* window -> the panes of its registry entry
    sinks,       \* panes registered in the router
    excluded, later,    \* the router's excluded and excludeOnUnregister
    dirty, unselected,  \* windowFilter
    todo, pc,    \* the reconcile under way: windows still to mirror
    stale,       \* panes whose output was lost since they were last painted
    fresh,       \* the list was read whole since the windows last changed
    ended, moves, faults

remote == <<in, sel, home, told, alive>>
daemon == <<mirrored, has, sinks, excluded, later, dirty, unselected, todo, pc, ended>>
lvars == <<remote, here, stream, daemon, stale, fresh, moves, faults>>

PanesOf(w) == {p \in Panes : home[p] = w}
Flag(w) == w \in sel
Notice(k, w) == [kind |-> k, win |-> w, panes |-> {}]
Pending(k) == \E i \in DOMAIN stream : stream[i].kind = k
Sent(ns) == stream' = IF here THEN stream \o ns ELSE stream

\* Run's startup: the selected windows are mirrored, the others' panes excluded.
Init ==
    /\ in = Wins /\ sel \in SUBSET Wins \ {{}}
    /\ home = CHOOSE h \in [Panes -> Wins] : \A w \in Wins : \E p \in Panes : h[p] = w
    /\ told = [w \in Wins |-> FALSE] /\ here = TRUE /\ alive = TRUE /\ stream = <<>>
    /\ mirrored = sel /\ sinks = {p \in Panes : home[p] \in sel}
    /\ has = [w \in Wins |-> IF w \in sel THEN PanesOf(w) ELSE {}]
    /\ unselected = Wins \ sel /\ excluded = {p \in Panes : home[p] \notin sel} /\ later = {}
    /\ dirty = FALSE /\ todo = {} /\ pc = "idle" /\ stale = {} /\ fresh = TRUE /\ ended = FALSE
    /\ moves = 0 /\ faults = 0

----------------------------------------------------------------------------
(* The remote.  A client elsewhere is told nothing of the pinned session.  *)
Moves ==
    /\ alive /\ moves < MaxMoves /\ moves' = moves + 1
    /\ Overlap \/ ~Pending("layout")

Flip(w) ==
    /\ Moves /\ sel' = IF w \in sel THEN sel \ {w} ELSE sel \union {w}
    /\ fresh' = FALSE /\ UNCHANGED <<in, home, told, alive, here, stream, daemon, stale, faults>>

Relink(w) ==
    /\ Moves /\ here /\ in # {w}
    /\ in' = IF w \in in THEN in \ {w} ELSE in \union {w}
    /\ told' = [told EXCEPT ![w] = FALSE]
    /\ Sent(<<Notice(IF w \in in THEN "close" ELSE "add", w)>>)
    /\ fresh' = FALSE /\ UNCHANGED <<sel, home, alive, here, daemon, stale, faults>>

MovePane(p, w) ==
    /\ Moves /\ here /\ home[p] # w /\ {w, home[p]} \subseteq in /\ PanesOf(home[p]) # {p}
    /\ Overlap \/ (fresh /\ ~dirty /\ pc = "idle" /\ ~Pending("close") /\ \A v \in in : told[v] = Flag(v))
    /\ home' = [home EXCEPT ![p] = w]
    /\ Sent(<<[kind |-> "layout", win |-> w, panes |-> PanesOf(w) \union {p}],
              [kind |-> "layout", win |-> home[p], panes |-> PanesOf(home[p]) \ {p}]>>)
    /\ fresh' = FALSE /\ UNCHANGED <<in, sel, told, alive, here, daemon, stale, faults>>

Report(w) ==
    /\ here /\ w \in in /\ told[w] # Flag(w) /\ told' = [told EXCEPT ![w] = Flag(w)]
    /\ Sent(<<Notice("flag", w)>>)
    /\ UNCHANGED <<in, sel, home, alive, here, daemon, stale, fresh, moves, faults>>

Prints(p) ==
    /\ home[p] \in in /\ (~here \/ p \in excluded) /\ p \notin stale /\ stale' = stale \union {p}
    /\ UNCHANGED <<remote, here, stream, daemon, fresh, moves, faults>>

\* switch-client from a bridged shell, or the end of the session.
Excursion(dies) ==
    /\ here /\ faults < MaxFaults /\ faults' = faults + 1 /\ here' = FALSE /\ alive' = ~dies
    /\ stream' = Append(stream, Notice("moved", None))
    /\ UNCHANGED <<in, sel, home, told, daemon, stale, fresh, moves>>

----------------------------------------------------------------------------
(* The router's exclusions (router.go).                                    *)
Exclude(ps) == later' = later \union (ps \intersect sinks) /\ excluded' = excluded \union (ps \ sinks)

ExcludeBare(ps) == excluded' = ps /\ later' = {}  \* Mutant: a registered pane is excluded too
SetExcluded(ps) == later' = ps \intersect sinks /\ excluded' = ps \ sinks

\* Unregister the panes off, then Register the panes on.
Swap(off, on) ==
    /\ sinks' = (sinks \ off) \union on
    /\ excluded' = (excluded \union (later \intersect off)) \ on /\ later' = later \ (off \union on)

\* setupWindow: the window's panes register, and are painted.
Mirror(w) ==
    /\ mirrored' = mirrored \union {w} /\ has' = [has EXCEPT ![w] = PanesOf(w)]
    /\ Swap({}, PanesOf(w)) /\ stale' = stale \ PanesOf(w)

\* closeWindow: every pane of the entries unregisters, whichever window it is in by now.
Closes(ws) ==
    /\ mirrored' = mirrored \ ws /\ has' = [w \in Wins |-> IF w \in ws THEN {} ELSE has[w]]
    /\ Swap(UNION {has[w] : w \in ws}, {})

----------------------------------------------------------------------------
(* The main loop: a notification, then a reconcile when one is due.        *)
Pop == pc = "idle" /\ ~ended /\ stream # <<>> /\ stream' = Tail(stream)
Note == Head(stream)
Loop == <<remote, moves>>

\* A listing: every window of the session, its flag read or malformed; or nothing.
Unread == faults < MaxFaults /\ faults' = faults + 1
Reads == (UNCHANGED faults) \/ Unread

\* noteListed: only a flag that was read is evidence.
Noted(bad) == {w \in in \ bad : ~Flag(w)} \union (unselected \intersect bad \intersect in)
Bad == {{}} \union {{w} : w \in in}

Observe ==
    /\ Pop /\ Note.kind = "flag" /\ dirty' = TRUE
    /\ UNCHANGED <<Loop, here, mirrored, has, sinks, excluded, later, unselected, todo, pc, ended, stale, fresh, faults>>

AddWindow ==
    /\ Pop /\ Note.kind = "add"
    /\ \/ /\ Note.win \in mirrored \/ ~alive
          /\ UNCHANGED <<mirrored, has, sinks, excluded, later, unselected, pc, stale, faults>>
       \/ /\ Note.win \notin mirrored /\ Unread
          /\ UNCHANGED <<mirrored, has, sinks, excluded, later, unselected, pc, stale>>
       \/ /\ Note.win \notin mirrored /\ Note.win \in in \intersect sel /\ Mirror(Note.win)
          /\ UNCHANGED <<unselected, pc, faults>>
       \/ /\ Note.win \notin mirrored /\ Note.win \notin in \intersect sel
          /\ unselected' = Noted({}) /\ pc' = "exclude"
          /\ UNCHANGED <<mirrored, has, sinks, excluded, later, stale, faults>>
    /\ UNCHANGED <<Loop, here, dirty, todo, ended, fresh>>

\* closeWindowIfGone: a listing that cannot be read closes.
CloseWindow ==
    /\ Pop /\ Note.kind = "close" /\ Reads
    /\ IF Note.win \in mirrored /\ (faults' # faults \/ Note.win \notin in \intersect sel)
       THEN Closes({Note.win}) /\ fresh' = (fresh /\ faults' = faults) /\ ended' = (mirrored' = {})
       ELSE UNCHANGED <<mirrored, has, sinks, excluded, later, fresh, ended>>
    /\ UNCHANGED <<Loop, here, dirty, unselected, todo, pc, stale>>

\* A mirrored window reads its layout: a pane that left unregisters unless
\* another window claims it by now; one that came is painted.  The panes of an
\* unselected window are excluded.
Layout ==
    /\ Pop /\ Note.kind = "layout"
    /\ LET w == Note.win now == PanesOf(w) new == now \ has[w]
           left == {p \in has[w] \ now : \A v \in mirrored \ {w} : p \notin has[v]}
       IN  IF w \in mirrored
           THEN has' = [has EXCEPT ![w] = now] /\ Swap(left, new) /\ stale' = stale \ new
           ELSE /\ IF w \in unselected THEN Exclude(Note.panes) ELSE UNCHANGED <<excluded, later>>
                /\ UNCHANGED <<has, sinks, stale>>
    /\ UNCHANGED <<Loop, here, mirrored, dirty, unselected, todo, pc, ended, fresh, faults>>

\* apply: switch back, or find that there is nothing to switch back to.
SessionChanged ==
    /\ Pop /\ Note.kind = "moved" /\ Reads
    /\ here' = (alive /\ faults' = faults)
    /\ ended' = ~alive /\ pc' = IF here' THEN "reseed" ELSE "idle"
    /\ UNCHANGED <<Loop, mirrored, has, sinks, excluded, later, dirty, unselected, todo, stale, fresh>>

Reseeded == sinks
Reseed ==
    /\ pc = "reseed" /\ pc' = "idle" /\ stale' = IF here THEN stale \ Reseeded ELSE stale
    /\ UNCHANGED <<Loop, here, stream, mirrored, has, sinks, excluded, later, dirty, unselected, todo, ended, fresh, faults>>

\* Told of a change, or the floor has elapsed.
Due == dirty \/ ~fresh

\* reconcileWindows reads the list, closes what stopped matching, mirrors what
\* matches.
Reconcile(bad) ==
    /\ pc = "idle" /\ ~ended /\ Due /\ bad \in Bad /\ alive
    /\ IF bad = {} THEN UNCHANGED faults ELSE Unread
    /\ dirty' = FALSE /\ unselected' = Noted(bad) /\ fresh' = (bad = {})
    /\ Closes({w \in mirrored : w \notin in \/ (~Flag(w) /\ w \notin bad)})
    /\ todo' = (in \intersect sel) \ (bad \union mirrored) /\ pc' = "mirror"
    /\ UNCHANGED <<Loop, here, stream, ended, stale>>
ReconcileFails ==
    /\ pc = "idle" /\ ~ended /\ dirty /\ Unread /\ dirty' = FALSE
    /\ fresh' = FALSE
    /\ UNCHANGED <<Loop, here, stream, mirrored, has, sinks, excluded, later, unselected, todo, pc, ended, stale>>

MirrorNew ==
    /\ pc = "mirror"
    /\ IF todo = {} THEN pc' = "exclude" /\ UNCHANGED <<mirrored, has, sinks, excluded, later, stale, todo>>
       ELSE \E w \in todo :
              /\ todo' = todo \ {w} /\ UNCHANGED pc
              /\ IF w \in in THEN Mirror(w) ELSE UNCHANGED <<mirrored, has, sinks, excluded, later, stale>>
    /\ UNCHANGED <<Loop, here, stream, dirty, unselected, ended, fresh, faults>>

ExcludeUnselected ==
    /\ pc = "exclude" /\ pc' = "idle"
    /\ \/ SetExcluded({p \in Panes : home[p] \in in \intersect unselected}) /\ UNCHANGED faults
       \/ unselected # {} /\ Unread /\ UNCHANGED <<excluded, later>>
    /\ ended' = (mirrored = {})
    /\ UNCHANGED <<Loop, here, stream, mirrored, has, sinks, dirty, unselected, todo, stale, fresh>>

Next ==
    \/ \E w \in Wins : Flip(w) \/ Relink(w) \/ Report(w)
    \/ \E p \in Panes : Prints(p) \/ \E w \in Wins : MovePane(p, w)
    \/ \E dies \in BOOLEAN : Excursion(dies)
    \/ Observe \/ AddWindow \/ CloseWindow \/ Layout \/ SessionChanged \/ Reseed
    \/ \E bad \in Bad : Reconcile(bad)
    \/ ReconcileFails \/ MirrorNew \/ ExcludeUnselected
Spec == Init /\ [][Next]_lvars

----------------------------------------------------------------------------
(* No registered pane is excluded; and when nothing is left to happen      *)
(* exactly the selected windows are mirrored, their panes and no other are *)
(* registered, and none of them misses output, whatever was excluded,      *)
(* moved or away in the meantime.                                          *)
Quiet == here /\ stream = <<>> /\ pc = "idle" /\ ~dirty /\ fresh /\ ~ended /\ \A w \in in : told[w] = Flag(w)
SelectionKept ==
    /\ excluded \intersect sinks = {}
    /\ Quiet => /\ mirrored = in \intersect sel
                /\ sinks = {p \in Panes : home[p] \in mirrored}
                /\ stale \intersect sinks = {}

(* A pane that moved to another mirrored window is that window's to render *)
(* (reconcile.go): no pane on show is left without a sink.                 *)
MovedPanesServed == Quiet => \A p \in Panes : home[p] \in mirrored => p \in sinks

----------------------------------------------------------------------------
(* Why SelectionKept holds, without Overlap.  Once the list was read whole  *)
(* what is mirrored, or about to be, is what is selected (Listed).  The     *)
(* sinks are the panes of the registry's entries (Registered), and an entry *)
(* that is not its window's has a layout on its way (Current).  While one   *)
(* is, two entries may name one pane: no window closes then (Settled), for  *)
(* that would take the sink of the other.  A sink misses output only while  *)
(* the client is elsewhere, or until the reseed of its return (Painted).    *)
Notices == [kind : {"flag", "add", "close", "layout", "moved"}, win : Wins \union {None}, panes : SUBSET Panes]
Typed ==
    /\ in \in SUBSET Wins /\ sel \in SUBSET Wins /\ home \in [Panes -> Wins]
    /\ stream \in Seq(Notices)
    /\ mirrored \in SUBSET Wins /\ has \in [Wins -> SUBSET Panes] /\ todo \in SUBSET Wins
    /\ sinks \in SUBSET Panes /\ pc \in {"idle", "mirror", "exclude", "reseed"}

Listed ==
    /\ fresh => mirrored \union todo = in \intersect sel
    /\ todo \intersect mirrored = {} /\ (pc # "mirror" => todo = {})
Registered ==
    /\ sinks = UNION {has[w] : w \in mirrored} /\ \A w \in Wins \ mirrored : has[w] = {}
    /\ excluded \intersect sinks = {}
Coming(w) == \E i \in DOMAIN stream : stream[i].kind = "layout" /\ stream[i].win = w
Current == \A w \in mirrored : has[w] # PanesOf(w) => Coming(w)
Settled == Pending("layout") => ~Pending("close") /\ mirrored \union todo \subseteq in \intersect sel
Painted == here => pc = "reseed" \/ stale \intersect sinks = {}

IInv == Typed /\ Listed /\ Registered /\ Current /\ Settled /\ Painted
================================================================================
