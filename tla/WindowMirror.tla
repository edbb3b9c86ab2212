---------------------------- MODULE WindowMirror ----------------------------
(***************************************************************************)
(* One mirrored window (reconcile.go, panediff.go, floatdiff.go,           *)
(* transientreseed.go, setupWindow): the main loop makes the local tmux    *)
(* window render the remote window's panes, in the remote's order, from    *)
(* %layout-change lines and from reads of the remote, while the remote     *)
(* keeps changing under every round trip and a step of the local surgery   *)
(* may fail.                                                               *)
(*                                                                         *)
(* A layout is <<order, shape>>: the tiled panes in traversal order and    *)
(* one bit of geometry.  A local pane is the remote pane its renderer      *)
(* shows.  The remote makes MaxMoves changes, MaxFaults local steps fail.  *)
(***************************************************************************)
EXTENDS Naturals, Sequences, SequencesExt, FiniteSets

CONSTANTS Panes, Floats, None, MaxMoves, MaxFaults, MaxDrags, MaxPasses

VARIABLES
    rem,      \* the remote window: [order, shape, zoom, floats, active]
    stream,   \* %layout-change lines not read yet
    async,    \* lines a reply reader met (asyncQueue)
    tm,       \* the local window: [panes, shape, zoom]
    mw,       \* mirrorWindow: [remotePanes, localPanes, layout, appliedZoom, owed, floats]
    pc,       \* the main loop: [at, L, tries]
    stale,    \* remote panes whose cells moved since they were last painted here
    drag,     \* a layout intent of a local drag: [due, sent]
    hurt,     \* a local step failed and no rebuild has finished since
    moves, faults, drags

mvars == <<rem, stream, async, tm, mw, pc, stale, drag, hurt, moves, faults, drags>>

Raw(L) == <<L.order, L.shape>>
NoFloats == [f \in {} |-> 0]
Rest == [at |-> "rest", L |-> None, tries |-> 0]
Rested == pc' = Rest

Init ==
    /\ \E k \in {1, 2} :
         LET order == SubSeq(SetToSeq(Panes), 1, k) IN
         rem = [order |-> order, shape |-> 0, zoom |-> FALSE, floats |-> NoFloats, active |-> order[1]]
    /\ stream = <<>> /\ async = <<>>
    /\ tm = [panes |-> rem.order, shape |-> Raw(rem), zoom |-> FALSE]
    /\ mw = [remotePanes |-> rem.order, localPanes |-> rem.order, layout |-> Raw(rem),
             appliedZoom |-> FALSE, owed |-> FALSE, floats |-> NoFloats]
    /\ pc = Rest /\ stale = {} /\ drag = [due |-> FALSE, sent |-> None] /\ hurt = FALSE
    /\ moves = 0 /\ faults = 0 /\ drags = 0

----------------------------------------------------------------------------
\* The remote window.  A structural command of a zoomed window is bracketed by an
\* unzoomed line; what it resizes has to be painted again.
Moves(r, bracket) ==
    /\ moves < MaxMoves /\ moves' = moves + 1
    /\ rem' = r
    /\ stream' = stream \o (IF bracket /\ rem.zoom THEN <<[rem EXCEPT !.zoom = FALSE]>> ELSE <<>>) \o <<r>>
    /\ stale' = (IF Raw(r) # Raw(rem) \/ r.zoom # rem.zoom THEN stale \union ToSet(r.order) ELSE stale)
                \intersect ToSet(r.order)
    /\ UNCHANGED <<async, tm, mw, pc, drag, hurt, faults, drags>>

RemoteSplit ==
    \E p \in Panes \ ToSet(rem.order), i \in 1..(Len(rem.order) + 1) :
        Moves([rem EXCEPT !.order = InsertAt(@, i, p), !.zoom = FALSE, !.active = p], TRUE)

RemoteKill ==
    /\ Len(rem.order) > 1
    /\ \E i \in 1..Len(rem.order) :
         LET left == RemoveAt(rem.order, i) IN
         Moves([rem EXCEPT !.order = left, !.zoom = FALSE,
                           !.active = IF @ = rem.order[i] THEN left[1] ELSE @], TRUE)

\* respawn-window: every pane is replaced by one.
RemoteReplace ==
    \E p \in Panes \ ToSet(rem.order) :
        Moves([rem EXCEPT !.order = <<p>>, !.zoom = FALSE, !.active = p], TRUE)

Swapped(s, i, j) == [s EXCEPT ![i] = s[j], ![j] = s[i]]

RemoteSwap ==
    \E i, j \in 1..Len(rem.order) :
        i < j /\ Moves([rem EXCEPT !.order = Swapped(@, i, j)], TRUE)

RemoteReshape == Len(rem.order) > 1 /\ Moves([rem EXCEPT !.shape = 1 - @], FALSE)

RemoteZoom ==
    /\ Len(rem.order) > 1 /\ rem.active \in ToSet(rem.order)
    /\ Moves([rem EXCEPT !.zoom = ~@], FALSE)

RemoteFloat ==
    \E f \in Floats :
        Moves(IF f \in DOMAIN rem.floats
              THEN [rem EXCEPT !.floats = [g \in DOMAIN @ \ {f} |-> @[g]], !.active = rem.order[1]]
              ELSE [rem EXCEPT !.floats = [g \in DOMAIN @ \union {f} |-> IF g = f THEN 0 ELSE @[g]], !.active = f],
              FALSE)

RemoteFloatMove ==
    \E f \in DOMAIN rem.floats : Moves([rem EXCEPT !.floats[f] = 1 - @], FALSE)

RemoteNext ==
    RemoteSplit \/ RemoteKill \/ RemoteReplace \/ RemoteSwap \/ RemoteReshape \/ RemoteZoom \/ RemoteFloat \/ RemoteFloatMove

\* A border dragged locally: the gesture goes to the remote, which may refuse it, and an
\* intent is registered behind it.
LocalDrag ==
    /\ drags < MaxDrags /\ ~drag.due /\ Len(tm.panes) > 1 /\ tm.shape = mw.layout
    /\ drags' = drags + 1
    /\ LET sent == <<tm.shape[1], 1 - tm.shape[2]>> IN
         /\ tm' = [tm EXCEPT !.shape = sent]
         /\ drag' = [due |-> TRUE, sent |-> sent]
         /\ \/ /\ sent[1] = rem.order /\ rem.shape # sent[2]
               /\ rem' = [rem EXCEPT !.shape = sent[2]]
               /\ stream' = Append(stream, rem')
               /\ stale' = stale \union ToSet(rem.order)
            \/ UNCHANGED <<rem, stream, stale>>
    /\ UNCHANGED <<async, mw, pc, hurt, moves, faults>>

\* The user kills a local pane; the last one takes the window with it.
LocalKill ==
    /\ faults < MaxFaults /\ faults' = faults + 1 /\ hurt' = TRUE
    /\ \E i \in 1..Len(tm.panes) : tm' = [tm EXCEPT !.panes = RemoveAt(@, i)]
    /\ UNCHANGED <<rem, stream, async, mw, pc, stale, drag, moves, drags>>

----------------------------------------------------------------------------
\* planPaneOps: what is killed (by position), what is split off the tail, the swaps.
Removes(have, want) == {i \in 1..Len(have) : have[i] \notin ToSet(want)}
Survivors(have, want) == SelectSeq(have, LAMBDA p : p \in ToSet(want))
Appends(have, want) == SelectSeq(want, LAMBDA p : p \notin ToSet(have))
ResetsNever(have, want) == FALSE
Resets(have, want) == Survivors(have, want) = <<>>

\* The transpositions, computed on the remote ids and applied to the local panes.
SwapsNone(cur, want, local) == local
Swaps(cur, want, local) ==
    LET Place(acc, i) ==
          IF acc.cur[i] = want[i] THEN acc
          ELSE LET j == CHOOSE j \in (i + 1)..Len(acc.cur) : acc.cur[j] = want[i]
               IN [cur |-> Swapped(acc.cur, i, j), local |-> Swapped(acc.local, i, j)]
    IN FoldLeft(Place, [cur |-> cur, local |-> local], [i \in 1..Len(want) |-> i]).local

Kills(local, removed) ==
    LET kept == SetToSortSeq({i \in 1..Len(local) : i \notin removed}, <)
    IN [k \in 1..Len(kept) |-> local[kept[k]]]

\* planFloatOps: nothing to remove, add or move.
NoFloatWork(L) == mw.floats = L.floats

----------------------------------------------------------------------------
\* A read of the remote queues the lines ahead of its reply.
Reads == async' = async \o stream /\ stream' = <<>>
Env == <<rem, moves, drags>>

\* reconcileLayoutFrom, with what dispatchLayoutChange adds for a coalesced burst.
NeverOwed(n, burst) == FALSE
Owes(n, burst) == burst \/ mw.owed \/ n.order # mw.remotePanes \/ n.zoom # mw.appliedZoom

Gate(n, burst) ==
    LET known == n.order = mw.remotePanes /\ NoFloatWork(n) /\ n.zoom = mw.appliedZoom IN
    /\ mw' = [mw EXCEPT !.owed = Owes(n, burst)]
    /\ pc' = IF known /\ Raw(n) = mw.layout /\ ~mw'.owed THEN Rest
             ELSE IF known /\ Raw(n) # mw.layout /\ ~n.zoom
                  THEN [Rest EXCEPT !.at = "snap", !.L = [n EXCEPT !.active = None]]
                  ELSE [Rest EXCEPT !.at = "read"]
    /\ UNCHANGED <<tm, stale, drag, hurt, faults>>

\* asyncQueue.drain: only the window's last line is dispatched; a dropped one that
\* described another tiled shape marks the survivor.
Key(n) == <<Raw(n), n.zoom>>
Drain ==
    /\ pc.at = "rest" /\ async # <<>>
    /\ LET n == Last(async) IN Gate(n, \E i \in 1..Len(async) : Key(async[i]) # Key(n))
    /\ async' = <<>> /\ UNCHANGED <<Env, stream>>

TakeLine ==
    /\ pc.at = "rest" /\ async = <<>> /\ stream # <<>>
    /\ Gate(Head(stream), FALSE)
    /\ stream' = Tail(stream) /\ UNCHANGED <<Env, async>>

\* settle: the layout intent of a local drag (noteLocalLayout).
Intent ==
    /\ pc.at = "rest" /\ async = <<>> /\ drag.due
    /\ drag' = [due |-> FALSE, sent |-> None]
    /\ mw' = IF mw.layout # drag.sent THEN [mw EXCEPT !.layout = None] ELSE mw
    /\ pc' = [Rest EXCEPT !.at = "read"]
    /\ UNCHANGED <<Env, stream, async, tm, stale, hurt, faults>>

Read ==
    /\ pc.at = "read"
    /\ pc' = [pc EXCEPT !.at = "snap", !.L = rem]
    /\ Reads /\ UNCHANGED <<Env, tm, mw, stale, drag, hurt, faults>>

----------------------------------------------------------------------------
\* Who is painted: a zoomed window's hidden panes are not.
Shown(order, zoom, active) == IF zoom /\ active \in ToSet(order) THEN {active} ELSE ToSet(order)

\* reconcileFloats; an add that fails is left out for a later pass.
FloatsDone(L) ==
    \/ mw' = [mw EXCEPT !.floats = L.floats] /\ UNCHANGED <<faults, hurt>>
    \/ /\ faults < MaxFaults /\ faults' = faults + 1 /\ hurt' = TRUE
       /\ DOMAIN L.floats \ DOMAIN mw.floats # {}
       /\ mw' = [mw EXCEPT !.floats = [f \in DOMAIN L.floats \intersect DOMAIN mw.floats |-> L.floats[f]]]

\* reconcileSnapshot with nothing tiled to do: floats, and the paint that is owed.
SnapNothing ==
    /\ pc.at = "snap" /\ Raw(pc.L) = mw.layout /\ mw.appliedZoom = pc.L.zoom
    /\ stale' = IF mw.owed THEN stale \ Shown(mw.remotePanes, pc.L.zoom, pc.L.active) ELSE stale
    /\ mw' = [mw EXCEPT !.owed = FALSE, !.floats = pc.L.floats]
    /\ Rested /\ UNCHANGED <<Env, stream, async, tm, drag, hurt, faults>>

SnapPass ==
    /\ pc.at = "snap" /\ ~(Raw(pc.L) = mw.layout /\ mw.appliedZoom = pc.L.zoom)
    /\ mw' = [mw EXCEPT !.owed = FALSE]
    /\ pc' = [pc EXCEPT !.at = "pass", !.tries = MaxPasses]
    /\ UNCHANGED <<Env, stream, async, tm, stale, drag, hurt, faults>>

Structural(have, want) == have # want
ToReset == pc' = [pc EXCEPT !.at = "reset"]

\* applyPaneOps: the listing is re-read and must still count one pane per remote pane.
Counted(local, remote) == Len(local) = Len(remote)

Surgery(local, have, want) ==
    LET killed == Kills(local, Removes(have, want)) IN
    Swaps(Survivors(have, want) \o Appends(have, want), want, killed \o Appends(have, want))

\* A split or a hello fails: the kills and some splits stay, the order is the old one.
SurgeryFails(have, want) ==
    /\ faults < MaxFaults /\ faults' = faults + 1 /\ hurt' = TRUE
    /\ \E k \in 0..Len(Appends(have, want)) :
         LET left == Kills(tm.panes, Removes(have, want)) \o SubSeq(Appends(have, want), 1, k) IN
         /\ Appends(have, want) # <<>>
         /\ tm' = [tm EXCEPT !.panes = left]
         /\ mw' = [mw EXCEPT !.layout = None, !.localPanes = left]
    /\ Rested /\ UNCHANGED <<Env, stream, async, stale, drag>>

\* applyLayout, assertMirrorZoom and the paint of one pass over panes.
Shaped(panes, L) ==
    LET fits == Raw(L) = mw.layout /\ panes = tm.panes
        zoom == L.zoom /\ L.active \in ToSet(L.order) IN
    /\ tm' = [panes |-> panes, shape |-> IF fits THEN tm.shape ELSE Raw(L),
              zoom |-> IF L.zoom THEN zoom \/ (fits /\ tm.zoom) ELSE FALSE]
    /\ mw' = [mw EXCEPT !.layout = Raw(L), !.localPanes = panes, !.remotePanes = L.order,
                        !.appliedZoom = IF L.zoom = zoom THEN L.zoom ELSE fits /\ @]
    /\ stale' = stale \ Shown(L.order, zoom, L.active)
    /\ pc' = [pc EXCEPT !.at = "reread"]

Pass ==
    /\ pc.at = "pass"
    /\ LET L == pc.L have == mw.remotePanes want == pc.L.order IN
         IF Resets(have, want)
         THEN ToReset /\ UNCHANGED <<Env, stream, async, tm, mw, stale, drag, hurt, faults>>
         ELSE IF Structural(have, want)
         THEN IF Counted(tm.panes, have)
              THEN \/ /\ Shaped(Surgery(tm.panes, have, want), L)
                      /\ UNCHANGED <<Env, stream, async, drag, hurt, faults>>
                   \/ SurgeryFails(have, want)
              ELSE /\ ToReset /\ mw' = [mw EXCEPT !.localPanes = tm.panes]
                   /\ UNCHANGED <<Env, stream, async, tm, stale, drag, hurt, faults>>
         ELSE IF Raw(L) = mw.layout \/ Len(tm.panes) = Len(want)
         THEN Shaped(tm.panes, L) /\ UNCHANGED <<Env, stream, async, drag, hurt, faults>>
         ELSE IF tm.panes = <<>>
         THEN Rested /\ UNCHANGED <<Env, stream, async, tm, mw, stale, drag, hurt, faults>>
         ELSE /\ ToReset /\ mw' = [mw EXCEPT !.localPanes = tm.panes]
              /\ UNCHANGED <<Env, stream, async, tm, stale, drag, hurt, faults>>

\* The trailing re-read; the pass loop is bounded.
Settled(L) == Raw(rem) = Raw(L) /\ rem.zoom = L.zoom /\ rem.floats = L.floats
Reread ==
    /\ pc.at = "reread"
    /\ pc' = IF Settled(pc.L) THEN [pc EXCEPT !.at = "floats"]
             ELSE IF pc.tries = 1 THEN [pc EXCEPT !.at = "floats", !.L = rem]
             ELSE [pc EXCEPT !.at = "pass", !.L = rem, !.tries = @ - 1]
    /\ Reads /\ UNCHANGED <<Env, tm, mw, stale, drag, hurt, faults>>

SettleFloats ==
    /\ pc.at = "floats" /\ FloatsDone(pc.L)
    /\ Rested /\ UNCHANGED <<Env, stream, async, tm, stale, drag>>

\* resetWindow: every listed pane but the first is killed, then setupWindow reads the
\* remote again, splits, shapes, respawns and paints.
Kept == IF tm.panes = <<>> THEN <<>>
        ELSE SelectSeq(tm.panes, LAMBDA p : p = mw.localPanes[1] \/ p \notin ToSet(mw.localPanes))

SetupDone ==
    /\ Len(Kept) = 1
    /\ LET zoom == rem.zoom /\ rem.active \in ToSet(rem.order) IN
         /\ tm' = [panes |-> rem.order, shape |-> Raw(rem), zoom |-> zoom]
         /\ mw' = [mw EXCEPT !.remotePanes = rem.order, !.localPanes = rem.order, !.layout = Raw(rem),
                             !.appliedZoom = zoom, !.floats = rem.floats]
    /\ stale' = {} /\ hurt' = FALSE /\ UNCHANGED faults

\* The read, the shape or a hello fails: the floats dropped are put back from L.
SetupFails ==
    /\ IF Len(Kept) = 1 THEN faults < MaxFaults /\ faults' = faults + 1 ELSE UNCHANGED faults
    /\ hurt' = TRUE
    /\ \/ tm' = [tm EXCEPT !.panes = Kept, !.zoom = FALSE]
       \/ Len(Kept) = 1 /\ tm' = [panes |-> rem.order, shape |-> Raw(rem), zoom |-> FALSE]
    /\ mw' = [mw EXCEPT !.localPanes = tm'.panes, !.layout = None, !.appliedZoom = FALSE,
                        !.floats = IF tm'.panes = <<>> THEN NoFloats ELSE pc.L.floats]
    /\ UNCHANGED stale

Reset ==
    /\ pc.at = "reset" /\ (SetupDone \/ SetupFails)
    /\ Rested /\ Reads /\ UNCHANGED <<Env, drag>>

LoopNext == Drain \/ TakeLine \/ Intent \/ Read \/ SnapNothing \/ SnapPass \/ Pass \/ Reread \/ SettleFloats \/ Reset

Next == RemoteNext \/ LocalDrag \/ LocalKill \/ LoopNext
Spec == Init /\ [][Next]_mvars

----------------------------------------------------------------------------
Quiet == pc.at = "rest" /\ stream = <<>> /\ async = <<>> /\ ~drag.due /\ ~hurt

(* With no line left to read and no local failure outstanding, the window renders the
   remote's panes in the remote's order and shape, its floats, and its zoom unless a
   float holds the remote's focus (reconcileSnapshot's contract). *)
MirrorTrue ==
    Quiet =>
      /\ tm.panes = rem.order /\ mw.remotePanes = rem.order
      /\ tm.shape = Raw(rem) /\ mw.floats = rem.floats
      /\ rem.active \in ToSet(rem.order) => tm.zoom = rem.zoom

(* Nothing on screen then predates the last move of its cell: a reshape the mirror never
   saw end to end is repainted as well (reshapeOwed, transientreseed.go).  Which pane a
   zoomed window shows is not known while a float has its focus. *)
Repainted ==
    Quiet /\ (rem.zoom => rem.active \in ToSet(rem.order)) =>
        stale \intersect Shown(rem.order, rem.zoom, rem.active) = {}

(* While no local step has failed, surgery never closes the window by killing its last
   pane, and outside a rebuild it keeps every renderer whose remote pane is still wanted
   (planPaneOps, applyPaneOps). *)
Spares ==
    LoopNext /\ ~hurt =>
        /\ tm'.panes # <<>>
        /\ pc.at = "pass" => ToSet(tm.panes) \intersect ToSet(pc.L.order) \subseteq ToSet(tm'.panes)
SurgerySpares == [][Spares]_mvars

(* Local pane i renders remote pane i whenever the counts agree, which is all that
   applyPaneOps looks at before it kills and swaps by position (panediff.go:12-14). *)
PositionsHold == pc.at = "rest" /\ Counted(tm.panes, mw.remotePanes) => tm.panes = mw.remotePanes

TypeOK ==
    /\ rem.order \in Seq(Panes) /\ tm.panes \in Seq(Panes) /\ mw.remotePanes \in Seq(Panes)
    /\ pc.at \in {"rest", "read", "snap", "pass", "reread", "floats", "reset"}
    /\ stale \subseteq Panes /\ DOMAIN mw.floats \subseteq Floats
=============================================================================
