---- MODULE OutputSink ----
(***************************************************************************)
(* What keeps one mirrored pane's screen true: the pane's outputSink, the  *)
(* pump goroutine that writes its frames to the renderer, and the main     *)
(* loop's repaint operations (daemon/daemon.go, daemon/reconcile.go).      *)
(*                                                                         *)
(* Terminal output is positional, so the data is one number: the remote    *)
(* pane has drawn chunks 1..drawn, a renderer shows chunks 1..upto and is  *)
(* "whole" while nothing was skipped or repeated, and a seed, being a      *)
(* capture of the remote's screen, makes it whole again up to the chunk    *)
(* the capture saw.  The control stream is one FIFO that carries output,   *)
(* %pause and replies in the order tmux wrote them (ReplyStream proves     *)
(* the pairing of replies that is taken for granted here).                 *)
(***************************************************************************)
EXTENDS Integers, Sequences, SequencesExt

CONSTANTS
    Buf,        \* outputSinkBuf, the capacity of a sink's channel
    Float,      \* the pane is a mirrored float, not a tiled pane
    MaxDrawn,   \* bound: chunks the remote pane draws
    MaxPauses,  \* bound: %pause notifications
    MaxPasses,  \* bound: reconcile passes that reshape the pane
    MaxResets,  \* bound: rebuilds of the window (resetWindow)
    MaxDrops    \* bound: connections lost

ASSUME BufAssumption == Buf \in Nat \ {0}
ASSUME FloatAssumption == Float \in BOOLEAN
ASSUME BoundsAssumption ==
    /\ MaxDrawn \in Nat /\ MaxPauses \in Nat /\ MaxPasses \in Nat
    /\ MaxResets \in Nat /\ MaxDrops \in Nat

Gens == 1..(MaxResets + 1)   \* successive sinks of the pane

VARIABLES
    \* the remote pane, as tmux serves it to this control client
    drawn,     \* chunks drawn so far
    rpaused,   \* tmux has paused the pane: its output is discarded
    pauses,    \* %pause sent so far
    \* the control connection
    up, line,
    asked,     \* the command tmux has yet to run: "none", "continue", "capture", "layout"
    drops,
    \* the daemon's sinks and the renderer
    sink, made, \* every sink made for the pane, and how many
    cur,       \* the one Router.sinks holds, 0 for none
    screen,
    \* the main loop
    pc, inRepair, async, holds, armed, passes,
    \* history
    routed,    \* the last chunk the main loop has taken off the stream
    moved,     \* the pane was reshaped on this pass of the main loop
    early      \* a sink wrote to the renderer before its predecessor's pump had returned

remoteVars == <<drawn, rpaused, pauses>>
lineVars   == <<up, line, asked, drops>>
sinkVars   == <<sink, made, cur, screen, early>>
mainVars   == <<pc, inRepair, async, holds, armed, passes, moved>>
vars == <<remoteVars, lineVars, sinkVars, mainVars, routed>>

----------------------------------------------------------------------------
(* Frames, and what the pump makes of each. *)

FrameTypes == {"output", "seed", "hold", "release", "resize", "owe"}
Frames == [typ : FrameTypes, n : 0..MaxDrawn]
Frame(t) == [typ |-> t, n |-> 0]
Output(n) == [typ |-> "output", n |-> n]
Seed(n) == [typ |-> "seed", n |-> n]

Items == [typ : {"output", "pause", "reply"}, n : 0..MaxDrawn]
Item(t, n) == [typ |-> t, n |-> n]

Blank == [upto |-> 0, whole |-> TRUE, alt |-> FALSE]

\* Output applied to a screen: it lands where it belongs only on top of exactly
\* the chunks that precede it, and never on a hold's alternate screen.
Paint(v, n) ==
    IF ~v.alt /\ n = v.upto + 1
        THEN [v EXCEPT !.upto = n]
        ELSE [v EXCEPT !.whole = FALSE]

\* Mutant of Effect: the seed does not leave the alternate screen.
EffectNoLeave(v, f) ==
    CASE f.typ = "output" /\ ~v.held -> [v EXCEPT !.screen = Paint(@, f.n)]
      [] f.typ = "seed" ->
            [held |-> FALSE, screen |-> [upto |-> f.n, whole |-> TRUE, alt |-> v.screen.alt]]
      [] f.typ = "hold" /\ ~v.held ->
            [held |-> TRUE, screen |-> [v.screen EXCEPT !.alt = TRUE]]
      [] OTHER -> v

\* Frame f written by a pump whose held flag and renderer are v.held and v.screen.
Effect(v, f) ==
    CASE f.typ = "output" /\ ~v.held -> [v EXCEPT !.screen = Paint(@, f.n)]
      [] f.typ = "seed" ->
            [held |-> FALSE, screen |-> [upto |-> f.n, whole |-> TRUE, alt |-> FALSE]]
      [] f.typ = "hold" /\ ~v.held ->
            [held |-> TRUE, screen |-> [v.screen EXCEPT !.alt = TRUE]]
      [] OTHER -> v

----------------------------------------------------------------------------
(* The operations of a sink, each under outputSink.mu.  dropped is a count  *)
(* in the code; only whether it is zero is ever asked.                      *)

Sinks == [ch : Seq(Frames), closed : BOOLEAN, paused : BOOLEAN, dropped : BOOLEAN,
          reshaped : {"none", "marked", "due"}, hand : Seq(Frames), held : BOOLEAN,
          done : BOOLEAN]

Fresh == [ch |-> <<>>, closed |-> FALSE, paused |-> FALSE, dropped |-> FALSE,
          reshaped |-> "none", hand |-> <<>>, held |-> FALSE, done |-> FALSE]
Finished == [Fresh EXCEPT !.closed = TRUE, !.done = TRUE]

HasRoom(s) == Len(s.ch) < Buf

Enqueue(s, f) ==
    IF s.closed THEN s
    ELSE IF HasRoom(s) THEN [s EXCEPT !.ch = Append(@, f)]
    ELSE [s EXCEPT !.dropped = TRUE]

WriteOwned(s, n) == IF s.paused THEN s ELSE Enqueue(s, Output(n))

CanHold(s) == ~s.closed /\ ~s.paused /\ HasRoom(s)
QueueHold(s) == [s EXCEPT !.ch = Append(@, Frame("hold"))]

Release(s) == Enqueue(s, Frame("release"))

MarkReshaped(s) == IF s.closed THEN s ELSE [s EXCEPT !.reshaped = "marked"]

\* The gate takeDirty and takeReshaped share.
Drained(s) == ~s.closed /\ ~s.paused /\ s.ch = <<>>

Close(s) == [s EXCEPT !.closed = TRUE]

\* The sinks after operation Op of the registered one; none when the pane has none.
OnSink(Op(_)) == IF cur = 0 THEN sink ELSE [sink EXCEPT ![cur] = Op(@)]

----------------------------------------------------------------------------
Init ==
    /\ drawn = 0 /\ rpaused = FALSE /\ pauses = 0
    /\ up = TRUE /\ line = <<>> /\ asked = "none" /\ drops = 0
    /\ sink = [g \in Gens |-> IF g = 1 THEN Fresh ELSE Finished] /\ made = 1 /\ cur = 1
    /\ screen = Blank
    /\ pc = "settle" /\ inRepair = FALSE /\ async = 0 /\ holds = 0 /\ armed = FALSE /\ passes = 0
    /\ moved = FALSE
    /\ routed = 0 /\ early = FALSE

----------------------------------------------------------------------------
(* The remote tmux and the connection. *)

Draw ==
    /\ drawn < MaxDrawn
    /\ drawn' = drawn + 1
    /\ line' = IF up /\ ~rpaused THEN Append(line, Item("output", drawn + 1)) ELSE line
    /\ UNCHANGED <<rpaused, pauses, up, asked, drops, sinkVars, mainVars, routed>>

\* pause-after: the client fell behind, so tmux discards the pane's output.
PausePane ==
    /\ up /\ armed /\ ~rpaused /\ pauses < MaxPauses
    /\ rpaused' = TRUE /\ pauses' = pauses + 1
    /\ line' = Append(line, Item("pause", 0))
    /\ UNCHANGED <<drawn, up, asked, drops, sinkVars, mainVars, routed>>

Answer ==
    /\ up /\ asked # "none"
    /\ asked' = "none"
    /\ rpaused' = IF asked = "continue" THEN FALSE ELSE rpaused
    /\ line' = Append(line, Item("reply", drawn))
    /\ UNCHANGED <<drawn, pauses, up, drops, sinkVars, mainVars, routed>>

\* Whatever was in flight beyond some point is lost.
ConnectionLost ==
    /\ up /\ drops < MaxDrops
    /\ up' = FALSE /\ drops' = drops + 1 /\ asked' = "none"
    /\ \E k \in 0..Len(line) : line' = SubSeq(line, 1, k)
    /\ UNCHANGED <<remoteVars, sinkVars, mainVars, routed>>

----------------------------------------------------------------------------
(* The pump of sink g (outputSink.start). *)

\* drainOutput: every output frame already queued, and the one frame behind them.
LeadingOutputs(q) ==
    LET stop == SelectInSeq(q, LAMBDA f : f.typ # "output")
    IN  IF stop = 0 THEN Len(q) ELSE stop

\* Mutant of PumpTake: the pump stops taking frames once the sink is closed.
PumpTakeOpenOnly(g) ==
    /\ ~sink[g].closed /\ sink[g].hand = <<>> /\ sink[g].ch # <<>>
    /\ LET k == LeadingOutputs(sink[g].ch)
       IN  sink' = [sink EXCEPT ![g].hand = SubSeq(sink[g].ch, 1, k),
                                ![g].ch = SubSeq(@, k + 1, Len(@))]
    /\ UNCHANGED <<remoteVars, lineVars, made, cur, screen, early, mainVars, routed>>

PumpTake(g) ==
    /\ ~sink[g].done /\ sink[g].hand = <<>> /\ sink[g].ch # <<>>
    /\ LET k == LeadingOutputs(sink[g].ch)
       IN  sink' = [sink EXCEPT ![g].hand = SubSeq(sink[g].ch, 1, k),
                                ![g].ch = SubSeq(@, k + 1, Len(@))]
    /\ UNCHANGED <<remoteVars, lineVars, made, cur, screen, early, mainVars, routed>>

\* Frame f reaches the renderer before the pump of an earlier sink has returned.
Overtakes(g) == \E h \in Gens : h < g /\ ~sink[h].done

PumpWrite(g) ==
    /\ sink[g].hand # <<>>
    /\ LET f == Head(sink[g].hand)
           v == Effect([held |-> sink[g].held, screen |-> screen], f)
           owes == f.typ = "owe" \/ (f.typ = "release" /\ sink[g].held)
       IN  /\ sink' = [sink EXCEPT ![g].hand = Tail(@), ![g].held = v.held,
                                   ![g].dropped = @ \/ owes]
           /\ screen' = v.screen
    /\ early' = (early \/ Overtakes(g))
    /\ UNCHANGED <<remoteVars, lineVars, made, cur, mainVars, routed>>

\* Mutant of PumpDeadline: the pane is let go with no reseed owed.
PumpDeadlineForgets(g) ==
    /\ ~sink[g].done /\ sink[g].held /\ sink[g].hand = <<>>
    /\ sink' = [sink EXCEPT ![g].held = FALSE]
    /\ screen' = [screen EXCEPT !.alt = FALSE, !.whole = FALSE]
    /\ UNCHANGED <<remoteVars, lineVars, made, cur, early, mainVars, routed>>

\* holdFreezeMax: the seed never came.  ?1049l is written first and the sink
\* marked dropped after it ("owe").
PumpDeadline(g) ==
    /\ ~sink[g].done /\ sink[g].held /\ sink[g].hand = <<>>
    /\ sink' = [sink EXCEPT ![g].held = FALSE, ![g].hand = <<Frame("owe")>>]
    /\ screen' = [screen EXCEPT !.alt = FALSE, !.whole = FALSE]
    /\ UNCHANGED <<remoteVars, lineVars, made, cur, early, mainVars, routed>>

PumpExit(g) ==
    /\ sink[g].closed /\ ~sink[g].done /\ sink[g].ch = <<>> /\ sink[g].hand = <<>>
    /\ sink' = [sink EXCEPT ![g].done = TRUE, ![g].held = FALSE]
    /\ UNCHANGED <<remoteVars, lineVars, made, cur, screen, early, mainVars, routed>>

Pump(g) == PumpTake(g) \/ PumpWrite(g) \/ PumpDeadline(g) \/ PumpExit(g)

----------------------------------------------------------------------------
(* The main loop's round-trips.  Ask writes a command; on a connection that  *)
(* is gone it is never answered and the read ends in Lost.                   *)

Awaiting == {"continuing", "repaint", "reshape", "reread", "setup",
             "wire", "reseed", "confirm", "repaintAll"}

Ask(what, then) ==
    /\ asked' = IF up THEN what ELSE "none"
    /\ pc' = then

\* Router.Route: the output of an unregistered (gone) pane is dropped.
Route(n) == OnSink(LAMBDA s : WriteOwned(s, n))

\* While a round-trip waits, its reader routes output and queues the rest.
RouteAside ==
    /\ pc \in Awaiting /\ line # <<>> /\ Head(line).typ # "reply"
    /\ line' = Tail(line)
    /\ IF Head(line).typ = "output"
          THEN /\ sink' = Route(Head(line).n) /\ routed' = Head(line).n
               /\ UNCHANGED async
          ELSE async' = async + 1 /\ UNCHANGED <<sink, routed>>
    /\ UNCHANGED <<remoteVars, up, asked, drops, made, cur, screen, early,
                   pc, inRepair, holds, armed, moved, passes>>

\* The reply the main loop is waiting for in p.
Replied(p) ==
    /\ pc = p /\ line # <<>> /\ Head(line).typ = "reply"
    /\ line' = Tail(line)

\* The connection ended before the reply.
Lost(p) == pc = p /\ ~up /\ line = <<>>

----------------------------------------------------------------------------
(* handlePause and handleContinue. *)

HandlePause ==
    /\ sink' = OnSink(LAMBDA s : [s EXCEPT !.paused = TRUE])
    /\ Ask("continue", "continuing")

Continued ==
    /\ Replied("continuing")
    /\ Ask("capture", "repaint")
    /\ UNCHANGED <<remoteVars, up, drops, sinkVars, inRepair, async, holds, armed, moved, passes, routed>>

ContinueLost ==
    /\ Lost("continuing")
    /\ pc' = "settle"
    /\ UNCHANGED <<remoteVars, lineVars, sinkVars, inRepair, async, holds, armed, moved, passes, routed>>

\* Mutant of Repainted: the sink is resumed but the seed forgotten.
RepaintedUnseeded ==
    /\ Replied("repaint")
    /\ sink' = OnSink(LAMBDA s : [s EXCEPT !.paused = FALSE])
    /\ routed' = Head(line).n /\ pc' = "settle"
    /\ UNCHANGED <<remoteVars, up, asked, drops, made, cur, screen, early,
                   inRepair, async, holds, armed, moved, passes>>

Repainted ==
    /\ Replied("repaint")
    /\ sink' = OnSink(LAMBDA s : [Enqueue(s, Seed(Head(line).n)) EXCEPT !.paused = FALSE])
    /\ routed' = Head(line).n /\ pc' = "settle"
    /\ UNCHANGED <<remoteVars, up, asked, drops, made, cur, screen, early,
                   inRepair, async, holds, armed, moved, passes>>

RepaintLost ==
    /\ Lost("repaint")
    /\ sink' = OnSink(LAMBDA s : [s EXCEPT !.paused = FALSE])
    /\ pc' = "settle"
    /\ UNCHANGED <<remoteVars, lineVars, made, cur, screen, early,
                   inRepair, async, holds, armed, moved, passes, routed>>

----------------------------------------------------------------------------
(* One top-of-loop pass: settle, then the two reseeds, then select. *)

SettlePause ==
    /\ pc = "settle" /\ async > 0
    /\ async' = async - 1
    /\ HandlePause
    /\ UNCHANGED <<remoteVars, up, line, drops, made, cur, screen, early,
                   inRepair, holds, armed, moved, passes, routed>>

SettleDone ==
    /\ pc = "settle" /\ async = 0
    /\ pc' = "dropped"
    /\ UNCHANGED <<remoteVars, lineVars, sinkVars, inRepair, async, holds, armed, moved, passes, routed>>

\* reseedDropped: takeDirty clears the debt before the capture is asked for.
ReseedDropped ==
    /\ pc = "dropped"
    /\ IF sink[cur].dropped /\ Drained(sink[cur])
          THEN /\ sink' = [sink EXCEPT ![cur].dropped = FALSE]
               /\ Ask("capture", "reseed")
          ELSE pc' = "due" /\ UNCHANGED <<sink, asked>>
    /\ UNCHANGED <<remoteVars, up, line, drops, made, cur, screen, early,
                   inRepair, async, holds, armed, moved, passes, routed>>

\* Mutant of ReseedReshaped: the confirmation comes due on the pass that marked it.
ReseedReshapedAtOnce ==
    /\ pc = "due"
    /\ armed' = TRUE /\ moved' = FALSE
    /\ IF sink[cur].reshaped # "none" /\ Drained(sink[cur])
          THEN /\ sink' = [sink EXCEPT ![cur].reshaped = "none"]
               /\ Ask("capture", "confirm")
          ELSE pc' = "select" /\ UNCHANGED <<sink, asked>>
    /\ UNCHANGED <<remoteVars, up, line, drops, made, cur, screen, early,
                   inRepair, async, holds, passes, routed>>

\* reseedReshaped (takeReshaped), and the pause-after flag behind it.
ReseedReshaped ==
    /\ pc = "due"
    /\ armed' = TRUE /\ moved' = FALSE
    /\ \/ /\ sink[cur].reshaped = "due" /\ Drained(sink[cur])
          /\ sink' = [sink EXCEPT ![cur].reshaped = "none"]
          /\ Ask("capture", "confirm")
       \/ /\ sink[cur].reshaped = "marked" /\ Drained(sink[cur])
          /\ sink' = [sink EXCEPT ![cur].reshaped = "due"]
          /\ pc' = "select" /\ UNCHANGED asked
       \/ /\ sink[cur].reshaped = "none" \/ ~Drained(sink[cur])
          /\ pc' = "select" /\ UNCHANGED <<sink, asked>>
    /\ UNCHANGED <<remoteVars, up, line, drops, made, cur, screen, early,
                   inRepair, async, holds, passes, routed>>

\* The seed a repaint asked for in p, and where the loop goes on to.
Seeded(p, then) ==
    /\ Replied(p)
    /\ sink' = OnSink(LAMBDA s : Enqueue(s, Seed(Head(line).n)))
    /\ routed' = Head(line).n /\ pc' = then
    /\ inRepair' = (inRepair /\ p # "repaintAll")
    /\ UNCHANGED <<remoteVars, up, asked, drops, made, cur, screen, early,
                   async, holds, armed, moved, passes>>

SeedLost(p, then) ==
    /\ Lost(p)
    /\ pc' = then
    /\ inRepair' = (inRepair /\ p # "repaintAll")
    /\ UNCHANGED <<remoteVars, lineVars, sinkVars, async, holds, armed, moved, passes, routed>>

Reseeds == {<<"reseed", "due">>, <<"confirm", "select">>, <<"repaintAll", "settle">>}

Reseeded == \E r \in Reseeds : Seeded(r[1], r[2]) \/ SeedLost(r[1], r[2])

SelectOutput ==
    /\ pc = "select" /\ line # <<>> /\ Head(line).typ = "output"
    /\ line' = Tail(line) /\ routed' = Head(line).n
    /\ sink' = Route(Head(line).n)
    /\ pc' = "settle"
    /\ UNCHANGED <<remoteVars, up, asked, drops, made, cur, screen, early,
                   inRepair, async, holds, armed, moved, passes>>

SelectPause ==
    /\ pc = "select" /\ line # <<>> /\ Head(line).typ = "pause"
    /\ line' = Tail(line)
    /\ HandlePause
    /\ UNCHANGED <<remoteVars, up, drops, made, cur, screen, early,
                   inRepair, async, holds, armed, moved, passes, routed>>

Tick ==
    /\ pc = "select"
    /\ pc' = "settle"
    /\ UNCHANGED <<remoteVars, lineVars, sinkVars, inRepair, async, holds, armed, moved, passes, routed>>

\* connStreamEnded dispatches what is still queued on the dead connection.
StreamEnded ==
    /\ Lost("select")
    /\ sink' = OnSink(LAMBDA s : [s EXCEPT !.paused = @ \/ async > 0])
    /\ async' = 0 /\ pc' = "down"
    /\ UNCHANGED <<remoteVars, lineVars, made, cur, screen, early,
                   inRepair, holds, armed, moved, passes, routed>>

----------------------------------------------------------------------------
(* reconcileSnapshot, for a tiled pane its passes reshape. *)

CanReshape == ~Float /\ passes < MaxPasses

StartReconcile ==
    /\ pc = "settle" /\ async = 0 /\ CanReshape
    /\ pc' = "hold"
    /\ UNCHANGED <<remoteVars, lineVars, sinkVars, inRepair, async, holds, armed, moved, passes, routed>>

\* holdReshaped; a pane that cannot be held is reshaped without.
PassHold ==
    /\ pc = "hold"
    /\ pc' = "shape" /\ passes' = passes + 1
    /\ \/ CanHold(sink[cur]) /\ sink' = OnSink(QueueHold) /\ holds' = holds + 1
       \/ UNCHANGED <<sink, holds>>
    /\ UNCHANGED <<remoteVars, lineVars, made, cur, screen, early, inRepair, async, armed, moved, routed>>

\* applyLayout landed the shape: new dims, then a capture; or it did not.
PassShape ==
    /\ pc = "shape"
    /\ \/ /\ sink' = OnSink(LAMBDA s : Enqueue(s, Frame("resize")))
          /\ Ask("capture", "reshape")
       \/ Ask("layout", "reread") /\ UNCHANGED sink
    /\ UNCHANGED <<remoteVars, up, line, drops, made, cur, screen, early,
                   inRepair, async, holds, armed, moved, passes, routed>>

PassSeeded ==
    /\ Replied("reshape")
    /\ sink' = OnSink(LAMBDA s : Enqueue(MarkReshaped(s), Seed(Head(line).n)))
    /\ routed' = Head(line).n
    /\ moved' = TRUE
    /\ Ask("layout", "reread")
    /\ UNCHANGED <<remoteVars, up, drops, made, cur, screen, early,
                   inRepair, async, holds, armed, passes>>

PassSeedLost ==
    /\ Lost("reshape")
    /\ Ask("layout", "reread")
    /\ UNCHANGED <<remoteVars, up, line, drops, sinkVars,
                   inRepair, async, holds, armed, moved, passes, routed>>

\* The trailing re-read: another pass when the remote has moved on.
Reread ==
    /\ \/ Replied("reread") /\ pc' = "release"
       \/ Replied("reread") /\ CanReshape /\ pc' = "hold"
       \/ Lost("reread") /\ pc' = "release" /\ UNCHANGED line
    /\ UNCHANGED <<remoteVars, up, asked, drops, sinkVars,
                   inRepair, async, holds, armed, moved, passes, routed>>

\* The deferred release, once per hold taken, on every exit.
ReleaseHold ==
    /\ pc = "release" /\ holds > 0
    /\ holds' = holds - 1
    /\ sink' = OnSink(Release)
    /\ UNCHANGED <<remoteVars, lineVars, made, cur, screen, early,
                   pc, inRepair, async, armed, moved, passes, routed>>

ReconcileDone ==
    /\ pc = "release" /\ holds = 0
    /\ IF inRepair THEN Ask("capture", "repaintAll") ELSE pc' = "settle" /\ UNCHANGED asked
    /\ UNCHANGED <<remoteVars, up, line, drops, sinkVars,
                   inRepair, async, holds, armed, moved, passes, routed>>

----------------------------------------------------------------------------
(* resetWindow: the pane loses its sink, setupWindow runs, and either wires  *)
(* a new renderer or fails and hands the old one to a fresh sink.  A hold of *)
(* the closed sink needs no release.                                         *)

Reset ==
    /\ pc = "shape" /\ made <= MaxResets
    /\ sink' = OnSink(Close) /\ cur' = 0 /\ holds' = 0
    /\ Ask("layout", "setup")
    /\ UNCHANGED <<remoteVars, up, line, drops, made, screen, early,
                   inRepair, async, armed, moved, passes, routed>>

\* A fresh sink registered with the router, and the reconcile over.
Wired(s) ==
    /\ made' = made + 1 /\ cur' = made + 1
    /\ sink' = [sink EXCEPT ![made + 1] = s]
    /\ pc' = "release"

\* setupWindow failed before it respawned anything: the surviving renderer goes
\* to a fresh sink that owes it a reseed (oweReseed).
Revive ==
    /\ \/ Replied("setup")
       \/ Lost("setup") /\ UNCHANGED line
    /\ Wired([Fresh EXCEPT !.dropped = TRUE])
    /\ UNCHANGED <<remoteVars, up, asked, drops, screen, early,
                   inRepair, async, holds, armed, moved, passes, routed>>

\* The kept pane's renderer is respawned, so nothing more reaches the old one.
SetupSpawned ==
    /\ Replied("setup")
    /\ screen' = Blank
    /\ sink' = [g \in Gens |-> Finished]
    /\ Ask("capture", "wire")
    /\ UNCHANGED <<remoteVars, up, drops, made, cur, early,
                   inRepair, async, holds, armed, moved, passes, routed>>

\* wireRenderer: the seed is the sink's first frame, the dims the second; a
\* failed capture wires the pane unseeded.
Wire ==
    \/ /\ Replied("wire")
       /\ Wired(Enqueue(Enqueue(Fresh, Seed(Head(line).n)), Frame("resize")))
       /\ routed' = Head(line).n
       /\ UNCHANGED <<remoteVars, up, asked, drops, screen, early,
                      inRepair, async, holds, armed, moved, passes>>
    \/ /\ Lost("wire")
       /\ Wired(Enqueue(Fresh, Frame("resize")))
       /\ UNCHANGED <<remoteVars, lineVars, screen, early,
                      inRepair, async, holds, armed, moved, passes, routed>>

----------------------------------------------------------------------------
(* reattach and repair; the end of the pane. *)

\* A new control client: tmux holds no pane paused for it.
Attach ==
    /\ pc = "down"
    /\ up' = TRUE /\ line' = <<>> /\ rpaused' = FALSE
    /\ armed' = FALSE /\ inRepair' = TRUE /\ pc' = "repair"
    /\ UNCHANGED <<drawn, pauses, asked, drops, sinkVars, async, holds, moved, passes, routed>>

\* Mutant of Repair: no sink is resumed.
RepairStillPaused ==
    /\ pc = "repair"
    /\ \/ CanReshape /\ pc' = "hold" /\ UNCHANGED asked
       \/ Ask("capture", "repaintAll")
    /\ UNCHANGED <<remoteVars, up, line, drops, sinkVars,
                   inRepair, async, holds, armed, moved, passes, routed>>

\* repair resumes the sinks of the tiled panes, reconciles each window, and
\* reseeds every pane, floats included (reseedPanes).
Repair ==
    /\ pc = "repair"
    /\ sink' = IF Float THEN sink ELSE OnSink(LAMBDA s : [s EXCEPT !.paused = FALSE])
    /\ \/ CanReshape /\ pc' = "hold" /\ UNCHANGED asked
       \/ Ask("capture", "repaintAll")
    /\ UNCHANGED <<remoteVars, up, line, drops, made, cur, screen, early,
                   inRepair, async, holds, armed, moved, passes, routed>>

\* The remote window closed: the pane is unregistered and its sink closed.
Retire ==
    /\ pc = "settle"
    /\ sink' = OnSink(Close) /\ cur' = 0 /\ pc' = "gone"
    /\ UNCHANGED <<remoteVars, lineVars, made, screen, early,
                   inRepair, async, holds, armed, moved, passes, routed>>

----------------------------------------------------------------------------
FarEnd == Draw \/ PausePane \/ Answer \/ ConnectionLost

\* What the main loop does of itself once it is there to do.
MainStep ==
    \/ RouteAside \/ Continued \/ ContinueLost \/ Repainted \/ RepaintLost
    \/ SettlePause \/ SettleDone \/ ReseedDropped \/ ReseedReshaped \/ Reseeded
    \/ SelectOutput \/ SelectPause \/ Tick \/ StreamEnded
    \/ PassHold \/ PassShape \/ PassSeeded \/ PassSeedLost \/ Reread
    \/ ReleaseHold \/ ReconcileDone
    \/ Revive \/ SetupSpawned \/ Wire \/ Attach \/ Repair

Next == FarEnd \/ (\E g \in Gens : Pump(g)) \/ MainStep
        \/ StartReconcile \/ Reset \/ Retire

Spec == Init /\ [][Next]_vars

\* The scheduler runs the pumps and the main loop, and the renderer keeps
\* reading; Go's select takes a line that stays ready, against a tick that
\* fires seconds apart; the hold deadline fires; the remote answers a live
\* connection and a lost one is dialled again.
Fairness ==
    /\ \A g \in Gens : /\ WF_vars(PumpTake(g) \/ PumpWrite(g) \/ PumpExit(g))
                       /\ WF_vars(PumpDeadline(g))
    /\ WF_vars(MainStep)
    /\ SF_vars(SelectOutput \/ SelectPause \/ StreamEnded)
    /\ WF_vars(Answer)

FairSpec == Spec /\ Fairness

----------------------------------------------------------------------------
(* Properties. *)

Places == Awaiting \cup {"settle", "dropped", "due", "select", "hold", "shape",
                         "release", "down", "repair", "gone"}

\* Every variable stays in its type, and a channel within its capacity.
TypeOK ==
    /\ drawn \in 0..MaxDrawn /\ rpaused \in BOOLEAN /\ pauses \in 0..MaxPauses
    /\ up \in BOOLEAN /\ line \in Seq(Items) /\ drops \in 0..MaxDrops
    /\ asked \in {"none", "continue", "capture", "layout"}
    /\ sink \in [Gens -> Sinks] /\ made \in Gens /\ cur \in 0..made
    /\ \A g \in Gens : Len(sink[g].ch) <= Buf
    /\ screen \in [upto : 0..MaxDrawn, whole : BOOLEAN, alt : BOOLEAN]
    /\ pc \in Places /\ inRepair \in BOOLEAN /\ async \in Nat /\ holds \in 0..MaxPasses
    /\ armed \in BOOLEAN /\ passes \in 0..MaxPasses
    /\ routed \in 0..MaxDrawn /\ moved \in BOOLEAN /\ early \in BOOLEAN

\* The renderer once the registered sink's pump has written all it was given.
Outcome ==
    FoldLeft(Effect, [held |-> sink[cur].held, screen |-> screen],
             sink[cur].hand \o sink[cur].ch)

\* A seed is on its way, or the code has recorded that one is owed.
ReseedOwed ==
    \/ sink[cur].dropped \/ sink[cur].paused
    \/ \E i \in 1..Len(sink[cur].hand) : sink[cur].hand[i].typ = "owe"
    \/ pc \in {"continuing", "repaint", "reseed"}
    \/ ~up \/ inRepair

\* No frame goes missing in silence: unless a reseed is owed, the frames queued
\* bring the renderer to exactly what the main loop has taken off the stream,
\* off any hold, or leave it held with the deadline still to come (#412).
ScreenHonest ==
    cur # 0 /\ ~ReseedOwed /\ ~early
        => \/ Outcome.held
           \/ Outcome.screen = [upto |-> routed, whole |-> TRUE, alt |-> FALSE]

\* A sink the outage left paused is resumed before the reseed repair asks for
\* (the comment at runMirror's repair loop).
ResumedBeforeReseed == pc = "repaintAll" /\ cur # 0 => ~sink[cur].paused

\* The confirmation capture of a reshape belongs to a later pass of the main
\* loop than the reshape itself, however the two overlap (markReshaped).
ConfirmedLater == [][pc = "due" /\ pc' = "confirm" => ~moved]_vars

\* Each reseed has its place: behind the resume it needs, in a later pass than
\* the reshape it confirms.
ReseedOrdered == []ResumedBeforeReseed /\ ConfirmedLater

\* No living pane stays on a hold's alternate screen: a seed or the deadline ends it.
HoldEnds == screen.alt ~> ~screen.alt \/ pc = "gone"

\* Once the remote goes quiet, the renderer ends up showing what it shows,
\* whatever was dropped, paused, held or cut on the way.
CatchesUp ==
    <>[](cur # 0 => screen = [upto |-> drawn, whole |-> TRUE, alt |-> FALSE])

\* Wait returns: the pump of a closed sink always finishes.
PumpReturns == \A g \in Gens : sink[g].closed ~> sink[g].done

\* Neither a renderer nor a pump is left waiting.
LetsGo == HoldEnds /\ PumpReturns

\* A fresh sink's reseed has the last word on a renderer it takes over, its hold
\* released (the comments at resetWindow and at the pump's close path): a
\* renderer nobody owes anything is not left on a hold's alternate screen.
HandoverReleases == cur # 0 /\ ~ReseedOwed => Outcome.held \/ ~Outcome.screen.alt
====
