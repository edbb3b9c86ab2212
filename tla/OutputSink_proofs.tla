------------------------- MODULE OutputSink_proofs -------------------------
(***************************************************************************)
(* Proofs about a pane's sink, for any buffer, any bounds and any          *)
(* interleaving of the pumps, the main loop and the remote.                *)
(*                                                                         *)
(* First the order of a pane's reseeds.  That the sink is resumed when     *)
(* repair reseeds is not inductive: repair resumes it many steps earlier,  *)
(* with a whole reconcile in between.  Resumed says where a repair can be, *)
(* and that nothing on its way pauses the sink or registers a paused one.  *)
(* Marked does the same for the reshape: what makes its confirmation due   *)
(* also ends the pass that reshaped.                                       *)
(*                                                                         *)
(* Then that no frame goes missing in silence (ScreenHonest), for tiled    *)
(* panes and floats.  Kept is what the step needs: that what the stream    *)
(* carries continues what was routed (Flow), which rests on how pauses and *)
(* replies lie in it (Pauses, Answers), and that while an older pump is    *)
(* still at the renderer a seed of the current sink is to come (Shown).    *)
(***************************************************************************)
EXTENDS OutputSink, FoldSums, SequenceTheorems, TLAPS

\* A sink is a record of its fields, whatever its frames are.
Fields(s) ==
    s = [ch |-> s.ch, closed |-> s.closed, paused |-> s.paused, dropped |-> s.dropped,
         reshaped |-> s.reshaped, hand |-> s.hand, held |-> s.held, done |-> s.done]

Shape ==
    /\ made \in Gens /\ cur \in 0..made
    /\ sink = [g \in Gens |-> sink[g]] /\ \A g \in Gens : Fields(sink[g])
    /\ inRepair \in BOOLEAN /\ moved \in BOOLEAN

\* The pane has no sink while its window is rebuilt and once it is gone, and
\* the one it has is open.
Registered ==
    /\ cur = 0 <=> pc \in {"setup", "wire", "gone"}
    /\ pc \in {"setup", "wire"} => made <= MaxResets
    /\ cur # 0 => ~sink[cur].closed

\* From the resume on a repair leaves the sink as it found it.
Resumed ==
    /\ pc \in {"repair", "repaintAll"} => inRepair
    /\ inRepair => pc \in {"repair", "hold", "shape", "reshape", "reread", "setup", "wire",
                           "release", "repaintAll"}
    /\ inRepair /\ ~Float /\ pc # "repair" /\ cur # 0 => ~sink[cur].paused

\* No confirmation is due on the pass that reshaped.
Marked == moved /\ cur # 0 => sink[cur].reshaped # "due"

IInv == Shape /\ Registered /\ Resumed /\ Marked

(* What an operation on a sink keeps.                                        *)
LEMMA Enqueues == ASSUME NEW s, NEW f, Fields(s)
  PROVE /\ Fields(Enqueue(s, f)) /\ Enqueue(s, f).closed = s.closed
        /\ Enqueue(s, f).paused = s.paused /\ Enqueue(s, f).reshaped = s.reshaped
BY DEF Fields, Enqueue

(* Every assignment to one field of a sink leaves the others. *)
LEMMA Edits == ASSUME NEW s, Fields(s), NEW x
  PROVE /\ LET t == [s EXCEPT !.paused = x] IN
             Fields(t) /\ t.paused = x /\ t.closed = s.closed /\ t.reshaped = s.reshaped
        /\ LET t == [s EXCEPT !.reshaped = x] IN
             Fields(t) /\ t.paused = s.paused /\ t.closed = s.closed /\ t.reshaped = x
        /\ LET t == [s EXCEPT !.dropped = x] IN
             Fields(t) /\ t.paused = s.paused /\ t.closed = s.closed /\ t.reshaped = s.reshaped
        /\ LET t == [s EXCEPT !.ch = x] IN
             Fields(t) /\ t.paused = s.paused /\ t.closed = s.closed /\ t.reshaped = s.reshaped
        /\ Fields([s EXCEPT !.closed = x])
<1>1. LET t == [s EXCEPT !.paused = x] IN
        Fields(t) /\ t.paused = x /\ t.closed = s.closed /\ t.reshaped = s.reshaped
  BY DEF Fields
<1>2. LET t == [s EXCEPT !.reshaped = x] IN
        Fields(t) /\ t.paused = s.paused /\ t.closed = s.closed /\ t.reshaped = x
  BY DEF Fields
<1>3. LET t == [s EXCEPT !.dropped = x] IN
        Fields(t) /\ t.paused = s.paused /\ t.closed = s.closed /\ t.reshaped = s.reshaped
  BY DEF Fields
<1>4. LET t == [s EXCEPT !.ch = x] IN
        Fields(t) /\ t.paused = s.paused /\ t.closed = s.closed /\ t.reshaped = s.reshaped
  BY DEF Fields
<1>5. Fields([s EXCEPT !.closed = x]) BY DEF Fields
<1>6. QED BY <1>1, <1>2, <1>3, <1>4, <1>5

LEMMA Made == Fields(Fresh) /\ Fields(Finished)
<1>1. Fields(Fresh) BY DEF Fields, Fresh
<1>2. \A x : Fields([Fresh EXCEPT !.closed = x]) BY <1>1, Edits
<1>3. ASSUME NEW s, Fields(s) PROVE \A x : Fields([s EXCEPT !.done = x]) BY <1>3 DEF Fields
<1>4. Finished = [[Fresh EXCEPT !.closed = TRUE] EXCEPT !.done = TRUE]
  BY <1>1 DEF Fields, Finished
<1>5. QED BY <1>1, <1>2, <1>3, <1>4

LEMMA CurIn == Shape => (cur # 0 => cur \in Gens)
BY BoundsAssumption DEF Shape, Gens

LEMMA Puts == ASSUME Shape, NEW g \in Gens, NEW t, Fields(t), sink' = [sink EXCEPT ![g] = t]
  PROVE /\ sink' = [h \in Gens |-> sink'[h]] /\ \A h \in Gens : Fields(sink'[h])
        /\ sink'[g] = t
<1>1. sink' = [h \in Gens |-> sink'[h]] BY DEF Shape
<1>2. sink'[g] = t BY DEF Shape
<1>3. \A h \in Gens : Fields(sink'[h]) BY DEF Shape
<1>4. QED BY <1>1, <1>2, <1>3

LEMMA Written == ASSUME Shape, NEW t, cur # 0 => Fields(t),
    sink' = IF cur = 0 THEN sink ELSE [sink EXCEPT ![cur] = t]
  PROVE /\ sink' = [g \in Gens |-> sink'[g]] /\ \A g \in Gens : Fields(sink'[g])
        /\ cur # 0 => sink'[cur] = t
<1>1. CASE cur = 0 BY <1>1 DEF Shape
<1>2. CASE cur # 0 BY <1>2, CurIn, Puts
<1>3. QED BY <1>1, <1>2

LEMMA Registers == ASSUME IInv, made <= MaxResets, NEW t, Fields(t), ~t.closed, ~t.paused,
    t.reshaped = "none", Wired(t), UNCHANGED <<inRepair, moved>>, pc \in {"setup", "wire"}
  PROVE IInv'
<1>1. made' \in Gens /\ cur' = made' /\ cur' # 0 /\ pc' = "release"
      /\ sink' = [sink EXCEPT ![cur'] = t]
  BY BoundsAssumption DEF IInv, Shape, Wired, Gens
<1>2. /\ sink' = [h \in Gens |-> sink'[h]] /\ \A h \in Gens : Fields(sink'[h])
      /\ sink'[cur'] = t
  BY <1>1, Puts DEF IInv
<1>3. Shape' BY <1>1, <1>2, BoundsAssumption DEF IInv, Shape, Gens
<1>4. Registered' BY <1>1, <1>2 DEF Registered
<1>5. Resumed' BY <1>1, <1>2 DEF IInv, Resumed
<1>6. Marked' BY <1>1, <1>2 DEF Marked
<1>7. QED BY <1>3, <1>4, <1>5, <1>6 DEF IInv

LEMMA InitInv == Init => IInv
<1> SUFFICES ASSUME Init PROVE IInv OBVIOUS
<1>1. Fields(Fresh) /\ Fields(Finished) BY Made
<1>2. sink[1] = Fresh /\ \A g \in Gens : sink[g] \in {Fresh, Finished}
  BY BoundsAssumption DEF Init, Gens
<1>3. Shape
  <2>1. \A g \in Gens : Fields(sink[g]) BY <1>1, <1>2
  <2>2. sink = [g \in Gens |-> sink[g]] BY DEF Init
  <2>3. made \in Gens /\ cur \in 0..made BY BoundsAssumption DEF Init, Gens
  <2>4. QED BY <2>1, <2>2, <2>3 DEF Init, Shape
<1>4. Registered /\ Resumed /\ Marked BY <1>2 DEF Init, Registered, Resumed, Marked, Fresh
<1>5. QED BY <1>3, <1>4 DEF IInv

(* One lemma for an action.  Where a sink is written, t is what it becomes.  *)
LEMMA DrawKeeps == ASSUME IInv, Draw PROVE IInv'
<1> USE DEF IInv, Draw, remoteVars, lineVars, sinkVars, mainVars
<1>1. Shape' BY DEF Shape
<1>2. Registered' BY DEF Registered
<1>3. Resumed' BY DEF Registered, Resumed
<1>4. Marked' BY DEF Marked
<1>5. QED BY <1>1, <1>2, <1>3, <1>4

LEMMA PausePaneKeeps == ASSUME IInv, PausePane PROVE IInv'
<1> USE DEF IInv, PausePane, remoteVars, lineVars, sinkVars, mainVars
<1>1. Shape' BY DEF Shape
<1>2. Registered' BY DEF Registered
<1>3. Resumed' BY DEF Registered, Resumed
<1>4. Marked' BY DEF Marked
<1>5. QED BY <1>1, <1>2, <1>3, <1>4

LEMMA AnswerKeeps == ASSUME IInv, Answer PROVE IInv'
<1> USE DEF IInv, Answer, remoteVars, lineVars, sinkVars, mainVars
<1>1. Shape' BY DEF Shape
<1>2. Registered' BY DEF Registered
<1>3. Resumed' BY DEF Registered, Resumed
<1>4. Marked' BY DEF Marked
<1>5. QED BY <1>1, <1>2, <1>3, <1>4

LEMMA ConnectionLostKeeps == ASSUME IInv, ConnectionLost PROVE IInv'
<1> USE DEF IInv, ConnectionLost, remoteVars, lineVars, sinkVars, mainVars
<1>1. Shape' BY DEF Shape
<1>2. Registered' BY DEF Registered
<1>3. Resumed' BY DEF Registered, Resumed
<1>4. Marked' BY DEF Marked
<1>5. QED BY <1>1, <1>2, <1>3, <1>4

LEMMA ContinuedKeeps == ASSUME IInv, Continued PROVE IInv'
<1> USE DEF IInv, Continued, Replied, Ask, remoteVars, lineVars, sinkVars, mainVars
<1>1. Shape' BY DEF Shape
<1>2. Registered' BY DEF Registered
<1>3. Resumed' BY DEF Registered, Resumed
<1>4. Marked' BY DEF Marked
<1>5. QED BY <1>1, <1>2, <1>3, <1>4

LEMMA ContinueLostKeeps == ASSUME IInv, ContinueLost PROVE IInv'
<1> USE DEF IInv, ContinueLost, Lost, remoteVars, lineVars, sinkVars, mainVars
<1>1. Shape' BY DEF Shape
<1>2. Registered' BY DEF Registered
<1>3. Resumed' BY DEF Registered, Resumed
<1>4. Marked' BY DEF Marked
<1>5. QED BY <1>1, <1>2, <1>3, <1>4

LEMMA SettleDoneKeeps == ASSUME IInv, SettleDone PROVE IInv'
<1> USE DEF IInv, SettleDone, remoteVars, lineVars, sinkVars, mainVars
<1>1. Shape' BY DEF Shape
<1>2. Registered' BY DEF Registered
<1>3. Resumed' BY DEF Registered, Resumed
<1>4. Marked' BY DEF Marked
<1>5. QED BY <1>1, <1>2, <1>3, <1>4

LEMMA TickKeeps == ASSUME IInv, Tick PROVE IInv'
<1> USE DEF IInv, Tick, remoteVars, lineVars, sinkVars, mainVars
<1>1. Shape' BY DEF Shape
<1>2. Registered' BY DEF Registered
<1>3. Resumed' BY DEF Registered, Resumed
<1>4. Marked' BY DEF Marked
<1>5. QED BY <1>1, <1>2, <1>3, <1>4

LEMMA StartReconcileKeeps == ASSUME IInv, StartReconcile PROVE IInv'
<1> USE DEF IInv, StartReconcile, remoteVars, lineVars, sinkVars, mainVars
<1>1. Shape' BY DEF Shape
<1>2. Registered' BY DEF Registered
<1>3. Resumed' BY DEF Registered, Resumed
<1>4. Marked' BY DEF Marked
<1>5. QED BY <1>1, <1>2, <1>3, <1>4

LEMMA PassSeedLostKeeps == ASSUME IInv, PassSeedLost PROVE IInv'
<1> USE DEF IInv, PassSeedLost, Lost, Ask, remoteVars, lineVars, sinkVars, mainVars
<1>1. Shape' BY DEF Shape
<1>2. Registered' BY DEF Registered
<1>3. Resumed' BY DEF Registered, Resumed
<1>4. Marked' BY DEF Marked
<1>5. QED BY <1>1, <1>2, <1>3, <1>4

LEMMA RereadKeeps == ASSUME IInv, Reread PROVE IInv'
<1> USE DEF IInv, Reread, Replied, Lost, remoteVars, lineVars, sinkVars, mainVars
<1>1. Shape' BY DEF Shape
<1>2. Registered' BY DEF Registered
<1>3. Resumed' BY DEF Registered, Resumed
<1>4. Marked' BY DEF Marked
<1>5. QED BY <1>1, <1>2, <1>3, <1>4

LEMMA ReconcileDoneKeeps == ASSUME IInv, ReconcileDone PROVE IInv'
<1> USE DEF IInv, ReconcileDone, Ask, remoteVars, lineVars, sinkVars, mainVars
<1>1. Shape' BY DEF Shape
<1>2. Registered' BY DEF Registered
<1>3. Resumed' BY DEF Registered, Resumed
<1>4. Marked' BY DEF Marked
<1>5. QED BY <1>1, <1>2, <1>3, <1>4

LEMMA AttachKeeps == ASSUME IInv, Attach PROVE IInv'
<1> USE DEF IInv, Attach, remoteVars, lineVars, sinkVars, mainVars
<1>1. Shape' BY DEF Shape
<1>2. Registered' BY DEF Registered
<1>3. Resumed' BY DEF Registered, Resumed
<1>4. Marked' BY DEF Marked
<1>5. QED BY <1>1, <1>2, <1>3, <1>4

LEMMA PumpTakeKeeps == ASSUME IInv, NEW g \in Gens, PumpTake(g) PROVE IInv'
<1>1. UNCHANGED <<made, cur, inRepair, moved, pc>> BY DEF PumpTake, sinkVars, mainVars
<1>2. sink' = [h \in Gens |-> sink'[h]] /\ \A h \in Gens : Fields(sink'[h])
  BY DEF IInv, Shape, Fields, PumpTake
<1>3. ASSUME NEW h \in Gens
      PROVE  /\ sink'[h].closed = sink[h].closed /\ sink'[h].paused = sink[h].paused
             /\ sink'[h].reshaped = sink[h].reshaped
  <2>1. CASE h = g BY <2>1 DEF IInv, Shape, Fields, PumpTake
  <2>2. CASE h # g BY <2>2 DEF IInv, Shape, PumpTake
  <2>3. QED BY <2>1, <2>2
<1>4. cur # 0 => cur \in Gens BY CurIn DEF IInv
<1>5. QED BY <1>1, <1>2, <1>3, <1>4 DEF IInv, Shape, Registered, Resumed, Marked

LEMMA PumpWriteKeeps == ASSUME IInv, NEW g \in Gens, PumpWrite(g) PROVE IInv'
<1>1. UNCHANGED <<made, cur, inRepair, moved, pc>> BY DEF PumpWrite, sinkVars, mainVars
<1>2. sink' = [h \in Gens |-> sink'[h]] /\ \A h \in Gens : Fields(sink'[h])
  BY DEF IInv, Shape, Fields, PumpWrite
<1>3. ASSUME NEW h \in Gens
      PROVE  /\ sink'[h].closed = sink[h].closed /\ sink'[h].paused = sink[h].paused
             /\ sink'[h].reshaped = sink[h].reshaped
  <2>1. CASE h = g BY <2>1 DEF IInv, Shape, Fields, PumpWrite
  <2>2. CASE h # g BY <2>2 DEF IInv, Shape, PumpWrite
  <2>3. QED BY <2>1, <2>2
<1>4. cur # 0 => cur \in Gens BY CurIn DEF IInv
<1>5. QED BY <1>1, <1>2, <1>3, <1>4 DEF IInv, Shape, Registered, Resumed, Marked

LEMMA PumpDeadlineKeeps == ASSUME IInv, NEW g \in Gens, PumpDeadline(g) PROVE IInv'
<1>1. UNCHANGED <<made, cur, inRepair, moved, pc>> BY DEF PumpDeadline, sinkVars, mainVars
<1>2. sink' = [h \in Gens |-> sink'[h]] /\ \A h \in Gens : Fields(sink'[h])
  BY DEF IInv, Shape, Fields, PumpDeadline
<1>3. ASSUME NEW h \in Gens
      PROVE  /\ sink'[h].closed = sink[h].closed /\ sink'[h].paused = sink[h].paused
             /\ sink'[h].reshaped = sink[h].reshaped
  <2>1. CASE h = g BY <2>1 DEF IInv, Shape, Fields, PumpDeadline
  <2>2. CASE h # g BY <2>2 DEF IInv, Shape, PumpDeadline
  <2>3. QED BY <2>1, <2>2
<1>4. cur # 0 => cur \in Gens BY CurIn DEF IInv
<1>5. QED BY <1>1, <1>2, <1>3, <1>4 DEF IInv, Shape, Registered, Resumed, Marked

LEMMA PumpExitKeeps == ASSUME IInv, NEW g \in Gens, PumpExit(g) PROVE IInv'
<1>1. UNCHANGED <<made, cur, inRepair, moved, pc>> BY DEF PumpExit, sinkVars, mainVars
<1>2. sink' = [h \in Gens |-> sink'[h]] /\ \A h \in Gens : Fields(sink'[h])
  BY DEF IInv, Shape, Fields, PumpExit
<1>3. ASSUME NEW h \in Gens
      PROVE  /\ sink'[h].closed = sink[h].closed /\ sink'[h].paused = sink[h].paused
             /\ sink'[h].reshaped = sink[h].reshaped
  <2>1. CASE h = g BY <2>1 DEF IInv, Shape, Fields, PumpExit
  <2>2. CASE h # g BY <2>2 DEF IInv, Shape, PumpExit
  <2>3. QED BY <2>1, <2>2
<1>4. cur # 0 => cur \in Gens BY CurIn DEF IInv
<1>5. QED BY <1>1, <1>2, <1>3, <1>4 DEF IInv, Shape, Registered, Resumed, Marked

LEMMA RouteAsideKeeps == ASSUME IInv, RouteAside PROVE IInv'
<1> DEFINE t == IF Head(line).typ = "output" THEN WriteOwned(sink[cur], Head(line).n) ELSE sink[cur]
<1>0. cur # 0 => cur \in Gens BY CurIn DEF IInv
<1>1. sink' = IF cur = 0 THEN sink ELSE [sink EXCEPT ![cur] = t]
  BY <1>0 DEF IInv, RouteAside, Route, OnSink, Ask, Registered, Shape
<1>2. cur # 0 => Fields(t) /\ t.closed = sink[cur].closed
      /\ t.paused = sink[cur].paused /\ t.reshaped = sink[cur].reshaped
  BY Enqueues, <1>0 DEF IInv, Shape, WriteOwned
<1> HIDE DEF t
<1>3. /\ sink' = [g \in Gens |-> sink'[g]] /\ \A g \in Gens : Fields(sink'[g])
      /\ cur # 0 => sink'[cur] = t
  BY <1>1, <1>2, Written DEF IInv
<1> USE <1>0, <1>2, <1>3 DEF IInv, Shape, RouteAside, sinkVars, mainVars
<1>4. Shape' BY BoundsAssumption DEF Gens
<1>5. Registered' BY DEF Registered
<1>6. Resumed' BY DEF Registered, Resumed
<1>7. Marked' BY DEF Marked
<1>8. QED BY <1>4, <1>5, <1>6, <1>7

LEMMA RepaintedKeeps == ASSUME IInv, Repainted PROVE IInv'
<1> DEFINE t == [Enqueue(sink[cur], Seed(Head(line).n)) EXCEPT !.paused = FALSE]
<1>0. cur # 0 => cur \in Gens BY CurIn DEF IInv
<1>1. sink' = IF cur = 0 THEN sink ELSE [sink EXCEPT ![cur] = t] BY DEF Repainted, OnSink
<1>2. cur # 0 => Fields(t) /\ t.closed = sink[cur].closed /\ ~t.paused
      /\ t.reshaped = sink[cur].reshaped
  <2> DEFINE e == Enqueue(sink[cur], Seed(Head(line).n))
  <2>1. cur # 0 => Fields(e) /\ e.closed = sink[cur].closed /\ e.reshaped = sink[cur].reshaped
    BY <1>0, Enqueues DEF IInv, Shape
  <2> HIDE DEF e
  <2>2. t = [e EXCEPT !.paused = FALSE] BY DEF e
  <2>3. Fields(e) => LET r == [e EXCEPT !.paused = FALSE] IN
          Fields(r) /\ r.paused = FALSE /\ r.closed = e.closed /\ r.reshaped = e.reshaped
    BY Edits
  <2>4. QED BY <2>1, <2>2, <2>3
<1> HIDE DEF t
<1>3. /\ sink' = [g \in Gens |-> sink'[g]] /\ \A g \in Gens : Fields(sink'[g])
      /\ cur # 0 => sink'[cur] = t
  BY <1>1, <1>2, Written DEF IInv
<1> USE <1>0, <1>2, <1>3 DEF IInv, Shape, Repainted, Replied, sinkVars, mainVars
<1>4. Shape' BY BoundsAssumption DEF Gens
<1>5. Registered' BY DEF Registered
<1>6. Resumed' BY DEF Registered, Resumed
<1>7. Marked' BY DEF Marked
<1>8. QED BY <1>4, <1>5, <1>6, <1>7

LEMMA RepaintLostKeeps == ASSUME IInv, RepaintLost PROVE IInv'
<1> DEFINE t == [sink[cur] EXCEPT !.paused = FALSE]
<1>0. cur # 0 => cur \in Gens BY CurIn DEF IInv
<1>1. sink' = IF cur = 0 THEN sink ELSE [sink EXCEPT ![cur] = t] BY DEF RepaintLost, OnSink
<1>2. cur # 0 => Fields(t) /\ t.closed = sink[cur].closed /\ ~t.paused
      /\ t.reshaped = sink[cur].reshaped
  BY Edits, <1>0 DEF IInv, Shape
<1> HIDE DEF t
<1>3. /\ sink' = [g \in Gens |-> sink'[g]] /\ \A g \in Gens : Fields(sink'[g])
      /\ cur # 0 => sink'[cur] = t
  BY <1>1, <1>2, Written DEF IInv
<1> USE <1>0, <1>2, <1>3 DEF IInv, Shape, RepaintLost, Lost, sinkVars, mainVars
<1>4. Shape' BY BoundsAssumption DEF Gens
<1>5. Registered' BY DEF Registered
<1>6. Resumed' BY DEF Registered, Resumed
<1>7. Marked' BY DEF Marked
<1>8. QED BY <1>4, <1>5, <1>6, <1>7

LEMMA SettlePauseKeeps == ASSUME IInv, SettlePause PROVE IInv'
<1> DEFINE t == [sink[cur] EXCEPT !.paused = TRUE]
<1>0. cur # 0 => cur \in Gens BY CurIn DEF IInv
<1>1. sink' = IF cur = 0 THEN sink ELSE [sink EXCEPT ![cur] = t]
  BY DEF SettlePause, HandlePause, OnSink
<1>2. cur # 0 => Fields(t) /\ t.closed = sink[cur].closed /\ t.reshaped = sink[cur].reshaped
  BY Edits, <1>0 DEF IInv, Shape
<1> HIDE DEF t
<1>3. /\ sink' = [g \in Gens |-> sink'[g]] /\ \A g \in Gens : Fields(sink'[g])
      /\ cur # 0 => sink'[cur] = t
  BY <1>1, <1>2, Written DEF IInv
<1> USE <1>0, <1>2, <1>3 DEF IInv, Shape, SettlePause, HandlePause, Ask, sinkVars, mainVars
<1>4. Shape' BY BoundsAssumption DEF Gens
<1>5. Registered' BY DEF Registered
<1>6. Resumed' BY DEF Registered, Resumed
<1>7. Marked' BY DEF Marked
<1>8. QED BY <1>4, <1>5, <1>6, <1>7

LEMMA SelectPauseKeeps == ASSUME IInv, SelectPause PROVE IInv'
<1> DEFINE t == [sink[cur] EXCEPT !.paused = TRUE]
<1>0. cur # 0 => cur \in Gens BY CurIn DEF IInv
<1>1. sink' = IF cur = 0 THEN sink ELSE [sink EXCEPT ![cur] = t]
  BY DEF SelectPause, HandlePause, OnSink
<1>2. cur # 0 => Fields(t) /\ t.closed = sink[cur].closed /\ t.reshaped = sink[cur].reshaped
  BY Edits, <1>0 DEF IInv, Shape
<1> HIDE DEF t
<1>3. /\ sink' = [g \in Gens |-> sink'[g]] /\ \A g \in Gens : Fields(sink'[g])
      /\ cur # 0 => sink'[cur] = t
  BY <1>1, <1>2, Written DEF IInv
<1> USE <1>0, <1>2, <1>3 DEF IInv, Shape, SelectPause, HandlePause, Ask, sinkVars, mainVars
<1>4. Shape' BY BoundsAssumption DEF Gens
<1>5. Registered' BY DEF Registered
<1>6. Resumed' BY DEF Registered, Resumed
<1>7. Marked' BY DEF Marked
<1>8. QED BY <1>4, <1>5, <1>6, <1>7

LEMMA SelectOutputKeeps == ASSUME IInv, SelectOutput PROVE IInv'
<1> DEFINE t == WriteOwned(sink[cur], Head(line).n)
<1>0. cur # 0 => cur \in Gens BY CurIn DEF IInv
<1>1. sink' = IF cur = 0 THEN sink ELSE [sink EXCEPT ![cur] = t]
  BY DEF SelectOutput, Route, OnSink
<1>2. cur # 0 => Fields(t) /\ t.closed = sink[cur].closed
      /\ t.paused = sink[cur].paused /\ t.reshaped = sink[cur].reshaped
  BY Enqueues, <1>0 DEF IInv, Shape, WriteOwned
<1> HIDE DEF t
<1>3. /\ sink' = [g \in Gens |-> sink'[g]] /\ \A g \in Gens : Fields(sink'[g])
      /\ cur # 0 => sink'[cur] = t
  BY <1>1, <1>2, Written DEF IInv
<1> USE <1>0, <1>2, <1>3 DEF IInv, Shape, SelectOutput, sinkVars, mainVars
<1>4. Shape' BY BoundsAssumption DEF Gens
<1>5. Registered' BY DEF Registered
<1>6. Resumed' BY DEF Registered, Resumed
<1>7. Marked' BY DEF Marked
<1>8. QED BY <1>4, <1>5, <1>6, <1>7

LEMMA StreamEndedKeeps == ASSUME IInv, StreamEnded PROVE IInv'
<1> DEFINE t == [sink[cur] EXCEPT !.paused = @ \/ async > 0]
<1>0. cur # 0 => cur \in Gens BY CurIn DEF IInv
<1>1. sink' = IF cur = 0 THEN sink ELSE [sink EXCEPT ![cur] = t] BY DEF StreamEnded, OnSink
<1>2. cur # 0 => Fields(t) /\ t.closed = sink[cur].closed /\ t.reshaped = sink[cur].reshaped
  BY Edits, <1>0 DEF IInv, Shape
<1> HIDE DEF t
<1>3. /\ sink' = [g \in Gens |-> sink'[g]] /\ \A g \in Gens : Fields(sink'[g])
      /\ cur # 0 => sink'[cur] = t
  BY <1>1, <1>2, Written DEF IInv
<1> USE <1>0, <1>2, <1>3 DEF IInv, Shape, StreamEnded, Lost, sinkVars, mainVars
<1>4. Shape' BY BoundsAssumption DEF Gens
<1>5. Registered' BY DEF Registered
<1>6. Resumed' BY DEF Registered, Resumed
<1>7. Marked' BY DEF Marked
<1>8. QED BY <1>4, <1>5, <1>6, <1>7

LEMMA PassHoldKeeps == ASSUME IInv, PassHold PROVE IInv'
<1> DEFINE t == IF sink' = sink THEN sink[cur] ELSE QueueHold(sink[cur])
<1>0. cur # 0 => cur \in Gens BY CurIn DEF IInv
<1>1. sink' = IF cur = 0 THEN sink ELSE [sink EXCEPT ![cur] = t]
  BY <1>0 DEF IInv, PassHold, OnSink, Ask, Registered, Shape
<1>2. cur # 0 => Fields(t) /\ t.closed = sink[cur].closed
      /\ t.paused = sink[cur].paused /\ t.reshaped = sink[cur].reshaped
  BY Edits, <1>0 DEF IInv, Shape, QueueHold
<1> HIDE DEF t
<1>3. /\ sink' = [g \in Gens |-> sink'[g]] /\ \A g \in Gens : Fields(sink'[g])
      /\ cur # 0 => sink'[cur] = t
  BY <1>1, <1>2, Written DEF IInv
<1> USE <1>0, <1>2, <1>3 DEF IInv, Shape, PassHold, sinkVars, mainVars
<1>4. Shape' BY BoundsAssumption DEF Gens
<1>5. Registered' BY DEF Registered
<1>6. Resumed' BY DEF Registered, Resumed
<1>7. Marked' BY DEF Marked
<1>8. QED BY <1>4, <1>5, <1>6, <1>7

LEMMA PassShapeKeeps == ASSUME IInv, PassShape PROVE IInv'
<1> DEFINE t == IF pc' = "reshape" THEN Enqueue(sink[cur], Frame("resize")) ELSE sink[cur]
<1>0. cur # 0 => cur \in Gens BY CurIn DEF IInv
<1>1. sink' = IF cur = 0 THEN sink ELSE [sink EXCEPT ![cur] = t]
  BY <1>0 DEF IInv, PassShape, OnSink, Ask, Registered, Shape
<1>2. cur # 0 => Fields(t) /\ t.closed = sink[cur].closed
      /\ t.paused = sink[cur].paused /\ t.reshaped = sink[cur].reshaped
  BY Enqueues, <1>0 DEF IInv, Shape
<1> HIDE DEF t
<1>3. /\ sink' = [g \in Gens |-> sink'[g]] /\ \A g \in Gens : Fields(sink'[g])
      /\ cur # 0 => sink'[cur] = t
  BY <1>1, <1>2, Written DEF IInv
<1> USE <1>0, <1>2, <1>3 DEF IInv, Shape, PassShape, Ask, sinkVars, mainVars
<1>4. Shape' BY BoundsAssumption DEF Gens
<1>5. Registered' BY DEF Registered
<1>6. Resumed' BY DEF Registered, Resumed
<1>7. Marked' BY DEF Marked
<1>8. QED BY <1>4, <1>5, <1>6, <1>7

LEMMA PassSeededKeeps == ASSUME IInv, PassSeeded PROVE IInv'
<1> DEFINE t == Enqueue(MarkReshaped(sink[cur]), Seed(Head(line).n))
<1>0. cur # 0 => cur \in Gens BY CurIn DEF IInv
<1>1. sink' = IF cur = 0 THEN sink ELSE [sink EXCEPT ![cur] = t] BY DEF PassSeeded, OnSink
<1>2. cur # 0 => Fields(t) /\ t.closed = sink[cur].closed
      /\ t.paused = sink[cur].paused /\ t.reshaped # "due"
  <2> DEFINE e == MarkReshaped(sink[cur])
  <2>1. cur # 0 => Fields(e) /\ e.closed = sink[cur].closed /\ e.paused = sink[cur].paused
        /\ e.reshaped # "due"
    <3>1. cur # 0 => e = [sink[cur] EXCEPT !.reshaped = "marked"]
      BY DEF IInv, Registered, MarkReshaped
    <3>2. cur # 0 => Fields(sink[cur]) BY <1>0 DEF IInv, Shape
    <3> HIDE DEF e
    <3>3. cur # 0 => LET r == [sink[cur] EXCEPT !.reshaped = "marked"] IN
            /\ Fields(r) /\ r.paused = sink[cur].paused /\ r.closed = sink[cur].closed
            /\ r.reshaped = "marked"
      BY <3>2, Edits
    <3>4. QED BY <3>1, <3>3
  <2> HIDE DEF e
  <2>2. t = Enqueue(e, Seed(Head(line).n)) BY DEF e
  <2>3. QED BY <2>1, <2>2, Enqueues
<1> HIDE DEF t
<1>3. /\ sink' = [g \in Gens |-> sink'[g]] /\ \A g \in Gens : Fields(sink'[g])
      /\ cur # 0 => sink'[cur] = t
  BY <1>1, <1>2, Written DEF IInv
<1> USE <1>0, <1>2, <1>3 DEF IInv, Shape, PassSeeded, Replied, Ask, sinkVars, mainVars
<1>4. Shape' BY BoundsAssumption DEF Gens
<1>5. Registered' BY DEF Registered
<1>6. Resumed' BY DEF Registered, Resumed
<1>7. Marked' BY DEF Marked
<1>8. QED BY <1>4, <1>5, <1>6, <1>7

LEMMA ReleaseHoldKeeps == ASSUME IInv, ReleaseHold PROVE IInv'
<1> DEFINE t == Release(sink[cur])
<1>0. cur # 0 => cur \in Gens BY CurIn DEF IInv
<1>1. sink' = IF cur = 0 THEN sink ELSE [sink EXCEPT ![cur] = t] BY DEF ReleaseHold, OnSink
<1>2. cur # 0 => Fields(t) /\ t.closed = sink[cur].closed
      /\ t.paused = sink[cur].paused /\ t.reshaped = sink[cur].reshaped
  BY Enqueues, <1>0 DEF IInv, Shape, Release
<1> HIDE DEF t
<1>3. /\ sink' = [g \in Gens |-> sink'[g]] /\ \A g \in Gens : Fields(sink'[g])
      /\ cur # 0 => sink'[cur] = t
  BY <1>1, <1>2, Written DEF IInv
<1> USE <1>0, <1>2, <1>3 DEF IInv, Shape, ReleaseHold, sinkVars, mainVars
<1>4. Shape' BY BoundsAssumption DEF Gens
<1>5. Registered' BY DEF Registered
<1>6. Resumed' BY DEF Registered, Resumed
<1>7. Marked' BY DEF Marked
<1>8. QED BY <1>4, <1>5, <1>6, <1>7

LEMMA RepairKeeps == ASSUME IInv, Repair PROVE IInv'
<1> DEFINE t == IF Float THEN sink[cur] ELSE [sink[cur] EXCEPT !.paused = FALSE]
<1>0. cur # 0 => cur \in Gens BY CurIn DEF IInv
<1>1. sink' = IF cur = 0 THEN sink ELSE [sink EXCEPT ![cur] = t]
  BY <1>0 DEF IInv, Repair, OnSink, Ask, Registered, Shape
<1>2. cur # 0 => Fields(t) /\ t.closed = sink[cur].closed /\ (~Float => ~t.paused)
      /\ t.reshaped = sink[cur].reshaped
  BY Edits, <1>0 DEF IInv, Shape
<1> HIDE DEF t
<1>3. /\ sink' = [g \in Gens |-> sink'[g]] /\ \A g \in Gens : Fields(sink'[g])
      /\ cur # 0 => sink'[cur] = t
  BY <1>1, <1>2, Written DEF IInv
<1> USE <1>0, <1>2, <1>3 DEF IInv, Shape, Repair, Ask, sinkVars, mainVars
<1>4. Shape' BY BoundsAssumption DEF Gens
<1>5. Registered' BY DEF Registered
<1>6. Resumed' BY DEF Registered, Resumed
<1>7. Marked' BY DEF Marked
<1>8. QED BY <1>4, <1>5, <1>6, <1>7

LEMMA ResetKeeps == ASSUME IInv, Reset PROVE IInv'
<1> DEFINE t == Close(sink[cur])
<1>0. cur # 0 => cur \in Gens BY CurIn DEF IInv
<1>1. sink' = IF cur = 0 THEN sink ELSE [sink EXCEPT ![cur] = t] BY DEF Reset, OnSink
<1>2. cur # 0 => Fields(t) BY Edits, <1>0 DEF IInv, Shape, Close
<1> HIDE DEF t
<1>3. /\ sink' = [g \in Gens |-> sink'[g]] /\ \A g \in Gens : Fields(sink'[g])
      /\ cur # 0 => sink'[cur] = t
  BY <1>1, <1>2, Written DEF IInv
<1> USE <1>0, <1>2, <1>3 DEF IInv, Shape, Reset, Ask, sinkVars, mainVars
<1>4. Shape' BY BoundsAssumption DEF Gens
<1>5. Registered' BY DEF Registered
<1>6. Resumed' BY DEF Registered, Resumed
<1>7. Marked' BY DEF Marked
<1>8. QED BY <1>4, <1>5, <1>6, <1>7

LEMMA RetireKeeps == ASSUME IInv, Retire PROVE IInv'
<1> DEFINE t == Close(sink[cur])
<1>0. cur # 0 => cur \in Gens BY CurIn DEF IInv
<1>1. sink' = IF cur = 0 THEN sink ELSE [sink EXCEPT ![cur] = t] BY DEF Retire, OnSink
<1>2. cur # 0 => Fields(t) BY Edits, <1>0 DEF IInv, Shape, Close
<1> HIDE DEF t
<1>3. /\ sink' = [g \in Gens |-> sink'[g]] /\ \A g \in Gens : Fields(sink'[g])
      /\ cur # 0 => sink'[cur] = t
  BY <1>1, <1>2, Written DEF IInv
<1> USE <1>0, <1>2, <1>3 DEF IInv, Shape, Retire, sinkVars, mainVars
<1>4. Shape' BY BoundsAssumption DEF Gens
<1>5. Registered' BY DEF Registered
<1>6. Resumed' BY DEF Registered, Resumed
<1>7. Marked' BY DEF Marked
<1>8. QED BY <1>4, <1>5, <1>6, <1>7

LEMMA ReseedDroppedKeeps == ASSUME IInv, ReseedDropped PROVE IInv'
<1> DEFINE t == IF pc' = "reseed" THEN [sink[cur] EXCEPT !.dropped = FALSE] ELSE sink[cur]
<1>0. cur # 0 => cur \in Gens BY CurIn DEF IInv
<1>1. sink' = IF cur = 0 THEN sink ELSE [sink EXCEPT ![cur] = t]
  BY <1>0 DEF IInv, ReseedDropped, Ask, Registered, Shape
<1>2. cur # 0 => Fields(t) /\ t.closed = sink[cur].closed
      /\ t.paused = sink[cur].paused /\ t.reshaped = sink[cur].reshaped
  BY Edits, <1>0 DEF IInv, Shape
<1> HIDE DEF t
<1>3. /\ sink' = [g \in Gens |-> sink'[g]] /\ \A g \in Gens : Fields(sink'[g])
      /\ cur # 0 => sink'[cur] = t
  BY <1>1, <1>2, Written DEF IInv
<1> USE <1>0, <1>2, <1>3 DEF IInv, Shape, ReseedDropped, Ask, sinkVars, mainVars
<1>4. Shape' BY BoundsAssumption DEF Gens
<1>5. Registered' BY DEF Registered
<1>6. Resumed' BY DEF Registered, Resumed
<1>7. Marked' BY DEF Marked
<1>8. QED BY <1>4, <1>5, <1>6, <1>7

LEMMA ReseedReshapedKeeps == ASSUME IInv, ReseedReshaped PROVE IInv'
<1> DEFINE t == IF sink' = sink THEN sink[cur]
            ELSE IF pc' = "confirm" THEN [sink[cur] EXCEPT !.reshaped = "none"]
            ELSE [sink[cur] EXCEPT !.reshaped = "due"]
<1>0. cur # 0 => cur \in Gens BY CurIn DEF IInv
<1>1. sink' = IF cur = 0 THEN sink ELSE [sink EXCEPT ![cur] = t]
  BY <1>0 DEF IInv, ReseedReshaped, Ask, Registered, Shape
<1>2. cur # 0 => Fields(t) /\ t.closed = sink[cur].closed /\ t.paused = sink[cur].paused
  BY Edits, <1>0 DEF IInv, Shape
<1> HIDE DEF t
<1>3. /\ sink' = [g \in Gens |-> sink'[g]] /\ \A g \in Gens : Fields(sink'[g])
      /\ cur # 0 => sink'[cur] = t
  BY <1>1, <1>2, Written DEF IInv
<1> USE <1>0, <1>2, <1>3 DEF IInv, Shape, ReseedReshaped, Ask, sinkVars, mainVars
<1>4. Shape' BY BoundsAssumption DEF Gens
<1>5. Registered' BY DEF Registered
<1>6. Resumed' BY DEF Registered, Resumed
<1>7. Marked' BY DEF Marked
<1>8. QED BY <1>4, <1>5, <1>6, <1>7

LEMMA SetupSpawnedKeeps == ASSUME IInv, SetupSpawned PROVE IInv'
<1>1. Fields(Finished) BY Made
<1> USE DEF IInv, SetupSpawned, Replied, Ask
<1>2. Shape' BY <1>1 DEF Shape
<1>3. Registered' BY DEF Registered
<1>4. Resumed' BY DEF Registered, Resumed
<1>5. Marked' BY DEF Registered, Marked
<1>6. QED BY <1>2, <1>3, <1>4, <1>5

LEMMA ReviveKeeps == ASSUME IInv, Revive PROVE IInv'
<1> DEFINE t == [Fresh EXCEPT !.dropped = TRUE]
<1>1. Fields(t) /\ ~t.closed /\ ~t.paused /\ t.reshaped = "none" BY Made, Edits DEF Fresh
<1> HIDE DEF t
<1>2. pc = "setup" /\ Wired(t) /\ UNCHANGED <<inRepair, moved>>
  BY DEF Revive, Replied, Lost, t
<1>3. made <= MaxResets BY <1>2 DEF IInv, Registered
<1>4. QED BY <1>1, <1>2, <1>3, Registers

LEMMA WireKeeps == ASSUME IInv, Wire PROVE IInv'
<1>1. PICK t : /\ t \in {Enqueue(Enqueue(Fresh, Seed(Head(line).n)), Frame("resize")),
                         Enqueue(Fresh, Frame("resize"))}
               /\ pc = "wire" /\ Wired(t) /\ UNCHANGED <<inRepair, moved>>
  BY DEF Wire, Replied, Lost, mainVars
<1>2. Fields(Fresh) /\ ~Fresh.closed /\ ~Fresh.paused /\ Fresh.reshaped = "none"
  BY Made DEF Fresh
<1>3. Fields(t) /\ ~t.closed /\ ~t.paused /\ t.reshaped = "none" BY <1>1, <1>2, Enqueues
<1>4. made <= MaxResets BY <1>1 DEF IInv, Registered
<1>5. QED BY <1>1, <1>3, <1>4, Registers

LEMMA SeededKeeps == ASSUME IInv, NEW p, NEW then, <<p, then>> \in Reseeds, Seeded(p, then)
  PROVE IInv'
<1> DEFINE t == Enqueue(sink[cur], Seed(Head(line).n))
<1>0. cur # 0 => cur \in Gens BY CurIn DEF IInv
<1>1. sink' = IF cur = 0 THEN sink ELSE [sink EXCEPT ![cur] = t] BY DEF Seeded, OnSink
<1>2. cur # 0 => Fields(t) /\ t.closed = sink[cur].closed
      /\ t.paused = sink[cur].paused /\ t.reshaped = sink[cur].reshaped
  BY <1>0, Enqueues DEF IInv, Shape
<1> HIDE DEF t
<1>3. /\ sink' = [g \in Gens |-> sink'[g]] /\ \A g \in Gens : Fields(sink'[g])
      /\ cur # 0 => sink'[cur] = t
  BY <1>1, <1>2, Written DEF IInv
<1>4. p = "repaintAll" => then = "settle" BY DEF Reseeds
<1>5. p \in {"reseed", "confirm", "repaintAll"} /\ then \in {"due", "select", "settle"}
  BY DEF Reseeds
<1>6. pc = p /\ pc' = then /\ inRepair' = (inRepair /\ p # "repaintAll")
      /\ UNCHANGED <<made, cur, moved>>
  BY DEF Seeded, Replied
<1> USE <1>0, <1>2, <1>3, <1>4, <1>5, <1>6 DEF IInv
<1>7. Shape' BY DEF Shape
<1>8. Registered' BY DEF Registered
<1>9. Resumed' BY DEF Registered, Resumed, Shape
<1>10. Marked' BY DEF Marked
<1>11. QED BY <1>7, <1>8, <1>9, <1>10

LEMMA SeedLostKeeps == ASSUME IInv, NEW p, NEW then, <<p, then>> \in Reseeds, SeedLost(p, then)
  PROVE IInv'
<1>1. p \in {"reseed", "confirm", "repaintAll"} /\ then \in {"due", "select", "settle"}
  BY DEF Reseeds
<1>2. pc = p /\ pc' = then /\ inRepair' = (inRepair /\ p # "repaintAll")
      /\ UNCHANGED <<sink, made, cur, moved>>
  BY DEF SeedLost, Lost, sinkVars
<1> USE <1>1, <1>2 DEF IInv
<1>3. Shape' BY DEF Shape
<1>4. Registered' BY DEF Registered
<1>5. Resumed' BY DEF Registered, Resumed, Shape
<1>6. Marked' BY DEF Marked
<1>7. QED BY <1>3, <1>4, <1>5, <1>6

LEMMA ReseededKeeps == ASSUME IInv, Reseeded PROVE IInv'
<1>1. PICK r \in Reseeds : Seeded(r[1], r[2]) \/ SeedLost(r[1], r[2]) BY DEF Reseeded
<1>2. r = <<r[1], r[2]>> BY DEF Reseeds
<1>3. QED BY <1>1, <1>2, SeededKeeps, SeedLostKeeps

LEMMA NextKeeps == ASSUME IInv, [Next]_vars PROVE IInv'
<1>1. CASE UNCHANGED vars
  BY <1>1 DEF vars, sinkVars, mainVars, IInv, Shape, Registered, Resumed, Marked
<1>2. CASE FarEnd
  BY <1>2, DrawKeeps, PausePaneKeeps, AnswerKeeps, ConnectionLostKeeps DEF FarEnd
<1>3. ASSUME NEW g \in Gens, Pump(g) PROVE IInv'
  BY <1>3, PumpTakeKeeps, PumpWriteKeeps, PumpDeadlineKeeps, PumpExitKeeps DEF Pump
<1>4. CASE MainStep
  BY <1>4, ReseededKeeps, RouteAsideKeeps, ContinuedKeeps, ContinueLostKeeps,
    RepaintedKeeps, RepaintLostKeeps, SettlePauseKeeps, SettleDoneKeeps,
    ReseedDroppedKeeps, ReseedReshapedKeeps, SelectOutputKeeps, SelectPauseKeeps,
    TickKeeps, StreamEndedKeeps, PassHoldKeeps, PassShapeKeeps, PassSeededKeeps,
    PassSeedLostKeeps, RereadKeeps, ReleaseHoldKeeps, ReconcileDoneKeeps, ReviveKeeps,
    SetupSpawnedKeeps, WireKeeps, AttachKeeps, RepairKeeps DEF MainStep
<1>5. CASE StartReconcile \/ Reset \/ Retire
  BY <1>5, StartReconcileKeeps, ResetKeeps, RetireKeeps
<1>6. QED BY <1>1, <1>2, <1>3, <1>4, <1>5 DEF Next

(* The inductive invariant holds throughout (daemon.go: runMirror's loop,    *)
(* handlePause, reseedDropped, reseedReshaped, repair, resetWindow).         *)
THEOREM Invariance == Spec => []IInv
<1>1. Init => IInv BY InitInv
<1>2. IInv /\ [Next]_vars => IInv' BY NextKeeps
<1>3. QED BY <1>1, <1>2, PTL DEF Spec

(* One step alone asks for a confirmation.                                  *)
LEMMA OnlyDueConfirms == ASSUME IInv, [Next]_vars, pc = "due", pc' = "confirm"
  PROVE ReseedReshaped
BY DEF Next, FarEnd, MainStep, Pump, PumpTake, PumpWrite, PumpDeadline, PumpExit, Draw,
  PausePane, Answer, ConnectionLost, RouteAside, Continued, ContinueLost, Repainted,
  RepaintLost, SettlePause, SettleDone, ReseedDropped, SelectOutput, SelectPause, Tick,
  StreamEnded, PassHold, PassShape, PassSeeded, PassSeedLost, Reread, ReleaseHold,
  ReconcileDone, Revive, SetupSpawned, Wire, Attach, Repair, StartReconcile, Reset,
  Retire, Replied, Lost, Ask, HandlePause, Wired, Seeded, SeedLost, Reseeds, Reseeded,
  vars, sinkVars, mainVars

(* A reshape is confirmed by a capture of a later pass of the main loop      *)
(* than its own, for tiled panes and floats (takeReshaped, markReshaped).    *)
THEOREM LaterPass == Spec => ConfirmedLater
<1>1. ASSUME IInv, [Next]_vars PROVE pc = "due" /\ pc' = "confirm" => ~moved
  <2> SUFFICES ASSUME pc = "due", pc' = "confirm" PROVE ~moved OBVIOUS
  <2>1. ReseedReshaped BY <1>1, OnlyDueConfirms
  <2>2. sink[cur].reshaped = "due" BY <2>1 DEF ReseedReshaped
  <2>3. cur # 0 BY <1>1 DEF IInv, Registered
  <2>4. QED BY <1>1, <2>2, <2>3 DEF IInv, Marked
<1>2. QED BY <1>1, Invariance, PTL DEF Spec, ConfirmedLater

(* The reseed a repair asks for finds the sink of a tiled pane resumed, and  *)
(* each confirmation comes in a later pass than its reshape (the comment at  *)
(* runMirror's repair loop; for a float the first is a known divergence).    *)
THEOREM ReseedsInPlace == ASSUME ~Float PROVE Spec => ReseedOrdered
<1>1. IInv => ResumedBeforeReseed BY DEF IInv, Resumed, ResumedBeforeReseed
<1>2. QED BY <1>1, Invariance, LaterPass, PTL DEF ReseedOrdered

----------------------------------------------------------------------------
(* What the frames of a queue make of a renderer.                            *)

\* What a pump knows of its renderer.
Screens == [upto : 0..MaxDrawn, whole : BOOLEAN, alt : BOOLEAN]
Views == [held : BOOLEAN, screen : Screens]

\* The renderer, in view b before it, once a pump has written the frames of q.
After(b, q) == FoldLeft(Effect, b, q)

\* h follows the writing of q, frame by frame, from view b.
Follows(h, q, b) ==
    /\ h \in [0..Len(q) -> Views] /\ h[0] = b
    /\ \A i \in 1..Len(q) : h[i] = Effect(h[i - 1], q[i])

(* A frame leaves a view a view.                                             *)
LEMMA EffectView == ASSUME NEW v \in Views, NEW f \in Frames PROVE Effect(v, f) \in Views
<1>1. ASSUME NEW n \in 0..MaxDrawn PROVE [v.screen EXCEPT !.upto = n] \in Screens
    BY <1>1 DEF Views, Screens
<1>2. ASSUME NEW b \in BOOLEAN PROVE [v.screen EXCEPT !.whole = b] \in Screens
    BY <1>2 DEF Views, Screens
<1>3. ASSUME NEW b \in BOOLEAN PROVE [v.screen EXCEPT !.alt = b] \in Screens
    BY <1>3 DEF Views, Screens
<1>4. f.n \in 0..MaxDrawn
    BY DEF Frames
<1>5. Paint(v.screen, f.n) \in Screens
    BY <1>1, <1>2, <1>4 DEF Paint
<1>6. ASSUME NEW s \in Screens PROVE [v EXCEPT !.screen = s] \in Views
    BY <1>6 DEF Views
<1>7. [upto |-> f.n, whole |-> TRUE, alt |-> FALSE] \in Screens
    BY <1>4 DEF Screens
<1>8. ASSUME NEW s \in Screens, NEW b \in BOOLEAN PROVE [held |-> b, screen |-> s] \in Views
    BY <1>8 DEF Views
<1>9. QED BY <1>3, <1>5, <1>6, <1>7, <1>8 DEF Effect

(* Writing the frames of a queue is a run through the views between them.    *)
LEMMA AfterFollows ==
    ASSUME NEW b \in Views, NEW q \in Seq(Frames)
    PROVE  \E h : Follows(h, q, b) /\ After(b, q) = h[Len(q)]
<1> DEFINE n == Len(q)
           S == 1..n
           pick == [s \in SUBSET S |-> Max(s)]
           F == [p \in S \X Views |-> Effect(p[2], q[p[1]])]
           G == CHOOSE g : g = [s \in SUBSET S |->
                    IF s = {} THEN b ELSE Effect(g[s \ {Max(s)}], q[Max(s)])]
<1>1. n \in Nat /\ DOMAIN q = S /\ IsFiniteSet(S) /\ \A i \in S : q[i] \in Frames
    BY FS_Interval
<1>2. Picks(pick, S)
    <2> SUFFICES ASSUME NEW s \in SUBSET S, s # {} PROVE Max(s) \in s
        BY DEF Picks
    <2> HIDE DEF n
    <2>1. QED BY <1>1, MaxOfInterval
<1>3. /\ F \in [S \X Views -> Views]
      /\ \A i \in S, v \in Views : F[<<i, v>>] = Effect(v, q[i])
    <2> HIDE DEF n, S
    <2>1. \A p \in S \X Views : Effect(p[2], q[p[1]]) \in Views
        BY <1>1, EffectView
    <2>2. QED BY <2>1
<1> HIDE DEF S, F
<1>4. PICK g : FoldsBy(g, S, pick, F, b)
    BY <1>1, <1>2, FoldsExist
<1>5. g \in [SUBSET S -> Views]
    BY <1>1, <1>2, <1>3, <1>4, FoldsTyped
<1>6. \A s \in SUBSET S : s # {} =>
          Max(s) \in s /\ g[s] = Effect(g[s \ {Max(s)}], q[Max(s)])
    <2> SUFFICES ASSUME NEW s \in SUBSET S, s # {}
                 PROVE  Max(s) \in s /\ g[s] = Effect(g[s \ {Max(s)}], q[Max(s)])
        OBVIOUS
    <2>1. Max(s) \in s /\ pick[s] = Max(s)
        BY <1>2 DEF Picks
    <2>2. g[s] = F[<<Max(s), g[s \ {Max(s)}]>>]
        BY <1>4, <2>1 DEF FoldsBy
    <2>3. Max(s) \in S /\ g[s \ {Max(s)}] \in Views
        BY <1>5, <2>1
    <2>4. QED BY <1>3, <2>1, <2>2, <2>3
<1>7. g[{}] = b
    BY <1>4 DEF FoldsBy
<1>8. g = [s \in SUBSET S |-> IF s = {} THEN b ELSE Effect(g[s \ {Max(s)}], q[Max(s)])]
    BY <1>5, <1>6, <1>7
<1>9. G = [s \in SUBSET S |-> IF s = {} THEN b ELSE Effect(G[s \ {Max(s)}], q[Max(s)])]
    BY <1>8
<1>10. After(b, q) = G[S]
    BY <1>1 DEF After, FoldLeft, MapThenFoldSet
<1> HIDE DEF G
<1>11. \A s \in SUBSET S : G[s] = g[s]
    <2> DEFINE C == {s \in SUBSET S : G[s] # g[s]}
    <2>1. ASSUME C # {} PROVE FALSE
        <3>1. PICK s \in C : \A t \in C : ~ (t \subseteq s /\ t # s)
            <4>1. C \in SUBSET (SUBSET S) OBVIOUS
            <4> HIDE DEF C
            <4>2. QED BY <1>1, <2>1, <4>1, SmallestSet
        <3>2. s # {}
            BY <1>7, <1>9
        <3>3. G[s \ {Max(s)}] = g[s \ {Max(s)}]
            BY <1>6, <3>1, <3>2
        <3>4. QED BY <1>6, <1>9, <3>2, <3>3
    <2>2. QED BY <2>1
<1> DEFINE h == [i \in 0..n |-> g[1..i]]
<1>12. \A i \in 0..n : 1..i \in SUBSET S
    BY <1>1 DEF S
<1>13. \A i \in 1..n : Max(1..i) = i /\ (1..i) \ {i} = 1..(i - 1) /\ 1..i # {}
    <2> SUFFICES ASSUME NEW i \in 1..n
                 PROVE  Max(1..i) = i /\ (1..i) \ {i} = 1..(i - 1) /\ 1..i # {}
        OBVIOUS
    <2>1. i \in 1..i /\ \A x \in 1..i : i >= x /\ (x >= i => x = i)
        BY <1>1
    <2>2. Max(1..i) = i
        BY <2>1 DEF Max
    <2>3. QED BY <1>1, <2>1, <2>2
<1>14. h \in [0..n -> Views] /\ h[0] = b
    <2>1. 1..0 = {} /\ 0 \in 0..n BY <1>1
    <2>2. QED BY <1>5, <1>7, <1>12, <2>1
<1>15. \A i \in 1..n : h[i] = Effect(h[i - 1], q[i])
    <2> SUFFICES ASSUME NEW i \in 1..n PROVE g[1..i] = Effect(g[1..(i - 1)], q[i])
        BY <1>1
    <2>1. 1..i \in SUBSET S
        BY <1>1, <1>12
    <2>2. QED BY <1>6, <1>13, <2>1
<1>16. After(b, q) = h[n]
    <2>1. n \in 0..n /\ S = 1..n BY <1>1 DEF S
    <2>2. QED BY <1>10, <1>11, <2>1
<1> HIDE DEF h
<1>17. QED BY <1>14, <1>15, <1>16 DEF Follows

\* The k frames of q behind its first d are those of r behind its first e.
Alike(q, d, r, e, k) ==
    /\ d \in Nat /\ e \in Nat /\ k \in Nat /\ Len(q) \in Nat /\ Len(r) \in Nat
    /\ d + k <= Len(q) /\ e + k <= Len(r)
    /\ \A i \in 1..k : q[d + i] = r[e + i]

(* Two such runs that meet, and write the same frames from there, stay       *)
(* together.                                                                 *)
LEMMA RunsAgree ==
    ASSUME NEW q, NEW r, NEW b, NEW c, NEW h, NEW j, Follows(h, q, b), Follows(j, r, c),
           NEW d, NEW e, NEW k, Alike(q, d, r, e, k), h[d] = j[e]
    PROVE  h[d + k] = j[e + k]
<1> USE DEF Alike
<1> DEFINE C == {i \in 0..k : h[d + i] # j[e + i]}
<1>1. ASSUME C # {} PROVE FALSE
    <2>1. PICK i \in C : \A m \in C : i <= m
        <3>1. C \in SUBSET Nat OBVIOUS
        <3> HIDE DEF C
        <3>2. QED BY <1>1, <3>1, SmallestNumber
    <2>2. i \in 1..k
        BY <2>1
    <2>3. i - 1 \in 0..k /\ i - 1 \notin C
        <3>1. i \in Nat /\ i - 1 \in 0..k /\ ~ (i <= i - 1)
            BY <2>2
        <3> HIDE DEF C
        <3>2. QED BY <2>1, <3>1
    <2>4. h[d + (i - 1)] = j[e + (i - 1)]
        BY <2>3
    <2>5. d + i \in 1..Len(q) /\ e + i \in 1..Len(r)
          /\ (d + i) - 1 = d + (i - 1) /\ (e + i) - 1 = e + (i - 1)
        BY <2>2
    <2>6. h[d + i] = Effect(h[d + (i - 1)], q[d + i])
          /\ j[e + i] = Effect(j[e + (i - 1)], r[e + i])
        BY <2>5 DEF Follows
    <2>7. QED BY <2>1, <2>2, <2>4, <2>6
<1>2. k \in 0..k OBVIOUS
<1>3. QED BY <1>1, <1>2

(* A queue leaves a view; nothing written, nothing changed.                  *)
LEMMA AfterView ==
    ASSUME NEW b \in Views, NEW q \in Seq(Frames)
    PROVE  After(b, q) \in Views /\ (q = <<>> => After(b, q) = b)
<1>1. PICK h : Follows(h, q, b) /\ After(b, q) = h[Len(q)]
    BY AfterFollows
<1>2. Len(q) \in Nat /\ (q = <<>> => Len(q) = 0)
    OBVIOUS
<1>3. QED BY <1>1, <1>2 DEF Follows

(* A frame added at the end is written last.                                 *)
LEMMA AfterAppend ==
    ASSUME NEW b \in Views, NEW q \in Seq(Frames), NEW f \in Frames
    PROVE  After(b, Append(q, f)) = Effect(After(b, q), f)
<1> DEFINE a == Append(q, f)
<1>1. a \in Seq(Frames) /\ Len(q) \in Nat /\ Len(a) = Len(q) + 1 /\ a[Len(q) + 1] = f
      /\ \A i \in 1..Len(q) : a[i] = q[i]
    OBVIOUS
<1> HIDE DEF a
<1>2. PICK h : Follows(h, q, b) /\ After(b, q) = h[Len(q)]
    BY AfterFollows
<1>3. PICK j : Follows(j, a, b) /\ After(b, a) = j[Len(a)]
    BY <1>1, AfterFollows
<1>4. h[0] = j[0] /\ j[Len(q) + 1] = Effect(j[(Len(q) + 1) - 1], f)
    BY <1>1, <1>2, <1>3 DEF Follows
<1>5. h[0 + Len(q)] = j[0 + Len(q)]
    <2>1. Alike(q, 0, a, 0, Len(q)) BY <1>1 DEF Alike
    <2>2. QED BY <1>2, <1>3, <1>4, <2>1, RunsAgree
<1>6. h[Len(q)] = j[Len(q)] /\ (Len(q) + 1) - 1 = Len(q)
    BY <1>1, <1>5
<1>7. QED BY <1>1, <1>2, <1>3, <1>4, <1>6 DEF a

(* The frame at the head is written first.                                   *)
LEMMA AfterHead ==
    ASSUME NEW b \in Views, NEW q \in Seq(Frames), q # <<>>
    PROVE  After(b, q) = After(Effect(b, Head(q)), Tail(q))
<1> DEFINE c == Effect(b, Head(q))
           t == Tail(q)
<1>1. /\ t \in Seq(Frames) /\ Len(q) \in Nat /\ Len(q) > 0 /\ Len(t) = Len(q) - 1
      /\ Head(q) = q[1] /\ Head(q) \in Frames
      /\ \A i \in 1..Len(t) : t[i] = q[1 + i]
    OBVIOUS
<1>2. c \in Views
    BY <1>1, EffectView
<1>3. PICK h : Follows(h, q, b) /\ After(b, q) = h[Len(q)]
    BY AfterFollows
<1> HIDE DEF t
<1>4. PICK j : Follows(j, t, c) /\ After(c, t) = j[Len(t)]
    <2> HIDE DEF c
    <2>1. QED BY <1>1, <1>2, AfterFollows
<1>5. h[1] = j[0]
    <2>1. 1 \in 1..Len(q) /\ 1 - 1 = 0 BY <1>1
    <2>2. h[1] = Effect(h[0], q[1]) BY <1>3, <2>1 DEF Follows
    <2>3. QED BY <1>1, <1>3, <1>4, <2>2 DEF Follows
<1> HIDE DEF c
<1>6. h[1 + Len(t)] = j[0 + Len(t)]
    <2>1. Alike(q, 1, t, 0, Len(t)) BY <1>1 DEF Alike
    <2>2. QED BY <1>3, <1>4, <1>5, <2>1, RunsAgree
<1>7. 1 + Len(t) = Len(q) /\ 0 + Len(t) = Len(t)
    BY <1>1
<1>8. QED BY <1>3, <1>4, <1>6, <1>7 DEF t, c

(* Behind a seed it does not matter what was shown before.                   *)
LEMMA AfterSeed ==
    ASSUME NEW b \in Views, NEW c \in Views, NEW q \in Seq(Frames),
           NEW k \in 1..Len(q), q[k].typ = "seed"
    PROVE  After(b, q) = After(c, q)
<1>1. PICK h : Follows(h, q, b) /\ After(b, q) = h[Len(q)]
    BY AfterFollows
<1>2. PICK j : Follows(j, q, c) /\ After(c, q) = j[Len(q)]
    BY AfterFollows
<1>3. h[k] = j[k]
    BY <1>1, <1>2 DEF Follows, Effect
<1>4. h[k + (Len(q) - k)] = j[k + (Len(q) - k)]
    <2>1. Alike(q, k, q, k, Len(q) - k) BY DEF Alike
    <2>2. QED BY <1>1, <1>2, <1>3, <2>1, RunsAgree
<1>5. k + (Len(q) - k) = Len(q)
    OBVIOUS
<1>6. QED BY <1>1, <1>2, <1>4, <1>5

----------------------------------------------------------------------------
(* What is kept.                                                             *)

\* TypeOK by kind.
Flags == rpaused \in BOOLEAN /\ up \in BOOLEAN /\ armed \in BOOLEAN /\ early \in BOOLEAN
Counts ==
    /\ drawn \in 0..MaxDrawn /\ pauses \in 0..MaxPauses /\ drops \in 0..MaxDrops
    /\ asked \in {"none", "continue", "capture", "layout"} /\ pc \in Places
    /\ async \in Nat /\ passes \in 0..MaxPasses /\ holds \in 0..passes
    /\ pc = "hold" => passes < MaxPasses
Stream == line \in Seq(Items) /\ routed \in 0..MaxDrawn
Sound(s) == s \in Sinks /\ Len(s.ch) <= Buf
Sounds == (\A g \in Gens : Sound(sink[g])) /\ screen \in Screens

\* A finished pump holds no frame, all but the current sink's finish, and no
\* pump is left when a renderer is respawned.
Pumps ==
    /\ cur \in {0, made}
    /\ \A g \in Gens : /\ sink[g].done => sink[g].hand = <<>>
                       /\ g > made => sink[g].done
                       /\ pc = "wire" => sink[g].done

\* One round-trip is out at a time: a reply in flight answers it, and nothing
\* else does.
Answers ==
    /\ \A i \in 1..Len(line) : line[i].typ = "reply" =>
          /\ pc \in Awaiting /\ asked = "none"
          /\ \A j \in 1..Len(line) : line[j].typ = "reply" => j = i
    /\ asked # "none" => pc \in Awaiting /\ up
    /\ asked = "continue" => pc = "continuing"

\* One pause is under way at a time, in flight or queued, and no output comes
\* behind it until it is continued.
Pauses ==
    /\ pc = "down" => async = 0
    /\ up =>
       /\ async \in {0, 1}
       /\ async = 1 \/ asked = "continue" =>
            rpaused /\ \A i \in 1..Len(line) : line[i].typ # "pause"
       /\ async = 1 => asked # "continue"
       /\ \A i \in 1..Len(line) : line[i].typ = "pause" =>
            /\ rpaused /\ async = 0
            /\ \A j \in 1..Len(line) : j > i => line[j].typ = "reply"

\* The main loop has not yet caught up with what the remote drew while it was
\* away; a seed will bring it there.
Stale == inRepair \/ pc = "repaint"

\* The remote had drawn n when it wrote item i, as far as the items before it
\* tell: outputs do not skip.
Before(i, n) ==
    IF i = 1 THEN Stale \/ routed = n
             ELSE line[i - 1].n = n /\ line[i - 1].typ # "pause"

Flow ==
    up => /\ \A i \in 1..Len(line) : line[i].typ = "output" => Before(i, line[i].n - 1)
          /\ ~rpaused => Before(Len(line) + 1, drawn)
          /\ pc \in {"reread", "setup"} => \A i \in 1..Len(line) : line[i].typ = "reply" =>
                Before(i, line[i].n) \/ (rpaused /\ i = Len(line))

\* What a renderer shows once the pump of s has written all it was given.
Queue(s) == s.hand \o s.ch
Told(s, scr) == After([held |-> s.held, screen |-> scr], Queue(s))
Shows(v, n) == v.held \/ v.screen = [upto |-> n, whole |-> TRUE, alt |-> FALSE]
Seeding(s) == \E i \in 1..Len(Queue(s)) : Queue(s)[i].typ = "seed"

\* ScreenHonest, and why no older pump can spoil it: while one is still at it, a
\* seed of the current sink is yet to be written.
Shown ==
    cur # 0 /\ ~ReseedOwed /\ ~early
        => Shows(Told(sink[cur], screen), routed) /\ (Overtakes(cur) => Seeding(sink[cur]))

Kept == Flags /\ Counts /\ Stream /\ Sounds /\ Pumps /\ Answers /\ Pauses /\ Flow /\ Shown
----------------------------------------------------------------------------
LEMMA TypeFromParts == IInv /\ Flags /\ Counts /\ Stream /\ Sounds => TypeOK
<1> SUFFICES ASSUME IInv, Flags, Counts, Stream, Sounds PROVE TypeOK OBVIOUS
<1>1. sink \in [Gens -> Sinks] /\ \A g \in Gens : Len(sink[g].ch) <= Buf
  BY DEF Sounds, Sound, IInv, Shape
<1>2. holds \in 0..MaxPasses /\ passes \in 0..MaxPasses
  BY BoundsAssumption DEF Counts
<1>3. made \in Gens /\ cur \in 0..made /\ inRepair \in BOOLEAN /\ moved \in BOOLEAN
  BY DEF IInv, Shape
<1>4. screen \in [upto : 0..MaxDrawn, whole : BOOLEAN, alt : BOOLEAN]
  BY DEF Sounds, Screens
<1>5. QED BY <1>1, <1>2, <1>3, <1>4 DEF TypeOK, Flags, Counts, Stream

(* What becomes of the control stream. *)
LEMMA Shorter == ASSUME Stream, line # <<>>, line' = Tail(line)
  PROVE /\ Len(line) \in Nat \ {0} /\ Len(line') = Len(line) - 1 /\ line' \in Seq(Items)
        /\ Head(line) = line[1] /\ line[1] \in Items /\ Head(line).n \in 0..MaxDrawn
        /\ \A i \in 1..Len(line') : line'[i] = line[i + 1]
<1>1. line[1] \in Items /\ Head(line) = line[1] BY DEF Stream
<1>2. line[1].n \in 0..MaxDrawn BY <1>1 DEF Items
<1>3. QED BY <1>1, <1>2 DEF Stream

LEMMA Longer == ASSUME Stream, NEW e \in Items, line' = Append(line, e)
  PROVE /\ Len(line) \in Nat /\ Len(line') = Len(line) + 1 /\ line' \in Seq(Items)
        /\ line'[Len(line) + 1] = e
        /\ \A i \in 1..Len(line) : line'[i] = line[i]
BY DEF Stream

LEMMA CutOff == ASSUME Stream, NEW k \in 0..Len(line), line' = SubSeq(line, 1, k)
  PROVE /\ Len(line) \in Nat /\ Len(line') = k /\ line' \in Seq(Items)
        /\ \A i \in 1..k : line'[i] = line[i]
BY DEF Stream

(* The reply taken is the only one there is. *)
LEMMA ReplyTaken == ASSUME Answers, Stream, NEW p, Replied(p)
  PROVE /\ pc = p /\ asked = "none" /\ line[1].typ = "reply"
        /\ line # <<>> /\ line' = Tail(line)
        /\ \A i \in 1..Len(line') : line'[i].typ # "reply"
<1>1. pc = p /\ line # <<>> /\ line' = Tail(line) /\ Head(line).typ = "reply" BY DEF Replied
<1>2. /\ Len(line) \in Nat \ {0} /\ Len(line') = Len(line) - 1 /\ line[1].typ = "reply"
      /\ \A i \in 1..Len(line') : line'[i] = line[i + 1]
  BY <1>1, Shorter
<1>3. 1 \in 1..Len(line) BY <1>2
<1>4. asked = "none" /\ \A j \in 1..Len(line) : line[j].typ = "reply" => j = 1
  BY <1>2, <1>3 DEF Answers
<1>5. ASSUME NEW i \in 1..Len(line') PROVE line'[i].typ # "reply"
  <2>1. i + 1 \in 1..Len(line) /\ i + 1 # 1 BY <1>2
  <2>2. QED BY <1>2, <1>4, <2>1
<1>6. QED BY <1>1, <1>2, <1>4, <1>5

LEMMA NoReply == ASSUME Answers, pc \notin Awaiting
  PROVE asked = "none" /\ \A i \in 1..Len(line) : line[i].typ # "reply"
BY DEF Answers

LEMMA Kinds == ASSUME NEW n \in 0..MaxDrawn
  PROVE Item("output", n) \in Items /\ Item("reply", n) \in Items /\ Item("pause", 0) \in Items
        /\ Seed(n) \in Frames /\ Output(n) \in Frames
        /\ \A t \in FrameTypes : Frame(t) \in Frames
<1>1. 0 \in 0..MaxDrawn BY BoundsAssumption
<1>2. QED BY <1>1 DEF Item, Items, Seed, Output, Frame, Frames, FrameTypes

LEMMA ResetsSplit == Reseeded =>
  \E p \in {"reseed", "confirm", "repaintAll"}, then \in {"due", "select", "settle"} :
    (p = "repaintAll" <=> then = "settle") /\ (Seeded(p, then) \/ SeedLost(p, then))
<1> SUFFICES ASSUME Reseeded
    PROVE \E p \in {"reseed", "confirm", "repaintAll"}, then \in {"due", "select", "settle"} :
      (p = "repaintAll" <=> then = "settle") /\ (Seeded(p, then) \/ SeedLost(p, then))
  OBVIOUS
<1>1. PICK r \in Reseeds : Seeded(r[1], r[2]) \/ SeedLost(r[1], r[2]) BY DEF Reseeded
<1>2. /\ r[1] \in {"reseed", "confirm", "repaintAll"} /\ r[2] \in {"due", "select", "settle"}
      /\ r[1] = "repaintAll" <=> r[2] = "settle"
  BY DEF Reseeds
<1>3. QED BY <1>1, <1>2

(* What the operations of a sink make of it. *)
LEMMA SinkEdits == ASSUME NEW s, Sound(s)
  PROVE /\ \A b \in BOOLEAN : /\ Sound([s EXCEPT !.closed = b]) /\ Sound([s EXCEPT !.paused = b])
                              /\ Sound([s EXCEPT !.dropped = b]) /\ Sound([s EXCEPT !.held = b])
                              /\ Sound([s EXCEPT !.done = b])
        /\ \A x \in {"none", "marked", "due"} : Sound([s EXCEPT !.reshaped = x])
        /\ \A q \in Seq(Frames) : /\ Sound([s EXCEPT !.hand = q])
                                  /\ Len(q) <= Buf => Sound([s EXCEPT !.ch = q])
<1> USE DEF Sound, Sinks
<1>1. \A b \in BOOLEAN : /\ Sound([s EXCEPT !.closed = b]) /\ Sound([s EXCEPT !.paused = b])
                         /\ Sound([s EXCEPT !.dropped = b]) /\ Sound([s EXCEPT !.held = b])
                         /\ Sound([s EXCEPT !.done = b])
  OBVIOUS
<1>2. \A x \in {"none", "marked", "due"} : Sound([s EXCEPT !.reshaped = x]) OBVIOUS
<1>3. \A q \in Seq(Frames) : /\ Sound([s EXCEPT !.hand = q])
                             /\ Len(q) <= Buf => Sound([s EXCEPT !.ch = q])
  OBVIOUS
<1>4. QED BY <1>1, <1>2, <1>3

----------------------------------------------------------------------------
(* The parts of Kept that say nothing of the sinks, one lemma each.          *)

(* The types hold over every step. *)
LEMMA FlagsKept == ASSUME Flags, Next PROVE Flags'
<1> USE DEF Flags, remoteVars, lineVars, sinkVars, mainVars
<1>1. CASE Draw BY <1>1 DEF Draw, Item
<1>2. CASE PausePane BY <1>2 DEF PausePane, Item
<1>3. CASE Answer BY <1>3 DEF Answer, Item
<1>4. CASE ConnectionLost BY <1>4 DEF ConnectionLost
<1>5. ASSUME NEW g \in Gens, Pump(g) PROVE Flags'
  BY <1>5 DEF Pump, PumpTake, PumpWrite, PumpDeadline, Frame, PumpExit
<1>6. CASE RouteAside BY <1>6 DEF RouteAside, Awaiting
<1>7. CASE Continued BY <1>7 DEF Continued, Replied, Ask
<1>8. CASE ContinueLost BY <1>8 DEF ContinueLost, Lost
<1>9. CASE Repainted BY <1>9 DEF Repainted, Replied, Seed
<1>10. CASE RepaintLost BY <1>10 DEF RepaintLost, Lost
<1>11. CASE SettlePause BY <1>11 DEF SettlePause, HandlePause, Ask
<1>12. CASE SettleDone BY <1>12 DEF SettleDone
<1>13. CASE ReseedDropped BY <1>13 DEF ReseedDropped, Ask
<1>14. CASE ReseedReshaped BY <1>14 DEF ReseedReshaped, Ask
<1>15. ASSUME NEW p \in {"reseed", "confirm", "repaintAll"},
              NEW then \in {"due", "select", "settle"},
              p = "repaintAll" <=> then = "settle", Seeded(p, then)
       PROVE  Flags'
  BY <1>15 DEF Seeded, Replied, Seed
<1>16. ASSUME NEW p \in {"reseed", "confirm", "repaintAll"},
              NEW then \in {"due", "select", "settle"},
              p = "repaintAll" <=> then = "settle", SeedLost(p, then)
       PROVE  Flags'
  BY <1>16 DEF SeedLost, Lost
<1>17. CASE SelectOutput BY <1>17 DEF SelectOutput
<1>18. CASE SelectPause BY <1>18 DEF SelectPause, HandlePause, Ask
<1>19. CASE Tick BY <1>19 DEF Tick
<1>20. CASE StreamEnded BY <1>20 DEF StreamEnded, Lost
<1>21. CASE PassHold BY <1>21 DEF PassHold
<1>22. CASE PassShape BY <1>22 DEF PassShape, Frame, Ask
<1>23. CASE PassSeeded BY <1>23 DEF PassSeeded, Replied, Seed, Ask
<1>24. CASE PassSeedLost BY <1>24 DEF PassSeedLost, Lost, Ask
<1>25. CASE Reread BY <1>25 DEF Reread, Replied, CanReshape, Lost
<1>26. CASE ReleaseHold BY <1>26 DEF ReleaseHold
<1>27. CASE ReconcileDone BY <1>27 DEF ReconcileDone, Ask
<1>28. CASE Revive BY <1>28 DEF Revive, Replied, Lost, Wired
<1>29. CASE SetupSpawned BY <1>29 DEF SetupSpawned, Replied, Ask
<1>30. CASE Wire BY <1>30 DEF Wire, Replied, Wired, Seed, Frame, Lost
<1>31. CASE Attach BY <1>31 DEF Attach
<1>32. CASE Repair BY <1>32 DEF Repair, CanReshape, Ask
<1>33. CASE StartReconcile BY <1>33 DEF StartReconcile, CanReshape
<1>34. CASE Reset BY <1>34 DEF Reset, Ask
<1>35. CASE Retire BY <1>35 DEF Retire
<1>36. QED
  BY <1>1, <1>2, <1>3, <1>4, <1>5, <1>6, <1>7, <1>8, <1>9, <1>10, <1>11, <1>12, <1>13,
     <1>14, <1>15, <1>16, <1>17, <1>18, <1>19, <1>20, <1>21, <1>22, <1>23, <1>24, <1>25,
     <1>26, <1>27, <1>28, <1>29, <1>30, <1>31, <1>32, <1>33, <1>34, <1>35, ResetsSplit DEF
     Next, FarEnd, MainStep

LEMMA CountsKept == ASSUME Counts, Next PROVE Counts'
<1> USE DEF Counts, Places, Awaiting, remoteVars, lineVars, sinkVars, mainVars
<1>1. CASE Draw BY <1>1, BoundsAssumption DEF Draw
<1>2. CASE PausePane BY <1>2, BoundsAssumption DEF PausePane
<1>3. CASE Answer BY <1>3, BoundsAssumption DEF Answer
<1>4. CASE ConnectionLost BY <1>4, BoundsAssumption DEF ConnectionLost
<1>5. ASSUME NEW g \in Gens, Pump(g) PROVE Counts'
  BY <1>5, BoundsAssumption DEF Pump, PumpTake, PumpWrite, PumpDeadline, Frame, PumpExit
<1>6. CASE RouteAside BY <1>6, BoundsAssumption DEF RouteAside
<1>7. CASE Continued BY <1>7, BoundsAssumption DEF Continued, Replied, Ask
<1>8. CASE ContinueLost BY <1>8, BoundsAssumption DEF ContinueLost, Lost
<1>9. CASE Repainted BY <1>9, BoundsAssumption DEF Repainted, Replied, Seed
<1>10. CASE RepaintLost BY <1>10, BoundsAssumption DEF RepaintLost, Lost
<1>11. CASE SettlePause BY <1>11, BoundsAssumption DEF SettlePause, HandlePause, Ask
<1>12. CASE SettleDone BY <1>12, BoundsAssumption DEF SettleDone
<1>13. CASE ReseedDropped BY <1>13, BoundsAssumption DEF ReseedDropped, Ask
<1>14. CASE ReseedReshaped BY <1>14, BoundsAssumption DEF ReseedReshaped, Ask
<1>15. ASSUME NEW p \in {"reseed", "confirm", "repaintAll"},
              NEW then \in {"due", "select", "settle"},
              p = "repaintAll" <=> then = "settle", Seeded(p, then)
       PROVE  Counts'
  BY <1>15, BoundsAssumption DEF Seeded, Replied, Seed
<1>16. ASSUME NEW p \in {"reseed", "confirm", "repaintAll"},
              NEW then \in {"due", "select", "settle"},
              p = "repaintAll" <=> then = "settle", SeedLost(p, then)
       PROVE  Counts'
  BY <1>16, BoundsAssumption DEF SeedLost, Lost
<1>17. CASE SelectOutput BY <1>17, BoundsAssumption DEF SelectOutput
<1>18. CASE SelectPause BY <1>18, BoundsAssumption DEF SelectPause, HandlePause, Ask
<1>19. CASE Tick BY <1>19, BoundsAssumption DEF Tick
<1>20. CASE StreamEnded BY <1>20, BoundsAssumption DEF StreamEnded, Lost
<1>21. CASE PassHold BY <1>21, BoundsAssumption DEF PassHold
<1>22. CASE PassShape BY <1>22, BoundsAssumption DEF PassShape, Frame, Ask
<1>23. CASE PassSeeded BY <1>23, BoundsAssumption DEF PassSeeded, Replied, Seed, Ask
<1>24. CASE PassSeedLost BY <1>24, BoundsAssumption DEF PassSeedLost, Lost, Ask
<1>25. CASE Reread BY <1>25, BoundsAssumption DEF Reread, Replied, CanReshape, Lost
<1>26. CASE ReleaseHold BY <1>26, BoundsAssumption DEF ReleaseHold
<1>27. CASE ReconcileDone BY <1>27, BoundsAssumption DEF ReconcileDone, Ask
<1>28. CASE Revive BY <1>28, BoundsAssumption DEF Revive, Replied, Lost, Wired
<1>29. CASE SetupSpawned BY <1>29, BoundsAssumption DEF SetupSpawned, Replied, Ask
<1>30. CASE Wire BY <1>30, BoundsAssumption DEF Wire, Replied, Wired, Seed, Frame, Lost
<1>31. CASE Attach BY <1>31, BoundsAssumption DEF Attach
<1>32. CASE Repair BY <1>32, BoundsAssumption DEF Repair, CanReshape, Ask
<1>33. CASE StartReconcile BY <1>33, BoundsAssumption DEF StartReconcile, CanReshape
<1>34. CASE Reset BY <1>34, BoundsAssumption DEF Reset, Ask
<1>35. CASE Retire BY <1>35, BoundsAssumption DEF Retire
<1>36. QED
  BY <1>1, <1>2, <1>3, <1>4, <1>5, <1>6, <1>7, <1>8, <1>9, <1>10, <1>11, <1>12, <1>13,
     <1>14, <1>15, <1>16, <1>17, <1>18, <1>19, <1>20, <1>21, <1>22, <1>23, <1>24, <1>25,
     <1>26, <1>27, <1>28, <1>29, <1>30, <1>31, <1>32, <1>33, <1>34, <1>35, ResetsSplit DEF
     Next, FarEnd, MainStep

LEMMA StreamKept == ASSUME Stream, Counts, Next PROVE Stream'
<1> USE DEF Stream, Counts, remoteVars, lineVars, sinkVars, mainVars
<1>1. CASE Draw BY <1>1, Longer, Kinds, BoundsAssumption DEF Draw
<1>2. CASE PausePane BY <1>2, Longer, Kinds DEF PausePane
<1>3. CASE Answer BY <1>3, Longer, Kinds DEF Answer
<1>4. CASE ConnectionLost BY <1>4, CutOff DEF ConnectionLost
<1>5. ASSUME NEW g \in Gens, Pump(g) PROVE Stream'
  BY <1>5 DEF Pump, PumpTake, PumpWrite, PumpDeadline, Frame, PumpExit
<1>6. CASE RouteAside BY <1>6, Shorter DEF RouteAside, Awaiting
<1>7. CASE Continued BY <1>7, Shorter DEF Continued, Replied, Ask
<1>8. CASE ContinueLost BY <1>8 DEF ContinueLost, Lost
<1>9. CASE Repainted BY <1>9, Shorter DEF Repainted, Replied, Seed
<1>10. CASE RepaintLost BY <1>10 DEF RepaintLost, Lost
<1>11. CASE SettlePause BY <1>11 DEF SettlePause, HandlePause, Ask
<1>12. CASE SettleDone BY <1>12 DEF SettleDone
<1>13. CASE ReseedDropped BY <1>13 DEF ReseedDropped, Ask
<1>14. CASE ReseedReshaped BY <1>14 DEF ReseedReshaped, Ask
<1>15. ASSUME NEW p \in {"reseed", "confirm", "repaintAll"},
              NEW then \in {"due", "select", "settle"},
              p = "repaintAll" <=> then = "settle", Seeded(p, then)
       PROVE  Stream'
  BY <1>15, Shorter DEF Seeded, Replied, Seed
<1>16. ASSUME NEW p \in {"reseed", "confirm", "repaintAll"},
              NEW then \in {"due", "select", "settle"},
              p = "repaintAll" <=> then = "settle", SeedLost(p, then)
       PROVE  Stream'
  BY <1>16 DEF SeedLost, Lost
<1>17. CASE SelectOutput BY <1>17, Shorter DEF SelectOutput
<1>18. CASE SelectPause BY <1>18, Shorter DEF SelectPause, HandlePause, Ask
<1>19. CASE Tick BY <1>19 DEF Tick
<1>20. CASE StreamEnded BY <1>20 DEF StreamEnded, Lost
<1>21. CASE PassHold BY <1>21 DEF PassHold
<1>22. CASE PassShape BY <1>22 DEF PassShape, Frame, Ask
<1>23. CASE PassSeeded BY <1>23, Shorter DEF PassSeeded, Replied, Seed, Ask
<1>24. CASE PassSeedLost BY <1>24 DEF PassSeedLost, Lost, Ask
<1>25. CASE Reread BY <1>25, Shorter DEF Reread, Replied, CanReshape, Lost
<1>26. CASE ReleaseHold BY <1>26 DEF ReleaseHold
<1>27. CASE ReconcileDone BY <1>27 DEF ReconcileDone, Ask
<1>28. CASE Revive BY <1>28, Shorter DEF Revive, Replied, Lost, Wired
<1>29. CASE SetupSpawned BY <1>29, Shorter DEF SetupSpawned, Replied, Ask
<1>30. CASE Wire BY <1>30, Shorter DEF Wire, Replied, Wired, Seed, Frame, Lost
<1>31. CASE Attach BY <1>31 DEF Attach
<1>32. CASE Repair BY <1>32 DEF Repair, CanReshape, Ask
<1>33. CASE StartReconcile BY <1>33 DEF StartReconcile, CanReshape
<1>34. CASE Reset BY <1>34 DEF Reset, Ask
<1>35. CASE Retire BY <1>35 DEF Retire
<1>36. QED
  BY <1>1, <1>2, <1>3, <1>4, <1>5, <1>6, <1>7, <1>8, <1>9, <1>10, <1>11, <1>12, <1>13,
     <1>14, <1>15, <1>16, <1>17, <1>18, <1>19, <1>20, <1>21, <1>22, <1>23, <1>24, <1>25,
     <1>26, <1>27, <1>28, <1>29, <1>30, <1>31, <1>32, <1>33, <1>34, <1>35, ResetsSplit DEF
     Next, FarEnd, MainStep

LEMMA AnswersKept == ASSUME Answers, Stream, Counts, Next PROVE Answers'
<1> USE DEF Answers, Awaiting, Counts, remoteVars, lineVars, sinkVars, mainVars
<1>1. CASE Draw BY <1>1, Longer, Kinds, BoundsAssumption DEF Draw, Item
<1>2. CASE PausePane BY <1>2, Longer, Kinds DEF PausePane, Item
<1>3. CASE Answer BY <1>3, Longer, Kinds DEF Answer, Item
<1>4. CASE ConnectionLost BY <1>4, CutOff DEF ConnectionLost
<1>5. ASSUME NEW g \in Gens, Pump(g) PROVE Answers'
  BY <1>5 DEF Pump, PumpTake, PumpWrite, PumpDeadline, Frame, PumpExit
<1>6. CASE RouteAside BY <1>6, Shorter DEF RouteAside
<1>7. CASE Continued BY <1>7, Shorter, ReplyTaken DEF Continued, Replied, Ask
<1>8. CASE ContinueLost BY <1>8 DEF ContinueLost, Lost
<1>9. CASE Repainted BY <1>9, Shorter, ReplyTaken DEF Repainted, Replied, Seed
<1>10. CASE RepaintLost BY <1>10 DEF RepaintLost, Lost
<1>11. CASE SettlePause BY <1>11, NoReply DEF SettlePause, HandlePause, Ask
<1>12. CASE SettleDone BY <1>12, NoReply DEF SettleDone
<1>13. CASE ReseedDropped BY <1>13, NoReply DEF ReseedDropped, Ask
<1>14. CASE ReseedReshaped BY <1>14, NoReply DEF ReseedReshaped, Ask
<1>15. ASSUME NEW p \in {"reseed", "confirm", "repaintAll"},
              NEW then \in {"due", "select", "settle"},
              p = "repaintAll" <=> then = "settle", Seeded(p, then)
       PROVE  Answers'
  BY <1>15, Shorter, ReplyTaken DEF Seeded, Replied, Seed
<1>16. ASSUME NEW p \in {"reseed", "confirm", "repaintAll"},
              NEW then \in {"due", "select", "settle"},
              p = "repaintAll" <=> then = "settle", SeedLost(p, then)
       PROVE  Answers'
  BY <1>16 DEF SeedLost, Lost
<1>17. CASE SelectOutput BY <1>17, Shorter, NoReply DEF SelectOutput
<1>18. CASE SelectPause BY <1>18, Shorter, NoReply DEF SelectPause, HandlePause, Ask
<1>19. CASE Tick BY <1>19, NoReply DEF Tick
<1>20. CASE StreamEnded BY <1>20 DEF StreamEnded, Lost
<1>21. CASE PassHold BY <1>21, NoReply DEF PassHold
<1>22. CASE PassShape BY <1>22, NoReply DEF PassShape, Frame, Ask
<1>23. CASE PassSeeded BY <1>23, Shorter, ReplyTaken DEF PassSeeded, Replied, Seed, Ask
<1>24. CASE PassSeedLost BY <1>24 DEF PassSeedLost, Lost, Ask
<1>25. CASE Reread
  <2>1. CASE Replied("reread")
    BY <1>25, <2>1, Shorter, ReplyTaken DEF Reread, Wired, CanReshape
  <2>2. CASE Lost("reread") /\ UNCHANGED line
    BY <1>25, <2>2 DEF Reread, Wired, Lost, CanReshape
  <2>3. QED BY <1>25, <2>1, <2>2 DEF Reread
<1>26. CASE ReleaseHold BY <1>26, NoReply DEF ReleaseHold
<1>27. CASE ReconcileDone BY <1>27, NoReply DEF ReconcileDone, Ask
<1>28. CASE Revive
  <2>1. CASE Replied("setup")
    BY <1>28, <2>1, Shorter, ReplyTaken DEF Revive, Wired, CanReshape
  <2>2. CASE Lost("setup") /\ UNCHANGED line
    BY <1>28, <2>2 DEF Revive, Wired, Lost, CanReshape
  <2>3. QED BY <1>28, <2>1, <2>2 DEF Revive
<1>29. CASE SetupSpawned BY <1>29, Shorter, ReplyTaken DEF SetupSpawned, Replied, Ask
<1>30. CASE Wire
  <2>1. CASE Replied("wire") BY <1>30, <2>1, Shorter, ReplyTaken DEF Wire, Wired, CanReshape
  <2>2. CASE Lost("wire") /\ UNCHANGED line BY <1>30, <2>2 DEF Wire, Wired, Lost, CanReshape
  <2>3. QED BY <1>30, <2>1, <2>2 DEF Wire
<1>31. CASE Attach BY <1>31, NoReply DEF Attach
<1>32. CASE Repair BY <1>32, NoReply DEF Repair, CanReshape, Ask
<1>33. CASE StartReconcile BY <1>33, NoReply DEF StartReconcile, CanReshape
<1>34. CASE Reset BY <1>34, NoReply DEF Reset, Ask
<1>35. CASE Retire BY <1>35, NoReply DEF Retire
<1>36. QED
  BY <1>1, <1>2, <1>3, <1>4, <1>5, <1>6, <1>7, <1>8, <1>9, <1>10, <1>11, <1>12, <1>13,
     <1>14, <1>15, <1>16, <1>17, <1>18, <1>19, <1>20, <1>21, <1>22, <1>23, <1>24, <1>25,
     <1>26, <1>27, <1>28, <1>29, <1>30, <1>31, <1>32, <1>33, <1>34, <1>35, ResetsSplit DEF
     Next, FarEnd, MainStep

(* Nothing but replies is in flight behind a pause. *)
LEMMA PausesShift == ASSUME Pauses, Stream, up, line # <<>>, line' = Tail(line)
  PROVE /\ \A i \in 1..Len(line') : line'[i].typ = "pause" =>
             /\ rpaused /\ async = 0 /\ line[1].typ # "pause"
             /\ \A j \in 1..Len(line') : j > i => line'[j].typ = "reply"
        /\ line[1].typ = "pause" =>
             rpaused /\ async = 0 /\ \A i \in 1..Len(line') : line'[i].typ = "reply"
        /\ asked = "continue" =>
             line[1].typ # "pause" /\ \A i \in 1..Len(line') : line'[i].typ # "pause"
        /\ Head(line) = line[1]
<1>1. /\ Len(line) \in Nat \ {0} /\ Len(line') = Len(line) - 1 /\ Head(line) = line[1]
      /\ \A i \in 1..Len(line') : line'[i] = line[i + 1]
  BY Shorter
<1>2. 1 \in 1..Len(line) /\ \A i \in 1..Len(line') : i + 1 \in 1..Len(line) /\ i + 1 > 1
  BY <1>1
<1>3. \A i \in 1..Len(line) : line[i].typ = "pause" =>
        /\ rpaused /\ async = 0
        /\ \A j \in 1..Len(line) : j > i => line[j].typ = "reply"
  BY DEF Pauses
<1>4. line[1].typ = "pause" =>
        rpaused /\ async = 0 /\ \A i \in 1..Len(line') : line'[i].typ = "reply"
  BY <1>1, <1>2, <1>3
<1>5. ASSUME NEW i \in 1..Len(line'), line'[i].typ = "pause"
      PROVE  /\ rpaused /\ async = 0 /\ line[1].typ # "pause"
             /\ \A j \in 1..Len(line') : j > i => line'[j].typ = "reply"
  <2>1. line[i + 1].typ = "pause" BY <1>1, <1>5
  <2>2. line[1].typ # "pause" BY <1>4, <1>5
  <2>3. ASSUME NEW j \in 1..Len(line'), j > i PROVE line'[j].typ = "reply"
    <3>1. j + 1 > i + 1 /\ i \in Nat /\ j \in Nat BY <2>3
    <3>2. QED BY <1>1, <1>2, <1>3, <2>1, <3>1
  <2>4. QED BY <1>2, <1>3, <2>1, <2>2, <2>3
<1>6. ASSUME asked = "continue"
      PROVE  line[1].typ # "pause" /\ \A i \in 1..Len(line') : line'[i].typ # "pause"
  BY <1>1, <1>2, <1>6 DEF Pauses
<1>7. QED BY <1>1, <1>4, <1>5, <1>6

LEMMA PausesKept == ASSUME Pauses, Answers, Flow, Stream, Counts, Next PROVE Pauses'
<1> USE DEF Pauses, Answers, Flow, Before, Awaiting, Counts, remoteVars, lineVars, sinkVars,
       mainVars
<1>1. CASE Draw BY <1>1, Longer, Kinds, BoundsAssumption DEF Draw, Item
<1>2. CASE PausePane BY <1>2, Longer, Kinds DEF PausePane, Item
<1>3. CASE Answer BY <1>3, Longer, Kinds DEF Answer, Item
<1>4. CASE ConnectionLost BY <1>4, CutOff DEF ConnectionLost
<1>5. ASSUME NEW g \in Gens, Pump(g) PROVE Pauses'
  BY <1>5 DEF Pump, PumpTake, PumpWrite, PumpDeadline, Frame, PumpExit
<1>6. CASE RouteAside
  <2>1. line[1].typ \in {"output", "pause"} /\ Head(line) = line[1]
    BY <1>6, Shorter DEF RouteAside, Items
  <2>2. CASE line[1].typ = "output" BY <1>6, <2>1, <2>2, PausesShift DEF RouteAside
  <2>3. CASE line[1].typ = "pause" BY <1>6, <2>1, <2>3, PausesShift DEF RouteAside
  <2>4. QED BY <2>1, <2>2, <2>3
<1>7. CASE Continued BY <1>7, PausesShift, ReplyTaken DEF Continued, Replied, Ask
<1>8. CASE ContinueLost BY <1>8 DEF ContinueLost, Lost
<1>9. CASE Repainted BY <1>9, PausesShift, ReplyTaken DEF Repainted, Replied, Seed
<1>10. CASE RepaintLost BY <1>10 DEF RepaintLost, Lost
<1>11. CASE SettlePause BY <1>11, NoReply DEF SettlePause, HandlePause, Ask
<1>12. CASE SettleDone BY <1>12, NoReply DEF SettleDone
<1>13. CASE ReseedDropped BY <1>13, NoReply DEF ReseedDropped, Ask
<1>14. CASE ReseedReshaped BY <1>14, NoReply DEF ReseedReshaped, Ask
<1>15. ASSUME NEW p \in {"reseed", "confirm", "repaintAll"},
              NEW then \in {"due", "select", "settle"},
              p = "repaintAll" <=> then = "settle", Seeded(p, then)
       PROVE  Pauses'
  BY <1>15, PausesShift, ReplyTaken DEF Seeded, Replied, Seed
<1>16. ASSUME NEW p \in {"reseed", "confirm", "repaintAll"},
              NEW then \in {"due", "select", "settle"},
              p = "repaintAll" <=> then = "settle", SeedLost(p, then)
       PROVE  Pauses'
  BY <1>16 DEF SeedLost, Lost
<1>17. CASE SelectOutput BY <1>17, PausesShift, NoReply DEF SelectOutput
<1>18. CASE SelectPause BY <1>18, PausesShift, NoReply DEF SelectPause, HandlePause, Ask
<1>19. CASE Tick BY <1>19, NoReply DEF Tick
<1>20. CASE StreamEnded BY <1>20 DEF StreamEnded, Lost
<1>21. CASE PassHold BY <1>21, NoReply DEF PassHold
<1>22. CASE PassShape BY <1>22, NoReply DEF PassShape, Frame, Ask
<1>23. CASE PassSeeded BY <1>23, PausesShift, ReplyTaken DEF PassSeeded, Replied, Seed, Ask
<1>24. CASE PassSeedLost BY <1>24 DEF PassSeedLost, Lost, Ask
<1>25. CASE Reread
  <2>1. CASE Replied("reread")
    BY <1>25, <2>1, PausesShift, ReplyTaken DEF Reread, Wired, CanReshape
  <2>2. CASE Lost("reread") /\ UNCHANGED line
    BY <1>25, <2>2 DEF Reread, Wired, Lost, CanReshape
  <2>3. QED BY <1>25, <2>1, <2>2 DEF Reread
<1>26. CASE ReleaseHold BY <1>26, NoReply DEF ReleaseHold
<1>27. CASE ReconcileDone BY <1>27, NoReply DEF ReconcileDone, Ask
<1>28. CASE Revive
  <2>1. CASE Replied("setup")
    BY <1>28, <2>1, PausesShift, ReplyTaken DEF Revive, Wired, CanReshape
  <2>2. CASE Lost("setup") /\ UNCHANGED line
    BY <1>28, <2>2 DEF Revive, Wired, Lost, CanReshape
  <2>3. QED BY <1>28, <2>1, <2>2 DEF Revive
<1>29. CASE SetupSpawned BY <1>29, PausesShift, ReplyTaken DEF SetupSpawned, Replied, Ask
<1>30. CASE Wire
  <2>1. CASE Replied("wire")
    BY <1>30, <2>1, PausesShift, ReplyTaken DEF Wire, Wired, CanReshape
  <2>2. CASE Lost("wire") /\ UNCHANGED line BY <1>30, <2>2 DEF Wire, Wired, Lost, CanReshape
  <2>3. QED BY <1>30, <2>1, <2>2 DEF Wire
<1>31. CASE Attach BY <1>31, NoReply DEF Attach
<1>32. CASE Repair BY <1>32, NoReply DEF Repair, CanReshape, Ask
<1>33. CASE StartReconcile BY <1>33, NoReply DEF StartReconcile, CanReshape
<1>34. CASE Reset BY <1>34, NoReply DEF Reset, Ask
<1>35. CASE Retire BY <1>35, NoReply DEF Retire
<1>36. QED
  BY <1>1, <1>2, <1>3, <1>4, <1>5, <1>6, <1>7, <1>8, <1>9, <1>10, <1>11, <1>12, <1>13,
     <1>14, <1>15, <1>16, <1>17, <1>18, <1>19, <1>20, <1>21, <1>22, <1>23, <1>24, <1>25,
     <1>26, <1>27, <1>28, <1>29, <1>30, <1>31, <1>32, <1>33, <1>34, <1>35, ResetsSplit DEF
     Next, FarEnd, MainStep

(* The items of a stream still follow one another when its head is taken, as   *)
(* long as the main loop takes note of what the head said.                     *)
LEMMA FlowShift ==
  ASSUME Flow, Stream, line # <<>>, line' = Tail(line), up, UNCHANGED <<up, rpaused, drawn>>,
         line[1].typ # "pause" => Stale' \/ routed' = line[1].n,
         pc' \in {"reread", "setup"} =>
           pc' = pc \/ \A i \in 1..Len(line') : line'[i].typ # "reply"
  PROVE  Flow'
<1> DEFINE Then(i, n) == IF i = 1 THEN Stale' \/ routed' = n
                          ELSE line'[i - 1].n = n /\ line'[i - 1].typ # "pause"
<1> HIDE DEF Then
<1>1. /\ Len(line) \in Nat \ {0} /\ Len(line') = Len(line) - 1
      /\ \A i \in 1..Len(line') : line'[i] = line[i + 1]
  BY Shorter
<1>2. ASSUME NEW i \in 1..(Len(line') + 1), NEW n, Before(i + 1, n) PROVE Then(i, n)
  <2>1. line[(i + 1) - 1].n = n /\ line[(i + 1) - 1].typ # "pause" /\ (i + 1) - 1 = i
    BY <1>1, <1>2 DEF Before, Then
  <2>2. CASE i = 1 BY <2>1, <2>2 DEF Before, Then
  <2>3. CASE i # 1
    <3>1. i - 1 \in 1..Len(line') /\ (i - 1) + 1 = i BY <1>1, <2>3
    <3>2. line'[i - 1] = line[i] BY <1>1, <3>1
    <3>3. QED BY <2>1, <2>3, <3>2 DEF Before, Then
  <2>4. QED BY <2>2, <2>3
<1>3. ASSUME NEW i \in 1..Len(line'), line'[i].typ = "output"
      PROVE  Then(i, line'[i].n - 1)
  <2>1. i + 1 \in 1..Len(line) /\ line[i + 1] = line'[i] /\ i \in 1..(Len(line') + 1)
    BY <1>1
  <2>2. Before(i + 1, line'[i].n - 1) BY <1>3, <2>1 DEF Flow
  <2>3. QED BY <1>2, <2>1, <2>2
<1>4. ASSUME ~rpaused PROVE Then(Len(line') + 1, drawn)
  <2>1. Before(Len(line) + 1, drawn) BY <1>4 DEF Flow
  <2>2. Len(line) + 1 = (Len(line') + 1) + 1 /\ Len(line') + 1 \in 1..(Len(line') + 1)
    BY <1>1
  <2>3. Then(Len(line') + 1, drawn) BY <1>2, <2>1, <2>2
  <2>4. QED BY <2>3
<1>5. ASSUME pc' \in {"reread", "setup"}, NEW i \in 1..Len(line'), line'[i].typ = "reply"
      PROVE  Then(i, line'[i].n) \/ (rpaused /\ i = Len(line'))
  <2>1. i + 1 \in 1..Len(line) /\ line[i + 1] = line'[i] /\ i \in 1..(Len(line') + 1)
    BY <1>1
  <2>2. Before(i + 1, line'[i].n) \/ (rpaused /\ i + 1 = Len(line))
    BY <1>5, <2>1 DEF Flow
  <2>3. Before(i + 1, line'[i].n) => Then(i, line'[i].n) BY <1>2, <2>1
  <2> DEFINE m == Len(line')
  <2>4. m \in Nat /\ Len(line) = m + 1 /\ i \in 1..m BY <1>1
  <2> HIDE DEF m
  <2>5. i + 1 = Len(line) => i = m BY <2>4
  <2>6. QED BY <2>2, <2>3, <2>5 DEF m
<1>6. QED BY <1>3, <1>4, <1>5 DEF Flow, Before, Then

LEMMA FlowGrows ==
  ASSUME Flow, Stream, NEW e \in Items, line' = Append(line, e), up,
         UNCHANGED <<up, pc, inRepair, routed>>,
         e.typ = "output" => ~rpaused /\ e.n - 1 = drawn,
         e.typ = "reply" => ~rpaused \/ rpaused' \/ pc \notin {"reread", "setup"},
         e.typ = "reply" => e.n = drawn,
         ~rpaused' => e.typ # "pause" /\ e.n = drawn',
         rpaused => \A i \in 1..Len(line) : line[i].typ = "reply" => pc \notin {"reread", "setup"}
  PROVE  Flow'
<1> DEFINE Then(i, n) == IF i = 1 THEN Stale' \/ routed' = n
                          ELSE line'[i - 1].n = n /\ line'[i - 1].typ # "pause"
<1> HIDE DEF Then
<1>1. /\ Len(line) \in Nat /\ Len(line') = Len(line) + 1 /\ line'[Len(line) + 1] = e
      /\ \A i \in 1..Len(line) : line'[i] = line[i]
  BY Longer
<1>2. ASSUME NEW i \in 1..(Len(line) + 1), NEW n, Before(i, n) PROVE Then(i, n)
  <2>1. CASE i = 1 BY <1>2, <2>1 DEF Before, Then, Stale
  <2>2. CASE i # 1
    <3>1. i - 1 \in 1..Len(line) BY <1>1, <2>2
    <3>2. line'[i - 1] = line[i - 1] BY <1>1, <3>1
    <3>3. QED BY <1>2, <2>2, <3>2 DEF Before, Then
  <2>3. QED BY <2>1, <2>2
<1>3. ASSUME NEW i \in 1..Len(line'), line'[i].typ = "output"
      PROVE  Then(i, line'[i].n - 1)
  <2>1. CASE i \in 1..Len(line)
    <3>1. line'[i] = line[i] /\ i \in 1..(Len(line) + 1) BY <1>1, <2>1
    <3>2. Before(i, line'[i].n - 1) BY <1>3, <2>1, <3>1 DEF Flow
    <3>3. QED BY <1>2, <3>1, <3>2
  <2>2. CASE i = Len(line) + 1
    <3>1. Before(i, line'[i].n - 1) BY <1>1, <1>3, <2>2 DEF Flow
    <3>2. i \in 1..(Len(line) + 1) BY <1>1, <2>2
    <3>3. QED BY <1>2, <3>1, <3>2
  <2>3. QED BY <1>1, <2>1, <2>2
<1>4. ASSUME ~rpaused' PROVE Then(Len(line') + 1, drawn')
  <2>1. Len(line') + 1 # 1 /\ (Len(line') + 1) - 1 = Len(line) + 1 BY <1>1
  <2>2. QED BY <1>1, <1>4, <2>1 DEF Before, Then
<1>5. ASSUME pc \in {"reread", "setup"}, NEW i \in 1..Len(line'), line'[i].typ = "reply"
      PROVE  Then(i, line'[i].n) \/ (rpaused' /\ i = Len(line'))
  <2>1. CASE i \in 1..Len(line)
    <3>1. line'[i] = line[i] /\ i \in 1..(Len(line) + 1) BY <1>1, <2>1
    <3>2. ~rpaused BY <1>5, <2>1, <3>1
    <3>3. Before(i, line'[i].n) BY <1>5, <2>1, <3>1, <3>2 DEF Flow
    <3>4. QED BY <1>2, <3>1, <3>3
  <2>2. CASE i = Len(line) + 1
    <3>1. e.typ = "reply" /\ e.n = drawn /\ line'[i] = e BY <1>1, <1>5, <2>2
    <3>2. CASE ~rpaused
      <4>1. Before(i, line'[i].n) BY <2>2, <3>1, <3>2 DEF Flow
      <4>2. QED BY <1>1, <1>2, <2>2, <4>1
    <3>3. CASE rpaused BY <1>1, <1>5, <2>2, <3>1, <3>3
    <3>4. QED BY <3>2, <3>3
  <2>3. QED BY <1>1, <2>1, <2>2
<1>6. QED BY <1>3, <1>4, <1>5 DEF Flow, Before, Then

LEMMA FlowKept == ASSUME IInv, Counts, Stream, Answers, Pauses, Flow, Next PROVE Flow'
<1> USE DEF remoteVars, lineVars, sinkVars, mainVars
<1>1. CASE Draw
  <2>1. CASE up /\ ~rpaused
    <3>1. Item("output", drawn + 1) \in Items /\ (drawn + 1) - 1 = drawn
      BY <1>1, Kinds, BoundsAssumption DEF Counts, Draw
    <3>2. line' = Append(line, Item("output", drawn + 1)) /\ drawn' = drawn + 1
          /\ UNCHANGED <<up, rpaused, pc, inRepair, routed>>
      BY <1>1, <2>1 DEF Draw
    <3>3. QED BY <2>1, <3>1, <3>2, FlowGrows DEF Item
  <2>2. CASE ~up \/ rpaused BY <1>1, <2>2 DEF Draw, Flow, Before, Stale
  <2>3. QED BY <2>1, <2>2
<1>2. CASE PausePane
  <2>1. Item("pause", 0) \in Items BY BoundsAssumption DEF Item, Items
  <2>2. /\ line' = Append(line, Item("pause", 0)) /\ up /\ ~rpaused /\ rpaused'
        /\ UNCHANGED <<up, pc, inRepair, routed, drawn>>
    BY <1>2 DEF PausePane
  <2>3. QED BY <2>1, <2>2, FlowGrows DEF Item
<1>3. CASE Answer
  <2>1. Item("reply", drawn) \in Items BY Kinds DEF Counts
  <2>2. /\ line' = Append(line, Item("reply", drawn)) /\ up /\ asked # "none"
        /\ UNCHANGED <<up, pc, inRepair, routed, drawn>>
        /\ ~rpaused \/ rpaused' \/ pc \notin {"reread", "setup"}
    BY <1>3 DEF Answer, Answers
  <2>3. \A i \in 1..Len(line) : line[i].typ # "reply" BY <2>2 DEF Answers
  <2>4. QED BY <2>1, <2>2, <2>3, FlowGrows DEF Item
<1>4. CASE ConnectionLost BY <1>4 DEF ConnectionLost, Flow, Before, Stale
<1>5. ASSUME NEW g \in Gens, Pump(g) PROVE Flow'
  <2>1. UNCHANGED <<line, up, rpaused, drawn, pc, inRepair, routed>>
    BY <1>5 DEF Pump, PumpTake, PumpWrite, PumpDeadline, PumpExit
  <2>2. QED BY <2>1 DEF Flow, Before, Stale
<1>6. CASE RouteAside
  <2>1. CASE up
    BY <1>6, <2>1, Shorter, FlowShift DEF RouteAside, Awaiting, Stale, Items
  <2>2. CASE ~up BY <1>6, <2>2 DEF RouteAside, Awaiting, Flow
  <2>3. QED BY <2>1, <2>2
<1>7. CASE Continued
  <2>1. CASE up
    BY <1>7, <2>1, Shorter, ReplyTaken, FlowShift DEF Continued, Replied, Ask, Stale
  <2>2. CASE ~up BY <1>7, <2>2 DEF Continued, Replied, Ask, Flow
  <2>3. QED BY <2>1, <2>2
<1>8. CASE ContinueLost BY <1>8 DEF ContinueLost, Lost, Flow, Before, Stale
<1>9. CASE Repainted
  <2>1. CASE up
    BY <1>9, <2>1, Shorter, ReplyTaken, FlowShift DEF Repainted, Replied, Seed, Stale
  <2>2. CASE ~up BY <1>9, <2>2 DEF Repainted, Replied, Seed, Flow
  <2>3. QED BY <2>1, <2>2
<1>10. CASE RepaintLost BY <1>10 DEF RepaintLost, Lost, Flow, Before, Stale
<1>11. CASE SettlePause
  BY <1>11, NoReply DEF SettlePause, HandlePause, Ask, Flow, Before, Stale, Awaiting
<1>12. CASE SettleDone BY <1>12, NoReply DEF SettleDone, Flow, Before, Stale, Awaiting
<1>13. CASE ReseedDropped
  BY <1>13, NoReply DEF ReseedDropped, Ask, Flow, Before, Stale, Awaiting
<1>14. CASE ReseedReshaped
  BY <1>14, NoReply DEF ReseedReshaped, Ask, Flow, Before, Stale, Awaiting
<1>15. ASSUME NEW p \in {"reseed", "confirm", "repaintAll"},
              NEW then \in {"due", "select", "settle"},
              p = "repaintAll" <=> then = "settle", Seeded(p, then)
       PROVE  Flow'
  <2>1. CASE up
    BY <1>15, <2>1, Shorter, ReplyTaken, FlowShift DEF Seeded, Replied, Seed, Stale
  <2>2. CASE ~up BY <1>15, <2>2 DEF Seeded, Replied, Seed, Flow
  <2>3. QED BY <2>1, <2>2
<1>16. ASSUME NEW p \in {"reseed", "confirm", "repaintAll"},
              NEW then \in {"due", "select", "settle"},
              p = "repaintAll" <=> then = "settle", SeedLost(p, then)
       PROVE  Flow'
  BY <1>16 DEF SeedLost, Lost, Flow, Before, Stale
<1>17. CASE SelectOutput
  <2>1. CASE up
    BY <1>17, <2>1, Shorter, NoReply, FlowShift DEF SelectOutput, Stale
  <2>2. CASE ~up BY <1>17, <2>2 DEF SelectOutput, Flow
  <2>3. QED BY <2>1, <2>2
<1>18. CASE SelectPause
  <2>1. CASE up
    BY <1>18, <2>1, Shorter, NoReply, FlowShift DEF SelectPause, HandlePause, Ask, Stale
  <2>2. CASE ~up BY <1>18, <2>2 DEF SelectPause, HandlePause, Ask, Flow
  <2>3. QED BY <2>1, <2>2
<1>19. CASE Tick BY <1>19, NoReply DEF Tick, Flow, Before, Stale, Awaiting
<1>20. CASE StreamEnded BY <1>20 DEF StreamEnded, Lost, Flow, Before, Stale
<1>21. CASE PassHold BY <1>21, NoReply DEF PassHold, Flow, Before, Stale, Awaiting
<1>22. CASE PassShape
  BY <1>22, NoReply DEF PassShape, Frame, Ask, Flow, Before, Stale, Awaiting
<1>23. CASE PassSeeded
  <2>1. CASE up
    BY <1>23, <2>1, Shorter, ReplyTaken, FlowShift DEF PassSeeded, Replied, Seed, Ask, Stale
  <2>2. CASE ~up BY <1>23, <2>2 DEF PassSeeded, Replied, Seed, Ask, Flow
  <2>3. QED BY <2>1, <2>2
<1>24. CASE PassSeedLost BY <1>24 DEF PassSeedLost, Lost, Ask, Flow, Before, Stale
<1>25. CASE Reread
  <2>1. CASE Replied("reread") /\ up
    <3>1. line[1].typ = "reply" /\ line # <<>> /\ line' = Tail(line) /\ Len(line) \in Nat \ {0}
          /\ Len(line') = Len(line) - 1 /\ pc = "reread" /\ 1 \in 1..Len(line)
          /\ \A i \in 1..Len(line') : line'[i].typ # "reply"
      BY <2>1, Shorter, ReplyTaken
    <3>2. UNCHANGED <<up, rpaused, drawn, inRepair, routed>> /\ pc' # "repaint"
      BY <1>25, <2>1 DEF Reread, Lost
    <3>3. Before(1, line[1].n) \/ (rpaused /\ 1 = Len(line)) BY <2>1, <3>1 DEF Flow
    <3>4. CASE Before(1, line[1].n)
      <4>1. Stale' \/ routed' = line[1].n BY <3>1, <3>2, <3>4 DEF Before, Stale
      <4>2. QED BY <2>1, <3>1, <3>2, <4>1, FlowShift DEF Stale
    <3>5. CASE rpaused /\ 1 = Len(line)
      <4>1. 1..Len(line') = {}
        <5>1. Len(line') = Len(line) - 1 /\ Len(line) = 1 BY <3>1, <3>5
        <5>2. Len(line') = 0 BY <5>1
        <5>3. QED BY <5>2
      <4>2. rpaused' BY <3>2, <3>5
      <4>3. QED BY <4>1, <4>2 DEF Flow
    <3>6. QED BY <3>3, <3>4, <3>5
  <2>2. CASE ~up BY <1>25, <2>2 DEF Reread, Lost, Flow
  <2>3. QED BY <1>25, <2>1, <2>2 DEF Reread, Lost
<1>26. CASE ReleaseHold BY <1>26, NoReply DEF ReleaseHold, Flow, Before, Stale, Awaiting
<1>27. CASE ReconcileDone
  BY <1>27, NoReply DEF ReconcileDone, Ask, Flow, Before, Stale, Awaiting
<1>28. CASE Revive
  <2>1. CASE Replied("setup") /\ up
    <3>1. line[1].typ = "reply" /\ line # <<>> /\ line' = Tail(line) /\ Len(line) \in Nat \ {0}
          /\ Len(line') = Len(line) - 1 /\ pc = "setup" /\ 1 \in 1..Len(line)
          /\ \A i \in 1..Len(line') : line'[i].typ # "reply"
      BY <2>1, Shorter, ReplyTaken
    <3>2. UNCHANGED <<up, rpaused, drawn, inRepair, routed>> /\ pc' # "repaint"
      BY <1>28, <2>1 DEF Revive, Wired, Lost
    <3>3. Before(1, line[1].n) \/ (rpaused /\ 1 = Len(line)) BY <2>1, <3>1 DEF Flow
    <3>4. CASE Before(1, line[1].n)
      <4>1. Stale' \/ routed' = line[1].n BY <3>1, <3>2, <3>4 DEF Before, Stale
      <4>2. QED BY <2>1, <3>1, <3>2, <4>1, FlowShift DEF Stale
    <3>5. CASE rpaused /\ 1 = Len(line)
      <4>1. 1..Len(line') = {}
        <5>1. Len(line') = Len(line) - 1 /\ Len(line) = 1 BY <3>1, <3>5
        <5>2. Len(line') = 0 BY <5>1
        <5>3. QED BY <5>2
      <4>2. rpaused' BY <3>2, <3>5
      <4>3. QED BY <4>1, <4>2 DEF Flow
    <3>6. QED BY <3>3, <3>4, <3>5
  <2>2. CASE ~up BY <1>28, <2>2 DEF Revive, Wired, Lost, Flow
  <2>3. QED BY <1>28, <2>1, <2>2 DEF Revive, Lost
<1>29. CASE SetupSpawned
  <2>1. CASE Replied("setup") /\ up
    <3>1. line[1].typ = "reply" /\ line # <<>> /\ line' = Tail(line) /\ Len(line) \in Nat \ {0}
          /\ Len(line') = Len(line) - 1 /\ pc = "setup" /\ 1 \in 1..Len(line)
          /\ \A i \in 1..Len(line') : line'[i].typ # "reply"
      BY <2>1, Shorter, ReplyTaken
    <3>2. UNCHANGED <<up, rpaused, drawn, inRepair, routed>> /\ pc' # "repaint"
      BY <1>29, <2>1 DEF SetupSpawned, Ask
    <3>3. Before(1, line[1].n) \/ (rpaused /\ 1 = Len(line)) BY <2>1, <3>1 DEF Flow
    <3>4. CASE Before(1, line[1].n)
      <4>1. Stale' \/ routed' = line[1].n BY <3>1, <3>2, <3>4 DEF Before, Stale
      <4>2. QED BY <2>1, <3>1, <3>2, <4>1, FlowShift DEF Stale
    <3>5. CASE rpaused /\ 1 = Len(line)
      <4>1. 1..Len(line') = {}
        <5>1. Len(line') = Len(line) - 1 /\ Len(line) = 1 BY <3>1, <3>5
        <5>2. Len(line') = 0 BY <5>1
        <5>3. QED BY <5>2
      <4>2. rpaused' BY <3>2, <3>5
      <4>3. QED BY <4>1, <4>2 DEF Flow
    <3>6. QED BY <3>3, <3>4, <3>5
  <2>2. CASE ~up BY <1>29, <2>2 DEF SetupSpawned, Ask, Flow
  <2>3. QED BY <1>29, <2>1, <2>2 DEF SetupSpawned, Lost
<1>30. CASE Wire
  <2>1. CASE Replied("wire") /\ up
    BY <1>30, <2>1, Shorter, ReplyTaken, FlowShift DEF Wire, Wired, Lost
  <2>2. CASE ~up BY <1>30, <2>2 DEF Wire, Wired, Lost, Flow
  <2>3. QED BY <1>30, <2>1, <2>2 DEF Wire, Lost
<1>31. CASE Attach BY <1>31, NoReply DEF Attach, Flow, Before, Stale, Awaiting
<1>32. CASE Repair
  BY <1>32, NoReply DEF Repair, CanReshape, Ask, Flow, Before, Stale, Awaiting
<1>33. CASE StartReconcile
  BY <1>33, NoReply DEF StartReconcile, CanReshape, Flow, Before, Stale, Awaiting
<1>34. CASE Reset BY <1>34, NoReply DEF Reset, Ask, Flow, Before, Stale, Awaiting
<1>35. CASE Retire BY <1>35, NoReply DEF Retire, Flow, Before, Stale, Awaiting
<1>36. QED
  BY <1>1, <1>2, <1>3, <1>4, <1>5, <1>6, <1>7, <1>8, <1>9, <1>10, <1>11, <1>12, <1>13,
     <1>14, <1>15, <1>16, <1>17, <1>18, <1>19, <1>20, <1>21, <1>22, <1>23, <1>24, <1>25,
     <1>26, <1>27, <1>28, <1>29, <1>30, <1>31, <1>32, <1>33, <1>34, <1>35, ResetsSplit DEF
     Next, FarEnd, MainStep

----------------------------------------------------------------------------
(* What each operation does to what the renderer will show.                  *)

\* t is s with its fields but paused, dropped, closed and reshaped as they were.
Same(s, t) == t.held = s.held /\ t.hand = s.hand /\ t.done = s.done /\ t.ch = s.ch

\* t is s with frame f behind the others, or with the loss of f noted.
Takes(s, t, f) ==
    /\ t.held = s.held /\ t.hand = s.hand /\ t.done = s.done
    /\ t.dropped \/ t.ch = Append(s.ch, f)

LEMMA EnqueueTakes == ASSUME NEW s, Sound(s), ~s.closed, NEW f \in Frames
  PROVE LET t == Enqueue(s, f)
        IN  /\ Sound(t) /\ Takes(s, t, f) /\ t.closed = s.closed /\ t.paused = s.paused
            /\ s.dropped => t.dropped
<1> DEFINE t == Enqueue(s, f)
<1>1. s \in Sinks /\ Len(s.ch) <= Buf /\ Len(s.ch) \in Nat /\ Buf \in Nat
  BY BufAssumption DEF Sound, Sinks
<1>2. CASE HasRoom(s)
  <2>1. t = [s EXCEPT !.ch = Append(s.ch, f)] BY <1>2 DEF Enqueue
  <2>2. PICK q \in Seq(Frames) : q = Append(s.ch, f) /\ Len(q) <= Buf
    <3>1. Append(s.ch, f) \in Seq(Frames) /\ Len(Append(s.ch, f)) <= Buf
      BY <1>1, <1>2 DEF HasRoom, Sinks
    <3>2. QED BY <3>1
  <2>3. Sound([s EXCEPT !.ch = q]) BY <2>2, SinkEdits
  <2>4. /\ Takes(s, t, f) /\ t.closed = s.closed /\ t.paused = s.paused
        /\ t.dropped = s.dropped
    BY <1>1, <2>1 DEF Takes, Sinks
  <2>5. QED BY <2>1, <2>2, <2>3, <2>4
<1>3. CASE ~HasRoom(s)
  <2>1. t = [s EXCEPT !.dropped = TRUE] BY <1>3 DEF Enqueue
  <2>2. Sound(t) BY <2>1, SinkEdits
  <2>3. Takes(s, t, f) /\ t.closed = s.closed /\ t.paused = s.paused /\ t.dropped
    BY <1>1, <2>1 DEF Takes, Sinks
  <2>4. QED BY <2>2, <2>3
<1>4. QED BY <1>2, <1>3

(* A frame queued is the last of the queue. *)
LEMMA QueueGrows == ASSUME NEW s, Sound(s), NEW t, NEW f \in Frames, t.hand = s.hand,
                           t.ch = Append(s.ch, f)
  PROVE Queue(s) \in Seq(Frames) /\ Queue(t) = Append(Queue(s), f)
BY DEF Queue, Sound, Sinks

LEMMA SoundView == ASSUME NEW s, Sound(s), NEW scr \in Screens
  PROVE [held |-> s.held, screen |-> scr] \in Views /\ Queue(s) \in Seq(Frames)
        /\ Told(s, scr) \in Views
<1>1. s.held \in BOOLEAN /\ Queue(s) \in Seq(Frames) BY DEF Sound, Sinks, Queue
<1>2. [held |-> s.held, screen |-> scr] \in Views BY <1>1 DEF Views
<1>3. QED BY <1>1, <1>2, AfterView DEF Told

(* What a frame makes of a view that shows n. *)
LEMMA EffectShows == ASSUME NEW v \in Views, NEW f \in Frames, NEW n
  PROVE /\ f.typ = "seed" /\ f.n = n => Shows(Effect(v, f), n)
        /\ f.typ \in {"hold", "release", "resize", "owe"} /\ Shows(v, n) => Shows(Effect(v, f), n)
        /\ f.typ = "output" /\ f.n = n + 1 /\ Shows(v, n) => Shows(Effect(v, f), n + 1)
<1>1. v = [held |-> v.held, screen |-> v.screen] /\ v.held \in BOOLEAN /\ v.screen \in Screens
  BY DEF Views
<1>2. f.typ = "seed" /\ f.n = n => Shows(Effect(v, f), n) BY DEF Shows, Effect
<1>3. f.typ \in {"hold", "release", "resize", "owe"} /\ Shows(v, n) => Shows(Effect(v, f), n)
  BY <1>1 DEF Shows, Effect
<1>4. ASSUME f.typ = "output", f.n = n + 1, Shows(v, n) PROVE Shows(Effect(v, f), n + 1)
  <2>1. CASE v.held BY <1>1, <1>4, <2>1 DEF Shows, Effect
  <2>2. CASE ~v.held
    <3>1. v.screen = [upto |-> n, whole |-> TRUE, alt |-> FALSE] BY <1>4, <2>2 DEF Shows
    <3>2. \A a, b \in BOOLEAN : [[upto |-> n, whole |-> a, alt |-> b] EXCEPT !.upto = n + 1]
                                  = [upto |-> n + 1, whole |-> a, alt |-> b]
      OBVIOUS
    <3>3. Paint(v.screen, n + 1) = [v.screen EXCEPT !.upto = n + 1] BY <3>1 DEF Paint
    <3>4. Paint(v.screen, n + 1) = [upto |-> n + 1, whole |-> TRUE, alt |-> FALSE]
      BY <3>1, <3>2, <3>3
    <3>5. Effect(v, f) = [v EXCEPT !.screen = Paint(v.screen, n + 1)]
      BY <1>4, <2>2 DEF Effect
    <3>6. Effect(v, f).screen = Paint(v.screen, n + 1) BY <1>1, <3>5
    <3>7. QED BY <3>4, <3>6 DEF Shows
  <2>3. QED BY <2>1, <2>2
<1>5. QED BY <1>2, <1>3, <1>4

LEMMA WrittenSound ==
  ASSUME IInv, Sounds, cur # 0, NEW t, Sound(t), sink' = [sink EXCEPT ![cur] = t],
         screen' = screen
  PROVE Sounds' /\ sink'[cur] = t /\ \A g \in Gens : g # cur => sink'[g] = sink[g]
<1>1. cur \in Gens /\ sink = [g \in Gens |-> sink[g]] BY CurIn DEF IInv, Shape
<1>2. sink'[cur] = t /\ \A g \in Gens : g # cur => sink'[g] = sink[g] BY <1>1
<1>3. \A g \in Gens : Sound(sink'[g]) BY <1>2 DEF Sounds
<1>4. QED BY <1>2, <1>3 DEF Sounds, Sound

(* A step that adds nothing to the queue leaves what it will show.           *)
LEMMA ShownStays ==
  ASSUME Shown, UNCHANGED <<sink, cur, screen, early, routed>>,
         cur # 0 /\ ReseedOwed => ReseedOwed'
  PROVE  Shown'
BY DEF Shown, Overtakes

LEMMA ShownSame ==
  ASSUME IInv, Sounds, Shown, cur # 0, NEW t, Sound(t), Same(sink[cur], t),
         sink' = [sink EXCEPT ![cur] = t], UNCHANGED <<cur, screen, early, routed>>,
         ReseedOwed => ReseedOwed'
  PROVE  Shown'
<1>1. /\ sink'[cur] = t /\ \A g \in Gens : g # cur => sink'[g] = sink[g]
      /\ cur \in Gens
  BY WrittenSound, CurIn DEF IInv
<1>2. Told(t, screen) = Told(sink[cur], screen) /\ Queue(t) = Queue(sink[cur])
  BY DEF Told, Queue, Same
<1>3. \A g \in Gens : sink'[g].done = sink[g].done BY <1>1 DEF Same
<1>4. Overtakes(cur)' => Overtakes(cur) BY <1>3 DEF Overtakes
<1>5. Seeding(sink[cur]) => Seeding(t) BY <1>2 DEF Seeding
<1> SUFFICES ASSUME ~ReseedOwed', ~early'
    PROVE  Shows(Told(t, screen), routed) /\ (Overtakes(cur)' => Seeding(t))
  BY <1>1 DEF Shown
<1>6. Shows(Told(sink[cur], screen), routed) /\ (Overtakes(cur) => Seeding(sink[cur]))
  BY DEF Shown
<1>7. QED BY <1>2, <1>4, <1>5, <1>6

(* A frame queued brings the renderer where the main loop is, or its loss is *)
(* noted.                                                                    *)
LEMMA ShownTakes ==
  ASSUME IInv, Sounds, Stream, Shown, cur # 0, NEW t, Sound(t), NEW f \in Frames,
         Takes(sink[cur], t, f), sink' = [sink EXCEPT ![cur] = t],
         UNCHANGED <<cur, screen, early>>,
         \/ f.typ = "seed" /\ f.n = routed'
         \/ /\ ReseedOwed => ReseedOwed'
            /\ \/ f.typ \in {"hold", "release", "resize"} /\ routed' = routed
               \/ f.typ = "output" /\ f.n = routed' /\ (ReseedOwed \/ routed' = routed + 1)
  PROVE  Shown'
<1>1. /\ sink'[cur] = t /\ \A g \in Gens : g # cur => sink'[g] = sink[g]
      /\ cur \in Gens /\ Sound(sink[cur]) /\ screen \in Screens
  BY WrittenSound, CurIn DEF IInv, Sounds
<1> SUFFICES ASSUME ~ReseedOwed', ~early'
    PROVE  Shows(Told(t, screen), routed') /\ (Overtakes(cur)' => Seeding(t))
  BY <1>1 DEF Shown
<1>2. ~t.dropped BY <1>1 DEF ReseedOwed
<1>3. t.ch = Append(sink[cur].ch, f) /\ t.hand = sink[cur].hand /\ t.held = sink[cur].held
  BY <1>2 DEF Takes
<1> DEFINE q == Queue(sink[cur])
           b == [held |-> sink[cur].held, screen |-> screen]
           v == Told(sink[cur], screen)
<1>4. q \in Seq(Frames) /\ Queue(t) = Append(q, f) BY <1>1, <1>3, QueueGrows
<1>5. b \in Views /\ v \in Views BY <1>1, SoundView
<1>6. Told(t, screen) = Effect(v, f)
  <2>1. Told(t, screen) = After(b, Append(q, f)) BY <1>3, <1>4 DEF Told
  <2>2. v = After(b, q) BY DEF Told
  <2> HIDE DEF q, b, v
  <2>3. QED BY <1>4, <1>5, <2>1, <2>2, AfterAppend
<1>7. \A g \in Gens : sink'[g].done = sink[g].done BY <1>1 DEF Takes
<1>8. Overtakes(cur)' => Overtakes(cur) BY <1>7 DEF Overtakes
<1>9. /\ Len(q) \in Nat /\ Len(Queue(t)) = Len(q) + 1 /\ Queue(t)[Len(q) + 1] = f
      /\ \A i \in 1..Len(q) : Queue(t)[i] = q[i]
  BY <1>4
<1>10. CASE f.typ = "seed" /\ f.n = routed'
  <2>1. Shows(Effect(v, f), routed') BY <1>5, <1>10, EffectShows
  <2>2. Seeding(t) BY <1>9, <1>10 DEF Seeding
  <2>3. QED BY <1>6, <2>1, <2>2
<1>11. CASE /\ ReseedOwed => ReseedOwed'
            /\ \/ f.typ \in {"hold", "release", "resize"} /\ routed' = routed
               \/ f.typ = "output" /\ f.n = routed' /\ (ReseedOwed \/ routed' = routed + 1)
  <2>1. Shows(v, routed) /\ (Overtakes(cur) => Seeding(sink[cur])) BY <1>11 DEF Shown
  <2>2. Shows(Effect(v, f), routed')
    <3> HIDE DEF v
    <3>1. CASE f.typ \in {"hold", "release", "resize"} /\ routed' = routed
      BY <1>5, <2>1, <3>1, EffectShows
    <3>2. CASE f.typ = "output" /\ f.n = routed' /\ routed' = routed + 1
      BY <1>5, <2>1, <3>2, EffectShows
    <3>3. QED BY <1>11, <3>1, <3>2
  <2>3. Seeding(sink[cur]) => Seeding(t)
    <3>1. ASSUME NEW i \in 1..Len(q), q[i].typ = "seed" PROVE Seeding(t)
      <4>1. i \in 1..Len(Queue(t)) /\ Queue(t)[i].typ = "seed" BY <1>9, <3>1
      <4>2. QED BY <4>1 DEF Seeding
    <3>2. QED BY <3>1 DEF Seeding
  <2>4. QED BY <1>6, <1>8, <2>1, <2>2, <2>3
<1>12. QED BY <1>10, <1>11

(* The same for all that is known of the sinks. *)
Painted == Sounds /\ Pumps /\ Shown

LEMMA PumpsSame ==
  ASSUME IInv, Sounds, Pumps, cur # 0, NEW t, Sound(t), t.hand = sink[cur].hand,
         t.done = sink[cur].done, sink' = [sink EXCEPT ![cur] = t],
         UNCHANGED <<made, cur, screen>>, pc' # "wire"
  PROVE  Pumps'
<1>1. sink'[cur] = t /\ \A g \in Gens : g # cur => sink'[g] = sink[g] BY WrittenSound
<1>2. \A g \in Gens : sink'[g].done = sink[g].done /\ sink'[g].hand = sink[g].hand BY <1>1
<1>3. QED BY <1>2 DEF Pumps

LEMMA PaintedStays ==
  ASSUME Painted, UNCHANGED <<sink, made, cur, screen, early, routed>>, pc' # "wire",
         cur # 0 /\ ReseedOwed => ReseedOwed'
  PROVE  Painted'
<1>1. Sounds' BY DEF Painted, Sounds, Sound
<1>2. Pumps' BY DEF Painted, Pumps
<1>3. Shown' BY ShownStays DEF Painted
<1>4. QED BY <1>1, <1>2, <1>3 DEF Painted

LEMMA PaintedSame ==
  ASSUME IInv, Painted, cur # 0, NEW t, Sound(t), Same(sink[cur], t),
         sink' = [sink EXCEPT ![cur] = t], UNCHANGED <<made, cur, screen, early, routed>>,
         pc' # "wire", ReseedOwed => ReseedOwed'
  PROVE  Painted'
<1>1. Sounds' BY WrittenSound DEF Painted
<1>2. Pumps' BY PumpsSame DEF Painted, Same
<1>3. Shown' BY ShownSame DEF Painted
<1>4. QED BY <1>1, <1>2, <1>3 DEF Painted

LEMMA PaintedTakes ==
  ASSUME IInv, Painted, Stream, cur # 0, NEW t, Sound(t), NEW f \in Frames,
         Takes(sink[cur], t, f), sink' = [sink EXCEPT ![cur] = t],
         UNCHANGED <<made, cur, screen, early>>, pc' # "wire",
         \/ f.typ = "seed" /\ f.n = routed'
         \/ /\ ReseedOwed => ReseedOwed'
            /\ \/ f.typ \in {"hold", "release", "resize"} /\ routed' = routed
               \/ f.typ = "output" /\ f.n = routed' /\ (ReseedOwed \/ routed' = routed + 1)
  PROVE  Painted'
<1>1. Sounds' BY WrittenSound DEF Painted
<1>2. Pumps' BY PumpsSame DEF Painted, Takes
<1>3. Shown' BY ShownTakes DEF Painted
<1>4. QED BY <1>1, <1>2, <1>3 DEF Painted

(* The sink the pane has, where it has one. *)
LEMMA CurSink == ASSUME IInv, Sounds, pc \notin {"setup", "wire", "gone"}
  PROVE cur # 0 /\ cur \in Gens /\ Sound(sink[cur]) /\ ~sink[cur].closed
<1>1. cur # 0 BY DEF IInv, Registered
<1>2. cur \in Gens BY <1>1, CurIn DEF IInv
<1>3. QED BY <1>1, <1>2 DEF Sounds, IInv, Registered

(* An output routed: it follows what was routed before, or a reseed is owed. *)
LEMMA Routes ==
  ASSUME IInv, Painted, Stream, Flow, cur # 0, line # <<>>, Head(line).typ = "output",
         sink' = Route(Head(line).n), routed' = Head(line).n,
         UNCHANGED <<up, made, cur, screen, early, inRepair>>, pc' # "wire",
         pc \in {"continuing", "repaint", "reseed"} => pc' = pc
  PROVE  Painted'
<1> DEFINE n == Head(line).n
<1>1. cur \in Gens /\ Sound(sink[cur]) /\ ~sink[cur].closed
  BY CurIn DEF IInv, Registered, Painted, Sounds
<1>2. sink' = [sink EXCEPT ![cur] = WriteOwned(sink[cur], n)] BY DEF Route, OnSink
<1>3. line[1].typ = "output" /\ n = line[1].n /\ 1 \in 1..Len(line) /\ n \in 0..MaxDrawn
  <2>1. line[1] \in Items /\ Head(line) = line[1] /\ 1 \in 1..Len(line) BY DEF Stream
  <2>2. QED BY <2>1 DEF Items
<1>4. ReseedOwed \/ n = routed + 1
  <2>1. up => Before(1, n - 1) BY <1>3 DEF Flow
  <2>2. up => Stale \/ routed = n - 1 BY <2>1 DEF Before
  <2>3. routed \in Int /\ n \in Int BY <1>3 DEF Stream
  <2>4. QED BY <2>2, <2>3 DEF ReseedOwed, Stale
<1>5. Output(n) \in Frames /\ Output(n).typ = "output" /\ Output(n).n = n
  BY <1>3, Kinds DEF Output
<1> HIDE DEF n
<1>6. CASE sink[cur].paused
  <2>1. sink' = sink BY <1>1, <1>2, <1>6 DEF WriteOwned, IInv, Shape
  <2>2. ReseedOwed' BY <1>6, <2>1 DEF ReseedOwed
  <2>3. Sounds' BY <2>1 DEF Painted, Sounds, Sound
  <2>4. Pumps' BY <2>1 DEF Painted, Pumps
  <2>5. QED BY <2>2, <2>3, <2>4 DEF Painted, Shown
<1>7. CASE ~sink[cur].paused
  <2> DEFINE t == Enqueue(sink[cur], Output(n))
  <2>1. sink' = [sink EXCEPT ![cur] = t] BY <1>2, <1>7 DEF WriteOwned
  <2>2. /\ Sound(t) /\ Takes(sink[cur], t, Output(n)) /\ t.paused = sink[cur].paused
        /\ sink[cur].dropped => t.dropped
    BY <1>1, <1>5, EnqueueTakes
  <2> HIDE DEF t
  <2>3. sink'[cur] = t BY <2>1, <2>2, WrittenSound DEF Painted
  <2>4. ReseedOwed => ReseedOwed'
    BY <2>2, <2>3 DEF ReseedOwed, Takes
  <2>5. QED BY <1>4, <1>5, <2>1, <2>2, <2>4, PaintedTakes DEF n
<1>8. QED BY <1>6, <1>7

LEMMA SelectOutputPaints == ASSUME IInv, Kept, SelectOutput PROVE Painted'
<1>1. Painted /\ Stream BY DEF Kept, Painted
<1>2. cur # 0 /\ cur \in Gens /\ Sound(sink[cur]) /\ ~sink[cur].closed
  BY <1>1, CurSink DEF SelectOutput, Painted
<1>3. /\ pc = "select" /\ pc' = "settle" /\ line # <<>> /\ Head(line).typ = "output"
      /\ sink' = Route(Head(line).n) /\ routed' = Head(line).n
      /\ UNCHANGED <<up, made, cur, screen, early, inRepair>>
  BY DEF SelectOutput
<1>4. QED BY <1>1, <1>2, <1>3, Routes DEF Kept

LEMMA RouteAsidePaints == ASSUME IInv, Kept, RouteAside PROVE Painted'
<1>1. Painted /\ Stream BY DEF Kept, Painted
<1>2. UNCHANGED <<up, made, cur, screen, early, inRepair, pc>> BY DEF RouteAside
<1>3. CASE cur = 0
  <2>1. sink' = sink BY <1>3 DEF RouteAside, Route, OnSink
  <2>2. Sounds' BY <1>1, <1>2, <2>1 DEF Painted, Sounds, Sound
  <2>3. Pumps' BY <1>1, <1>2, <2>1 DEF Painted, Pumps
  <2>4. QED BY <1>2, <1>3, <2>2, <2>3 DEF Painted, Shown
<1>4. CASE cur # 0
  <2>1. pc # "wire" /\ line # <<>> BY <1>4 DEF IInv, Registered, RouteAside
  <2>2. CASE Head(line).typ = "output"
    <3>1. sink' = Route(Head(line).n) /\ routed' = Head(line).n BY <2>2 DEF RouteAside
    <3>2. QED BY <1>1, <1>2, <1>4, <2>1, <2>2, <3>1, Routes DEF Kept
  <2>3. CASE Head(line).typ # "output"
    <3>1. UNCHANGED <<sink, routed>> BY <2>3 DEF RouteAside
    <3>2. ReseedOwed => ReseedOwed' BY <1>2, <3>1 DEF ReseedOwed
    <3>3. QED BY <1>1, <1>2, <2>1, <3>1, <3>2, PaintedStays
  <2>4. QED BY <2>2, <2>3
<1>5. QED BY <1>3, <1>4

LEMMA RepaintedPaints == ASSUME IInv, Kept, Repainted PROVE Painted'
<1>1. Painted /\ Stream BY DEF Kept, Painted
<1>2. cur # 0 /\ cur \in Gens /\ Sound(sink[cur]) /\ ~sink[cur].closed
  BY <1>1, CurSink DEF Repainted, Replied, Painted
<1>3. Head(line).n \in 0..MaxDrawn /\ Seed(Head(line).n) \in Frames
      /\ Seed(Head(line).n).typ = "seed" /\ Seed(Head(line).n).n = Head(line).n
  BY <1>1, Shorter, Kinds DEF Repainted, Replied, Seed
<1> DEFINE e == Enqueue(sink[cur], Seed(Head(line).n))
           t == [e EXCEPT !.paused = FALSE]
<1>4. Sound(e) /\ Takes(sink[cur], e, Seed(Head(line).n)) BY <1>2, <1>3, EnqueueTakes
<1>5. sink' = [sink EXCEPT ![cur] = t] /\ routed' = Head(line).n /\ pc' # "wire"
      /\ UNCHANGED <<made, cur, screen, early>>
  BY <1>2 DEF Repainted, OnSink
<1> HIDE DEF e
<1>6. Sound(t) BY <1>4, SinkEdits
<1>7. Takes(sink[cur], t, Seed(Head(line).n)) BY <1>4 DEF Takes, Sound, Sinks
<1> HIDE DEF t
<1>8. QED BY <1>1, <1>2, <1>3, <1>5, <1>6, <1>7, PaintedTakes

LEMMA SeededPaints == ASSUME IInv, Kept, NEW p \in {"reseed", "confirm", "repaintAll"},
         NEW then \in {"due", "select", "settle"}, p = "repaintAll" <=> then = "settle",
         Seeded(p, then)
  PROVE  Painted'
<1>1. Painted /\ Stream BY DEF Kept, Painted
<1>2. cur # 0 /\ cur \in Gens /\ Sound(sink[cur]) /\ ~sink[cur].closed
  BY <1>1, CurSink DEF Seeded, Replied, Painted
<1>3. Head(line).n \in 0..MaxDrawn /\ Seed(Head(line).n) \in Frames
      /\ Seed(Head(line).n).typ = "seed" /\ Seed(Head(line).n).n = Head(line).n
  BY <1>1, Shorter, Kinds DEF Seeded, Replied, Seed
<1> DEFINE t == Enqueue(sink[cur], Seed(Head(line).n))
<1>4. Sound(t) /\ Takes(sink[cur], t, Seed(Head(line).n)) BY <1>2, <1>3, EnqueueTakes
<1>5. sink' = [sink EXCEPT ![cur] = t] /\ routed' = Head(line).n /\ pc' # "wire"
      /\ UNCHANGED <<made, cur, screen, early>>
  BY <1>2 DEF Seeded, OnSink
<1> HIDE DEF t
<1>6. QED BY <1>1, <1>2, <1>3, <1>4, <1>5, PaintedTakes

LEMMA PassSeededPaints == ASSUME IInv, Kept, PassSeeded PROVE Painted'
<1>1. Painted /\ Stream BY DEF Kept, Painted
<1>2. cur # 0 /\ cur \in Gens /\ Sound(sink[cur]) /\ ~sink[cur].closed
  BY <1>1, CurSink DEF PassSeeded, Replied, Painted
<1>3. Head(line).n \in 0..MaxDrawn /\ Seed(Head(line).n) \in Frames
      /\ Seed(Head(line).n).typ = "seed" /\ Seed(Head(line).n).n = Head(line).n
  BY <1>1, Shorter, Kinds DEF PassSeeded, Replied, Seed
<1> DEFINE m == MarkReshaped(sink[cur])
           t == Enqueue(m, Seed(Head(line).n))
<1>4. m = [sink[cur] EXCEPT !.reshaped = "marked"] BY <1>2 DEF MarkReshaped
<1>5. Sound(m)
  <2>1. Sound([sink[cur] EXCEPT !.reshaped = "marked"]) BY <1>2, SinkEdits
  <2> HIDE DEF m
  <2>2. QED BY <1>4, <2>1
<1>6. Same(sink[cur], m) /\ m.closed = sink[cur].closed
  BY <1>2, <1>4 DEF Same, Sound, Sinks
<1>7. sink' = [sink EXCEPT ![cur] = t] /\ routed' = Head(line).n /\ pc' # "wire"
      /\ UNCHANGED <<made, cur, screen, early>>
  BY <1>2 DEF PassSeeded, OnSink, Ask
<1> HIDE DEF m
<1>8. Sound(t) /\ Takes(m, t, Seed(Head(line).n)) BY <1>2, <1>3, <1>5, <1>6, EnqueueTakes
<1> HIDE DEF t
<1>9. Takes(sink[cur], t, Seed(Head(line).n)) BY <1>6, <1>8 DEF Takes, Same
<1>10. QED BY <1>1, <1>2, <1>3, <1>7, <1>8, <1>9, PaintedTakes

LEMMA ReleaseHoldPaints == ASSUME IInv, Kept, ReleaseHold PROVE Painted'
<1>1. Painted /\ Stream BY DEF Kept, Painted
<1>2. cur # 0 /\ cur \in Gens /\ Sound(sink[cur]) /\ ~sink[cur].closed
  BY <1>1, CurSink DEF ReleaseHold, Painted
<1>3. Frame("release") \in Frames /\ Frame("release").typ \in {"hold", "release", "resize"}
  BY Kinds, BoundsAssumption DEF FrameTypes, Frame
<1>4. /\ UNCHANGED <<made, cur, screen, early, routed, up, inRepair, pc>>
      /\ pc = "release"
  BY DEF ReleaseHold, lineVars
<1>5. ASSUME NEW t, t = Enqueue(sink[cur], Frame("release")), sink' = [sink EXCEPT ![cur] = t]
      PROVE  Painted'
  <2>1. /\ Sound(t) /\ Takes(sink[cur], t, Frame("release")) /\ t.paused = sink[cur].paused
        /\ sink[cur].dropped => t.dropped
    BY <1>2, <1>3, <1>5, EnqueueTakes
  <2>2. sink'[cur] = t BY <1>1, <1>2, <1>5, <2>1, <1>4, WrittenSound DEF Painted
  <2>3. ReseedOwed => ReseedOwed' BY <1>4, <2>1, <2>2 DEF ReseedOwed, Takes
  <2>4. QED BY <1>1, <1>2, <1>3, <1>4, <1>5, <2>1, <2>3, PaintedTakes
<1>6. sink' = [sink EXCEPT ![cur] = Enqueue(sink[cur], Frame("release"))]
  BY <1>2 DEF ReleaseHold, OnSink, Release
<1>7. QED BY <1>5, <1>6

LEMMA PassShapePaints == ASSUME IInv, Kept, PassShape PROVE Painted'
<1>1. Painted /\ Stream BY DEF Kept, Painted
<1>2. cur # 0 /\ cur \in Gens /\ Sound(sink[cur]) /\ ~sink[cur].closed
  BY <1>1, CurSink DEF PassShape, Painted
<1>3. Frame("resize") \in Frames /\ Frame("resize").typ \in {"hold", "release", "resize"}
  BY Kinds, BoundsAssumption DEF FrameTypes, Frame
<1>4. /\ UNCHANGED <<made, cur, screen, early, routed, up, inRepair>>
      /\ pc = "shape" /\ pc' \in {"reshape", "reread"}
  BY DEF PassShape, Ask
<1>5. ASSUME NEW t, t = Enqueue(sink[cur], Frame("resize")), sink' = [sink EXCEPT ![cur] = t]
      PROVE  Painted'
  <2>1. /\ Sound(t) /\ Takes(sink[cur], t, Frame("resize")) /\ t.paused = sink[cur].paused
        /\ sink[cur].dropped => t.dropped
    BY <1>2, <1>3, <1>5, EnqueueTakes
  <2>2. sink'[cur] = t BY <1>1, <1>2, <1>5, <2>1, <1>4, WrittenSound DEF Painted
  <2>3. ReseedOwed => ReseedOwed' BY <1>4, <2>1, <2>2 DEF ReseedOwed, Takes
  <2>4. QED BY <1>1, <1>2, <1>3, <1>4, <1>5, <2>1, <2>3, PaintedTakes
<1>6. CASE sink' = OnSink(LAMBDA s : Enqueue(s, Frame("resize")))
  BY <1>2, <1>5, <1>6 DEF OnSink
<1>7. CASE UNCHANGED sink
  <2>1. ReseedOwed => ReseedOwed' BY <1>4, <1>7 DEF ReseedOwed
  <2>2. QED BY <1>1, <1>4, <1>7, <2>1, PaintedStays
<1>8. QED BY <1>6, <1>7 DEF PassShape

LEMMA PassHoldPaints == ASSUME IInv, Kept, PassHold PROVE Painted'
<1>1. Painted /\ Stream BY DEF Kept, Painted
<1>2. cur # 0 /\ cur \in Gens /\ Sound(sink[cur]) /\ ~sink[cur].closed
  BY <1>1, CurSink DEF PassHold, Painted
<1>3. Frame("hold") \in Frames /\ Frame("hold").typ \in {"hold", "release", "resize"}
  BY Kinds, BoundsAssumption DEF FrameTypes, Frame
<1>4. /\ UNCHANGED <<made, cur, screen, early, routed, up, inRepair>>
      /\ pc = "hold" /\ pc' = "shape"
  BY DEF PassHold, lineVars
<1>5. CASE CanHold(sink[cur]) /\ sink' = OnSink(QueueHold)
  <2> DEFINE t == QueueHold(sink[cur])
  <2>1. t = Enqueue(sink[cur], Frame("hold")) BY <1>2, <1>5 DEF CanHold, QueueHold, Enqueue
  <2>2. /\ Sound(t) /\ Takes(sink[cur], t, Frame("hold")) /\ t.paused = sink[cur].paused
        /\ sink[cur].dropped => t.dropped
    BY <1>2, <1>3, <2>1, EnqueueTakes
  <2>3. sink' = [sink EXCEPT ![cur] = t] BY <1>2, <1>5 DEF OnSink
  <2> HIDE DEF t
  <2>4. sink'[cur] = t BY <1>1, <1>2, <1>4, <2>2, <2>3, WrittenSound DEF Painted
  <2>5. ReseedOwed => ReseedOwed' BY <1>4, <2>2, <2>4 DEF ReseedOwed, Takes
  <2>6. QED BY <1>1, <1>2, <1>3, <1>4, <2>2, <2>3, <2>5, PaintedTakes
<1>6. CASE UNCHANGED sink
  <2>1. ReseedOwed => ReseedOwed' BY <1>4, <1>6 DEF ReseedOwed
  <2>2. QED BY <1>1, <1>4, <1>6, <2>1, PaintedStays
<1>7. QED BY <1>5, <1>6 DEF PassHold

LEMMA SettlePausePaints == ASSUME IInv, Kept, SettlePause PROVE Painted'
<1>1. Painted /\ Stream BY DEF Kept, Painted
<1>2. cur # 0 /\ cur \in Gens /\ Sound(sink[cur]) /\ ~sink[cur].closed
  BY <1>1, CurSink DEF SettlePause, Painted
<1> DEFINE t == [sink[cur] EXCEPT !.paused = TRUE]
<1>3. sink' = [sink EXCEPT ![cur] = t] /\ UNCHANGED <<made, cur, screen, early, routed>>
      /\ pc' = "continuing"
  BY <1>2 DEF SettlePause, OnSink, Ask, HandlePause
<1>4. Sound(t) BY <1>2, SinkEdits DEF Counts, Kept
<1>5. Same(sink[cur], t) BY <1>2 DEF Same, Sound, Sinks
<1>6. t.paused = TRUE BY <1>2 DEF Sound, Sinks
<1> HIDE DEF t
<1>7. sink'[cur] = t BY <1>1, <1>2, <1>3, <1>4, WrittenSound DEF Painted
<1>8. ReseedOwed' BY <1>3 DEF ReseedOwed
<1>9. QED BY <1>1, <1>2, <1>3, <1>4, <1>5, <1>8, PaintedSame

LEMMA SelectPausePaints == ASSUME IInv, Kept, SelectPause PROVE Painted'
<1>1. Painted /\ Stream BY DEF Kept, Painted
<1>2. cur # 0 /\ cur \in Gens /\ Sound(sink[cur]) /\ ~sink[cur].closed
  BY <1>1, CurSink DEF SelectPause, Painted
<1> DEFINE t == [sink[cur] EXCEPT !.paused = TRUE]
<1>3. sink' = [sink EXCEPT ![cur] = t] /\ UNCHANGED <<made, cur, screen, early, routed>>
      /\ pc' = "continuing"
  BY <1>2 DEF SelectPause, OnSink, Ask, HandlePause
<1>4. Sound(t) BY <1>2, SinkEdits DEF Counts, Kept
<1>5. Same(sink[cur], t) BY <1>2 DEF Same, Sound, Sinks
<1>6. t.paused = TRUE BY <1>2 DEF Sound, Sinks
<1> HIDE DEF t
<1>7. sink'[cur] = t BY <1>1, <1>2, <1>3, <1>4, WrittenSound DEF Painted
<1>8. ReseedOwed' BY <1>3 DEF ReseedOwed
<1>9. QED BY <1>1, <1>2, <1>3, <1>4, <1>5, <1>8, PaintedSame

LEMMA RepaintLostPaints == ASSUME IInv, Kept, RepaintLost PROVE Painted'
<1>1. Painted /\ Stream BY DEF Kept, Painted
<1>2. cur # 0 /\ cur \in Gens /\ Sound(sink[cur]) /\ ~sink[cur].closed
  BY <1>1, CurSink DEF RepaintLost, Lost, lineVars, Painted
<1> DEFINE t == [sink[cur] EXCEPT !.paused = FALSE]
<1>3. sink' = [sink EXCEPT ![cur] = t] /\ UNCHANGED <<made, cur, screen, early, routed>>
      /\ pc' = "settle" /\ ~up'
  BY <1>2 DEF RepaintLost, Lost, lineVars, OnSink, Ask, HandlePause
<1>4. Sound(t) BY <1>2, SinkEdits DEF Counts, Kept
<1>5. Same(sink[cur], t) BY <1>2 DEF Same, Sound, Sinks
<1>6. t.paused = FALSE BY <1>2 DEF Sound, Sinks
<1> HIDE DEF t
<1>7. sink'[cur] = t BY <1>1, <1>2, <1>3, <1>4, WrittenSound DEF Painted
<1>8. ReseedOwed' BY <1>3 DEF ReseedOwed
<1>9. QED BY <1>1, <1>2, <1>3, <1>4, <1>5, <1>8, PaintedSame

LEMMA StreamEndedPaints == ASSUME IInv, Kept, StreamEnded PROVE Painted'
<1>1. Painted /\ Stream BY DEF Kept, Painted
<1>2. cur # 0 /\ cur \in Gens /\ Sound(sink[cur]) /\ ~sink[cur].closed
  BY <1>1, CurSink DEF StreamEnded, Lost, lineVars, Painted
<1> DEFINE t == [sink[cur] EXCEPT !.paused = (sink[cur].paused \/ async > 0)]
<1>3. sink' = [sink EXCEPT ![cur] = t] /\ UNCHANGED <<made, cur, screen, early, routed>>
      /\ pc' = "down" /\ ~up'
  BY <1>2 DEF StreamEnded, Lost, lineVars, OnSink, Ask, HandlePause
<1>4. Sound(t) BY <1>2, SinkEdits DEF Counts, Kept
<1>5. Same(sink[cur], t) BY <1>2 DEF Same, Sound, Sinks
<1>6. t.paused = (sink[cur].paused \/ async > 0) BY <1>2 DEF Sound, Sinks
<1> HIDE DEF t
<1>7. sink'[cur] = t BY <1>1, <1>2, <1>3, <1>4, WrittenSound DEF Painted
<1>8. ReseedOwed' BY <1>3 DEF ReseedOwed
<1>9. QED BY <1>1, <1>2, <1>3, <1>4, <1>5, <1>8, PaintedSame

LEMMA ReseedDroppedPaints == ASSUME IInv, Kept, ReseedDropped PROVE Painted'
<1>1. Painted /\ Stream BY DEF Kept, Painted
<1>2. cur # 0 /\ cur \in Gens /\ Sound(sink[cur]) /\ ~sink[cur].closed
  BY <1>1, CurSink DEF ReseedDropped, Painted
<1>3. UNCHANGED <<made, cur, screen, early, routed, up, inRepair>> /\ pc = "dropped"
      /\ pc' \in {"reseed", "due"}
  BY DEF ReseedDropped, Ask
<1>4. CASE pc' = "due"
  <2>1. sink' = sink BY <1>4 DEF ReseedDropped, Ask
  <2>2. ReseedOwed => ReseedOwed' BY <1>3, <2>1 DEF ReseedOwed
  <2>3. QED BY <1>1, <1>3, <2>1, <2>2, PaintedStays
<1>5. CASE pc' = "reseed"
  <2> DEFINE t == [sink[cur] EXCEPT !.dropped = FALSE]
  <2>1. sink' = [sink EXCEPT ![cur] = t] BY <1>5 DEF ReseedDropped, Ask
  <2>2. Sound(t) BY <1>2, SinkEdits
  <2>3. Same(sink[cur], t) BY <1>2 DEF Same, Sound, Sinks
  <2>4. ReseedOwed' BY <1>5 DEF ReseedOwed
  <2> HIDE DEF t
  <2>5. QED BY <1>1, <1>2, <1>3, <2>1, <2>2, <2>3, <2>4, PaintedSame
<1>6. QED BY <1>3, <1>4, <1>5

LEMMA ReseedReshapedPaints == ASSUME IInv, Kept, ReseedReshaped PROVE Painted'
<1>1. Painted /\ Stream BY DEF Kept, Painted
<1>2. cur # 0 /\ cur \in Gens /\ Sound(sink[cur]) /\ ~sink[cur].closed
  BY <1>1, CurSink DEF ReseedReshaped, Painted
<1>3. UNCHANGED <<made, cur, screen, early, routed, up, inRepair>> /\ pc = "due"
      /\ pc' \in {"confirm", "select"}
  BY DEF ReseedReshaped, Ask
<1>4. CASE sink' = sink
  <2>1. ReseedOwed => ReseedOwed' BY <1>3, <1>4 DEF ReseedOwed
  <2>2. QED BY <1>1, <1>3, <1>4, <2>1, PaintedStays
<1>5. ASSUME NEW x \in {"none", "due"}, sink' = [sink EXCEPT ![cur].reshaped = x]
      PROVE  Painted'
  <2> DEFINE t == [sink[cur] EXCEPT !.reshaped = x]
  <2>1. sink' = [sink EXCEPT ![cur] = t] BY <1>5
  <2>2. Sound(t) BY <1>2, SinkEdits
  <2>3. Same(sink[cur], t) /\ t.dropped = sink[cur].dropped /\ t.paused = sink[cur].paused
    BY <1>2 DEF Same, Sound, Sinks
  <2> HIDE DEF t
  <2>4. sink'[cur] = t BY <1>1, <1>2, <1>3, <2>1, <2>2, WrittenSound DEF Painted
  <2>5. ReseedOwed => ReseedOwed' BY <1>3, <2>3, <2>4 DEF ReseedOwed, Same
  <2>6. QED BY <1>1, <1>2, <1>3, <2>1, <2>2, <2>3, <2>5, PaintedSame
<1>6. QED BY <1>4, <1>5 DEF ReseedReshaped

LEMMA RepairPaints == ASSUME IInv, Kept, Repair PROVE Painted'
<1>1. Painted /\ Stream BY DEF Kept, Painted
<1>2. cur # 0 /\ cur \in Gens /\ Sound(sink[cur]) /\ ~sink[cur].closed
  BY <1>1, CurSink DEF Repair, Painted
<1>3. UNCHANGED <<made, cur, screen, early, routed, up, inRepair>> /\ pc = "repair"
      /\ pc' \in {"hold", "repaintAll"}
  BY DEF Repair, Ask
<1>4. ReseedOwed' BY <1>3 DEF ReseedOwed, IInv, Resumed
<1>5. CASE sink' = sink BY <1>1, <1>3, <1>4, <1>5, PaintedStays
<1>6. CASE sink' # sink
  <2> DEFINE t == [sink[cur] EXCEPT !.paused = FALSE]
  <2>1. sink' = [sink EXCEPT ![cur] = t] BY <1>2, <1>6 DEF Repair, OnSink
  <2>2. Sound(t) BY <1>2, SinkEdits
  <2>3. Same(sink[cur], t) BY <1>2 DEF Same, Sound, Sinks
  <2> HIDE DEF t
  <2>4. QED BY <1>1, <1>2, <1>3, <1>4, <2>1, <2>2, <2>3, PaintedSame
<1>7. QED BY <1>5, <1>6

LEMMA ResetPaints == ASSUME IInv, Kept, Reset PROVE Painted'
<1>1. Painted /\ Stream BY DEF Kept, Painted
<1>2. cur # 0 /\ cur \in Gens /\ Sound(sink[cur]) /\ ~sink[cur].closed
  BY <1>1, CurSink DEF Reset, Painted
<1> DEFINE t == Close(sink[cur])
<1>3. sink' = [sink EXCEPT ![cur] = t] /\ cur' = 0 /\ UNCHANGED <<made, screen>>
      /\ pc' = "setup"
  BY <1>2 DEF Reset, OnSink, Ask
<1>4. Sound(t) BY <1>2, SinkEdits DEF Close
<1>5. t.hand = sink[cur].hand /\ t.done = sink[cur].done BY <1>2 DEF Close, Sound, Sinks
<1> HIDE DEF t
<1>6. Sounds' /\ sink'[cur] = t /\ \A g \in Gens : g # cur => sink'[g] = sink[g]
  BY <1>1, <1>2, <1>3, <1>4, WrittenSound DEF Painted
<1>7. \A g \in Gens : sink'[g].done = sink[g].done /\ sink'[g].hand = sink[g].hand
  BY <1>5, <1>6
<1>8. Pumps' BY <1>1, <1>3, <1>7 DEF Painted, Pumps
<1>9. QED BY <1>3, <1>6, <1>8 DEF Painted, Shown

LEMMA RetirePaints == ASSUME IInv, Kept, Retire PROVE Painted'
<1>1. Painted /\ Stream BY DEF Kept, Painted
<1>2. cur # 0 /\ cur \in Gens /\ Sound(sink[cur]) /\ ~sink[cur].closed
  BY <1>1, CurSink DEF Retire, Painted
<1> DEFINE t == Close(sink[cur])
<1>3. sink' = [sink EXCEPT ![cur] = t] /\ cur' = 0 /\ UNCHANGED <<made, screen>>
      /\ pc' = "gone"
  BY <1>2 DEF Retire, OnSink, Ask
<1>4. Sound(t) BY <1>2, SinkEdits DEF Close
<1>5. t.hand = sink[cur].hand /\ t.done = sink[cur].done BY <1>2 DEF Close, Sound, Sinks
<1> HIDE DEF t
<1>6. Sounds' /\ sink'[cur] = t /\ \A g \in Gens : g # cur => sink'[g] = sink[g]
  BY <1>1, <1>2, <1>3, <1>4, WrittenSound DEF Painted
<1>7. \A g \in Gens : sink'[g].done = sink[g].done /\ sink'[g].hand = sink[g].hand
  BY <1>5, <1>6
<1>8. Pumps' BY <1>1, <1>3, <1>7 DEF Painted, Pumps
<1>9. QED BY <1>3, <1>6, <1>8 DEF Painted, Shown

(* One more frame queued is one more written. *)
LEMMA ToldMore == ASSUME NEW s, Sound(s), NEW f \in Frames, NEW t, Takes(s, t, f), ~t.dropped,
                         NEW scr \in Screens
  PROVE Told(t, scr) = Effect(Told(s, scr), f) /\ Told(s, scr) \in Views
<1> DEFINE q == Queue(s)
           b == [held |-> s.held, screen |-> scr]
<1>1. t.ch = Append(s.ch, f) /\ t.hand = s.hand /\ t.held = s.held BY DEF Takes
<1>2. q \in Seq(Frames) /\ Queue(t) = Append(q, f) BY <1>1, QueueGrows
<1>3. b \in Views /\ Told(s, scr) \in Views BY SoundView
<1>4. Told(t, scr) = After(b, Append(q, f)) /\ Told(s, scr) = After(b, q)
  BY <1>1, <1>2 DEF Told
<1> HIDE DEF q, b
<1>5. QED BY <1>2, <1>3, <1>4, AfterAppend

LEMMA FreshSound == /\ Sound(Fresh) /\ Sound(Finished) /\ Blank \in Screens
                    /\ Finished.done = TRUE /\ Finished.hand = <<>>
<1>1. ASSUME NEW b \in BOOLEAN
      PROVE  Sound([ch |-> <<>>, closed |-> b, paused |-> b, dropped |-> b, reshaped |-> "none",
                    hand |-> <<>>, held |-> b, done |-> b])
  BY BufAssumption DEF Sound, Sinks
<1>2. Sound(Fresh) BY <1>1 DEF Fresh
<1>3. ASSUME NEW b \in BOOLEAN, NEW c \in BOOLEAN
      PROVE  /\ Sound([[Fresh EXCEPT !.closed = b] EXCEPT !.done = c])
             /\ [[Fresh EXCEPT !.closed = b] EXCEPT !.done = c].done = c
             /\ [[Fresh EXCEPT !.closed = b] EXCEPT !.done = c].hand = <<>>
  <2>1. Sound([Fresh EXCEPT !.closed = b]) BY <1>2, SinkEdits
  <2>2. Sound([[Fresh EXCEPT !.closed = b] EXCEPT !.done = c]) BY <2>1, SinkEdits
  <2>3. QED BY <2>2 DEF Fresh
<1>4. Finished = [[Fresh EXCEPT !.closed = TRUE] EXCEPT !.done = TRUE]
  BY DEF Finished, Fresh
<1>5. ASSUME NEW b \in BOOLEAN, NEW c \in BOOLEAN
      PROVE  [upto |-> 0, whole |-> b, alt |-> c] \in Screens
  BY BoundsAssumption DEF Screens
<1>6. QED BY <1>2, <1>3, <1>4, <1>5 DEF Blank

LEMMA SetupSpawnedPaints == ASSUME IInv, Kept, SetupSpawned PROVE Painted'
<1>1. cur = 0 /\ UNCHANGED <<cur, made>> /\ screen' = Blank
      /\ sink' = [g \in Gens |-> Finished]
  BY DEF IInv, Registered, SetupSpawned, Replied
<1>2. \A g \in Gens : Sound(sink'[g]) /\ sink'[g].done /\ sink'[g].hand = <<>>
  BY <1>1, FreshSound
<1>3. Sounds' BY <1>1, <1>2, FreshSound DEF Sounds, Sound
<1>4. Pumps' BY <1>1, <1>2 DEF Pumps, Kept
<1>5. QED BY <1>1, <1>3, <1>4 DEF Painted, Shown

(* A fresh sink is registered where no pump is left, or owes a reseed. *)
LEMMA WiredPaints == ASSUME IInv, Kept, pc \in {"setup", "wire"}, NEW t, Sound(t), t.hand = <<>>,
         Wired(t), screen' = screen,
         \/ t.dropped
         \/ ~up'
         \/ Shows(Told(t, screen), routed') /\ \A g \in Gens : sink[g].done
  PROVE  Painted'
<1>1. made \in Nat /\ made + 1 \in Gens
  BY BoundsAssumption DEF IInv, Registered, Shape, Gens
<1>2. /\ made' = made + 1 /\ cur' = made + 1 /\ pc' = "release"
      /\ sink' = [sink EXCEPT ![made + 1] = t]
  BY DEF Wired
<1>3. sink'[made + 1] = t /\ \A g \in Gens : g # made + 1 => sink'[g] = sink[g]
  BY <1>1, <1>2 DEF IInv, Shape
<1>4. (\A g \in Gens : Sound(sink[g])) /\ screen \in Screens BY DEF Kept, Sounds
<1>5. Sounds' BY <1>3, <1>4 DEF Sounds, Sound
<1>6. \A g \in Gens : (sink[g].done => sink[g].hand = <<>>) /\ (g > made => sink[g].done)
  BY DEF Kept, Pumps
<1>7. Pumps' BY <1>1, <1>2, <1>3, <1>6 DEF Pumps, Gens
<1>8. ReseedOwed' \/ (Shows(Told(t, screen), routed') /\ ~Overtakes(cur)')
  BY <1>1, <1>2, <1>3 DEF ReseedOwed, Overtakes, Gens
<1>9. QED BY <1>2, <1>3, <1>5, <1>7, <1>8 DEF Painted, Shown

LEMMA RevivePaints == ASSUME IInv, Kept, Revive PROVE Painted'
<1> DEFINE t == [Fresh EXCEPT !.dropped = TRUE]
<1>1. Sound(t) /\ t.hand = <<>> /\ t.dropped
  <2>1. \A b \in BOOLEAN : LET r == [Fresh EXCEPT !.dropped = b] IN
          Sound(r) /\ r.hand = <<>> /\ r.dropped = b
    BY FreshSound, SinkEdits DEF Fresh
  <2>2. QED BY <2>1
<1>2. pc = "setup" /\ Wired(t) /\ screen' = screen BY DEF Revive, Replied, Lost
<1> HIDE DEF t
<1>3. QED BY <1>1, <1>2, WiredPaints

LEMMA WirePaints == ASSUME IInv, Kept, Wire PROVE Painted'
<1>1. pc = "wire" /\ screen' = screen BY DEF Wire, Replied, Lost
<1>2. screen \in Screens /\ Stream BY DEF Kept, Sounds
<1>3. Frame("resize") \in Frames /\ Frame("resize").typ = "resize"
  BY Kinds, BoundsAssumption DEF FrameTypes, Frame
<1>4. Sound(Fresh) /\ ~Fresh.closed /\ ~Fresh.dropped /\ Fresh.hand = <<>>
  BY FreshSound DEF Fresh
<1>5. CASE Replied("wire")
  <2> DEFINE n == Head(line).n
             e == Enqueue(Fresh, Seed(n))
             t == Enqueue(e, Frame("resize"))
  <2>1. n \in 0..MaxDrawn BY <1>2, <1>5, Shorter DEF Replied
  <2>2. Seed(n) \in Frames /\ Seed(n).typ = "seed" /\ Seed(n).n = n
    BY <2>1, Kinds DEF Seed
  <2>3. Wired(t) /\ routed' = n
    <3>1. ~Lost("wire") BY <1>5 DEF Replied, Lost
    <3>2. QED BY <3>1 DEF Wire
  <2> HIDE DEF n
  <2>4. Sound(e) /\ Takes(Fresh, e, Seed(n)) /\ ~e.closed
    BY <1>4, <2>2, EnqueueTakes
  <2> HIDE DEF e
  <2>5. Sound(t) /\ Takes(e, t, Frame("resize")) /\ (e.dropped => t.dropped)
    BY <1>3, <2>4, EnqueueTakes
  <2> HIDE DEF t
  <2>6. t.hand = <<>> BY <1>4, <2>4, <2>5 DEF Takes
  <2>7. ASSUME ~t.dropped PROVE Shows(Told(t, screen), routed')
    <3>1. Told(e, screen) = Effect(Told(Fresh, screen), Seed(n)) /\ Told(Fresh, screen) \in Views
      BY <1>2, <1>4, <2>2, <2>4, <2>5, <2>7, ToldMore
    <3>2. Told(t, screen) = Effect(Told(e, screen), Frame("resize")) /\ Told(e, screen) \in Views
      BY <1>2, <1>3, <2>4, <2>5, <2>7, ToldMore
    <3>3. Shows(Told(e, screen), n) BY <2>2, <3>1, EffectShows
    <3>4. QED BY <1>3, <2>3, <3>2, <3>3, EffectShows
  <2>8. \A g \in Gens : sink[g].done BY <1>1 DEF Kept, Pumps
  <2>9. QED BY <1>1, <2>3, <2>5, <2>6, <2>7, <2>8, WiredPaints
<1>6. CASE ~Replied("wire")
  <2> DEFINE t == Enqueue(Fresh, Frame("resize"))
  <2>1. Wired(t) /\ ~up' BY <1>6 DEF Wire, Lost, lineVars
  <2>2. Sound(t) /\ Takes(Fresh, t, Frame("resize")) BY <1>3, <1>4, EnqueueTakes
  <2> HIDE DEF t
  <2>3. t.hand = <<>> BY <1>4, <2>2 DEF Takes
  <2>4. QED BY <1>1, <2>1, <2>2, <2>3, WiredPaints
<1>7. QED BY <1>5, <1>6

(* What a pump may do: an older one, anything, for a seed is still to come. *)
LEMMA OlderPump == ASSUME IInv, Kept, NEW g \in Gens, g # cur, ~sink[g].done, NEW t, Sound(t),
         t.done => t.hand = <<>>, sink' = [sink EXCEPT ![g] = t], screen' \in Screens,
         UNCHANGED <<made, cur, pc, inRepair, up, routed>>, early => early'
  PROVE  Painted'
<1>1. sink'[g] = t /\ \A h \in Gens : h # g => sink'[h] = sink[h] BY DEF IInv, Shape
<1>2. /\ \A h \in Gens : Sound(sink[h])
      /\ \A h \in Gens : sink[h].done => sink[h].hand = <<>>
      /\ g <= made /\ pc # "wire" /\ cur \in {0, made}
  <2>1. g > made => FALSE BY DEF Kept, Pumps
  <2>2. made \in Nat /\ g \in Nat BY DEF IInv, Shape, Gens
  <2>3. QED BY <2>1, <2>2 DEF Kept, Sounds, Pumps
<1>3. Sounds' BY <1>1, <1>2 DEF Sounds, Sound
<1>4. Pumps'
  <2>1. \A h \in Gens : (sink'[h].done => sink'[h].hand = <<>>)
                        /\ (h > made' => sink'[h].done)
    BY <1>1, <1>2 DEF Kept, Pumps, IInv, Shape, Gens
  <2>2. QED BY <1>2, <2>1 DEF Pumps
<1>5. ASSUME cur # 0, ~ReseedOwed', ~early'
      PROVE  Shows(Told(sink[cur], screen'), routed) /\ Seeding(sink[cur])
  <2>1. cur = made /\ g < cur /\ cur \in Gens BY <1>2, <1>5 DEF IInv, Shape, Gens
  <2>2. ~ReseedOwed /\ ~early BY <1>1, <1>5, <2>1 DEF ReseedOwed
  <2>3. Shows(Told(sink[cur], screen), routed) /\ Seeding(sink[cur])
    BY <1>5, <2>1, <2>2 DEF Kept, Shown, Overtakes
  <2>4. PICK k \in 1..Len(Queue(sink[cur])) : Queue(sink[cur])[k].typ = "seed"
    BY <2>3 DEF Seeding
  <2>5. /\ [held |-> sink[cur].held, screen |-> screen] \in Views
        /\ [held |-> sink[cur].held, screen |-> screen'] \in Views
        /\ Queue(sink[cur]) \in Seq(Frames)
    <3>1. screen \in Screens BY DEF Kept, Sounds
    <3>2. Sound(sink[cur]) BY <1>2, <2>1
    <3>3. \A s \in Screens : [held |-> sink[cur].held, screen |-> s] \in Views
      BY <3>2, SoundView
    <3>4. QED BY <3>1, <3>2, <3>3, SoundView
  <2>6. Told(sink[cur], screen') = Told(sink[cur], screen)
    BY <2>4, <2>5, AfterSeed DEF Told
  <2>7. QED BY <2>3, <2>6
<1>6. Shown'
  <2>1. cur # 0 => cur \in Gens /\ sink'[cur] = sink[cur] BY <1>1, CurIn DEF IInv
  <2>2. QED BY <1>5, <2>1 DEF Shown
<1>7. QED BY <1>3, <1>4, <1>6 DEF Painted

(* And the current one, what its own frames make of the renderer. *)
LEMMA OwnPump == ASSUME IInv, Kept, cur # 0, ~sink[cur].done, NEW t, Sound(t), ~t.done,
         sink' = [sink EXCEPT ![cur] = t], screen' \in Screens,
         UNCHANGED <<made, cur, pc, routed>>,
         \/ ReseedOwed'
         \/ early'
         \/ /\ ReseedOwed => ReseedOwed'
            /\ early => early'
            /\ Told(t, screen') = Told(sink[cur], screen)
            /\ Overtakes(cur) /\ Seeding(sink[cur]) => Seeding(t)
  PROVE  Painted'
<1>1. cur \in Gens BY CurIn DEF IInv
<1>2. sink'[cur] = t /\ \A g \in Gens : g # cur => sink'[g] = sink[g]
  BY <1>1 DEF IInv, Shape
<1>3. pc # "wire" BY DEF IInv, Registered
<1>4. Sounds' BY <1>2 DEF Kept, Sounds, Sound
<1>5. Pumps'
  <2>1. \A h \in Gens : (sink'[h].done => sink'[h].hand = <<>>)
                        /\ (h > made' => sink'[h].done)
    BY <1>2 DEF Kept, Pumps
  <2>2. QED BY <1>3, <2>1 DEF Kept, Pumps
<1>6. \A g \in Gens : sink'[g].done => sink[g].done BY <1>2
<1>7. \A g \in Gens : sink[g].done => sink'[g].done BY <1>2
<1>8. Overtakes(cur)' => Overtakes(cur) BY <1>6, <1>7 DEF Overtakes
<1>9. Shown' BY <1>2, <1>8 DEF Kept, Shown
<1>10. QED BY <1>4, <1>5, <1>9 DEF Painted

(* The pump takes a part of what is queued, from its head. *)
LEMMA LeadingPart == ASSUME NEW q \in Seq(Frames), NEW k, k = LeadingOutputs(q)
  PROVE /\ SubSeq(q, 1, k) \in Seq(Frames) /\ SubSeq(q, k + 1, Len(q)) \in Seq(Frames)
        /\ Len(SubSeq(q, k + 1, Len(q))) <= Len(q)
        /\ SubSeq(q, 1, k) \o SubSeq(q, k + 1, Len(q)) = q
<1> DEFINE I == {i \in 1..Len(q) : q[i].typ # "output"}
           stop == IF I # {} THEN Min(I) ELSE 0
<1>1. stop \in 0..Len(q)
  <2>1. ASSUME I # {} PROVE Min(I) \in I
    <3>1. I \in SUBSET Nat OBVIOUS
    <3> HIDE DEF I
    <3>2. \E n \in I : \A m \in I : n <= m BY <2>1, <3>1, SmallestNumber
    <3>3. QED BY <3>2 DEF Min
  <2>2. QED BY <2>1
<1>2. LeadingOutputs(q) = IF stop = 0 THEN Len(q) ELSE stop
  BY DEF LeadingOutputs, SelectInSeq
<1> HIDE DEF stop
<1>3. k \in 0..Len(q) BY <1>1, <1>2
<1>4. Len(q) \in Nat /\ 1 \in 1..(Len(q) + 1) /\ k \in 0..Len(q) /\ Len(q) \in k..Len(q)
  BY <1>3
<1>5. SubSeq(q, 1, k) \in Seq(Frames) /\ SubSeq(q, k + 1, Len(q)) \in Seq(Frames)
      /\ Len(SubSeq(q, k + 1, Len(q))) <= Len(q)
  BY <1>4
<1>6. SubSeq(q, 1, k) \o SubSeq(q, k + 1, Len(q)) = SubSeq(q, 1, Len(q))
  <2>1. ASSUME NEW m \in 1..Len(q) + 1, m = 1
        PROVE  SubSeq(q, m, k) \o SubSeq(q, k + 1, Len(q)) = SubSeq(q, m, Len(q))
    <3>1. k \in m - 1..Len(q) BY <1>4, <2>1
    <3>2. QED BY <1>4, <3>1, ConcatAdjacentSubSeq
  <2>2. QED BY <1>4, <2>1
<1>7. QED BY <1>5, <1>6, SubSeqFull

LEMMA HeadOfBoth == ASSUME NEW q \in Seq(Frames), NEW r \in Seq(Frames), q # <<>>
  PROVE /\ q \o r \in Seq(Frames) /\ q \o r # <<>> /\ Head(q \o r) = Head(q)
        /\ Tail(q \o r) = Tail(q) \o r
<1> DEFINE b == q \o r
           t == Tail(q)
           m == t \o r
<1>1. /\ Len(q) \in Nat /\ Len(q) > 0 /\ Len(r) \in Nat /\ Head(q) = q[1]
  OBVIOUS
<1>2. /\ b \in Seq(Frames) /\ Len(b) = Len(q) + Len(r)
      /\ \A i \in 1..Len(q) + Len(r) : b[i] = IF i <= Len(q) THEN q[i] ELSE r[i - Len(q)]
  BY ConcatProperties
<1>3. /\ t \in Seq(Frames) /\ Len(t) = Len(q) - 1
      /\ \A i \in 1..Len(t) : t[i] = q[i + 1]
  BY HeadTailProperties
<1> HIDE DEF b, t
<1>4. /\ m \in Seq(Frames) /\ Len(m) = Len(t) + Len(r)
      /\ \A i \in 1..Len(t) + Len(r) : m[i] = IF i <= Len(t) THEN t[i] ELSE r[i - Len(t)]
  BY <1>3, ConcatProperties
<1>5. b # <<>> /\ Head(b) = b[1] BY <1>1, <1>2
<1>6. Head(b) = Head(q) BY <1>1, <1>2, <1>5
<1>7. /\ Tail(b) \in Seq(Frames) /\ Len(Tail(b)) = Len(b) - 1
      /\ \A i \in 1..Len(Tail(b)) : Tail(b)[i] = b[i + 1]
  BY <1>2, <1>5, HeadTailProperties
<1> HIDE DEF m
<1>8. Len(Tail(b)) = Len(m) /\ Len(m) = Len(q) - 1 + Len(r)
  BY <1>1, <1>2, <1>3, <1>4, <1>7
<1>9. ASSUME NEW i \in 1..Len(Tail(b)) PROVE Tail(b)[i] = m[i]
  <2>1. Tail(b)[i] = b[i + 1] /\ i + 1 \in 1..Len(q) + Len(r) /\ i \in 1..Len(t) + Len(r)
    BY <1>1, <1>3, <1>7, <1>8
  <2>2. CASE i <= Len(t)
    <3>1. i \in 1..Len(t) /\ i + 1 <= Len(q) BY <1>1, <1>3, <2>1, <2>2
    <3>2. QED BY <1>2, <1>3, <1>4, <2>1, <2>2, <3>1
  <2>3. CASE ~(i <= Len(t))
    <3>1. ~(i + 1 <= Len(q)) /\ (i + 1) - Len(q) = i - Len(t) BY <1>1, <1>3, <2>1, <2>3
    <3>2. QED BY <1>2, <1>4, <2>1, <2>3, <3>1
  <2>4. QED BY <2>2, <2>3
<1>10. Tail(b) = m BY <1>4, <1>7, <1>8, <1>9, SeqEqual
<1>11. QED BY <1>2, <1>5, <1>6, <1>10 DEF b, t, m

LEMMA PumpTakePaints == ASSUME IInv, Kept, NEW g \in Gens, PumpTake(g) PROVE Painted'
<1> DEFINE s == sink[g]
           k == LeadingOutputs(s.ch)
           a == SubSeq(s.ch, 1, k)
           c == SubSeq(s.ch, k + 1, Len(s.ch))
           t == [[s EXCEPT !.hand = a] EXCEPT !.ch = c]
<1>1. Sound(s) /\ screen \in Screens BY DEF Kept, Sounds
<1>2. s \in Sinks /\ s.ch \in Seq(Frames) /\ Len(s.ch) <= Buf /\ s.hand = <<>> /\ ~s.done
  BY <1>1 DEF Sound, Sinks, PumpTake
<1>3. a \in Seq(Frames) /\ c \in Seq(Frames) /\ Len(c) <= Buf /\ a \o c = s.ch
  <2>1. a \in Seq(Frames) /\ c \in Seq(Frames) /\ Len(c) <= Len(s.ch) /\ a \o c = s.ch
    BY <1>2, LeadingPart
  <2> HIDE DEF a, c, k
  <2>2. Len(c) \in Nat /\ Len(s.ch) \in Nat /\ Buf \in Nat BY <1>2, <2>1, BufAssumption
  <2>3. Len(c) <= Buf BY <1>2, <2>1, <2>2
  <2>4. QED BY <2>1, <2>3
<1>4. sink' = [sink EXCEPT ![g] = t] BY <1>1 DEF PumpTake, Sound, Sinks, IInv, Shape
<1> HIDE DEF k, a, c
<1>5. Sound(t)
  <2>1. Sound([s EXCEPT !.hand = a]) BY <1>1, <1>3, SinkEdits
  <2>2. QED BY <1>3, <2>1, SinkEdits
<1>6. /\ t.hand = a /\ t.ch = c /\ t.held = s.held /\ t.done = s.done
      /\ t.dropped = s.dropped /\ t.paused = s.paused
  BY <1>2 DEF Sinks
<1>7. UNCHANGED <<made, cur, pc, inRepair, up, routed, screen, early>>
  BY DEF PumpTake, mainVars, lineVars
<1> HIDE DEF t
<1>8. CASE g # cur BY <1>1, <1>2, <1>4, <1>5, <1>6, <1>7, <1>8, OlderPump
<1>9. CASE g = cur
  <2>1. Queue(t) = Queue(s)
    <3>1. Queue(s) = s.ch BY <1>2 DEF Queue
    <3>2. QED BY <1>3, <1>6, <3>1 DEF Queue
  <2>2. Told(t, screen) = Told(s, screen) BY <1>6, <2>1 DEF Told
  <2>3. Seeding(s) => Seeding(t) BY <2>1 DEF Seeding
  <2>4. sink'[cur] = t /\ cur # 0 BY <1>4, <1>9 DEF IInv, Shape, Gens
  <2>5. ~(\E i \in 1..Len(s.hand) : s.hand[i].typ = "owe") BY <1>2
  <2>6. ReseedOwed => ReseedOwed' BY <1>6, <1>7, <1>9, <2>4, <2>5 DEF ReseedOwed
  <2>7. QED BY <1>1, <1>2, <1>4, <1>5, <1>6, <1>7, <1>9, <2>2, <2>3, <2>4, <2>6, OwnPump
<1>10. QED BY <1>8, <1>9

LEMMA PumpWritePaints == ASSUME IInv, Kept, NEW g \in Gens, PumpWrite(g) PROVE Painted'
<1> DEFINE s == sink[g]
           f == Head(s.hand)
           b == [held |-> s.held, screen |-> screen]
           v == Effect(b, f)
           owes == f.typ = "owe" \/ (f.typ = "release" /\ s.held)
           d == (s.dropped \/ owes)
           t == [[[s EXCEPT !.hand = Tail(s.hand)] EXCEPT !.held = v.held] EXCEPT !.dropped = d]
<1>1. Sound(s) /\ screen \in Screens BY DEF Kept, Sounds
<1>2. s \in Sinks /\ s.hand \in Seq(Frames) /\ s.hand # <<>> /\ d \in BOOLEAN
  BY <1>1 DEF Sound, Sinks, PumpWrite
<1>3. f \in Frames /\ Tail(s.hand) \in Seq(Frames) BY <1>2
<1>4. b \in Views /\ v \in Views BY <1>1, <1>3, SoundView, EffectView
<1>5. v.held \in BOOLEAN /\ v.screen \in Screens /\ v = [held |-> v.held, screen |-> v.screen]
  BY <1>4 DEF Views
<1>6. sink' = [sink EXCEPT ![g] = t] /\ screen' = v.screen
  BY <1>1 DEF PumpWrite, Sound, Sinks, IInv, Shape
<1>7. UNCHANGED <<made, cur, pc, inRepair, up, routed>> /\ early' = (early \/ Overtakes(g))
  BY DEF PumpWrite, mainVars, lineVars
<1>8. ~s.done BY <1>2 DEF Kept, Pumps
<1> HIDE DEF v, d
<1>9. Sound(t)
  <2>1. Sound([s EXCEPT !.hand = Tail(s.hand)]) BY <1>1, <1>3, SinkEdits
  <2>2. Sound([[s EXCEPT !.hand = Tail(s.hand)] EXCEPT !.held = v.held])
    BY <1>5, <2>1, SinkEdits
  <2>3. QED BY <1>2, <2>2, SinkEdits
<1>10. /\ t.hand = Tail(s.hand) /\ t.ch = s.ch /\ t.held = v.held /\ t.done = s.done
       /\ t.dropped = d /\ t.paused = s.paused
  BY <1>2 DEF Sinks
<1> HIDE DEF t
<1>11. CASE g # cur BY <1>1, <1>5, <1>6, <1>7, <1>8, <1>9, <1>10, <1>11, OlderPump
<1>12. CASE g = cur
  <2>1. sink'[cur] = t /\ cur # 0 BY <1>6, <1>12 DEF IInv, Shape, Gens
  <2>2. CASE Overtakes(cur)
    BY <1>5, <1>6, <1>7, <1>8, <1>9, <1>10, <1>12, <2>1, <2>2, OwnPump
  <2>3. CASE owes
    <3>1. t.dropped BY <1>10, <2>3 DEF d
    <3>2. ReseedOwed' BY <1>7, <2>1, <3>1 DEF ReseedOwed
    <3>3. QED BY <1>5, <1>6, <1>7, <1>8, <1>9, <1>10, <1>12, <2>1, <3>2, OwnPump
  <2>4. CASE ~owes /\ ~Overtakes(cur)
    <3>1. Queue(s) \in Seq(Frames) /\ Queue(s) # <<>> /\ Head(Queue(s)) = f
          /\ Tail(Queue(s)) = Queue(t)
      <4>1. s.ch \in Seq(Frames) BY <1>2 DEF Sinks
      <4>2. QED BY <1>2, <1>10, <4>1, HeadOfBoth DEF Queue
    <3>2. After(b, Queue(s)) = After(v, Queue(t))
      <4> HIDE DEF b, f
      <4>1. QED BY <1>4, <3>1, AfterHead DEF v
    <3>3. Told(t, screen') = Told(s, screen) BY <1>5, <1>6, <1>10, <3>2 DEF Told
    <3>4. ASSUME NEW i \in 1..Len(s.hand), s.hand[i].typ = "owe"
          PROVE  \E j \in 1..Len(t.hand) : t.hand[j].typ = "owe"
      <4>1. i # 1 BY <1>2, <2>4, <3>4
      <4>2. i - 1 \in 1..Len(t.hand) /\ t.hand[i - 1] = s.hand[i] BY <1>2, <1>10, <4>1
      <4>3. QED BY <3>4, <4>2
    <3>5. s.dropped => t.dropped BY <1>10 DEF d
    <3>6. ReseedOwed => ReseedOwed'
      <4> HIDE DEF owes
      <4>1. QED BY <1>7, <1>10, <1>12, <2>1, <3>4, <3>5 DEF ReseedOwed
    <3>7. QED BY <1>5, <1>6, <1>7, <1>8, <1>9, <1>10, <1>12, <2>1, <2>4, <3>3, <3>6, OwnPump
  <2>5. QED BY <2>2, <2>3, <2>4
<1>13. QED BY <1>11, <1>12

LEMMA PumpDeadlinePaints == ASSUME IInv, Kept, NEW g \in Gens, PumpDeadline(g)
  PROVE Painted'
<1> DEFINE s == sink[g]
           q == <<Frame("owe")>>
           t == [[s EXCEPT !.held = FALSE] EXCEPT !.hand = q]
<1>1. Sound(s) /\ screen \in Screens BY DEF Kept, Sounds
<1>2. s \in Sinks /\ ~s.done BY <1>1 DEF Sound, PumpDeadline
<1>3. q \in Seq(Frames) /\ Len(q) = 1 /\ q[1].typ = "owe"
  <2>1. Frame("owe") \in Frames /\ Frame("owe").typ = "owe"
    BY Kinds, BoundsAssumption DEF FrameTypes, Frame
  <2>2. QED BY <2>1
<1>4. /\ sink' = [sink EXCEPT ![g] = t]
      /\ screen' = [[screen EXCEPT !.alt = FALSE] EXCEPT !.whole = FALSE]
  BY <1>1 DEF PumpDeadline, Sound, Sinks, IInv, Shape
<1>5. screen' \in Screens
  <2>1. \A x \in Screens, b \in BOOLEAN : [x EXCEPT !.alt = b] \in Screens
                                          /\ [x EXCEPT !.whole = b] \in Screens
    BY DEF Screens
  <2>2. QED BY <1>1, <1>4, <2>1
<1> HIDE DEF q
<1>6. Sound(t)
  <2>1. Sound([s EXCEPT !.held = FALSE]) BY <1>1, SinkEdits
  <2>2. QED BY <1>3, <2>1, SinkEdits
<1>7. t.hand = q /\ t.done = s.done BY <1>2 DEF Sinks
<1>8. UNCHANGED <<made, cur, pc, inRepair, up, routed, early>>
  BY DEF PumpDeadline, mainVars, lineVars
<1> HIDE DEF t
<1>9. CASE g # cur BY <1>2, <1>4, <1>5, <1>6, <1>7, <1>8, <1>9, OlderPump
<1>10. CASE g = cur
  <2>1. sink'[cur] = t /\ cur # 0 BY <1>4, <1>10 DEF IInv, Shape, Gens
  <2>2. ReseedOwed' BY <1>3, <1>7, <1>8, <2>1 DEF ReseedOwed
  <2>3. QED BY <1>2, <1>4, <1>5, <1>6, <1>7, <1>8, <1>10, <2>1, <2>2, OwnPump
<1>11. QED BY <1>9, <1>10

LEMMA PumpExitPaints == ASSUME IInv, Kept, NEW g \in Gens, PumpExit(g) PROVE Painted'
<1> DEFINE s == sink[g]
           t == [[s EXCEPT !.done = TRUE] EXCEPT !.held = FALSE]
<1>1. Sound(s) /\ screen \in Screens BY DEF Kept, Sounds
<1>2. s \in Sinks /\ ~s.done /\ s.hand = <<>> /\ s.closed BY <1>1 DEF Sound, PumpExit
<1>3. sink' = [sink EXCEPT ![g] = t] BY <1>1 DEF PumpExit, Sound, Sinks, IInv, Shape
<1>4. Sound(t)
  <2>1. Sound([s EXCEPT !.done = TRUE]) BY <1>1, SinkEdits
  <2>2. QED BY <2>1, SinkEdits
<1>5. t.hand = <<>> BY <1>2 DEF Sinks
<1>6. UNCHANGED <<made, cur, pc, inRepair, up, routed, early, screen>>
  BY DEF PumpExit, mainVars, lineVars
<1>7. g # cur BY <1>2 DEF IInv, Registered, Gens
<1> HIDE DEF t
<1>8. QED BY <1>1, <1>2, <1>3, <1>4, <1>5, <1>6, <1>7, OlderPump

----------------------------------------------------------------------------
(* Kept holds throughout.                                                    *)

(* The steps that leave the sinks alone.                                     *)
LEMMA FarEndPaints == ASSUME IInv, Kept, FarEnd PROVE Painted'
<1>1. Painted BY DEF Kept, Painted
<1>2. /\ UNCHANGED <<sink, made, cur, screen, early, pc, inRepair, routed>>
      /\ up' = up \/ ~up'
  BY DEF FarEnd, Draw, PausePane, Answer, ConnectionLost, sinkVars, mainVars
<1> USE <1>2
<1>3. Sounds' BY <1>1 DEF Painted, Sounds, Sound
<1>4. Pumps' BY <1>1 DEF Painted, Pumps
<1>5. Shown' BY <1>1, ShownStays DEF Painted, ReseedOwed
<1>6. QED BY <1>3, <1>4, <1>5 DEF Painted

LEMMA ElsewherePaints == ASSUME IInv, Kept,
         \/ Continued \/ ContinueLost \/ SettleDone \/ Tick \/ PassSeedLost \/ Reread
         \/ ReconcileDone \/ Attach \/ StartReconcile
  PROVE  Painted'
<1>1. Painted BY DEF Kept, Painted
<1>2. UNCHANGED <<sink, made, cur, screen, early, routed>>
  BY DEF Continued, ContinueLost, SettleDone, Tick, PassSeedLost, Reread, ReconcileDone,
     Attach,
         StartReconcile, sinkVars
<1>3. pc' # "wire"
  BY DEF Continued, ContinueLost, SettleDone, Tick, PassSeedLost, Reread, ReconcileDone,
     Attach,
         StartReconcile, Ask
<1>4. ASSUME ReseedOwed PROVE ReseedOwed'
  <2>1. CASE Continued BY <2>1 DEF Continued, Ask, ReseedOwed
  <2>2. CASE ContinueLost BY <2>2 DEF ContinueLost, Lost, lineVars, ReseedOwed
  <2>3. CASE SettleDone BY <1>2, <1>4, <2>3 DEF SettleDone, lineVars, ReseedOwed
  <2>4. CASE Tick BY <1>2, <1>4, <2>4 DEF Tick, lineVars, ReseedOwed
  <2>5. CASE PassSeedLost BY <1>2, <1>4, <2>5 DEF PassSeedLost, Lost, ReseedOwed
  <2>6. CASE Reread BY <1>2, <1>4, <2>6 DEF Reread, Replied, Lost, ReseedOwed
  <2>7. CASE ReconcileDone BY <1>2, <1>4, <2>7 DEF ReconcileDone, ReseedOwed
  <2>8. CASE Attach BY <2>8 DEF Attach, ReseedOwed
  <2>9. CASE StartReconcile BY <1>2, <1>4, <2>9 DEF StartReconcile, lineVars, ReseedOwed
  <2>10. QED BY <2>1, <2>2, <2>3, <2>4, <2>5, <2>6, <2>7, <2>8, <2>9
<1>5. QED BY <1>1, <1>2, <1>3, <1>4, PaintedStays

LEMMA SeedLostPaints == ASSUME IInv, Kept, NEW p \in {"reseed", "confirm", "repaintAll"},
         NEW then \in {"due", "select", "settle"}, SeedLost(p, then)
  PROVE  Painted'
<1>1. Painted BY DEF Kept, Painted
<1>2. UNCHANGED <<sink, made, cur, screen, early, routed>> /\ ~up' /\ pc' = then
  BY DEF SeedLost, Lost, sinkVars, lineVars
<1>3. ReseedOwed' BY <1>2 DEF ReseedOwed
<1>4. QED BY <1>1, <1>2, <1>3, PaintedStays

LEMMA PaintedKept == ASSUME IInv, Kept, Next PROVE Painted'
<1>1. CASE FarEnd BY <1>1, FarEndPaints
<1>2. ASSUME NEW g \in Gens, Pump(g) PROVE Painted'
  BY <1>2, PumpTakePaints, PumpWritePaints, PumpDeadlinePaints, PumpExitPaints DEF Pump
<1>3. CASE \/ Continued \/ ContinueLost \/ SettleDone \/ Tick \/ PassSeedLost \/ Reread
           \/ ReconcileDone \/ Attach \/ StartReconcile
  BY <1>3, ElsewherePaints
<1>4. CASE Reseeded BY <1>4, ResetsSplit, SeededPaints, SeedLostPaints
<1>5. CASE \/ RouteAside \/ Repainted \/ RepaintLost \/ SettlePause \/ ReseedDropped
           \/ ReseedReshaped \/ SelectOutput \/ SelectPause \/ StreamEnded
  BY <1>5, RouteAsidePaints, RepaintedPaints, RepaintLostPaints, SettlePausePaints,
     ReseedDroppedPaints, ReseedReshapedPaints, SelectOutputPaints, SelectPausePaints,
     StreamEndedPaints
<1>6. CASE \/ PassHold \/ PassShape \/ PassSeeded \/ ReleaseHold \/ Revive \/ SetupSpawned \/ Wire
           \/ Repair \/ Reset \/ Retire
  BY <1>6, PassHoldPaints, PassShapePaints, PassSeededPaints, ReleaseHoldPaints,
     RevivePaints,
     SetupSpawnedPaints, WirePaints, RepairPaints, ResetPaints, RetirePaints
<1>7. QED BY <1>1, <1>2, <1>3, <1>4, <1>5, <1>6 DEF Next, MainStep

LEMMA KeptInit == Init => Kept
<1> SUFFICES ASSUME Init PROVE Kept OBVIOUS
<1>0. 0 \in 0..MaxDrawn /\ 0 \in 0..MaxPauses /\ 0 \in 0..MaxDrops /\ 0 \in 0..MaxPasses
      /\ MaxResets \in Nat
  BY BoundsAssumption
<1>1. Flags BY DEF Init, Flags
<1>2. Counts BY <1>0 DEF Init, Counts, Places, Awaiting
<1>3. Stream BY <1>0 DEF Init, Stream
<1>4. /\ cur = 1 /\ made = 1 /\ screen = Blank /\ routed = 0
      /\ \A g \in Gens : sink[g] = IF g = 1 THEN Fresh ELSE Finished
      /\ 1 \in Gens
  BY <1>0 DEF Init, Gens
<1>5. Sounds BY <1>4, FreshSound DEF Sounds
<1>6. Pumps BY <1>4, FreshSound DEF Init, Pumps, Gens, Fresh
<1>7. Answers
  <2>1. Len(line) = 0 /\ asked = "none" BY DEF Init
  <2>2. QED BY <2>1 DEF Answers
<1>8. Pauses
  <2>1. Len(line) = 0 /\ asked = "none" /\ async = 0 /\ pc = "settle" BY DEF Init
  <2>2. QED BY <2>1 DEF Pauses
<1>9. Flow
  <2>1. Len(line) = 0 /\ pc = "settle" /\ routed = drawn BY DEF Init
  <2>2. QED BY <2>1 DEF Flow, Before
<1>10. Shown
  <2>1. ~Overtakes(cur) BY <1>4 DEF Overtakes, Gens
  <2>2. Told(sink[cur], screen) = [held |-> FALSE, screen |-> Blank]
    <3>1. sink[cur] = Fresh BY <1>4
    <3>2. Fresh.held = FALSE /\ Queue(Fresh) = <<>> BY DEF Fresh, Queue
    <3>3. <<>> \in Seq(Frames) OBVIOUS
    <3>4. [held |-> Fresh.held, screen |-> Blank] \in Views BY FreshSound, SoundView
    <3>5. QED BY <1>4, <3>1, <3>2, <3>3, <3>4, AfterView DEF Told
  <2>3. Shows([held |-> FALSE, screen |-> Blank], 0) BY DEF Shows, Blank
  <2>4. Shows(Told(sink[cur], screen), routed) BY <1>4, <2>2, <2>3
  <2>5. QED BY <2>1, <2>4 DEF Shown
<1>11. QED BY <1>1, <1>2, <1>3, <1>5, <1>6, <1>7, <1>8, <1>9, <1>10 DEF Kept

LEMMA KeptNext == ASSUME IInv, Kept, [Next]_vars PROVE Kept'
<1>1. CASE Next
  <2>1. Painted' BY <1>1, PaintedKept
  <2>2. Flags' /\ Counts' /\ Stream' /\ Answers' /\ Pauses' /\ Flow'
    BY <1>1, FlagsKept, CountsKept, StreamKept, AnswersKept, PausesKept, FlowKept DEF Kept
  <2>3. QED BY <2>1, <2>2 DEF Kept, Painted
<1>2. CASE UNCHANGED vars
  <2> USE <1>2 DEF vars, remoteVars, lineVars, sinkVars, mainVars, Kept
  <2>1. Flags' /\ Counts' BY DEF Flags, Counts
  <2>2. Stream' /\ Answers' BY DEF Stream, Answers
  <2>3. Pauses' BY DEF Pauses
  <2>4. Flow' BY DEF Flow, Before, Stale
  <2>5. Sounds' /\ Pumps' BY DEF Sounds, Sound, Pumps
  <2>6. Shown' BY ShownStays DEF ReseedOwed
  <2>7. QED BY <2>1, <2>2, <2>3, <2>4, <2>5, <2>6
<1>3. QED BY <1>1, <1>2

(* The invariant holds throughout: what is on its way to a renderer, on the  *)
(* stream or in its sink, brings it where the main loop is, or the loss is   *)
(* on record (daemon.go: outputSink, handlePause, handleContinue, reseeds).  *)
THEOREM KeptThroughout == Spec => [](IInv /\ Kept)
<1>1. Init => Kept BY KeptInit
<1>2. IInv /\ Kept /\ [Next]_vars => Kept' BY KeptNext
<1>3. QED BY <1>1, <1>2, Invariance, PTL DEF Spec

(* Every variable stays in its type, and no channel holds more than          *)
(* outputSinkBuf frames.                                                     *)
THEOREM TypeCorrect == Spec => []TypeOK
<1>1. IInv /\ Kept => TypeOK BY TypeFromParts DEF Kept
<1>2. QED BY <1>1, KeptThroughout, PTL

(* No frame of a pane goes missing in silence: unless a reseed is owed, the  *)
(* frames queued bring its renderer to exactly what the main loop has taken  *)
(* off the stream, or leave it held, the deadline still to come (#412), for  *)
(* a tiled pane and a float, through full buffers, %pause, holds, rebuilt    *)
(* windows and lost connections (outputSink, Router.Route, reseedDropped).   *)
THEOREM ScreenIsHonest == Spec => []ScreenHonest
<1>1. IInv /\ Kept => ScreenHonest
  BY DEF Kept, Shown, Shows, Told, Queue, After, ScreenHonest, Outcome
<1>2. QED BY <1>1, KeptThroughout, PTL
=============================================================================
