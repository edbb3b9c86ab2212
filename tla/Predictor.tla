------------------------------- MODULE Predictor -------------------------------
(***************************************************************************)
(* Keys typed into a mirror pane are drawn before the remote echoes them   *)
(* (predictor.go), from a model of the pane that the pump feeds with what  *)
(* it writes to the renderer (predictmodel.go), seeded by the main loop    *)
(* (predictseed.go).  Guesses are painted over the real screen and taken   *)
(* back before anything else is written.                                   *)
(*                                                                         *)
(* The screen is one row of Width cells.  The program on the remote reads  *)
(* the keys in order; it echoes every line but the second, which is a      *)
(* silent prompt, and may draw Noise on its own.  What is typed at the     *)
(* prompt is Secret, a letter no echo can draw: the predictor compares     *)
(* characters, and a letter already on its way would pass for its echo.    *)
(* ch is the sink's channel of at most Cap frames; a key that finds it     *)
(* full is lost to the predictor.  Bounds: MaxKeys keys, and MaxTurns      *)
(* characters of noise, cut sequences, changes of mode, holds, resizes     *)
(* and seeds together.                                                     *)
(***************************************************************************)
EXTENDS Integers, Sequences, FiniteSets

CONSTANTS Width, Letters, Secret, Noise, Cap, MaxKeys, MaxTurns, Cuts

VARIABLES
    typed, lines,  \* keys on their way to the program; lines the user has ended
    rem, done,     \* the program's screen; lines it has read
    ch,            \* frames for the pump
    local, slot,   \* the renderer's screen; the cursor ESC 7 saved
    shown,         \* the screen the output written to the renderer makes
    model,         \* the predictor's model, or NoModel
    preds, painted, epoch, confirmed, blocked, run, timer, fed,
    wanted, lost,  \* a model is asked for; a key's frame was dropped
    mode,          \* "on", "paused" (or a screen no guess may be painted on), or "unwanted"
    state,         \* "live", "held", or "torn": the pane waits for the reseed after a reshape
    missed,        \* a lost key was the one that ended a line
    keys, turns

pvars == <<typed, lines, rem, done, ch, local, slot, shown, model, preds, painted, epoch, confirmed,
           blocked, run, timer, fed, wanted, lost, mode, state, missed, keys, turns>>
prog == <<typed, lines, rem, done, keys, missed>>

BS == "bs"
Enter == "nl"
Col == 0..Width - 1
Blank == [row |-> [x \in Col |-> " "], cur |-> 0, mid |-> FALSE]
NoModel == [Blank EXCEPT !.cur = Width]
NoRun == [epoch |-> -1, x |-> 0]

\* A frame: output (put, bs, nl, or half a sequence), a key, a seed of the
\* screen or of the model, or one that turns the pane's state.
Frame(op, c, tail, scr) == [op |-> op, ch |-> c, tail |-> tail, scr |-> scr]
Output == {"put", "bs", "nl", "half"}

\* What a terminal does with one piece of output.  The tail of a sequence
\* whose head it never saw is text to it.
Feed(s, f) ==
    LET put(c) == [s EXCEPT !.row[s.cur] = c, !.cur = IF @ < Width - 1 THEN @ + 1 ELSE @, !.mid = FALSE]
    IN  IF f.op = "half" THEN [s EXCEPT !.mid = TRUE]
        ELSE IF f.tail /\ ~s.mid THEN put("#")
        ELSE CASE f.op = "put" -> put(f.ch)
               [] f.op = "bs" -> [s EXCEPT !.row[s.cur - 1] = " ", !.cur = @ - 1, !.mid = FALSE]
               [] f.op = "nl" -> Blank

Fed(s, fs) == LET f[i \in 0..Len(fs)] == IF i = 0 THEN s ELSE Feed(f[i - 1], fs[i]) IN f[Len(fs)]

Init ==
    /\ typed = <<>> /\ lines = 0 /\ rem = Blank /\ done = 0 /\ ch = <<>>
    /\ local = Blank /\ slot = 0 /\ shown = Blank /\ model \in {NoModel, Blank}
    /\ preds = <<>> /\ painted = {} /\ epoch = 0 /\ confirmed = -1 /\ blocked = FALSE /\ run = NoRun
    /\ timer = FALSE /\ fed = FALSE /\ wanted = FALSE /\ lost = FALSE /\ mode = "on" /\ state = "live"
    /\ missed = FALSE /\ keys = 0 /\ turns = 0

----------------------------------------------------------------------------
(* The user, the program and the main loop.                                *)
Room == Len(ch) < Cap
Pump == <<local, slot, shown, model, preds, painted, epoch, confirmed, blocked, run, timer, fed, state>>

Silent(line) == line = 1

Type(k) ==
    /\ keys < MaxKeys /\ (k \in Letters => ~Silent(lines)) /\ (k = Secret => Silent(lines)) /\ keys' = keys + 1 /\ typed' = Append(typed, k)
    /\ lines' = IF k = Enter THEN lines + 1 ELSE lines
    /\ IF Room THEN ch' = Append(ch, Frame("key", k, FALSE, [Blank EXCEPT !.cur = lines])) /\ UNCHANGED <<lost, missed>>
       ELSE lost' = TRUE /\ missed' = (missed \/ k = Enter) /\ UNCHANGED ch
    /\ UNCHANGED <<rem, done, wanted, mode, turns, Pump>>

Emit(f) == ch' = Append(ch, f) /\ rem' = Feed(rem, f)

Program ==
    /\ typed # <<>> /\ Room /\ typed' = Tail(typed)
    /\ LET k == Head(typed) IN
       /\ done' = IF k = Enter THEN done + 1 ELSE done
       /\ CASE k = Enter -> Emit(Frame("nl", " ", rem.mid, Blank))
            [] k # Enter /\ Silent(done) -> UNCHANGED <<ch, rem>>
            [] k = BS /\ ~Silent(done) /\ rem.cur = 0 -> UNCHANGED <<ch, rem>>
            [] k = BS /\ ~Silent(done) /\ rem.cur > 0 -> Emit(Frame("bs", " ", rem.mid, Blank))
            [] k \in Letters /\ ~Silent(done) -> Emit(Frame("put", k, rem.mid, Blank))
    /\ UNCHANGED <<lines, wanted, lost, mode, missed, keys, turns, Pump>>

Draw(half) ==
    /\ Room /\ turns < MaxTurns /\ turns' = turns + 1 /\ (half => Cuts /\ ~rem.mid)
    /\ Emit(IF half THEN Frame("half", " ", FALSE, Blank) ELSE Frame("put", Noise, rem.mid, Blank))
    /\ UNCHANGED <<typed, lines, done, wanted, lost, mode, missed, keys, Pump>>

\* seedPredictModels: the capture is the pane's last reply, and is enqueued
\* before anything behind it on the stream.
SeedModel ==
    /\ wanted /\ Room /\ wanted' = FALSE /\ ch' = Append(ch, Frame("model", " ", FALSE, rem))
    /\ UNCHANGED <<lost, mode, turns, prog, Pump>>

\* A reseed, a reshape or a hold.
Turn(op) ==
    /\ Room /\ turns < MaxTurns /\ turns' = turns + 1 /\ ch' = Append(ch, Frame(op, " ", FALSE, rem))
    /\ UNCHANGED <<wanted, lost, mode, prog, Pump>>

\* The stream pauses, the program changes modes, or the round trips get short.
Mode(to) ==
    /\ mode # to /\ turns < MaxTurns /\ turns' = turns + 1 /\ mode' = to
    /\ UNCHANGED <<ch, wanted, lost, prog, Pump>>

----------------------------------------------------------------------------
(* What the predictor writes.                                              *)
Unpainted ==
    IF painted = {} THEN local
    ELSE [local EXCEPT !.cur = slot,
                       !.row = [x \in Col |-> IF x \in painted THEN model.row[x] ELSE @[x]]]

\* streamGround: what was written ends at the end of a sequence.
AtGround(scr) == ~scr.mid
Paintable(m) == m # NoModel /\ mode = "on"

\* Only the guesses of epochs whose echo was seen.
Confirmed(ps, conf) == {i \in DOMAIN ps : \A j \in 1..i : ps[j].epoch <= conf}

\* paint, after an unpaint has left scr and model m.
Paint(scr, m, ps, conf) ==
    LET on == Confirmed(ps, conf)
        at(x) == {i \in on : ps[i].x = x}
        top(x) == CHOOSE i \in at(x) : \A j \in at(x) : j <= i
    IN  IF ~Paintable(m) \/ ~AtGround(shown') \/ m.cur >= Width - 1 \/ on = {}
        THEN local' = scr /\ painted' = {} /\ slot' = slot
        ELSE /\ slot' = scr.cur /\ painted' = {x \in Col : at(x) # {}}
             /\ local' = [scr EXCEPT !.cur = ps[Cardinality(on)].cur,
                                     !.row = [x \in Col |-> IF at(x) = {} THEN @[x] ELSE ps[top(x)].ch]]

Reset == preds' = <<>> /\ epoch' = epoch + 1 /\ blocked' = FALSE /\ timer' = FALSE
Take(n) == ch' = SubSeq(ch, n + 1, Len(ch))
Base == IF preds = <<>> THEN model.cur ELSE preds[Len(preds)].cur

----------------------------------------------------------------------------
(* onKeys: a reset, a request, a barrier, or a guess.                      *)
SameEpoch == epoch  \* Mutant: the end of a line does not end its epoch
NextEpoch == epoch + 1

Guess(k, line) ==
    LET x == IF k = BS THEN Base - 1 ELSE Base
        can == ~blocked /\ IF k = BS THEN run.epoch = epoch /\ x >= run.x ELSE x + 1 <= Width - 2
        pr == [x |-> x, ch |-> IF k = BS THEN " " ELSE k, cur |-> IF k = BS THEN x ELSE x + 1,
               epoch |-> epoch, line |-> line]
    IN  IF ~can
        THEN blocked' = TRUE /\ UNCHANGED <<preds, painted, local, slot, run, timer>>
        ELSE /\ preds' = Append(preds, pr) /\ blocked' = FALSE /\ timer' = TRUE
             /\ run' = IF k # BS /\ run.epoch # epoch THEN [epoch |-> epoch, x |-> x] ELSE run
             /\ Paint(Unpainted, model, preds', confirmed)

Drops == local' = Unpainted /\ painted' = {} /\ UNCHANGED <<slot, run>>

Key ==
    /\ ch # <<>> /\ ch[1].op = "key" /\ Take(1) /\ lost' = (lost /\ state = "held")
    /\ shown' = shown
    /\ IF state = "held" \/ lost \/ mode = "paused"
       THEN Reset /\ Drops /\ UNCHANGED <<model, wanted, fed, confirmed>>
       ELSE /\ fed' = FALSE
            /\ CASE mode = "unwanted" -> Reset /\ Drops /\ model' = NoModel /\ UNCHANGED <<wanted, confirmed>>
                 [] mode = "on" /\ model = NoModel ->
                      /\ wanted' \in {wanted, TRUE}
                      /\ UNCHANGED <<model, preds, painted, epoch, confirmed, blocked, run, timer, local, slot>>
                 [] mode = "on" /\ model # NoModel /\ ch[1].ch = Enter ->
                      /\ epoch' = NextEpoch /\ blocked' = TRUE
                      /\ UNCHANGED <<model, wanted, preds, painted, confirmed, run, timer, local, slot>>
                 [] OTHER -> Guess(ch[1].ch, ch[1].scr.cur) /\ UNCHANGED <<model, wanted, epoch, confirmed>>
    /\ UNCHANGED <<mode, state, turns, prog>>

----------------------------------------------------------------------------
(* onOutput: unpaint, feed, settle, paint.                                 *)
Later(ps, i, k) == \E j \in i + 1..k : ps[j].x = ps[i].x
Judged(k) == {i \in 1..k : preds[i].ch # " " /\ ~Later(preds, i, k)}
Matches(m, i) == m.row[preds[i].x] = preds[i].ch

\* settlePrefix: runs that end at the cursor, which the payload moved or
\* whose cells it changed.
Runs(m) == {k \in DOMAIN preds :
    /\ preds[k].cur = m.cur
    /\ m.cur # model.cur \/ \E i \in Judged(k) : m.row[preds[i].x] # model.row[preds[i].x]}
Settled(m) == {k \in Runs(m) : \A i \in Judged(k) : Matches(m, i)}
Wrong(m) == \E k \in Runs(m) : \E i \in Judged(k) : ~Matches(m, i) /\ ~Later(preds, i, Len(preds))

\* Head by head, while the cursor is past a char.
Past(m, i) == preds[i].ch # " " /\ m.cur > preds[i].x
Echoed(m) == {n \in DOMAIN preds : \A i \in 1..n : Past(m, i) /\ Matches(m, i)}
After(n) == SubSeq(preds, n + 1, Len(preds))

Resolution(m) ==
    LET r(ps, ep, conf) == [preds |-> ps, epoch |-> ep, confirmed |-> conf]
        raised(e) == IF e > confirmed THEN e ELSE confirmed
        k == CHOOSE i \in Settled(m) : \A j \in Settled(m) : i <= j
        n == Cardinality(Echoed(m))
        seen == IF n = 0 THEN confirmed ELSE raised(preds[n].epoch)
    IN  CASE Settled(m) # {} ->
               r(After(k), epoch, IF Judged(k) # {} THEN raised(preds[k].epoch) ELSE confirmed)
          [] Settled(m) = {} /\ Wrong(m) -> r(<<>>, epoch + 1, confirmed)
          [] Settled(m) = {} /\ ~Wrong(m) /\ preds # <<>> /\ preds[1].epoch < epoch -> r(<<>>, epoch, confirmed)
          [] OTHER ->
               IF n < Len(preds) /\ Past(m, n + 1) /\ ~Later(preds, n + 1, Len(preds))
               THEN r(<<>>, epoch + 1, seen) ELSE r(After(n), epoch, seen)

\* With the model gone, what was painted is unpainted all the same.
Out(n, gives) ==
    /\ n <= Len(ch) /\ \A i \in 1..n : ch[i].op \in Output
    /\ (gives => model # NoModel)
    /\ Take(n)
    /\ LET fs == SubSeq(ch, 1, n)
           scr == Fed(Unpainted, fs)
           m == Fed(model, fs)
           rs == Resolution(m)
           ps == IF Paintable(m) THEN rs.preds ELSE <<>>
       IN  CASE state = "held" ->
                  UNCHANGED <<local, slot, shown, model, preds, painted, epoch, confirmed, blocked, timer, fed>>
             [] state # "held" /\ model = NoModel ->
                  /\ shown' = Fed(shown, fs) /\ local' = Fed(local, fs)
                  /\ UNCHANGED <<slot, model, preds, painted, epoch, confirmed, blocked, timer, fed>>
             [] state # "held" /\ model # NoModel /\ gives ->
                  /\ shown' = Fed(shown, fs) /\ local' = scr /\ painted' = {} /\ model' = NoModel
                  /\ fed' = TRUE /\ Reset /\ UNCHANGED <<slot, confirmed>>
             [] OTHER ->
                  /\ shown' = Fed(shown, fs) /\ model' = m /\ fed' = TRUE
                  /\ preds' = ps /\ epoch' = rs.epoch /\ confirmed' = rs.confirmed
                  /\ blocked' = (blocked /\ ps # <<>>) /\ timer' = (ps # <<>>)
                  /\ Paint(scr, m, ps, rs.confirmed)
    /\ UNCHANGED <<run, wanted, lost, mode, state, turns, prog>>

\* onModelSeed, onSeed, onResize and onHold.
Given ==
    /\ ch # <<>> /\ ch[1].op = "model" /\ Take(1)
    /\ model' = IF model = NoModel /\ state # "held" THEN [ch[1].scr EXCEPT !.mid = FALSE] ELSE model
    /\ UNCHANGED <<local, slot, shown, preds, painted, epoch, confirmed, blocked, run, timer, fed, wanted, lost,
                   mode, state, turns, prog>>

Seed ==
    /\ ch # <<>> /\ ch[1].op = "seed" /\ Take(1) /\ Reset /\ state' = "live" /\ painted' = {}
    /\ local' = [ch[1].scr EXCEPT !.mid = FALSE] /\ shown' = local'
    /\ model' = IF model = NoModel THEN model ELSE [ch[1].scr EXCEPT !.mid = FALSE]
    /\ UNCHANGED <<slot, confirmed, run, fed, wanted, lost, mode, turns, prog>>

\* A reshape leaves the painted cells to the reseed that follows it.
Resize ==
    /\ ch # <<>> /\ ch[1].op = "resize" /\ Take(1) /\ Reset /\ painted' = {}
    /\ local' = IF painted = {} THEN local ELSE [local EXCEPT !.cur = slot]
    /\ model' = NoModel /\ state' = IF state = "live" THEN "torn" ELSE state
    /\ UNCHANGED <<slot, shown, confirmed, run, fed, wanted, lost, mode, turns, prog>>

Hold ==
    /\ ch # <<>> /\ ch[1].op = "hold" /\ Take(1) /\ state' = "held"
    /\ IF state = "held"
       THEN UNCHANGED <<local, slot, model, preds, painted, epoch, blocked, timer, run>>
       ELSE Reset /\ Drops /\ model' = NoModel
    /\ UNCHANGED <<shown, confirmed, fed, wanted, lost, mode, turns, prog>>

\* drawsModel: with output since the last key, a model that already shows the
\* guesses is no evidence against them.
DrawsModel == model # NoModel /\ preds # <<>>
    /\ model.cur = Base /\ \A i \in Judged(Len(preds)) : Matches(model, i)

Expire ==
    /\ timer /\ timer' = FALSE /\ preds' = <<>> /\ Drops
    /\ IF preds = <<>> THEN UNCHANGED <<epoch, blocked>>
       ELSE blocked' = FALSE /\ epoch' = IF fed /\ DrawsModel THEN epoch ELSE epoch + 1
    /\ UNCHANGED <<ch, shown, model, confirmed, fed, wanted, lost, mode, state, turns, prog>>

Next ==
    \/ \E k \in Letters \union {Secret, BS, Enter} : Type(k)
    \/ Program \/ SeedModel \/ Key \/ Given \/ Seed \/ Resize \/ Hold \/ Expire
    \/ \E half \in BOOLEAN : Draw(half)
    \/ \E op \in {"seed", "resize", "hold"} : Turn(op)
    \/ \E to \in {"on", "paused", "unwanted"} : Mode(to)
    \/ \E n \in 1..Cap, gives \in BOOLEAN : Out(n, gives)
Spec == Init /\ [][Next]_pvars

----------------------------------------------------------------------------
(* Under the guesses the pane is the remote's: unpainting gives back, cell *)
(* for cell and cursor, what the output written makes; nothing is painted  *)
(* inside a sequence, without a timer that takes it back, or over a pane   *)
(* that is held.                                                           *)
Underneath ==
    /\ state = "live" => Unpainted.row = shown.row /\ Unpainted.cur = shown.cur
    /\ painted # {} => ~shown.mid /\ timer /\ model # NoModel /\ state # "held"

(* A key typed at a silent prompt is never painted, unless the predictor   *)
(* missed the key that ended the line before it.                           *)
SilentHidden ==
    painted # {} /\ ~missed => \A i \in Confirmed(preds, confirmed) : ~Silent(preds[i].line)
GuessesHonest == Underneath /\ SilentHidden
================================================================================
