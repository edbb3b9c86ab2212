------------------------------ MODULE PaneInput ------------------------------
(***************************************************************************)
(* Typing on its way to a remote pane (pumpInput in daemon.go, paste.go).  *)
(* The renderer cuts what is typed into frames wherever its read ended;    *)
(* the pump carries a trailing escape over to the next frame, and looks    *)
(* for ctrl+v on a pane that runs an agent: the byte is swallowed, the     *)
(* clipboard image is uploaded beside the typing, and its path is typed    *)
(* in its place.  Until then plain text goes through and everything from   *)
(* the first byte that could submit the prompt on is held.                 *)
(*                                                                         *)
(* A typed byte is [n, c]: its place and its class, "t" plain text, "n" a  *)
(* control byte that submits or moves, "v" ctrl+v, "E" an escape, and the  *)
(* rest of an escape sequence in one piece: "B" and "D" of the markers     *)
(* that begin and end a bracketed paste, "A" of any other.  A path is      *)
(* [n |-> the place of its ctrl+v, c |-> "path"].  MaxKeys keys are        *)
(* pressed.                                                                *)
(***************************************************************************)
EXTENDS Naturals, Sequences, FiniteSets, SequencesExt

CONSTANTS MaxKeys, Keys,  \* what one key press sends
          ChainedClose     \* the renderer's connection may close with a ctrl+v held

VARIABLES
    typed,   \* everything typed
    pty,     \* typed, not yet read by the renderer
    conn,    \* frames on the renderer's connection
    carry,   \* the incomplete escape the pump carries
    pump,    \* what one delivery may change: [h (the pasteHandler), up (the
             \* ctrl+v being uploaded, or 0), sent (to the pane), eaten (the
             \* ctrl+v bytes swallowed)]
    open     \* "open", "closing" (the pump waits for the upload), "closed"

ivars == <<typed, pty, conn, carry, pump, open>>

Idle == [pumping |-> FALSE, held |-> <<>>, all |-> FALSE, inPaste |-> FALSE, matched |-> FALSE]

\* What is typed: any keys, one after the other.
Bytes(keys) == LET cs == FlattenSeq(keys) IN [i \in DOMAIN cs |-> [n |-> i, c |-> cs[i]]]

Init ==
    /\ \E n \in 1..MaxKeys : \E keys \in [1..n -> Keys] : typed = Bytes(keys)
    /\ pty = typed /\ conn = <<>> /\ carry = <<>>
    /\ pump = [h |-> Idle, up |-> 0, sent |-> <<>>, eaten |-> {}] /\ open = "open"

----------------------------------------------------------------------------
\* splitIncompleteEscape: how much is complete; the rest is carried.
Complete(p) == IF Last(p).c = "E" THEN Len(p) - 1 ELSE Len(p)

\* splitPasteDrops: ctrl+v outside a bracketed paste is dropped; the scan for
\* the markers goes on from one payload to the next.
ScanOne(s, b) ==
    LET ends == s.matched /\ b.c = (IF s.inPaste THEN "D" ELSE "B")
        inside == IF ends THEN ~ s.inPaste ELSE s.inPaste
        drop == b.c = "v" /\ ~ inside IN
    [inPaste |-> inside, matched |-> b.c = "E",
     kept |-> IF drop THEN s.kept ELSE Append(s.kept, b),
     drops |-> IF drop THEN Append(s.drops, b.n) ELSE s.drops,
     first |-> IF drop /\ s.drops = <<>> THEN Len(s.kept) ELSE s.first]
Scan(h, p) ==
    FoldLeft(ScanOne, [inPaste |-> h.inPaste, matched |-> h.matched, kept |-> <<>>,
                       drops |-> <<>>, first |-> 0], p)

\* splitFree: plain text may pass while nothing is held.
Plain(b) == b.c \notin {"n", "v", "E"}
Free(h, p) == IF h.all \/ h.held # <<>> THEN 0
              ELSE Max({n \in 0..Len(p) : \A i \in 1..n : Plain(p[i])})

\* hold: one entry for each frame.
Held(h, p) == IF p = <<>> THEN h ELSE [h EXCEPT !.held = Append(@, p)]

\* A payload while a paste is in flight; st is pump.
During(st, p) ==
    LET n == Free(st.h, p) IN
    [st EXCEPT !.h = Held(@, SubSeq(p, n + 1, Len(p))), !.sent = @ \o SubSeq(p, 1, n)]

\* A payload that starts one: what was typed before the gesture is not held.
Starts(st, p, s) ==
    LET h == [st.h EXCEPT !.pumping = TRUE, !.inPaste = s.inPaste, !.matched = s.matched,
                          !.all = s.inPaste \/ s.matched, !.held = <<>>]
        from == [st EXCEPT !.h = h, !.up = s.drops[1], !.eaten = @ \union ToSet(s.drops),
                           !.sent = @ \o SubSeq(s.kept, 1, s.first)] IN
    During(from, SubSeq(s.kept, s.first + 1, Len(s.kept)))

\* What a gesture may meet: the pane's command, read from the local pane, is an
\* agent or not (or cannot be told); the clipboard offers an image or not.  And
\* what an upload may come to.
Gates == BOOLEAN
Offers == BOOLEAN
Uploads == BOOLEAN

\* deliver and handle: image says that both are so.
Deliver(st, p, image) ==
    LET s == Scan(st.h, p) IN
    IF p = <<>> THEN st
    ELSE IF st.h.pumping THEN During(st, p)
    ELSE IF image /\ s.drops # <<>> THEN Starts(st, p, s)
    ELSE [st EXCEPT !.h.inPaste = s.inPaste, !.h.matched = s.matched, !.sent = @ \o p]

\* replay: a held frame that starts another paste holds the ones behind it.
ReplayPast(st, p, image) == Deliver([st EXCEPT !.h.pumping = FALSE], p, image)
ReplayOne(st, p, image) ==
    IF st.h.pumping THEN [st EXCEPT !.h.held = Append(@, p)] ELSE Deliver(st, p, image)
Replay(st, held, image) == FoldLeft(LAMBDA t, p : ReplayOne(t, p, image), st, held)

\* finish: the path, if there is one, goes out ahead of what was held.
Finish(st, path) ==
    [st EXCEPT !.h.pumping = FALSE, !.h.held = <<>>, !.up = 0,
               !.sent = IF path THEN Append(@, [n |-> st.up, c |-> "path"]) ELSE @]

----------------------------------------------------------------------------
\* The renderer reads its pty and writes a frame.
Frame(n) ==
    /\ pty # <<>> /\ n <= Len(pty)
    /\ conn' = Append(conn, SubSeq(pty, 1, n)) /\ pty' = SubSeq(pty, n + 1, Len(pty))
    /\ UNCHANGED <<typed, carry, pump, open>>

\* pumpInput reads a frame.
Read(image) ==
    /\ open = "open" /\ conn # <<>> /\ conn' = Tail(conn)
    /\ LET p == carry \o Head(conn) IN
       /\ carry' = SubSeq(p, Complete(p) + 1, Len(p))
       /\ pump' = Deliver(pump, SubSeq(p, 1, Complete(p)), image)
    /\ UNCHANGED <<typed, pty, open>>

\* escCarryGrace is over.
Grace(image) ==
    /\ open = "open" /\ carry # <<>> /\ carry' = <<>> /\ pump' = Deliver(pump, carry, image)
    /\ UNCHANGED <<typed, pty, conn, open>>

\* The upload ends, with a path or without.
Result(path, image) ==
    /\ pump.up # 0 /\ open # "closed"
    /\ pump' = Replay(Finish(pump, path), pump.h.held, image)
    /\ open' = IF open = "closing" THEN "closed" ELSE open
    /\ UNCHANGED <<typed, pty, conn, carry>>

\* The connection closes: the carry goes out, and an upload is waited for once.
Close(image) ==
    /\ open = "open" /\ pty = <<>> /\ conn = <<>>
    /\ ChainedClose \/ \A p \in ToSet(pump.h.held) : \A i \in DOMAIN p : p[i].c # "v"
    /\ carry' = <<>> /\ pump' = Deliver(pump, carry, image)
    /\ open' = IF pump'.h.pumping THEN "closing" ELSE "closed"
    /\ UNCHANGED <<typed, pty, conn>>

Next ==
    \/ \E n \in 1..Len(pty) : Frame(n)
    \/ \E image \in {g /\ o : g \in Gates, o \in Offers} :
          Read(image) \/ Grace(image) \/ Close(image) \/ (\E path \in Uploads : Result(path, image))

Spec == Init /\ [][Next]_ivars

----------------------------------------------------------------------------
Typing(q) == SelectSeq(q, LAMBDA b : b.c # "path")
Inside(n) ==
    LET marks == {i \in 2..(n - 1) : typed[i - 1].c = "E" /\ typed[i].c \in {"B", "D"}} IN
    marks # {} /\ typed[Max(marks)].c = "B"

\* However the typing was cut into frames and however long the uploads took:
\* every byte reaches the pane once and in order, or is still on its way,
\* ctrl+v alone excepted, and never a ctrl+v that is pasted text; and a path
\* stands behind everything typed before its ctrl+v and ahead of the first
\* byte typed after it that could submit the prompt.
InputKept ==
    /\ Typing(pump.sent) \o (IF open = "closed" THEN <<>> ELSE FlattenSeq(pump.h.held))
           \o carry \o FlattenSeq(conn) \o pty
       = SelectSeq(typed, LAMBDA b : b.n \notin pump.eaten)
    /\ \A n \in pump.eaten : typed[n].c = "v" /\ ~ Inside(n)
    /\ \A i \in DOMAIN pump.sent : pump.sent[i].c = "path" =>
           /\ \A j \in 1..(i - 1) : pump.sent[j].n > pump.sent[i].n => Plain(pump.sent[j])
           /\ \A j \in (i + 1)..Len(pump.sent) : pump.sent[j].n > pump.sent[i].n
=============================================================================
