------------------------------ MODULE PaneFocus ------------------------------
(***************************************************************************)
(* Keybinds and pane focus of one mirrored window (ctl.go, focus.go).      *)
(* Every focus move of the local window runs a backgrounded hook, whose    *)
(* request reaches the daemon whenever it does; the daemon selects the     *)
(* pane on the remote.  Every focus move of the remote window is reported  *)
(* on the control stream, and the main loop selects the pane locally.  Two *)
(* beliefs and a queue of commanded panes keep the two from chasing each   *)
(* other.                                                                  *)
(*                                                                         *)
(* A keybind that reshapes the remote window leaves an intent under the    *)
(* lock that sends its command: tmux reports nothing of a client's own     *)
(* command, so only the intent tells the main loop to read the window.     *)
(*                                                                         *)
(* A window is [act, order, shape]: its active pane, and counters standing *)
(* for the order of its panes and its layout string.  Bounds: MaxFocus     *)
(* moves of a user's focus, MaxOuter moves made at the remote, MaxKeys     *)
(* keybinds, Cap commanded panes (8 in the code).                          *)
(***************************************************************************)
EXTENDS Naturals, Sequences, FiniteSets, SequencesExt

CONSTANTS Panes, NoPane, Cap, MaxFocus, MaxOuter, MaxKeys,
          Stamped    \* hooks take their numbers in the order of the moves

VARIABLES
    loc,     \* the local window
    rem,     \* the remote window
    hooks,   \* focus requests on their way: [pane, seq]
    clock,   \* what the next request is stamped with
    foc,     \* focusState
    wish,    \* wantLayout holds the window
    out,     \* commands on their way to the remote
    lines,   \* the control stream: reports, and the replies of reads
    pc,      \* the main loop: [at, pane]
    acts     \* moves left: [focus, outer, keys, last]

fvars == <<loc, rem, hooks, clock, foc, wish, out, lines, pc, acts>>

Rest == [at |-> "rest", pane |-> NoPane]
Win0(p) == [act |-> p, order |-> 0, shape |-> 0]
FirstPane == CHOOSE p \in Panes : TRUE

Init ==
    /\ loc = Win0(FirstPane) /\ rem = loc
    /\ hooks = {} /\ clock = 1
    /\ foc = [loc |-> FirstPane, rem |-> FirstPane, sent |-> <<>>, seq |-> 0]
    /\ wish = FALSE /\ out = <<>> /\ lines = <<>> /\ pc = Rest
    /\ acts = [focus |-> MaxFocus, outer |-> MaxOuter, keys |-> MaxKeys, last |-> 1]

Quiet == hooks = {} /\ out = <<>> /\ lines = <<>> /\ pc = Rest /\ ~ wish

----------------------------------------------------------------------------
\* select-pane in the local window: the hook runs unless the pane was active.
Select(p) ==
    /\ loc' = [loc EXCEPT !.act = p]
    /\ hooks' = IF p = loc.act THEN hooks ELSE hooks \union {[pane |-> p, seq |-> clock]}
    /\ clock' = IF p = loc.act THEN clock ELSE clock + 1

\* A user moves the focus: while others are at it, or alone and for the last time.
Moves(who) ==
    \/ acts[who] > 0 /\ acts' = [acts EXCEPT ![who] = @ - 1]
    \/ acts.last > 0 /\ Quiet /\ acts' = [a \in DOMAIN acts |-> 0]

UserFocus(p) ==
    /\ Moves("focus") /\ p # loc.act /\ Select(p)
    /\ UNCHANGED <<rem, foc, wish, out, lines, pc>>

\* The remote's own user moves its focus.
OuterFocus(p) ==
    /\ Moves("outer") /\ p # rem.act /\ rem' = [rem EXCEPT !.act = p] /\ lines' = Append(lines, <<"report", p>>)
    /\ UNCHANGED <<loc, hooks, clock, foc, wish, out, pc>>

\* The remote runs the next command.  A pane that becomes active is reported;
\* a layout a client's own command made is not.  Whoever meets the reply of a
\* command that is no read drops it, so those are left out.
Made(c, r) ==
    \/ c[1] = "select" /\ r = [rem EXCEPT !.act = c[2]]
    \/ c[1] = "moves" /\ \E p \in Panes : r = [act |-> p, order |-> rem.order + 1, shape |-> rem.shape + 1]
    \/ c[1] = "keeps" /\ r = [rem EXCEPT !.shape = @ + 1]
RemoteRuns ==
    /\ out # <<>> /\ out' = Tail(out)
    /\ \/ /\ Head(out)[1] = "read" /\ UNCHANGED rem
          /\ lines' = Append(lines, <<"layout", rem>>)
       \/ \E p \in Panes, o, s \in 0..MaxKeys :
             /\ rem' = [act |-> p, order |-> o, shape |-> s] /\ Made(Head(out), rem')
             /\ lines' = IF p = rem.act THEN lines ELSE Append(lines, <<"report", p>>)
    /\ UNCHANGED <<loc, hooks, clock, foc, wish, pc, acts>>

----------------------------------------------------------------------------
\* planFocusLocked: an older request is dropped, one the remote is already at
\* is only recorded, the rest is commanded.
Planned(f, p, s) ==
    IF s <= f.seq THEN f
    ELSE [loc |-> p, rem |-> p, seq |-> s,
          sent |-> IF f.rem = p THEN f.sent
                   ELSE Append(IF Len(f.sent) >= Cap THEN Tail(f.sent) ELSE f.sent, p)]
Commands(f, p, s) == s > f.seq /\ f.rem # p

\* The ctl client stamps the request when it runs.
Stamp(h) == IF Stamped THEN h.seq ELSE clock

\* A focus request arrives: submit's first branch.
Hook(h) ==
    LET s == Stamp(h) IN
    /\ h \in hooks /\ hooks' = hooks \ {h} /\ clock' = IF Stamped THEN clock ELSE clock + 1
    /\ foc' = Planned(foc, h.pane, s)
    /\ out' = IF Commands(foc, h.pane, s) THEN Append(out, <<"select", h.pane>>) ELSE out
    /\ UNCHANGED <<loc, rem, wish, lines, pc, acts>>

\* The verbs: those that may move the remote's active pane, and the others.
Kinds == {"moves", "keeps"}

\* The intent a keybind leaves, and the belief it makes unknowable.
MovesAlone(kind) == kind = "moves"
Intends(kind) == kind \in Kinds
Forgets(kind) == IF kind = "moves" THEN [foc EXCEPT !.rem = NoPane] ELSE foc

\* A keybind: submit records and sends in one critical section.
Key(kind) ==
    /\ acts.keys > 0 /\ acts' = [acts EXCEPT !.keys = @ - 1]
    /\ wish' = (wish \/ Intends(kind)) /\ foc' = Forgets(kind) /\ out' = Append(out, <<kind>>)
    /\ UNCHANGED <<loc, rem, hooks, clock, lines, pc>>

----------------------------------------------------------------------------
\* applyRemoteFocus: a report of a commanded pane settles it and those before
\* it; any other makes what was commanded moot, and local focus follows.
Unmatched(f, p) == [f EXCEPT !.rem = p, !.sent = <<>>]
Reported(f, p) ==
    LET at == SelectInSeq(f.sent, LAMBDA q : q = p) IN
    IF at > 0 THEN [f EXCEPT !.rem = p, !.sent = SubSeq(f.sent, at + 1, Len(f.sent))]
    ELSE [Unmatched(f, p) EXCEPT !.loc = p]
Follows(f, p) == p # f.loc /\ ~ \E i \in DOMAIN f.sent : f.sent[i] = p

\* One line of the stream at the top of a pass: a report, since no read is due.
Line ==
    /\ pc.at = "rest" /\ ~ wish /\ lines # <<>> /\ lines' = Tail(lines)
    /\ LET p == Head(lines)[2] IN
       /\ foc' = Reported(foc, p)
       /\ pc' = IF Follows(foc, p) THEN [at |-> "note", pane |-> p] ELSE pc
    /\ UNCHANGED <<loc, rem, hooks, clock, wish, out, acts>>

\* settle: the intent is taken before the window is read.
Take ==
    /\ pc.at = "rest" /\ wish /\ wish' = FALSE
    /\ pc' = [Rest EXCEPT !.at = "read"] /\ out' = Append(out, <<"read">>)
    /\ UNCHANGED <<loc, rem, hooks, clock, foc, lines, acts>>

\* The read's reply, found behind reports that stay queued for the pass's end.
\* Local focus follows only when the panes moved.
ReadReply ==
    LET at == SelectInSeq(lines, LAMBDA l : l[1] = "layout")
        win == lines[at][2] IN
    /\ pc.at = "read" /\ at > 0
    /\ lines' = RemoveAt(lines, at)
    /\ loc' = [loc EXCEPT !.order = win.order, !.shape = win.shape]
    /\ pc' = IF win.order # loc.order THEN [at |-> "note", pane |-> win.act] ELSE Rest
    /\ UNCHANGED <<rem, hooks, clock, foc, wish, out, acts>>

\* focusLocalPane: recorded, then selected.
Noted(p) == [foc EXCEPT !.loc = p, !.rem = p]
Note ==
    /\ pc.at = "note" /\ foc' = Noted(pc.pane) /\ pc' = [pc EXCEPT !.at = "select"]
    /\ UNCHANGED <<loc, rem, hooks, clock, wish, out, lines, acts>>
Focus ==
    /\ pc.at = "select" /\ Select(pc.pane) /\ pc' = Rest
    /\ UNCHANGED <<rem, foc, wish, out, lines, acts>>

Next ==
    \/ \E p \in Panes : UserFocus(p) \/ OuterFocus(p)
    \/ \E k \in Kinds : Key(k)
    \/ RemoteRuns \/ (\E h \in hooks : Hook(h)) \/ Line \/ Take \/ ReadReply \/ Note \/ Focus

Spec == Init /\ [][Next]_fvars

----------------------------------------------------------------------------
\* However the moves of the users, the keybinds, the hooks and the reports
\* interleaved, nothing lasting is left of it: once all is quiet no keybind's
\* effect stays unread, and the next focus move made on either side alone
\* brings both windows to the same pane.  (focus.go calls the queue of
\* commanded panes self-healing rather than exact.)
Heals == Quiet => /\ loc.order = rem.order /\ loc.shape = rem.shape
                  /\ acts.last = 0 => loc.act = rem.act

\* Once all is quiet, both windows have the same pane active.
FocusAgrees == Quiet => loc.act = rem.act

----------------------------------------------------------------------------
(* What the steps preserve, with the numbers in the order of the moves.     *)
(* Heals speaks of a next move; that it finds nothing lasting rests on what *)
(* is left at rest of the beliefs.  Lately: the newest hook is on its way   *)
(* or was the last one planned, and the believed local pane is the local    *)
(* window's, or will be by the step the main loop is at.  Believed: with no *)
(* report on its way the believed remote pane is the remote's, or commanded *)
(* to be.  Traced: was[k] is the pane that was active when line k went out, *)
(* and every commanded pane still counted on was active at the line at[i],  *)
(* no earlier than those commanded before it, or is at[i] - Len(lines)th of *)
(* the commands to run: so the report of a pane never settles one that      *)
(* was commanded after it and at rest all of them are the active pane.      *)
Windows == [act : Panes, order : Nat, shape : Nat]
Sent == {<<"select", p>> : p \in Panes} \union {<<"moves">>, <<"keeps">>, <<"read">>}
Told == {<<"report", p>> : p \in Panes} \union {<<"layout", w>> : w \in Windows}

Typed ==
    /\ loc \in Windows /\ rem \in Windows
    /\ hooks \subseteq [pane : Panes, seq : Nat] /\ clock \in Nat /\ wish \in BOOLEAN
    /\ foc \in [loc : Panes, rem : Panes \union {NoPane}, sent : Seq(Panes), seq : Nat]
    /\ DOMAIN acts = {"focus", "outer", "keys", "last"} /\ \A a \in DOMAIN acts : acts[a] \in Nat
    /\ DOMAIN pc = {"at", "pane"} /\ pc.at \in {"rest", "read", "note", "select"}
    /\ pc.at \in {"note", "select"} => pc.pane \in Panes
    /\ pc.at = "rest" => pc = Rest
    /\ out \in Seq(Sent) /\ lines \in Seq(Told)

\* A keybind on its way is followed by the read of what it does, or will be;
\* the main loop waits for one read at most.
Asked(i) == out[i][1] = "read"
Answered(i) == lines[i][1] = "layout"
Reading ==
    /\ \A i \in DOMAIN out : out[i][1] \in Kinds => wish \/ \E j \in DOMAIN out : i < j /\ Asked(j)
    /\ pc.at # "read" => /\ \A i \in DOMAIN out : ~ Asked(i)
                         /\ \A i \in DOMAIN lines : ~ Answered(i)
    /\ \A i, j \in DOMAIN out : Asked(i) /\ Asked(j) => i = j
    /\ \A i, j \in DOMAIN lines : Answered(i) /\ Answered(j) => i = j
    /\ \A i \in DOMAIN out, j \in DOMAIN lines : ~ (Asked(i) /\ Answered(j))
    /\ \A j \in DOMAIN lines : Answered(j) =>
          wish \/ (lines[j][2].order = rem.order /\ lines[j][2].shape = rem.shape)
    /\ \/ (loc.order = rem.order /\ loc.shape = rem.shape)
       \/ wish
       \/ (\E i \in DOMAIN out : Asked(i))
       \/ \E j \in DOMAIN lines : Answered(j)

Lately ==
    /\ \A h \in hooks : h.seq < clock
    /\ clock >= 1 /\ foc.seq <= clock - 1
    /\ foc.seq < clock - 1 => [pane |-> loc.act, seq |-> clock - 1] \in hooks
    /\ \A h \in hooks : h.seq = clock - 1 => h.pane = loc.act
    /\ \/ foc.seq < clock - 1
       \/ foc.loc = loc.act
       \/ pc.at = "note"
       \/ pc.at = "select" /\ foc.loc = pc.pane

NoReport == \A i \in DOMAIN lines : lines[i][1] # "report"
Believed ==
    NoReport =>
        /\ \/ foc.rem \in {NoPane, rem.act}
           \/ \E i \in DOMAIN out : out[i] = <<"select", foc.rem>>
        /\ pc.at = "note" => pc.pane = rem.act

Was(was) ==
    /\ was \in [0..Len(lines) -> Panes] /\ was[Len(lines)] = rem.act
    /\ \A k \in 1..Len(lines) :
          IF lines[k][1] = "report" THEN /\ lines[k][2] = was[k]
                                         /\ was[k] # was[k - 1]
          ELSE lines[k][2].act = was[k] /\ was[k] = was[k - 1]
At(at, was) ==
    /\ at \in [1..Len(foc.sent) -> 0..(Len(lines) + Len(out))]
    /\ \A i, j \in 1..Len(foc.sent) : i <= j => at[i] <= at[j]
    /\ \A i \in 1..Len(foc.sent) :
          IF at[i] <= Len(lines) THEN foc.sent[i] = was[at[i]]
          ELSE out[at[i] - Len(lines)] = <<"select", foc.sent[i]>>
Traced ==
    \E was \in [0..Len(lines) -> Panes] : Was(was) /\
        \E at \in [1..Len(foc.sent) -> 0..(Len(lines) + Len(out))] : At(at, was)

\* Where the last move can have come to.
Still == ~ wish /\ hooks = {} /\ out = <<>>
LastMove ==
    \/ /\ hooks = {[pane |-> loc.act, seq |-> clock - 1]} /\ foc.seq < clock - 1
       /\ ~ wish /\ out = <<>> /\ lines = <<>> /\ pc = Rest
    \/ /\ hooks = {} /\ out = <<<<"select", loc.act>>>> /\ foc.loc = loc.act
       /\ ~ wish /\ lines = <<>> /\ pc = Rest
    \/ /\ Still /\ pc = Rest /\ rem.act = loc.act /\ foc.loc = loc.act
       /\ lines \in {<<>>, <<<<"report", loc.act>>>>}
    \/ /\ Still /\ pc = Rest /\ lines = <<<<"report", rem.act>>>>
       /\ \A i \in 1..Len(foc.sent) : foc.sent[i] # rem.act
    \/ Still /\ lines = <<>> /\ pc.at \in {"note", "select"} /\ pc.pane = rem.act
Ended == acts.last = 0 => (\A a \in DOMAIN acts : acts[a] = 0) /\ LastMove

IInv == Typed /\ Reading /\ Lately /\ Believed /\ Traced /\ Ended

=============================================================================
