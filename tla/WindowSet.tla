----------------------------- MODULE WindowSet -----------------------------
(***************************************************************************)
(* The set of mirrored windows (windows.go, reconcilewindows.go,           *)
(* deathnudge.go, addWindow and closeWindow of daemon.go).  Remote windows *)
(* come, go and change their selector flag; the main loop learns of it     *)
(* from queued notifications, confirms each by a list-windows read and     *)
(* builds or closes mirrors.  Locally a window may be killed and a         *)
(* renderer may die, which a sweep finds in one listing and repairs, at    *)
(* most Strikes times in a row for one mirror.                             *)
(*                                                                         *)
(* Times appear as the ends of the sweep's floor (1 s) and of a rebuild's  *)
(* recovery (5 s); the death nudge (250 ms) ends before a recovery does.   *)
(***************************************************************************)
EXTENDS Naturals, Sequences, FiniteSets

CONSTANTS Wins, None, Strikes, MaxMoves, MaxKills, MaxDeaths

VARIABLES
    live,     \* remote windows of the session
    flag,     \* remote windows the selector matches
    notes,    \* %window-add and %window-close lines not dispatched yet
    due,      \* a selector report asks for a reconcile
    reg,      \* remote window -> local window, or None
    tmux,     \* local window -> "ok", "dying" (not in the listing yet), "dead", "gone"
    nudge,    \* the death nudge: [armed, fired]
    floored,  \* a sweep ran less than its floor ago
    young,    \* mirrors rebuilt less than a recovery ago
    strikes,  \* deadStrikes
    row,      \* rebuilds of a mirror since it last outlived its recovery
    pc,       \* the main loop: [at, job, win, listed, dead]
    moved, kills, deaths

wvars == <<live, flag, notes, due, reg, tmux, nudge, floored, young, strikes, row, pc, moved, kills, deaths>>

Rest == [at |-> "rest", job |-> "none", win |-> None, listed |-> {}, dead |-> {}]
Mirrored == {w \in Wins : reg[w] # None}
NextWin == Cardinality(DOMAIN tmux) + 1

Init ==
    /\ \E w \in Wins : live = {w} /\ reg = [v \in Wins |-> IF v = w THEN 1 ELSE None]
    /\ flag = Wins /\ notes = <<>> /\ due = FALSE /\ tmux = <<"ok">>
    /\ nudge = [armed |-> FALSE, fired |-> FALSE] /\ floored = FALSE /\ young = {}
    /\ strikes = [w \in Wins |-> 0] /\ row = strikes
    /\ pc = Rest /\ moved = 0 /\ kills = 0 /\ deaths = 0

----------------------------------------------------------------------------
\* The remote: a window opens, closes, is moved in (its old session's unlink is
\* reported as a close), or starts or stops matching.
Remote(l, f, n, d) ==
    /\ moved < MaxMoves /\ moved' = moved + 1
    /\ live' = l /\ flag' = f /\ notes' = notes \o n /\ due' = (due \/ d)
    /\ UNCHANGED <<reg, tmux, nudge, floored, young, strikes, row, pc, kills, deaths>>

Open(w) == w \notin live /\ Remote(live \union {w}, flag, <<<<"add", w>>>>, FALSE)
MoveIn(w) == w \notin live /\ Remote(live \union {w}, flag, <<<<"add", w>>, <<"close", w>>>>, FALSE)
Close(w) == w \in live /\ live # {w} /\ Remote(live \ {w}, flag, <<<<"close", w>>>>, FALSE)
Match(w) ==
    /\ w \in live /\ live \intersect flag # {w}
    /\ Remote(live, IF w \in flag THEN flag \ {w} ELSE flag \union {w}, <<>>, TRUE)

\* deathNudge.wake: an armed timer is not pushed out.
Wake == nudge' = [nudge EXCEPT !.armed = TRUE]

\* A renderer dies: its connection closes first, tmux marks the pane a little later.
Dies(w) ==
    /\ deaths < MaxDeaths /\ deaths' = deaths + 1
    /\ reg[w] # None /\ tmux[reg[w]] = "ok"
    /\ tmux' = [tmux EXCEPT ![reg[w]] = "dying"] /\ Wake
    /\ UNCHANGED <<live, flag, notes, due, reg, floored, young, strikes, row, pc, moved, kills>>

Lands(l) ==
    /\ l \in DOMAIN tmux /\ tmux[l] = "dying" /\ tmux' = [tmux EXCEPT ![l] = "dead"]
    /\ UNCHANGED <<live, flag, notes, due, reg, nudge, floored, young, strikes, row, pc, moved, kills, deaths>>

LocalKill(w) ==
    /\ kills < MaxKills /\ kills' = kills + 1
    /\ reg[w] # None /\ tmux' = [tmux EXCEPT ![reg[w]] = "gone"] /\ Wake
    /\ UNCHANGED <<live, flag, notes, due, reg, floored, young, strikes, row, pc, moved, deaths>>

\* The clocks.
NudgeFires ==
    /\ nudge.armed /\ ~nudge.fired /\ nudge' = [nudge EXCEPT !.fired = TRUE]
    /\ UNCHANGED <<live, flag, notes, due, reg, tmux, floored, young, strikes, row, pc, moved, kills, deaths>>

FloorEnds ==
    /\ floored /\ floored' = FALSE
    /\ UNCHANGED <<live, flag, notes, due, reg, tmux, nudge, young, strikes, row, pc, moved, kills, deaths>>

RecoveryEnds(w) ==
    /\ w \in young /\ ~nudge.armed /\ (reg[w] # None => tmux[reg[w]] # "dying")
    /\ young' = young \ {w}
    /\ UNCHANGED <<live, flag, notes, due, reg, tmux, nudge, floored, strikes, row, pc, moved, kills, deaths>>

----------------------------------------------------------------------------
\* dispatch: a notification is only a reason to list the windows again.
Dispatch ==
    /\ pc.at = "rest" /\ notes # <<>>
    /\ LET job == notes[1][1] w == notes[1][2] IN
       pc' = IF (job = "add") = (reg[w] = None) THEN [Rest EXCEPT !.at = "list", !.job = job, !.win = w] ELSE Rest
    /\ notes' = Tail(notes)
    /\ UNCHANGED <<live, flag, due, reg, tmux, nudge, floored, young, strikes, row, moved, kills, deaths>>

Due ==
    /\ pc.at = "rest" /\ due /\ due' = FALSE
    /\ pc' = [Rest EXCEPT !.at = "list", !.job = "all"]
    /\ UNCHANGED <<live, flag, notes, reg, tmux, nudge, floored, young, strikes, row, moved, kills, deaths>>

\* list-windows: the ids and flags, as they are now.
List ==
    /\ pc.at = "list" /\ pc' = [pc EXCEPT !.at = "act", !.listed = [ids |-> live, match |-> live \intersect flag]]
    /\ UNCHANGED <<live, flag, notes, due, reg, tmux, nudge, floored, young, strikes, row, moved, kills, deaths>>

\* closeWindow: the registry entry and the local window.
Without(S) == [w \in Wins |-> IF w \in S THEN None ELSE reg[w]]
Killed(S) == [l \in DOMAIN tmux |-> IF \E w \in S : reg[w] = l THEN "gone" ELSE tmux[l]]

\* closeWindowIfGone closes only what the listing agrees has left.
ClosesTrusting(listed) == {pc.win}
ClosesOne(listed) == {pc.win} \ listed.match
\* reconcileWindows closes what is not listed or stopped matching.
ClosesAll(listed) == Mirrored \ listed.match

ActClose ==
    /\ pc.at = "act"
    /\ LET S == IF pc.job = "close" THEN ClosesOne(pc.listed)
                ELSE IF pc.job = "all" THEN ClosesAll(pc.listed) ELSE {} IN
         /\ reg' = Without(S) /\ tmux' = Killed(S)
         /\ IF \E w \in S : reg[w] # None THEN Wake ELSE UNCHANGED nudge
    /\ pc' = [pc EXCEPT !.at = "build"]
    /\ UNCHANGED <<live, flag, notes, due, floored, young, strikes, row, moved, kills, deaths>>

\* addWindow and mirrorNewWindow: a local window is made and set up; a window that has
\* left meanwhile fails its layout read and its half-made mirror is dropped.
ToBuild ==
    {w \in pc.listed.match : reg[w] = None /\ (pc.job = "all" \/ (pc.job = "add" /\ w = pc.win))}

Build(w) ==
    /\ pc.at = "build" /\ w \in ToBuild
    /\ tmux' = Append(tmux, IF w \in live THEN "ok" ELSE "gone")
    /\ reg' = IF w \in live THEN [reg EXCEPT ![w] = NextWin] ELSE reg
    /\ pc' = [pc EXCEPT !.listed.match = @ \ {w}]
    /\ UNCHANGED <<live, flag, notes, due, nudge, floored, young, strikes, row, moved, kills, deaths>>

Built ==
    /\ pc.at = "build" /\ ToBuild = {}
    /\ pc' = IF pc.dead = {} THEN Rest ELSE [Rest EXCEPT !.at = "heal", !.dead = pc.dead]
    /\ UNCHANGED <<live, flag, notes, due, reg, tmux, nudge, floored, young, strikes, row, moved, kills, deaths>>

----------------------------------------------------------------------------
\* The nudge's arm of the loop: the next sweep is not floored.
NudgeTaken ==
    /\ pc.at = "rest" /\ nudge.fired
    /\ nudge' = [armed |-> FALSE, fired |-> FALSE] /\ floored' = FALSE
    /\ UNCHANGED <<live, flag, notes, due, reg, tmux, young, strikes, row, pc, moved, kills, deaths>>

\* sweep: one listing answers for lost windows, retired and rebuilt first, and for dead
\* renderers.  A mirror found healthy gets its strikes back once its last rebuild has aged.
ReturnedAtOnce(healthy) == healthy
Returned(healthy) == healthy \ young

Lost == {w \in Mirrored : tmux[reg[w]] = "gone"}
Dead == {w \in Mirrored : tmux[reg[w]] = "dead"}

\* A sweep that finds nothing to do is left out: it would only start its floor again.
Sweep ==
    /\ pc.at = "rest" /\ ~floored
    /\ \/ Lost # {} \/ \E w \in Dead : strikes[w] < Strikes
       \/ \E w \in Returned(Mirrored \ Dead) : strikes[w] > 0
    /\ floored' = TRUE
    /\ reg' = Without(Lost)
    /\ strikes' = [w \in Wins |-> IF w \in Returned(Mirrored \ Dead) THEN 0 ELSE strikes[w]]
    /\ row' = [w \in Wins |-> IF w \in (Mirrored \ Dead) \ young THEN 0 ELSE row[w]]
    /\ pc' = [Rest EXCEPT !.at = IF Lost # {} THEN "list" ELSE IF Dead # {} THEN "heal" ELSE "rest",
                          !.job = "all", !.dead = Dead]
    /\ UNCHANGED <<live, flag, notes, due, tmux, nudge, young, moved, kills, deaths>>

\* healDeadRenderers: resetWindow keeps the local window; the connections it closes wake
\* the nudge, and the rebuild's time is stamped when it has finished.
Heal(w) ==
    /\ pc.at = "heal" /\ w \in pc.dead
    /\ pc' = IF pc.dead = {w} THEN Rest ELSE [pc EXCEPT !.dead = @ \ {w}]
    /\ IF reg[w] # None /\ strikes[w] < Strikes
       THEN /\ strikes' = [strikes EXCEPT ![w] = @ + 1] /\ row' = [row EXCEPT ![w] = @ + 1]
            /\ tmux' = IF tmux[reg[w]] = "gone" \/ w \notin live THEN tmux ELSE [tmux EXCEPT ![reg[w]] = "ok"]
            /\ young' = young \union {w} /\ Wake
       ELSE UNCHANGED <<strikes, row, tmux, young, nudge>>
    /\ UNCHANGED <<live, flag, notes, due, reg, floored, moved, kills, deaths>>

Loop == Dispatch \/ Due \/ List \/ ActClose \/ (\E w \in Wins : Build(w) \/ Heal(w)) \/ Built \/ NudgeTaken \/ Sweep
Clocks == NudgeFires \/ FloorEnds \/ (\E w \in Wins : RecoveryEnds(w)) \/ (\E l \in DOMAIN tmux : Lands(l))
Happens == \E w \in Wins : Open(w) \/ MoveIn(w) \/ Close(w) \/ Match(w) \/ Dies(w) \/ LocalKill(w)

Next == Loop \/ Clocks \/ Happens
Spec == Init /\ [][Next]_wvars
\* The loop runs a pass per line, wake or tick; timers fire.
Fairness ==
    /\ WF_wvars(Loop) /\ WF_wvars(NudgeFires) /\ WF_wvars(FloorEnds)
    /\ \A w \in Wins : WF_wvars(RecoveryEnds(w))
    /\ WF_wvars(\E l \in DOMAIN tmux : Lands(l))
FairSpec == Spec /\ Fairness

----------------------------------------------------------------------------
(* Every window of the session the selector matches ends up mirrored, no other does, and
   each mirror has its local window back, with its renderers unless its rebuilds ran out. *)
AllMirrored ==
    /\ Mirrored = live \intersect flag
    /\ \A w \in Mirrored : tmux[reg[w]] = "ok" \/ (tmux[reg[w]] = "dead" /\ strikes[w] = Strikes)

(* A renderer that keeps dying is rebuilt Strikes times, never again by the echo of its own
   rebuilds: only a mirror that outlived its recovery starts over (deadRendererRecovery). *)
StrikesHold == \A w \in Wins : row[w] <= Strikes

\* Why: the sweep forgives a mirror's strikes exactly when it has outlived its recovery.
Forgiven == row = strikes /\ strikes \in [Wins -> 0..Strikes]
=============================================================================
