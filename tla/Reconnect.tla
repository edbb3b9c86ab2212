---- MODULE Reconnect ----
(***************************************************************************)
(* The attach loop of runMirror (daemon/daemon.go) and what it calls:      *)
(* reattach and attemptCycle after a drop, park when the schedule runs     *)
(* out, replaceConn when a viewer's terminal changed (daemon/conn.go,      *)
(* park.go, replacer.go, backoff.go), and the transport that a stop signal *)
(* ends (cmd/daemon).                                                      *)
(*                                                                         *)
(* "pc" is the main loop's place.  Beside it run the ctl handlers that     *)
(* raise a replacement, the renderers' input pump that pokes a parked      *)
(* mirror, the watcher of the local client, the signal handler, and the    *)
(* remote, which may change at any time.  A schedule's elapsed-time bound  *)
(* is a choice to end it; a deadline is a choice to close the connection.  *)
(***************************************************************************)
EXTENDS Integers, FiniteSets

CONSTANTS
    Terms,       \* the terminals a viewer may look through
    Pressers,    \* ctl handlers
    NoTerm,
    Remotes,     \* what a remote may turn into, see "remote"
    Parks,       \* reattach is given a park
    RetryMax, WakeMax, RestoreMax   \* MaxAttempts of each schedule

ASSUME TermsAssumption == NoTerm \notin Terms /\ Terms # {}
ASSUME RemotesAssumption ==
    /\ "home" \in Remotes /\ Remotes \subseteq {"home", "other", "gone", "down"}
    /\ Parks \in BOOLEAN
ASSUME ScheduleAssumption ==
    /\ RetryMax \in Nat \ {0} /\ WakeMax \in 1..RetryMax /\ RestoreMax \in Nat \ {0}

\* At most two connections are open at once; a third id is always free.
Conns == 1..3

VARIABLES
    pc,
    conn,        \* per id: open (not closed by the daemon), up (the transport
                 \*   works), term it was dialled for, home (reached want's server)
    bound,       \* the connections bound to the router
    hold,        \* connHolder: the published connection, 0 for none
    cur,         \* the connection runConn runs on
    next,        \* the connection being verified, 0 for none
    term,        \* the local "term" of attemptCycle and replaceConn
    kind, attempt, refused, restoring,
    badge, dimmed, afterProbe, quiet, woken,
    ending,
    armed, poked,        \* parkWaker
    poker,               \* the input pump: "idle" or about to send
    viewer, desired, advertised,
    inFlight, signal,    \* viewReplacer and its channel
    press,               \* per ctl handler, where raise is and for which terminal
    remote,              \* "home", "other" (another server), "gone" (no session),
                         \*   "down" (the link fails or the far end hangs)
    shutdown, stopping,  \* cfg.Shutdown is closed; transport.stop has run
    \* history
    repaired,            \* the connection repair last succeeded on
    dark,                \* the mirror's windows are dimmed
    unheeded,            \* a key was dropped under the "press a key" badge
    spent,               \* dials since the mirror was last live or parked
    answer               \* what the last attempt ended on

loop == <<cur, next, term, kind, attempt, refused, restoring>>
marks == <<badge, dimmed, afterProbe, quiet, woken, dark, unheeded>>
waker == <<armed, poked, poker>>
view == <<viewer, desired, advertised>>
raising == <<inFlight, signal, press>>
outside == <<remote, shutdown, stopping>>
hist == <<repaired, spent, answer>>
vars == <<pc, conn, bound, hold, loop, marks, ending, waker, view, raising, outside, hist>>

Kinds == {"retry", "restore", "wake", "probe"}
MaxAttempts(k) ==
    CASE k = "retry" -> RetryMax [] k = "wake" -> WakeMax
      [] k = "restore" -> RestoreMax [] k = "probe" -> 1

Unused == [open |-> FALSE, up |-> FALSE, term |-> NoTerm, home |-> FALSE]
Live(c) == conn[c].open /\ conn[c].up
Closed(S) == [c \in Conns |-> IF c \in S THEN Unused ELSE conn[c]]
Go(l) == pc' = l

Init ==
    /\ pc = "serve" /\ hold = 1 /\ bound = {1} /\ cur = 1 /\ next = 0
    /\ \E t \in Terms : /\ viewer = t /\ desired = t /\ advertised = t /\ term = t
                        /\ conn = [c \in Conns |-> IF c # 1 THEN Unused ELSE
                              [open |-> TRUE, up |-> TRUE, term |-> t, home |-> TRUE]]
    /\ kind = "retry" /\ attempt = 1 /\ refused = FALSE /\ restoring = FALSE
    /\ badge = "none" /\ dimmed = FALSE /\ afterProbe = FALSE /\ quiet = FALSE
    /\ woken = FALSE /\ dark = FALSE /\ ending = "none"
    /\ armed = FALSE /\ poked = FALSE /\ poker = "idle" /\ unheeded = FALSE
    /\ inFlight = FALSE /\ signal = FALSE
    /\ press = [p \in Pressers |-> [at |-> "idle", term |-> NoTerm]]
    /\ remote = "home" /\ shutdown = FALSE /\ stopping = FALSE
    /\ repaired = 1 /\ spent = 0 /\ answer = "home"

----------------------------------------------------------------------------
(* Dialling and the transport. *)

Free == CHOOSE c \in Conns : ~conn[c].open /\ c \notin {cur, hold, next}

\* Mutant of Started: a child started after the stop is left running.
StartedAnyway == TRUE

\* transport.start: a child started once stop has run is ended at once.
Started == ~stopping

\* What the dial was for is what the far end is told.
Dialled ==
    LET c == Free
    IN  /\ next' = c
        /\ conn' = [conn EXCEPT ![c] = [open |-> TRUE, up |-> Started, term |-> term,
                                        home |-> FALSE]]

\* close on the set S of connections.
CloseConns(S) == conn' = Closed(S) /\ bound' = bound \ S

\* connHolder.close
HoldClose == CloseConns({hold}) /\ hold' = 0

----------------------------------------------------------------------------
(* runConn, reduced to its endings. *)

ServeEnd ==
    /\ pc = "serve" /\ ending' = "teardown" /\ Go("teardown")
    /\ UNCHANGED <<conn, bound, hold, loop, marks, waker, view, raising, outside, hist>>

ServeDrop ==
    /\ pc = "serve" /\ ~Live(cur) /\ Go("drop.drain")
    /\ UNCHANGED <<conn, bound, hold, loop, marks, ending, waker, view, raising,
                   outside, hist>>

ServeReplace ==
    /\ pc = "serve" /\ signal /\ signal' = FALSE /\ Go("replace")
    /\ UNCHANGED <<conn, bound, hold, loop, marks, ending, waker, view, inFlight, press,
                   outside, hist>>

----------------------------------------------------------------------------
(* replaceConn. *)

ReplaceStart ==
    /\ pc = "replace"
    /\ IF shutdown THEN Go("done") /\ UNCHANGED term
                   ELSE Go("replace.dial") /\ term' = desired
    /\ UNCHANGED <<conn, bound, hold, cur, next, kind, attempt, refused, restoring, marks,
                   ending, waker, view, raising, outside, hist>>

ReplaceDial ==
    /\ pc = "replace.dial" /\ Dialled /\ Go("replace.identify")
    /\ UNCHANGED <<bound, hold, cur, term, kind, attempt, refused, restoring, marks,
                   ending, waker, view, raising, outside, hist>>

\* The dial, the identity read or the priming failed, or another server answered.
ReplaceAbandon ==
    /\ pc \in {"replace.dial", "replace.identify", "replace.prime"}
    /\ CloseConns({next}) /\ next' = 0 /\ Go("done")
    /\ UNCHANGED <<hold, cur, term, kind, attempt, refused, restoring, marks, ending,
                   waker, view, raising, outside, hist>>

ReplaceIdentify ==
    /\ pc = "replace.identify" /\ Live(next) /\ remote = "home"
    /\ conn' = [conn EXCEPT ![next].home = TRUE] /\ Go("replace.prime")
    /\ UNCHANGED <<bound, hold, loop, marks, ending, waker, view, raising, outside, hist>>

\* Mutant of ReplaceSwap: the old connection is not closed.
ReplaceSwapUnclosed ==
    /\ pc = "replace.prime" /\ Live(next) /\ Go("replace.bind")
    /\ UNCHANGED <<conn, bound, hold, loop, marks, ending, waker, view, raising, outside,
                   hist>>

\* Primed: the old connection is closed before the new one is bound.
ReplaceSwap ==
    /\ pc = "replace.prime" /\ Live(next) /\ Go("replace.bind")
    /\ HoldClose
    /\ UNCHANGED <<loop, marks, ending, waker, view, raising, outside, hist>>

ReplaceBind ==
    /\ pc = "replace.bind" /\ Go("replace.advertise")
    /\ bound' = bound \cup {next} /\ hold' = next
    /\ UNCHANGED <<conn, loop, marks, ending, waker, view, raising, outside, hist>>

\* Mutant of Carried: Desired is read again when the connection is published.
CarriedReread == desired

\* The terminal a newly published connection is recorded to carry.
Carried == term

ReplaceAdvertise ==
    /\ pc = "replace.advertise" /\ advertised' = Carried /\ Go("replace.repair")
    /\ UNCHANGED <<conn, bound, hold, loop, marks, ending, waker, viewer, desired, raising,
                   outside, hist>>

\* Mutant of ReplaceRepaired: the loop is not handed the new connection.
ReplaceRepairedUnadopted ==
    /\ pc = "replace.repair" /\ Go("done") /\ next' = 0 /\ repaired' = next
    /\ UNCHANGED <<conn, bound, hold, cur, term, kind, attempt, refused, restoring, marks,
                   ending, waker, view, raising, outside, spent, answer>>

\* repair kept the mirror; a connection that died under it is adopted all the same.
ReplaceRepaired ==
    /\ pc = "replace.repair" /\ Go("done")
    /\ cur' = next /\ next' = 0 /\ repaired' = next
    /\ UNCHANGED <<conn, bound, hold, term, kind, attempt, refused, restoring, marks,
                   ending, waker, view, raising, outside, spent, answer>>

\* mirrorGone; the attach loop calls done first.
ReplaceGone ==
    /\ pc = "replace.repair" /\ ending' = "teardown" /\ Go("teardown")
    /\ next' = 0 /\ inFlight' = FALSE
    /\ UNCHANGED <<conn, bound, hold, cur, term, kind, attempt, refused, restoring, marks,
                   waker, view, signal, press, outside, hist>>

\* viewReplacer.done
ReplaceDone ==
    /\ pc = "done" /\ inFlight' = FALSE /\ Go("serve")
    /\ UNCHANGED <<conn, bound, hold, loop, marks, ending, waker, view, signal, press,
                   outside, hist>>

Replace ==
    \/ ReplaceStart \/ ReplaceDial \/ ReplaceAbandon \/ ReplaceIdentify \/ ReplaceSwap
    \/ ReplaceBind \/ ReplaceAdvertise \/ ReplaceRepaired \/ ReplaceGone \/ ReplaceDone

----------------------------------------------------------------------------
(* viewReplacer.cancel, around reattach. *)

CancelDrain ==
    /\ pc \in {"drop.drain", "up.drain"} /\ signal' = FALSE
    /\ Go(IF pc = "drop.drain" THEN "drop.clear" ELSE "up.clear")
    /\ UNCHANGED <<conn, bound, hold, loop, marks, ending, waker, view, inFlight, press,
                   outside, hist>>

\* Mutant of CancelClear: the queued wake-up goes, the flag stays.
CancelClearKept ==
    /\ pc \in {"drop.clear", "up.clear"} /\ inFlight' = inFlight
    /\ Go(IF pc = "drop.clear" THEN "reattach" ELSE "undim")
    /\ UNCHANGED <<conn, bound, hold, loop, marks, ending, waker, view, signal, press,
                   outside, hist>>

CancelClear ==
    /\ pc \in {"drop.clear", "up.clear"} /\ inFlight' = FALSE
    /\ Go(IF pc = "drop.clear" THEN "reattach" ELSE "undim")
    /\ UNCHANGED <<conn, bound, hold, loop, marks, ending, waker, view, signal, press,
                   outside, hist>>

----------------------------------------------------------------------------
(* reattach and attemptCycle. *)

StartCycle(k) == kind' = k /\ attempt' = 1 /\ refused' = FALSE

Reattach ==
    /\ pc = "reattach" /\ HoldClose /\ badge' = "disconnected"
    /\ StartCycle("retry") /\ restoring' = FALSE /\ woken' = FALSE /\ Go("attempt")
    /\ UNCHANGED <<cur, next, term, dimmed, afterProbe, quiet, dark, unheeded, ending,
                   waker, view, raising, outside, hist>>

\* Nothing is left of the failed attempt, and the same schedule goes on.
Continue(a) ==
    /\ attempt' = attempt + 1 /\ Go("attempt") /\ answer' = a

Terminal == ending' = "teardown" /\ Go("teardown")

Scheduled == attempt <= MaxAttempts(kind)

Attempt ==
    /\ pc = "attempt" /\ ~shutdown /\ Scheduled /\ Go("wait")
    /\ UNCHANGED <<conn, bound, hold, loop, marks, ending, waker, view, raising, outside,
                   hist>>

\* A stop ends the schedule and the wait between two dials.
AttemptStopped ==
    /\ pc \in {"attempt", "wait"} /\ shutdown /\ Terminal
    /\ UNCHANGED <<conn, bound, hold, loop, marks, waker, view, raising, outside, hist>>

\* Mutant of WaitOver: the last attempt's refusal is not forgotten.
WaitOverRemembering ==
    /\ pc = "wait" /\ Go("dial") /\ term' = desired
    /\ UNCHANGED <<conn, bound, hold, cur, next, kind, attempt, refused, restoring, marks,
                   ending, waker, view, raising, outside, hist>>

WaitOver ==
    /\ pc = "wait" /\ Go("dial") /\ term' = desired /\ refused' = FALSE
    /\ UNCHANGED <<conn, bound, hold, cur, next, kind, attempt, restoring, marks, ending,
                   waker, view, raising, outside, hist>>

\* Backoff.Next says no: out of attempts or, but for a probe, of time.
Over == ~Scheduled \/ (attempt > 1 /\ kind # "probe")

\* A refusal opens one restore window; refused to its end, the session is gone.
Refused ==
    IF restoring
    THEN /\ ending' \in {"gone", "teardown"} /\ Go("teardown")
         /\ UNCHANGED <<kind, attempt, refused, restoring, badge, unheeded>>
    ELSE /\ restoring' = TRUE /\ badge' = "disconnected" /\ unheeded' = FALSE
         /\ StartCycle("restore") /\ Go("attempt") /\ UNCHANGED ending

CycleRefused ==
    /\ pc = "attempt" /\ ~shutdown /\ Over /\ refused /\ Refused
    /\ UNCHANGED <<conn, bound, hold, cur, next, term, dimmed, afterProbe, quiet, woken,
                   dark, waker, view, raising, outside, hist>>

CycleExhausted ==
    /\ pc = "attempt" /\ ~shutdown /\ Over /\ ~refused
    /\ restoring' = FALSE
    /\ IF Parks THEN Go("park") /\ UNCHANGED ending ELSE Terminal
    /\ UNCHANGED <<conn, bound, hold, cur, next, term, kind, attempt, refused, marks,
                   waker, view, raising, outside, hist>>

Spend == spent' = spent + 1

DialFailed ==
    /\ pc = "dial" /\ Spend /\ Continue("drop")
    /\ UNCHANGED <<conn, bound, hold, cur, next, term, kind, refused, restoring, marks,
                   ending, waker, view, raising, outside, repaired>>

Dial ==
    /\ pc = "dial" /\ Spend /\ Dialled /\ Go("dialled")
    /\ UNCHANGED <<bound, hold, cur, term, kind, attempt, refused, restoring, marks,
                   ending, waker, view, raising, outside, repaired, answer>>

\* Mutant of DialStopped: the connection just dialled is not closed.
DialStoppedOpen ==
    /\ pc = "dialled" /\ shutdown /\ Terminal /\ next' = 0
    /\ UNCHANGED <<conn, bound, hold, cur, term, kind, attempt, refused, restoring, marks,
                   waker, view, raising, outside, hist>>

\* A detach raised while the dial was in flight.
DialStopped ==
    /\ pc = "dialled" /\ shutdown /\ Terminal /\ CloseConns({next}) /\ next' = 0
    /\ UNCHANGED <<hold, cur, term, kind, attempt, refused, restoring, marks,
                   waker, view, raising, outside, hist>>

DialGoesOn ==
    /\ pc = "dialled" /\ ~shutdown /\ Go("identify")
    /\ UNCHANGED <<conn, bound, hold, loop, marks, ending, waker, view, raising, outside,
                   hist>>

\* The connection ends, or its deadline passes, before the identity is known.
IdentifyDropped ==
    /\ pc = "identify" /\ CloseConns({next}) /\ next' = 0 /\ Continue("drop")
    /\ UNCHANGED <<hold, cur, term, kind, refused, restoring, marks, ending, waker, view,
                   raising, outside, repaired, spent>>

\* attachRefusal: tmux answered that it has no such session.
IdentifyRefused ==
    /\ pc = "identify" /\ Live(next) /\ remote = "gone"
    /\ CloseConns({next}) /\ next' = 0 /\ answer' = "refused"
    /\ IF restoring
       THEN /\ refused' = TRUE /\ attempt' = attempt + 1 /\ Go("attempt")
            /\ UNCHANGED <<kind, restoring, badge, unheeded, ending>>
       ELSE Refused
    /\ UNCHANGED <<hold, cur, term, dimmed, afterProbe, quiet, woken, dark, waker,
                   view, raising, outside, repaired, spent>>

\* A malformed or %error reply, from whoever answers.
IdentifyMalformed ==
    /\ pc = "identify" /\ Live(next) /\ remote # "down" /\ Terminal
    /\ CloseConns({next}) /\ next' = 0 /\ answer' = "malformed"
    /\ UNCHANGED <<hold, cur, term, kind, attempt, refused, restoring, marks, waker, view,
                   raising, outside, repaired, spent>>

IdentifyOther ==
    /\ pc = "identify" /\ Live(next) /\ remote = "other"
    /\ CloseConns({next}) /\ next' = 0 /\ answer' = "other"
    /\ ending' \in {"replaced", "teardown"} /\ Go("teardown")
    /\ UNCHANGED <<hold, cur, term, kind, attempt, refused, restoring, marks, waker, view,
                   raising, outside, repaired, spent>>

IdentifyHome ==
    /\ pc = "identify" /\ Live(next) /\ remote = "home" /\ answer' = "home"
    /\ conn' = [conn EXCEPT ![next].home = TRUE]
    /\ bound' = bound \cup {next} /\ hold' = next /\ Go("advertise")
    /\ UNCHANGED <<loop, marks, ending, waker, view, raising, outside, repaired, spent>>

Advertise ==
    /\ pc = "advertise" /\ advertised' = Carried /\ Go("repair")
    /\ UNCHANGED <<conn, bound, hold, loop, marks, ending, waker, viewer, desired, raising,
                   outside, hist>>

\* repair emptied the registry.
RepairGone ==
    /\ pc = "repair" /\ Terminal /\ next' = 0
    /\ UNCHANGED <<conn, bound, hold, cur, term, kind, attempt, refused, restoring, marks,
                   waker, view, raising, outside, hist>>

\* The connection died under repair: one more failed attempt.
RepairPoisoned ==
    /\ pc = "repair" /\ ~Live(next) /\ HoldClose /\ next' = 0 /\ Continue("drop")
    /\ UNCHANGED <<cur, term, kind, refused, restoring, badge, dimmed, afterProbe, quiet,
                   woken, dark, unheeded, ending, waker, view, raising, outside, repaired,
                   spent>>

Connected ==
    /\ badge' = "none" /\ cur' = next /\ next' = 0 /\ repaired' = next
    /\ Go("up.drain") /\ unheeded' = FALSE
    /\ spent' = IF Live(next) THEN 0 ELSE spent
    /\ UNCHANGED <<conn, bound, hold, term, kind, attempt, refused, restoring, dimmed,
                   afterProbe, quiet, woken, dark, ending, waker, view, raising,
                   outside, answer>>

\* Mutant of Repaired: whether the connection outlived repair is not asked.
RepairedUnasked == pc = "repair" /\ Connected

Repaired == pc = "repair" /\ Live(next) /\ Connected

Cycle ==
    \/ Reattach \/ Attempt \/ AttemptStopped \/ WaitOver \/ CycleRefused \/ CycleExhausted
    \/ DialFailed \/ Dial \/ DialStopped \/ DialGoesOn
    \/ IdentifyDropped \/ IdentifyRefused \/ IdentifyMalformed \/ IdentifyOther
    \/ IdentifyHome \/ Advertise \/ RepairGone \/ RepairPoisoned \/ Repaired

\* Mutant of Undim: a probe that reconnected leaves afterProbe set.
UndimAfterProbe ==
    /\ pc = "undim" /\ Go("serve") /\ dimmed' = FALSE
    /\ dark' = (dark /\ ~dimmed)
    /\ UNCHANGED <<conn, bound, hold, loop, badge, afterProbe, quiet, woken, unheeded,
                   ending, waker, view, raising, outside, hist>>

Undim ==
    /\ pc = "undim" /\ Go("serve") /\ afterProbe' = FALSE /\ dimmed' = FALSE
    /\ dark' = (dark /\ ~dimmed)
    /\ UNCHANGED <<conn, bound, hold, loop, badge, quiet, woken, unheeded, ending, waker,
                   view, raising, outside, hist>>

----------------------------------------------------------------------------
(* park. *)

Park ==
    /\ pc = "park" /\ quiet' = afterProbe /\ afterProbe' = FALSE
    /\ poked' = FALSE /\ Go("park.arm")
    /\ UNCHANGED <<conn, bound, hold, loop, badge, dimmed, woken, dark, unheeded,
                   ending, armed, poker, view, raising, outside, hist>>

ParkArm ==
    /\ pc = "park.arm" /\ armed' = TRUE /\ woken' = FALSE /\ Go("park.stamp")
    /\ UNCHANGED <<conn, bound, hold, loop, badge, dimmed, afterProbe, quiet, dark,
                   unheeded, ending, poked, poker, view, raising, outside, hist>>

ParkStamp ==
    /\ pc = "park.stamp" /\ badge' = "parked" /\ Go("parked") /\ spent' = 0
    /\ IF quiet THEN UNCHANGED <<dimmed, dark>>
                ELSE dimmed' = TRUE /\ dark' = TRUE
    /\ UNCHANGED <<conn, bound, hold, loop, afterProbe, quiet, woken, unheeded, ending,
                   waker, view, raising, outside, repaired, answer>>

\* Leaving the wait disarms the waker.
Leave == pc = "parked" /\ armed' = FALSE

ParkStop ==
    /\ Leave /\ shutdown /\ Terminal
    /\ UNCHANGED <<conn, bound, hold, loop, marks, poked, poker, view, raising, outside,
                   hist>>

\* The local session is gone.
ParkVanished ==
    /\ Leave /\ Terminal
    /\ UNCHANGED <<conn, bound, hold, loop, marks, poked, poker, view, raising, outside,
                   hist>>

Woken ==
    /\ Leave /\ woken' = TRUE /\ Go("wake")
    /\ UNCHANGED <<conn, bound, hold, loop, badge, dimmed, afterProbe, quiet, dark,
                   unheeded, ending, poker, view, raising, outside, hist>>

ParkKey == poked /\ poked' = FALSE /\ Woken

\* A client starts looking at the mirror.
ParkFocus == UNCHANGED poked /\ Woken

\* Mutant of ParkProbe: a parked mirror waits for the user alone.
ParkProbeNever == FALSE /\ UNCHANGED vars

ParkProbe ==
    /\ Leave /\ afterProbe' = TRUE /\ StartCycle("probe") /\ Go("attempt")
    /\ UNCHANGED <<conn, bound, hold, cur, next, term, restoring, badge, dimmed, quiet,
                   woken, dark, unheeded, ending, poked, poker, view, raising,
                   outside, hist>>

\* reattach, back from a wake.
WakeCycle ==
    /\ pc = "wake" /\ badge' = "disconnected" /\ unheeded' = FALSE
    /\ StartCycle("wake") /\ Go("attempt")
    /\ UNCHANGED <<conn, bound, hold, cur, next, term, restoring, dimmed, afterProbe, quiet,
                   woken, dark, ending, waker, view, raising, outside, hist>>

Parking == Park \/ ParkArm \/ ParkStamp \/ ParkStop \/ ParkKey \/ ParkProbe \/ WakeCycle

----------------------------------------------------------------------------
(* Teardown. *)

Teardown ==
    /\ pc = "teardown" /\ HoldClose /\ Go("ended")
    /\ UNCHANGED <<loop, marks, ending, waker, view, raising, outside, hist>>

----------------------------------------------------------------------------
(* The goroutines beside the main loop. *)

main == <<pc, conn, bound, hold, loop, marks, ending>>

\* watchLocalClient records the terminal the viewer looks through.
Watch ==
    /\ desired # viewer /\ desired' = viewer
    /\ UNCHANGED <<main, waker, viewer, advertised, raising, outside, hist>>

\* raise, step by step.
RaiseResolve(p) ==
    /\ press[p].at = "idle" /\ pc # "ended"
    /\ press' = [press EXCEPT ![p] = [at |-> "compare", term |-> viewer]]
    /\ UNCHANGED <<main, waker, view, inFlight, signal, outside, hist>>

RaiseCompare(p) ==
    /\ press[p].at = "compare"
    /\ IF press[p].term = advertised
       THEN press' = [press EXCEPT ![p] = [at |-> "idle", term |-> NoTerm]]
            /\ UNCHANGED desired
       ELSE press' = [press EXCEPT ![p].at = "swap"] /\ desired' = press[p].term
    /\ UNCHANGED <<main, waker, viewer, advertised, inFlight, signal, outside, hist>>

RaiseSwap(p) ==
    /\ press[p].at = "swap" /\ inFlight' = TRUE
    /\ press' = [press EXCEPT ![p] = IF inFlight THEN [at |-> "idle", term |-> NoTerm]
                                                 ELSE [@ EXCEPT !.at = "send"]]
    /\ UNCHANGED <<main, waker, view, signal, outside, hist>>

RaiseSend(p) ==
    /\ press[p].at = "send" /\ signal' = TRUE
    /\ press' = [press EXCEPT ![p] = [at |-> "idle", term |-> NoTerm]]
    /\ UNCHANGED <<main, waker, view, inFlight, outside, hist>>

Raise(p) == RaiseResolve(p) \/ RaiseCompare(p) \/ RaiseSwap(p) \/ RaiseSend(p)

\* A key reaches the input pump, which pokes: the armed check, then the send.
Key ==
    /\ poker = "idle" /\ pc # "ended"
    /\ poker' = IF armed THEN "send" ELSE "idle"
    /\ unheeded' = (unheeded \/ (~armed /\ badge = "parked" /\ ~woken
                                   /\ pc # "teardown"))
    /\ UNCHANGED <<pc, conn, bound, hold, loop, badge, dimmed, afterProbe, quiet, woken,
                   dark, ending, armed, poked, view, raising, outside, hist>>

PokeSend ==
    /\ poker = "send" /\ poked' = TRUE /\ poker' = "idle"
    /\ UNCHANGED <<main, armed, view, raising, outside, hist>>

\* The viewer looks through another terminal.
ViewerSwitch ==
    /\ \E t \in Terms \ {viewer} : viewer' = t
    /\ UNCHANGED <<main, waker, desired, advertised, raising, outside, hist>>

\* The remote changes; a server or session that went takes its clients along.
RemoteChange ==
    /\ \E r \in Remotes \ {remote} : remote' = r
    /\ conn' = IF remote' \in {"other", "gone"}
               THEN [c \in Conns |-> [conn[c] EXCEPT !.up = FALSE]] ELSE conn
    /\ UNCHANGED <<pc, bound, hold, loop, marks, ending, waker, view, raising, shutdown,
                   stopping, hist>>

\* A connection dies: the link, the far end, or a deadline on it.
ConnDies(c) ==
    /\ remote = "down" /\ Live(c) /\ conn' = [conn EXCEPT ![c].up = FALSE]
    /\ UNCHANGED <<pc, bound, hold, loop, marks, ending, waker, view, raising, outside,
                   hist>>

\* The signal handler: close the channel, then end the transport's children.
Stop ==
    /\ ~shutdown /\ shutdown' = TRUE
    /\ UNCHANGED <<main, waker, view, raising, remote, stopping, hist>>

StopTransport ==
    /\ shutdown /\ ~stopping /\ stopping' = TRUE
    /\ conn' = [c \in Conns |-> [conn[c] EXCEPT !.up = FALSE]]
    /\ UNCHANGED <<pc, bound, hold, loop, marks, ending, waker, view, raising, remote,
                   shutdown, hist>>

----------------------------------------------------------------------------
MainLoop ==
    \/ ServeDrop \/ ServeReplace \/ Replace \/ CancelDrain \/ CancelClear
    \/ Cycle \/ Undim \/ Parking \/ Teardown

Beside ==
    \/ Watch \/ Key \/ PokeSend \/ ViewerSwitch \/ RemoteChange \/ Stop \/ StopTransport
    \/ \E p \in Pressers : Raise(p)
    \/ \E c \in Conns : ConnDies(c)

Next == MainLoop \/ ServeEnd \/ ParkVanished \/ ParkFocus \/ Beside

Spec == Init /\ [][Next]_vars

\* The main loop takes its steps, its select does not pass a dead connection over
\* for ever, and the signal handler runs to its end.
Fairness ==
    /\ WF_vars(MainLoop) /\ SF_vars(ServeDrop) /\ WF_vars(StopTransport)
    /\ \A p \in Pressers : WF_vars(RaiseSend(p))

\* What is tried again and again works once in a while.
GoodLuck == SF_vars(Dial) /\ SF_vars(IdentifyHome) /\ SF_vars(Repaired)

FairSpec == Spec /\ Fairness
LuckySpec == FairSpec /\ GoodLuck

----------------------------------------------------------------------------
(* Properties. *)

Replacing == {"replace", "replace.dial", "replace.identify", "replace.prime",
              "replace.bind", "replace.advertise", "replace.repair", "done"}
Places ==
    Replacing \cup
    {"serve", "drop.drain", "drop.clear", "reattach", "attempt", "wait", "dial", "dialled",
     "identify", "advertise", "repair", "up.drain", "up.clear", "undim", "park",
     "park.arm", "park.stamp", "parked", "wake", "teardown", "ended"}
SomeTerm == Terms \cup {NoTerm}

\* Every variable stays in its type.
TypeOK ==
    /\ pc \in Places /\ bound \subseteq Conns
    /\ conn \in [Conns -> [open : BOOLEAN, up : BOOLEAN, term : SomeTerm, home : BOOLEAN]]
    /\ hold \in Conns \cup {0} /\ cur \in Conns /\ next \in Conns \cup {0}
    /\ term \in Terms /\ kind \in Kinds
    /\ attempt \in 1..(RetryMax + RestoreMax + 1)
    /\ refused \in BOOLEAN /\ restoring \in BOOLEAN
    /\ badge \in {"none", "disconnected", "parked"} /\ dimmed \in BOOLEAN
    /\ afterProbe \in BOOLEAN /\ quiet \in BOOLEAN /\ woken \in BOOLEAN
    /\ dark \in BOOLEAN /\ unheeded \in BOOLEAN
    /\ ending \in {"none", "teardown", "replaced", "gone"}
    /\ armed \in BOOLEAN /\ poked \in BOOLEAN /\ poker \in {"idle", "send"}
    /\ viewer \in Terms /\ desired \in Terms /\ advertised \in Terms
    /\ inFlight \in BOOLEAN /\ signal \in BOOLEAN
    /\ press \in [Pressers -> [at : {"idle", "compare", "swap", "send"}, term : SomeTerm]]
    /\ remote \in Remotes /\ shutdown \in BOOLEAN
    /\ stopping \in BOOLEAN /\ repaired \in Conns \cup {0} /\ spent \in Nat
    /\ answer \in {"home", "drop", "refused", "malformed", "other"}

\* Two connections never paint into the panes at once, and only the published
\* one, proved to be the pinned server's, does (newCtlConn, bind, replaceConn).
OneConnection ==
    \A c \in bound : conn[c].open /\ c = hold /\ conn[c].home

\* No transport is left behind: what is open is published or being verified, and
\* nothing is open once the daemon has ended (attemptCycle, teardown).
NoLeak ==
    /\ \A c \in Conns : conn[c].open => c \in {hold, next}
    /\ pc \in {"serve", "parked"} => next = 0
    /\ pc = "parked" => hold = 0
    /\ pc = "ended" => \A c \in Conns : ~conn[c].open

\* The main loop reads the published connection, and has repaired the mirror on
\* it, whatever replacement or reattach was tried (the attach loop).
ServesPublished == pc = "serve" => cur = hold /\ repaired = cur

\* Advertised names the terminal the published connection was dialled for: else
\* the raise guard compares with a lie from then on (setAdvertised).
AdvertisedTrue ==
    hold # 0 /\ pc \notin {"advertise", "replace.advertise"}
        => advertised = conn[hold].term

\* A raise in flight is on its way to the main loop or being served: the flag
\* never stays up with nothing to bring it down (raise, done, cancel).
RaiseServed ==
    inFlight => \/ signal \/ pc \in Replacing \cup {"drop.clear", "up.clear"}
                \/ \E p \in Pressers : press[p].at = "send"

\* Connections that die before they are of use spend one schedule, then the
\* mirror parks: drops do not buy fresh budgets (attemptCycle's live check).
BudgetHolds == spent <= RetryMax + RestoreMax

\* The badge and the dimming tell the truth: both gone on a mirror that is served,
\* both up on one that is parked (reattach, park, the attach loop).
BadgeHonest ==
    /\ pc = "serve" => badge = "none" /\ ~dark
    /\ pc = "parked" => badge = "parked" /\ dark

\* A mirror becomes a tombstone only if the last attempt of a restore window was
\* refused, and is rebuilt only if another server answered (reattach).
EndingEarned ==
    /\ ending = "gone" => answer = "refused" /\ restoring
    /\ ending = "replaced" => answer = "other"

\* One connection paints, the published one, proved to be the pinned server's; the
\* loop reads it and has repaired the mirror on it; Advertised names the terminal
\* it was dialled for; no other transport is left behind (attemptCycle,
\* replaceConn, bind, teardown).
PublishedTrue == OneConnection /\ NoLeak /\ ServesPublished /\ AdvertisedTrue

\* The badge and the dimming tell the truth in every place of the loop, and a
\* mirror becomes a tombstone, or is rebuilt, only on the evidence that calls for
\* it (reattach, park).
OutageHonest == BadgeHonest /\ EndingEarned

\* A key pressed under the badge that asks for one wakes the mirror: it is not
\* parked on without a wake pending (stated in park).
KeyHeeded == pc = "parked" => ~unheeded

\* A raise that reattach's end discards had nothing left to do: the connection
\* carries what it asked for (stated in the attach loop and at cancel).
RaiseMoot == [][pc = "up.drain" /\ pc' # pc /\ signal => advertised = desired]_vars
====
