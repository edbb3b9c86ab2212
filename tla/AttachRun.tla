------------------------------ MODULE AttachRun ------------------------------
(***************************************************************************)
(* The picker opens a remote session: it forks og-remote-open, follows its *)
(* phases under a budget each, cancels it with TERM then KILL, and leaves  *)
(* only when the launcher has ended (src/picker/attach.go, tui.go).        *)
(*                                                                         *)
(* Three parties move on their own: the bubbletea loop with the user's     *)
(* keys, the goroutine of the run, and the launcher process.  The popup's  *)
(* pane can die at any time (SIGHUP).                                      *)
(***************************************************************************)
EXTENDS Naturals

CONSTANTS MaxPhases, MaxAttempts, MaxMarks   \* bounds

VARIABLES tui,       \* "up", "leaving" (in sup.stop), "exiting", "gone"
          attach,    \* tuiModel.attach: "none", "on" or "cancelling"
          run,       \* the run: "none", "new", "started", "forked", "ended"
          ctx,       \* its context was cancelled
          why,       \* what ended it: "none", "timeout" or "cancel"
          grace,     \* the grace before KILL: "off", "on", "spent"
          phase,     \* the phase in effect, 0 for launch
          emitted,   \* the phases the launcher has written
          proc,      \* the launcher: "none", "up", "ok" or "failed"
          term,      \* it was sent TERM
          result,    \* attachRun.res, "none" until done is closed
          marks,     \* sessions still marked
          opened,    \* ghost: sessions of the marks opened
          mirrors,   \* ghost: launchers that ended with the mirror open
          attempts,
          quit       \* how the picker was left: "none", "opened", "closed"

vars == <<tui, attach, run, ctx, why, grace, phase, emitted, proc, term, result, marks,
          opened, mirrors, attempts, quit>>

runVars == <<run, ctx, why, grace, phase, result>>
procVars == <<emitted, proc, term, mirrors>>
uiVars == <<tui, attach, marks, opened, attempts, quit>>

Init ==
  /\ tui = "up" /\ attach = "none" /\ quit = "none"
  /\ run = "none" /\ ctx = FALSE /\ why = "none" /\ grace = "off" /\ phase = 0
  /\ emitted = 0 /\ proc = "none" /\ term = FALSE /\ result = "none" /\ mirrors = 0
  /\ marks \in 1..MaxMarks /\ opened = 0 /\ attempts = 0

-----------------------------------------------------------------------------
(* beginAttach: enter on a row, or on the first of the marked ones; the     *)
(* fork happens later, in the goroutine of the first command.              *)
Begin ==
  /\ tui = "up" /\ attach = "none" /\ attempts < MaxAttempts
  /\ attach' = "on" /\ attempts' = attempts + 1
  /\ run' = "new" /\ ctx' = FALSE /\ why' = "none" /\ grace' = "off" /\ phase' = 0
  /\ emitted' = 0 /\ proc' = "none" /\ term' = FALSE /\ result' = "none"
  /\ UNCHANGED <<tui, marks, opened, mirrors, quit>>

(* handleAttachKey: the first esc or ctrl+c cancels the run ...            *)
Escape ==
  /\ tui = "up" /\ attach = "on"
  /\ attach' = "cancelling" /\ ctx' = TRUE
  /\ UNCHANGED <<tui, run, why, grace, phase, result, marks, opened, attempts, quit, procVars>>

(* ... a second ctrl+c leaves, and so does the popup's pane when it dies.  *)
(* sup.stop cancels whatever run is tracked on the way out.                *)
Leave(hangup) ==
  /\ tui = "up" /\ (hangup \/ attach # "on")
  /\ tui' = "leaving" /\ quit' = "closed"
  /\ UNCHANGED <<attach, marks, opened, attempts, runVars, procVars>>

(* attachDoneMsg and finishAttach: success opens the other marked sessions  *)
(* detached, drops the marks and quits; any other outcome keeps the marks. *)
Opens(res) == res = "ok"

AttachDone ==
  /\ tui = "up" /\ attach # "none" /\ result # "none"
  /\ attach' = "none"
  /\ IF Opens(result)
     THEN /\ opened' = opened + marks /\ marks' = 0
          /\ tui' = "leaving" /\ quit' = "opened"
     ELSE UNCHANGED <<opened, marks, tui, quit>>
  /\ UNCHANGED <<attempts, runVars, procVars>>

-----------------------------------------------------------------------------
(* attachSupervisor.stop: cancel first, then see whether the run started:   *)
(* one that has not cannot fork any more.                                  *)
StopCancel ==
  /\ tui = "leaving" /\ ~ctx
  /\ ctx' = TRUE
  /\ UNCHANGED <<run, why, grace, phase, result, uiVars, procVars>>

(* Mutant: what started is asked before the cancel.                        *)
ReleasedUnasked == run \in {"none", "new"} \/ result # "none"

Released == ctx /\ (run \in {"none", "new"} \/ result # "none")

(* It waits for the run's end, or a second longer than the grace: by then   *)
(* KILL has been sent.                                                     *)
StopReturn ==
  /\ tui = "leaving" /\ (Released \/ (ctx /\ grace = "spent"))
  /\ tui' = "exiting"
  /\ UNCHANGED <<attach, marks, opened, attempts, quit, runVars, procVars>>

Quit ==
  /\ tui = "exiting" /\ tui' = "gone"
  /\ UNCHANGED <<attach, marks, opened, attempts, quit, runVars, procVars>>

-----------------------------------------------------------------------------
(* run: only the first call does anything; it forks unless the context was  *)
(* cancelled before.  The goroutine dies with the picker's process.        *)
Start ==
  /\ run = "new" /\ tui # "gone"
  /\ IF ctx THEN run' = "ended" /\ result' = "cancelled"
     ELSE run' = "started" /\ UNCHANGED result
  /\ UNCHANGED <<ctx, why, grace, phase, uiVars, procVars>>

Fork(works) ==
  /\ run = "started" /\ tui # "gone"
  /\ IF works THEN run' = "forked" /\ proc' = "up" /\ UNCHANGED result
     ELSE run' = "ended" /\ result' = "failed" /\ UNCHANGED proc
  /\ UNCHANGED <<ctx, why, grace, phase, emitted, term, mirrors, uiVars>>

Running == run = "forked" /\ result = "none" /\ tui # "gone"

(* A phase line restarts the budget, unless the end has begun.             *)
Line ==
  /\ Running /\ phase < emitted /\ why = "none"
  /\ phase' = emitted
  /\ UNCHANGED <<run, ctx, why, grace, result, uiVars, procVars>>

(* Mutant: no KILL follows the TERM.                                       *)
TerminateOnce(reason) ==
  /\ why = "none"
  /\ why' = reason
  /\ term' = (proc = "up")
  /\ UNCHANGED <<run, ctx, grace, phase, result, emitted, proc, mirrors, uiVars>>

(* terminate: TERM to the group, and a grace after which KILL follows.     *)
Terminate(reason) ==
  /\ why = "none"
  /\ why' = reason /\ grace' = "on"
  /\ term' = (proc = "up")
  /\ UNCHANGED <<run, ctx, phase, result, emitted, proc, mirrors, uiVars>>

Budget == Running /\ Terminate("timeout")
Cancelled == Running /\ ctx /\ Terminate("cancel")

(* SIGKILL to the whole group.                                             *)
Grace ==
  /\ Running /\ grace = "on" /\ grace' = "spent"
  /\ proc' = IF proc = "up" THEN "failed" ELSE proc
  /\ UNCHANGED <<run, ctx, why, phase, result, emitted, term, mirrors, uiVars>>

(* classifyAttach: exit 0 wins over a cancel or a timeout.                 *)
Outcome == IF proc = "ok" THEN "ok"
           ELSE IF why = "timeout" THEN "timed out"
           ELSE IF why = "cancel" THEN "cancelled" ELSE "failed"

Waited ==
  /\ Running /\ proc \in {"ok", "failed"}
  /\ run' = "ended" /\ result' = Outcome
  /\ UNCHANGED <<ctx, why, grace, phase, uiVars, procVars>>

-----------------------------------------------------------------------------
(* The launcher: writes its phases, ends well or badly, rolls back on TERM  *)
(* unless it is past its commit point, or hangs.                           *)
Emit ==
  /\ proc = "up" /\ emitted < MaxPhases /\ ~term
  /\ emitted' = emitted + 1
  /\ UNCHANGED <<proc, term, mirrors, uiVars, runVars>>

Exit(well) ==
  /\ proc = "up"
  /\ proc' = IF well THEN "ok" ELSE "failed"
  /\ mirrors' = IF well THEN mirrors + 1 ELSE mirrors
  /\ UNCHANGED <<emitted, term, uiVars, runVars>>

-----------------------------------------------------------------------------
Supervise == Start \/ (\E works \in BOOLEAN : Fork(works)) \/ Line \/ Budget \/ Cancelled
             \/ Grace \/ Waited
Loop == AttachDone \/ StopCancel \/ StopReturn \/ Quit

Next ==
  \/ Begin
  \/ Escape
  \/ \E hangup \in BOOLEAN : Leave(hangup)
  \/ Loop
  \/ Supervise
  \/ Emit
  \/ \E well \in BOOLEAN : Exit(well)

Spec == Init /\ [][Next]_vars

(* The loop and the run's goroutine move whenever they can, and a timer    *)
(* that was set fires: nothing is asked of the user or of the launcher.    *)
FairSpec == Spec /\ WF_vars(Loop) /\ WF_vars(Start) /\ WF_vars(\E works \in BOOLEAN : Fork(works))
                 /\ WF_vars(Budget) /\ WF_vars(Grace) /\ WF_vars(Waited)

-----------------------------------------------------------------------------
(* The picker leaves no launcher behind: once it is gone none runs, whether *)
(* it was cancelled before the fork, between the fork and the first signal,*)
(* or hung under TERM.  And it says a session opened, and drops the marks,  *)
(* only when a launcher has left a complete mirror; a run it calls failed   *)
(* is one whose launcher did not end well.                                  *)
LauncherEnds ==
  /\ tui = "gone" => proc # "up"
  /\ quit = "opened" => mirrors > 0
  /\ marks = 0 => quit = "opened"
  /\ (result \in {"failed", "cancelled", "timed out"} /\ run = "ended") => proc # "ok"

(* Every attempt to open a session ends, a launcher that hangs included.   *)
Pending == attach # "none"
Settled == attach = "none" \/ tui = "gone"

----------------------------------------------------------------------------
(* Why no launcher outlives the picker, in every state.                    *)

Results == {"none", "ok", "failed", "cancelled", "timed out"}

Shape ==
    /\ tui \in {"up", "leaving", "exiting", "gone"} /\ attach \in {"none", "on", "cancelling"}
    /\ run \in {"none", "new", "started", "forked", "ended"} /\ ctx \in BOOLEAN
    /\ why \in {"none", "timeout", "cancel"} /\ grace \in {"off", "on", "spent"}
    /\ proc \in {"none", "up", "ok", "failed"} /\ result \in Results
    /\ mirrors \in Nat /\ quit \in {"none", "opened", "closed"}

\* The launcher's process against the run that supervises it.
Launched ==
    /\ run \in {"none", "new", "started"} => proc = "none" /\ grace = "off"
    /\ run = "forked" => proc # "none"
    /\ why = "none" => grace = "off"
    /\ proc = "up" => run = "forked" /\ grace # "spent"
    /\ result # "none" <=> run = "ended"
    /\ run = "ended" => (result = "ok" <=> proc = "ok")

\* What lets the picker go.
Freed == tui \in {"exiting", "gone"} =>
    ctx /\ (run \in {"none", "new", "ended"} \/ grace = "spent")

\* The session reported open, and the marks, against the mirrors there are.
Reported ==
    /\ proc = "ok" => mirrors > 0
    /\ quit = "opened" => mirrors > 0
    /\ marks = 0 => quit = "opened"
    /\ tui = "up" => quit = "none"

IInv == Shape /\ Launched /\ Freed /\ Reported
=============================================================================
