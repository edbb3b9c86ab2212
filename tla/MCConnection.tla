--------------------------- MODULE MCConnection ---------------------------
(***************************************************************************)
(* Reconnect on two small instances, told apart by "part": "replace", two  *)
(* terminals and a ctl handler that raises replacements, without a park;   *)
(* "park", one viewer, every remote, every schedule and the parked wait.   *)
(* Luck with the remote is assumed of the second alone.  The constants of  *)
(* the .cfg bound both, so that each instance's properties are Reconnect's *)
(* own; the park exhausts them, and only its budgets are tight.            *)
(***************************************************************************)
EXTENDS Reconnect

VARIABLE part

R == INSTANCE Reconnect WITH
    Parks <- FALSE, Remotes <- Remotes \ {"gone"}, RetryMax <- 1, WakeMax <- 1,
    RestoreMax <- 1
P == INSTANCE Reconnect WITH
    Terms <- {CHOOSE t \in Terms : TRUE}, Pressers <- {}, Parks <- TRUE

all == <<part, vars>>
Starts == \/ part = "replace" /\ R!Init
          \/ part = "park" /\ P!Init
Steps ==  \/ part = "replace" /\ R!Next /\ UNCHANGED part
          \/ part = "park" /\ P!Next /\ UNCHANGED part

\* Reconnect's Fairness, for the part at hand.
LoopFair ==
    /\ WF_vars(part = "replace" /\ R!MainLoop) /\ WF_vars(part = "park" /\ P!MainLoop)
    /\ SF_vars(ServeDrop) /\ WF_vars(StopTransport)
    /\ \A p \in Pressers : WF_vars(part = "replace" /\ R!RaiseSend(p))
\* Reconnect's GoodLuck, for the parked viewer.
Luck ==
    /\ SF_vars(part = "park" /\ P!Dial) /\ SF_vars(part = "park" /\ P!IdentifyHome)
    /\ SF_vars(part = "park" /\ P!Repaired)

ConnectionSpec == Starts /\ [][Steps]_all /\ LoopFair /\ Luck

----------------------------------------------------------------------------
(* A stop ends the daemon wherever it catches the main loop                 *)
(* (Config.Shutdown), and once the remote stays reachable a dropped or      *)
(* parked mirror comes back on its own, or ends (parkProbeInterval): the    *)
(* daemon is not for ever stopped without ending, nor the remote for ever   *)
(* there without being served.                                              *)
Stuck ==
    \/ shutdown /\ pc # "ended"
    \/ part = "park" /\ remote = "home" /\ pc \notin {"serve", "ended"}
NeverStuck == []<>~Stuck
=============================================================================
