------------------------------ MODULE MirrorLife ------------------------------
(***************************************************************************)
(* The life of a mirror on the local machine: the launcher (scripts/       *)
(* og-remote-open.sh), the daemons it starts one after another for one     *)
(* local session, and what each ending leaves behind: the session killed,  *)
(* a tombstone, a placeholder under which the daemon re-opens on the       *)
(* remote's new tmux server (reopen.go), or nothing touched because the    *)
(* session is no longer its own (ownership.go).  A placed mirror owns      *)
(* windows of a session of the user (placed.go, placedteardown.go).        *)
(*                                                                         *)
(* Bounds: one daemon per open, MaxFaults crashes, kills of the session by *)
(* the user and stops.  With Gap the launcher may also run while a daemon  *)
(* starts, re-opens a placed mirror, or is between the check of its        *)
(* session and its socket.                                                 *)
(***************************************************************************)
EXTENDS Naturals, FiniteSets

CONSTANTS Daemons, None, MaxFaults, Gap

VARIABLES
    placed,   \* --into: the windows live in a session of the user
    name,     \* the session standing under the mirror's name, 0: none
    sessions, \* sessions made so far; an id is never reused
    wins,     \* the windows of it that a mirror made
    sibling,  \* another session, whose name begins with the mirror's, stands
    sock, pid,            \* the daemon the socket and the pidfile belong to
    opener,   \* the launcher
    pc, pin, reopened, stop, ending, vanished,  \* each daemon
    crashed, faults

world == <<name, sessions, wins, sibling>>
files == <<sock, pid>>
life == <<pc, pin, reopened, stop, ending, vanished>>
mvars == <<placed, world, files, opener, life, crashed, faults>>

Window(k, d) == [kind |-> k, by |-> d]
Alive(d) == pc[d] \notin {"new", "off"}
Up(d) == d \in Daemons /\ Alive(d)
Go(d, where) == pc' = [pc EXCEPT ![d] = where]

Init ==
    /\ placed \in BOOLEAN
    /\ name = (IF placed THEN 1 ELSE 0) /\ sessions = name /\ wins = {} /\ sibling = TRUE
    /\ sock = None /\ pid = None /\ opener = "idle"
    /\ pc = [d \in Daemons |-> "new"] /\ pin = [d \in Daemons |-> 0]
    /\ reopened = [d \in Daemons |-> FALSE] /\ stop = [d \in Daemons |-> FALSE]
    /\ ending = [d \in Daemons |-> "none"] /\ vanished = [d \in Daemons |-> FALSE]
    /\ crashed = {} /\ faults = 0

----------------------------------------------------------------------------
(* The local tmux server.  A bare name that matches no session reaches the *)
(* one it is a prefix of.                                                  *)
KillNamed ==
    /\ name' = 0 /\ wins' = {} /\ sibling' = (sibling /\ name # 0) /\ UNCHANGED sessions
Shows(ws) == wins' = ws /\ UNCHANGED <<name, sessions, sibling>>
Kept == UNCHANGED world

\* ownsLocalSession: the pinned id still stands.
Owns(d) == name # 0 /\ name = pin[d]

\* The session, or, placed, every window stamped with the socket path.
KillOwn(d) ==
    IF Owns(d) THEN wins' = {} /\ name' = (IF placed THEN name ELSE 0) /\ UNCHANGED <<sessions, sibling>>
    ELSE Kept

\* resetMirrorSession, rebuildPlaceholder: one fresh window, the others killed.
Reset(d, kind) == IF Owns(d) THEN Shows({Window(kind, d)}) ELSE Kept

\* endReopen: with no text a stop.
EndReopen(d, text) ==
    /\ pid' = IF pid = d THEN None ELSE pid
    /\ IF text /\ ~placed THEN Reset(d, "tombstone") ELSE KillOwn(d)
    /\ UNCHANGED sock

----------------------------------------------------------------------------
(* The launcher.                                                           *)
Settled == \A d \in Daemons :
    \/ pc[d] \in {"new", "off", "serve", "down"} \/ (pc[d] = "last" /\ ending[d] # "replaced")
    \/ ~placed /\ (pc[d] \in {"last", "again"} \/ (reopened[d] /\ pc[d] = "dial"))
Opener == UNCHANGED <<placed, life, crashed, faults>>
Live == Up(pid) /\ Up(sock) /\ pc[sock] \in {"build", "serve", "down"}

Probe ==
    /\ opener = "idle" /\ (Gap \/ Settled)
    /\ \E d \in Daemons : pc[d] = "new"
    /\ placed => name # 0
    /\ opener' = IF Live THEN (IF name # 0 THEN "idle" ELSE "reap") ELSE "clean"
    /\ Kept /\ UNCHANGED files /\ Opener

\* reap_daemon: SIGTERM, and SIGKILL when it has not ended in two seconds.
Reap ==
    /\ opener = "reap"
    /\ IF ~Up(pid) THEN opener' = "clean" /\ UNCHANGED <<stop, pc, crashed>>
       ELSE IF ~stop[pid] THEN stop' = [stop EXCEPT ![pid] = TRUE] /\ UNCHANGED <<pc, opener, crashed>>
       ELSE Go(pid, "off") /\ crashed' = crashed \union {pid} /\ opener' = "clean" /\ UNCHANGED stop
    /\ Kept /\ UNCHANGED <<placed, files, pin, reopened, ending, vanished, faults>>

Clean ==
    /\ opener = "clean" /\ (Gap \/ Settled)
    /\ opener' = "launch" /\ sock' = None /\ pid' = None
    /\ IF placed THEN Kept
       ELSE name' = sessions + 1 /\ sessions' = sessions + 1 /\ wins' = {Window("loading", None)} /\ UNCHANGED sibling
    /\ Opener

\* Run: the session is pinned first; a placed daemon without a pin is refused.
Launch(d) ==
    /\ opener = "launch" /\ pc[d] = "new" /\ opener' = "idle"
    /\ pin' = [pin EXCEPT ![d] = name] /\ Go(d, IF placed /\ name = 0 THEN "off" ELSE "dial")
    /\ Kept /\ UNCHANGED <<placed, files, reopened, stop, ending, vanished, crashed, faults>>

----------------------------------------------------------------------------
(* A daemon: runMirror from its dial to its socket.                        *)
Other == UNCHANGED <<placed, opener, crashed, faults>>

\* A dial, identity read or listing that fails precedes teardown.
Dials(d) ==
    /\ pc[d] = "dial"
    /\ \/ ~stop[d] /\ Go(d, "check") /\ Kept /\ UNCHANGED files
       \/ Go(d, "off") /\ (IF reopened[d] THEN EndReopen(d, ~stop[d]) ELSE Kept /\ UNCHANGED files)
    /\ UNCHANGED <<pin, reopened, stop, ending, vanished>> /\ Other

AnyOwner(d) == TRUE  \* Mutant: a re-opened run does not ask whose session it is
MayGoOn(d) == ~reopened[d] \/ Owns(d)

\* errNotOurs, or on to the socket.
Check(d) ==
    /\ pc[d] = "check" /\ (Gap \/ opener # "clean") /\ Go(d, IF MayGoOn(d) THEN "listen" ELSE "off")
    /\ Kept /\ UNCHANGED <<files, pin, reopened, stop, ending, vanished>> /\ Other

Listen(d) ==
    /\ pc[d] = "listen" /\ Go(d, "build") /\ sock' = d /\ pid' = d
    /\ Kept /\ UNCHANGED <<pin, reopened, stop, ending, vanished>> /\ Other

\* mirrorStartupWindows claims the launcher's window, or the placeholder (of a
\* session found by its bare name, its prefix included);
\* sweepStrayOwnWindows kills every other window with the socket's stamp.
Build(d) ==
    /\ pc[d] = "build"
    /\ \/ /\ name # 0 /\ Go(d, "serve") /\ UNCHANGED ending
          /\ Shows({Window("mirror", d)} \union (IF placed THEN {} ELSE {w \in wins : w.kind = "mirror"}))
       \/ /\ name = 0 /\ ~placed /\ sibling /\ sibling' = FALSE /\ Go(d, "serve")
          /\ UNCHANGED <<ending, name, sessions, wins>>
       \/ Go(d, "down") /\ ending' = [ending EXCEPT ![d] = "teardown"] /\ Kept
    /\ UNCHANGED <<files, pin, reopened, stop, vanished>> /\ Other

\* runConn and reattach return: the remote ended or a stop; a server that was
\* replaced or refuses the session, while the session is still its own.
Ends(d) ==
    /\ pc[d] = "serve" /\ Go(d, "down")
    /\ \/ ending' = [ending EXCEPT ![d] = "teardown"] /\ UNCHANGED vanished
       \/ \E e \in {"replaced", "gone"} :
            IF Owns(d) THEN ending' = [ending EXCEPT ![d] = e] /\ UNCHANGED vanished
            ELSE ending' = [ending EXCEPT ![d] = "teardown"] /\ vanished' = [vanished EXCEPT ![d] = TRUE]
    /\ Kept /\ UNCHANGED <<files, pin, reopened, stop>> /\ Other

\* Two probes in a row find no session of that name.
Vanishes(d) ==
    /\ pc[d] = "serve" /\ name = 0 /\ Go(d, "down")
    /\ ending' = [ending EXCEPT ![d] = "teardown"] /\ vanished' = [vanished EXCEPT ![d] = TRUE]
    /\ Kept /\ UNCHANGED <<files, pin, reopened, stop>> /\ Other

----------------------------------------------------------------------------
(* teardown: the files first, the session last.                            *)
Unlisten(d) ==
    /\ pc[d] = "down" /\ Go(d, "last") /\ sock' = None
    /\ pid' = IF ending[d] = "replaced" THEN pid ELSE None
    /\ Kept /\ UNCHANGED <<pin, reopened, stop, ending, vanished>> /\ Other

LastStep(d) ==
    CASE vanished[d] -> Kept
      [] ~vanished[d] /\ ending[d] = "replaced" -> Reset(d, "placeholder")
      [] ~vanished[d] /\ ending[d] = "gone" -> IF placed THEN KillOwn(d) ELSE Reset(d, "tombstone")
      [] OTHER -> IF placed THEN KillOwn(d) ELSE KillNamed
Last(d) ==
    /\ pc[d] = "last" /\ LastStep(d) /\ Go(d, IF ending[d] = "replaced" THEN "again" ELSE "off")
    /\ UNCHANGED <<files, pin, reopened, stop, ending, vanished>> /\ Other

\* runLoop: a stop, or a selector naming a window of the old server, ends the
\* re-open; otherwise the next run dials.
Again(d) ==
    /\ pc[d] = "again"
    /\ \/ stop[d] /\ EndReopen(d, FALSE) /\ Go(d, "off") /\ UNCHANGED <<reopened, ending>>
       \/ ~stop[d] /\ placed /\ EndReopen(d, TRUE) /\ Go(d, "off") /\ UNCHANGED <<reopened, ending>>
       \/ ~stop[d] /\ Go(d, "dial") /\ reopened' = [reopened EXCEPT ![d] = TRUE] /\ ending' = [ending EXCEPT ![d] = "none"]
          /\ Kept /\ UNCHANGED files
    /\ UNCHANGED <<pin, stop, vanished>> /\ Other

----------------------------------------------------------------------------
(* What happens to them.                                                   *)
Fault == faults < MaxFaults /\ faults' = faults + 1
Stop(d) ==
    /\ Fault /\ Alive(d) /\ pid = d /\ ~stop[d] /\ stop' = [stop EXCEPT ![d] = TRUE]
    /\ Kept /\ UNCHANGED <<placed, files, opener, pc, pin, reopened, ending, vanished, crashed>>
Crash(d) ==
    /\ Fault /\ Alive(d) /\ Go(d, "off") /\ crashed' = crashed \union {d}
    /\ Kept /\ UNCHANGED <<placed, files, opener, pin, reopened, stop, ending, vanished>>
UserKills ==
    /\ Fault /\ name # 0 /\ name' = 0 /\ wins' = {} /\ UNCHANGED <<sessions, sibling>>
    /\ UNCHANGED <<placed, files, opener, life, crashed>>

Runs(d) == Dials(d) \/ Check(d) \/ Listen(d) \/ Build(d) \/ Ends(d) \/ Vanishes(d) \/ Unlisten(d) \/ Last(d) \/ Again(d)
Next ==
    \/ Probe \/ Reap \/ Clean \/ UserKills
    \/ \E d \in Daemons : Launch(d) \/ Runs(d) \/ Stop(d) \/ Crash(d)
Spec == Init /\ [][Next]_mvars

----------------------------------------------------------------------------
(* One daemon mirrors into a session at a time, and the launcher can find  *)
(* it; and once every daemon has ended by itself nothing is left but a     *)
(* tombstone or the loading pane of an open that failed.                   *)
Mirrors(d) == pc[d] \in {"build", "serve"} /\ Owns(d)
Quiet == opener = "idle" /\ crashed = {} /\ \A d \in Daemons : ~Alive(d)
MirrorAccounted ==
    /\ \A d, e \in Daemons : d # e /\ Mirrors(d) => pc[e] \notin {"build", "serve"} \/ ~Owns(e)
    /\ \A d \in Daemons : Mirrors(d) => sock = d /\ pid = d
    /\ Quiet => /\ \A w \in wins : ~placed /\ w.kind \in {"tombstone", "loading"}
                /\ sock = None /\ (pid # None => name = 0)

(* A session is destroyed only by its own daemon: one whose name merely    *)
(* begins with the mirror's is never reached (ownership.go, reopen.go).    *)
SiblingSpared == sibling
===============================================================================
