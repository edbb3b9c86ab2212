--------------------------- MODULE Honest_proofs ---------------------------
(***************************************************************************)
(* Proofs about the parts of HonestParts.                                  *)
(*                                                                         *)
(* The life of a mirror, for any number of daemons and of faults, while    *)
(* the launcher keeps out of the gaps (Gap).  That a mirroring daemon has  *)
(* the socket and the pidfile is not inductive: another daemon's listen    *)
(* would take both.  Alone says that no two daemons hold the socket or are *)
(* on their way to it; it rests on what the launcher has found when it     *)
(* cleans up (Opening) and on a session being pinned by one daemon only    *)
(* (Pins).  What an ending leaves behind rests on every window having a    *)
(* daemon that is still to take it away (Windows), and on the pidfile not  *)
(* outliving its session (Files).                                          *)
(*                                                                         *)
(* The URLs, for any daemons, machines, rate limits and records; the       *)
(* kills, for any sessions, probes, refreshes and restarts; the agent's    *)
(* watchers, for any screens, prints and backlog; the selector, for any    *)
(* windows, panes, moves and failed reads; and the picker's view, for any  *)
(* panes, rebuilds and captures: their invariants, and why they are        *)
(* needed, are in OpenURL, PickerKill, AgentWatch, Selected and PickerView. *)
(***************************************************************************)
EXTENDS HonestParts, FiniteSetTheorems, WellFoundedInduction, TLAPS

\* The launcher finds no daemon between two of its files' states.
NoGaps == ~Gap /\ None \notin Daemons

Holds(d) == pc[d] \in {"build", "serve", "down"}
Reopens(d) ==
    \/ pc[d] = "again"
    \/ pc[d] = "last" /\ ending[d] = "replaced"
    \/ pc[d] \in {"dial", "check"} /\ reopened[d]

\* A daemon that holds the socket, or that nothing but itself keeps from it.
Busy(d) ==
    \/ Holds(d) \/ pc[d] = "listen"
    \/ pc[d] \in {"dial", "check"} /\ ~reopened[d]
    \/ Reopens(d) /\ Owns(d)

\* The values of pc and of ending.
States == {"new", "dial", "check", "listen", "build", "serve", "down", "last", "again", "off"}
Ending == {"none", "teardown", "replaced", "gone"}

\* The types, and what numbers a session.
Shape ==
    /\ placed \in BOOLEAN /\ opener \in {"idle", "reap", "clean", "launch"}
    /\ sessions \in Nat /\ name \in {0, sessions} /\ (placed => sessions = 1)
    /\ pc \in [Daemons -> States] /\ pin \in [Daemons -> Nat] /\ ending \in [Daemons -> Ending]
    /\ reopened \in [Daemons -> BOOLEAN] /\ stop \in [Daemons -> BOOLEAN]
    /\ vanished \in [Daemons -> BOOLEAN]

\* A session of its own is pinned by one daemon.
Pins ==
    /\ \A d \in Daemons : pin[d] <= sessions /\ (pc[d] = "new" => pin[d] = 0)
    /\ ~placed => \A d, e \in Daemons : d # e /\ pin[d] = pin[e] => pin[d] = 0

\* What the launcher has found, and no daemon changes, at each of its steps.
Opening ==
    /\ opener = "reap" =>
        /\ ~placed /\ name = 0
        /\ \A d \in Daemons : /\ pc[d] \notin {"listen", "build"}
                              /\ pc[d] \in {"dial", "check"} => reopened[d]
    /\ opener = "clean" =>
        \A d \in Daemons : /\ ~Holds(d) /\ pc[d] # "listen"
                           /\ pc[d] \in {"dial", "check"} => reopened[d]
    /\ opener = "launch" =>
        /\ \A d \in Daemons : ~Busy(d)
        /\ ~placed => \A d \in Daemons : pin[d] < sessions

Alone == \A d, e \in Daemons : Busy(d) /\ Busy(e) => d = e

\* The session of a daemon that has or may take the socket stands or has gone:
\* no other has taken its name.
Named ==
    \A d \in Daemons :
        /\ Holds(d) \/ pc[d] = "listen" \/ (pc[d] \in {"dial", "check"} /\ ~reopened[d]) =>
            name \in {0, pin[d]}
        /\ vanished[d] => ~Owns(d) /\ pc[d] # "new"

\* The socket and the pidfile are of the daemon that mirrors; without crashes
\* neither outlives it, but for a pidfile whose session has gone.
Files ==
    /\ \A d \in Daemons : Holds(d) => sock = d /\ pid = d
    /\ crashed = {} =>
        /\ sock # None => sock \in Daemons /\ Holds(sock)
        /\ pid # None => /\ pid \in Daemons /\ name \in {0, pin[pid]}
                         /\ name # 0 => Holds(pid) \/ Reopens(pid) \/ pc[pid] = "listen"

\* Who takes a window away.
Cleans(d) ==
    \/ Holds(d) \/ Reopens(d)
    \/ pc[d] = "listen" /\ reopened[d]
    \/ pc[d] = "last" /\ ~vanished[d]
\* A window that wants a daemon has one that will take it away.
Windows ==
    /\ name = 0 => wins = {}
    /\ placed => \A w \in wins : w.kind \in {"mirror", "placeholder"}
    /\ \A w \in wins : w.kind \in {"mirror", "placeholder", "tombstone", "loading"}
    /\ crashed = {} => \A w \in wins : w.kind \in {"mirror", "placeholder"} =>
        w.by \in Daemons /\ Owns(w.by) /\ Cleans(w.by)

\* What the steps preserve together.
IInv == Shape /\ Pins /\ Opening /\ Alone /\ Named /\ Files /\ Windows

\* The invariant holds at the start.
LEMMA InitInv == Init /\ NoGaps => IInv
BY DEF Init, NoGaps, IInv, Shape, Pins, Opening, Alone, Named, Files, Windows, Busy, Holds,
  Reopens, Owns, Cleans, States, Ending

(* One lemma for an action, one step for a part of the invariant.            *)
LEMMA DialsKeeps == ASSUME IInv, NoGaps, NEW d \in Daemons, Dials(d) PROVE IInv'
<1> USE NoGaps DEF IInv, NoGaps, Dials, Go, Kept, files, EndReopen, Other, world,
  Reset, KillOwn, Shows, Window
<1>1. Shape' BY DEF Shape, States, Ending
<1>2. Pins' BY DEF Shape, Pins
<1>3. Opening' BY DEF Shape, Opening, Busy, Holds, Reopens, Owns
<1>4. Alone' BY DEF Shape, Alone, Busy, Holds, Reopens, Owns
<1>5. Named' BY DEF Shape, Named, Holds, Owns
<1>6. Files' BY DEF Shape, Files, Holds, Reopens
<1>7. Windows' BY DEF Shape, Pins, Opening, Alone, Named, Files, Windows, Busy,
  Holds, Reopens, Owns, Cleans
<1>8. QED BY <1>1, <1>2, <1>3, <1>4, <1>5, <1>6, <1>7

LEMMA CheckKeeps == ASSUME IInv, NoGaps, NEW d \in Daemons, Check(d) PROVE IInv'
<1> USE NoGaps DEF IInv, NoGaps, Check, Go, MayGoOn, Kept, files, Other, world
<1>1. Shape' BY DEF Shape, States, Ending
<1>2. Pins' BY DEF Pins
<1>3. Opening' BY DEF Opening, Busy, Holds, Reopens, Owns
<1>4. Alone' BY DEF Alone, Busy, Holds, Reopens, Owns
<1>5. Named' BY DEF Named, Holds, Owns
<1>6. Files' BY DEF Files, Windows, Holds, Reopens, Owns
<1>7. Windows' BY DEF Pins, Opening, Alone, Named, Files, Windows, Busy, Holds,
  Reopens, Owns, Cleans
<1>8. QED BY <1>1, <1>2, <1>3, <1>4, <1>5, <1>6, <1>7

LEMMA ListenKeeps == ASSUME IInv, NoGaps, NEW d \in Daemons, Listen(d) PROVE IInv'
<1> USE NoGaps DEF IInv, NoGaps, Listen, Go, Kept, Other, world
<1>1. Shape' BY DEF Shape, States, Ending
<1>2. Pins' BY DEF Pins
<1>3. Opening' BY DEF Opening, Busy
<1>4. Alone' BY DEF Alone, Busy, Holds, Reopens, Owns
<1>5. Named' BY DEF Named, Holds, Owns
<1>6. Files' BY DEF Shape, Alone, Named, Files, Busy, Holds
<1>7. Windows' BY DEF Pins, Opening, Alone, Named, Files, Windows, Busy, Holds,
  Reopens, Owns, Cleans
<1>8. QED BY <1>1, <1>2, <1>3, <1>4, <1>5, <1>6, <1>7

LEMMA BuildKeeps == ASSUME IInv, NoGaps, NEW d \in Daemons, Build(d) PROVE IInv'
<1> USE NoGaps DEF IInv, NoGaps, Build, Go, Shows, Window, Kept, files, Other, world
<1>1. Shape' BY DEF Shape, States, Ending
<1>2. Pins' BY DEF Shape, Pins
<1>3. Opening' BY DEF Opening, Busy, Holds
<1>4. Alone' BY DEF Shape, Alone, Busy, Holds, Reopens, Owns
<1>5. Named' BY DEF Shape, Named, Holds, Owns
<1>6. Files' BY DEF Shape, Files, Holds
<1>7. Windows' BY DEF Shape, Pins, Opening, Alone, Named, Files, Windows, Busy,
  Holds, Reopens, Owns, Cleans
<1>8. QED BY <1>1, <1>2, <1>3, <1>4, <1>5, <1>6, <1>7

LEMMA EndsKeeps == ASSUME IInv, NoGaps, NEW d \in Daemons, Ends(d) PROVE IInv'
<1> USE NoGaps DEF IInv, NoGaps, Ends, Go, Kept, files, Other, world
<1>1. Shape'
  <2>1. ending' \in [Daemons -> Ending]
    <3>1. CASE ending' = [ending EXCEPT ![d] = "teardown"] BY <3>1 DEF Shape, Ending
    <3>2. CASE \E e \in {"replaced", "gone"} : ending' = [ending EXCEPT ![d] = e]
      BY <3>2 DEF Shape, Ending
    <3>3. QED BY <3>1, <3>2 DEF Owns
  <2>2. vanished' \in [Daemons -> BOOLEAN]
    <3>1. CASE UNCHANGED vanished BY <3>1 DEF Shape
    <3>2. CASE vanished' = [vanished EXCEPT ![d] = TRUE] BY <3>2 DEF Shape
    <3>3. QED BY <3>1, <3>2 DEF Owns
  <2>3. pc' \in [Daemons -> States] BY DEF Shape, States, Owns
  <2>4. QED BY <2>1, <2>2, <2>3 DEF Shape
<1>2. Pins' BY DEF Pins
<1>3. Opening' BY DEF Opening, Busy, Holds
<1>4. Alone' BY DEF Shape, Alone, Busy, Holds, Reopens, Owns
<1>5. Named' BY DEF Shape, Named, Holds, Owns
<1>6. Files' BY DEF Files, Holds
<1>7. Windows' BY DEF Pins, Opening, Alone, Named, Files, Windows, Busy, Holds,
  Reopens, Owns, Cleans
<1>8. QED BY <1>1, <1>2, <1>3, <1>4, <1>5, <1>6, <1>7

LEMMA VanishesKeeps == ASSUME IInv, NoGaps, NEW d \in Daemons, Vanishes(d) PROVE IInv'
<1> USE NoGaps DEF IInv, NoGaps, Vanishes, Go, Kept, files, Other, world
<1>1. Shape' BY DEF Shape, States, Ending
<1>2. Pins' BY DEF Pins
<1>3. Opening' BY DEF Opening, Busy, Holds
<1>4. Alone' BY DEF Alone, Busy, Holds, Owns
<1>5. Named' BY DEF Named, Owns
<1>6. Files' BY DEF Files, Holds
<1>7. Windows' BY DEF Pins, Opening, Alone, Named, Files, Windows, Busy, Holds,
  Reopens, Owns, Cleans
<1>8. QED BY <1>1, <1>2, <1>3, <1>4, <1>5, <1>6, <1>7

LEMMA UnlistenKeeps == ASSUME IInv, NoGaps, NEW d \in Daemons, Unlisten(d) PROVE IInv'
<1> USE NoGaps DEF IInv, NoGaps, Unlisten, Go, Kept, Other, world
<1>1. Shape' BY DEF Shape, States, Ending
<1>2. Pins' BY DEF Pins
<1>3. Opening' BY DEF Opening, Busy, Holds
<1>4. Alone' BY DEF Alone, Busy, Holds, Reopens, Owns
<1>5. Named' BY DEF Named, Holds, Owns
<1>6. Files' BY DEF Shape, Files, Holds, Reopens
<1>7. Windows' BY DEF Pins, Opening, Alone, Named, Files, Windows, Busy, Holds,
  Reopens, Owns, Cleans
<1>8. QED BY <1>1, <1>2, <1>3, <1>4, <1>5, <1>6, <1>7

LEMMA LastKeeps == ASSUME IInv, NoGaps, NEW d \in Daemons, Last(d) PROVE IInv'
<1> USE NoGaps DEF IInv, NoGaps, Last, LastStep, Go, files, Other, Kept, Reset,
  KillOwn, KillNamed, world, Shows, Window
<1>1. Shape' BY DEF Shape, States, Ending
<1>2. Pins' BY DEF Pins
<1>3. Opening' BY DEF Opening, Busy, Holds, Reopens, Owns
<1>4. Alone' BY DEF Alone, Busy, Holds, Reopens, Owns
<1>5. Named' BY DEF Named, Holds, Owns
<1>6. Files' BY DEF Files, Holds, Reopens
<1>7. Windows' BY DEF Pins, Opening, Alone, Named, Files, Windows, Busy, Holds,
  Reopens, Owns, Cleans
<1>8. QED BY <1>1, <1>2, <1>3, <1>4, <1>5, <1>6, <1>7

LEMMA AgainKeeps == ASSUME IInv, NoGaps, NEW d \in Daemons, Again(d) PROVE IInv'
<1> USE NoGaps DEF IInv, NoGaps, Again, EndReopen, Go, Kept, files, Other, Reset,
  KillOwn, world, Shows, Window
<1>1. Shape' BY DEF Shape, States, Ending
<1>2. Pins' BY DEF Shape, Pins
<1>3. Opening' BY DEF Shape, Opening, Busy, Holds, Reopens, Owns
<1>4. Alone' BY DEF Shape, Alone, Busy, Holds, Reopens, Owns
<1>5. Named' BY DEF Shape, Named, Holds, Owns
<1>6. Files' BY DEF Shape, Files, Holds, Reopens
<1>7. Windows' BY DEF Shape, Pins, Opening, Alone, Named, Files, Windows, Busy,
  Holds, Reopens, Owns, Cleans
<1>8. QED BY <1>1, <1>2, <1>3, <1>4, <1>5, <1>6, <1>7

LEMMA LaunchKeeps == ASSUME IInv, NoGaps, NEW d \in Daemons, Launch(d) PROVE IInv'
<1> USE NoGaps DEF IInv, NoGaps, Launch, Go, Kept, files, world
<1>1. Shape' BY DEF Shape, States, Ending
<1>2. Pins' BY DEF Shape, Pins, Opening
<1>3. Opening' BY DEF Opening
<1>4. Alone' BY DEF Opening, Alone, Busy, Holds, Reopens, Owns
<1>5. Named' BY DEF Shape, Named, Holds, Owns
<1>6. Files' BY DEF Files, Holds, Reopens
<1>7. Windows' BY DEF Pins, Opening, Alone, Named, Files, Windows, Busy, Holds,
  Reopens, Owns, Cleans
<1>8. QED BY <1>1, <1>2, <1>3, <1>4, <1>5, <1>6, <1>7

LEMMA StopKeeps == ASSUME IInv, NoGaps, NEW d \in Daemons, Stop(d) PROVE IInv'
<1> USE NoGaps DEF IInv, NoGaps, Stop, Fault, Alive, Kept, files, world
<1>1. Shape' BY DEF Shape, States, Ending
<1>2. Pins' BY DEF Pins
<1>3. Opening' BY DEF Opening, Busy, Holds, Reopens, Owns
<1>4. Alone' BY DEF Alone, Busy, Holds, Reopens, Owns
<1>5. Named' BY DEF Named, Holds, Owns
<1>6. Files' BY DEF Files, Holds, Reopens
<1>7. Windows' BY DEF Pins, Opening, Alone, Named, Files, Windows, Busy, Holds,
  Reopens, Owns, Cleans
<1>8. QED BY <1>1, <1>2, <1>3, <1>4, <1>5, <1>6, <1>7

LEMMA CrashKeeps == ASSUME IInv, NoGaps, NEW d \in Daemons, Crash(d) PROVE IInv'
<1> USE NoGaps DEF IInv, NoGaps, Crash, Fault, Alive, Go, Kept, files, world
<1>1. Shape' BY DEF Shape, States, Ending
<1>2. Pins' BY DEF Pins
<1>3. Opening' BY DEF Opening, Busy, Holds, Reopens, Owns
<1>4. Alone' BY DEF Alone, Busy, Holds, Reopens, Owns
<1>5. Named' BY DEF Named, Holds, Owns
<1>6. Files' BY DEF Files, Holds
<1>7. Windows' BY DEF Pins, Opening, Alone, Named, Files, Windows, Busy, Holds,
  Reopens, Owns, Cleans
<1>8. QED BY <1>1, <1>2, <1>3, <1>4, <1>5, <1>6, <1>7

LEMMA ProbeKeeps == ASSUME IInv, NoGaps, Probe PROVE IInv'
<1> USE NoGaps DEF IInv, NoGaps, Probe, Settled, Live, Kept, files, Opener, Up,
  world, life, Alive
<1>1. Shape' BY DEF Shape, States, Ending
<1>2. Pins' BY DEF Pins
<1>3. Opening' BY DEF Opening, Files, Holds
<1>4. Alone' BY DEF Alone, Busy, Holds, Reopens, Owns
<1>5. Named' BY DEF Named, Holds, Owns
<1>6. Files' BY DEF Files, Holds, Reopens
<1>7. Windows' BY DEF Pins, Opening, Alone, Named, Files, Windows, Busy, Holds,
  Reopens, Owns, Cleans
<1>8. QED BY <1>1, <1>2, <1>3, <1>4, <1>5, <1>6, <1>7

LEMMA ReapKeeps == ASSUME IInv, NoGaps, Reap PROVE IInv'
<1> USE NoGaps DEF IInv, NoGaps, Reap, Up, Go, Kept, files, Alive, world
<1>1. Shape' BY DEF Shape, States, Ending
<1>2. Pins' BY DEF Shape, Pins
<1>3. Opening' BY DEF Shape, Opening, Files, Holds
<1>4. Alone' BY DEF Shape, Alone, Busy, Holds, Reopens, Owns
<1>5. Named' BY DEF Shape, Named, Holds, Owns
<1>6. Files' BY DEF Shape, Files, Holds, Reopens
<1>7. Windows' BY DEF Pins, Opening, Alone, Named, Files, Windows, Busy, Holds,
  Reopens, Owns, Cleans
<1>8. QED BY <1>1, <1>2, <1>3, <1>4, <1>5, <1>6, <1>7

LEMMA CleanKeeps == ASSUME IInv, NoGaps, Clean PROVE IInv'
<1> USE NoGaps DEF IInv, NoGaps, Clean, Settled, Kept, Window, Opener, world, life
<1>1. Shape' BY DEF Shape, States, Ending
<1>2. Pins' BY DEF Shape, Pins
<1>3. Opening' BY DEF Shape, Pins, Opening, Busy, Holds, Reopens, Owns
<1>4. Alone' BY DEF Pins, Opening, Alone, Busy, Holds, Reopens, Owns
<1>5. Named' BY DEF Shape, Pins, Opening, Named, Holds, Owns
<1>6. Files' BY DEF Opening, Files, Holds
<1>7. Windows' BY DEF Shape, Pins, Opening, Alone, Named, Files, Windows, Busy,
  Holds, Reopens, Owns, Cleans
<1>8. QED BY <1>1, <1>2, <1>3, <1>4, <1>5, <1>6, <1>7

LEMMA UserKillsKeeps == ASSUME IInv, NoGaps, UserKills PROVE IInv'
<1> USE NoGaps DEF IInv, NoGaps, UserKills, Fault, files, life
<1>1. Shape' BY DEF Shape, States, Ending
<1>2. Pins' BY DEF Pins
<1>3. Opening' BY DEF Opening, Busy, Holds, Owns
<1>4. Alone' BY DEF Alone, Busy, Holds, Owns
<1>5. Named' BY DEF Named, Owns
<1>6. Files' BY DEF Files, Holds
<1>7. Windows' BY DEF Pins, Opening, Alone, Named, Files, Windows, Busy, Holds,
  Reopens, Owns, Cleans
<1>8. QED BY <1>1, <1>2, <1>3, <1>4, <1>5, <1>6, <1>7

LEMMA NextKeeps == ASSUME IInv, NoGaps, [Next]_mvars PROVE IInv'
<1>1. CASE UNCHANGED mvars
  BY <1>1 DEF mvars, world, files, life, IInv, Shape, Pins, Opening, Alone, Named, Files,
    Windows, Busy, Holds, Reopens, Owns, Cleans
<1>2. CASE Probe BY <1>2, ProbeKeeps
<1>3. CASE Reap BY <1>3, ReapKeeps
<1>4. CASE Clean BY <1>4, CleanKeeps
<1>5. CASE UserKills BY <1>5, UserKillsKeeps
<1>6. ASSUME NEW d \in Daemons, Launch(d) \/ Stop(d) \/ Crash(d) PROVE IInv'
  BY <1>6, LaunchKeeps, StopKeeps, CrashKeeps
<1>7. ASSUME NEW d \in Daemons, Runs(d) PROVE IInv'
  BY <1>7, DialsKeeps, CheckKeeps, ListenKeeps, BuildKeeps, EndsKeeps, VanishesKeeps,
    UnlistenKeeps, LastKeeps, AgainKeeps DEF Runs
<1>8. QED BY <1>1, <1>2, <1>3, <1>4, <1>5, <1>6, <1>7 DEF Next

\* What the run checks follows: two mirrors would both hold the socket, and a
\* window that still wants a daemon has one that is alive.
LEMMA InvAccounts == ASSUME IInv, NoGaps PROVE MirrorAccounted
<1> USE DEF IInv, NoGaps
<1>1. \A d, e \in Daemons : d # e /\ Mirrors(d) => pc[e] \notin {"build", "serve"} \/ ~Owns(e)
  BY DEF Alone, Busy, Holds, Mirrors
<1>2. \A d \in Daemons : Mirrors(d) => sock = d /\ pid = d
  BY DEF Files, Holds, Mirrors
<1>3. ASSUME Quiet PROVE /\ \A w \in wins : ~placed /\ w.kind \in {"tombstone", "loading"}
                         /\ sock = None /\ (pid # None => name = 0)
  <2>1. crashed = {} /\ \A d \in Daemons : pc[d] \in {"new", "off"}
    BY <1>3 DEF Quiet, Alive
  <2>2. \A d \in Daemons : ~Holds(d) /\ ~Reopens(d) /\ ~Cleans(d) /\ pc[d] # "listen"
    BY <2>1 DEF Holds, Reopens, Cleans
  <2>3. sock = None /\ (pid # None => name = 0)
    BY <2>1, <2>2 DEF Files
  <2>4. \A w \in wins : ~placed /\ w.kind \in {"tombstone", "loading"}
    BY <2>1, <2>2 DEF Windows
  <2>5. QED BY <2>3, <2>4
<1>4. QED BY <1>1, <1>2, <1>3 DEF MirrorAccounted

(* The inductive invariant holds throughout: every file, window and pinned  *)
(* session is accounted for at each step of the launcher and of the daemons *)
(* (og-remote-open.sh, reopen.go, ownership.go, runMirror's teardown).      *)
THEOREM Invariance == ASSUME NoGaps PROVE Spec => []IInv
<1>1. Init => IInv BY InitInv
<1>2. IInv /\ [Next]_mvars => IInv' BY NextKeeps
<1>3. QED BY <1>1, <1>2, PTL DEF Spec

(* However many daemons a launcher starts one after another, and whatever   *)
(* crashes, stops and kills come between, one daemon at a time mirrors into *)
(* a session and the launcher finds it, and endings leave nothing behind    *)
(* but a tombstone or a failed open's loading pane.                         *)
THEOREM Accounted == ASSUME NoGaps PROVE Spec => []MirrorAccounted
<1>1. IInv => MirrorAccounted BY InvAccounts
<1>2. QED BY <1>1, Invariance, PTL
----------------------------------------------------------------------------
(* The URLs (OpenURL): v1 to v17 are log, tag, listed, legacy, conn, up,    *)
(* pc, got, told, reports, seen, self, spent, claims, opens, dropped, owed. *)

\* The invariant of the URLs holds at the start.
LEMMA UrlInit == MaxRecords \in Nat /\ U!Init => U!IInv
<1> SUFFICES ASSUME MaxRecords \in Nat, U!Init PROVE U!IInv OBVIOUS
<1> USE DEF U!Init
<1>1. U!Typed BY DEF U!Typed, U!Unread, U!Nothing, U!Steps, U!Logs
<1>2. U!Written BY DEF U!Written, U!Nothing, U!Subscribed
<1>3. U!Registers BY DEF U!Registers, U!Unread
<1>4. U!Follows BY DEF U!Follows, U!InOrder
<1>5. U!Opened BY DEF U!Opened
<1>6. U!Owes BY DEF U!Owes
<1>7. QED BY <1>1, <1>2, <1>3, <1>4, <1>5, <1>6 DEF U!IInv

(* What is owed stays owed or served while only a daemon that is not on      *)
(* steps.                                                                    *)
LEMMA UrlOwesStays ==
    ASSUME U!IInv, UNCHANGED <<v1, v2, v9, v10, v15, v16, v17>>, v6 \subseteq v6',
           \A d \in Openers : v7[d] = "on" =>
               v7'[d] = "on" /\ v11'[d] = v11[d] /\ U!Name(d)' = U!Name(d)
    PROVE  U!Owes'
<1>1. \A d \in Openers, n \in U!Records : U!Served(d, n)' <=> U!Served(d, n)
    BY DEF U!Served, U!OnMachine
<1>2. U!Records' = U!Records BY DEF U!Records
<1> SUFFICES ASSUME NEW d \in Openers, NEW n \in U!Records, <<d, n>> \in v17
             PROVE  /\ d \in v6' /\ v7'[d] = "on" /\ n <= Len(v2) /\ v2[n] \in {Null, U!Name(d)'}
                    /\ \/ U!Served(d, n)'
                       \/ /\ n \notin v11'[d]
                          /\ n \in v1 \ v9[d] \/ \E i \in 1..Len(v10[d]) : n \in v10[d][i]
    BY <1>2 DEF U!Owes
<1>3. QED BY <1>1 DEF U!IInv, U!Owes

\* opencmd.go: a record is appended to the log, or starts it afresh.
LEMMA UrlForwardKeeps ==
    ASSUME MaxRecords \in Nat, U!IInv, NEW t, NEW afresh \in BOOLEAN, U!Forward(t, afresh)
    PROVE  U!IInv'
<1> USE DEF U!IInv
<1> DEFINE n == Len(v2) + 1
           on == {c \in v6 : v7[c] = "on" /\ t \in {Null, U!Name(c)}}
           kept == IF afresh THEN {p \in v17 : p[2] \in v9[p[1]]} ELSE v17
<1>1. /\ Len(v2) < MaxRecords /\ t \in (U!Attached \intersect v3) \union {Null}
      /\ v1' = (IF afresh THEN {} ELSE v1) \union {n}
      /\ v2' = Append(v2, t) /\ v17' = kept \union (on \X {n})
      /\ UNCHANGED <<v3, v4, v5, v6, v9, v10, v7, v8, v11, v12, v13, v14, v15, v16>>
    BY DEF U!Forward, U!daemon
<1>2. Len(v2) \in Nat /\ n \in U!Records /\ t \in {Null} \union U!Clients
    BY <1>1 DEF U!Typed, U!Records
<1>3. /\ v2' \in Seq({Null} \union U!Clients) /\ Len(v2') = n /\ v2'[n] = t
      /\ \A k \in 1..Len(v2) : v2'[k] = v2[k]
    BY <1>1, <1>2 DEF U!Typed
<1>4. on \subseteq Openers /\ kept \subseteq v17 BY DEF U!Typed
<1>5. U!Typed'
  <2>1. v17' \in SUBSET (Openers \X U!Records) BY <1>1, <1>2, <1>4 DEF U!Typed
  <2>2. QED BY <1>1, <1>2, <1>3, <2>1 DEF U!Typed, U!Records, U!Clients, U!Logs, U!Steps
<1>6. U!Written'
  <2>1. 1..Len(v2) \subseteq 1..n /\ 0..Len(v2) \subseteq 0..n /\ n \in 1..n BY <1>2
  <2>2. v1' \subseteq 1..n BY <1>1, <2>1 DEF U!Written
  <2>3. \A c \in Openers : U!Subscribed(c)' = U!Subscribed(c) BY <1>1 DEF U!Subscribed
  <2> HIDE DEF n
  <2>4. QED BY <1>1, <1>3, <2>1, <2>2, <2>3 DEF U!Written
<1>7. U!Registers' BY <1>1 DEF U!Registers, U!Name
<1>8. /\ \A c \in Openers : n \notin v11[c] /\ n \notin v9[c]
      /\ \A c \in Openers : \A i \in 1..Len(v10[c]) : n \notin v10[c][i]
    BY <1>2 DEF U!Written
<1>9. U!Follows'
  <2> SUFFICES ASSUME NEW c \in Openers PROVE U!InOrder(v11[c], v10[c], v1')
      BY <1>1 DEF U!Follows
  <2>1. v11[c] \intersect v1' \subseteq v1 BY <1>1, <1>8
  <2>2. \A i \in 1..Len(v10[c]) : v10[c][i] \intersect v1' \subseteq v1
      BY <1>1, <1>8
  <2>3. U!InOrder(v11[c], v10[c], v1) BY DEF U!Follows
  <2> HIDE DEF n, on, kept
  <2>4. QED BY <2>1, <2>2, <2>3 DEF U!InOrder
<1>10. U!Opened'
  <2>1. \A c \in Openers, k \in U!Records : v15[<<c, k>>] > 0 => k \in 1..Len(v2) /\ v2'[k] = v2[k]
      BY <1>3 DEF U!Opened, U!Records, U!Typed
  <2>2. \A k \in 1..Len(v2) : k <= n /\ (k \notin v1 => k \notin v1') BY <1>1, <1>2
  <2>3. U!Records' = U!Records BY DEF U!Records
  <2> HIDE DEF n, on, kept
  <2>4. ASSUME NEW c \in Openers, NEW k \in U!Records, v15[<<c, k>>] > 0
        PROVE  /\ v15[<<c, k>>] = 1 /\ k <= Len(v2') /\ (v2'[k] = Null \/ v2'[k][1] = c)
               /\ \/ k \in v11[c]
                  \/ k \notin v1' /\ \A i \in 1..Len(v10[c]) : k \notin v10[c][i]
               /\ c \notin Elsewhere =>
                    k \in v14 /\ \A d \in Openers \ Elsewhere : v15[<<d, k>>] > 0 => d = c
      BY <1>3, <2>1, <2>2, <2>4 DEF U!Opened
  <2>5. QED BY <1>1, <2>3, <2>4 DEF U!Opened
<1>11. U!Owes'
  <2> SUFFICES ASSUME NEW c \in Openers, NEW k \in U!Records, <<c, k>> \in v17'
               PROVE  /\ c \in v6 /\ v7[c] = "on" /\ k <= Len(v2') /\ v2'[k] \in {Null, U!Name(c)}
                      /\ \/ U!Served(c, k)
                         \/ /\ k \notin v11[c]
                            /\ \/ k \in v1' \ v9[c]
                               \/ \E i \in 1..Len(v10[c]) : k \in v10[c][i]
      BY <1>1 DEF U!Owes, U!Served, U!OnMachine, U!Name
  <2>1. CASE <<c, k>> \in on \X {n}
      BY <2>1, <1>1, <1>2, <1>3, <1>8
  <2>2. CASE <<c, k>> \in kept
    <3>1. <<c, k>> \in v17 /\ (afresh => k \in v9[c]) BY <2>2
    <3>2. k \in 1..Len(v2) BY <3>1, <1>2 DEF U!Owes, U!Records
    <3>3. k \in v1 \ v9[c] => k \in v1' BY <1>1, <3>1
    <3>4. QED BY <3>1, <3>2, <3>3, <1>2, <1>3 DEF U!Owes
  <2>3. QED BY <2>1, <2>2, <1>1
<1>12. QED BY <1>5, <1>6, <1>7, <1>9, <1>10, <1>11

\* A line of the subscription tells a daemon the log of now.
LEMMA UrlReportKeeps ==
    ASSUME U!IInv, NEW c \in Openers, U!Report(c) PROVE U!IInv'
<1> USE DEF U!IInv
<1>1. /\ U!Subscribed(c) /\ v9' = [v9 EXCEPT ![c] = v1]
      /\ v10' = [v10 EXCEPT ![c] = Append(@, v1)]
      /\ UNCHANGED <<v1, v2, v3, v4, v5, v6, v17, v7, v8, v11, v12, v13, v14, v15, v16>>
    BY DEF U!Report, U!remote, U!daemon
<1>2. v1 \in U!Logs /\ Len(v2) \in Nat BY DEF U!Written, U!Typed, U!Logs
<1> DEFINE r == v10[c] m == Len(r)
<1>3. r \in Seq(U!Logs) /\ m \in Nat BY DEF U!Typed
<1>4. /\ v10' \in [Openers -> Seq(U!Logs)] /\ v9' \in [Openers -> U!Logs]
      /\ \A d \in Openers \ {c} : v10'[d] = v10[d] /\ v9'[d] = v9[d]
      /\ v9'[c] = v1 /\ Len(v10'[c]) = m + 1 /\ v10'[c][m + 1] = v1
      /\ \A i \in 1..m : v10'[c][i] = r[i]
    BY <1>1, <1>2, <1>3 DEF U!Typed
<1> HIDE DEF r, m
<1>5. 1..(m + 1) = 1..m \union {m + 1} BY <1>3
<1>6. U!Typed' BY <1>1, <1>4 DEF U!Typed
<1>7. U!Written'
  <2>1. v1 \subseteq 1..Len(v2) /\ 1..Len(v2) \subseteq 0..Len(v2) BY <1>2 DEF U!Written
  <2>2. \A d \in Openers : U!Subscribed(d)' = U!Subscribed(d) BY <1>1 DEF U!Subscribed
  <2>3. \A i \in 1..m : v10'[c][i] \subseteq 1..Len(v2) BY <1>4 DEF U!Written, r, m
  <2>4. \A i \in 1..(m + 1) : v10'[c][i] \subseteq 1..Len(v2) BY <1>4, <1>5, <2>1, <2>3
  <2>5. ASSUME NEW d \in Openers
        PROVE  /\ v11[d] \subseteq 1..Len(v2) /\ v9'[d] \subseteq 0..Len(v2)
               /\ \A i \in 1..Len(v10'[d]) : v10'[d][i] \subseteq 1..Len(v2)
               /\ d \in v6 <=> v7[d] # "off"
               /\ ~U!Subscribed(d) => v10'[d] = <<>>
    <3>1. CASE d = c BY <3>1, <1>1, <1>4, <2>1, <2>4 DEF U!Written
    <3>2. CASE d # c BY <3>2, <1>4 DEF U!Written
    <3>3. QED BY <3>1, <3>2
  <2>6. QED BY <1>1, <2>1, <2>2, <2>5 DEF U!Written
<1>8. U!Registers' BY <1>1 DEF U!Registers, U!Name
<1>9. U!Follows'
  <2> DEFINE q == v10'[c] s == v11[c]
  <2>1. U!InOrder(s, r, v1) BY DEF U!Follows, r
  <2>2. \A i \in 1..m : q[i] = r[i] /\ i < m + 1 /\ ~(m + 1 < i) BY <1>4, <1>3
  <2>3. q[m + 1] = v1 /\ Len(q) = m + 1 /\ Len(r) = m BY <1>4 DEF m
  <2> HIDE DEF q, s
  <2>4. U!InOrder(s, q, v1)
    <3>1. \A i \in 1..(m + 1) : s \intersect v1 \subseteq q[i]
        BY <2>1, <2>2, <2>3, <1>5 DEF U!InOrder
    <3>2. \A i, j \in 1..(m + 1) : i < j =>
            s \intersect q[j] \subseteq q[i] /\ q[i] \intersect v1 \subseteq q[j]
        BY <2>1, <2>2, <2>3, <1>3, <1>5 DEF U!InOrder
    <3>3. \A i, j, k \in 1..(m + 1) : i < j /\ j < k => q[i] \intersect q[k] \subseteq q[j]
        BY <2>1, <2>2, <2>3, <1>3, <1>5 DEF U!InOrder
    <3>4. QED BY <2>3, <3>1, <3>2, <3>3 DEF U!InOrder
  <2>5. QED BY <1>1, <1>4, <2>4 DEF U!Follows, q, s
<1>10. U!Opened'
  <2>1. \A d \in Openers, n \in U!Records : n \notin v1 =>
          ((\A i \in 1..Len(v10[d]) : n \notin v10[d][i])
             => (\A i \in 1..Len(v10'[d]) : n \notin v10'[d][i]))
      BY <1>4, <1>5 DEF r, m
  <2>2. U!Records' = U!Records BY DEF U!Records
  <2>3. QED BY <1>1, <2>1, <2>2 DEF U!Opened
<1>11. U!Owes'
  <2>1. \A d \in Openers, n \in U!Records :
           (\E i \in 1..Len(v10[d]) : n \in v10[d][i])
             => (\E i \in 1..Len(v10'[d]) : n \in v10'[d][i])
      BY <1>4, <1>5 DEF r, m
  <2>2. \A n \in U!Records : n \in v1 => \E i \in 1..Len(v10'[c]) : n \in v10'[c][i]
    <3>1. m + 1 \in 1..(m + 1) BY <1>3
    <3>2. QED BY <1>4, <3>1
  <2>3. \A d \in Openers, n \in U!Records : U!Served(d, n)' <=> U!Served(d, n)
      BY <1>1 DEF U!Served, U!OnMachine
  <2>4. \A d \in Openers : U!Name(d)' = U!Name(d) BY <1>1 DEF U!Name
  <2>5. U!Records' = U!Records BY DEF U!Records
  <2>6. ASSUME NEW d \in Openers, NEW n \in U!Records, <<d, n>> \in v17, ~U!Served(d, n)
        PROVE  n \in v1 \ v9'[d] \/ \E i \in 1..Len(v10'[d]) : n \in v10'[d][i]
      BY <1>4, <2>1, <2>2, <2>6 DEF U!Owes
  <2>7. QED BY <1>1, <2>3, <2>4, <2>5, <2>6 DEF U!Owes
<1>12. QED BY <1>6, <1>7, <1>8, <1>9, <1>10, <1>11

\* A daemon connects again under a name no client had.
LEMMA UrlDialKeeps ==
    ASSUME U!IInv, NEW c \in Openers, U!Dial(c) PROVE U!IInv'
<1> USE DEF U!IInv
<1>1. /\ c \notin v6 /\ v5' = [v5 EXCEPT ![c] = @ + 1]
      /\ v6' = v6 \union {c} /\ v7' = [v7 EXCEPT ![c] = "seed"]
      /\ UNCHANGED <<v1, v2, v3, v4, v8, v9, v10, v11, v12, v13, v14, v15, v16, v17>>
    BY DEF U!Dial, U!remote
<1>2. U!Typed' BY <1>1 DEF U!Typed, U!Steps
<1>3. U!Written' BY <1>1 DEF U!Written, U!Typed, U!Subscribed
<1>4. U!Registers'
  <2>1. /\ v5[c] \in Nat /\ v5'[c] = v5[c] + 1
        /\ \A d \in Openers \ {c} : v5'[d] = v5[d] /\ v7'[d] = v7[d]
      BY <1>1 DEF U!Typed
  <2>2. v7'[c] = "seed" BY <1>1 DEF U!Typed
  <2>3. \A d \in Openers : v5[d] <= v5'[d] /\ v5[d] \in Nat /\ v5'[d] \in Nat
    <3>1. \A d \in Openers : v5[d] \in Nat BY DEF U!Typed
    <3>2. QED BY <3>1, <2>1
  <2>4. \A d \in v6 : d # c /\ d \in Openers /\ U!Name(d)' = U!Name(d)
    BY <1>1, <2>1 DEF U!Typed, U!Name
  <2>5. /\ <<c, v5'[c]>> \notin v3
        /\ \A d \in Openers : <<c, v5'[c]>> \notin v8[d].listed
    <3>1. v5'[c] \in Nat /\ ~(v5'[c] <= v5[c]) BY <2>1
    <3>2. QED BY <3>1 DEF U!Registers
  <2>6. \A d \in v6' : /\ v7'[d] = "on" => U!Name(d)' \in v3
                       /\ v7'[d] \in {"write", "on"} => v12[d] = U!Name(d)'
      BY <1>1, <2>1, <2>2, <2>4 DEF U!Registers
  <2>7. ASSUME NEW d \in Openers, NEW k \in Nat
        PROVE  /\ <<d, k>> \in v3 => k <= v5'[d]
               /\ d \in v6' /\ <<d, v5'[d]>> \in v3 => v7'[d] = "on"
               /\ \A e \in Openers : <<d, k>> \in v8[e].listed =>
                    /\ k <= v5'[d]
                    /\ d \in v6' /\ k = v5'[d] =>
                          v7'[d] = "on" /\ (v7'[e] = "write" => <<d, k>> \in v8[e].attached)
    <3>1. /\ <<d, k>> \in v3 => k <= v5[d]
          /\ \A e \in Openers : <<d, k>> \in v8[e].listed => k <= v5[d]
        BY DEF U!Registers
    <3>2. CASE d = c
      <4>1. <<d, k>> \in v3 => k <= v5'[d] BY <3>1, <2>3
      <4>2. \A e \in Openers : <<d, k>> \in v8[e].listed => k <= v5'[d] BY <3>1, <2>3
      <4>3. QED BY <3>2, <4>1, <4>2, <2>5
    <3>3. CASE d # c
      <4>1. \A e \in Openers : v7'[e] = "write" => v7[e] = "write" BY <2>1, <2>2
      <4>2. QED BY <3>1, <3>3, <4>1, <2>1, <1>1, <2>3 DEF U!Registers
    <3>4. QED BY <3>2, <3>3
  <2>8. QED BY <1>1, <2>6, <2>7 DEF U!Registers
<1>5. U!Follows' BY <1>1 DEF U!Follows
<1>6. U!Opened' BY <1>1 DEF U!Opened
<1>7. U!Owes'
  <2>1. v7[c] = "off" BY <1>1 DEF U!Written
  <2>2. \A d \in Openers \ {c} : v7'[d] = v7[d] /\ U!Name(d)' = U!Name(d)
    BY <1>1 DEF U!Typed, U!Name
  <2>3. QED BY <1>1, <2>1, <2>2, UrlOwesStays
<1>8. QED BY <1>2, <1>3, <1>4, <1>5, <1>6, <1>7

\* What was in the log when a daemon connects counts as seen.
LEMMA UrlConnectKeeps ==
    ASSUME U!IInv, NEW c \in Openers, U!Connect(c) PROVE U!IInv'
<1> USE DEF U!IInv
<1>1. /\ c \in v6 /\ v7[c] = "seed"
      /\ v11' = [v11 EXCEPT ![c] = v1] /\ v7' = [v7 EXCEPT ![c] = "sub"]
      /\ UNCHANGED <<v1, v2, v3, v4, v5, v6, v8, v9, v10, v12, v13, v14, v15, v16, v17>>
    BY DEF U!Connect, U!Seed, U!remote
<1>2. /\ v10'[c] = <<>> /\ ~U!Subscribed(c) /\ v11'[c] = v1
      /\ \A d \in Openers \ {c} : v11'[d] = v11[d]
    BY <1>1 DEF U!Written, U!Subscribed, U!Typed
<1>3. U!Typed' BY <1>1 DEF U!Typed, U!Steps, U!Written, U!Logs
<1>4. U!Written' BY <1>1, <1>2 DEF U!Written, U!Typed, U!Subscribed
<1>5. U!Registers' BY <1>1 DEF U!Registers, U!Typed, U!Name
<1>6. U!Follows' BY <1>1, <1>2 DEF U!Follows, U!InOrder
<1>7. U!Opened'
  <2>1. ASSUME NEW d \in Openers, NEW n \in U!Records, v15[<<d, n>>] > 0
        PROVE  n \in v11'[d] \/ (n \notin v1 /\ \A i \in 1..Len(v10[d]) : n \notin v10[d][i])
    <3>1. n \in v11[d] \/ (n \notin v1 /\ \A i \in 1..Len(v10[d]) : n \notin v10[d][i])
      BY <2>1 DEF U!Opened
    <3>2. CASE d = c
      <4>1. Len(v10[c]) = 0 BY <1>1, <1>2
      <4>2. QED BY <1>2, <3>2, <4>1
    <3>3. CASE d # c BY <1>2, <3>1, <3>3
    <3>4. QED BY <3>2, <3>3
  <2>2. U!Records' = U!Records BY DEF U!Records
  <2>3. QED BY <1>1, <2>1, <2>2 DEF U!Opened
<1>8. U!Owes' BY <1>1, UrlOwesStays DEF U!Typed, U!Name
<1>9. QED BY <1>3, <1>4, <1>5, <1>6, <1>7, <1>8

\* A daemon that subscribes does not know its own name yet.
LEMMA UrlSubscribeKeeps ==
    ASSUME U!IInv, NEW c \in Openers, U!Subscribe(c) PROVE U!IInv'
<1> USE DEF U!IInv
<1>1. /\ c \in v6 /\ v7[c] = "sub"
      /\ v12' = [v12 EXCEPT ![c] = Null] /\ v7' = [v7 EXCEPT ![c] = "read"]
      /\ UNCHANGED <<v1, v2, v3, v4, v5, v6, v8, v9, v10, v11, v13, v14, v15, v16, v17>>
    BY DEF U!Subscribe, U!remote
<1>2. U!Typed' BY <1>1 DEF U!Typed, U!Steps
<1>3. U!Written' BY <1>1 DEF U!Written, U!Typed, U!Subscribed
<1>4. U!Registers' BY <1>1 DEF U!Registers, U!Typed, U!Name
<1>5. U!Follows' BY <1>1 DEF U!Follows
<1>6. U!Opened' BY <1>1 DEF U!Opened
<1>7. U!Owes' BY <1>1, UrlOwesStays DEF U!Typed, U!Name
<1>8. QED BY <1>2, <1>3, <1>4, <1>5, <1>6, <1>7

\* register, first read: the names that are listed.
LEMMA UrlReadRegistryKeeps ==
    ASSUME U!IInv, NEW c \in Openers, U!ReadRegistry(c) PROVE U!IInv'
<1> USE DEF U!IInv
<1>1. /\ c \in v6 /\ v7[c] = "read" /\ v7' = [v7 EXCEPT ![c] = "clients"]
      /\ v8' = [v8 EXCEPT ![c].listed = v3]
      /\ UNCHANGED <<v1, v2, v3, v4, v5, v6, v9, v10, v11, v12, v13, v14, v15, v16, v17>>
    BY DEF U!ReadRegistry, U!remote
<1>2. U!Typed' BY <1>1 DEF U!Typed, U!Steps
<1>3. U!Written' BY <1>1 DEF U!Written, U!Typed, U!Subscribed
<1>4. U!Registers'
  <2>1. v8'[c].listed = v3 /\ \A d \in Openers \ {c} : v8'[d] = v8[d] /\ v7'[d] = v7[d]
      BY <1>1 DEF U!Typed
  <2>2. v7'[c] = "clients" BY <1>1 DEF U!Typed
  <2>3. QED BY <1>1, <2>1, <2>2 DEF U!Registers, U!Name, U!Typed
<1>5. U!Follows' BY <1>1 DEF U!Follows
<1>6. U!Opened' BY <1>1 DEF U!Opened
<1>7. U!Owes' BY <1>1, UrlOwesStays DEF U!Typed, U!Name
<1>8. QED BY <1>2, <1>3, <1>4, <1>5, <1>6, <1>7

\* register, second read: the clients that are attached.
LEMMA UrlReadClientsKeeps ==
    ASSUME U!IInv, NEW c \in Openers, U!ReadClients(c) PROVE U!IInv'
<1> USE DEF U!IInv
<1>1. /\ c \in v6 /\ v7[c] = "clients" /\ v7' = [v7 EXCEPT ![c] = "write"]
      /\ v8' = [v8 EXCEPT ![c].attached = U!Attached] /\ v12' = [v12 EXCEPT ![c] = U!Name(c)]
      /\ UNCHANGED <<v1, v2, v3, v4, v5, v6, v9, v10, v11, v13, v14, v15, v16, v17>>
    BY DEF U!ReadClients, U!remote
<1>2. \A d \in Openers : U!Name(d) \in U!Clients BY DEF U!Typed, U!Name, U!Clients
<1>3. U!Attached \in SUBSET U!Clients BY <1>2 DEF U!Typed, U!Attached
<1>4. U!Typed' BY <1>1, <1>2, <1>3 DEF U!Typed, U!Steps
<1>5. U!Written' BY <1>1 DEF U!Written, U!Typed, U!Subscribed
<1>6. U!Registers'
  <2>1. /\ v8'[c].listed = v8[c].listed /\ v8'[c].attached = U!Attached
        /\ \A d \in Openers \ {c} : v8'[d] = v8[d] /\ v7'[d] = v7[d] /\ v12'[d] = v12[d]
      BY <1>1 DEF U!Typed
  <2>2. v7'[c] = "write" /\ v12'[c] = U!Name(c) BY <1>1 DEF U!Typed
  <2>3. \A d \in v6 : <<d, v5[d]>> \in U!Attached BY DEF U!Attached, U!Name
  <2>4. U!Name(c)' = U!Name(c) BY <1>1 DEF U!Name
  <2>5. QED BY <1>1, <2>1, <2>2, <2>3, <2>4 DEF U!Registers, U!Name, U!Typed
<1>7. U!Follows' BY <1>1 DEF U!Follows
<1>8. U!Opened' BY <1>1 DEF U!Opened
<1>9. U!Owes' BY <1>1, UrlOwesStays DEF U!Typed, U!Name
<1>10. QED BY <1>4, <1>5, <1>6, <1>7, <1>8, <1>9

\* register, the write: who is gone is pruned, the daemon is added.
LEMMA UrlRegisterKeeps ==
    ASSUME U!IInv, NEW c \in Openers, U!Register(c) PROVE U!IInv'
<1> USE DEF U!IInv
<1>1. /\ c \in v6 /\ v7[c] = "write" /\ v7' = [v7 EXCEPT ![c] = "on"]
      /\ v3' = (v3 \ U!Stale(c)) \union {U!Name(c)} /\ v8' = [v8 EXCEPT ![c] = U!Unread]
      /\ UNCHANGED <<v1, v2, v5, v6, v9, v10, v11, v12, v13, v14, v15, v16, v17>>
    BY DEF U!Register
<1>2. U!Name(c) \in U!Clients BY DEF U!Typed, U!Name, U!Clients
<1>3. U!Typed' BY <1>1, <1>2 DEF U!Typed, U!Steps, U!Unread
<1>4. U!Written' BY <1>1 DEF U!Written, U!Typed, U!Subscribed
<1>5. U!Registers'
  <2>1. /\ v8'[c] = U!Unread /\ U!Unread.listed = {}
        /\ \A d \in Openers \ {c} : v8'[d] = v8[d] /\ v7'[d] = v7[d]
      BY <1>1 DEF U!Typed, U!Unread
  <2>2. v7'[c] = "on" BY <1>1 DEF U!Typed
  <2>3. U!Name(c) \in v3' BY <1>1
  <2>4. \A d \in Openers, k \in Nat : <<d, k>> \in v3' => <<d, k>> \in v3 \/ (d = c /\ k = v5[c])
      BY <1>1 DEF U!Name
  <2>5. \A d \in Openers : v5[d] \in Nat /\ U!Name(d) = <<d, v5[d]>> BY DEF U!Typed, U!Name
  <2>6. ASSUME NEW d \in v6, v7[d] = "on" PROVE U!Name(d) \in v3'
      BY <1>1, <2>5, <2>6 DEF U!Registers, U!Stale, U!Typed
  <2>7. \A d \in v6 : /\ v7'[d] = "on" => U!Name(d)' \in v3'
                      /\ v7'[d] \in {"write", "on"} => v12[d] = U!Name(d)'
    <3>1. \A d \in v6 : d \in Openers /\ U!Name(d)' = U!Name(d)
    BY <1>1 DEF U!Typed, U!Name
    <3>2. QED BY <1>1, <2>1, <2>2, <2>3, <2>6, <3>1 DEF U!Registers
  <2>8. ASSUME NEW d \in Openers, NEW k \in Nat
        PROVE  /\ <<d, k>> \in v3' => k <= v5[d]
               /\ d \in v6 /\ <<d, v5[d]>> \in v3' => v7'[d] = "on"
               /\ \A e \in Openers : <<d, k>> \in v8'[e].listed =>
                    /\ k <= v5[d]
                    /\ d \in v6 /\ k = v5[d] =>
                          v7'[d] = "on" /\ (v7'[e] = "write" => <<d, k>> \in v8'[e].attached)
      BY <2>1, <2>2, <2>4, <2>5 DEF U!Registers
  <2>9. QED BY <1>1, <2>7, <2>8 DEF U!Registers
<1>6. U!Follows' BY <1>1 DEF U!Follows
<1>7. U!Opened' BY <1>1 DEF U!Opened
<1>8. U!Owes' BY <1>1, UrlOwesStays DEF U!Typed, U!Name
<1>9. QED BY <1>3, <1>4, <1>5, <1>6, <1>7, <1>8

\* A lost connection takes its reports and what was owed along.
LEMMA UrlDropKeeps ==
    ASSUME U!IInv, NEW c \in Openers, U!Drop(c) PROVE U!IInv'
<1> USE DEF U!IInv
<1>1. /\ c \in v6 /\ v6' = v6 \ {c} /\ v7' = [v7 EXCEPT ![c] = "off"]
      /\ v9' = [v9 EXCEPT ![c] = U!Nothing] /\ v10' = [v10 EXCEPT ![c] = <<>>]
      /\ v17' = {p \in v17 : p[1] # c} /\ v8' = [v8 EXCEPT ![c] = U!Unread]
      /\ UNCHANGED <<v1, v2, v3, v4, v5, v11, v12, v13, v14, v15, v16>>
    BY DEF U!Drop, U!remote
<1>2. /\ v10'[c] = <<>> /\ v7'[c] = "off" /\ v9'[c] = {0} /\ v8'[c] = U!Unread
      /\ \A d \in Openers \ {c} : /\ v10'[d] = v10[d] /\ v7'[d] = v7[d] /\ v9'[d] = v9[d]
                               /\ v8'[d] = v8[d]
    BY <1>1 DEF U!Typed, U!Nothing
<1>3. U!Typed' BY <1>1 DEF U!Typed, U!Steps, U!Unread, U!Nothing, U!Logs
<1>4. U!Written'
  <2>1. {0} \subseteq 0..Len(v2) BY DEF U!Typed
  <2>2. QED BY <1>1, <1>2, <2>1 DEF U!Written, U!Subscribed
<1>5. U!Registers'
  <2>1. U!Unread.listed = {} BY DEF U!Unread
  <2>2. \A d \in Openers : v5[d] \in Nat BY DEF U!Typed
  <2>3. QED BY <1>1, <1>2, <2>1, <2>2 DEF U!Registers, U!Name, U!Typed
<1>6. U!Follows' BY <1>1, <1>2 DEF U!Follows, U!InOrder
<1>7. U!Opened'
  <2>1. ASSUME NEW d \in Openers, NEW n \in U!Records, v15[<<d, n>>] > 0
        PROVE  n \in v11[d] \/ (n \notin v1 /\ \A i \in 1..Len(v10'[d]) : n \notin v10'[d][i])
    <3>1. n \in v11[d] \/ (n \notin v1 /\ \A i \in 1..Len(v10[d]) : n \notin v10[d][i])
      BY <2>1 DEF U!Opened
    <3>2. CASE d = c
      <4>1. Len(v10'[c]) = 0 BY <1>2
      <4>2. QED BY <3>1, <3>2, <4>1
    <3>3. CASE d # c BY <1>2, <3>1, <3>3
    <3>4. QED BY <3>2, <3>3
  <2>2. U!Records' = U!Records BY DEF U!Records
  <2>3. QED BY <1>1, <2>1, <2>2 DEF U!Opened
<1>8. U!Owes' BY <1>1, <1>2 DEF U!Owes, U!Served, U!OnMachine, U!Name
<1>9. QED BY <1>3, <1>4, <1>5, <1>6, <1>7, <1>8

\* The rate limits have no part in the invariant.
LEMMA UrlSameKeeps ==
    ASSUME U!IInv, UNCHANGED <<v1, v2, v3, v5, v6, v7, v8, v9, v10, v11, v12, v14,
                             v15, v16, v17>>
    PROVE  U!IInv'
<1>1. U!Owes' BY UrlOwesStays DEF U!Name
<1>2. U!Typed' BY DEF U!IInv, U!Typed, U!Records, U!Clients, U!Logs, U!Steps
<1>3. U!Written' BY DEF U!IInv, U!Written, U!Subscribed
<1>4. U!Registers' BY DEF U!IInv, U!Registers, U!Name
<1>5. U!Follows' BY DEF U!IInv, U!Follows
<1>6. U!Opened' BY DEF U!IInv, U!Opened, U!Records
<1>7. QED BY <1>1, <1>2, <1>3, <1>4, <1>5, <1>6 DEF U!IInv

\* Tokens come back.
LEMMA UrlRefillKeeps ==
    ASSUME U!IInv, NEW c \in Openers, U!Refill(c) PROVE U!IInv'
<1>1. UNCHANGED <<v1, v2, v3, v4, v5, v6, v7, v8, v9, v10, v11, v12, v14, v15, v16, v17>>
    BY DEF U!Refill, U!remote
<1>2. QED BY <1>1, UrlSameKeeps

\* No step.
LEMMA UrlStutterKeeps == ASSUME U!IInv, UNCHANGED U!ovars PROVE U!IInv'
BY UrlSameKeeps DEF U!ovars

\* One report: the fresh records of this machine open within the limits.
LEMMA UrlHandleKeeps ==
    ASSUME MaxRecords \in Nat, U!IInv, NEW c \in Openers, U!Handle(c) PROVE U!IInv'
<1> USE DEF U!IInv
<1> DEFINE r == v10[c]
           recs == Head(r)
           mine == {n \in U!Fresh(c, recs) : ~U!Claimed(c, n)}
           now == {n \in mine : U!Cardinality({k \in mine : k < n}) < U!Allowed(c)}
<1>1. /\ c \in v6 /\ v7[c] = "on" /\ r # <<>> /\ v10' = [v10 EXCEPT ![c] = Tail(@)]
      /\ v11' = [v11 EXCEPT ![c] = recs]
      /\ v14' = IF c \in Elsewhere THEN v14 ELSE v14 \union now
      /\ v15' = [p \in DOMAIN v15 |-> IF p[1] = c /\ p[2] \in now THEN v15[p] + 1 ELSE v15[p]]
      /\ v16' = v16 \union ({c} \X (mine \ now))
      /\ UNCHANGED <<v1, v2, v3, v4, v5, v6, v7, v8, v9, v12, v17>>
  <2>1. /\ c \in v6 /\ v7[c] = "on" /\ r # <<>> /\ v10' = [v10 EXCEPT ![c] = Tail(@)]
        /\ UNCHANGED <<v1, v2, v3, v4, v5, v6, v7, v8, v9, v12, v17>>
    BY DEF U!Handle, U!remote
  <2>2. /\ v11' = [v11 EXCEPT ![c] = recs]
        /\ v14' = IF c \in Elsewhere THEN v14 ELSE v14 \union now
    BY DEF U!Handle
  <2>3. v15' = [p \in DOMAIN v15 |-> IF p[1] = c /\ p[2] \in now THEN v15[p] + 1 ELSE v15[p]]
    BY DEF U!Handle
  <2>4. v16' = v16 \union ({c} \X (mine \ now)) BY DEF U!Handle
  <2>5. QED BY <2>1, <2>2, <2>3, <2>4
<1>2. now \subseteq mine /\ mine \subseteq recs \ v11[c]
    BY DEF U!Fresh
<1>3. \A n \in mine : v2[n] \in {Null, v12[c]} /\ ~U!Claimed(c, n) BY DEF U!Fresh
<1>4. \A n \in recs \ v11[c] : v2[n] \in {Null, v12[c]} => n \in mine \/ U!Claimed(c, n)
    BY DEF U!Fresh
<1> HIDE DEF now, mine
<1>5. /\ r \in Seq(U!Logs) /\ Len(r) \in Nat \ {0} /\ recs = r[1] /\ Len(Tail(r)) = Len(r) - 1
      /\ \A i \in 1..(Len(r) - 1) : Tail(r)[i] = r[i + 1]
      /\ Tail(r) \in Seq(U!Logs) /\ recs \in U!Logs
    BY <1>1 DEF U!Typed
<1>6. /\ v10'[c] = Tail(r) /\ v11'[c] = recs
      /\ \A d \in Openers \ {c} : v10'[d] = v10[d] /\ v11'[d] = v11[d]
      /\ v10' \in [Openers -> Seq(U!Logs)] /\ v11' \in [Openers -> U!Logs]
    BY <1>1, <1>5 DEF U!Typed
<1>7. recs \subseteq 1..Len(v2) /\ Len(v2) \in Nat /\ 1..Len(v2) \subseteq U!Records
  <2>1. 1 \in 1..Len(r) BY <1>5
  <2>2. recs \subseteq 1..Len(v2) BY <1>5, <2>1 DEF U!Written
  <2>3. Len(v2) \in Nat /\ Len(v2) <= MaxRecords BY DEF U!Typed
  <2>4. QED BY <2>2, <2>3 DEF U!Records
<1> HIDE DEF r, recs
<1>8. \A i \in 1..(Len(r) - 1) : i + 1 \in 1..Len(r) /\ 1 < i + 1 BY <1>5
<1>9. 1 \in 1..Len(r) BY <1>5
<1>10. \A d \in Openers, n \in U!Records :
         /\ v15'[<<d, n>>] = IF d = c /\ n \in now THEN v15[<<d, n>>] + 1 ELSE v15[<<d, n>>]
         /\ v15[<<d, n>>] \in Nat /\ v15'[<<d, n>>] \in Nat
         /\ v15[<<d, n>>] > 0 => v15'[<<d, n>>] > 0
         /\ v15'[<<d, n>>] > 0 => v15[<<d, n>>] > 0 \/ (d = c /\ n \in now)
  <2>1. DOMAIN v15 = Openers \X U!Records BY DEF U!Typed
  <2>2. QED BY <1>1, <2>1 DEF U!Typed
<1>11. v15' \in [Openers \X U!Records -> Nat]
  <2>1. DOMAIN v15 = Openers \X U!Records /\ \A p \in Openers \X U!Records : v15[p] \in Nat
    BY DEF U!Typed
  <2>2. QED BY <1>1, <2>1
<1>12. U!Typed' BY <1>1, <1>6, <1>11 DEF U!Typed
<1>13. U!Written'
  <2>1. U!Subscribed(c) /\ U!Subscribed(c)' BY <1>1 DEF U!Subscribed
  <2>2. \A i \in 1..Len(Tail(r)) : Tail(r)[i] \subseteq 1..Len(v2)
      BY <1>5, <1>8 DEF U!Written, r
  <2>3. UNCHANGED <<v1, v2, v6, v7, v9>> BY <1>1
  <2>4. \A d \in Openers : U!Subscribed(d)' = U!Subscribed(d) BY <2>3 DEF U!Subscribed
  <2> SUFFICES ASSUME NEW d \in Openers
               PROVE  /\ v11'[d] \subseteq 1..Len(v2)
                      /\ \A i \in 1..Len(v10'[d]) : v10'[d][i] \subseteq 1..Len(v2)
                      /\ ~U!Subscribed(d) => v10'[d] = <<>>
      BY <2>3, <2>4 DEF U!Written
  <2>5. CASE d = c BY <2>5, <1>6, <1>7, <2>1, <2>2
  <2>6. CASE d # c BY <2>6, <1>6 DEF U!Written
  <2>7. QED BY <2>5, <2>6
<1>14. U!Registers' BY <1>1 DEF U!Registers, U!Name
<1>15. U!Follows'
  <2> DEFINE q == Tail(r)
  <2>1. U!InOrder(v11[c], r, v1) BY DEF U!Follows, r
  <2>2. recs = r[1] BY <1>5
  <2>3. \A i \in 1..Len(q) : q[i] = r[i + 1] /\ i + 1 \in 1..Len(r) /\ 1 < i + 1 BY <1>5, <1>8
  <2>4. \A i, j \in 1..Len(q) : i < j => i + 1 < j + 1 BY <1>5
  <2> HIDE DEF q
  <2>5. U!InOrder(recs, q, v1)
    <3>1. \A i \in 1..Len(q) : recs \intersect v1 \subseteq q[i]
        BY <2>1, <2>2, <2>3, <1>9 DEF U!InOrder
    <3>2. \A i, j \in 1..Len(q) : i < j => recs \intersect q[j] \subseteq q[i]
        BY <2>1, <2>2, <2>3, <2>4, <1>9 DEF U!InOrder
    <3>3. \A i, j \in 1..Len(q) : i < j => q[i] \intersect v1 \subseteq q[j]
        BY <2>1, <2>3, <2>4 DEF U!InOrder
    <3>4. \A i, j, k \in 1..Len(q) : i < j /\ j < k => q[i] \intersect q[k] \subseteq q[j]
        BY <2>1, <2>3, <2>4 DEF U!InOrder
    <3>5. QED BY <3>1, <3>2, <3>3, <3>4 DEF U!InOrder
  <2>6. QED BY <1>1, <1>6, <2>5 DEF U!Follows, q
<1>16. U!Opened'
  <2>1. \A n \in now : n \in recs /\ n \notin v11[c] /\ n \in U!Records /\ n <= Len(v2)
      BY <1>2, <1>7
  <2>2. \A n \in now : v2[n] = Null \/ v2[n][1] = c
    <3>1. v12[c] = <<c, v5[c]>> BY <1>1 DEF U!Registers, U!Name
    <3>2. QED BY <1>3, <3>1, <1>2
  <2>3. c \notin Elsewhere => now \intersect v14 = {} BY <1>2, <1>3 DEF U!Claimed
  <2>4. \A n \in now : v15[<<c, n>>] = 0
    <3> SUFFICES ASSUME NEW n \in now, v15[<<c, n>>] > 0 PROVE FALSE
        BY <2>1, <1>10
    <3>1. n \in r[1] BY <2>1, <1>5
    <3>2. QED BY <3>1, <2>1, <1>9 DEF U!Opened, r
  <2>5. ASSUME NEW n \in U!Records, v15'[<<c, n>>] > 0
        PROVE  n \in recs \/ (n \notin v1 /\ \A i \in 1..Len(Tail(r)) : n \notin Tail(r)[i])
    <3> SUFFICES ASSUME n \notin recs
                 PROVE  n \notin v1 /\ \A i \in 1..(Len(r) - 1) : n \notin r[i + 1]
        BY <1>5
    <3>1. v15[<<c, n>>] > 0 BY <2>5, <2>1, <1>10
    <3>2. CASE n \in v11[c]
      <4>1. U!InOrder(v11[c], r, v1) BY DEF U!Follows, r
      <4>2. v11[c] \intersect v1 \subseteq r[1] BY <4>1, <1>9 DEF U!InOrder
      <4>4. \A i \in 1..(Len(r) - 1) : v11[c] \intersect r[i + 1] \subseteq r[1]
          BY <4>1, <1>8, <1>9 DEF U!InOrder
      <4>5. QED BY <3>2, <4>2, <4>4, <1>5
    <3>3. CASE n \notin v11[c]
        BY <3>1, <3>3, <1>8 DEF U!Opened, r
    <3>4. QED BY <3>2, <3>3
  <2>6. ASSUME NEW d \in Openers, NEW n \in U!Records, v15'[<<d, n>>] > 0
        PROVE  /\ v15'[<<d, n>>] = 1 /\ n <= Len(v2) /\ (v2[n] = Null \/ v2[n][1] = d)
               /\ \/ n \in v11'[d]
                  \/ (n \notin v1 /\ \A i \in 1..Len(v10'[d]) : n \notin v10'[d][i])
    <3>1. CASE d = c
      <4>1. CASE n \in now BY <3>1, <4>1, <2>1, <2>2, <2>4, <1>6, <1>10
      <4>2. CASE n \notin now
        <5>1. v15[<<c, n>>] > 0 /\ v15'[<<c, n>>] = v15[<<c, n>>] BY <2>6, <3>1, <4>2, <1>10
        <5>2. QED BY <3>1, <5>1, <2>5, <2>6, <1>6 DEF U!Opened
      <4>3. QED BY <4>1, <4>2
    <3>2. CASE d # c
      <4>1. v15[<<d, n>>] > 0 /\ v15'[<<d, n>>] = v15[<<d, n>>] BY <2>6, <3>2, <1>10
      <4>2. QED BY <3>2, <4>1, <1>6 DEF U!Opened
    <3>3. QED BY <3>1, <3>2
  <2>7. ASSUME NEW d \in Openers \ Elsewhere, NEW n \in U!Records, v15'[<<d, n>>] > 0
        PROVE  n \in v14' /\ \A e \in Openers \ Elsewhere : v15'[<<e, n>>] > 0 => e = d
    <3>1. CASE c \in Elsewhere BY <3>1, <2>7, <1>1, <1>10 DEF U!Opened
    <3>2. CASE c \notin Elsewhere /\ n \in now
      <4>1. \A e \in Openers \ Elsewhere : ~(v15[<<e, n>>] > 0) BY <3>2, <2>3 DEF U!Opened
      <4>2. QED BY <3>2, <4>1, <2>7, <1>1, <1>10
    <3>3. CASE c \notin Elsewhere /\ n \notin now BY <3>3, <2>7, <1>1, <1>10 DEF U!Opened
    <3>4. QED BY <3>1, <3>2, <3>3
  <2>8. ASSUME NEW n \in v14'
        PROVE  n \in U!Records /\ \E d \in Openers \ Elsewhere : v15'[<<d, n>>] > 0
    <3>1. CASE n \in v14 BY <3>1, <1>10 DEF U!Opened
    <3>2. CASE n \notin v14
      <4>1. c \notin Elsewhere /\ n \in now BY <3>2, <2>8, <1>1
      <4>2. n \in U!Records /\ v15'[<<c, n>>] > 0 BY <4>1, <2>1, <1>10
      <4>3. QED BY <4>1, <4>2
    <3>3. QED BY <3>1, <3>2
  <2>9. U!Records' = U!Records BY DEF U!Records
  <2>10. \A d \in Openers, n \in U!Records : v15'[<<d, n>>] > 0 =>
          /\ v15'[<<d, n>>] = 1 /\ n <= Len(v2) /\ (v2[n] = Null \/ v2[n][1] = d)
          /\ \/ n \in v11'[d]
             \/ (n \notin v1 /\ \A i \in 1..Len(v10'[d]) : n \notin v10'[d][i])
          /\ d \notin Elsewhere =>
               n \in v14' /\ \A e \in Openers \ Elsewhere : v15'[<<e, n>>] > 0 => e = d
      BY <2>6, <2>7
  <2>11. UNCHANGED <<v2, v1>> BY <1>1
  <2> HIDE DEF mine, now, recs, r
  <2>12. QED BY <2>8, <2>9, <2>10, <2>11 DEF U!Opened
<1>17. U!Owes'
  <2>1. ASSUME NEW d \in Openers, NEW n \in U!Records, U!Served(d, n) PROVE U!Served(d, n)'
    <3>1. U!OnMachine(d) \subseteq Openers BY DEF U!OnMachine
    <3>2. QED BY <2>1, <3>1, <1>1, <1>10 DEF U!Served, U!OnMachine
  <2>2. ASSUME NEW n \in U!Records, <<c, n>> \in v17, ~U!Served(c, n)
        PROVE  \/ U!Served(c, n)'
               \/ n \notin recs /\ (n \in v1 \ v9[c] \/ \E i \in 1..Len(Tail(r)) : n \in Tail(r)[i])
    <3>1. /\ n \notin v11[c] /\ v2[n] \in {Null, v12[c]}
          /\ n \in v1 \ v9[c] \/ \E i \in 1..Len(r) : n \in r[i]
        BY <2>2, <1>1 DEF U!Owes, U!Registers, r
    <3>2. CASE n \in recs
      <4>1. c \in U!OnMachine(c) BY DEF U!OnMachine
      <4>2. CASE U!Claimed(c, n)
        <5>1. c \notin Elsewhere /\ \E d \in Openers \ Elsewhere : v15[<<d, n>>] > 0
            BY <4>2 DEF U!Claimed, U!Opened
        <5>2. QED BY <5>1, <2>2 DEF U!Served, U!OnMachine
      <4>3. CASE n \in mine
        <5>1. CASE n \in now
          <6>1. v15'[<<c, n>>] > 0 BY <5>1, <1>10
          <6>2. QED BY <6>1, <4>1 DEF U!Served, U!OnMachine
        <5>2. CASE n \notin now
          <6>1. <<c, n>> \in v16' BY <5>2, <4>3, <1>1
          <6>2. QED BY <6>1, <4>1 DEF U!Served, U!OnMachine
        <5>3. QED BY <5>1, <5>2
      <4>4. QED BY <3>1, <3>2, <4>2, <4>3, <1>4
    <3>3. CASE n \notin recs
      <4>1. ASSUME NEW i \in 1..Len(r), n \in r[i]
            PROVE  \E k \in 1..Len(Tail(r)) : n \in Tail(r)[k]
        <5>1. i # 1 BY <4>1, <3>3, <1>5
        <5>2. i - 1 \in 1..(Len(r) - 1) /\ (i - 1) + 1 = i BY <5>1, <1>5
        <5>3. QED BY <4>1, <5>2, <1>5
      <4>2. QED BY <3>1, <3>3, <4>1
    <3>4. QED BY <3>2, <3>3
  <2>3. U!Records' = U!Records /\ \A d \in Openers : U!Name(d)' = U!Name(d)
    BY <1>1 DEF U!Records, U!Name
  <2>4. ASSUME NEW d \in Openers, NEW n \in U!Records, <<d, n>> \in v17
        PROVE  /\ d \in v6 /\ v7[d] = "on" /\ n <= Len(v2) /\ v2[n] \in {Null, U!Name(d)}
               /\ \/ U!Served(d, n)'
                  \/ /\ n \notin v11'[d]
                     /\ \/ n \in v1 \ v9[d]
                        \/ \E i \in 1..Len(v10'[d]) : n \in v10'[d][i]
    <3>1. CASE U!Served(d, n) BY <2>1, <2>4, <3>1 DEF U!Owes
    <3>2. CASE ~U!Served(d, n) /\ d = c BY <2>2, <2>4, <3>2, <1>6 DEF U!Owes
    <3>3. CASE ~U!Served(d, n) /\ d # c BY <2>4, <3>3, <1>6 DEF U!Owes
    <3>4. QED BY <3>1, <3>2, <3>3
  <2>5. UNCHANGED <<v1, v2, v6, v7, v9, v17>> BY <1>1
  <2> HIDE DEF mine, now, recs, r
  <2> SUFFICES ASSUME NEW d \in Openers, NEW n \in U!Records, <<d, n>> \in v17
               PROVE  /\ d \in v6 /\ v7[d] = "on" /\ n <= Len(v2) /\ v2[n] \in {Null, U!Name(d)}
                      /\ \/ U!Served(d, n)'
                         \/ /\ n \notin v11'[d]
                            /\ \/ n \in v1 \ v9[d]
                               \/ \E i \in 1..Len(v10'[d]) : n \in v10'[d][i]
    BY <2>3, <2>5 DEF U!Owes
  <2>6. QED BY <2>4
<1>18. QED BY <1>12, <1>13, <1>14, <1>15, <1>16, <1>17

\* Every step of the URLs keeps the invariant.
LEMMA UrlStep == MaxRecords \in Nat /\ U!IInv /\ [U!Next]_(U!ovars) => U!IInv'
BY UrlForwardKeeps, UrlReportKeeps, UrlDialKeeps, UrlConnectKeeps, UrlSubscribeKeeps,
   UrlReadRegistryKeeps, UrlReadClientsKeeps, UrlRegisterKeeps, UrlDropKeeps, UrlHandleKeeps, UrlRefillKeeps,
   UrlStutterKeeps DEF U!Next

\* The invariant gives the property.
LEMMA UrlHolds == MaxRecords \in Nat /\ U!IInv => U!OpenedOnce
<1> SUFFICES ASSUME MaxRecords \in Nat, U!IInv PROVE U!OpenedOnce OBVIOUS
<1> USE DEF U!IInv
<1>1. U!AtMostOnce
  <2> SUFFICES ASSUME NEW c \in Openers, NEW n \in U!Records
               PROVE  /\ v15[<<c, n>>] <= 1 /\ U!Times(c, n) <= 1
                      /\ v15[<<c, n>>] > 0 => v2[n] = Null \/ v2[n][1] = c
      BY DEF U!AtMostOnce
  <2> DEFINE opened == {d \in U!OnMachine(c) : v15[<<d, n>>] > 0}
  <2>1. opened = {} \/ \E d \in opened : opened = {d}
    <3>1. U!OnMachine(c) \subseteq Openers BY DEF U!OnMachine
    <3>2. CASE c \in Elsewhere BY <3>2 DEF U!OnMachine
    <3>3. CASE c \notin Elsewhere
      <4>1. \A d, e \in opened : d = e BY <3>3 DEF U!OnMachine, U!Opened
      <4>2. QED BY <4>1
    <3>4. QED BY <3>2, <3>3
  <2>2. Cardinality(opened) <= 1
    <3> HIDE DEF opened
    <3>1. CASE opened = {} BY <3>1, FS_EmptySet
    <3>2. ASSUME NEW d \in opened, opened = {d} PROVE Cardinality(opened) <= 1
      <4>1. Cardinality({d}) = 1 BY FS_Singleton
      <4>2. QED BY <3>2, <4>1
    <3>3. QED BY <2>1, <3>1, <3>2
  <2>3. v15[<<c, n>>] \in Nat BY DEF U!Typed
  <2>4. v15[<<c, n>>] <= 1 BY <2>3 DEF U!Opened
  <2>5. U!Times(c, n) <= 1
    <3>1. U!Cardinality(opened) = Cardinality(opened) BY DEF Cardinality, U!Cardinality
    <3>2. QED BY <2>2, <3>1 DEF U!Times
  <2>6. v15[<<c, n>>] > 0 => v2[n] = Null \/ v2[n][1] = c BY DEF U!Opened
  <2>7. QED BY <2>4, <2>5, <2>6
<1>2. U!Reaches
  <2> SUFFICES ASSUME NEW p \in v17, v10[p[1]] = <<>>, v9[p[1]] = v1 PROVE U!Served(p[1], p[2])
      BY DEF U!Reaches, U!Served
  <2>1. p[1] \in Openers /\ p[2] \in U!Records /\ p = <<p[1], p[2]>> BY DEF U!Typed
  <2>2. QED BY <2>1 DEF U!Owes
<1>3. U!StaysListed BY DEF U!StaysListed, U!Registers
<1>4. QED BY <1>1, <1>2, <1>3 DEF U!OpenedOnce

\* Of a behaviour of this part.
UrlInv == part = "urls" => U!IInv

(* However daemons connect, lose their connection and come back, whatever   *)
(* the log loses and whoever is on the machine: a URL opens at most once on *)
(* a machine, and does open unless the rate limits dropped it (openurl.go). *)
THEOREM OpensOnce == ASSUME MaxRecords \in Nat PROVE PartsSpec => []OpenedOnce
<1>1. Starts => UrlInv BY UrlInit DEF Starts, UrlInv
<1>2. UrlInv /\ [Steps]_all => UrlInv'
    <2> SUFFICES ASSUME UrlInv, [Steps]_all PROVE UrlInv' OBVIOUS
    <2>1. CASE UNCHANGED all
        <3>1. UNCHANGED U!ovars /\ UNCHANGED part
            BY <2>1 DEF all, After0, After10, After12, U!ovars
        <3>2. QED BY <3>1, UrlStutterKeeps DEF UrlInv
    <2>2. CASE part # "urls" /\ Steps BY <2>2 DEF Steps, UrlInv
    <2>3. CASE part = "urls" /\ U!Next BY <2>3, UrlStep DEF UrlInv
    <2>4. QED BY <2>1, <2>2, <2>3 DEF Steps
<1>3. UrlInv => OpenedOnce BY UrlHolds DEF UrlInv, OpenedOnce
<1>4. QED BY <1>1, <1>2, <1>3, PTL DEF PartsSpec

----------------------------------------------------------------------------
(* The kills (PickerKill): v1 to v20 are remote, epoch, mirror, cache,      *)
(* rows, hostIds, known, marked, staged, batch, results, running,           *)
(* forgotten, probes, read, hit, hidden, restarts, refreshes, kills.        *)

\* The invariant of the kills holds at the start.
LEMMA KillInit == Bridged \subseteq Hosted /\ K!Init => K!IInv
<1> SUFFICES ASSUME Bridged \subseteq Hosted, K!Init PROVE K!IInv OBVIOUS
<1>1. K!Cached(Hosted \ Bridged) \in SUBSET K!Rows BY DEF K!Cached, K!Rows
<1>2. v1 \in [K!Ids -> Hosted \cup {Null}]
  <2>1. v1 \in [K!Ids -> Hosted] BY DEF K!Init
  <2>2. QED BY <2>1
<1>3. v14 \in [1..MaxProbes -> K!Probe] BY DEF K!Init, K!Probe, K!Unasked
<1>7. K!Typed BY <1>1, <1>2, <1>3 DEF K!Init, K!Typed
<1>4. K!Faithful BY DEF K!Init, K!Faithful, K!Right, K!Cached, K!Unasked
<1>5. K!Hits /\ K!Absent /\ K!Undone BY DEF K!Init, K!Hits, K!Absent, K!Undone
<1>6. QED BY <1>7, <1>4, <1>5 DEF K!IInv

(* The rows a host shows are rows of its lists, or carry no id. *)
LEMMA KillShownRight ==
    ASSUME K!IInv, NEW r \in K!Shown PROVE r \in K!Rows /\ K!Right(r)
<1>1. CASE r \in v5 BY <1>1 DEF K!IInv, K!Typed, K!Faithful
<1>2. ASSUME NEW n \in v7, r = IF n \in K!NamesOf(v6) THEN CHOOSE x \in v6 : x.name = n
                            ELSE [name |-> n, id |-> 0, born |-> 0]
      PROVE r \in K!Rows /\ K!Right(r)
  <2>1. CASE n \in K!NamesOf(v6)
    <3>1. \E x \in v6 : x.name = n BY <2>1 DEF K!NamesOf
    <3>2. r \in v6 BY <3>1, <1>2, <2>1
    <3>3. QED BY <3>2 DEF K!IInv, K!Typed, K!Faithful
  <2>2. CASE n \notin K!NamesOf(v6)
    <3>1. n \in Hosted BY <1>2 DEF K!IInv, K!Typed
    <3>2. QED BY <3>1, <2>2, <1>2 DEF K!Rows, K!Right
  <2>3. QED BY <2>1, <2>2
<1>3. QED BY <1>1, <1>2 DEF K!Shown

\* A listing of the remote carries the ids and the age of now.
LEMMA KillListingRight ==
    ASSUME K!IInv PROVE K!Listing \in SUBSET K!Rows /\ \A t \in K!Listing : K!Right(t)
<1>1. K!Ids \subseteq Nat BY DEF K!Ids
<1>2. QED BY <1>1 DEF K!IInv, K!Typed, K!Listing, K!Rows, K!Right

(* While remote and age stay, so does what is right.                        *)
LEMMA KillStillFaithful ==
    ASSUME K!IInv, UNCHANGED <<v1, v2>>, NEW t PROVE K!Right(t) <=> K!Right(t)'
BY DEF K!Right, K!Ids

\* A probe that learns only what is right keeps every row right.
LEMMA KillProbeKeeps ==
    ASSUME K!IInv, NEW p \in 1..MaxProbes, NEW q \in K!Probe,
           v14' = [v14 EXCEPT ![p] = q], \A t \in q.list \cup q.items : K!Right(t),
           UNCHANGED <<v1, v2, v5, v6, v9, v10>>
    PROVE  /\ v14' \in [1..MaxProbes -> K!Probe]
           /\ K!Faithful'
BY KillStillFaithful DEF K!IInv, K!Typed, K!Faithful

\* Every step of the picker and of the remote keeps the invariant.
LEMMA KillStep == K!IInv /\ [K!Next]_(K!vars) => K!IInv'
<1> SUFFICES ASSUME K!IInv, [K!Next]_(K!vars) PROVE K!IInv' OBVIOUS
<1> USE DEF K!IInv
<1>1. CASE UNCHANGED K!vars
    BY <1>1, KillStillFaithful DEF K!vars, K!Typed, K!Faithful, K!Hits, K!Absent, K!Undone,
                                   K!Ids
<1>2. ASSUME NEW p \in 1..MaxProbes, K!ProbeAsk(p) PROVE K!IInv'
  <2>1. v14[p].at = "off" BY <1>2 DEF K!ProbeAsk
  <2>2. K!Typed' /\ K!Faithful'
    <3> DEFINE q == [K!Unasked EXCEPT !.at = "asked", !.bridges = v3]
    <3>1. q \in K!Probe /\ q.list = {} /\ q.items = {} BY DEF K!Probe, K!Unasked, K!Typed
    <3>2. v14' \in [1..MaxProbes -> K!Probe] /\ K!Faithful'
      <4>1. v14' = [v14 EXCEPT ![p] = q] BY <1>2 DEF K!ProbeAsk
      <4>2. \A t \in q.list \cup q.items : K!Right(t) BY <3>1
      <4> HIDE DEF q
      <4>3. QED
        BY <1>2, <3>1, <4>1, <4>2, KillProbeKeeps DEF K!ProbeAsk, K!killVars, K!listVars,
           K!worldVars
    <3>3. QED BY <1>2, <3>2 DEF K!ProbeAsk, K!Typed, K!killVars, K!listVars, K!worldVars, K!Ids
  <2>3. K!Undone'
      BY <1>2, <2>1 DEF K!ProbeAsk, K!Typed, K!Undone, K!killVars, K!listVars, K!worldVars
  <2>4. QED BY <1>2, <2>2, <2>3 DEF K!ProbeAsk, K!Hits, K!Absent, K!killVars, K!listVars,
                                    K!worldVars
<1>3. ASSUME NEW p \in 1..MaxProbes, NEW up \in BOOLEAN, K!ProbeAnswer(p, up) PROVE K!IInv'
  <2>1. v14[p].at = "asked" BY <1>3 DEF K!ProbeAnswer
  <2> DEFINE q == [v14[p] EXCEPT !.at = IF up THEN "listed" ELSE "down",
                                    !.list = IF up THEN K!Listing ELSE {}]
  <2>2. v14' = [v14 EXCEPT ![p] = q]
      BY <1>3 DEF K!ProbeAnswer, K!Typed
  <2>3. /\ q \in K!Probe
        /\ \A t \in q.list \cup q.items : K!Right(t)
    <3>1. v14[p] \in K!Probe BY DEF K!Typed
    <3>2. q \in K!Probe /\ q.items = v14[p].items
        /\ q.list = (IF up THEN K!Listing ELSE {})
        BY <3>1, KillListingRight DEF K!Probe
    <3>3. QED BY <3>2, KillListingRight DEF K!Faithful
  <2>4. K!Typed' /\ K!Faithful'
      BY <1>3, <2>2, <2>3, KillProbeKeeps DEF K!ProbeAnswer, K!Typed, K!killVars,
                                              K!listVars, K!worldVars, K!Ids
  <2>5. K!Undone'
      BY <1>3, <2>1 DEF K!ProbeAnswer, K!Typed, K!Undone, K!killVars, K!listVars, K!worldVars
  <2>6. QED BY <1>3, <2>4, <2>5 DEF K!ProbeAnswer, K!Hits, K!Absent, K!killVars, K!listVars,
                                    K!worldVars
<1>4. ASSUME NEW p \in 1..MaxProbes, K!ProbeWrite(p) PROVE K!IInv'
  <2> DEFINE pr == v14[p]
             ls == IF pr.at = "listed" THEN pr.list ELSE K!Cached(v4)
             its == {r \in ls : r.name \notin pr.bridges}
             q == [pr EXCEPT !.at = "ready", !.items = its]
  <2>1. /\ v14' = [v14 EXCEPT ![p] = q]
        /\ pr.at # "ready" /\ v17' = v17 \cup pr.bridges
        /\ v4' = IF pr.at = "listed" THEN K!NamesOf(pr.list) ELSE v4
      BY <1>4 DEF K!ProbeWrite, K!Typed
  <2>2. ls \in SUBSET K!Rows /\ \A t \in ls : K!Right(t)
    <3>1. pr \in K!Probe /\ pr.list \in SUBSET K!Rows BY DEF K!Typed, K!Probe
    <3>2. K!Cached(v4) \in SUBSET K!Rows /\ \A t \in K!Cached(v4) : K!Right(t)
        BY DEF K!Typed, K!Cached, K!Rows, K!Right
    <3>3. QED BY <3>1, <3>2 DEF K!Faithful
  <2>3. /\ q \in K!Probe
        /\ \A t \in q.list \cup q.items : K!Right(t)
    <3>1. pr \in K!Probe BY DEF K!Typed
    <3>2. q \in K!Probe /\ q.list = pr.list /\ q.items = its BY <3>1, <2>2 DEF K!Probe
    <3>3. QED BY <3>2, <2>2 DEF K!Faithful
  <2>4. K!Faithful' /\ v14' \in [1..MaxProbes -> K!Probe]
      BY <1>4, <2>1, <2>3, KillProbeKeeps DEF K!ProbeWrite, K!killVars, K!listVars, K!worldVars
  <2>5. v4' \in SUBSET Hosted
    <3>1. pr.list \in SUBSET K!Rows BY DEF K!Typed, K!Probe
    <3>2. QED BY <3>1, <2>1 DEF K!Typed, K!NamesOf, K!Rows
  <2>6. K!Typed'
      BY <1>4, <2>4, <2>5 DEF K!ProbeWrite, K!Typed, K!killVars, K!listVars, K!worldVars, K!Ids
  <2>7. K!NamesOf(ls) = v4'
    <3>1. ASSUME NEW X PROVE K!NamesOf(K!Cached(X)) = X
      <4>1. \A n \in X : [name |-> n, id |-> 0, born |-> 0] \in K!Cached(X) BY DEF K!Cached
      <4>2. ASSUME NEW n \in X PROVE n \in K!NamesOf(K!Cached(X))
        <5>1. PICK r \in K!Cached(X) : r.name = n BY <4>1
        <5>2. QED BY <5>1 DEF K!NamesOf
      <4>3. \A n \in K!NamesOf(K!Cached(X)) : n \in X BY DEF K!NamesOf, K!Cached
      <4>4. QED BY <4>2, <4>3
    <3>2. QED BY <3>1, <2>1
  <2>8. K!Undone'
    <3> SUFFICES ASSUME NEW n \in (v13 \ v17') \cap v4'
                 PROVE  \E k \in 1..MaxProbes : v14'[k].at = "ready" /\ n \in K!NamesOf(v14'[k].items)
        BY <1>4 DEF K!ProbeWrite, K!Undone, K!listVars, K!NamesOf
    <3>1. n \in K!NamesOf(ls) /\ n \notin pr.bridges BY <2>1, <2>7
    <3>2. n \in K!NamesOf(its) BY <3>1 DEF K!NamesOf
    <3>3. v14'[p] = q BY <2>1 DEF K!Typed
    <3>4. q.at = "ready" /\ q.items = its BY DEF K!Typed, K!Probe
    <3>5. QED BY <3>2, <3>3, <3>4
  <2>9. QED BY <1>4, <2>4, <2>6, <2>8 DEF K!ProbeWrite, K!Hits, K!Absent, K!killVars,
                                          K!listVars, K!worldVars
<1>5. ASSUME NEW p \in 1..MaxProbes, K!ProbeMsg(p) PROVE K!IInv'
  <2> DEFINE pr == v14[p]
             q == [K!Unasked EXCEPT !.at = "done"]
  <2>1. /\ v14' = [v14 EXCEPT ![p] = q] /\ v6' = pr.list
        /\ v5' = pr.items \ K!Dead(pr.items) /\ v4' = v4 \ K!NamesOf(K!Dead(pr.items))
        /\ UNCHANGED <<v7, v8, v13, v15, v17, v19, K!killVars, K!worldVars>>
      BY <1>5 DEF K!ProbeMsg
  <2>2. q \in K!Probe
        /\ q.list = {} /\ q.items = {}
      BY DEF K!Unasked, K!Probe
  <2>3. K!Typed'
    <3>1. pr \in K!Probe /\ pr.items \in SUBSET K!Rows /\ pr.list \in SUBSET K!Rows
        BY DEF K!Typed, K!Probe
    <3>2. v14' \in [1..MaxProbes -> K!Probe] BY <2>1, <2>2 DEF K!Typed
    <3>3. QED BY <2>1, <3>1, <3>2 DEF K!Typed, K!killVars, K!worldVars, K!Ids
  <2>4. K!Faithful'
    <3>1. \A t \in v5' \cup v6' : K!Right(t) BY <2>1 DEF K!Faithful, K!Typed
    <3>2. \A k \in 1..MaxProbes : v14'[k] = IF k = p THEN q ELSE v14[k] BY <2>1 DEF K!Typed
    <3>3. QED BY <3>1, <3>2, <2>1, <2>2, KillStillFaithful DEF K!Faithful, K!killVars,
       K!worldVars
  <2>5. K!Absent' BY <2>1 DEF K!Absent, K!NamesOf, K!Dead
  <2>6. K!Undone' BY <2>1 DEF K!Undone, K!NamesOf, K!Dead, K!Typed
  <2>7. QED BY <2>1, <2>3, <2>4, <2>5, <2>6 DEF K!Hits, K!worldVars
<1>6. CASE K!RefreshRead
    BY <1>6, KillStillFaithful DEF K!RefreshRead, K!Typed, K!Faithful, K!Hits, K!Absent,
                                   K!Undone, K!Ids,
       K!killVars, K!listVars, K!worldVars
<1>7. CASE K!RefreshMsg
    BY <1>7, KillStillFaithful DEF K!RefreshMsg, K!FilterMirrors, K!Typed, K!Faithful,
                                   K!Hits, K!Absent, K!Undone,
       K!Ids, K!killVars, K!worldVars
<1>8. CASE K!Restart
  <2>1. v2' = v2 + 1 /\ v1' \in [K!Ids -> Hosted \cup {Null}]
        /\ UNCHANGED <<v3, v16, K!asyncVars, K!killVars, K!listVars>>
      BY <1>8 DEF K!Restart
  <2>2. K!Typed' BY <2>1 DEF K!Typed, K!Ids, K!asyncVars, K!killVars, K!listVars
  <2>3. ASSUME NEW t \in K!Rows, K!Right(t) PROVE K!Right(t)'
      BY <2>1, <2>3 DEF K!Right, K!Rows, K!Typed, K!Ids
  <2>4. K!Faithful'
    <3>1. v5' \cup v6' \cup v9' \cup v10' \in SUBSET K!Rows
        BY <2>1 DEF K!Typed, K!killVars, K!listVars
    <3>2. \A p \in 1..MaxProbes : v14[p].list \cup v14[p].items \in SUBSET K!Rows
        BY DEF K!Typed, K!Probe
    <3>3. QED BY <2>1, <2>3, <3>1, <3>2 DEF K!Faithful, K!asyncVars, K!killVars, K!listVars
  <2>5. QED BY <2>1, <2>2, <2>4 DEF K!Hits, K!Absent, K!Undone, K!asyncVars, K!killVars,
                                    K!listVars
<1>9. ASSUME NEW n \in Hosted, K!MirrorCloses(n) PROVE K!IInv'
    BY <1>9, KillStillFaithful DEF K!MirrorCloses, K!Typed, K!Faithful, K!Hits, K!Absent,
                                   K!Undone,
       K!Ids, K!killVars, K!listVars, K!asyncVars
<1>10. ASSUME NEW r \in v5, K!Mark(r) PROVE K!IInv'
    BY <1>10, KillStillFaithful DEF K!Mark, K!Typed, K!Faithful, K!Hits, K!Absent, K!Undone,
                                    K!NamesOf,
       K!Ids, K!killVars, K!worldVars, K!asyncVars
<1>11. ASSUME NEW r \in K!Shown, K!Stage(r) PROVE K!IInv'
  <2>1. K!Targets(r) \in SUBSET K!Rows /\ \A t \in K!Targets(r) : K!Right(t) /\ t.id # 0
      BY <1>11, KillShownRight DEF K!Stage, K!Targets, K!Typed, K!Faithful
  <2>2. QED BY <1>11, <2>1, KillStillFaithful DEF K!Stage, K!Typed, K!Faithful, K!Hits,
                                                  K!Absent, K!Undone,
       K!Ids, K!listVars, K!worldVars, K!asyncVars
<1>12. ASSUME NEW yes \in BOOLEAN, K!Answer(yes) PROVE K!IInv'
    BY <1>12, KillStillFaithful DEF K!Answer, K!Typed, K!Faithful, K!Hits, K!Absent, K!Undone,
       K!Ids, K!listVars, K!worldVars, K!asyncVars
<1>13. CASE K!Cancel
    BY <1>13, KillStillFaithful DEF K!Cancel, K!Typed, K!Faithful, K!Hits, K!Absent, K!Undone,
       K!Ids, K!listVars, K!worldVars, K!asyncVars
<1>14. ASSUME NEW t \in v10, NEW lost \in {"no", "there", "back"}, K!Kill(t, lost) PROVE K!IInv'
  <2>1. /\ v10' \in SUBSET v10
        /\ \/ UNCHANGED <<v1, v16>>
           \/ /\ ~K!Refused(t) /\ v1' = [v1 EXCEPT ![t.id] = Null]
              /\ v16' = v16 \cup {[want |-> t, had |-> v1[t.id]]}
        /\ UNCHANGED <<v2, v3, v18, v9, v20, K!asyncVars, K!listVars>>
      BY <1>14 DEF K!Kill
  <2>2. v1' \in [K!Ids -> Hosted \cup {Null}] BY <2>1 DEF K!Typed
  <2>3. K!Typed' BY <2>1, <2>2 DEF K!Typed, K!Ids, K!asyncVars, K!listVars
  <2>4. ASSUME NEW x \in K!Rows, K!Right(x) PROVE K!Right(x)'
      BY <2>1, <2>4 DEF K!Right, K!Rows, K!Typed, K!Ids
  <2>5. K!Faithful'
    <3>1. v5' \cup v6' \cup v9' \cup v10' \in SUBSET K!Rows
        BY <2>1 DEF K!Typed, K!listVars
    <3>2. \A p \in 1..MaxProbes : v14[p].list \cup v14[p].items \in SUBSET K!Rows
        BY DEF K!Typed, K!Probe
    <3>3. QED BY <2>1, <2>4, <3>1, <3>2 DEF K!Faithful, K!asyncVars, K!listVars
  <2>6. K!Hits'
      BY <2>1 DEF K!Hits, K!Faithful, K!Right, K!Refused, K!Typed, K!Rows
  <2>7. QED BY <2>1, <2>3, <2>5, <2>6 DEF K!Absent, K!Undone, K!asyncVars, K!listVars
<1>15. CASE K!StopBatch
    BY <1>15, KillStillFaithful DEF K!StopBatch, K!Typed, K!Faithful, K!Hits, K!Absent,
                                    K!Undone,
       K!Ids, K!listVars, K!worldVars, K!asyncVars
<1>16. CASE K!FinishKill
    BY <1>16, KillStillFaithful DEF K!FinishKill, K!Typed, K!Faithful, K!Hits, K!Absent,
                                    K!Undone, K!NamesOf,
       K!Ids, K!worldVars
<1>17. QED
    BY <1>1, <1>2, <1>3, <1>4, <1>5, <1>6, <1>7, <1>8, <1>9, <1>10, <1>11, <1>12, <1>13,
       <1>14, <1>15, <1>16 DEF K!Next

\* The invariant gives the property.
LEMMA KillHolds == K!IInv => K!KilledStaysGone
<1> SUFFICES ASSUME K!IInv PROVE K!KilledStaysGone OBVIOUS
<1>1. DOMAIN v14 = 1..MaxProbes BY DEF K!IInv, K!Typed
<1>2. QED BY <1>1 DEF K!IInv, K!KilledStaysGone, K!Hits, K!Absent, K!Undone, K!Landing

\* Of a behaviour of this part.
KillInv == part = "kill" => K!IInv

(* For any sessions, probes, refreshes, restarts and kills: a kill destroys *)
(* only the session whose row was confirmed, and what it ended does not     *)
(* come back from a probe, a refresh or the cache (tui.go, remote.go).      *)
THEOREM KilledGone == ASSUME Bridged \subseteq Hosted PROVE PartsSpec => []KilledStaysGone
<1>1. Starts => KillInv BY KillInit DEF Starts, KillInv
<1>2. KillInv /\ [Steps]_all => KillInv'
    <2> SUFFICES ASSUME KillInv, [Steps]_all PROVE KillInv' OBVIOUS
    <2>1. CASE UNCHANGED all
        <3>1. UNCHANGED K!vars /\ UNCHANGED part
            BY <2>1 DEF all, After0, After10, After12, After17, After18, K!vars
        <3>2. QED BY <3>1, KillStep DEF KillInv
    <2>2. CASE part # "kill" /\ Steps BY <2>2 DEF Steps, KillInv
    <2>3. CASE part = "kill" /\ K!Next BY <2>3, KillStep DEF KillInv
    <2>4. QED BY <2>1, <2>2, <2>3 DEF Steps
<1>3. KillInv => KilledStaysGone BY KillHolds DEF KillInv, KilledStaysGone
<1>4. QED BY <1>1, <1>2, <1>3, PTL DEF PartsSpec

----------------------------------------------------------------------------
(* The agent's watchers (AgentWatch): v1 to v20 are screen, cols, up,       *)
(* piped, pc, scr, geo, last, buf, cut, eof, dirty, wake, reg, file, opt,   *)
(* missed, prints, resizes, fails.                                          *)

\* Null is no watcher and no screen.
WatchApart == Null \notin Watchers \union G!Screens /\ Backlog \in Nat

\* One chunk more: the newest full repaint is that one, or the one it was.
LEMMA WatchAppendNewest ==
    ASSUME NEW b \in Seq(G!Chunks), NEW c \in G!Chunks, NEW s, NEW n, NEW t, NEW m, G!Newest(b, s, n),
           \/ c.to # Null /\ c = G!Full(t, m)
           \/ c.to = Null /\ t = s /\ m = n
    PROVE  /\ Append(b, c) \in Seq(G!Chunks) /\ G!Newest(Append(b, c), t, m)
           /\ G!Fulls(Append(b, c)) = {} => G!Fulls(b) = {} /\ c.to = Null
<1> DEFINE d == Append(b, c)
<1>1. /\ d \in Seq(G!Chunks) /\ Len(d) = Len(b) + 1 /\ Len(b) \in Nat
      /\ d[Len(b) + 1] = c /\ \A i \in 1..Len(b) : d[i] = b[i]
      /\ DOMAIN d = 1..(Len(b) + 1) /\ DOMAIN b = 1..Len(b)
    OBVIOUS
<1> HIDE DEF d
<1>2. G!Fulls(d) = G!Fulls(b) \union (IF c.to = Null THEN {} ELSE {Len(b) + 1})
    BY <1>1 DEF G!Fulls
<1>3. \A j \in G!Fulls(b) : j \in 1..Len(b) BY <1>1 DEF G!Fulls
<1>4. CASE c.to # Null /\ c = G!Full(t, m)
  <2>1. Len(b) + 1 \in G!Fulls(d) /\ \A j \in G!Fulls(d) : j <= Len(b) + 1
      BY <1>1, <1>2, <1>3, <1>4
  <2>2. QED BY <1>1, <1>4, <2>1 DEF G!Newest, d
<1>5. CASE c.to = Null /\ t = s /\ m = n
  <2>1. G!Fulls(d) = G!Fulls(b) BY <1>2, <1>5
  <2>2. \A k \in G!Fulls(b) : d[k] = b[k] BY <1>1, <1>3
  <2>3. QED BY <1>1, <1>5, <2>1, <2>2 DEF G!Newest, d
<1>6. QED BY <1>4, <1>5

\* The newest part of a backlog has the newest full repaint, or none.
LEMMA WatchHalfNewest ==
    ASSUME NEW b \in Seq(G!Chunks), NEW h \in 0..Len(b), NEW s, NEW n, G!Newest(b, s, n)
    PROVE  /\ SubSeq(b, h + 1, Len(b)) \in Seq(G!Chunks) /\ G!Newest(SubSeq(b, h + 1, Len(b)), s, n)
<1> DEFINE d == SubSeq(b, h + 1, Len(b))
<1>1. /\ Len(b) \in Nat /\ d \in Seq(G!Chunks) /\ Len(d) = Len(b) - h /\ DOMAIN d = 1..(Len(b) - h)
      /\ \A i \in 1..(Len(b) - h) : d[i] = b[h + i]
      /\ DOMAIN b = 1..Len(b)
    OBVIOUS
<1> HIDE DEF d
<1>2. \A j \in G!Fulls(d) : j \in 1..(Len(b) - h) /\ h + j \in G!Fulls(b)
    BY <1>1 DEF G!Fulls
<1>3. CASE G!Fulls(d) = {} BY <1>1, <1>3 DEF G!Newest, d
<1>4. CASE G!Fulls(d) # {}
  <2>1. PICK j \in G!Fulls(d) : TRUE BY <1>4
  <2>2. G!Fulls(b) # {} BY <1>2, <2>1
  <2>3. PICK k \in G!Fulls(b) : b[k] = G!Full(s, n) /\ \A i \in G!Fulls(b) : i <= k
      BY <2>2 DEF G!Newest
  <2>4. k \in 1..Len(b) /\ b[k].to # Null BY <1>1 DEF G!Fulls
  <2>5. h + j <= k BY <1>2, <2>1, <2>3
  <2>6. k - h \in 1..(Len(b) - h) /\ h + (k - h) = k BY <1>1, <1>2, <2>1, <2>4, <2>5
  <2>7. k - h \in G!Fulls(d) /\ d[k - h] = G!Full(s, n)
      BY <1>1, <2>3, <2>4, <2>6 DEF G!Fulls
  <2>8. \A i \in G!Fulls(d) : i <= k - h BY <1>1, <1>2, <2>3, <2>4
  <2>9. QED BY <1>1, <2>7, <2>8 DEF G!Newest, d
<1>5. QED BY <1>3, <1>4

\* The piped watcher drains a chunk.
LEMMA WatchDrainKeeps ==
    ASSUME WatchApart, G!IInv, NEW c \in G!Chunks, NEW t, NEW m, G!Drained(c),
           \/ c.to # Null /\ c = G!Full(t, m)
           \/ c.to = Null /\ t = v1 /\ m = v2
    PROVE  /\ v9' \in [Watchers -> Seq(G!Chunks)] /\ v10' \in [Watchers -> BOOLEAN]
           /\ \A w \in Watchers : v4 = w =>
                 /\ G!Newest(v9'[w], t, m)
                 /\ ~v10'[w] /\ G!Fulls(v9'[w]) = {} => ~v10[w] /\ G!Fulls(v9[w]) = {} /\ c.to = Null
           /\ \A w \in Watchers : v4 # w => v9'[w] = v9[w]
<1> USE DEF G!IInv
<1>1. CASE v4 = Null BY <1>1 DEF G!Drained, G!Typed, WatchApart
<1>2. ASSUME NEW w \in Watchers, v4 = w
      PROVE  /\ v9' \in [Watchers -> Seq(G!Chunks)] /\ v10' \in [Watchers -> BOOLEAN]
             /\ G!Newest(v9'[w], t, m)
             /\ ~v10'[w] /\ G!Fulls(v9'[w]) = {} => ~v10[w] /\ G!Fulls(v9[w]) = {} /\ c.to = Null
             /\ \A v \in Watchers : v4 # v => v9'[v] = v9[v]
  <2> DEFINE b == Append(v9[w], c)
             h == Len(b) - (Backlog \div 2)
  <2>1. /\ v9' = [v9 EXCEPT ![w] = IF Len(b) > Backlog THEN SubSeq(b, h + 1, Len(b)) ELSE b]
        /\ v10' = [v10 EXCEPT ![w] = @ \/ Len(b) > Backlog]
    BY <1>2 DEF G!Drained, G!Drain, WatchApart
  <2>2. v9[w] \in Seq(G!Chunks) /\ G!Newest(v9[w], v1, v2) BY <1>2 DEF G!Typed, G!Follows
  <2>7. \A v \in Watchers : v4 # v => v9'[v] = v9[v] BY <1>2, <2>1 DEF G!Typed
  <2>3. /\ b \in Seq(G!Chunks) /\ G!Newest(b, t, m)
        /\ G!Fulls(b) = {} => G!Fulls(v9[w]) = {} /\ c.to = Null
    BY <2>2, WatchAppendNewest
  <2> HIDE DEF b
  <2>4. CASE Len(b) > Backlog
    <3>1. h \in 0..Len(b) BY <2>3, <2>4 DEF WatchApart
    <3>2. SubSeq(b, h + 1, Len(b)) \in Seq(G!Chunks) /\ G!Newest(SubSeq(b, h + 1, Len(b)), t, m)
      BY <2>3, <3>1, WatchHalfNewest
    <3> HIDE DEF h
    <3>3. QED BY <2>1, <2>4, <2>7, <3>2 DEF G!Typed
  <2>5. CASE ~(Len(b) > Backlog) BY <2>1, <2>3, <2>5, <2>7 DEF G!Typed
  <2>6. QED BY <2>4, <2>5
<1>3. QED BY <1>1, <1>2 DEF G!Typed

\* What no watcher and no pane sees changes nothing.
LEMMA WatchSameKeeps ==
    ASSUME G!IInv, UNCHANGED <<v1, v2, v3, v4, v5, v6, v7, v9, v10, v12, v14, v15, v16, v17, v8>>
    PROVE  G!IInv'
BY DEF G!IInv, G!Typed, G!Alone, G!Starting, G!Follows, G!Written, G!Newest

\* The program repaints, wholly or in part.
LEMMA WatchPaintsKeeps ==
    ASSUME WatchApart, G!IInv, NEW s \in AgentStates, NEW whole \in BOOLEAN, G!Paints(s, whole)
    PROVE  G!IInv'
<1> DEFINE c == IF whole THEN G!Full(s, v2) ELSE G!Cells
<1>1. /\ v1' = (IF whole THEN s ELSE v1) /\ G!Drained(c)
      /\ UNCHANGED <<v2, v3, v4, v5, v6, v7, v12, v14, v15, v16, v17, v8>>
    BY DEF G!Paints, G!emulator, G!shownVars
<1>2. /\ c \in G!Chunks
      /\ \/ c.to # Null /\ c = G!Full(v1', v2)
         \/ c.to = Null /\ v1' = v1
      /\ v1' \in G!Screens
    BY <1>1 DEF G!Chunks, G!Screens, G!Full, G!Cells, WatchApart, G!IInv, G!Typed
<1> HIDE DEF c
<1>3. /\ v9' \in [Watchers -> Seq(G!Chunks)] /\ v10' \in [Watchers -> BOOLEAN]
      /\ \A w \in Watchers : v4 = w =>
            /\ G!Newest(v9'[w], v1', v2)
            /\ ~v10'[w] /\ G!Fulls(v9'[w]) = {} => ~v10[w] /\ G!Fulls(v9[w]) = {} /\ c.to = Null
      /\ \A w \in Watchers : v4 # w => v9'[w] = v9[w]
    BY <1>1, <1>2, WatchDrainKeeps
<1> USE DEF G!IInv
<1>4. G!Typed' BY <1>1, <1>2, <1>3 DEF G!Typed
<1>5. G!Alone' BY <1>1, <1>3 DEF G!Alone, G!Starting
<1>6. G!Follows'
  <2> SUFFICES ASSUME NEW w \in Watchers, v4 = w
               PROVE  /\ G!Newest(v9'[w], v1', v2)
                      /\ v3 /\ v5[w] \in {"seeded", "run"} /\ ~v10'[w] /\ G!Fulls(v9'[w]) = {} =>
                            v7[w] # v2 \/ v6[w] = v1'
      BY <1>1 DEF G!Follows
  <2>1. c.to = Null => v1' = v1 BY <1>2
  <2>2. QED BY <1>3, <2>1 DEF G!Follows
<1>7. G!Written' BY <1>1 DEF G!Written
<1>8. QED BY <1>1, <1>4, <1>5, <1>6, <1>7

\* The pane changes size: the program repaints it wholly.
LEMMA WatchResizeKeeps == ASSUME WatchApart, G!IInv, G!Resize PROVE G!IInv'
<1> DEFINE c == G!Full(v1, v2')
<1>1. /\ v2' = 1 - v2 /\ G!Drained(c)
      /\ UNCHANGED <<v1, v3, v4, v5, v6, v7, v12, v14, v15, v16, v17, v8>>
    BY DEF G!Resize, G!emulator, G!shownVars
<1>2. c \in G!Chunks /\ c.to # Null /\ c = G!Full(v1, v2') /\ v2' \in {0, 1}
    BY <1>1 DEF G!Chunks, G!Full, WatchApart, G!IInv, G!Typed
<1> HIDE DEF c
<1>3. /\ v9' \in [Watchers -> Seq(G!Chunks)] /\ v10' \in [Watchers -> BOOLEAN]
      /\ \A w \in Watchers : v4 = w =>
            /\ G!Newest(v9'[w], v1, v2')
            /\ ~v10'[w] /\ G!Fulls(v9'[w]) = {} => ~v10[w] /\ G!Fulls(v9[w]) = {} /\ c.to = Null
      /\ \A w \in Watchers : v4 # w => v9'[w] = v9[w]
    BY <1>1, <1>2, WatchDrainKeeps
<1> USE DEF G!IInv
<1>4. G!Typed' BY <1>1, <1>2, <1>3 DEF G!Typed
<1>5. G!Alone' BY <1>1, <1>3 DEF G!Alone, G!Starting
<1>6. G!Follows' BY <1>1, <1>2, <1>3 DEF G!Follows
<1>7. G!Written' BY <1>1 DEF G!Written
<1>8. QED BY <1>1, <1>4, <1>5, <1>6, <1>7

\* The pane dies.
LEMMA WatchDiesKeeps == ASSUME G!IInv, G!Dies PROVE G!IInv'
<1>1. /\ v3' = FALSE
      /\ UNCHANGED <<v1, v2, v4, v5, v6, v7, v9, v10, v12, v14, v15, v8>>
    BY DEF G!Dies, G!emulator
<1> USE DEF G!IInv
<1>2. G!Typed' BY <1>1 DEF G!Typed
<1>3. G!Alone' BY <1>1 DEF G!Alone, G!Starting
<1>4. G!Follows' BY <1>1 DEF G!Follows
<1>5. G!Written' BY <1>1 DEF G!Written
<1>6. QED BY <1>1, <1>2, <1>3, <1>4, <1>5

\* The invariant of the watchers holds at the start.
LEMMA WatchInit == WatchApart /\ G!Init => G!IInv
<1> SUFFICES ASSUME WatchApart, G!Init PROVE G!IInv OBVIOUS
<1> USE DEF G!Init, G!Of
<1>1. G!Typed BY DEF G!Typed, G!Screens
<1>2. G!Alone BY DEF G!Alone, G!Starting, WatchApart
<1>3. G!Follows BY DEF G!Follows, WatchApart
<1>4. G!Written BY DEF G!Written
<1>5. QED BY <1>1, <1>2, <1>3, <1>4 DEF G!IInv

\* pipe-pane: no other watcher is starting, and this one has read nothing.
LEMMA WatchArmKeeps == ASSUME WatchApart, G!IInv, NEW w \in Watchers, G!Arm(w) PROVE G!IInv'
<1>1. /\ v5[w] = "off" /\ v5' = [v5 EXCEPT ![w] = "armed"] /\ v4' = w
      /\ \A v \in Watchers : ~G!Starting(v)
      /\ UNCHANGED <<v1, v2, v3, v6, v7, v9, v10, v12, v14, v15, v16, v17, v8>>
    BY DEF G!Arm, G!Step, G!emulator, G!shownVars
<1> USE DEF G!IInv
<1>2. G!Typed' BY <1>1 DEF G!Typed
<1>3. v5'[w] = "armed" /\ \A v \in Watchers \ {w} : v5'[v] = v5[v] BY <1>1 DEF G!Typed
<1>4. G!Alone' BY <1>1, <1>3 DEF G!Alone, G!Starting
<1>5. G!Follows'
  <2>1. v9[w] = <<>> BY <1>1 DEF G!Alone
  <2>2. G!Fulls(<<>>) = {} BY DEF G!Fulls
  <2>3. QED BY <1>1, <1>3, <2>1, <2>2 DEF G!Follows, G!Newest
<1>6. G!Written' BY <1>1, <1>3 DEF G!Written
<1>7. QED BY <1>1, <1>2, <1>4, <1>5, <1>6

\* What a write leaves in the file and on the option.
LEMMA WatchUpdateShows ==
    ASSUME WatchApart, G!IInv, NEW w \in Watchers, NEW s \in G!Screens, G!Update(w, s),
           v8[w] = Null \/ v15 = v8[w]
    PROVE  /\ v15' = G!Told(s) /\ v8' = [v8 EXCEPT ![w] = G!Told(s)]
           /\ v3 => v17' \/ v16' = v15'
<1> USE DEF G!IInv
<1>1. v8[w] \in G!Screens \union {Null} BY DEF G!Typed
<1>2. CASE s = "none"
  <2>1. v15' = Null /\ v8' = [v8 EXCEPT ![w] = Null] BY <1>2 DEF G!Update
  <2>2. CASE v15 = Null BY <1>2, <2>1, <2>2 DEF G!Update, G!Told
  <2>3. CASE v15 # Null BY <1>2, <2>1, <2>3 DEF G!Update, G!Told, G!Stamped
  <2>4. QED BY <2>2, <2>3
<1>3. CASE s # "none" /\ s = v8[w]
  <2>1. UNCHANGED <<v15, v16, v17, v8>> BY <1>3 DEF G!Update, G!shownVars
  <2>2. v8 = [v8 EXCEPT ![w] = s] BY <1>3 DEF G!Typed
  <2>3. v15 = s BY <1>3 DEF WatchApart
  <2>4. QED BY <1>3, <2>1, <2>2, <2>3 DEF G!Told
<1>4. CASE s # "none" /\ s # v8[w]
  <2>1. v15' = s /\ v8' = [v8 EXCEPT ![w] = s] /\ G!Stamped(w, s) BY <1>4 DEF G!Update
  <2>2. QED BY <1>4, <2>1 DEF G!Told, G!Stamped
<1>5. QED BY <1>2, <1>3, <1>4

\* registerWatcher: a watcher that has yet to run takes the pane.
LEMMA WatchClaimKeeps ==
    ASSUME WatchApart, G!IInv, NEW w \in Watchers, G!Claim(w)
    PROVE  G!IInv'
<1>1. /\ v5[w] = "armed" /\ v5' = [v5 EXCEPT ![w] = "claimed"] /\ v14' = w
      /\ UNCHANGED <<v1, v2, v3, v4, v6, v7, v9, v10, v12, v15, v16, v17, v8>>
    BY DEF G!Claim, G!Step, G!emulator, G!shownVars, G!paneVars, G!input
<1> USE DEF G!IInv
<1>2. G!Typed' BY <1>1 DEF G!Typed
<1>3. v5'[w] = "claimed" /\ \A v \in Watchers \ {w} : v5'[v] = v5[v] BY <1>1 DEF G!Typed
<1>4. v4 = w BY <1>1 DEF G!Alone, G!Starting
<1>5. G!Alone' BY <1>1, <1>3, <1>4 DEF G!Alone, G!Starting
<1>6. G!Follows' BY <1>1, <1>3 DEF G!Follows
<1>7. G!Written' BY <1>1, <1>3 DEF G!Written
<1>8. QED BY <1>1, <1>2, <1>5, <1>6, <1>7

\* seededScreen.
LEMMA WatchSeedKeeps ==
    ASSUME WatchApart, G!IInv, NEW w \in Watchers, G!Seed(w)
    PROVE  G!IInv'
<1>1. /\ v5[w] = "claimed" /\ v5' = [v5 EXCEPT ![w] = "seeded"]
      /\ v6' = [v6 EXCEPT ![w] = IF v3 THEN v1 ELSE "none"] /\ v7' = [v7 EXCEPT ![w] = v2]
      /\ UNCHANGED <<v1, v2, v3, v4, v9, v10, v12, v14, v15, v16, v17, v8>>
    BY DEF G!Seed, G!Seeded, G!Step, G!shownVars, G!paneVars, G!input
<1> USE DEF G!IInv
<1>2. G!Typed' BY <1>1 DEF G!Typed, G!Screens
<1>3. /\ v5'[w] = "seeded" /\ \A v \in Watchers \ {w} : v5'[v] = v5[v] /\ v6'[v] = v6[v] /\ v7'[v] = v7[v]
      /\ v3 => v6'[w] = v1
    BY <1>1 DEF G!Typed
<1>4. G!Alone' BY <1>1, <1>3 DEF G!Alone, G!Starting
<1>5. G!Follows' BY <1>1, <1>3 DEF G!Follows
<1>6. G!Written' BY <1>1, <1>3 DEF G!Written
<1>7. QED BY <1>1, <1>2, <1>4, <1>5, <1>6

\* The first write comes from the owner, which has written nothing yet.
LEMMA WatchFirstEmitKeeps ==
    ASSUME WatchApart, G!IInv, NEW w \in Watchers, G!FirstEmit(w)
    PROVE  G!IInv'
<1>1. /\ v5[w] = "seeded" /\ v5' = [v5 EXCEPT ![w] = "run"] /\ G!Update(w, v6[w])
      /\ UNCHANGED <<v1, v2, v3, v4, v6, v7, v9, v10, v12, v14>>
    BY DEF G!FirstEmit, G!Step, G!paneVars, G!input, G!emulator
<1> USE DEF G!IInv
<1>2. v8[w] = Null /\ v4 = w /\ v14 = w /\ v6[w] \in G!Screens
    BY <1>1 DEF G!Alone, G!Starting, G!Typed
<1>3. /\ v15' = G!Told(v6[w]) /\ v8' = [v8 EXCEPT ![w] = G!Told(v6[w])]
      /\ v3 => v17' \/ v16' = v15'
    BY <1>1, <1>2, WatchUpdateShows
<1>4. G!Told(v6[w]) \in G!Screens \union {Null} BY <1>2 DEF G!Told
<1>5. G!Typed' BY <1>1, <1>3, <1>4 DEF G!Typed
<1>6. /\ v5'[w] = "run" /\ v8'[w] = G!Told(v6[w])
      /\ \A v \in Watchers \ {w} : v5'[v] = v5[v] /\ v8'[v] = v8[v]
    BY <1>1, <1>3 DEF G!Typed
<1>7. G!Alone' BY <1>1, <1>6 DEF G!Alone, G!Starting
<1>8. G!Follows' BY <1>1, <1>6 DEF G!Follows
<1>9. G!Written' BY <1>1, <1>2, <1>3, <1>6 DEF G!Written, G!Told
<1>10. QED BY <1>1, <1>3, <1>5, <1>7, <1>8, <1>9

\* A backlog with a full repaint has a newest one.
LEMMA WatchHasNewest ==
    ASSUME NEW b \in Seq(G!Chunks), G!Fulls(b) # {}
    PROVE  \E k \in G!Fulls(b) : \A j \in G!Fulls(b) : j <= k
<1> DEFINE left == {Len(b) - k : k \in G!Fulls(b)}
<1>1. Len(b) \in Nat /\ \A k \in G!Fulls(b) : k \in 1..Len(b) BY DEF G!Fulls
<1>2. left \subseteq Nat /\ left # {} BY <1>1
<1> HIDE DEF left
<1>3. PICK m \in left : \A l \in left : <<l, m>> \notin OpToRel(<, Nat)
    BY <1>2, NatLessThanWellFounded, WFMin
<1>4. \A l \in left : ~(l < m) BY <1>2, <1>3 DEF OpToRel
<1>5. PICK k \in G!Fulls(b) : m = Len(b) - k BY <1>3 DEF left
<1>6. ASSUME NEW j \in G!Fulls(b) PROVE j <= k
  <2>1. ~(Len(b) - j < m) BY <1>4 DEF left
  <2>2. QED BY <1>1, <1>5, <2>1
<1>7. QED BY <1>6

\* What a drained backlog leaves on the emulator.
LEMMA WatchFedShows ==
    ASSUME WatchApart, NEW b \in Seq(G!Chunks), NEW s, NEW t, NEW n, t \in G!Fed(s, n, b)
    PROVE  /\ G!Fulls(b) = {} => t = s
           /\ G!Newest(b, v1, v2) /\ G!Fulls(b) # {} => n # v2 \/ t = v1
           /\ t \in G!Screens \union {s, v1}
<1> DEFINE i == CHOOSE k \in G!Fulls(b) : \A j \in G!Fulls(b) : j <= k
<1>1. t \in IF G!Fulls(b) = {} THEN {s} ELSE IF b[i].cols = n THEN {b[i].to} ELSE {"none", v1}
    BY DEF G!Fed, G!Fulls
<1>2. CASE G!Fulls(b) = {} BY <1>1, <1>2
<1>3. CASE G!Fulls(b) # {}
  <2>1. i \in G!Fulls(b) /\ \A j \in G!Fulls(b) : j <= i BY <1>3, WatchHasNewest
  <2>2. G!Fulls(b) \subseteq Nat BY DEF G!Fulls
  <2> HIDE DEF i
  <2>3. b[i] \in G!Chunks /\ b[i].to # Null BY <2>1 DEF G!Fulls
  <2>4. ASSUME G!Newest(b, v1, v2) PROVE b[i].to = v1 /\ b[i].cols = v2
    <3>1. PICK k \in G!Fulls(b) : b[k] = G!Full(v1, v2) /\ \A j \in G!Fulls(b) : j <= k
        BY <1>3, <2>4 DEF G!Newest
    <3>2. i = k BY <2>1, <2>2, <3>1
    <3>3. QED BY <3>1, <3>2 DEF G!Full
  <2>5. b[i].to \in G!Screens /\ "none" \in G!Screens BY <2>3 DEF G!Chunks, G!Screens
  <2>6. QED BY <1>1, <1>3, <2>4, <2>5
<1>4. QED BY <1>2, <1>3

\* A drain: a cut backlog is fed to a screen seeded anew.
LEMMA WatchTakeKeeps ==
    ASSUME WatchApart, G!IInv, NEW w \in Watchers, G!Take(w)
    PROVE  G!IInv'
<1> DEFINE n == IF v10[w] THEN v2 ELSE v7[w]
           s == IF v10[w] THEN v1 ELSE v6[w]
<1> USE DEF G!IInv
<1>1. PICK t \in G!Fed(s, n, v9[w]) : v6' = [v6 EXCEPT ![w] = t]
    BY DEF G!Take, G!Cut
<1>2. /\ v5[w] = "run" /\ v9' = [v9 EXCEPT ![w] = <<>>] /\ v10' = [v10 EXCEPT ![w] = FALSE]
      /\ v7' = [v7 EXCEPT ![w] = n] /\ v12' = [v12 EXCEPT ![w] = TRUE]
      /\ UNCHANGED <<v1, v2, v3, v4, v5, v14, v15, v16, v17, v8>>
    BY DEF G!Take, G!Cut, G!paneVars, G!shownVars
<1>3. /\ n \in {0, 1} /\ s \in G!Screens /\ v1 \in G!Screens /\ "none" \in G!Screens
      /\ v9[w] \in Seq(G!Chunks)
    BY DEF G!Typed, G!Screens
<1>4. /\ G!Fulls(v9[w]) = {} => t = s
      /\ v4 = w /\ G!Fulls(v9[w]) # {} => n # v2 \/ t = v1
    BY <1>3, WatchFedShows DEF G!Follows
<1>5. t \in G!Screens
    BY <1>3, WatchFedShows
<1> HIDE DEF n, s
<1>6. G!Typed' BY <1>2, <1>1, <1>3, <1>5 DEF G!Typed
<1>7. /\ v9'[w] = <<>> /\ ~v10'[w] /\ v7'[w] = n /\ v12'[w] /\ v6'[w] = t
      /\ \A v \in Watchers \ {w} : /\ v9'[v] = v9[v] /\ v10'[v] = v10[v] /\ v7'[v] = v7[v]
                                   /\ v12'[v] = v12[v] /\ v6'[v] = v6[v]
    BY <1>1, <1>2 DEF G!Typed
<1>8. G!Alone' BY <1>2 DEF G!Alone, G!Starting
<1>9. G!Follows'
  <2>1. G!Fulls(<<>>) = {} BY DEF G!Fulls
  <2>2. v4 = w /\ v3 => n # v2 \/ t = v1
    <3>1. CASE v10[w] BY <1>4, <3>1 DEF n, s
    <3>2. CASE ~v10[w] BY <1>2, <1>4, <3>2 DEF n, s, G!Follows
    <3>3. QED BY <3>1, <3>2
  <2>3. QED BY <1>2, <1>7, <2>1, <2>2 DEF G!Follows, G!Newest
<1>10. G!Written' BY <1>2, <1>7 DEF G!Written
<1>11. QED BY <1>2, <1>6, <1>8, <1>9, <1>10

\* A watcher goes, with a last write if it owns the pane.
LEMMA WatchGoneKeeps ==
    ASSUME WatchApart, G!IInv, NEW w \in Watchers, v5[w] = "run", v5' = [v5 EXCEPT ![w] = "gone"],
           G!EmitIfOwner(w) \/ UNCHANGED G!shownVars,
           v12' = v12 \/ v12' = [v12 EXCEPT ![w] = FALSE],
           UNCHANGED <<v1, v2, v3, v4, v6, v7, v9, v10, v14>>
    PROVE  G!IInv'
<1> USE DEF G!IInv
<1>1. /\ v5'[w] = "gone" /\ \A v \in Watchers \ {w} : v5'[v] = v5[v] /\ v12'[v] = v12[v]
    BY DEF G!Typed
<1>2. /\ v8' \in [Watchers -> G!Screens \union {Null}] /\ \A v \in Watchers \ {w} : v8'[v] = v8[v]
      /\ v3 => v17' \/ v16' = v15'
      /\ v14 # w => UNCHANGED <<v15, v16, v17, v8>>
  <2>1. CASE v14 = w /\ G!EmitIfOwner(w)
    <3>1. v6[w] \in G!Screens /\ v15 = v8[w] /\ G!Update(w, v6[w])
        BY <2>1 DEF G!Typed, G!Written, G!EmitIfOwner, G!StillOwner
    <3>2. G!Told(v6[w]) \in G!Screens \union {Null} BY <3>1 DEF G!Told
    <3>3. /\ v8' = [v8 EXCEPT ![w] = G!Told(v6[w])]
          /\ v3 => v17' \/ v16' = v15'
        BY <3>1, WatchUpdateShows
    <3>4. QED BY <2>1, <3>2, <3>3 DEF G!Typed
  <2>2. CASE ~(v14 = w /\ G!EmitIfOwner(w))
      BY <2>2 DEF G!EmitIfOwner, G!StillOwner, G!shownVars, G!Typed
  <2>3. QED BY <2>1, <2>2
<1>3. G!Typed' BY <1>2 DEF G!Typed
<1>4. G!Alone' BY <1>1, <1>2 DEF G!Alone, G!Starting
<1>5. G!Follows' BY <1>1 DEF G!Follows
<1>6. G!Written' BY <1>1, <1>2 DEF G!Written
<1>7. QED BY <1>2, <1>3, <1>4, <1>5, <1>6

\* The owner writes what its emulator shows.
LEMMA WatchTickKeeps ==
    ASSUME WatchApart, G!IInv, NEW w \in Watchers, NEW s \in G!Screens, v5[w] = "run", v14 = w, G!Update(w, s),
           v6' \in [Watchers -> G!Screens], v7' \in [Watchers -> {0, 1}],
           v12' \in [Watchers -> BOOLEAN],
           v6'[w] = s, (v7'[w] = v2 /\ s = v1) \/ (v7'[w] = v7[w] /\ v6[w] = s),
           \A v \in Watchers \ {w} : v6'[v] = v6[v] /\ v7'[v] = v7[v] /\ v12'[v] = v12[v],
           UNCHANGED <<v1, v2, v3, v4, v5, v9, v10, v14>>
    PROVE  G!IInv'
<1> USE DEF G!IInv
<1>1. v15 = v8[w] BY DEF G!Written
<1>2. /\ v15' = G!Told(s) /\ v8' = [v8 EXCEPT ![w] = G!Told(s)]
      /\ v3 => v17' \/ v16' = v15'
    BY <1>1, WatchUpdateShows
<1>3. G!Told(s) \in G!Screens \union {Null} BY DEF G!Told
<1>4. G!Typed' BY <1>2, <1>3 DEF G!Typed
<1>5. v8'[w] = G!Told(s) /\ \A v \in Watchers \ {w} : v8'[v] = v8[v] BY <1>2 DEF G!Typed
<1>6. G!Alone' BY <1>5 DEF G!Alone, G!Starting
<1>7. G!Follows' BY DEF G!Follows
<1>8. G!Written' BY <1>2, <1>5 DEF G!Written, G!Told
<1>9. QED BY <1>2, <1>4, <1>6, <1>7, <1>8

\* A resize that is noticed seeds the emulator, and what it shows is written.
LEMMA WatchReshapeKeeps ==
    ASSUME WatchApart, G!IInv, NEW w \in Watchers, G!Reshape(w)
    PROVE  G!IInv'
<1>1. /\ v5[w] = "run" /\ v14 = w /\ UNCHANGED <<v1, v2, v3, v4, v5, v9, v10, v14, v12>>
    BY DEF G!Reshape, G!StillOwner, G!paneVars, G!input
<1>2. CASE v7[w] # v2 /\ v3
  <2>1. /\ v6' = [v6 EXCEPT ![w] = v1] /\ v7' = [v7 EXCEPT ![w] = v2] /\ G!Update(w, v1)
      BY <1>2 DEF G!Reshape, G!Seeded
  <2>2. v1 \in G!Screens /\ v6' \in [Watchers -> G!Screens] /\ v7' \in [Watchers -> {0, 1}]
      BY <2>1 DEF G!IInv, G!Typed
  <2>3. /\ v6'[w] = v1 /\ v7'[w] = v2
        /\ \A v \in Watchers \ {w} : v6'[v] = v6[v] /\ v7'[v] = v7[v] /\ v12'[v] = v12[v]
        /\ v12' \in [Watchers -> BOOLEAN]
      BY <1>1, <2>1 DEF G!IInv, G!Typed
  <2>4. QED BY <1>1, <2>1, <2>2, <2>3, WatchTickKeeps
<1>3. CASE ~(v7[w] # v2 /\ v3)
  <2>1. UNCHANGED <<v6, v7, v15, v16, v17, v8>>
      BY <1>3 DEF G!Reshape, G!emulator, G!shownVars
  <2>2. QED BY <1>1, <2>1, WatchSameKeeps
<1>4. QED BY <1>2, <1>3

\* Every step of the pane and of its watchers keeps the invariant.
LEMMA WatchStep == WatchApart /\ G!IInv /\ [G!Next]_(G!avars) => G!IInv'
<1> SUFFICES ASSUME WatchApart, G!IInv, [G!Next]_(G!avars) PROVE G!IInv' OBVIOUS
<1>1. CASE UNCHANGED G!avars
    BY <1>1, WatchSameKeeps DEF G!avars, G!paneVars, G!input, G!emulator, G!shownVars
<1>2. ASSUME NEW w \in Watchers, G!Closed(w) \/ G!Superseded(w) \/ G!Reaped(w) PROVE G!IInv'
    BY <1>2, WatchGoneKeeps DEF G!Closed, G!Superseded, G!Reaped, G!Step, G!paneVars,
       G!emulator, G!input
<1>3. ASSUME NEW w \in Watchers, G!Tick(w) PROVE G!IInv'
  <2>1. CASE v14 = w
    <3>1. /\ v5[w] = "run" /\ G!Update(w, v6[w]) /\ v12' = [v12 EXCEPT ![w] = FALSE]
          /\ UNCHANGED <<v1, v2, v3, v4, v5, v9, v10, v14, v6, v7>>
        BY <1>3, <2>1 DEF G!Tick, G!StillOwner, G!paneVars, G!emulator, G!input
    <3>2. QED BY <2>1, <3>1, WatchTickKeeps DEF G!IInv, G!Typed
  <2>2. CASE v14 # w
    <3>1. /\ v5[w] = "run" /\ v5' = [v5 EXCEPT ![w] = "gone"] /\ v12' = [v12 EXCEPT ![w] = FALSE]
          /\ UNCHANGED <<v1, v2, v3, v4, v6, v7, v9, v10, v14>> /\ UNCHANGED G!shownVars
        BY <1>3, <2>2 DEF G!Tick, G!StillOwner, G!Step, G!paneVars, G!emulator, G!input
    <3>2. QED BY <3>1, WatchGoneKeeps
  <2>3. QED BY <2>1, <2>2
<1>4. ASSUME NEW w \in Watchers, G!Arm(w) \/ G!Watches(w) PROVE G!IInv'
    BY <1>2, <1>3, <1>4, WatchArmKeeps, WatchClaimKeeps, WatchSeedKeeps,
       WatchFirstEmitKeeps, WatchTakeKeeps, WatchReshapeKeeps DEF G!Watches
<1>5. QED BY <1>1, <1>4, WatchPaintsKeeps, WatchResizeKeeps, WatchDiesKeeps DEF G!Next

\* The invariant gives the property.
LEMMA WatchHolds == WatchApart /\ G!IInv => G!StateShown
<1> SUFFICES ASSUME WatchApart, G!IInv, NEW w \in Watchers, G!Quiet(w)
             PROVE  v15 = G!Told(v1) /\ (v17 \/ v16 = v15)
    BY DEF G!StateShown
<1>1. v3 /\ v5[w] = "run" /\ v4 = w /\ v9[w] = <<>> /\ ~v10[w] /\ ~v12[w] /\ v7[w] = v2
    BY DEF G!Quiet
<1>2. v14 = w BY <1>1 DEF G!IInv, G!Alone
<1>3. G!Fulls(<<>>) = {} BY DEF G!Fulls
<1>4. v6[w] = v1 BY <1>1, <1>3 DEF G!IInv, G!Follows
<1>5. QED BY <1>1, <1>2, <1>4 DEF G!IInv, G!Written

\* Of a behaviour of this part.
WatchInv == part = "agent" => G!IInv

(* For any watchers, screens, backlog, prints and resizes, while one        *)
(* watcher at a time starts: when the pane rests and its watcher has caught *)
(* up, the state file and the option hold what the screen shows, whatever   *)
(* was cut, resized or failed to be written (agentdetect/main.go).          *)
THEOREM StatesShown ==
    ASSUME Null \notin Watchers \union AgentStates \union {"none"}, Backlog \in Nat
    PROVE  PartsSpec => []StateShown
<1>0. WatchApart BY DEF WatchApart, G!Screens
<1>1. Starts => WatchInv BY <1>0, WatchInit DEF Starts, WatchInv
<1>2. WatchInv /\ [Steps]_all => WatchInv'
    <2> SUFFICES ASSUME WatchInv, [Steps]_all PROVE WatchInv' OBVIOUS
    <2>1. CASE UNCHANGED all
        <3>1. UNCHANGED G!avars /\ UNCHANGED part
            BY <2>1 DEF all, After0, After10, After12, After17, After18, G!avars,
                    G!paneVars, G!shownVars,
                        G!emulator, G!input, G!counts
        <3>2. QED BY <1>0, <3>1, WatchStep DEF WatchInv
    <2>2. CASE part # "agent" /\ Steps BY <2>2 DEF Steps, WatchInv
    <2>3. CASE part = "agent" /\ G!Next BY <1>0, <2>3, WatchStep DEF WatchInv
    <2>4. QED BY <2>1, <2>2, <2>3 DEF Steps
<1>3. WatchInv => StateShown BY <1>0, WatchHolds DEF WatchInv, StateShown
<1>4. QED BY <1>1, <1>2, <1>3, PTL DEF PartsSpec

----------------------------------------------------------------------------
(* The selector (Selected): v1 to v21 are in, sel, home, told, here, alive, *)
(* stream, mirrored, has, sinks, excluded, later, dirty, unselected, todo,  *)
(* pc, stale, fresh, ended, moves, faults.                                  *)

\* The panes can be spread over the windows, each with one at least.
SelPopulated ==
    \E h \in [SelPanes -> SelWindows] : \A w \in SelWindows : \E p \in SelPanes : h[p] = w

\* Notices on their way, when one more is sent and when one is read.
LEMMA SelSendKeeps ==
    ASSUME L!Typed, NEW n \in L!Notices, v7' = v7 \/ v7' = Append(v7, n), n.kind # "layout"
    PROVE  /\ v7' \in Seq(L!Notices)
           /\ L!Pending("layout")' <=> L!Pending("layout")
           /\ L!Pending("close")' => L!Pending("close") \/ n.kind = "close"
           /\ \A w \in SelWindows : L!Coming(w)' <=> L!Coming(w)
<1>1. CASE v7' = v7 BY <1>1 DEF L!Pending, L!Coming, L!Typed
<1>2. CASE v7' = Append(v7, n)
  <2>1. /\ v7' \in Seq(L!Notices) /\ Len(v7) \in Nat /\ DOMAIN v7 = 1..Len(v7)
        /\ DOMAIN v7' = 1..(Len(v7) + 1) /\ v7'[Len(v7) + 1] = n
        /\ \A i \in 1..Len(v7) : v7'[i] = v7[i]
    BY <1>2 DEF L!Typed
  <2>2. QED BY <2>1 DEF L!Pending, L!Coming
<1>3. QED BY <1>1, <1>2

\* One notice is taken off the stream.
LEMMA SelPopKeeps ==
    ASSUME L!Typed, L!Pop
    PROVE  /\ v7' \in Seq(L!Notices) /\ L!Note \in L!Notices
           /\ L!Pending("layout")' => L!Pending("layout")
           /\ L!Pending("close")' => L!Pending("close")
           /\ L!Pending(L!Note.kind)
           /\ \A w \in SelWindows : L!Coming(w) => L!Coming(w)' \/ (L!Note.kind = "layout" /\ L!Note.win = w)
<1>1. /\ v7 # <<>> /\ v7' = Tail(v7) BY DEF L!Pop
<1>2. /\ v7' \in Seq(L!Notices) /\ Len(v7) \in Nat \ {0} /\ DOMAIN v7 = 1..Len(v7)
      /\ DOMAIN v7' = 1..(Len(v7) - 1) /\ L!Note = v7[1] /\ L!Note \in L!Notices
      /\ \A i \in 1..(Len(v7) - 1) : v7'[i] = v7[i + 1]
    BY <1>1 DEF L!Typed, L!Note
<1>3. \A k : L!Pending(k)' => L!Pending(k)
  <2> SUFFICES ASSUME NEW k, NEW i \in DOMAIN v7', v7'[i].kind = k PROVE L!Pending(k)
      BY DEF L!Pending
  <2>1. i + 1 \in DOMAIN v7 /\ v7[i + 1].kind = k BY <1>2
  <2>2. QED BY <2>1 DEF L!Pending
<1>4. L!Pending(L!Note.kind) BY <1>2 DEF L!Pending
<1>5. ASSUME NEW w \in SelWindows, L!Coming(w), ~(L!Note.kind = "layout" /\ L!Note.win = w) PROVE L!Coming(w)'
  <2>1. PICK i \in DOMAIN v7 : v7[i].kind = "layout" /\ v7[i].win = w BY <1>5 DEF L!Coming
  <2>2. i # 1 BY <2>1, <1>2, <1>5
  <2>3. i - 1 \in DOMAIN v7' /\ v7'[i - 1] = v7[i] BY <2>2, <1>2
  <2>4. QED BY <2>1, <2>3 DEF L!Coming
<1>6. QED BY <1>2, <1>3, <1>4, <1>5

\* The invariant of the selector holds at the start.
LEMMA SelInit == SelPopulated /\ L!Init => L!IInv
<1> SUFFICES ASSUME SelPopulated, L!Init PROVE L!IInv OBVIOUS
<1> USE DEF L!Init
<1>2. v3 \in [SelPanes -> SelWindows] BY DEF SelPopulated
<1>3. L!Typed BY <1>2 DEF L!Typed, L!PanesOf
<1>4. L!Listed BY DEF L!Listed
<1>5. L!Registered
  <2>1. \A w \in v8 : v9[w] = {p \in SelPanes : v3[p] = w} BY DEF L!PanesOf
  <2>2. \A w \in SelWindows \ v8 : v9[w] = {} OBVIOUS
  <2>3. v10 = {p \in SelPanes : v3[p] \in v8} /\ v11 \intersect v10 = {} OBVIOUS
  <2> HIDE DEF L!Init
  <2>4. v10 = UNION {v9[w] : w \in v8} BY <2>1, <2>3
  <2>5. QED BY <2>2, <2>3, <2>4 DEF L!Registered
<1>6. L!Current BY DEF L!Current
<1>7. L!Settled BY DEF L!Settled, L!Pending
<1>8. L!Painted BY DEF L!Painted
<1>9. QED BY <1>3, <1>4, <1>5, <1>6, <1>7, <1>8 DEF L!IInv

\* A window of the session gains an entry.
LEMMA SelMirrorKeeps ==
    ASSUME L!IInv, NEW w \in SelWindows, w \notin v8, L!Mirror(w), UNCHANGED <<v3, v5>>,
           v16 = "reseed" => v16' = "reseed"
    PROVE  /\ v8' = v8 \union {w} /\ v8' \in SUBSET SelWindows
           /\ v9' \in [SelWindows -> SUBSET SelPanes] /\ v10' \in SUBSET SelPanes
           /\ L!Registered' /\ L!Painted'
           /\ \A v \in v8' : v9'[v] # L!PanesOf(v)' => v \in v8 /\ v9[v] # L!PanesOf(v)
<1> USE DEF L!IInv
<1>1. /\ v8' = v8 \union {w} /\ v9' = [v9 EXCEPT ![w] = L!PanesOf(w)]
      /\ v10' = v10 \union L!PanesOf(w) /\ v11' = v11 \ L!PanesOf(w)
      /\ v17' = v17 \ L!PanesOf(w)
    BY DEF L!Mirror, L!Swap
<1>2. L!PanesOf(w) \subseteq SelPanes /\ \A v \in SelWindows : L!PanesOf(v)' = L!PanesOf(v)
    BY DEF L!PanesOf
<1>3. /\ v9'[w] = L!PanesOf(w) /\ \A v \in SelWindows \ {w} : v9'[v] = v9[v]
      /\ v9' \in [SelWindows -> SUBSET SelPanes] /\ v8' \in SUBSET SelWindows
    BY <1>1, <1>2 DEF L!Typed
<1>4. L!Registered'
  <2>1. v10' = UNION {v9'[v] : v \in v8'}
    <3>1. {v9'[v] : v \in v8'} = {v9[v] : v \in v8} \union {L!PanesOf(w)}
      BY <1>1, <1>3 DEF L!Typed
    <3>2. QED BY <1>1, <3>1 DEF L!Registered
  <2>2. QED BY <2>1, <1>1, <1>3 DEF L!Registered
<1>5. L!Painted' BY <1>1 DEF L!Painted
<1>6. QED BY <1>1, <1>2, <1>3, <1>4, <1>5 DEF L!Typed

\* Entries go, none of which names a pane of another.
LEMMA SelClosesKeeps ==
    ASSUME L!IInv, NEW ws \in SUBSET v8, L!Closes(ws), UNCHANGED <<v3, v5, v17>>,
           v16 = "reseed" => v16' = "reseed",
           ws # {} => \A v \in v8 : v9[v] = L!PanesOf(v)
    PROVE  /\ v8' = v8 \ ws /\ v8' \in SUBSET SelWindows
           /\ v9' \in [SelWindows -> SUBSET SelPanes] /\ v10' \in SUBSET SelPanes
           /\ L!Registered' /\ L!Painted'
           /\ \A v \in v8' : v9'[v] # L!PanesOf(v)' => v \in v8 /\ v9[v] # L!PanesOf(v)
<1> USE DEF L!IInv
<1> DEFINE off == UNION {v9[w] : w \in ws}
<1>1. /\ v8' = v8 \ ws /\ v9' = [w \in SelWindows |-> IF w \in ws THEN {} ELSE v9[w]]
      /\ v10' = v10 \ off /\ v11' = v11 \union (v12 \intersect off)
    BY DEF L!Closes, L!Swap
<1>2. v8 \subseteq SelWindows /\ v9 \in [SelWindows -> SUBSET SelPanes] BY DEF L!Typed
<1>3. /\ \A w \in SelWindows \ ws : v9'[w] = v9[w]
      /\ \A w \in ws : v9'[w] = {}
      /\ v9' \in [SelWindows -> SUBSET SelPanes] /\ v8' \in SUBSET SelWindows
      /\ \A v \in SelWindows : L!PanesOf(v)' = L!PanesOf(v)
    BY <1>1, <1>2 DEF L!PanesOf
<1>4. \A v \in v8 \ ws : v9[v] \intersect off = {}
  <2> SUFFICES ASSUME NEW v \in v8 \ ws, NEW p \in v9[v], p \in off PROVE FALSE OBVIOUS
  <2>1. PICK w \in ws : p \in v9[w] OBVIOUS
  <2>2. p \in L!PanesOf(v) /\ p \in L!PanesOf(w) BY <2>1
  <2>3. QED BY <2>1, <2>2 DEF L!PanesOf
<1>5. L!Registered'
  <2>1. ASSUME NEW p PROVE p \in v10' <=> \E v \in v8' : p \in v9'[v]
    <3>1. p \in v10 <=> \E v \in v8 : p \in v9[v] BY DEF L!Registered
    <3>2. p \in off <=> \E v \in ws : p \in v9[v] OBVIOUS
    <3> HIDE DEF off
    <3>3. QED BY <1>1, <1>2, <1>3, <1>4, <3>1, <3>2
  <2>2. v10' = UNION {v9'[v] : v \in v8'} BY <2>1
  <2>3. \A w \in SelWindows \ v8' : v9'[w] = {} BY <1>1, <1>2, <1>3 DEF L!Registered
  <2>4. v11' \intersect v10' = {} BY <1>1 DEF L!Registered
  <2>5. QED BY <2>2, <2>3, <2>4 DEF L!Registered
<1>6. L!Painted' BY <1>1 DEF L!Painted
<1>7. QED BY <1>1, <1>2, <1>3, <1>5, <1>6 DEF L!Typed

\* No window closes while a layout is on its way: until then the entries are
\* their windows'.
LEMMA SelNoneComing ==
    ASSUME L!IInv, ~L!Pending("layout") PROVE \A v \in v8 : v9[v] = L!PanesOf(v)
BY DEF L!IInv, L!Current, L!Coming, L!Pending

\* No step.
LEMMA SelSameKeeps ==
    ASSUME L!IInv, UNCHANGED <<v1, v2, v3, v5, v7, v8, v9, v10, v11, v15, v16, v17, v18>>
    PROVE  L!IInv'
BY DEF L!IInv, L!Typed, L!Listed, L!Registered, L!Current, L!Coming, L!Settled,
   L!Pending, L!Painted, L!PanesOf

\* A notice is read and nothing done.
LEMMA SelSkipKeeps ==
    ASSUME L!IInv, L!Pop, L!Note.kind # "layout", v16' \in {"idle", "exclude"},
           UNCHANGED <<v1, v2, v3, v5, v8, v9, v10, v11, v15, v17, v18>>
    PROVE  L!IInv'
<1> USE DEF L!IInv
<1>1. /\ v7' \in Seq(L!Notices) /\ v16 = "idle"
      /\ L!Pending("layout")' => L!Pending("layout")
      /\ L!Pending("close")' => L!Pending("close")
      /\ \A w \in SelWindows : L!Coming(w) => L!Coming(w)'
    BY SelPopKeeps DEF L!Pop
<1>2. L!Typed' BY <1>1 DEF L!Typed
<1>3. L!Listed' BY <1>1 DEF L!Listed
<1>4. L!Registered' BY DEF L!Registered
<1>5. L!Current' BY <1>1 DEF L!Current, L!PanesOf, L!Typed
<1>6. L!Settled' BY <1>1 DEF L!Settled
<1>7. L!Painted' BY <1>1 DEF L!Painted
<1>8. QED BY <1>2, <1>3, <1>4, <1>5, <1>6, <1>7

\* A window comes to match the selector, or ceases to.
LEMMA SelFlipKeeps ==
    ASSUME Null \notin SelWindows, L!IInv, NEW w \in SelWindows, L!Flip(w)
    PROVE  L!IInv'
<1>1. /\ ~L!Pending("layout") /\ v2' = (IF w \in v2 THEN v2 \ {w} ELSE v2 \union {w}) /\ v18' = FALSE
      /\ UNCHANGED <<v1, v3, v5, v7, v8, v9, v10, v11, v15, v16, v17>>
    BY DEF L!Flip, L!Moves, L!daemon
<1> USE DEF L!IInv
<1>2. L!Typed' BY <1>1 DEF L!Typed
<1>3. L!Listed' BY <1>1 DEF L!Listed
<1>4. L!Registered' BY <1>1 DEF L!Registered
<1>5. L!Current' BY <1>1 DEF L!Current, L!Coming, L!PanesOf
<1>6. L!Settled' BY <1>1 DEF L!Settled, L!Pending
<1>7. L!Painted' BY <1>1 DEF L!Painted
<1>8. QED BY <1>2, <1>3, <1>4, <1>5, <1>6, <1>7

\* A window is linked into the session, or out of it.
LEMMA SelRelinkKeeps ==
    ASSUME Null \notin SelWindows, L!IInv, NEW w \in SelWindows, L!Relink(w)
    PROVE  L!IInv'
<1> DEFINE n == L!Notice(IF w \in v1 THEN "close" ELSE "add", w)
<1>1. /\ ~L!Pending("layout") /\ v1' = (IF w \in v1 THEN v1 \ {w} ELSE v1 \union {w}) /\ v18' = FALSE
      /\ v7' = v7 \o <<n>>
      /\ UNCHANGED <<v2, v3, v5, v8, v9, v10, v11, v15, v16, v17>>
    BY DEF L!Relink, L!Moves, L!daemon, L!Sent
<1> USE DEF L!IInv
<1>2. n \in L!Notices /\ n.kind # "layout" /\ v7' = Append(v7, n)
    BY <1>1 DEF L!Notice, L!Notices, L!Typed
<1> HIDE DEF n
<1>3. v7' \in Seq(L!Notices) /\ ~L!Pending("layout")' /\ \A v \in SelWindows : L!Coming(v)' <=> L!Coming(v)
    BY <1>1, <1>2, SelSendKeeps
<1>4. L!Typed' BY <1>1, <1>3 DEF L!Typed
<1>5. L!Listed' BY <1>1 DEF L!Listed
<1>6. L!Registered' BY <1>1 DEF L!Registered
<1>7. L!Current' BY <1>1, <1>3 DEF L!Current, L!PanesOf, L!Typed
<1>8. L!Settled' BY <1>3 DEF L!Settled
<1>9. L!Painted' BY <1>1 DEF L!Painted
<1>10. QED BY <1>4, <1>5, <1>6, <1>7, <1>8, <1>9

\* The subscription reports a flag.
LEMMA SelReportKeeps ==
    ASSUME Null \notin SelWindows, L!IInv, NEW w \in SelWindows, L!Report(w)
    PROVE  L!IInv'
<1> DEFINE n == L!Notice("flag", w)
<1>1. /\ v7' = v7 \o <<n>>
      /\ UNCHANGED <<v1, v2, v3, v5, v8, v9, v10, v11, v15, v16, v17, v18>>
    BY DEF L!Report, L!daemon, L!Sent
<1> USE DEF L!IInv
<1>2. n \in L!Notices /\ n.kind = "flag" /\ v7' = Append(v7, n)
    BY <1>1 DEF L!Notice, L!Notices, L!Typed
<1> HIDE DEF n
<1>3. /\ v7' \in Seq(L!Notices)
      /\ L!Pending("layout")' <=> L!Pending("layout")
      /\ L!Pending("close")' => L!Pending("close")
      /\ \A v \in SelWindows : L!Coming(v)' <=> L!Coming(v)
    BY <1>2, SelSendKeeps
<1>4. L!Typed' BY <1>1, <1>3 DEF L!Typed
<1>5. L!Listed' BY <1>1 DEF L!Listed
<1>6. L!Registered' BY <1>1 DEF L!Registered
<1>7. L!Current' BY <1>1, <1>3 DEF L!Current, L!PanesOf, L!Typed
<1>8. L!Settled' BY <1>1, <1>3 DEF L!Settled
<1>9. L!Painted' BY <1>1 DEF L!Painted
<1>10. QED BY <1>4, <1>5, <1>6, <1>7, <1>8, <1>9

\* A switch-client takes the control client elsewhere.
LEMMA SelExcursionKeeps ==
    ASSUME L!IInv, NEW dies \in BOOLEAN, L!Excursion(dies)
    PROVE  L!IInv'
<1> DEFINE n == L!Notice("moved", Null)
<1>1. /\ v7' = Append(v7, n) /\ v5' = FALSE
      /\ UNCHANGED <<v1, v2, v3, v8, v9, v10, v11, v15, v16, v17, v18>>
    BY DEF L!Excursion, L!daemon
<1> USE DEF L!IInv
<1>2. n \in L!Notices /\ n.kind = "moved" BY DEF L!Notice, L!Notices
<1> HIDE DEF n
<1>3. /\ v7' \in Seq(L!Notices)
      /\ L!Pending("layout")' <=> L!Pending("layout")
      /\ L!Pending("close")' => L!Pending("close")
      /\ \A v \in SelWindows : L!Coming(v)' <=> L!Coming(v)
    BY <1>1, <1>2, SelSendKeeps
<1>4. L!Typed' BY <1>1, <1>3 DEF L!Typed
<1>5. L!Listed' BY <1>1 DEF L!Listed
<1>6. L!Registered' BY <1>1 DEF L!Registered
<1>7. L!Current' BY <1>1, <1>3 DEF L!Current, L!PanesOf, L!Typed
<1>8. L!Settled' BY <1>1, <1>3 DEF L!Settled
<1>9. L!Painted' BY <1>1 DEF L!Painted
<1>10. QED BY <1>4, <1>5, <1>6, <1>7, <1>8, <1>9

\* A pane prints: its output is lost unless the client hears it and a sink has it.
LEMMA SelPrintsKeeps == ASSUME L!IInv, NEW p \in SelPanes, L!Prints(p) PROVE L!IInv'
<1>1. /\ ~v5 \/ p \in v11
      /\ v17' = v17 \union {p}
      /\ UNCHANGED <<v1, v2, v3, v5, v7, v8, v9, v10, v11, v15, v16, v18>>
    BY DEF L!Prints, L!remote, L!daemon
<1>2. L!Painted' BY <1>1 DEF L!IInv, L!Painted, L!Registered
<1>3. QED BY <1>1, <1>2 DEF L!IInv, L!Typed, L!Listed, L!Registered, L!Current, L!Coming,
             L!Settled, L!Pending, L!PanesOf

\* A pane moves: the entries of both windows have a layout on its way.
LEMMA SelMovePaneKeeps ==
    ASSUME Null \notin SelWindows, L!IInv, NEW p \in SelPanes, NEW w \in SelWindows, L!MovePane(p, w)
    PROVE  L!IInv'
<1> DEFINE a == [kind |-> "layout", win |-> w, panes |-> L!PanesOf(w) \union {p}]
           b == [kind |-> "layout", win |-> v3[p], panes |-> L!PanesOf(v3[p]) \ {p}]
<1>1. /\ ~L!Pending("layout") /\ ~L!Pending("close") /\ v18 /\ v16 = "idle" /\ v3' = [v3 EXCEPT ![p] = w]
      /\ v7' = v7 \o <<a, b>> /\ v18' = FALSE
      /\ UNCHANGED <<v1, v2, v5, v8, v9, v10, v11, v15, v16, v17>>
    BY DEF L!MovePane, L!Moves, L!daemon, L!Sent
<1> USE DEF L!IInv
<1>2. a \in L!Notices /\ b \in L!Notices BY DEF L!Notices, L!PanesOf, L!Typed
<1>3. a.kind = "layout" /\ a.win = w /\ b.kind = "layout" /\ b.win = v3[p] OBVIOUS
<1> HIDE DEF a, b
<1>4. /\ v7' \in Seq(L!Notices) /\ Len(v7) \in Nat /\ DOMAIN v7 = 1..Len(v7)
      /\ DOMAIN v7' = 1..(Len(v7) + 2)
      /\ v7'[Len(v7) + 1] = a /\ v7'[Len(v7) + 2] = b
      /\ \A i \in 1..Len(v7) : v7'[i] = v7[i]
    BY <1>1, <1>2 DEF L!Typed
<1>5. ~L!Pending("close")' BY <1>1, <1>3, <1>4 DEF L!Pending
<1>6. \A v \in {w, v3[p]} : L!Coming(v)'
  <2> SUFFICES ASSUME NEW v \in {w, v3[p]} PROVE \E i \in 1..(Len(v7) + 2) :
        v7'[i].kind = "layout" /\ v7'[i].win = v
    BY <1>4 DEF L!Coming
  <2>1. CASE v = w BY <2>1, <1>3, <1>4
  <2>2. CASE v = v3[p] BY <2>2, <1>3, <1>4
  <2>3. QED BY <2>1, <2>2
<1>7. \A v \in SelWindows \ {w, v3[p]} : L!PanesOf(v)' = L!PanesOf(v)
    BY <1>1 DEF L!PanesOf, L!Typed
<1>8. L!Typed' BY <1>1, <1>4 DEF L!Typed
<1>9. L!Listed' BY <1>1 DEF L!Listed
<1>10. L!Registered' BY <1>1 DEF L!Registered
<1>11. L!Current'
  <2>1. \A v \in v8 : v9[v] = L!PanesOf(v) BY <1>1, SelNoneComing
  <2> SUFFICES ASSUME NEW v \in v8 PROVE v9[v] = L!PanesOf(v)' \/ L!Coming(v)'
      BY <1>1 DEF L!Current
  <2>2. QED BY <2>1, <1>6, <1>7 DEF L!Typed
<1>12. L!Settled' BY <1>1, <1>5 DEF L!Settled, L!Listed
<1>13. L!Painted' BY <1>1 DEF L!Painted
<1>14. QED BY <1>8, <1>9, <1>10, <1>11, <1>12, <1>13

\* windowFilter.observe: the list is to be read again.
LEMMA SelObserveKeeps == ASSUME L!IInv, L!Observe PROVE L!IInv'
<1>1. /\ L!Pop /\ L!Note.kind = "flag" /\ v16 = "idle"
      /\ UNCHANGED <<v1, v2, v3, v5, v8, v9, v10, v11, v15, v16, v17, v18>>
    BY DEF L!Observe, L!Loop, L!remote, L!Pop
<1>2. L!IInv' BY <1>1, SelSkipKeeps
<1>3. QED BY <1>2

\* %window-add: a selected window is mirrored, the listing may fail.
LEMMA SelAddWindowKeeps == ASSUME L!IInv, L!AddWindow PROVE L!IInv'
<1>1. /\ L!Pop /\ L!Note.kind = "add" /\ v16 = "idle"
      /\ UNCHANGED <<v1, v2, v3, v5, v15, v18>>
    BY DEF L!AddWindow, L!Loop, L!remote, L!Pop
<1>2. CASE L!Note.win \notin v8 /\ L!Note.win \in v1 \intersect v2 /\ L!Mirror(L!Note.win) /\ UNCHANGED v16
  <2>1. L!Note.win \in SelWindows BY <1>2 DEF L!IInv, L!Typed
  <2>2. /\ v8' = v8 \union {L!Note.win} /\ v8' \in SUBSET SelWindows
        /\ v9' \in [SelWindows -> SUBSET SelPanes] /\ v10' \in SUBSET SelPanes
        /\ L!Registered' /\ L!Painted'
        /\ \A v \in v8' : v9'[v] # L!PanesOf(v)' => v \in v8 /\ v9[v] # L!PanesOf(v)
    BY <1>1, <1>2, <2>1, SelMirrorKeeps
  <2> USE DEF L!IInv
  <2>3. /\ v7' \in Seq(L!Notices)
        /\ L!Pending("layout")' => L!Pending("layout")
        /\ L!Pending("close")' => L!Pending("close")
        /\ \A w \in SelWindows : L!Coming(w) => L!Coming(w)'
    BY <1>1, SelPopKeeps
  <2>4. L!Typed' BY <1>1, <1>2, <2>2, <2>3 DEF L!Typed
  <2>5. L!Listed' BY <1>1, <1>2, <2>2 DEF L!Listed
  <2>6. L!Current' BY <2>2, <2>3 DEF L!Current, L!Typed
  <2>7. L!Settled' BY <1>1, <1>2, <2>2, <2>3 DEF L!Settled
  <2>8. QED BY <2>2, <2>4, <2>5, <2>6, <2>7
<1>3. CASE UNCHANGED <<v8, v9, v10, v11, v17>> /\ (v16' = v16 \/ v16' = "exclude")
  BY <1>1, <1>3, SelSkipKeeps
<1>4. QED BY <1>1, <1>2, <1>3 DEF L!AddWindow

\* %window-close: gone from the list, or the listing failed.
LEMMA SelCloseWindowKeeps == ASSUME L!IInv, L!CloseWindow PROVE L!IInv'
<1>1. /\ L!Pop /\ L!Note.kind = "close" /\ v16 = "idle"
      /\ UNCHANGED <<v1, v2, v3, v5, v15, v16, v17>>
    BY DEF L!CloseWindow, L!Loop, L!remote, L!Pop
<1>2. ~L!Pending("layout") BY <1>1, SelPopKeeps DEF L!IInv, L!Settled
<1>3. CASE L!Note.win \in v8 /\ (v21' # v21 \/ L!Note.win \notin v1 \intersect v2)
  <2>1. L!Closes({L!Note.win}) /\ v18' = (v18 /\ v21' = v21) BY <1>3 DEF L!CloseWindow
  <2>2. /\ v8' = v8 \ {L!Note.win} /\ v8' \in SUBSET SelWindows
        /\ v9' \in [SelWindows -> SUBSET SelPanes] /\ v10' \in SUBSET SelPanes
        /\ L!Registered' /\ L!Painted'
        /\ \A v \in v8' : v9'[v] # L!PanesOf(v)' => v \in v8 /\ v9[v] # L!PanesOf(v)
    BY <1>1, <1>2, <1>3, <2>1, SelClosesKeeps, SelNoneComing
  <2> USE DEF L!IInv
  <2>3. v7' \in Seq(L!Notices) /\ ~L!Pending("layout")' BY <1>1, <1>2, SelPopKeeps
  <2>4. L!Typed' BY <1>1, <2>2, <2>3 DEF L!Typed
  <2>5. L!Listed' BY <1>1, <1>3, <2>1, <2>2 DEF L!Listed
  <2>6. L!Current' BY <1>2, <2>2, SelNoneComing DEF L!Current
  <2>7. L!Settled' BY <2>3 DEF L!Settled
  <2>8. QED BY <2>2, <2>4, <2>5, <2>6, <2>7
<1>4. CASE ~(L!Note.win \in v8 /\ (v21' # v21 \/ L!Note.win \notin v1 \intersect v2))
  <2>1. UNCHANGED <<v8, v9, v10, v11, v18>> BY <1>4 DEF L!CloseWindow
  <2>2. QED BY <1>1, <2>1, SelSkipKeeps
<1>5. QED BY <1>3, <1>4

\* A window's layout is read: its entry names its panes again.
LEMMA SelLayoutKeeps == ASSUME L!IInv, L!Layout PROVE L!IInv'
<1> DEFINE w == L!Note.win
           now == L!PanesOf(w)
           new == now \ v9[w]
           left == {p \in v9[w] \ now : \A v \in v8 \ {w} : p \notin v9[v]}
<1>1. /\ L!Pop /\ L!Note.kind = "layout" /\ v16 = "idle"
      /\ UNCHANGED <<v1, v2, v3, v5, v8, v15, v16, v18>>
    BY DEF L!Layout, L!Loop, L!remote, L!Pop
<1> USE DEF L!IInv
<1>2. /\ v7' \in Seq(L!Notices)
      /\ L!Pending("layout")' => L!Pending("layout")
      /\ L!Pending("close")' => L!Pending("close")
      /\ \A v \in SelWindows : L!Coming(v) => L!Coming(v)' \/ v = w
    BY <1>1, SelPopKeeps
<1>3. \A v \in SelWindows : L!PanesOf(v)' = L!PanesOf(v) BY <1>1 DEF L!PanesOf
<1>4. CASE w \in v8
  <2>1. v9' = [v9 EXCEPT ![w] = now] /\ L!Swap(left, new) /\ v17' = v17 \ new
    BY <1>4 DEF L!Layout
  <2>2. /\ v10' = (v10 \ left) \union new /\ v11' = (v11 \union (v12 \intersect left)) \ new
    BY <2>1 DEF L!Swap
  <2>3. /\ now \subseteq SelPanes /\ w \in SelWindows /\ v9'[w] = now /\ \A v \in SelWindows \ {w} : v9'[v] = v9[v]
        /\ v9' \in [SelWindows -> SUBSET SelPanes] /\ v8 \subseteq SelWindows
    BY <1>4, <2>1 DEF L!Typed, L!PanesOf
  <2>4. \A p : p \in left <=> /\ p \in v9[w] /\ p \notin now
                              /\ \A v \in v8 \ {w} : p \notin v9[v]
    OBVIOUS
  <2>5. \A p : p \in new <=> p \in now /\ p \notin v9[w] OBVIOUS
  <2> HIDE DEF left, new, now
  <2>6. \A p : p \in v10 <=> \E v \in v8 : p \in v9[v] BY DEF L!Registered
  <2>7. \A p : p \in v10' <=> \E v \in v8 : p \in v9'[v]
    <3> SUFFICES ASSUME NEW p PROVE p \in v10' <=> \E v \in v8 : p \in v9'[v] OBVIOUS
    <3>1. (\E v \in v8 : p \in v9[v]) <=> p \in v9[w] \/ \E v \in v8 \ {w} : p \in v9[v]
      BY <1>4
    <3>2. (\E v \in v8 : p \in v9'[v]) <=> p \in now \/ \E v \in v8 \ {w} : p \in v9[v]
      BY <1>4, <2>3
    <3>3. QED BY <2>2, <2>4, <2>5, <2>6, <3>1, <3>2
  <2>8. v10' = UNION {v9'[v] : v \in v8'} BY <1>1, <2>7
  <2>9. L!Registered' BY <1>1, <1>4, <2>2, <2>3, <2>8 DEF L!Registered
  <2>10. v10' \in SUBSET SelPanes BY <2>2, <2>3 DEF L!Typed, new
  <2>11. L!Typed' BY <1>1, <1>2, <2>3, <2>10 DEF L!Typed
  <2>12. L!Listed' BY <1>1 DEF L!Listed
  <2>13. L!Current' BY <1>1, <1>2, <1>3, <2>3 DEF L!Current, now
  <2>14. L!Settled' BY <1>1, <1>2 DEF L!Settled
  <2>15. L!Painted' BY <1>1, <2>1, <2>2 DEF L!Painted
  <2>16. QED BY <2>9, <2>11, <2>12, <2>13, <2>14, <2>15
<1>5. CASE w \notin v8
  <2>1. /\ UNCHANGED <<v9, v10, v17>> /\ v11' \ v11 \subseteq SelPanes \ v10
    BY <1>1, <1>5, SelPopKeeps DEF L!Layout, L!Exclude, L!Notices
  <2>2. L!Typed' BY <1>1, <1>2, <2>1 DEF L!Typed
  <2>3. L!Listed' BY <1>1 DEF L!Listed
  <2>4. L!Registered' BY <1>1, <2>1 DEF L!Registered
  <2>5. L!Current' BY <1>1, <1>2, <1>3, <1>5, <2>1 DEF L!Current, L!Typed
  <2>6. L!Settled' BY <1>1, <1>2 DEF L!Settled
  <2>7. L!Painted' BY <1>1, <2>1 DEF L!Painted
  <2>8. QED BY <2>2, <2>3, <2>4, <2>5, <2>6, <2>7
<1>6. QED BY <1>4, <1>5

\* sessionpin.go: the client is switched back, or the mirror ends.
LEMMA SelSessionChangedKeeps == ASSUME L!IInv, L!SessionChanged PROVE L!IInv'
<1>1. /\ L!Pop /\ L!Note.kind = "moved" /\ v16 = "idle"
      /\ v16' = IF v5' THEN "reseed" ELSE "idle"
      /\ UNCHANGED <<v1, v2, v3, v8, v9, v10, v11, v15, v17, v18>>
    BY DEF L!SessionChanged, L!Loop, L!remote, L!Pop
<1> USE DEF L!IInv
<1>2. /\ v7' \in Seq(L!Notices)
      /\ L!Pending("layout")' => L!Pending("layout")
      /\ L!Pending("close")' => L!Pending("close")
      /\ \A v \in SelWindows : L!Coming(v) => L!Coming(v)'
    BY <1>1, SelPopKeeps
<1>3. L!Typed' BY <1>1, <1>2 DEF L!Typed
<1>4. L!Listed' BY <1>1 DEF L!Listed
<1>5. L!Registered' BY <1>1 DEF L!Registered
<1>6. L!Current' BY <1>1, <1>2 DEF L!Current, L!PanesOf, L!Typed
<1>7. L!Settled' BY <1>1, <1>2 DEF L!Settled
<1>8. L!Painted' BY <1>1 DEF L!Painted
<1>9. QED BY <1>3, <1>4, <1>5, <1>6, <1>7, <1>8

\* The repaint of every sink after the return.
LEMMA SelReseedKeeps == ASSUME L!IInv, L!Reseed PROVE L!IInv'
<1>1. /\ v16 = "reseed" /\ v16' = "idle" /\ v17' = IF v5 THEN v17 \ v10 ELSE v17
      /\ UNCHANGED <<v1, v2, v3, v5, v7, v8, v9, v10, v11, v15, v18>>
    BY DEF L!Reseed, L!Reseeded, L!Loop, L!remote
<1> USE DEF L!IInv
<1>2. L!Typed' BY <1>1 DEF L!Typed
<1>3. L!Listed' BY <1>1 DEF L!Listed
<1>4. L!Painted' BY <1>1 DEF L!Painted
<1>5. QED BY <1>1, <1>2, <1>3, <1>4 DEF L!Registered, L!Current, L!Coming, L!Settled,
             L!Pending, L!PanesOf

\* selector.go: the listing is compared with what is mirrored.
LEMMA SelReconcileKeeps == ASSUME L!IInv, NEW bad \in L!Bad, L!Reconcile(bad) PROVE L!IInv'
<1> DEFINE ws == {w \in v8 : w \notin v1 \/ (~L!Flag(w) /\ w \notin bad)}
<1>1. /\ v16 = "idle" /\ v16' = "mirror" /\ v18' = (bad = {}) /\ L!Closes(ws)
      /\ v15' = (v1 \intersect v2) \ (bad \union v8)
      /\ UNCHANGED <<v1, v2, v3, v5, v7, v17>>
    BY DEF L!Reconcile, L!Loop, L!remote
<1> USE DEF L!IInv
<1>2. ws # {} => \A v \in v8 : v9[v] = L!PanesOf(v)
  <2>1. ASSUME NEW w \in ws PROVE w \notin v1 \intersect v2 BY DEF L!Flag
  <2>2. ws # {} => ~L!Pending("layout") BY <2>1 DEF L!Settled
  <2>3. QED BY <2>2, SelNoneComing
<1>3. /\ v8' = v8 \ ws /\ v8' \in SUBSET SelWindows
      /\ v9' \in [SelWindows -> SUBSET SelPanes] /\ v10' \in SUBSET SelPanes
      /\ L!Registered' /\ L!Painted'
      /\ \A v \in v8' : v9'[v] # L!PanesOf(v)' => v \in v8 /\ v9[v] # L!PanesOf(v)
    BY <1>1, <1>2, SelClosesKeeps
<1>4. L!Typed' BY <1>1, <1>3 DEF L!Typed
<1>5. L!Listed' BY <1>1, <1>3 DEF L!Listed, L!Flag
<1>6. L!Current' BY <1>1, <1>3 DEF L!Current, L!Coming
<1>7. L!Settled' BY <1>1, <1>3 DEF L!Settled, L!Pending
<1>8. QED BY <1>3, <1>4, <1>5, <1>6, <1>7

\* The listing fails: nothing changes.
LEMMA SelReconcileFailsKeeps == ASSUME L!IInv, L!ReconcileFails PROVE L!IInv'
<1>1. /\ v18' = FALSE
      /\ UNCHANGED <<v1, v2, v3, v5, v7, v8, v9, v10, v11, v15, v16, v17>>
    BY DEF L!ReconcileFails, L!Loop, L!remote
<1>2. QED BY <1>1 DEF L!IInv, L!Typed, L!Listed, L!Registered, L!Current, L!Coming,
             L!Settled, L!Pending, L!Painted, L!PanesOf

\* The reconcile goes on with the windows it still has to mirror.
LEMMA SelMirrorNewKeeps == ASSUME L!IInv, L!MirrorNew PROVE L!IInv'
<1>1. v16 = "mirror" /\ UNCHANGED <<v1, v2, v3, v5, v7, v18>>
    BY DEF L!MirrorNew, L!Loop, L!remote
<1> USE DEF L!IInv
<1>2. CASE v15 = {}
  <2>1. v16' = "exclude" /\ UNCHANGED <<v8, v9, v10, v11, v17, v15>> BY <1>2 DEF L!MirrorNew
  <2>2. QED BY <1>1, <1>2, <2>1 DEF L!Typed, L!Listed, L!Registered, L!Current, L!Coming,
               L!Settled, L!Pending, L!Painted, L!PanesOf
<1>3. ASSUME NEW w \in v15, v15' = v15 \ {w}, UNCHANGED v16, w \in v1, L!Mirror(w) PROVE L!IInv'
  <2>1. w \in SelWindows /\ w \notin v8 BY <1>3 DEF L!Typed, L!Listed
  <2>2. /\ v8' = v8 \union {w} /\ v8' \in SUBSET SelWindows
        /\ v9' \in [SelWindows -> SUBSET SelPanes] /\ v10' \in SUBSET SelPanes
        /\ L!Registered' /\ L!Painted'
        /\ \A v \in v8' : v9'[v] # L!PanesOf(v)' => v \in v8 /\ v9[v] # L!PanesOf(v)
    BY <1>1, <1>3, <2>1, SelMirrorKeeps
  <2>3. L!Typed' BY <1>1, <1>3, <2>2 DEF L!Typed
  <2>4. L!Listed' BY <1>1, <1>3, <2>2 DEF L!Listed
  <2>5. L!Current' BY <1>1, <2>2 DEF L!Current, L!Coming
  <2>6. L!Settled' BY <1>1, <1>3, <2>2 DEF L!Settled, L!Pending
  <2>7. QED BY <2>2, <2>3, <2>4, <2>5, <2>6
<1>4. ASSUME NEW w \in v15, v15' = v15 \ {w}, UNCHANGED v16, w \notin v1,
             UNCHANGED <<v8, v9, v10, v11, v17>>
      PROVE  L!IInv'
  <2>1. L!Listed' BY <1>1, <1>4 DEF L!Listed
  <2>2. L!Settled' BY <1>1, <1>4 DEF L!Settled, L!Pending
  <2>3. QED BY <1>1, <1>4, <2>1, <2>2 DEF L!Typed, L!Registered, L!Current, L!Coming,
               L!Painted, L!PanesOf
<1>5. QED BY <1>2, <1>3, <1>4 DEF L!MirrorNew

\* The panes of the windows left out are excluded.
LEMMA SelExcludeKeeps == ASSUME L!IInv, L!ExcludeUnselected PROVE L!IInv'
<1>1. /\ v16 = "exclude" /\ v16' = "idle"
      /\ v11' = v11 \/ v11' \intersect v10 = {}
      /\ UNCHANGED <<v1, v2, v3, v5, v7, v8, v9, v10, v15, v17, v18>>
    BY DEF L!ExcludeUnselected, L!SetExcluded, L!Loop, L!remote
<1>2. QED BY <1>1 DEF L!IInv, L!Typed, L!Listed, L!Registered, L!Current, L!Coming,
             L!Settled, L!Pending, L!Painted, L!PanesOf

\* Every step of the remote and of the daemon keeps the invariant.
LEMMA SelStep == Null \notin SelWindows /\ L!IInv /\ [L!Next]_(L!lvars) => L!IInv'
<1> SUFFICES ASSUME Null \notin SelWindows, L!IInv, [L!Next]_(L!lvars) PROVE L!IInv' OBVIOUS
<1>1. CASE UNCHANGED L!lvars BY <1>1, SelSameKeeps DEF L!lvars, L!remote, L!daemon
<1>2. QED BY <1>1, SelFlipKeeps, SelRelinkKeeps, SelReportKeeps, SelPrintsKeeps,
             SelMovePaneKeeps, SelExcursionKeeps,
         SelObserveKeeps, SelAddWindowKeeps, SelCloseWindowKeeps, SelLayoutKeeps,
         SelSessionChangedKeeps, SelReseedKeeps,
         SelReconcileKeeps, SelReconcileFailsKeeps, SelMirrorNewKeeps,
         SelExcludeKeeps DEF L!Next

\* The invariant gives the property.
LEMMA SelHolds == L!IInv => L!SelectionKept
<1> SUFFICES ASSUME L!IInv PROVE L!SelectionKept OBVIOUS
<1> USE DEF L!IInv
<1>1. v11 \intersect v10 = {} BY DEF L!Registered
<1>2. ASSUME L!Quiet PROVE /\ v8 = v1 \intersect v2
                         /\ v10 = {p \in SelPanes : v3[p] \in v8}
                         /\ v17 \intersect v10 = {}
  <2>1. v5 /\ v7 = <<>> /\ v16 = "idle" /\ v18 BY <1>2 DEF L!Quiet
  <2>2. v8 = v1 \intersect v2 BY <2>1 DEF L!Listed
  <2>3. ~L!Pending("layout") BY <2>1 DEF L!Pending
  <2>4. \A w \in v8 : v9[w] = L!PanesOf(w) BY <2>3, SelNoneComing
  <2>5. \A p : p \in v10 <=> \E w \in v8 : p \in v9[w] BY DEF L!Registered
  <2>6. v10 = {p \in SelPanes : v3[p] \in v8} BY <2>4, <2>5 DEF L!PanesOf
  <2>7. QED BY <2>1, <2>2, <2>6 DEF L!Painted
<1>3. QED BY <1>1, <1>2 DEF L!SelectionKept

\* Of a behaviour of this part.
SelInv == part = "selector" => L!IInv

(* For any windows and panes that can be spread over them, any changes of   *)
(* selection, links, excursions and failed reads, while no pane moves       *)
(* between the notices of another change: when nothing is left to happen    *)
(* exactly the selected windows are mirrored, their panes and no other are  *)
(* registered, and none of them misses output (selector.go, sessionpin.go). *)
THEOREM SelectionHolds ==
    ASSUME SelPopulated, Null \notin SelWindows
    PROVE  PartsSpec => []SelectionKept
<1>1. Starts => SelInv BY SelInit DEF Starts, SelInv
<1>2. SelInv /\ [Steps]_all => SelInv'
    <2> SUFFICES ASSUME SelInv, [Steps]_all PROVE SelInv' OBVIOUS
    <2>1. CASE UNCHANGED all
        <3>1. UNCHANGED L!lvars /\ UNCHANGED part
            BY <2>1 DEF all, After0, After10, After12, After17, After18, After20,
                    L!lvars, L!remote, L!daemon
        <3>2. QED BY <3>1, SelStep DEF SelInv
    <2>2. CASE part # "selector" /\ Steps BY <2>2 DEF Steps, SelInv
    <2>3. CASE part = "selector" /\ L!Next BY <2>3, SelStep DEF SelInv
    <2>4. QED BY <2>1, <2>2, <2>3 DEF Steps
<1>3. SelInv => SelectionKept BY SelHolds DEF SelInv, SelectionKept
<1>4. QED BY <1>1, <1>2, <1>3, PTL DEF PartsSpec

----------------------------------------------------------------------------
(* The picker's view (PickerView): v1 to v18 are alive, list, cursor, mode, *)
(* perPage, page, focused, aim, read, batch, bad, gate, asks, shown, keys,  *)
(* rebuilds, deaths, batches.                                               *)

\* Panes, the title and no pane are told apart.
ViewApart ==
    /\ ViewPanes # {} /\ IsFiniteSet(ViewPanes)
    /\ Title \notin ViewPanes /\ Null \notin ViewPanes /\ Null # Title

\* A list of n panes under its title.
ListOf(l, n) ==
    /\ n \in Nat /\ l \in [1..(n + 1) -> V!Rows] /\ l[1] = Title
    /\ \A i \in 2..(n + 1) : l[i] \in ViewPanes

\* The library's count, as the module sees it.
LEMMA ViewCounts == ASSUME NEW s PROVE V!Cardinality(s) = Cardinality(s)
BY DEF V!Cardinality, Cardinality, V!IsFiniteSet, IsFiniteSet

\* A set of numbers has a least.
LEMMA LeastNumber ==
    ASSUME NEW C \in SUBSET Nat, C # {}
    PROVE  \E n \in C : \A m \in C : n <= m
<1>1. PICK n \in C : \A m \in C : ~ (<<m, n>> \in OpToRel(<, Nat))
    BY NatLessThanWellFounded, WFMin
<1>2. ASSUME NEW m \in C PROVE n <= m
    <2>1. m \in Nat /\ n \in Nat /\ <<m, n>> \in Nat \X Nat
        OBVIOUS
    <2>2. ~ (m < n)
        BY <1>1, <2>1 DEF OpToRel
    <2>3. QED BY <2>1, <2>2
<1>3. QED BY <1>2

\* Tile k of a list is its row k + 1.
LEMMA ViewTileList ==
    ASSUME ViewApart, NEW l, NEW n, ListOf(l, n)
    PROVE  V!Tiles(l) = [k \in 1..n |-> k + 1]
<1> DEFINE on == {i \in DOMAIN l : l[i] # Title}
<1>1. on = 2..(n + 1)
    BY DEF ListOf, ViewApart
<1>2. V!Cardinality(2..(n + 1)) = n
    BY FS_Interval, ViewCounts DEF ListOf
<1>3. ASSUME NEW i \in 2..(n + 1)
      PROVE  V!Cardinality({j \in 2..(n + 1) : j < i}) = i - 2
    <2>1. {j \in 2..(n + 1) : j < i} = 2..(i - 1)
        BY DEF ListOf
    <2>2. V!Cardinality(2..(i - 1)) = i - 2
        BY FS_Interval, ViewCounts DEF ListOf
    <2>3. QED BY <2>1, <2>2
<1>4. ASSUME NEW k \in 1..n
      PROVE  (CHOOSE i \in 2..(n + 1) : V!Cardinality({j \in 2..(n + 1) : j < i}) = k - 1) = k + 1
    <2>1. k + 1 \in 2..(n + 1) /\ (k + 1) - 2 = k - 1
        BY DEF ListOf
    <2>2. \A i \in 2..(n + 1) : i - 2 = k - 1 => i = k + 1
        BY DEF ListOf
    <2>3. QED BY <1>3, <2>1, <2>2
<1>5. V!InOrder(2..(n + 1)) = [k \in 1..n |-> k + 1]
    BY <1>2, <1>4 DEF V!InOrder
<1>6. QED BY <1>1, <1>5 DEF V!Tiles

\* Which rows may be selected, and the first of them.
LEMMA ViewListFacts ==
    ASSUME ViewApart, NEW l, NEW n, ListOf(l, n)
    PROVE  /\ DOMAIN l = 1..(n + 1) /\ n \in Nat
           /\ \A i : V!Selectable(l, i) <=> i \in 2..(n + 1)
           /\ V!FirstSelectable(l) = IF n = 0 THEN 0 ELSE 2
           /\ Null \notin V!Range(l)
           /\ \A i : V!Selectable(l, i) =>
                i \in DOMAIN l /\ i \in Nat /\ i # 0 /\ l[i] \in ViewPanes
<1>1. DOMAIN l = 1..(n + 1) /\ n \in Nat
    BY DEF ListOf
<1>2. \A i : V!Selectable(l, i) <=> i \in 2..(n + 1)
    BY <1>1 DEF ListOf, V!Selectable, ViewApart
<1>3. {i \in DOMAIN l : V!Selectable(l, i)} = 2..(n + 1)
    BY <1>1, <1>2
<1>4. (2..(n + 1) = {}) <=> n = 0
    <2>1. n # 0 => 2 \in 2..(n + 1) BY <1>1
    <2>2. QED BY <2>1, <1>1
<1>5. n # 0 => (CHOOSE i \in 2..(n + 1) : \A j \in 2..(n + 1) : i <= j) = 2
    <2>1. n # 0 => 2 \in 2..(n + 1) /\ \A j \in 2..(n + 1) : 2 <= j BY <1>1
    <2>2. n # 0 => \A i \in 2..(n + 1) : (\A j \in 2..(n + 1) : i <= j) => i = 2
        BY <1>1, <2>1
    <2>3. QED BY <2>1, <2>2
<1>6. V!FirstSelectable(l) = IF n = 0 THEN 0 ELSE 2
    <2> DEFINE on == {i \in DOMAIN l : V!Selectable(l, i)}
    <2>1. V!FirstSelectable(l) = IF on = {} THEN 0 ELSE CHOOSE i \in on : \A j \in on : i <= j
        BY DEF V!FirstSelectable
    <2>2. on = 2..(n + 1)
        BY <1>3
    <2> HIDE DEF on
    <2>3. QED BY <2>1, <2>2, <1>4, <1>5
<1>7. Null \notin V!Range(l)
    BY <1>1 DEF V!Range, ListOf, V!Rows, ViewApart
<1>8. \A i : V!Selectable(l, i) => i \in DOMAIN l /\ i \in Nat /\ i # 0 /\ l[i] \in ViewPanes
    <2>1. \A i \in 2..(n + 1) : l[i] \in ViewPanes BY DEF ListOf
    <2>2. QED BY <1>1, <1>2, <2>1
<1>9. QED BY <1>1, <1>2, <1>6, <1>7, <1>8

\* Where a row stands.
LEMMA ViewIndexFacts ==
    ASSUME NEW l, NEW row, row \in V!Range(l)
    PROVE  V!IndexOf(l, row) \in DOMAIN l /\ l[V!IndexOf(l, row)] = row
<1>1. \E i \in DOMAIN l : l[i] = row
    BY DEF V!Range
<1>2. V!IndexOf(l, row) = CHOOSE i \in DOMAIN l : l[i] = row
    BY DEF V!IndexOf
<1>3. QED BY <1>1, <1>2

\* The tile of a row.
LEMMA ViewTileIndex ==
    ASSUME ViewApart, NEW l, NEW n, ListOf(l, n), NEW i \in 2..(n + 1)
    PROVE  /\ i \in V!Range(V!Tiles(l)) /\ V!IndexOf(V!Tiles(l), i) = i - 1
           /\ V!TilePos(V!Tiles(l), i) = i - 1
           /\ V!Tiles(l)[i - 1] = i
<1> DEFINE t == [k \in 1..n |-> k + 1]
<1>1. V!Tiles(l) = t
    BY ViewTileList
<1>2. n \in Nat /\ i - 1 \in 1..n /\ t[i - 1] = i
    BY DEF ListOf
<1>3. i \in V!Range(t)
    BY <1>2 DEF V!Range
<1>4. V!IndexOf(t, i) = i - 1
    <2>1. V!IndexOf(t, i) \in DOMAIN t /\ t[V!IndexOf(t, i)] = i
        <3> HIDE DEF t
        <3>1. QED BY <1>3, ViewIndexFacts
    <2>2. V!IndexOf(t, i) \in 1..n /\ V!IndexOf(t, i) + 1 = i
        BY <2>1
    <2>3. QED BY <2>2, <1>2
<1>5. V!TilePos(t, i) = i - 1
    <2> DEFINE after == {k \in 1..n : t[k] >= i}
    <2>1. after = (i - 1)..n
        BY <1>2
    <2>2. i - 1 \in after /\ \A j \in after : i - 1 <= j
        BY <2>1, <1>2
    <2>3. \A k \in after : (\A j \in after : k <= j) => k = i - 1
        BY <2>1, <2>2, <1>2
    <2>4. (CHOOSE k \in after : \A j \in after : k <= j) = i - 1
        BY <2>2, <2>3
    <2>5. DOMAIN t = 1..n
        OBVIOUS
    <2>6. QED BY <2>2, <2>4, <2>5 DEF V!TilePos
<1>6. QED BY <1>1, <1>2, <1>3, <1>4, <1>5

\* The wall's selection follows the row, or stands on a tile, on its page.
LEMMA ViewSnapped ==
    ASSUME ViewApart, NEW l, NEW n, ListOf(l, n), NEW at, NEW keep, NEW pp,
           at = 0 \/ V!Selectable(l, at), keep # Title
    PROVE  LET s == V!SnapWallTo(l, at, keep, pp) IN
           /\ s.cursor = 0 \/ V!Selectable(l, s.cursor)
           /\ s.cursor # 0 => (V!IndexOf(V!Tiles(l), s.cursor) - 1) \div pp = s.page
           /\ keep \in V!Range(l) => V!RowAt(l, s.cursor) = keep
           /\ keep \notin V!Range(l) /\ at # 0 => s.cursor = at
<1> DEFINE s == V!SnapWallTo(l, at, keep, pp)
           t == V!Tiles(l)
           pos == IF keep \in V!Range(l) THEN V!IndexOf(t, V!IndexOf(l, keep))
                  ELSE V!TilePos(t, at)
<1>1. /\ n \in Nat /\ DOMAIN l = 1..(n + 1)
      /\ \A i : V!Selectable(l, i) <=> i \in 2..(n + 1)
    BY ViewListFacts
<1>2. t = [k \in 1..n |-> k + 1]
    BY ViewTileList
<1>3. CASE n = 0
    <2>1. t = <<>>
        BY <1>2, <1>3
    <2>2. s = [cursor |-> at, page |-> 0]
        BY <2>1 DEF V!SnapWallTo
    <2>3. at = 0
        BY <1>1, <1>3
    <2>4. keep \notin V!Range(l)
        BY <1>1, <1>3 DEF V!Range, ListOf
    <2>5. QED BY <2>2, <2>3, <2>4
<1>4. CASE n # 0
    <2>1. t # <<>>
        <3>1. 1 \in DOMAIN t BY <1>1, <1>2, <1>4
        <3>2. QED BY <3>1
    <2>2. s = [cursor |-> t[pos], page |-> (pos - 1) \div pp]
        BY <2>1 DEF V!SnapWallTo
    <2>3. keep \in V!Range(l) =>
            /\ V!IndexOf(l, keep) \in 2..(n + 1) /\ l[V!IndexOf(l, keep)] = keep
            /\ pos = V!IndexOf(l, keep) - 1
        <3>1. ASSUME keep \in V!Range(l)
              PROVE  V!IndexOf(l, keep) \in 2..(n + 1) /\ l[V!IndexOf(l, keep)] = keep
            <4>1. V!IndexOf(l, keep) \in DOMAIN l /\ l[V!IndexOf(l, keep)] = keep
                BY <3>1, ViewIndexFacts
            <4>2. QED BY <4>1, <1>1 DEF ListOf
        <3>2. QED BY <3>1, ViewTileIndex
    <2>4. keep \notin V!Range(l) /\ at # 0 => at \in 2..(n + 1) /\ pos = at - 1
        BY <1>1, ViewTileIndex
    <2>5. keep \notin V!Range(l) /\ at = 0 => pos = 1
        <3>1. {k \in DOMAIN t : t[k] >= 0} = 1..n
            BY <1>1, <1>2
        <3>2. 1 \in 1..n /\ \A j \in 1..n : 1 <= j
            BY <1>1, <1>4
        <3>3. \A k \in 1..n : (\A j \in 1..n : k <= j) => k = 1
            BY <3>2
        <3>4. (CHOOSE k \in 1..n : \A j \in 1..n : k <= j) = 1
            BY <3>2, <3>3
        <3>5. 1..n # {}
            BY <3>2
        <3>6. V!TilePos(t, 0) = 1
            BY <3>1, <3>4, <3>5 DEF V!TilePos
        <3>7. QED BY <3>6
    <2>6. pos \in 1..n /\ t[pos] = pos + 1
        BY <1>1, <1>2, <1>4, <2>3, <2>4, <2>5
    <2>7. V!IndexOf(t, pos + 1) = pos
        <3>1. pos + 1 \in 2..(n + 1) /\ (pos + 1) - 1 = pos BY <2>6, <1>1
        <3>2. QED BY <3>1, ViewTileIndex
    <2> HIDE DEF pos, t
    <2>8. s.cursor = pos + 1 /\ s.page = (pos - 1) \div pp
        BY <2>2, <2>6
    <2>9. pos + 1 \in 2..(n + 1) /\ pos + 1 # 0
        BY <1>1, <2>6
    <2> HIDE DEF s
    <2>10. V!Selectable(l, s.cursor)
        BY <1>1, <2>8, <2>9
    <2>11. (V!IndexOf(t, s.cursor) - 1) \div pp = s.page
        BY <2>7, <2>8
    <2>12. keep \in V!Range(l) => V!RowAt(l, s.cursor) = keep
        BY <1>1, <2>3, <2>8, <2>9 DEF V!RowAt
    <2>13. keep \notin V!Range(l) /\ at # 0 => s.cursor = at
        BY <1>1, <2>4, <2>8
    <2>14. QED BY <2>10, <2>11, <2>12, <2>13 DEF s, t
<1>5. QED BY <1>3, <1>4

\* The list's selection follows the row too.
LEMMA ViewRestored ==
    ASSUME ViewApart, NEW l, NEW n, ListOf(l, n), NEW at \in Nat, NEW keep, keep # Title
    PROVE  LET c == V!RestoreCursor(l, at, keep) IN
           /\ c = 0 \/ V!Selectable(l, c)
           /\ keep \in V!Range(l) => V!RowAt(l, c) = keep
<1> DEFINE c == V!RestoreCursor(l, at, keep)
           k == IF keep \in V!Range(l) THEN V!IndexOf(l, keep)
                ELSE IF keep = Null \/ l = <<>> THEN at
                ELSE IF at <= Len(l) THEN at ELSE Len(l)
<1>1. c = IF V!Selectable(l, k) THEN k ELSE V!FirstSelectable(l)
    BY DEF V!RestoreCursor
<1>2. /\ n \in Nat /\ DOMAIN l = 1..(n + 1)
      /\ \A i : V!Selectable(l, i) <=> i \in 2..(n + 1)
      /\ V!FirstSelectable(l) = IF n = 0 THEN 0 ELSE 2
    BY ViewListFacts
<1> HIDE DEF k
<1>3. c = 0 \/ V!Selectable(l, c)
    BY <1>1, <1>2
<1>4. ASSUME keep \in V!Range(l) PROVE V!RowAt(l, c) = keep
    <2>1. V!IndexOf(l, keep) \in DOMAIN l /\ l[V!IndexOf(l, keep)] = keep
        BY <1>4, ViewIndexFacts
    <2>2. V!IndexOf(l, keep) \in 2..(n + 1)
        BY <1>2, <2>1 DEF ListOf
    <2>3. k = V!IndexOf(l, keep)
        BY <1>4 DEF k
    <2>4. c = V!IndexOf(l, keep)
        BY <1>1, <1>2, <2>2, <2>3
    <2>5. QED BY <2>1, <2>4 DEF V!RowAt
<1>5. QED BY <1>3, <1>4

\* Listed, with the number of panes named.
LEMMA ViewListedOf == ASSUME NEW l PROVE V!Listed(l) <=> \E n : ListOf(l, n)
BY DEF V!Listed, ListOf
\* A list of some panes is one with its title in front.
LEMMA ViewListingsListed ==
    ASSUME ViewApart, NEW s \in SUBSET ViewPanes, NEW q \in V!Listings(s)
    PROVE  ListOf(q, Cardinality(s))
<1>1. PICK l \in V!SetToSeqs(s) : q = <<Title>> \o l
    BY DEF V!Listings
<1>2. Cardinality(s) \in Nat
    BY FS_Subset, FS_CardinalityType DEF ViewApart
<1>3. l \in [1..Cardinality(s) -> s]
    BY <1>1, ViewCounts DEF V!SetToSeqs
<1> DEFINE n == Cardinality(s)
<1> HIDE DEF n
<1>4. n \in Nat /\ l \in [1..n -> ViewPanes] /\ l \in Seq(ViewPanes) /\ Len(l) = n
    BY <1>2, <1>3 DEF n
<1>5. q \in [1..(n + 1) -> V!Rows]
    <2>1. l \in Seq(V!Rows) /\ <<Title>> \in Seq(V!Rows) /\ Len(<<Title>>) = 1
        BY <1>4 DEF V!Rows
    <2>2. q \in Seq(V!Rows) /\ Len(q) = n + 1
        BY <1>1, <1>4, <2>1
    <2>3. QED BY <2>2, <1>4
<1>6. q[1] = Title /\ \A i \in 2..(n + 1) : q[i] = l[i - 1]
    BY <1>1, <1>4
<1>7. \A i \in 2..(n + 1) : l[i - 1] \in ViewPanes
    BY <1>4
<1>8. QED BY <1>4, <1>5, <1>6, <1>7 DEF ListOf, n

\* What the invariant says of the list and its selection.
LEMMA ViewHere ==
    ASSUME ViewApart, V!IInv
    PROVE  /\ \E n : ListOf(v2, n)
           /\ v3 \in Nat /\ (v3 = 0 \/ V!Selectable(v2, v3))
           /\ v3 = 0 => V!currentTarget = Null
           /\ v3 # 0 => V!currentTarget \in ViewPanes
           /\ Null \notin V!Range(v2)
           /\ v8 # Null => v3 # 0
<1>1. PICK n : ListOf(v2, n)
    BY ViewListedOf DEF V!IInv, V!Laid
<1>2. v3 \in Nat /\ (v3 = 0 \/ V!Selectable(v2, v3))
    BY DEF V!IInv, V!Laid, V!ViewHonest
<1>3. v3 = 0 => V!currentTarget = Null
    <2>1. 0 \notin DOMAIN v2 BY <1>1, ViewListFacts
    <2>2. QED BY <2>1 DEF V!currentTarget, V!RowAt
<1>4. v3 # 0 => V!currentTarget \in ViewPanes
    <2>1. V!Selectable(v2, v3) => v2[v3] \in ViewPanes /\ v3 \in DOMAIN v2
        BY <1>1, ViewListFacts
    <2>2. QED BY <2>1, <1>2 DEF V!currentTarget, V!RowAt
<1>5. Null \notin V!Range(v2)
    BY <1>1, ViewListFacts
<1>6. v8 # Null => v3 # 0
    BY <1>3 DEF V!IInv, V!ViewHonest
<1>7. QED BY <1>1, <1>2, <1>3, <1>4, <1>5, <1>6

\* The invariant of the view holds at the start.
LEMMA ViewInit == ASSUME ViewApart, V!Init PROVE V!IInv
<1> USE DEF V!Init
<1> DEFINE n == Cardinality(ViewPanes)
<1>1. ListOf(v2, n)
    BY ViewListingsListed
<1>2. n \in Nat /\ n # 0
    BY FS_CardinalityType, FS_EmptySet DEF ViewApart
<1> HIDE DEF n
<1>3. V!Selectable(v2, 2) /\ v2[2] \in ViewPanes
    <2>1. 2 \in 2..(n + 1) BY <1>2
    <2>2. QED BY <1>1, <2>1, ViewListFacts
<1>4. V!currentTarget = v2[2]
    BY <1>3 DEF V!currentTarget, V!RowAt, V!Selectable
<1>5. (V!IndexOf(V!Tiles(v2), 2) - 1) \div 1 = 0
    <2>1. 2 \in 2..(n + 1) BY <1>2
    <2>2. V!IndexOf(V!Tiles(v2), 2) = 2 - 1 BY <1>1, <2>1, ViewTileIndex
    <2>3. QED BY <2>2
<1>6. V!Laid
    <2>1. V!Listed(v2) BY <1>1, ViewListedOf
    <2>2. QED BY <2>1, <1>3 DEF V!Laid
<1>7. V!ViewHonest
    BY <1>3, <1>4, <1>5 DEF V!ViewHonest
<1>8. V!Asked
    <2>1. v13 \subseteq [no : 0..v12, of : V!Rows \cup {Null}, run : BOOLEAN]
        <3>1. [no |-> 1, of |-> v2[2], run |-> FALSE] \in
                 [no : 0..1, of : V!Rows \cup {Null}, run : BOOLEAN]
            BY <1>3 DEF V!Rows
        <3>2. QED BY <3>1
    <2>2. v4 = "list" => \E a \in v13 : a.no = v12 /\ a.of = V!currentTarget
        BY <1>4
    <2>3. \A a, b \in v13 : a.no = b.no => a = b
        OBVIOUS
    <2>4. QED BY <2>1, <2>2, <2>3 DEF V!Asked
<1>9. QED BY <1>6, <1>7, <1>8 DEF V!IInv

\* A capture with a ticket of its own is asked for.
LEMMA ViewAsksMore ==
    ASSUME ViewApart, V!Asked, NEW row \in V!Rows \cup {Null},
           v12' = v12 + 1, v13' = v13 \cup {[no |-> v12 + 1, of |-> row, run |-> FALSE]}
    PROVE  /\ v12' \in Nat
           /\ v13' \subseteq [no : 0..v12', of : V!Rows \cup {Null}, run : BOOLEAN]
           /\ \A a, b \in v13' : a.no = b.no => a = b
           /\ \E a \in v13' : a.no = v12' /\ a.of = row
<1> DEFINE new == [no |-> v12 + 1, of |-> row, run |-> FALSE]
<1>1. v12 \in Nat /\ v13 \subseteq [no : 0..v12, of : V!Rows \cup {Null}, run : BOOLEAN]
    BY DEF V!Asked
<1>2. new \in [no : 0..v12', of : V!Rows \cup {Null}, run : BOOLEAN] /\ new \in v13'
    BY <1>1
<1>3. v13' \subseteq [no : 0..v12', of : V!Rows \cup {Null}, run : BOOLEAN]
    <2>1. 0..v12 \subseteq 0..v12' BY <1>1
    <2>2. QED BY <1>1, <1>2, <2>1
<1>4. \A a \in v13 : a.no # new.no
    BY <1>1
<1>5. \A a, b \in v13' : a.no = b.no => a = b
    BY <1>4 DEF V!Asked
<1>6. \E a \in v13' : a.no = v12' /\ a.of = row
    BY <1>2
<1>7. v12' \in Nat
    BY <1>1
<1>8. QED BY <1>3, <1>5, <1>6, <1>7

\* The selection moves to a row: its preview is asked for.
LEMMA ViewMoveKeeps == ASSUME ViewApart, V!IInv, NEW i, V!Move(i) PROVE V!IInv'
<1> USE DEF V!Move, V!wallVars
<1>1. PICK n : ListOf(v2, n)
    BY ViewHere
<1>2. /\ i \in 2..(n + 1) /\ n \in Nat /\ i \in DOMAIN v2
      /\ i \in Nat /\ i # 0 /\ v2[i] \in ViewPanes
    BY <1>1, ViewListFacts
<1>3. V!currentTarget' = v2[i]
    BY <1>2 DEF V!currentTarget, V!RowAt
<1>4. V!Laid'
    BY <1>2 DEF V!IInv, V!Laid, V!Listed
<1>5. V!ViewHonest'
    <2>1. V!Selectable(v2, i)' BY <1>2 DEF V!Selectable
    <2>2. (v4 = "wall" => (V!IndexOf(V!Tiles(v2), i) - 1) \div v5 = v6)'
        BY DEF V!IndexOf, V!Tiles, V!InOrder
    <2>3. QED BY <1>3, <2>1, <2>2 DEF V!IInv, V!ViewHonest, V!Selectable
<1>6. V!Asked'
    <2>1. CASE v4 = "wall"
        BY <2>1 DEF V!IInv, V!Asked, V!LoadPreview
    <2>2. CASE v4 # "wall"
        <3>1. v2[i] \in V!Rows \cup {Null} BY <1>2 DEF V!Rows
        <3>2. /\ v12' = v12 + 1
              /\ v13' = v13 \cup {[no |-> v12 + 1, of |-> v2[i], run |-> FALSE]}
            BY <2>2 DEF V!LoadPreview
        <3>3. /\ v12' \in Nat
              /\ v13' \subseteq [no : 0..v12', of : V!Rows \cup {Null}, run : BOOLEAN]
              /\ \A a, b \in v13' : a.no = b.no => a = b
              /\ \E a \in v13' : a.no = v12' /\ a.of = v2[i]
            BY <3>1, <3>2, ViewAsksMore DEF V!IInv
        <3>4. QED BY <1>3, <3>3 DEF V!IInv, V!Asked
    <2>3. QED BY <2>1, <2>2
<1>7. QED BY <1>4, <1>5, <1>6 DEF V!IInv

\* Nothing the invariant speaks of has changed.
LEMMA ViewSameView ==
    ASSUME V!IInv, UNCHANGED <<v2, v3, v4, v5, v6, v8, v10, v11, v12, v13, v14>>,
           v1' \subseteq v1, v9' # Null => V!Listed(v9)',
           v16' \in Nat, v16' = 0 => v16 = 0 /\ v9' = Null
    PROVE  V!IInv'
<1>1. V!Laid' BY DEF V!IInv, V!Laid, V!Listed
<1>2. V!ViewHonest'
    BY DEF V!IInv, V!ViewHonest, V!Selectable, V!currentTarget, V!RowAt, V!IndexOf,
       V!Tiles, V!InOrder
<1>3. V!Asked' BY DEF V!IInv, V!Asked, V!currentTarget, V!RowAt
<1>4. QED BY <1>1, <1>2, <1>3 DEF V!IInv

\* Keystrokes go to the tile, or to the picker again.
LEMMA ViewFocusKeeps == ASSUME ViewApart, V!IInv, V!Focus PROVE V!IInv'
<1>1. (v9' # Null => V!Listed(v9)') /\ v16' \in Nat /\ (v16 = 0 => v9' = Null)
    BY DEF V!Focus, V!IInv, V!Laid, V!Listed, V!Asked
<1>2. QED BY <1>1, ViewSameView DEF V!Focus, V!wallVars, V!previewVars

\* A pane dies.
LEMMA ViewDieKeeps == ASSUME ViewApart, V!IInv, NEW p, V!Die(p) PROVE V!IInv'
<1>1. (v9' # Null => V!Listed(v9)') /\ v16' \in Nat /\ (v16 = 0 => v9' = Null)
    BY DEF V!Die, V!IInv, V!Laid, V!Listed, V!Asked
<1>2. QED BY <1>1, ViewSameView DEF V!Die, V!wallVars, V!previewVars

\* A refresh reads the panes there are.
LEMMA ViewRefreshReadKeeps == ASSUME ViewApart, V!IInv, V!RefreshRead PROVE V!IInv'
<1>1. V!Listed(v9)'
    <2>1. ListOf(v9', Cardinality(v1))
        BY ViewListingsListed DEF V!RefreshRead, V!IInv, V!Laid
    <2>2. QED BY <2>1 DEF V!Listed, ListOf
<1>2. v16' \in Nat /\ v16' # 0
    BY DEF V!RefreshRead, V!IInv, V!Asked
<1>3. QED BY <1>1, <1>2, ViewSameView DEF V!RefreshRead, V!wallVars, V!previewVars

\* The wall is opened, or the list.
LEMMA ViewToggleKeeps == ASSUME ViewApart, V!IInv, V!Toggle PROVE V!IInv'
<1> USE DEF V!Toggle, V!wallVars
<1>1. PICK n : ListOf(v2, n)
    BY ViewHere
<1>2. V!Laid' /\ UNCHANGED v2
    <2>1. v4' \in {"list", "wall"} OBVIOUS
    <2>2. v3' \in Nat
        <3>1. CASE v4 # "list" BY <3>1 DEF V!IInv, V!Laid
        <3>2. CASE v4 = "list"
            <4>1. v3' = 0 \/ V!Selectable(v2, v3')
                BY <1>1, <3>2, ViewHere, ViewSnapped DEF ViewApart
            <4>2. QED BY <4>1, <1>1, ViewListFacts
        <3>3. QED BY <3>1, <3>2
    <2>3. QED BY <2>1, <2>2 DEF V!IInv, V!Laid, V!Listed
<1>3. CASE v4 = "list"
    <2> DEFINE s == V!SnapWallTo(v2, v3, Null, v5)
    <2>1. /\ s.cursor = 0 \/ V!Selectable(v2, s.cursor)
          /\ s.cursor # 0 => (V!IndexOf(V!Tiles(v2), s.cursor) - 1) \div v5 = s.page
          /\ v3 # 0 => s.cursor = v3
        BY <1>1, ViewHere, ViewSnapped DEF ViewApart
    <2>2. v3' = s.cursor /\ v6' = s.page /\ v4' = "wall" /\ UNCHANGED <<v12, v13>>
        BY <1>3
    <2> HIDE DEF s
    <2>3. v3 # 0 => V!currentTarget' = V!currentTarget
        BY <1>2, <2>1, <2>2 DEF V!currentTarget
    <2>4. V!ViewHonest'
        <3>1. (v8 # Null => V!currentTarget = v8)'
            BY <2>3, ViewHere DEF V!IInv, V!ViewHonest
        <3>2. (v3 # 0 => V!Selectable(v2, v3))'
            BY <2>1, <2>2, <1>2 DEF V!Selectable
        <3>3. (v3 # 0 => (V!IndexOf(V!Tiles(v2), v3) - 1) \div v5 = v6)'
            BY <2>1, <2>2, <1>2 DEF V!IndexOf, V!Tiles, V!InOrder
        <3>4. QED BY <3>1, <3>2, <3>3 DEF V!IInv, V!ViewHonest
    <2>5. V!Asked'
        BY <2>2 DEF V!IInv, V!Asked
    <2>6. QED BY <1>2, <2>4, <2>5 DEF V!IInv
<1>4. CASE v4 # "list"
    <2>1. v4 = "wall" /\ v4' = "list" /\ UNCHANGED <<v3, v6>>
        BY <1>4 DEF V!IInv, V!Laid
    <2>2. V!currentTarget' = V!currentTarget /\ V!currentTarget \in V!Rows \cup {Null}
        BY <2>1, <1>2, ViewHere DEF V!currentTarget, V!Rows
    <2>3. V!ViewHonest'
        BY <2>1, <2>2, <1>2 DEF V!IInv, V!ViewHonest, V!Selectable
    <2>4. /\ v12' \in Nat
          /\ v13' \subseteq [no : 0..v12', of : V!Rows \cup {Null}, run : BOOLEAN]
          /\ \A a, b \in v13' : a.no = b.no => a = b
          /\ \E a \in v13' : a.no = v12' /\ a.of = V!currentTarget
        BY <1>4, <2>2, ViewAsksMore DEF V!IInv
    <2>5. V!Asked'
        BY <2>2, <2>4 DEF V!IInv, V!Asked
    <2>6. QED BY <1>2, <2>3, <2>5 DEF V!IInv
<1>5. QED BY <1>3, <1>4

\* The terminal changes size, and with it the pages of the wall.
LEMMA ViewResizeKeeps == ASSUME ViewApart, V!IInv, V!Resize PROVE V!IInv'
<1> USE DEF V!Resize, V!wallVars
<1>1. PICK n : ListOf(v2, n)
    BY ViewHere
<1> DEFINE s == V!SnapWallTo(v2, v3, Null, v5')
<1>2. /\ s.cursor = 0 \/ V!Selectable(v2, s.cursor)
      /\ s.cursor # 0 => (V!IndexOf(V!Tiles(v2), s.cursor) - 1) \div v5' = s.page
      /\ v3 # 0 => s.cursor = v3
    BY <1>1, ViewHere, ViewSnapped DEF ViewApart
<1>3. IF v4 = "wall" THEN v3' = s.cursor /\ v6' = s.page ELSE UNCHANGED <<v3, v6>>
    OBVIOUS
<1> HIDE DEF s
<1>4. /\ v3' = 0 \/ V!Selectable(v2, v3')
      /\ v3 # 0 => v3' = v3
      /\ v4 = "wall" /\ v3' # 0 =>
            (V!IndexOf(V!Tiles(v2), v3') - 1) \div v5' = v6'
    BY <1>2, <1>3, ViewHere
<1>5. V!Laid'
    <2>1. v3' \in Nat BY <1>1, <1>4, ViewListFacts
    <2>2. QED BY <2>1 DEF V!IInv, V!Laid, V!Listed
<1>6. v3 # 0 \/ v4 = "list" => V!currentTarget' = V!currentTarget
    BY <1>3, <1>4 DEF V!currentTarget
<1>7. V!ViewHonest'
    <2>1. (v8 # Null => V!currentTarget = v8)'
        BY <1>6, ViewHere DEF V!IInv, V!ViewHonest
    <2>2. (v3 # 0 => V!Selectable(v2, v3))'
        BY <1>4 DEF V!Selectable
    <2>3. (v4 = "wall" /\ v3 # 0 =>
              (V!IndexOf(V!Tiles(v2), v3) - 1) \div v5 = v6)'
        BY <1>4 DEF V!IndexOf, V!Tiles, V!InOrder
    <2>4. QED BY <2>1, <2>2, <2>3 DEF V!IInv, V!ViewHonest
<1>8. V!Asked'
    <2>1. CASE v4 = "wall" BY <2>1 DEF V!IInv, V!Asked, V!LoadPreview
    <2>2. CASE v4 # "wall"
        <3>1. /\ v4 = "list" /\ V!currentTarget' = V!currentTarget
              /\ V!currentTarget \in V!Rows \cup {Null}
            BY <2>2, <1>6, ViewHere DEF V!IInv, V!Laid, V!Rows
        <3>2. /\ v12' \in Nat
              /\ v13' \subseteq [no : 0..v12', of : V!Rows \cup {Null}, run : BOOLEAN]
              /\ \A a, b \in v13' : a.no = b.no => a = b
              /\ \E a \in v13' : a.no = v12' /\ a.of = V!currentTarget
            BY <2>2, <3>1, ViewAsksMore DEF V!IInv, V!LoadPreview
        <3>3. QED BY <3>1, <3>2 DEF V!IInv, V!Asked
    <2>3. QED BY <2>1, <2>2
<1>9. QED BY <1>5, <1>7, <1>8 DEF V!IInv

\* The list is rebuilt under the selection.
LEMMA ViewRefreshMsgKeeps == ASSUME ViewApart, V!IInv, V!RefreshMsg PROVE V!IInv'
<1> USE DEF V!RefreshMsg
<1>1. PICK n : ListOf(v9, n)
    BY ViewListedOf DEF V!IInv, V!Laid
<1>2. v3 \in Nat /\ V!currentTarget # Title /\ (V!currentTarget \in ViewPanes \cup {Null})
    BY ViewHere DEF ViewApart
<1>3. /\ n \in Nat /\ DOMAIN v9 = 1..(n + 1)
      /\ \A i : V!Selectable(v9, i) <=> i \in 2..(n + 1)
      /\ V!FirstSelectable(v9) = IF n = 0 THEN 0 ELSE 2
    BY <1>1, ViewListFacts
<1> DEFINE c == IF v4 = "wall" THEN v3 ELSE V!RestoreCursor(v9, v3, V!currentTarget)
           at == IF V!Selectable(v9, c) THEN c ELSE V!FirstSelectable(v9)
           s == IF v4 = "wall" THEN V!SnapWallTo(v9, at, V!currentTarget, v5)
                ELSE [cursor |-> at, page |-> v6]
<1>4. v3' = s.cursor /\ v6' = s.page /\ v2' = v9
    BY DEF V!Place
<1>5. at = 0 \/ V!Selectable(v9, at)
    <2> HIDE DEF c
    <2>1. QED BY <1>3
<1>6. /\ s.cursor = 0 \/ V!Selectable(v9, s.cursor)
      /\ v4 = "wall" /\ s.cursor # 0 =>
            (V!IndexOf(V!Tiles(v9), s.cursor) - 1) \div v5 = s.page
      /\ V!currentTarget \in V!Range(v9) => V!RowAt(v9, s.cursor) = V!currentTarget
    <2>1. CASE v4 = "wall"
        <3>1. s = V!SnapWallTo(v9, at, V!currentTarget, v5) BY <2>1
        <3> HIDE DEF at, s
        <3>2. QED BY <1>1, <1>2, <1>5, <3>1, ViewSnapped
    <2>2. CASE v4 # "wall"
        <3>1. c = V!RestoreCursor(v9, v3, V!currentTarget) /\ s.cursor = at
            BY <2>2
        <3>2. /\ c = 0 \/ V!Selectable(v9, c)
              /\ V!currentTarget \in V!Range(v9) => V!RowAt(v9, c) = V!currentTarget
            <4> HIDE DEF c, at, s
            <4>1. QED BY <1>1, <1>2, <3>1, ViewRestored
        <3>3. V!currentTarget \in V!Range(v9) => c # 0
            <4> HIDE DEF c
            <4>1. c = 0 => V!RowAt(v9, c) = Null BY <1>3 DEF V!RowAt
            <4>2. Null \notin V!Range(v9) BY <1>1, ViewListFacts
            <4>3. QED BY <3>2, <4>1, <4>2
        <3>4. V!currentTarget \in V!Range(v9) => at = c
            <4> HIDE DEF c
            <4>1. QED BY <3>2, <3>3
        <3> HIDE DEF c, at, s
        <3>5. QED BY <2>2, <1>5, <3>1, <3>2, <3>4
    <2>3. QED BY <2>1, <2>2
<1> HIDE DEF c, at, s
<1>7. V!Laid'
    <2>1. v3' \in Nat BY <1>3, <1>4, <1>6
    <2>2. V!Listed(v2') BY <1>1, <1>4, ViewListedOf
    <2>3. v8' \in ViewPanes \cup {Null} BY DEF V!IInv, V!Laid
    <2>4. QED BY <2>1, <2>2, <2>3 DEF V!IInv, V!Laid, V!Listed, V!wallVars
<1>8. V!ViewHonest'
    <2>1. (v8 # Null => V!currentTarget = v8)'
        <3>1. ASSUME v8' # Null PROVE V!currentTarget' = v8'
            <4>1. v8' = v8 /\ v8 \in V!Range(v9) /\ v8 # Null BY <3>1
            <4>2. V!currentTarget = v8 BY <4>1 DEF V!IInv, V!ViewHonest
            <4>3. V!currentTarget' = V!RowAt(v9, s.cursor) BY <1>4 DEF V!currentTarget
            <4>4. QED BY <4>1, <4>2, <4>3, <1>6
        <3>2. QED BY <3>1
    <2>2. (v3 # 0 => V!Selectable(v2, v3))'
        BY <1>4, <1>6 DEF V!Selectable
    <2>3. (v4 = "wall" /\ v3 # 0 =>
              (V!IndexOf(V!Tiles(v2), v3) - 1) \div v5 = v6)'
        BY <1>4, <1>6 DEF V!IndexOf, V!Tiles, V!InOrder
    <2>4. (v11 \cap v1 = {})'
        BY DEF V!IInv, V!ViewHonest, V!wallVars
    <2>5. QED BY <2>1, <2>2, <2>3, <2>4 DEF V!ViewHonest
<1>9. V!Asked'
    <2>1. v16 # 0 BY DEF V!IInv, V!Asked
    <2>2. QED BY <2>1 DEF V!IInv, V!Asked, V!previewVars
<1>10. QED BY <1>7, <1>8, <1>9 DEF V!IInv

\* The tiles of the page are captured in one call.
LEMMA ViewCaptureKeeps == ASSUME ViewApart, V!IInv, V!Capture PROVE V!IInv'
<1>1. V!Laid'
    <2>1. \E n \in Nat : DOMAIN v10' = 1..n
        <3>1. v10' = V!WallPageTargets BY DEF V!Capture
        <3>2. \E T : IsFiniteSet(T) /\ DOMAIN V!WallPageTargets = 1..Cardinality(T)
            <4> DEFINE T == {k \in DOMAIN V!Tiles(v2) :
                               /\ v6 * v5 < k /\ k <= (v6 + 1) * v5
                               /\ v2[V!Tiles(v2)[k]] \notin v11}
            <4>1. DOMAIN V!WallPageTargets = 1..V!Cardinality(T)
                BY DEF V!WallPageTargets, V!InOrder
            <4>2. IsFiniteSet(T)
                <5>1. PICK n : ListOf(v2, n) BY ViewHere
                <5>2. DOMAIN V!Tiles(v2) = 1..n /\ n \in Nat
                    <6>1. n \in Nat BY <5>1 DEF ListOf
                    <6>2. V!Tiles(v2) = [k \in 1..n |-> k + 1] BY <5>1, ViewTileList
                    <6>3. QED BY <6>1, <6>2
                <5>3. IsFiniteSet(1..n) BY <5>2, FS_Interval
                <5>4. QED BY <5>2, <5>3, FS_Subset
            <4>3. QED BY <4>1, <4>2, ViewCounts
        <3>3. QED BY <3>1, <3>2, FS_CardinalityType
    <2>2. QED BY <2>1 DEF V!Capture, V!IInv, V!Laid, V!Listed
<1>2. V!ViewHonest'
    BY DEF V!Capture, V!IInv, V!ViewHonest, V!Selectable, V!currentTarget, V!RowAt,
       V!IndexOf, V!Tiles, V!InOrder
<1>3. V!Asked' BY DEF V!Capture, V!previewVars, V!IInv, V!Asked, V!currentTarget, V!RowAt
<1>4. QED BY <1>1, <1>2, <1>3 DEF V!IInv

\* The capture lands: one pane that is gone may be blamed for it.
LEMMA ViewWallMsgKeeps ==
    ASSUME ViewApart, V!IInv, NEW transient \in BOOLEAN, V!WallMsg(transient)
    PROVE V!IInv'
<1> USE DEF V!WallMsg
<1>1. V!Blamed(v10, transient) \notin v1
    <2>1. Null \notin v1 BY DEF ViewApart, V!IInv, V!Laid
    <2>2. V!Offender(v10) \notin v1
        <3> DEFINE gone == {i \in DOMAIN v10 : v10[i] \notin v1}
        <3>1. gone \in SUBSET Nat BY DEF V!IInv, V!Laid
        <3>2. V!Offender(v10) = IF gone = {} THEN Null
                 ELSE v10[CHOOSE i \in gone : \A j \in gone : i <= j]
            BY DEF V!Offender
        <3>3. gone # {} => (CHOOSE i \in gone : \A j \in gone : i <= j) \in gone
            <4> HIDE DEF gone
            <4>1. gone # {} => \E i \in gone : \A j \in gone : i <= j BY <3>1, LeastNumber
            <4>2. QED BY <4>1
        <3>4. QED BY <2>1, <3>2, <3>3
    <2>3. QED BY <2>1, <2>2 DEF V!Blamed
<1>2. v11' \cap v1' = {}
    BY <1>1 DEF V!IInv, V!ViewHonest
<1>3. V!Laid' BY DEF V!IInv, V!Laid, V!Listed
<1>4. V!ViewHonest'
    BY <1>2 DEF V!IInv, V!ViewHonest, V!Selectable, V!currentTarget, V!RowAt, V!IndexOf,
       V!Tiles, V!InOrder
<1>5. V!Asked' BY DEF V!previewVars, V!IInv, V!Asked, V!currentTarget, V!RowAt
<1>6. QED BY <1>3, <1>4, <1>5 DEF V!IInv

\* The capture of a row is admitted or dropped, or lands.
LEMMA ViewPreviewsKeeps == ASSUME ViewApart, V!IInv, V!Previews PROVE V!IInv'
<1>1. PICK a \in v13 : V!Admit(a) \/ V!PreviewMsg(a)
    BY DEF V!Previews
<1>2. /\ UNCHANGED <<v1, v2, v3, v4, v5, v6, v8, v9, v10, v11, v12, v16>>
      /\ V!currentTarget' = V!currentTarget
    BY <1>1 DEF V!Admit, V!PreviewMsg, V!wallVars, V!currentTarget
<1>3. V!Laid' BY <1>2 DEF V!IInv, V!Laid, V!Listed
<1>4. V!ViewHonest'
    BY <1>2 DEF V!IInv, V!ViewHonest, V!Selectable, V!IndexOf, V!Tiles, V!InOrder
<1>5. V!Asked'
    <2>1. /\ v13 \subseteq [no : 0..v12, of : V!Rows \cup {Null}, run : BOOLEAN]
          /\ \A x, y \in v13 : x.no = y.no => x = y
        BY DEF V!IInv, V!Asked
    <2>2. CASE V!Admit(a)
        <3> DEFINE b == [a EXCEPT !.run = TRUE]
        <3>1. /\ b \in [no : 0..v12, of : V!Rows \cup {Null}, run : BOOLEAN]
              /\ b.no = a.no /\ b.of = a.of
            BY <2>1
        <3>2. v13' = IF a.no = v12 THEN (v13 \ {a}) \cup {b} ELSE v13 \ {a}
            BY <2>2 DEF V!Admit
        <3> HIDE DEF b
        <3>3. \A x, y \in v13' : x.no = y.no => x = y
            BY <2>1, <3>1, <3>2
        <3>4. (\E x \in v13 : x.no = v12 /\ x.of = V!currentTarget) =>
              \E x \in v13' : x.no = v12 /\ x.of = V!currentTarget
            BY <3>1, <3>2
        <3>5. v13' \subseteq [no : 0..v12, of : V!Rows \cup {Null}, run : BOOLEAN]
            BY <2>1, <3>1, <3>2
        <3>6. v14' = v14 BY <2>2 DEF V!Admit
        <3>7. QED BY <1>2, <3>3, <3>4, <3>5, <3>6 DEF V!IInv, V!Asked
    <2>3. CASE V!PreviewMsg(a)
        <3>1. v13' = v13 \ {a} /\ v14' = (IF a.of = V!currentTarget THEN a.of ELSE v14)
            BY <2>3 DEF V!PreviewMsg, V!Wanted
        <3>2. /\ \A x, y \in v13' : x.no = y.no => x = y
              /\ v13' \subseteq [no : 0..v12, of : V!Rows \cup {Null}, run : BOOLEAN]
            BY <2>1, <3>1
        <3>3. v14 = V!currentTarget => v14' = V!currentTarget
            BY <3>1
        <3>4. (\E x \in v13 : x.no = v12 /\ x.of = V!currentTarget) =>
                v14' = V!currentTarget \/ \E x \in v13' : x.no = v12 /\ x.of = V!currentTarget
            BY <3>1
        <3>5. QED BY <1>2, <3>2, <3>3, <3>4 DEF V!IInv, V!Asked
    <2>4. QED BY <1>1, <2>2, <2>3
<1>6. QED BY <1>3, <1>4, <1>5 DEF V!IInv

\* Every step of the picker and of its commands keeps the invariant.
LEMMA ViewNextKeeps == ASSUME ViewApart, V!IInv, V!Next PROVE V!IInv'
<1>1. CASE \E i \in 1..(V!Cardinality(ViewPanes) + 1) : V!Move(i) BY <1>1, ViewMoveKeeps
<1>2. CASE \E p \in ViewPanes : V!Die(p) BY <1>2, ViewDieKeeps
<1>3. CASE \E transient \in BOOLEAN : V!WallMsg(transient) BY <1>3, ViewWallMsgKeeps
<1>4. CASE V!Focus \/ V!Toggle \/ V!Resize
    BY <1>4, ViewFocusKeeps, ViewToggleKeeps, ViewResizeKeeps
<1>5. CASE V!RefreshRead \/ V!RefreshMsg \/ V!Capture \/ V!Previews
    BY <1>5, ViewRefreshReadKeeps, ViewRefreshMsgKeeps, ViewCaptureKeeps, ViewPreviewsKeeps
<1>6. QED BY <1>1, <1>2, <1>3, <1>4, <1>5 DEF V!Next

\* The invariant gives the property.
LEMMA ViewHolds == ASSUME ViewApart, V!IInv PROVE V!ViewHonest /\ V!PreviewSettles
BY DEF V!IInv, V!Asked, V!PreviewSettles

\* No step.
LEMMA ViewSameKeeps == ASSUME V!IInv, UNCHANGED V!vars PROVE V!IInv'
<1>1. (v9' # Null => V!Listed(v9)') /\ v16' \in Nat /\ (v16 = 0 => v9' = Null)
    BY DEF V!vars, V!IInv, V!Laid, V!Listed, V!Asked
<1>2. QED BY <1>1, ViewSameView DEF V!vars

\* Every step of the picker and of its commands keeps the invariant.
LEMMA ViewStep == ViewApart /\ V!IInv /\ [V!Next]_(V!vars) => V!IInv'
BY ViewNextKeeps, ViewSameKeeps

\* Of a behaviour of this part.
ViewInv == part = "view" => V!IInv

(* For any panes, moves, rebuilds, deaths and captures: the selection       *)
(* follows the row the user chose until that row goes, is on the page shown *)
(* and is no title; the wall gives up only on panes that are gone; and a    *)
(* scroll ends with the preview of the row it stopped on (tui.go).          *)
THEOREM ViewIsHonest ==
    ASSUME ViewPanes # {}, IsFiniteSet(ViewPanes),
           Title \notin ViewPanes, Null \notin ViewPanes, Null # Title
    PROVE  PartsSpec => []ViewHonest
<1>0. ViewApart BY DEF ViewApart
<1>1. Starts => ViewInv BY <1>0, ViewInit DEF Starts, ViewInv
<1>2. ViewInv /\ [Steps]_all => ViewInv'
    <2> SUFFICES ASSUME ViewInv, [Steps]_all PROVE ViewInv' OBVIOUS
    <2>1. CASE UNCHANGED all
        <3>1. UNCHANGED V!vars /\ UNCHANGED part
            BY <2>1 DEF all, After0, After10, After12, After17, V!vars
        <3>2. QED BY <1>0, <3>1, ViewStep DEF ViewInv
    <2>2. CASE part # "view" /\ Steps BY <2>2 DEF Steps, ViewInv
    <2>3. CASE part = "view" /\ V!Next BY <1>0, <2>3, ViewStep DEF ViewInv
    <2>4. QED BY <2>1, <2>2, <2>3 DEF Steps
<1>3. ViewInv => ViewHonest BY <1>0, ViewHolds DEF ViewInv, ViewHonest
<1>4. QED BY <1>1, <1>2, <1>3, PTL DEF PartsSpec
=============================================================================
