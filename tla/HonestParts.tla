---------------------------- MODULE HonestParts ----------------------------
(***************************************************************************)
(* What must be true however things interleave, for the parts it is proved *)
(* of.  Their states share no more than those of AgreedParts do, and are   *)
(* named as there; the life of a mirror keeps its own names.               *)
(***************************************************************************)
EXTENDS MirrorLife, AgreedParts

CONSTANTS
    SelWindows, SelPanes, MaxShifts, MaxMisses,
    Openers, Elsewhere, Returning, MaxConns, MaxRecords, MaxReports, Burst, PerReport,
    Watchers, AgentStates, Backlog, MaxPrints, MaxResizes, MaxFails,
    Hosted, Bridged, MaxProbes, MaxRefreshes, MaxRestarts, MaxKills,
    ViewPanes, Title, MaxPresses, MaxRebuilds, MaxDeaths, MaxBatches

VARIABLES v20, v21

L == INSTANCE Selected WITH
    None <- Null,
    Wins <- SelWindows, Panes <- SelPanes, MaxMoves <- MaxShifts, MaxFaults <- MaxMisses,
    Overlap <- FALSE,
    in <- v1, sel <- v2, home <- v3, told <- v4, here <- v5, alive <- v6, stream <- v7,
    mirrored <- v8, has <- v9, sinks <- v10, excluded <- v11, later <- v12, dirty <- v13,
    unselected <- v14, todo <- v15, pc <- v16, stale <- v17, fresh <- v18, ended <- v19,
    moves <- v20, faults <- v21

U == INSTANCE OpenURL WITH
    None <- Null,
    Ctls <- Openers, log <- v1, tag <- v2, listed <- v3,
    legacy <- v4, conn <- v5, up <- v6, pc <- v7, got <- v8, told <- v9, reports <- v10,
    seen <- v11, self <- v12, spent <- v13, claims <- v14, opens <- v15, dropped <- v16,
    owed <- v17

G == INSTANCE AgentWatch WITH
    None <- Null,
    States <- AgentStates, Cap <- Backlog, Overlap <- FALSE, screen <- v1, cols <- v2,
    up <- v3, piped <- v4, pc <- v5, scr <- v6, geo <- v7, last <- v8, buf <- v9, cut <- v10, eof <- v11, dirty <- v12,
    wake <- v13, reg <- v14, file <- v15, opt <- v16, missed <- v17, prints <- v18,
    resizes <- v19, fails <- v20

K == INSTANCE PickerKill WITH
    None <- Null,
    Names <- Hosted, Mirrored <- Bridged, remote <- v1, epoch <- v2, mirror <- v3, cache <- v4, rows <- v5,
    hostIds <- v6, known <- v7, marked <- v8, staged <- v9, batch <- v10, results <- v11,
    running <- v12, forgotten <- v13, probes <- v14, read <- v15, hit <- v16, hidden <- v17,
    restarts <- v18, refreshes <- v19, kills <- v20

V == INSTANCE PickerView WITH
    None <- Null,
    Panes <- ViewPanes, MaxKeys <- MaxPresses,
    alive <- v1, list <- v2, cursor <- v3, mode <- v4, perPage <- v5, page <- v6,
    focused <- v7, aim <- v8, read <- v9, batch <- v10, bad <- v11, gate <- v12, asks <- v13,
    shown <- v14, keys <- v15, rebuilds <- v16, deaths <- v17, batches <- v18

After20 == <<v21>>
Free20 == v21 = 0
After18 == <<v19, v20, After20>>
Free18 == v19 = 0 /\ v20 = 0 /\ Free20
After17 == <<v18, After18>>
Free17 == v18 = 0 /\ Free18
After12 == <<v13, v14, v15, v16, v17, After17>>
Free12 == v13 = 0 /\ v14 = 0 /\ v15 = 0 /\ v16 = 0 /\ v17 = 0 /\ Free17
After10 == <<v11, v12, After12>>
Free10 == v11 = 0 /\ v12 = 0 /\ Free12
After0 == <<v1, v2, v3, v4, v5, v6, v7, v8, v9, v10, After10>>
Free0 ==
    /\ v1 = 0 /\ v2 = 0 /\ v3 = 0 /\ v4 = 0 /\ v5 = 0 /\ v6 = 0 /\ v7 = 0
    /\ v8 = 0 /\ v9 = 0 /\ v10 = 0 /\ Free10

all == <<part, mvars, After0>>

Starts ==
    /\ Init
    /\ \/ part = "life" /\ Free0
       \/ part = "selector" /\ L!Init
       \/ part = "urls" /\ U!Init /\ Free17
       \/ part = "agent" /\ G!Init /\ Free20
       \/ part = "kill" /\ K!Init /\ Free20
       \/ part = "view" /\ V!Init /\ Free18
    /\ placed => part = "life"

Steps ==
    \/ part = "life" /\ Next /\ UNCHANGED <<part, After0>>
    \/ part = "selector" /\ L!Next /\ UNCHANGED <<part, mvars>>
    \/ part = "urls" /\ U!Next /\ UNCHANGED <<part, mvars, After17>>
    \/ part = "agent" /\ G!Next /\ UNCHANGED <<part, mvars, After20>>
    \/ part = "kill" /\ K!Next /\ UNCHANGED <<part, mvars, After20>>
    \/ part = "view" /\ V!Next /\ UNCHANGED <<part, mvars, After18>>

PartsSpec == Starts /\ [][Steps]_all

----------------------------------------------------------------------------

(* When nothing is left to happen exactly the selected windows are          *)
(* mirrored, their panes and no other are registered, and none of them      *)
(* misses output (selector.go, sessionpin.go).                              *)
SelectionKept == part = "selector" => L!SelectionKept

(* A URL opens at most once on a machine, on no machine but the tagged      *)
(* one's, and does open there unless the rate limits dropped it; a daemon   *)
(* that registered stays listed (openurl.go).                               *)
OpenedOnce == part = "urls" => U!OpenedOnce

(* When the pane rests and its watcher has caught up, the state file and    *)
(* the option hold what the screen shows, whatever was cut, resized or      *)
(* handed from one watcher to the next (agentdetect).                       *)
StateShown == part = "agent" => G!StateShown

(* A kill destroys only the session instance whose row was confirmed, and   *)
(* no probe, refresh or cache read before it brings the session back        *)
(* (tui.go, remote.go).                                                     *)
KilledStaysGone == part = "kill" => K!KilledStaysGone

(* The selection follows the row the user chose until that row goes, is on  *)
(* the page shown and is no title; the wall gives up only on panes that are *)
(* gone; and a scroll ends with the preview of the row it stopped on        *)
(* (tui.go).                                                                *)
ViewHonest == part = "view" => V!ViewHonest /\ V!PreviewSettles

=============================================================================
