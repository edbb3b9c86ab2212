---------------------------- MODULE MCSettles ----------------------------
(***************************************************************************)
(* What must come about, each on a small instance: the size owners, the    *)
(* size converger, the set of mirrored windows, the picker's opening of a  *)
(* session, and the pane router.  The five share no state.  "part" says    *)
(* which of them a behaviour is about, and v1, v2, .. stand for the        *)
(* variables of that one, in the order it declares them; the router keeps  *)
(* its own names.  Each property speaks of the behaviours of its part.     *)
(***************************************************************************)
EXTENDS PaneRouter

CONSTANTS
    a, b, None, Asked, Client, NoSize,              \* model values
    Owners, MaxGen, MaxEvents, MaxNews,             \* sizes
    Wins, Strikes, MaxMoves, MaxKills, MaxDeaths,   \* windows
    MaxPhases, MaxAttempts, MaxMarks                \* attach

VARIABLES part,
    v1, v2, v3, v4, v5, v6, v7, v8, v9, v10, v11,
    v12, v13, v14, v15, v16, v17, v18, v19, v20, v21, v22

Z == INSTANCE SizeOwner WITH
    Daemons <- Owners, Endings <- TRUE, TickMisses <- FALSE, rec <- v1, env <- v2, att <- v3,
    flg <- v4, sized <- v5, told <- v6, queue <- v7, notes <- v8, reply <- v9, cur <- v10,
    gen <- v11, pc <- v12, st <- v13, belief <- v14, before <- v15, wanted <- v16, held <- v17,
    taken <- v18, members <- v19, asserted <- v20, view <- v21, events <- v22

C == INSTANCE Converger WITH
    Windows <- {a}, MaxMoves <- 2, MaxDrops <- 1, MaxOpens <- 2, Overtakes <- FALSE,
    area <- v1, nudge <- v2, reg <- v3, last <- v4, conn <- v5, told <- v6, sent <- v7,
    opted <- v8, w <- v9, m <- v10, moves <- v11, drops <- v12, opens <- v13

W == INSTANCE WindowSet WITH
    live <- v1, flag <- v2, notes <- v3, due <- v4, reg <- v5, tmux <- v6, nudge <- v7,
    floored <- v8, young <- v9, strikes <- v10, row <- v11, pc <- v12, moved <- v13, kills <- v14,
    deaths <- v15

A == INSTANCE AttachRun WITH
    tui <- v1, attach <- v2, run <- v3, ctx <- v4, why <- v5, grace <- v6, phase <- v7,
    emitted <- v8, proc <- v9, term <- v10, result <- v11, marks <- v12, opened <- v13,
    mirrors <- v14, attempts <- v15, quit <- v16

After16 == <<v17, v18, v19, v20, v21, v22>>
Free16 == v17 = 0 /\ v18 = 0 /\ v19 = 0 /\ v20 = 0 /\ v21 = 0 /\ v22 = 0
After15 == <<v16, After16>>
Free15 == v16 = 0 /\ Free16
After13 == <<v14, v15, After15>>
Free13 == v14 = 0 /\ v15 = 0 /\ Free15
After0 == <<v1, v2, v3, v4, v5, v6, v7, v8, v9, v10, v11, v12, v13, After13>>
Free0 == v1 = 0 /\ v2 = 0 /\ v3 = 0 /\ v4 = 0 /\ v5 = 0 /\ v6 = 0 /\ v7 = 0 /\ v8 = 0 /\ v9 = 0
    /\ v10 = 0 /\ v11 = 0 /\ v12 = 0 /\ v13 = 0 /\ Free13

all == <<part, vars, After0>>

Starts ==
    /\ Init
    /\ \/ part = "router" /\ Free0
       \/ part = "sizes" /\ Z!Init
       \/ part = "area" /\ C!Init /\ Free13
       \/ part = "windows" /\ W!Init /\ Free15
       \/ part = "attach" /\ A!Init /\ Free16

Steps ==
    \/ part = "router" /\ Next /\ UNCHANGED <<part, After0>>
    \/ part = "sizes" /\ Z!Next /\ UNCHANGED <<part, vars>>
    \/ part = "area" /\ C!Next /\ UNCHANGED <<part, vars, After13>>
    \/ part = "windows" /\ W!Next /\ UNCHANGED <<part, vars, After15>>
    \/ part = "attach" /\ A!Next /\ UNCHANGED <<part, vars, After16>>

----------------------------------------------------------------------------
(* The fairness of each module, for the behaviours of its part.            *)
zvars == Z!vars
cvars == C!cvars
wvars == W!wvars
avars == A!vars

RouterFair ==
    /\ WF_vars(part = "router" /\ \E t \in armed : Fire(t))
    /\ WF_vars(part = "router" /\ \E t \in fired : Expire(t))
SizesFair ==
    /\ \A c \in Z!Clients : WF_zvars(part = "sizes" /\ Z!Server(c))
    /\ \A d \in Owners : WF_zvars(part = "sizes" /\ Z!Loop(d))
AreaFair ==
    /\ WF_cvars(part = "area" /\ (C!WatchLook \/ C!Watch))
    /\ WF_cvars(part = "area" /\ C!MainLoop)
WindowsFair ==
    /\ WF_wvars(part = "windows" /\ W!Loop)
    /\ WF_wvars(part = "windows" /\ W!NudgeFires)
    /\ WF_wvars(part = "windows" /\ W!FloorEnds)
    /\ \A w \in Wins : WF_wvars(part = "windows" /\ W!RecoveryEnds(w))
    /\ WF_wvars(part = "windows" /\ \E l \in DOMAIN v6 : W!Lands(l))
AttachFair ==
    /\ WF_avars(part = "attach" /\ A!Loop)
    /\ WF_avars(part = "attach" /\ A!Start)
    /\ WF_avars(part = "attach" /\ \E works \in BOOLEAN : A!Fork(works))
    /\ WF_avars(part = "attach" /\ A!Budget)
    /\ WF_avars(part = "attach" /\ A!Grace)
    /\ WF_avars(part = "attach" /\ A!Waited)

SettlesSpec ==
    /\ Starts /\ [][Steps]_all
    /\ RouterFair /\ SizesFair /\ AreaFair /\ WindowsFair /\ AttachFair

----------------------------------------------------------------------------

(* A record of the sizes' owner that names an attached client is cleared by *)
(* nobody: a survivor's late release is conditional on the client that left *)
(* (sizeowner.go, ownerReleaseCmd and releaseDue).                         *)
AttachedOwnerKept == [][part = "sizes" => Z!KeepsAttached]_all

(* With the disturbances over, things come to rest as they should.  The     *)
(* recorded owner of the sizes alone counts, its size and its terminal are  *)
(* in force, and nobody stays excluded (ownerCtl's passes).  The remote is  *)
(* told the size of every window, however the watcher and the main loop     *)
(* shared the converger (size.go).  Every window of the session the         *)
(* selector matches is mirrored, no other is, each with its local window    *)
(* back unless its rebuilds ran out (reconcilewindows.go).                  *)
Settles ==
    <>[](CASE part = "sizes" -> Z!OwnerRules /\ Z!NobodyExcluded
           [] part = "area" -> C!SizesTold
           [] part = "windows" -> W!AllMirrored
           [] OTHER -> TRUE)

(* A renderer that keeps dying is rebuilt Strikes times, never again by the *)
(* echo of its own rebuilds (reconcilewindows.go, deathnudge.go).           *)
StrikesHold == part = "windows" => W!StrikesHold

(* The picker leaves no launcher behind, says a session opened only when a  *)
(* mirror of it is there, and calls a run failed only when its launcher     *)
(* did not end well (attach.go, tui.go).                                    *)
LauncherEnds == part = "attach" => A!LauncherEnds

\* The daemons, numbered.
Nth == [i \in 1..2 |-> IF i = 1 THEN a ELSE b]

(* What is begun ends: a release held for a dead owner of the sizes is not  *)
(* forgotten (releaseDue), an attempt to open a session ends, the launcher  *)
(* that hangs included (attach.go), and output buffered for a pane is       *)
(* flushed, dropped or expires (router.go).                                 *)
Ends ==
    \A i \in 1..2 :
        (\/ part = "sizes" /\ Z!Holds(Nth[i])
         \/ part = "attach" /\ A!Pending
         \/ part = "router" /\ \E p \in Panes : pending[p].id = i)
        ~> (\/ part = "sizes" /\ Z!Freed(Nth[i])
            \/ part = "attach" /\ A!Settled
            \/ part = "router" /\ \A p \in Panes : pending[p].id # i)
=============================================================================
