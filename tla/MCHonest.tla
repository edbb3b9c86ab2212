----------------------------- MODULE MCHonest -----------------------------
(***************************************************************************)
(* HonestParts and AgreedParts on small instances, with the parts TLC      *)
(* alone checks.                                                           *)
(***************************************************************************)
EXTENDS HonestParts

CONSTANTS k1, k2, k3, u1

VARIABLES v22, v23, v24

R == INSTANCE WindowMirror WITH
    None <- Null,
    Panes <- {k1, k2, k3}, Floats <- {u1}, MaxMoves <- 2, MaxFaults <- 1, MaxDrags <- 1,
    MaxPasses <- 2, rem <- v1, stream <- v2, async <- v3, tm <- v4, mw <- v5, pc <- v6,
    stale <- v7, drag <- v8, hurt <- v9, moves <- v10, faults <- v11, drags <- v12

I == INSTANCE PaneInput WITH
    MaxKeys <- 3, Keys <- {<<"t">>, <<"n">>, <<"v">>, <<"E", "B">>, <<"E", "D">>},
    ChainedClose <- FALSE, typed <- v1, pty <- v2, conn <- v3, carry <- v4, pump <- v5,
    open <- v6

P == INSTANCE Predictor WITH
    Width <- 4, Letters <- {"a"}, Secret <- "s", Noise <- "*", Cap <- 3, MaxKeys <- 3,
    MaxTurns <- 1, Cuts <- FALSE, typed <- v1, lines <- v2, rem <- v3, done <- v4, ch <- v5,
    local <- v6, slot <- v7, shown <- v8, model <- v9, preds <- v10, painted <- v11,
    epoch <- v12, confirmed <- v13, blocked <- v14, run <- v15, timer <- v16, fed <- v17,
    wanted <- v18, lost <- v19, mode <- v20, state <- v21, missed <- v22, keys <- v23,
    turns <- v24

Q == INSTANCE QueryFilter WITH
    MaxFrame <- 2, Pending <- 4, Colour <- 5, held <- v1, region <- v2, escaped <- v3,
    local <- v4, holding <- v5, raw <- v6, owed <- v7, whole <- v8, answered <- v9,
    strayed <- v10, swallowed <- v11, open <- v12

D == INSTANCE Dwindle WITH
    Width <- 11, Height <- 7, MaxSplits <- 3, MaxCloses <- 1, MaxNudges <- 1, status <- v1,
    tree <- v2, order <- v3, on <- v4, zoomed <- v5, cache <- v6, jobs <- v7, nsplit <- v8,
    nclose <- v9, nnudge <- v10

After21 == <<v22, v23, v24>>
Free21 == v22 = 0 /\ v23 = 0 /\ v24 = 0
After19 == <<v20, v21, After21>>
Free19 == v20 = 0 /\ v21 = 0 /\ Free21
After6 == <<v7, v8, v9, v10, After10, After21>>
Free6 == v7 = 0 /\ v8 = 0 /\ v9 = 0 /\ v10 = 0 /\ Free10 /\ Free21

Begins ==
    \/ Starts /\ Free21
    \/ /\ Init /\ ~placed
       /\ \/ part = "mirror" /\ R!Init /\ Free12 /\ Free21
          \/ part = "input" /\ I!Init /\ Free6
          \/ part = "echo" /\ P!Init
          \/ AgreedStarts /\ Free19
          \/ part = "filter" /\ Q!Init /\ Free12 /\ Free21
          \/ part = "tiles" /\ D!Init /\ Free10 /\ Free21

Moves ==
    \/ Steps /\ UNCHANGED After21
    \/ part = "mirror" /\ R!Next /\ UNCHANGED <<part, mvars, After12, After21>>
    \/ part = "input" /\ I!Next /\ UNCHANGED <<part, mvars, After6>>
    \/ part = "echo" /\ P!Next /\ UNCHANGED <<part, mvars>>
    \/ AgreedSteps /\ UNCHANGED <<mvars, After19>>
    \/ part = "filter" /\ Q!Next /\ UNCHANGED <<part, mvars, After12, After21>>
    \/ part = "tiles" /\ D!Next /\ UNCHANGED <<part, mvars, After10, After21>>

every == <<all, After21>>

HonestSpec == Begins /\ [][Moves]_every

----------------------------------------------------------------------------

(* With no line left to read and no local failure outstanding a mirrored    *)
(* window renders the remote's panes in its order, shape and zoom, and      *)
(* nothing on screen predates the last move of its cell (reconcile.go,      *)
(* panediff.go, transientreseed.go).                                        *)
MirrorTrue == part = "mirror" => R!MirrorTrue /\ R!Repainted

(* While no local step has failed, surgery never closes the window by       *)
(* killing its last pane, and outside a rebuild it keeps every renderer     *)
(* whose remote pane is still wanted (applyPaneOps).                        *)
SurgerySpares == [][part = "mirror" => R!Spares]_every

(* However the typing was cut into frames and however long the uploads      *)
(* took, every byte typed reaches the pane once and in order, the ctrl+v    *)
(* that pastes excepted, and a path stands behind what was typed before its *)
(* ctrl+v and ahead of what could submit the prompt after it (paste.go).    *)
InputKept == part = "input" => I!InputKept

(* Under the guessed echo the pane is the remote's, cell for cell; nothing  *)
(* is painted inside a sequence, without a timer that takes it back, over a *)
(* held pane or at a silent prompt (predictor.go).                          *)
GuessesHonest == part = "echo" => P!GuessesHonest

(* However the output is cut into frames, and whatever holds, seeds and     *)
(* deadlines come between them, the local terminal answers no query and     *)
(* does besides what the program's own terminal did (keyneg/strip.go).      *)
QueriesStripped == part = "filter" => Q!QueriesStripped

(* A layout the dwindle tool applies moves no pane outside the split that   *)
(* lost one and gives that split's children equal room, whatever happened   *)
(* between the hook, the read and the apply (dwindle, rebalance.go).        *)
EvensOut == [][part = "tiles" => D!AppliesEven]_every
=============================================================================
