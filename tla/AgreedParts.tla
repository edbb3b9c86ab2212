---------------------------- MODULE AgreedParts ----------------------------
(***************************************************************************)
(* The parts in which the mirror must come to agree with the remote: the   *)
(* focused pane, and the statuses the remote keeps in its options.  They   *)
(* share no state: "part" says which of them a behaviour is about, and v1, *)
(* v2, .. stand for the variables of that one, in the order it declares    *)
(* them.  Each property speaks of the behaviours of its part.              *)
(***************************************************************************)
EXTENDS Naturals, Sequences, FiniteSets

CONSTANTS Null,
    FocusPanes, Commanded, MaxFocus, MaxOuter, MaxBinds,
    StatusPanes, StatusWins, StatusRows, BadRow, MaxStatus, MaxLocals, MaxLosses, MaxListings,
    MaxQueued

VARIABLES part,
    v1, v2, v3, v4, v5, v6, v7, v8, v9, v10, v11, v12, v13, v14, v15, v16, v17, v18, v19

F == INSTANCE PaneFocus WITH
    NoPane <- Null,
    Panes <- FocusPanes, Cap <- Commanded, MaxKeys <- MaxBinds, Stamped <- TRUE,
    loc <- v1, rem <- v2, hooks <- v3, clock <- v4, foc <- v5, wish <- v6, out <- v7,
    lines <- v8, pc <- v9, acts <- v10

S == INSTANCE Shippers WITH
    Panes <- StatusPanes, Wins <- StatusWins, Rows <- StatusRows, Bad <- BadRow, NoRow <- Null,
    MaxMoves <- MaxStatus, MaxIds <- MaxLocals, MaxDrops <- MaxLosses, MaxFaults <- MaxListings,
    MaxLines <- MaxQueued,
    rem <- v1, last <- v2, stream <- v3, asked <- v4, link <- v5, loc <- v6, next <- v7,
    opt <- v8, disk <- v9, trusted <- v10, agents <- v11, labels <- v12, sess <- v13,
    moved <- v14, read <- v15, pc <- v16, moves <- v17, drops <- v18, faults <- v19

Behind == <<v11, v12, v13, v14, v15, v16, v17, v18, v19>>
Unused ==
    /\ v11 = 0 /\ v12 = 0 /\ v13 = 0 /\ v14 = 0 /\ v15 = 0 /\ v16 = 0 /\ v17 = 0
    /\ v18 = 0 /\ v19 = 0

agreed == <<part, v1, v2, v3, v4, v5, v6, v7, v8, v9, v10, Behind>>

AgreedStarts ==
    \/ part = "focus" /\ F!Init /\ Unused
    \/ part = "status" /\ S!Init

AgreedSteps ==
    \/ part = "focus" /\ F!Next /\ UNCHANGED <<part, Behind>>
    \/ part = "status" /\ S!Next /\ UNCHANGED part

AgreedSpec == AgreedStarts /\ [][AgreedSteps]_agreed

----------------------------------------------------------------------------

(* Once all is quiet no keybind's effect stays unread, and the next focus   *)
(* move made on either side alone brings both windows to the same pane      *)
(* (focus.go, ctl.go).                                                      *)
Heals == part = "focus" => F!Heals

(* When nothing is left to happen the mirror shows the status the remote    *)
(* carries, whatever was queued, read, lost, rebuilt or forgotten on the    *)
(* way (agentstatus.go, windowlabels.go, sessionres.go).                    *)
Shipped == part = "status" => S!Shipped

=============================================================================
