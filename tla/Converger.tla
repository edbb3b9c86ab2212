------------------------------ MODULE Converger ------------------------------
(***************************************************************************)
(* The sizes a mirror asserts on the remote (size.go).  Two goroutines     *)
(* share the converger's record of what the remote has been told: the      *)
(* watcher of the local client (watchLocalClient), which outlives every    *)
(* connection, and the main loop (repair after a reattach, setupWindow,    *)
(* closeWindow).  Recording and sending are two steps of each, so the      *)
(* record is only as good as their interleaving.                           *)
(*                                                                         *)
(* Keys are the client size and the windows' caps; Area is the size the    *)
(* local clients can show, which moves MaxMoves times; the connection is   *)
(* lost MaxDrops times; windows open MaxOpens times.  A window takes the   *)
(* caps only once it has opted out of aggressive-resize.                   *)
(***************************************************************************)
EXTENDS Naturals, Sequences, FiniteSets

CONSTANTS Windows, Client, NoSize, MaxMoves, MaxDrops, MaxOpens,
          Overtakes  \* whether one goroutine may record and send a key that the
                     \* other has recorded and not sent yet

VARIABLES
    area,    \* what the local clients can show
    nudge,   \* the resize hook's file was touched since the watcher looked
    reg,     \* mirrored windows
    last,    \* the converger: key -> size recorded, or NoSize
    conn,    \* "up", "deaf" (lost, not yet noticed), "down"
    told,    \* key -> size the far end of the current connection has in force
    sent,    \* key -> sizes written to the current connection
    opted,   \* windows that take caps
    w,       \* the watcher: [at, size, left, key]
    m,       \* the main loop: [at, size, left, key]
    moves, drops, opens

cvars == <<area, nudge, reg, last, conn, told, sent, opted, w, m, moves, drops, opens>>

Keys == Windows \union {Client}
Areas == 0..MaxMoves
Rest == [at |-> "rest", size |-> NoSize, left |-> {}, key |-> Client, job |-> "sizes"]

Init ==
    /\ area = 0 /\ nudge = TRUE /\ reg = {} /\ opted = {}
    /\ last = [k \in Keys |-> IF k = Client THEN 0 ELSE NoSize] /\ conn = "up"
    /\ told = last /\ sent = [k \in Keys |-> IF k = Client THEN {0} ELSE {}]
    /\ w = Rest /\ m = Rest
    /\ moves = 0 /\ drops = 0 /\ opens = 0

----------------------------------------------------------------------------
\* need: whether the key still has to be told, recording it when it does.
Need(k, s) == last[k] # s
Recorded(k, s) == [last EXCEPT ![k] = s]

\* unrecord: the write never happened, and nobody has asserted another since.
Unrecord(k, s) == IF last[k] = s THEN [last EXCEPT ![k] = NoSize] ELSE last

\* connHolder.send: fails closed once the loss is noticed; before, the line is lost.
Write(k, s) ==
    /\ told' = IF conn = "up" /\ (k = Client \/ k \in opted) THEN [told EXCEPT ![k] = s] ELSE told
    /\ sent' = IF conn = "down" THEN sent ELSE [sent EXCEPT ![k] = @ \union {s}]
    /\ last' = IF conn = "down" THEN Unrecord(k, s) ELSE last

\* A goroutine works through the keys it took, one at a time: record, then send.
Asserting(g, k) == g.at = "send" /\ g.key = k

Take(g) ==
    /\ g.at = "assert" /\ g.left # {}
    /\ \E k \in g.left :
         /\ Client \in g.left => k = Client
         /\ Overtakes \/ ~(Asserting(w, k) \/ Asserting(m, k))
         /\ IF Need(k, g.size)
            THEN /\ last' = Recorded(k, g.size)
                 /\ g' = [g EXCEPT !.at = "send", !.key = k, !.left = @ \ {k}]
            ELSE /\ last' = last
                 /\ g' = [g EXCEPT !.left = @ \ {k}]
    /\ UNCHANGED <<told, sent>>

SendTaken(g) == g.at = "send" /\ Write(g.key, g.size) /\ g' = [g EXCEPT !.at = "assert"]
Done(g) == g.at = "assert" /\ g.left = {} /\ g' = Rest /\ UNCHANGED <<last, told, sent>>
Asserts(g) == Take(g) \/ SendTaken(g) \/ Done(g)

----------------------------------------------------------------------------
\* The watcher looks when the hook's file moved, or after the fallback interval.
WatchLook ==
    /\ w.at = "rest" /\ (nudge \/ Need(Client, area) \/ \E k \in reg : Need(k, area))
    /\ nudge' = FALSE
    /\ w' = [Rest EXCEPT !.at = "assert", !.size = area, !.left = {Client} \union reg]
    /\ UNCHANGED <<area, reg, last, conn, told, sent, opted, m, moves, drops, opens>>

Watch == Asserts(w) /\ UNCHANGED <<area, nudge, reg, conn, opted, m, moves, drops, opens>>

----------------------------------------------------------------------------
\* The main loop notices the loss.
Notice ==
    /\ m.at = "rest" /\ conn = "deaf"
    /\ conn' = "down"
    /\ UNCHANGED <<area, nudge, reg, last, told, sent, opted, w, m, moves, drops, opens>>

\* reattach publishes a client that has been told nothing, then repairs.
Reattach ==
    /\ m.at = "rest" /\ conn = "down"
    /\ conn' = "up"
    /\ told' = [k \in Keys |-> NoSize] /\ sent' = [k \in Keys |-> {}]
    /\ m' = [m EXCEPT !.at = "reset"]
    /\ UNCHANGED <<area, nudge, reg, last, opted, w, moves, drops, opens>>

\* reset drops everything; the area is read after it.
ResetNothing(c) == last
ResetAll(c) == [k \in Keys |-> NoSize]
RepairReset ==
    /\ m.at = "reset"
    /\ last' = ResetAll(conn)
    /\ m' = [m EXCEPT !.at = "area"]
    /\ UNCHANGED <<area, nudge, reg, conn, told, sent, opted, w, moves, drops, opens>>

RepairArea ==
    /\ m.at = "area"
    /\ m' = [Rest EXCEPT !.at = "assert", !.size = area, !.left = {Client} \union reg]
    /\ UNCHANGED <<area, nudge, reg, last, conn, told, sent, opted, w, moves, drops, opens>>

\* mirrorNewWindow publishes the window before setupWindow runs.
AddWindow ==
    /\ m.at = "rest" /\ conn = "up" /\ opens < MaxOpens
    /\ opens' = opens + 1
    /\ \E k \in Windows \ reg :
        /\ reg' = reg \union {k}
        /\ m' = [Rest EXCEPT !.at = "optout", !.key = k, !.job = "setup"]
    /\ UNCHANGED <<area, nudge, last, conn, told, sent, opted, w, moves, drops>>

OptOut ==
    /\ m.at = "optout"
    /\ opted' = IF conn = "up" THEN opted \union {m.key} ELSE opted
    /\ m' = [m EXCEPT !.at = "forget"]
    /\ UNCHANGED <<area, nudge, reg, last, conn, told, sent, w, moves, drops, opens>>

\* setupWindow: a record made before the opt-out is worthless.
Forget(k) == [last EXCEPT ![k] = NoSize]
SetupForget ==
    /\ m.at = "forget"
    /\ last' = Forget(m.key)
    /\ m' = [m EXCEPT !.at = "assert", !.size = area, !.left = {m.key}]
    /\ UNCHANGED <<area, nudge, reg, conn, told, sent, opted, w, moves, drops, opens>>

\* setupWindow's cap is a round trip: on a lost connection the setup fails and
\* is rolled back by closeWindow.
SetupFails ==
    /\ m.job = "setup" /\ m.at \in {"assert", "send"} /\ conn # "up"
    /\ reg' = reg \ {m.key}
    /\ last' = [last EXCEPT ![m.key] = NoSize]
    /\ m' = Rest
    /\ UNCHANGED <<area, nudge, conn, told, sent, opted, w, moves, drops, opens>>

\* closeWindow: the remote window is gone, and its caps and options with it.
CloseWindow ==
    /\ m.at = "rest" /\ conn = "up"
    /\ \E k \in reg :
        /\ reg' = reg \ {k} /\ opted' = opted \ {k}
        /\ told' = [told EXCEPT ![k] = NoSize]
        /\ last' = [last EXCEPT ![k] = NoSize]
    /\ UNCHANGED <<area, nudge, conn, sent, w, m, moves, drops, opens>>

Main == (m.job = "setup" => conn = "up") /\ Asserts(m) /\ UNCHANGED <<area, nudge, reg, conn, opted, w, moves, drops, opens>>

----------------------------------------------------------------------------
\* The user resizes the terminal; the hook touches the file.
Resize ==
    /\ moves < MaxMoves
    /\ moves' = moves + 1 /\ area' = moves + 1 /\ nudge' = TRUE
    /\ UNCHANGED <<reg, last, conn, told, sent, opted, w, m, drops, opens>>

Drop ==
    /\ conn = "up" /\ drops < MaxDrops
    /\ drops' = drops + 1 /\ conn' = "deaf"
    /\ UNCHANGED <<area, nudge, reg, last, told, sent, opted, w, m, moves, opens>>

MainLoop == Notice \/ Reattach \/ RepairReset \/ RepairArea \/ OptOut \/ SetupForget \/ SetupFails \/ Main
Next == WatchLook \/ Watch \/ MainLoop \/ AddWindow \/ CloseWindow \/ Resize \/ Drop

Spec == Init /\ [][Next]_cvars
Fairness == WF_cvars(WatchLook \/ Watch) /\ WF_cvars(MainLoop)
FairSpec == Spec /\ Fairness

----------------------------------------------------------------------------

\* When the terminal rests and the link holds, the remote is told its size.
SizesTold == told[Client] = area /\ \A k \in reg : told[k] = area
=============================================================================
