------------------------------- MODULE Shippers -------------------------------
(***************************************************************************)
(* What the remote keeps in tmux options reaches the mirror through four   *)
(* shippers: the state of the agents in its panes (agentstatus.go: local   *)
(* files and pane options), the labels of its windows (windowlabels.go:    *)
(* window options), the session's load (sessionres.go) and the host's      *)
(* agent usage (agentusage.go: session options).  A subscription reports   *)
(* each object whose value moved; reports are queued by the dispatch and   *)
(* applied by a later pass of the main loop; the first two shippers back   *)
(* them with full reads, whose replies share the stream with reports.      *)
(*                                                                         *)
(* A row is what one object carries: 0 nothing, Bad a value the validators *)
(* refuse, any other number a good one.  Local panes and windows are       *)
(* numbers, never reused.  Bounds: MaxMoves changes of rows, MaxIds local  *)
(* objects, MaxDrops losses of the connection, MaxFaults failed listings   *)
(* of the local panes or changes of trust in the status directory, and     *)
(* MaxLines lines on the stream.                                           *)
(***************************************************************************)
EXTENDS Naturals, Sequences, FiniteSets

CONSTANTS Panes, Wins, Rows, Bad, NoRow, MaxMoves, MaxIds, MaxDrops, MaxFaults, MaxLines

VARIABLES
    rem,       \* the remote: object -> row; NoRow for a pane that closed
    last,      \* object -> row last reported on this connection, or NoRow
    stream,    \* lines on their way: reports and read replies
    asked,     \* which full read the remote still has to answer
    link,      \* "up" or "down"
    loc,       \* object -> the local pane or window that mirrors it, 0 for none
    next,      \* the next local id
    opt,       \* local id -> row its options show
    disk,      \* local pane -> row its status files show
    trusted,   \* the status directory may be written
    agents,    \* agentShipper: [written, pending, unsynced, wasWritten]
    labels,    \* labelShipper: [written, pending]
    sess,      \* resShipper and usageShipper: [written, pending, stamp]
    moved,     \* shippers that have not read since the registry moved
    read,      \* shippers that have read the remote since something they show moved
    pc, moves, drops, faults

svars == <<rem, last, stream, asked, link, loc, next, opt, disk, trusted, agents, labels,
           sess, moved, read, pc, moves, drops, faults>>

Sess == {"res", "usage"}
Objs == Panes \union Wins \union Sess
Ids == 1..MaxIds
Empty == [o \in {} |-> 0]
With(f, o, v) == [x \in DOMAIN f \union {o} |-> IF x = o THEN v ELSE f[x]]

\* A field that fails its pattern, or had to be altered, is an empty value.
Clean(v) == IF v = Bad THEN 0 ELSE v
\* A usage that fails any check is no usage: the stamp is unset.
Sanitized(v) == IF v = Bad THEN 0 ELSE v

\* The shippers share the stream and nothing else, so each has it to itself;
\* faults strike while one pane, or the windows, or the session has it.
Init ==
    /\ \E live \in {Panes, {CHOOSE p \in Panes : TRUE}, Wins, Sess} :
         /\ rem = [o \in Objs |-> IF o \in live THEN 1 ELSE NoRow]
         /\ faults = IF live = Panes THEN MaxFaults ELSE 0
    /\ last = [o \in Objs |-> NoRow] /\ stream = <<>> /\ asked = "no"
    /\ link = "up" /\ next = Cardinality(Panes \union Wins) + 1
    /\ loc = CHOOSE f \in [Panes \union Wins -> 1..Cardinality(Panes \union Wins)] :
                \A a, b \in Panes \union Wins : f[a] = f[b] => a = b
    /\ opt = [i \in Ids |-> 0] /\ disk = [i \in Ids |-> 0] /\ trusted = TRUE
    /\ agents = [written |-> [i \in Ids |-> NoRow], pending |-> Empty, unsynced |-> {}, wasWritten |-> {}]
    /\ labels = [written |-> [w \in Wins |-> [win |-> 0, row |-> NoRow]], pending |-> Empty]
    /\ sess = [s \in Sess |-> [written |-> NoRow, pending |-> NoRow, stamp |-> 0]]
    /\ moved = {"agents", "labels"} /\ read = {} /\ pc = "idle" /\ moves = 0 /\ drops = 0

----------------------------------------------------------------------------
(* The remote server.                                                      *)
Remote == <<loc, next, disk, trusted, agents, labels, sess, moved, pc, drops, faults>>

Change(o, v) ==
    /\ moves < MaxMoves /\ rem[o] # NoRow /\ rem[o] # v
    /\ rem' = [rem EXCEPT ![o] = v] /\ moves' = moves + 1 /\ read' = {}
    /\ UNCHANGED <<last, stream, asked, link, opt, Remote>>

\* One line per object whose value is not the one reported last.
Report(o) ==
    /\ link = "up" /\ Len(stream) < MaxLines /\ rem[o] # NoRow /\ last[o] # rem[o]
    /\ stream' = Append(stream, [obj |-> o, row |-> rem[o], rows |-> Empty])
    /\ last' = [last EXCEPT ![o] = rem[o]]
    /\ UNCHANGED <<rem, asked, link, opt, moves, read, Remote>>

\* The control client is on another session: that one's value is reported.
Excursion(s) ==
    /\ link = "up" /\ Len(stream) < MaxLines /\ moves < MaxMoves /\ moves' = moves + 1
    /\ stream' = Append(stream, [obj |-> s, row |-> NoRow, rows |-> Empty])
    /\ last' = [last EXCEPT ![s] = NoRow]
    /\ UNCHANGED <<rem, asked, link, opt, read, Remote>>

Answer ==
    /\ link = "up" /\ asked # "no" /\ asked' = "no"
    /\ read' = read \union {IF asked = "panes" THEN "agents" ELSE "labels"}
    /\ stream' = Append(stream,
         LET of == {o \in IF asked = "panes" THEN Panes ELSE Wins : rem[o] # NoRow}
         IN  [obj |-> asked, row |-> NoRow, rows |-> [o \in of |-> rem[o]]])
    /\ UNCHANGED <<rem, last, link, opt, moves, Remote>>

----------------------------------------------------------------------------
(* The agents' shipper.  rows: the panes a reply or the queue told of;     *)
(* local: cfg.LocalPanes(), nothing when its listing failed.               *)
Seen(rows, local) == {local[p] : p \in {q \in DOMAIN rows : local[q] # 0}}
RowOf(rows, local, i) == Clean(rows[CHOOSE p \in DOMAIN rows : local[p] = i])

\* A pane that carries nothing has no option to clear, unless this shipper
\* wrote one before it forgot the row.
FreshAlways(i, v) == v = 0  \* Mutant: the tombstone is not consulted
Fresh(i, v) == v = 0 /\ i \notin agents.wasWritten

\* stampPaneOptions: the carried values that moved.
Options(i, v) == LET prev == agents.written[i]
                 IN  prev # v /\ ~(prev = NoRow /\ Fresh(i, v))

\* stamp on any subset of the panes; with reap, apply on all of them.
Stamp(a, rows, local, reap) ==
    LET row(i) == RowOf(rows, local, i)
        seen == Seen(rows, local)
        stale == {i \in seen : agents.written[i] # row(i) \/ i \in agents.unsynced}
        written == {i \in stale : Options(i, row(i)) /\ row(i) # 0}
        gone == IF reap /\ trusted THEN {i \in Ids : agents.written[i] # NoRow} \ seen ELSE {}
        listed == {local[p] : p \in Panes}
    IN  /\ opt' = [i \in Ids |-> IF i \in stale /\ Options(i, row(i)) THEN row(i) ELSE opt[i]]
        /\ disk' = [i \in Ids |-> IF i \in gone THEN 0 ELSE IF i \in stale /\ trusted THEN row(i) ELSE disk[i]]
        /\ agents' = [a EXCEPT
             !.written = [i \in Ids |-> IF i \in gone THEN NoRow ELSE IF i \in stale THEN row(i) ELSE @[i]],
             !.unsynced = ((IF trusted THEN @ \ stale ELSE @ \union stale)) \ gone,
             !.wasWritten = LET all == @ \union written
                            IN  IF \A p \in Panes : local[p] = 0 THEN all ELSE all \intersect listed]

\* cfg.LocalPanes: the live local panes, or nothing when the listing fails.
Listings == {loc} \union (IF faults < MaxFaults THEN {[o \in Panes \union Wins |-> 0]} ELSE {})
Listed(local) == IF local = loc THEN UNCHANGED <<faults, read>> ELSE faults' = faults + 1 /\ read' = {}

\* clear, when the mirror parks and when it ends.
Clear ==
    IF trusted
    THEN /\ agents' = [agents EXCEPT !.written = [i \in Ids |-> NoRow],
                                     !.unsynced = @ \ {i \in Ids : agents.written[i] # NoRow}]
         /\ disk' = [i \in Ids |-> IF agents.written[i] # NoRow THEN 0 ELSE disk[i]]
    ELSE UNCHANGED <<agents, disk>>

(* The labels' shipper: what was written is keyed by the window it landed on. *)
Same(w) == labels.written[w].win = loc[w]

Label(a, rows) ==
    LET stale == {w \in DOMAIN rows : loc[w] # 0 /\ ~(Same(w) /\ labels.written[w].row = Clean(rows[w]))}
        on(i) == {w \in stale : loc[w] = i}
    IN  /\ opt' = [i \in Ids |-> IF on(i) = {} THEN opt[i] ELSE Clean(rows[CHOOSE w \in on(i) : TRUE])]
        /\ labels' = [a EXCEPT !.written = [w \in Wins |->
             IF loc[w] = 0 THEN [win |-> 0, row |-> NoRow]
             ELSE IF w \in stale THEN [win |-> loc[w], row |-> Clean(rows[w])] ELSE @[w]]]

(* The session's shippers.  A malformed load leaves the old stamp standing, *)
(* a malformed usage unsets it; a foreign load is ignored, usage is not.    *)
FlushSess(s) ==
    LET r == sess[s] v == r.pending
    IN  CASE v = NoRow \/ (s = "res" /\ v = Bad) -> [r EXCEPT !.pending = NoRow]
          [] OTHER -> [r EXCEPT !.pending = NoRow, !.written = Sanitized(v),
                                !.stamp = IF r.written = Sanitized(v) THEN @ ELSE Sanitized(v)]
Reset(s) == [sess[s] EXCEPT !.written = NoRow, !.pending = NoRow]

----------------------------------------------------------------------------
(* The main loop: a line or the tick, then the passes of the shippers.     *)
QueueAgent(l) == agents' = [agents EXCEPT !.pending = With(@, l.obj, l.row)] /\ UNCHANGED <<labels, sess>>
QueueLabel(l) == labels' = [labels EXCEPT !.pending = With(@, l.obj, l.row)] /\ UNCHANGED <<agents, sess>>
QueueRes(l) == sess' = [sess EXCEPT !["res"].pending = IF l.row = NoRow THEN @ ELSE l.row] /\ UNCHANGED <<agents, labels>>
QueueUsage(l) == sess' = [sess EXCEPT !["usage"].pending = l.row]
                 /\ UNCHANGED <<agents, labels>>
Queue(l) ==
    \/ l.obj \in Panes /\ QueueAgent(l)
    \/ l.obj \in Wins /\ QueueLabel(l)
    \/ l.obj = "res" /\ QueueRes(l)
    \/ l.obj = "usage" /\ QueueUsage(l)

Pop == stream # <<>> /\ stream' = Tail(stream)
Loop == <<rem, last, link, loc, next, trusted, moves, drops>>

Line ==
    /\ pc = "idle" /\ link = "up" /\ Pop /\ Queue(Head(stream)) /\ pc' = "agents"
    /\ UNCHANGED <<asked, opt, disk, moved, faults, read, Loop>>
Tick ==
    /\ pc = "idle" /\ link = "up" /\ pc' = "agents"
    /\ UNCHANGED <<stream, asked, opt, disk, agents, labels, sess, moved, faults, read, Loop>>

\* queuedApplyDue: once nothing else waits on the stream, or has for too long.
Held(pending, hold) == pending = Empty \/ (stream # <<>> /\ hold)

\* due: the floor has elapsed, or the registry moved since the last read.
\* It is read at once, in the pass that applied the queue.
Read(k, what, elapsed, then) ==
    IF k \in moved \/ elapsed
    THEN moved' = moved \ {k} /\ asked' = what /\ pc' = what
    ELSE moved' = moved /\ asked' = asked /\ pc' = then

FlushAgents(hold, elapsed) ==
    /\ pc = "agents" /\ link = "up"
    /\ IF Held(agents.pending, hold) THEN UNCHANGED <<opt, disk, agents, faults, read>>
       ELSE \E local \in Listings :
              Listed(local) /\ Stamp([agents EXCEPT !.pending = Empty], agents.pending, local, FALSE)
    /\ Read("agents", "panes", elapsed, "labels")
    /\ UNCHANGED <<stream, labels, sess, Loop>>

ReplyAgents ==
    /\ pc = "panes" /\ link = "up" /\ Pop
    /\ LET l == Head(stream) IN
       IF l.obj = "panes"
       THEN /\ pc' = "labels" /\ UNCHANGED <<labels, sess>>
            /\ \E local \in Listings : Listed(local) /\ Stamp(agents, l.rows, local, TRUE)
       ELSE Queue(l) /\ UNCHANGED <<opt, disk, pc, faults, read>>
    /\ UNCHANGED <<asked, moved, Loop>>

FlushLabels(hold, elapsed) ==
    /\ pc = "labels" /\ link = "up"
    /\ IF Held(labels.pending, hold) THEN UNCHANGED <<opt, labels>>
       ELSE Label([labels EXCEPT !.pending = Empty], labels.pending)
    /\ Read("labels", "windows", elapsed, "sess")
    /\ UNCHANGED <<stream, disk, agents, sess, faults, read, Loop>>

ReplyLabels ==
    /\ pc = "windows" /\ link = "up" /\ Pop
    /\ LET l == Head(stream) IN
       IF l.obj = "windows"
       THEN pc' = "sess" /\ Label(labels, l.rows) /\ UNCHANGED <<agents, sess>>
       ELSE Queue(l) /\ UNCHANGED <<opt, pc>>
    /\ UNCHANGED <<asked, disk, moved, faults, read, Loop>>

FlushRest ==
    /\ pc = "sess" /\ pc' = "idle"
    /\ sess' = [s \in Sess |-> FlushSess(s)]
    /\ UNCHANGED <<stream, asked, opt, disk, agents, labels, moved, faults, read, Loop>>

\* The reply never comes: that shipper returns, and the pass goes on.
Fails ==
    /\ link = "down" /\ pc \in {"agents", "panes", "labels", "windows"} /\ pc' = "sess"
    /\ UNCHANGED <<stream, asked, opt, disk, agents, labels, sess, moved, faults, read, Loop>>

\* A dead mirror is rebuilt on a fresh local object; only the registry of windows counts it.
Rebuild(o) ==
    /\ pc = "idle" /\ link = "up" /\ rem[o] # NoRow /\ next <= MaxIds
    /\ loc' = [loc EXCEPT ![o] = next] /\ next' = next + 1
    /\ opt' = [opt EXCEPT ![loc[o]] = 0]
    /\ moved' = IF o \in Wins THEN {"agents", "labels"} ELSE moved
    /\ read' = {} /\ UNCHANGED <<rem, last, stream, asked, link, disk, trusted, agents, labels, sess, pc, moves, drops, faults>>

\* A remote pane closes, and its mirror with it.
Close(p) ==
    /\ pc = "idle" /\ link = "up" /\ moves < MaxMoves /\ moves' = moves + 1 /\ rem[p] # NoRow
    /\ rem' = [rem EXCEPT ![p] = NoRow] /\ loc' = [loc EXCEPT ![p] = 0]
    /\ opt' = [opt EXCEPT ![loc[p]] = 0]
    /\ read' = {} /\ UNCHANGED <<last, stream, asked, link, next, disk, trusted, agents, labels, sess, moved, pc, drops, faults>>

Distrust ==
    /\ faults < MaxFaults /\ faults' = faults + 1 /\ trusted' = FALSE
    /\ read' = {} /\ UNCHANGED <<rem, last, stream, asked, link, loc, next, opt, disk, agents, labels, sess, moved, pc, moves, drops>>
Trust ==
    /\ ~trusted /\ trusted' = TRUE
    /\ read' = {} /\ UNCHANGED <<rem, last, stream, asked, link, loc, next, opt, disk, agents, labels, sess, moved, pc, moves, drops, faults>>

Drop ==
    /\ link = "up" /\ drops < MaxDrops /\ drops' = drops + 1 /\ link' = "down"
    /\ stream' = <<>> /\ asked' = "no" /\ last' = [o \in Objs |-> NoRow]
    /\ read' = {} /\ UNCHANGED <<rem, loc, next, opt, disk, trusted, agents, labels, sess, moved, pc, moves, faults>>

\* The loss is noticed: the session's stamps go, and a mirror that parks clears its files.
Reattach(parks) ==
    /\ link = "down" /\ pc = "idle" /\ pc' = "away"
    /\ sess' = [s \in Sess |-> [sess[s] EXCEPT !.stamp = 0]]
    /\ IF parks THEN Clear ELSE UNCHANGED <<agents, disk>>
    /\ read' = {} /\ UNCHANGED <<rem, last, stream, asked, link, loc, next, opt, trusted, labels, moved, moves, drops, faults>>

Repair ==
    /\ pc = "away" /\ link' = "up" /\ pc' = "idle"
    /\ sess' = [s \in Sess |-> Reset(s)]
    /\ read' = {} /\ UNCHANGED <<rem, last, stream, asked, loc, next, opt, disk, trusted, agents, labels, moved, moves, drops, faults>>

Next ==
    \/ \E o \in Objs, v \in Rows : Change(o, v)
    \/ \E o \in Objs : Report(o)
    \/ Excursion("res") \/ Answer
    \/ Line \/ Tick
    \/ \E hold \in BOOLEAN, elapsed \in BOOLEAN : FlushAgents(hold, elapsed) \/ FlushLabels(hold, elapsed)
    \/ ReplyAgents \/ ReplyLabels \/ FlushRest \/ Fails
    \/ \E o \in Panes \union Wins : Rebuild(o)
    \/ \E p \in Panes : Close(p)
    \/ Distrust \/ Trust \/ Drop \/ Repair
    \/ \E parks \in BOOLEAN : Reattach(parks)

Spec == Init /\ [][Next]_svars

----------------------------------------------------------------------------
(* When nothing is left to happen the mirror shows what the remote carries, *)
(* whatever was queued, read, lost, rebuilt or forgotten on the way: the   *)
(* options of every mirrored pane and window, the files of the panes, no   *)
(* file of a pane that is gone, the session's load and the host's usage.   *)
Settled ==
    /\ link = "up" /\ pc = "idle" /\ stream = <<>> /\ moved = {} /\ read = {"agents", "labels"}
    /\ \A o \in Objs : last[o] = rem[o]
    /\ agents.pending = Empty /\ labels.pending = Empty /\ \A s \in Sess : sess[s].pending = NoRow
Agrees ==
    /\ \A o \in Panes \union Wins : loc[o] # 0 /\ rem[o] # NoRow => opt[loc[o]] = Clean(rem[o])
    /\ trusted => /\ \A p \in Panes : loc[p] # 0 /\ rem[p] # NoRow => disk[loc[p]] = Clean(rem[p])
                  /\ \A i \in Ids : disk[i] # 0 => \E p \in Panes : loc[p] = i
    /\ rem["res"] \notin {NoRow, Bad} => sess["res"].stamp = rem["res"]
    /\ rem["usage"] # NoRow => sess["usage"].stamp = Clean(rem["usage"])
Shipped == Settled => Agrees
----------------------------------------------------------------------------
(* Why it holds: what every step keeps.                                    *)
Row == Rows \union {NoRow}
Queued(S) == UNION {[T -> Rows] : T \in SUBSET S}
Lines == [obj : Objs \union {"panes", "windows"}, row : Row, rows : Queued(Panes \union Wins)]

Carries(q, o) == \E k \in 1..Len(q) : q[k].obj = o
\* The newest line of q about o, if there is one, says v.
Newest(q, o, v) ==
    \A k \in 1..Len(q) : q[k].obj = o /\ (\A j \in (k + 1)..Len(q) : q[j].obj # o) => q[k].row = v
\* The one reply of q to a full read says v.
Replies(q, what, v) == \A k \in 1..Len(q) : q[k].obj = what => q[k].rows = v
Waits(o) == Carries(stream, o)
Now(S) == [o \in {x \in S : rem[x] # NoRow} |-> rem[o]]

Typed ==
    /\ rem \in [Objs -> Row] /\ last \in [Objs -> Row] /\ stream \in Seq(Lines)
    /\ link \in {"up", "down"} /\ asked \in {"no", "panes", "windows"}
    /\ loc \in [Panes \union Wins -> 0..MaxIds] /\ next \in 1..(MaxIds + 1)
    /\ opt \in [Ids -> Rows] /\ disk \in [Ids -> Rows] /\ trusted \in BOOLEAN
    /\ agents \in [written : [Ids -> Row], pending : Queued(Panes), unsynced : SUBSET Ids,
                   wasWritten : SUBSET Ids]
    /\ labels \in [written : [Wins -> [win : 0..MaxIds, row : Row]], pending : Queued(Wins)]
    /\ sess \in [Sess -> [written : Row, pending : Row, stamp : Rows]]
    /\ moved \subseteq {"agents", "labels"} /\ read \subseteq {"agents", "labels"}
    /\ pc \in {"idle", "agents", "panes", "labels", "windows", "sess", "away"}

\* A reply comes while its shipper waits for it, and once.
Asks(what) ==
    /\ asked = what => pc = what /\ ~Waits(what)
    /\ Waits(what) => pc = what
Flow ==
    /\ \A k \in 1..Len(stream) :
         /\ stream[k].obj \in Panes \union Wins \union {"usage"} => stream[k].row # NoRow
         /\ stream[k].obj = "panes" => stream[k].rows \in Queued(Panes)
         /\ stream[k].obj = "windows" => stream[k].rows \in Queued(Wins)
    /\ \A j, k \in 1..Len(stream) :
         stream[j].obj \in {"panes", "windows"} /\ stream[j].obj = stream[k].obj => j = k
    /\ Asks("panes") /\ Asks("windows")
    /\ pc = "away" => link = "down"
    /\ link = "down" => stream = <<>> /\ asked = "no" /\ \A o \in Objs : last[o] = NoRow

\* Two objects never share a local one, and an id not given out yet is blank.
Placed ==
    /\ \A o \in Panes \union Wins : loc[o] < next
    /\ \A o, q \in Panes \union Wins : loc[o] = loc[q] /\ loc[o] # 0 => o = q
    /\ \A o \in Panes \union Wins : loc[o] = 0 => rem[o] = NoRow /\ o \in Panes
    /\ \A w \in Wins : labels.written[w].win < next
    /\ \A i \in Ids : i >= next =>
         opt[i] = 0 /\ disk[i] = 0 /\ agents.written[i] = NoRow /\ i \notin agents.wasWritten

\* What the shippers remember of what they wrote is what they wrote.
Files ==
    \A i \in Ids :
        /\ agents.written[i] = NoRow => disk[i] = 0 /\ i \notin agents.unsynced
        /\ agents.written[i] # NoRow /\ i \notin agents.unsynced => disk[i] = agents.written[i]
Remembered ==
    /\ \A p \in Panes : loc[p] # 0 =>
         /\ opt[loc[p]] # 0 => loc[p] \in agents.wasWritten
         /\ agents.written[loc[p]] # NoRow => opt[loc[p]] = agents.written[loc[p]]
    /\ \A w \in Wins : Same(w) => opt[loc[w]] = labels.written[w].row

\* The newest value reported is on the stream, in the queue, or was applied.
Heard == \A o \in Objs : Newest(stream, o, last[o])
Queues(pending) == \A o \in DOMAIN pending : Waits(o) \/ last[o] \in {NoRow, pending[o]}
Applied(s) ==
    last[s] # NoRow /\ ~Waits(s) =>
        \/ sess[s].pending = last[s]
        \/ /\ sess[s].pending = NoRow
           /\ (s = "res" /\ last[s] = Bad) \/ sess[s].written = Sanitized(last[s])
Stamped == pc # "away" => \A s \in Sess : sess[s].written \in {NoRow, sess[s].stamp}
Ordered ==
    Heard /\ Queues(agents.pending) /\ Queues(labels.pending) /\ (\A s \in Sess : Applied(s)) /\ Stamped

\* Since a full read with nothing moved after it, a row the mirror does not show is on its way.
Coming(o, pending) == last[o] # rem[o] \/ Waits(o) \/ o \in DOMAIN pending
PaneShown(p) ==
    \/ Coming(p, agents.pending)
    \/ agents.written[loc[p]] = Clean(rem[p]) /\ (trusted => loc[p] \notin agents.unsynced)
WinShown(w) ==
    \/ Coming(w, labels.pending)
    \/ Same(w) /\ labels.written[w].row = Clean(rem[w])
NoneLeft == trusted => \A i \in Ids : disk[i] # 0 => \E p \in Panes : loc[p] = i
PanesCovered ==
    "agents" \in read =>
        /\ Replies(stream, "panes", Now(Panes))
        /\ ~Waits("panes") => NoneLeft /\ \A p \in Panes : rem[p] # NoRow => PaneShown(p)
WinsCovered ==
    "labels" \in read =>
        /\ Replies(stream, "windows", Now(Wins))
        /\ ~Waits("windows") => \A w \in Wins : rem[w] # NoRow => WinShown(w)

IInv == Typed /\ Flow /\ Placed /\ Files /\ Remembered /\ Ordered /\ PanesCovered /\ WinsCovered

================================================================================
