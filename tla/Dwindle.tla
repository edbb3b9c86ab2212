-------------------------------- MODULE Dwindle --------------------------------
(***************************************************************************)
(* Evening out the split a closed pane left (picker/dwindle and            *)
(* controlmode.RebalanceClosedCell).  tmux's layout hook keeps the layout  *)
(* it last saw and forks the tool when a pane has gone; the tool reads the *)
(* window, computes the evened layout and applies it under a guard, while  *)
(* panes are split, closed, resized and zoomed around it.                  *)
(*                                                                         *)
(* A layout is a tree of cells; "{" lays its children out in a row, "[" in *)
(* a column, one divider between two.  Floating panes, and the text of a   *)
(* layout with its checksum, are left out.                                 *)
(*                                                                         *)
(* Bounds: a window of Width x Height, MaxSplits splits, MaxCloses closes, *)
(* MaxNudges resizes and changes of mode or zoom.                          *)
(***************************************************************************)
EXTENDS Naturals, Sequences, FiniteSets

CONSTANTS Width, Height, MaxSplits, MaxCloses, MaxNudges

VARIABLES
    status,          \* pane-border-status
    tree, order,     \* the window's layout and its pane list
    on, zoomed,      \* @dwindle, window_zoomed_flag
    cache,           \* @dwindle_cache
    jobs,            \* forked tools: what each was given and has read
    nsplit, nclose, nnudge

tmuxVars == <<tree, order, on, zoomed>>
bounds == <<nsplit, nclose, nnudge>>
dvars == <<status, tmuxVars, cache, jobs, bounds>>

Kinds == {"{", "["}
Pane(id, w, h) == [id |-> id, kind |-> "pane", w |-> w, h |-> h, kids |-> <<>>]

RECURSIVE Nodes(_), Leaves(_), Put(_, _, _), Cells(_, _, _)
Nodes(n) == {n} \cup UNION {Nodes(n.kids[i]) : i \in DOMAIN n.kids}
Leaves(n) ==
    IF n.kind = "pane" THEN <<n.id>>
    ELSE LET l[i \in 0..Len(n.kids)] == IF i = 0 THEN <<>> ELSE l[i - 1] \o Leaves(n.kids[i])
         IN  l[Len(n.kids)]
\* The tree with one of its cells replaced.
Put(n, old, new) ==
    IF n = old THEN new ELSE [n EXCEPT !.kids = [i \in DOMAIN @ |-> Put(@[i], old, new)]]

Ids(n) == {Leaves(n)[i] : i \in DOMAIN Leaves(n)}
Dim(n, axis) == IF axis = "{" THEN n.w ELSE n.h
SetDim(n, axis, s) == IF axis = "{" THEN [n EXCEPT !.w = s] ELSE [n EXCEPT !.h = s]
Total(f) == LET t[i \in 0..Len(f)] == IF i = 0 THEN 0 ELSE t[i - 1] + f[i] IN t[Len(f)]

\* place: every pane's box, from its cell's offset.
Cells(n, x, y) ==
    IF n.kind = "pane" THEN {[id |-> n.id, x |-> x, y |-> y, w |-> n.w, h |-> n.h]}
    ELSE UNION {LET past == Total([j \in 1..(i - 1) |-> Dim(n.kids[j], n.kind) + 1])
                IN  IF n.kind = "{" THEN Cells(n.kids[i], x + past, y) ELSE Cells(n.kids[i], x, y + past)
                : i \in DOMAIN n.kids}
Box(t, id) == CHOOSE c \in Cells(t, 0, 0) : c.id = id

----------------------------------------------------------------------------
(* RebalanceClosedCell.                                                    *)
RECURSIVE Resized(_, _, _), EdgePath(_, _, _)

\* resize's shares: in proportion to the old sizes, the largest remainders first.
Shares(old, avail) ==
    LET sum == Total(old)
        rem(i) == (avail * old[i]) % sum
        ahead(i) == Cardinality({j \in DOMAIN old : rem(j) > rem(i) \/ (rem(j) = rem(i) /\ j < i)})
        whole == [i \in DOMAIN old |-> (avail * old[i]) \div sum]
    IN  [i \in DOMAIN old |-> whole[i] + (IF ahead(i) < avail - Total(whole) THEN 1 ELSE 0)]

Resized(n, axis, size) ==
    LET m == Len(n.kids)
        shares == IF n.kind = axis
                  THEN Shares([i \in 1..m |-> Dim(n.kids[i], axis)], IF size < m THEN 0 ELSE size - (m - 1))
                  ELSE [i \in 1..m |-> size]
    IN  [SetDim(n, axis, size) EXCEPT !.kids = [i \in 1..m |-> Resized(n.kids[i], axis, shares[i])]]
Fits(n) == \A l \in Nodes(n) : l.w >= 1 /\ l.h >= 1

\* Whether q is the first (last) child of every column above it.
EdgePath(n, q, last) ==
    \/ n = q
    \/ \E i \in DOMAIN n.kids :
         /\ q \in Nodes(n.kids[i]) /\ EdgePath(n.kids[i], q, last)
         /\ n.kind = "[" => i = (IF last THEN Len(n.kids) ELSE 1)
EdgeChild(root, q) ==
    IF status = "off" \/ q.kind = "{" \/ ~EdgePath(root, q, status = "bottom") THEN 0
    ELSE IF status = "top" THEN 1 ELSE Len(q.kids)

Closed(prev, cur) ==
    IF Len(Leaves(cur)) = Len(Leaves(prev)) - 1 /\ Ids(cur) \subseteq Ids(prev) THEN Ids(prev) \ Ids(cur) ELSE {}
Parent(t, id) == {n \in Nodes(t) : \E i \in DOMAIN n.kids : n.kids[i].id = id /\ n.kids[i].kind = "pane"}
\* findSplit: the split of that kind over the children that are left.
Survivors(p, cur, gone) ==
    LET left == SelectSeq(p.kids, LAMBDA c : c.id # gone)
    IN  {q \in Nodes(cur) : /\ q.kind = p.kind /\ Len(q.kids) = Len(left)
                            /\ \A i \in DOMAIN left : Ids(q.kids[i]) = Ids(left[i])}

\* The status line's row is not shared out.
Targets(q, edge) ==
    LET n == Len(q.kids)
        total == Total([i \in 1..n |-> Dim(q.kids[i], q.kind)]) - (IF edge = 0 THEN 0 ELSE 1)
        share == total \div n
    IN  [i \in 1..n |-> (IF i = n THEN total - (n - 1) * share ELSE share) + (IF i = edge THEN 1 ELSE 0)]

Evened(q, edge) ==
    [q EXCEPT !.kids = [i \in DOMAIN @ |-> Resized(@[i], q.kind, Targets(q, edge)[i])]]

\* The evened layout, or the one it has where there is nothing to even.
Rebalanced(prev, cur) ==
    LET split(id) == {p \in Parent(prev, id) : Len(p.kids) >= 3}
        found == UNION {UNION {Survivors(p, cur, id) : p \in split(id)} : id \in Closed(prev, cur)}
        q == CHOOSE x \in found : TRUE
        new == Evened(q, EdgeChild(cur, q))
    IN  IF found # {} /\ Fits(new) THEN Put(cur, q, new) ELSE cur

----------------------------------------------------------------------------
(* tmux, and the hook on every change of the layout.                       *)
Uncached == [sig |-> <<>>, tree |-> <<>>, n |-> 0, zoomed |-> FALSE]
Sig(t, o, z) == <<z, o, Cells(t, 0, 0)>>

\* group: who shared a split with the pane that has just gone.
Hook(t, o, z, group) ==
    /\ tree' = t /\ order' = o /\ zoomed' = z
    /\ IF ~on THEN cache' = Uncached /\ UNCHANGED jobs
       ELSE IF Sig(t, o, z) = cache.sig THEN UNCHANGED <<cache, jobs>>
       ELSE /\ cache' = [sig |-> Sig(t, o, z), tree |-> t, n |-> Len(o), zoomed |-> z]
            /\ jobs' = (IF Len(o) < cache.n /\ ~cache.zoomed /\ ~z
                        THEN Append(jobs, [pc |-> "forked", prev |-> cache.tree, group |-> group, view |-> <<>>, new |-> <<>>])
                        ELSE jobs)

Insert(s, i, e) == SubSeq(s, 1, i) \o <<e>> \o SubSeq(s, i + 1, Len(s))
At(s, e) == CHOOSE i \in DOMAIN s : s[i] = e

Split(id, k, last) ==
    /\ nsplit < MaxSplits /\ nsplit' = nsplit + 1
    /\ LET old == CHOOSE n \in Nodes(tree) : n.id = id /\ n.kind = "pane"
           second == (Dim(old, k) - 1) \div 2
           a == SetDim(old, k, Dim(old, k) - 1 - second)
           b == [SetDim(old, k, second) EXCEPT !.id = nsplit + 2]
           into == {p \in Parent(tree, id) : p.kind = k}
           p == CHOOSE x \in into : TRUE
           i == At(p.kids, old)
           t == IF into = {} THEN Put(tree, old, [old EXCEPT !.id = 0, !.kind = k, !.kids = <<a, b>>])
                ELSE Put(tree, p, [p EXCEPT !.kids = Insert([@ EXCEPT ![i] = a], i, b)])
       IN  second >= 1 /\ Hook(t, IF last THEN Append(order, b.id) ELSE Insert(order, At(order, id), b.id), FALSE, {})
    /\ UNCHANGED <<status, on, nclose, nnudge>>

\* The neighbour takes the cell; a split of one becomes its child.
Without(p, i) ==
    LET j == IF i = 1 THEN 2 ELSE i - 1
        wider == Resized(p.kids[j], p.kind, Dim(p.kids[j], p.kind) + Dim(p.kids[i], p.kind) + 1)
        kids == [p.kids EXCEPT ![j] = wider]
        left == SubSeq(kids, 1, i - 1) \o SubSeq(kids, i + 1, Len(kids))
    IN  IF Len(left) = 1 THEN left[1] ELSE [p EXCEPT !.kids = left]
Close(id) ==
    /\ nclose < MaxCloses /\ nclose' = nclose + 1
    /\ \E p \in Parent(tree, id) :
         LET i == CHOOSE x \in DOMAIN p.kids : p.kids[x].id = id /\ p.kids[x].kind = "pane"
             group == IF Len(p.kids) < 3 THEN {} ELSE Ids(p) \ {id}
         IN  Hook(Put(tree, p, Without(p, i)), SelectSeq(order, LAMBDA o : o # id), FALSE, group)
    /\ UNCHANGED <<status, on, nsplit, nnudge>>

\* A divider moves by one.
Nudge(p, i) ==
    /\ nnudge < MaxNudges /\ nnudge' = nnudge + 1 /\ i < Len(p.kids)
    /\ LET more == Resized(p.kids[i], p.kind, Dim(p.kids[i], p.kind) + 1)
           less == Resized(p.kids[i + 1], p.kind, Dim(p.kids[i + 1], p.kind) - 1)
       IN  Dim(p.kids[i + 1], p.kind) > 1 /\ Fits(less)
           /\ Hook(Put(tree, p, [p EXCEPT !.kids[i] = more, !.kids[i + 1] = less]), order, zoomed, {})
    /\ UNCHANGED <<status, on, nsplit, nclose>>

Zoom ==
    /\ nnudge < MaxNudges /\ nnudge' = nnudge + 1 /\ tree.kind # "pane" /\ Hook(tree, order, ~zoomed, {})
    /\ UNCHANGED <<status, on, nsplit, nclose>>
Toggle ==
    /\ nnudge < MaxNudges /\ nnudge' = nnudge + 1 /\ on' = ~on
    /\ UNCHANGED <<status, tree, order, zoomed, cache, jobs, nsplit, nclose>>

----------------------------------------------------------------------------
(* The tool (run).                                                         *)
View == [on |-> on, zoomed |-> zoomed, order |-> order, panes |-> Cells(tree, 0, 0)]

Read(j) ==
    /\ jobs[j].pc = "forked"
    /\ LET new == Rebalanced(jobs[j].prev, tree)
           goes == on /\ ~zoomed /\ new # tree /\ order = Leaves(new)
       IN  jobs' = [jobs EXCEPT ![j].pc = IF goes THEN "computed" ELSE "done",
                                ![j].view = View, ![j].new = IF goes THEN new ELSE <<>>]
    /\ UNCHANGED <<status, tmuxVars, cache, bounds>>

Unguarded(j) == TRUE  \* Mutant: the layout is applied to whatever the window has become
Guard(j) == on /\ ~zoomed /\ View = jobs[j].view

\* select-layout; the hook sees it as any other change.
Apply(j) ==
    /\ jobs[j].pc = "computed"
    /\ LET done == [jobs EXCEPT ![j] = [@ EXCEPT !.pc = "done", !.view = <<>>, !.new = <<>>]]
           new == jobs[j].new
       IN  IF Guard(j) /\ Len(Leaves(new)) = Len(order)
           THEN /\ tree' = new /\ jobs' = done /\ UNCHANGED <<order, on, zoomed>>
                /\ cache' = (IF on THEN [sig |-> Sig(new, order, zoomed), tree |-> new, n |-> Len(order), zoomed |-> zoomed] ELSE Uncached)
           ELSE jobs' = done /\ UNCHANGED <<tmuxVars, cache>>
    /\ UNCHANGED <<status, bounds>>

Init ==
    /\ status \in {"off", "top", "bottom"}
    /\ tree = Pane(1, Width, Height) /\ order = <<1>> /\ on = TRUE /\ zoomed = FALSE
    /\ cache = [sig |-> Sig(tree, order, FALSE), tree |-> tree, n |-> 1, zoomed |-> FALSE]
    /\ jobs = <<>> /\ nsplit = 0 /\ nclose = 0 /\ nnudge = 0

Next ==
    \/ \E id \in Ids(tree) : Close(id) \/ \E k \in Kinds, last \in BOOLEAN : Split(id, k, last)
    \/ \E p \in Nodes(tree) : \E i \in DOMAIN p.kids : Nudge(p, i)
    \/ Zoom \/ Toggle
    \/ \E j \in DOMAIN jobs : Read(j) \/ Apply(j)
Spec == Init /\ [][Next]_dvars

----------------------------------------------------------------------------
\* A cell's children fill it, with one divider between two.
Tiles(t) ==
    \A n \in Nodes(t) :
      /\ n.w >= 1 /\ n.h >= 1
      /\ n.kind # "pane" =>
           LET k == n.kind across == IF k = "{" THEN "[" ELSE "{" m == Len(n.kids)
           IN  /\ m >= 2 /\ Dim(n, k) = Total([i \in 1..m |-> Dim(n.kids[i], k)]) + m - 1
               /\ \A i \in 1..m : Dim(n.kids[i], across) = Dim(n, across)

\* What a child's panes have to show: a status line takes a row at the edge.
Usable(t, c, k) ==
    LET box == {b \in Cells(t, 0, 0) : b.id \in Ids(c)}
    IN  Dim(c, k) - (IF /\ k = "["
                        /\ \/ status = "top" /\ \E b \in box : b.y = 0
                           \/ status = "bottom" /\ \E b \in box : b.y + b.h = Height
                     THEN 1 ELSE 0)

(* A layout the tool applies tiles the window with the same panes, moves   *)
(* no pane outside the split that lost one, and gives that split's         *)
(* children equal room, the last one but for the remainder: whatever was   *)
(* split, closed, resized or zoomed between the hook, the read and the     *)
(* apply.                                                                  *)
Evens(j) ==
    /\ Tiles(tree') /\ Leaves(tree') = order
    /\ \A id \in Ids(tree') \ jobs[j].group : Box(tree', id) = Box(tree, id)
    /\ \E q \in Nodes(tree') :
         /\ q.kind # "pane" /\ Ids(q) = jobs[j].group
         /\ \A a, b \in 1..(Len(q.kids) - 1) : Usable(tree', q.kids[a], q.kind) = Usable(tree', q.kids[b], q.kind)
         /\ LET d == Usable(tree', q.kids[Len(q.kids)], q.kind) - Usable(tree', q.kids[1], q.kind)
            IN  0 <= d /\ d < Len(q.kids)
AppliesEven == \A j \in DOMAIN jobs : tree' # tree /\ Apply(j) => Evens(j)
EvensOut == [][AppliesEven]_dvars
===============================================================================
