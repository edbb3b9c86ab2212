----------------------------- MODULE PickerView -----------------------------
(***************************************************************************)
(* The picker's view of the panes: a list of rows rebuilt whenever an     *)
(* asynchronous read lands, a selection kept as an index into it, the wall *)
(* that tiles the rows page by page and captures them in one batched tmux *)
(* call, the keys relayed to the focused tile, and the preview of the     *)
(* selected row behind its throttle (src/picker/tui.go, capture.go).      *)
(*                                                                         *)
(* Window mode is modelled (the wall's own mode).  A row is a pane or the *)
(* header Title, which no selection may rest on.  Every command of the     *)
(* picker runs in a goroutine of its own, so its message lands any time.  *)
(***************************************************************************)
EXTENDS Naturals, FiniteSets, SequencesExt

CONSTANTS Panes,        \* the panes of the local server
          Title,         \* a row that is only a title
          None,         \* no pane, no message
          MaxKeys, MaxRebuilds, MaxDeaths, MaxBatches   \* bounds

Rows == Panes \cup {Title}

VARIABLES alive,     \* the panes tmux has
          list,      \* tuiModel.visible
          cursor,    \* tuiModel.cursor; 0 when nothing is selected
          mode,      \* "list" or "wall"
          perPage,   \* the tiles a page holds, from the terminal's size
          page,      \* wallPage, from 0
          focused,   \* keystrokes relay to the tile under the cursor
          aim,       \* ghost: the row the user last moved to, while it is listed
          read,      \* the refresh in flight: the list it read, or None
          batch,     \* the capture in flight: the targets asked for, or None
          bad,       \* wallBad: the targets a capture was refused for
          gate,      \* previewThrottle.latest
          asks,      \* preview captures in flight, [no, of, run]
          shown,     \* previewFor
          keys, rebuilds, deaths, batches   \* counters

vars == <<alive, list, cursor, mode, perPage, page, focused, aim, read, batch,
          bad, gate, asks, shown, keys, rebuilds, deaths, batches>>

wallVars == <<batch, bad, batches>>
previewVars == <<gate, asks, shown>>

-----------------------------------------------------------------------------
Selectable(l, i) == i \in DOMAIN l /\ l[i] # Title

FirstSelectable(l) == LET on == {i \in DOMAIN l : Selectable(l, i)}
                      IN  IF on = {} THEN 0 ELSE CHOOSE i \in on : \A j \in on : i <= j

RowAt(l, i) == IF i \in DOMAIN l THEN l[i] ELSE None

currentTarget == RowAt(list, cursor)

IndexOf(l, row) == IF row \in Range(l) THEN CHOOSE i \in DOMAIN l : l[i] = row ELSE 0

(* The numbers of a set, in their order.                                   *)
InOrder(s) == [k \in 1..Cardinality(s) |->
                 CHOOSE i \in s : Cardinality({j \in s : j < i}) = k - 1]

Tiles(l) == InOrder({i \in DOMAIN l : l[i] # Title})

(* The tile at or after the cursor, where a filter that moves the list     *)
(* under the selection snaps it.                                           *)
TilePos(tiles, at) == LET after == {i \in DOMAIN tiles : tiles[i] >= at}
                      IN  IF after = {} THEN Len(tiles)
                          ELSE CHOOSE i \in after : \A j \in after : i <= j

(* The selection and the page of a rebuilt list: the row that was selected *)
(* is found again by its target, never by its number.                      *)
SnapWallTo(l, at, keep, pp) ==
  LET tiles == Tiles(l)
      pos == IF keep \in Range(l) THEN IndexOf(tiles, IndexOf(l, keep)) ELSE TilePos(tiles, at)
  IN  IF tiles = <<>> THEN [cursor |-> at, page |-> 0]
      ELSE [cursor |-> tiles[pos], page |-> (pos - 1) \div pp]

(* Mutant: the number of the row is kept, not the row.                     *)
RestoreIndex(l, at, keep) == IF Selectable(l, at) THEN at ELSE FirstSelectable(l)

(* The same for the list: a row that went lands on its neighbour.          *)
RestoreCursor(l, at, keep) ==
  LET kept == IF keep \in Range(l) THEN IndexOf(l, keep)
              ELSE IF keep = None \/ l = <<>> THEN at
              ELSE IF at <= Len(l) THEN at ELSE Len(l)
  IN  IF Selectable(l, kept) THEN kept ELSE FirstSelectable(l)

Place(l, at, keep, pp) ==
  LET c == IF mode = "wall" THEN at ELSE RestoreCursor(l, at, keep)
      s == IF Selectable(l, c) THEN c ELSE FirstSelectable(l)
  IN  IF mode = "wall" THEN SnapWallTo(l, s, keep, pp) ELSE [cursor |-> s, page |-> page]

-----------------------------------------------------------------------------
(* A list of the panes in s, in the order of their sessions' activity.     *)
Listings(s) == {<<Title>> \o l : l \in SetToSeqs(s)}

Init ==
  /\ alive = Panes
  /\ list \in Listings(Panes)
  /\ mode \in {"list", "wall"}
  /\ cursor = 2 /\ aim = list[2]
  /\ perPage = 1 /\ page = 0 /\ focused = FALSE
  /\ read = None /\ batch = None /\ bad = {}
  /\ gate = 1 /\ shown = None
  /\ asks = IF mode = "wall" THEN {} ELSE {[no |-> 1, of |-> list[2], run |-> FALSE]}
  /\ keys = 0 /\ rebuilds = 0 /\ deaths = 0 /\ batches = 0

(* loadPreviewCmd: the next ticket for the row now selected.               *)
LoadPreview(row) ==
  IF mode = "wall" THEN UNCHANGED <<gate, asks>>
  ELSE /\ gate' = gate + 1
       /\ asks' = asks \cup {[no |-> gate + 1, of |-> row, run |-> FALSE]}

(* A key that moves the selection: a row of the list, or a tile.  An arrow *)
(* moves it under the focus too, and the keys then go to the new tile.     *)
Move(i) ==
  /\ keys < MaxKeys /\ Selectable(list, i) /\ i # cursor
  /\ keys' = keys + 1
  /\ cursor' = i /\ aim' = list[i]
  /\ page' = IF mode = "wall" THEN (IndexOf(Tiles(list), i) - 1) \div perPage ELSE page
  /\ LoadPreview(list[i])
  /\ UNCHANGED <<alive, list, mode, perPage, focused, read, shown, rebuilds, deaths, wallVars>>

(* tab focuses the tile under the cursor, esc leaves it.                   *)
Focus ==
  /\ mode = "wall" /\ keys < MaxKeys /\ currentTarget \in Panes
  /\ keys' = keys + 1 /\ focused' = ~focused
  /\ UNCHANGED <<alive, list, cursor, mode, perPage, page, aim, read, rebuilds, deaths,
                 wallVars, previewVars>>

(* ^/ between the wall and the list inside one popup.                      *)
Toggle ==
  /\ keys < MaxKeys /\ keys' = keys + 1
  /\ mode' = IF mode = "wall" THEN "list" ELSE "wall"
  /\ focused' = FALSE
  /\ IF mode = "list"
     THEN LET s == SnapWallTo(list, cursor, None, perPage)
          IN  cursor' = s.cursor /\ page' = s.page /\ UNCHANGED <<gate, asks>>
     ELSE /\ UNCHANGED <<cursor, page>>
          /\ gate' = gate + 1
          /\ asks' = asks \cup {[no |-> gate + 1, of |-> currentTarget, run |-> FALSE]}
  /\ UNCHANGED <<alive, list, perPage, aim, read, shown, rebuilds, deaths, wallVars>>

(* The terminal changed size, so a page holds another number of tiles.     *)
Resize ==
  /\ keys < MaxKeys /\ keys' = keys + 1
  /\ perPage' = 3 - perPage
  /\ LET s == SnapWallTo(list, cursor, None, perPage')
     IN  IF mode = "wall" THEN cursor' = s.cursor /\ page' = s.page
         ELSE UNCHANGED <<cursor, page>>
  /\ LoadPreview(currentTarget)
  /\ UNCHANGED <<alive, list, mode, focused, aim, read, shown, rebuilds, deaths, wallVars>>

(* A pane closes.                                                          *)
Die(p) ==
  /\ deaths < MaxDeaths /\ p \in alive
  /\ alive' = alive \ {p} /\ deaths' = deaths + 1
  /\ UNCHANGED <<list, cursor, mode, perPage, page, focused, aim, read, keys, rebuilds,
                 wallVars, previewVars>>

(* refreshDataCmd reads the panes, in whatever order their sessions' last  *)
(* activity puts them ...                                                  *)
RefreshRead ==
  /\ rebuilds < MaxRebuilds /\ read = None
  /\ rebuilds' = rebuilds + 1
  /\ read' \in Listings(alive)
  /\ UNCHANGED <<alive, list, cursor, mode, perPage, page, focused, aim, keys, deaths,
                 wallVars, previewVars>>

(* ... and refreshMsg rebuilds the rows from what it read, later.          *)
RefreshMsg ==
  /\ read # None
  /\ LET s == Place(read, cursor, currentTarget, perPage)
     IN  cursor' = s.cursor /\ page' = s.page
  /\ list' = read /\ read' = None
  /\ aim' = IF aim \in Range(read) THEN aim ELSE None
  /\ UNCHANGED <<alive, mode, perPage, focused, keys, rebuilds, deaths, wallVars,
                 previewVars>>

-----------------------------------------------------------------------------
(* captureWallCmd: the page's tiles, without those a batch died on.        *)
WallPageTargets ==
  LET tiles == Tiles(list)
      on == {k \in DOMAIN tiles : /\ page * perPage < k /\ k <= (page + 1) * perPage
                                  /\ list[tiles[k]] \notin bad}
      order == InOrder(on)
  IN  [k \in DOMAIN order |-> list[tiles[order[k]]]]

Capture ==
  /\ mode = "wall" /\ batch = None /\ batches < MaxBatches /\ WallPageTargets # <<>>
  /\ batch' = WallPageTargets /\ batches' = batches + 1
  /\ UNCHANGED <<alive, list, cursor, mode, perPage, page, focused, aim, read, bad, keys,
                 rebuilds, deaths, previewVars>>

(* The first target of a batch that tmux cannot find: it aborts there, so  *)
(* the sections already printed count the targets before it.               *)
Offender(targets) ==
  LET gone == {i \in DOMAIN targets : targets[i] \notin alive}
  IN  IF gone = {} THEN None ELSE targets[CHOOSE i \in gone : \A j \in gone : i <= j]

(* Only a "can't find" is blamed on a target: a batch that timed out or hit *)
(* a busy server (transient) names none.                                   *)
Blamed(targets, transient) == IF transient THEN None ELSE Offender(targets)

(* mergeWall: what the batch learnt, pruned to the rows still listed.      *)
WallMsg(transient) ==
  /\ batch # None
  /\ bad' = (bad \cup ({Blamed(batch, transient)} \ {None})) \cap Range(list)
  /\ batch' = None
  /\ UNCHANGED <<alive, list, cursor, mode, perPage, page, focused, aim, read, keys,
                 rebuilds, deaths, batches, previewVars>>

-----------------------------------------------------------------------------
(* admit: a capture that a newer request overtook gives up, the newest runs *)
(* once the gap since the last one has passed.                             *)
Admit(a) ==
  /\ a \in asks /\ ~a.run
  /\ asks' = IF a.no = gate THEN (asks \ {a}) \cup {[a EXCEPT !.run = TRUE]} ELSE asks \ {a}
  /\ UNCHANGED <<alive, list, cursor, mode, perPage, page, focused, aim, read, gate, shown,
                 keys, rebuilds, deaths, wallVars>>

(* Mutant: a preview is shown whatever the selection has become.           *)
WantedAlways(row) == TRUE

(* previewMsg is shown only while its row is the selected one.             *)
Wanted(row) == row = currentTarget

PreviewMsg(a) ==
  /\ a \in asks /\ a.run
  /\ shown' = IF Wanted(a.of) THEN a.of ELSE shown
  /\ asks' = asks \ {a}
  /\ UNCHANGED <<alive, list, cursor, mode, perPage, page, focused, aim, read, gate, keys,
                 rebuilds, deaths, wallVars>>

Previews == \E a \in asks : Admit(a) \/ PreviewMsg(a)

Next ==
  \/ \E i \in 1..(Cardinality(Panes) + 1) : Move(i)
  \/ Focus
  \/ Toggle
  \/ Resize
  \/ \E p \in Panes : Die(p)
  \/ RefreshRead
  \/ RefreshMsg
  \/ Capture
  \/ \E transient \in BOOLEAN : WallMsg(transient)
  \/ Previews

Spec == Init /\ [][Next]_vars

(* bubbletea runs every command it is given and delivers its message.      *)
FairSpec == Spec /\ WF_vars(Previews)

-----------------------------------------------------------------------------
(* The selection follows the row the user chose, however often and in      *)
(* whatever order the rows are rebuilt under it, until that row goes: the   *)
(* next ^x, enter or relayed key reaches what the user sees highlighted.    *)
(* The page shows the selection, no title is ever selected, and the wall   *)
(* gives up only on panes that are gone.                                   *)
ViewHonest ==
  /\ aim # None => currentTarget = aim
  /\ cursor # 0 => Selectable(list, cursor)
  /\ (mode = "wall" /\ cursor # 0) =>
        (IndexOf(Tiles(list), cursor) - 1) \div perPage = page
  /\ bad \cap alive = {}

(* A scroll through the list always ends with the preview of the row it    *)
(* stopped on: once the previews asked for have landed, and no rebuild has *)
(* moved the selection since, the row shown is the row selected.           *)
PreviewSettles == (asks = {} /\ rebuilds = 0 /\ mode = "list") => shown = currentTarget

-----------------------------------------------------------------------------
(* What the steps preserve.  A list starts with its title and has no other  *)
(* (Laid); without that a tile's place would not tell its row.  The newest  *)
(* capture is of the selected row until it lands, and no two captures have  *)
(* one ticket (Asked): a landed one can only be overtaken by a newer.       *)
Listed(l) == \E n \in Nat : /\ l \in [1..(n + 1) -> Rows] /\ l[1] = Title
                             /\ \A i \in 2..(n + 1) : l[i] \in Panes

Laid ==
  /\ alive \subseteq Panes /\ Listed(list) /\ (read # None => Listed(read))
  /\ batch # None => \E n \in Nat : DOMAIN batch = 1..n
  /\ cursor \in Nat /\ aim \in Panes \cup {None} /\ mode \in {"list", "wall"}

Asked ==
  /\ gate \in Nat /\ rebuilds \in Nat /\ (rebuilds = 0 => read = None)
  /\ asks \subseteq [no : 0..gate, of : Rows \cup {None}, run : BOOLEAN]
  /\ \A a, b \in asks : a.no = b.no => a = b
  /\ (rebuilds = 0 /\ mode = "list") =>
        shown = currentTarget \/ \E a \in asks : a.no = gate /\ a.of = currentTarget

IInv == Laid /\ ViewHonest /\ Asked

=============================================================================
