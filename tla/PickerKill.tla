----------------------------- MODULE PickerKill -----------------------------
(***************************************************************************)
(* The picker kills sessions of a remote host while probes of that host   *)
(* and refreshes of the local server are in flight: every read takes its  *)
(* snapshot at one time and lands at another, the probe also rewrites the *)
(* on-disk cache, and what a kill removed must not come back from any of  *)
(* them (src/picker/tui.go, remote.go, kill.go).                          *)
(*                                                                         *)
(* One host.  A tmux id names a session until the remote server restarts: *)
(* `born` is the #{session_created} that tells the holders of an id apart. *)
(***************************************************************************)
EXTENDS Naturals, FiniteSets, SequencesExt

CONSTANTS Names,        \* the names of the remote sessions
          Mirrored,     \* those of them a local mirror shows when the picker opens
          None,
          MaxProbes, MaxRefreshes, MaxRestarts, MaxKills   \* bounds

Ids == 1..Cardinality(Names)

VARIABLES remote,     \* the remote server: the name each id has, or None
          epoch,      \* its incarnation, the `created` of all its sessions
          mirror,     \* the sessions a local mirror shows
          cache,      \* the names in the host's cached listing
          rows,       \* remoteItems: [name, id, born]; a cached row has id 0
          hostIds,    \* the ids the host row carries, for mirrored rows
          known,      \* tuiModel.mirrors
          marked,     \* tuiModel.marked
          staged,     \* tuiModel.killConfirm
          batch,      \* the targets the kill run has left
          results,    \* what it did, [row, res]
          running,    \* "idle", "run" or "cancel"
          forgotten,  \* tuiModel.forgotten
          probes,     \* the probes: [at, bridges, list, items]
          read,       \* the refresh in flight: the mirrors it saw, or None
          hit,        \* ghost: [want, had] of every session a kill destroyed
          hidden,     \* ghost: the names a probe left out as already bridged
          restarts, refreshes, kills

vars == <<remote, epoch, mirror, cache, rows, hostIds, known, marked, staged, batch,
          results, running, forgotten, probes, read, hit, hidden, restarts, refreshes, kills>>

killVars == <<staged, batch, results, running, kills>>
listVars == <<rows, hostIds, known, marked, forgotten>>
worldVars == <<remote, epoch, mirror, hit, restarts>>
asyncVars == <<cache, probes, read, hidden, refreshes>>

Unasked == [at |-> "off", bridges |-> {}, list |-> {}, items |-> {}]

NamesOf(rs) == {r.name : r \in rs}

Listing == {[name |-> remote[i], id |-> i, born |-> epoch] : i \in {j \in Ids : remote[j] # None}}

(* pendingRemoteItems: the first paint lists the cache, with no ids.       *)
Cached(names) == {[name |-> n, id |-> 0, born |-> 0] : n \in names}

Init ==
  /\ epoch = 1 /\ remote \in {f \in [Ids -> Names] : IsInjective(f)}
  /\ mirror = Mirrored /\ known = {}
  /\ cache = Names /\ rows = Cached(Names \ Mirrored) /\ hostIds = {}
  /\ marked = {} /\ staged = {} /\ batch = {} /\ results = {} /\ running = "idle"
  /\ forgotten = {} /\ read = None /\ hit = {} /\ hidden = {}
  /\ probes = [p \in 1..MaxProbes |-> Unasked]
  /\ restarts = 0 /\ refreshes = 0 /\ kills = 0

-----------------------------------------------------------------------------
(* remoteCmd, at startup and after an ssh handshake: the bridges are read  *)
(* when the command starts ...                                             *)
ProbeAsk(p) ==
  /\ probes[p].at = "off" /\ (p > 1 => probes[p - 1].at # "off")
  /\ probes' = [probes EXCEPT ![p] = [Unasked EXCEPT !.at = "asked", !.bridges = mirror]]
  /\ UNCHANGED <<cache, read, hidden, refreshes, killVars, listVars, worldVars>>

(* ... the sessions when ssh answers, or never ...                         *)
ProbeAnswer(p, up) ==
  /\ probes[p].at = "asked"
  /\ probes' = [probes EXCEPT ![p].at = IF up THEN "listed" ELSE "down",
                              ![p].list = IF up THEN Listing ELSE {}]
  /\ UNCHANGED <<cache, read, hidden, refreshes, killVars, listVars, worldVars>>

(* ... and the goroutine saves the raw listing in the cache: no session at  *)
(* all is a server that is not running, a host that did not answer keeps    *)
(* its cached rows.  Sessions already bridged are left out of the items.    *)
ProbeWrite(p) ==
  LET pr == probes[p]
  IN  /\ pr.at \in {"listed", "down"}
      /\ cache' = IF pr.at = "listed" THEN NamesOf(pr.list) ELSE cache
      /\ probes' = [probes EXCEPT
           ![p].at = "ready",
           ![p].items = {r \in (IF pr.at = "listed" THEN pr.list ELSE Cached(cache)) :
                            r.name \notin pr.bridges}]
      /\ hidden' = hidden \cup pr.bridges
      /\ UNCHANGED <<read, refreshes, killVars, listVars, worldVars>>

(* Mutant: what a late probe lists is taken as it is.                      *)
DeadNone(items) == {}

(* filterForgottenRemoteRows: the probe may have listed, and cached, a      *)
(* session before its kill landed; drop its row and undo the cache write.   *)
Dead(items) == {r \in items : r.name \in forgotten}

(* remoteMsg.                                                              *)
ProbeMsg(p) ==
  LET pr == probes[p]
  IN  /\ pr.at = "ready"
      /\ rows' = pr.items \ Dead(pr.items)
      /\ cache' = cache \ NamesOf(Dead(pr.items))
      /\ hostIds' = pr.list
      /\ probes' = [probes EXCEPT ![p] = [Unasked EXCEPT !.at = "done"]]
      /\ UNCHANGED <<known, marked, forgotten, read, hidden, refreshes, killVars, worldVars>>

(* refreshDataCmd lists the local mirrors; refreshMsg lands later.         *)
RefreshRead ==
  /\ read = None /\ refreshes < MaxRefreshes
  /\ refreshes' = refreshes + 1 /\ read' = mirror
  /\ UNCHANGED <<cache, probes, hidden, killVars, listVars, worldVars>>

FilterMirrors(ms) == ms \ forgotten

RefreshMsg ==
  /\ read # None
  /\ known' = FilterMirrors(read) /\ read' = None
  /\ UNCHANGED <<cache, probes, hidden, refreshes, rows, hostIds, marked, forgotten,
                 killVars, worldVars>>

(* The remote server restarts: its sessions are new ones, under ids that    *)
(* other sessions held.                                                    *)
Restart ==
  /\ restarts < MaxRestarts
  /\ restarts' = restarts + 1 /\ epoch' = epoch + 1
  /\ remote' \in {f \in [Ids -> Names \cup {None}] :
                    \A i, j \in Ids : (i # j /\ f[i] # None) => f[i] # f[j]}
  /\ UNCHANGED <<mirror, hit, asyncVars, killVars, listVars>>

(* The mirror of a session that is gone, or whose daemon was told to stop,  *)
(* closes in its own time.                                                 *)
MirrorCloses(n) ==
  /\ n \in mirror /\ (n \in forgotten \/ n \notin Range(remote))
  /\ mirror' = mirror \ {n}
  /\ UNCHANGED <<remote, epoch, hit, restarts, asyncVars, killVars, listVars>>

-----------------------------------------------------------------------------
(* The rows a host scope shows: the remote rows, and a row for every known  *)
(* mirror that is not among them, with the ids its host row carries.        *)
Shown == rows \cup
  {IF n \in NamesOf(hostIds) THEN CHOOSE r \in hostIds : r.name = n
   ELSE [name |-> n, id |-> 0, born |-> 0] : n \in known \ NamesOf(rows)}

Idle == running = "idle" /\ staged = {}

(* ^t: marks are kept by name, so one outlives the rows it was set on.     *)
Mark(r) ==
  /\ Idle /\ r \in rows /\ kills = 0
  /\ marked' = IF r.name \in marked THEN marked \ {r.name} ELSE marked \cup {r.name}
  /\ UNCHANGED <<rows, hostIds, known, forgotten, asyncVars, killVars, worldVars>>

(* ^x stages the marked rows, else the selected one; a row no probe has     *)
(* answered for carries no id and stages nothing.                          *)
Targets(r) == LET ms == {x \in rows : x.name \in marked} IN IF ms = {} THEN {r} ELSE ms

Stage(r) ==
  /\ Idle /\ r \in Shown /\ kills < MaxKills
  /\ \A t \in Targets(r) : t.id # 0
  /\ staged' = Targets(r) /\ kills' = kills + 1
  /\ UNCHANGED <<batch, results, running, asyncVars, listVars, worldVars>>

(* handleKillConfirm: only y acts, on the rows the prompt named; every key  *)
(* but that one cancels.  Messages go on landing under the prompt.         *)
Answer(yes) ==
  /\ staged # {}
  /\ staged' = {}
  /\ IF yes THEN batch' = staged /\ running' = "run" ELSE UNCHANGED <<batch, running>>
  /\ UNCHANGED <<results, kills, asyncVars, listVars, worldVars>>

(* esc or ^c while the batch runs.                                         *)
Cancel ==
  /\ running = "run" /\ running' = "cancel"
  /\ UNCHANGED <<staged, batch, results, kills, asyncVars, listVars, worldVars>>

(* The script on the host kills the id only if its holder was created when  *)
(* the probe says: an id that changed hands is refused, as a session gone.  *)
Refused(t) == remote[t.id] = None \/ epoch # t.born

(* One ssh of the batch: it may be lost on the way there or back, and a     *)
(* cancel turns any answer but success into "cancelled".                   *)
Kill(t, lost) ==
  LET lands == ~Refused(t) /\ lost # "there"
      res == IF lands /\ lost = "no" THEN "ok"
             ELSE IF running = "cancel" THEN "cancelled"
             ELSE IF lost # "no" THEN "unreachable" ELSE "gone"
  IN  /\ running # "idle" /\ t \in batch
      /\ ~(running = "cancel" /\ results = {})
      /\ batch' = IF running = "cancel" THEN {} ELSE batch \ {t}
      /\ results' = results \cup {[row |-> t, res |-> res]}
      /\ IF lands
         THEN /\ remote' = [remote EXCEPT ![t.id] = None]
              /\ hit' = hit \cup {[want |-> t, had |-> remote[t.id]]}
         ELSE UNCHANGED <<remote, hit>>
      /\ UNCHANGED <<epoch, mirror, restarts, staged, running, kills, asyncVars, listVars>>

(* A batch that was cancelled before its next target stops there.          *)
StopBatch ==
  /\ running = "cancel" /\ batch # {} /\ batch' = {}
  /\ UNCHANGED <<staged, results, running, kills, asyncVars, listVars, worldVars>>

(* finishKill and forgetRemoteRows: what was killed or already gone leaves  *)
(* the rows, the marks, the mirrors and the cache at once.                 *)
Ended == {x.row.name : x \in {y \in results : y.res \in {"ok", "gone"}}}

FinishKill ==
  /\ running # "idle" /\ batch = {}
  /\ forgotten' = forgotten \cup Ended
  /\ rows' = {r \in rows : r.name \notin Ended}
  /\ known' = known \ Ended
  /\ marked' = marked \ Ended
  /\ cache' = cache \ Ended
  /\ results' = {} /\ running' = "idle"
  /\ UNCHANGED <<hostIds, staged, batch, kills, probes, read, hidden, refreshes, worldVars>>

Next ==
  \/ \E p \in 1..MaxProbes : ProbeAsk(p) \/ (\E up \in BOOLEAN : ProbeAnswer(p, up))
                             \/ ProbeWrite(p) \/ ProbeMsg(p)
  \/ RefreshRead
  \/ RefreshMsg
  \/ Restart
  \/ \E n \in Names : MirrorCloses(n)
  \/ \E r \in rows : Mark(r)
  \/ \E r \in Shown : Stage(r)
  \/ \E yes \in BOOLEAN : Answer(yes)
  \/ Cancel
  \/ \E t \in batch, lost \in {"no", "there", "back"} : Kill(t, lost)
  \/ StopBatch
  \/ FinishKill

Spec == Init /\ [][Next]_vars

-----------------------------------------------------------------------------
Landing == \E p \in DOMAIN probes : probes[p].at \in {"asked", "listed", "down", "ready"}

(* A kill destroys only the session instance whose row the user confirmed,  *)
(* though ids change hands under the prompt; and what a kill ended stays    *)
(* gone: no probe, refresh or cache that read the host before the kill and  *)
(* lands after it brings the session back to the list, the mirrors or the   *)
(* marks, nor, once the probes have landed, to the cache of a session that  *)
(* no probe left out as bridged.                                           *)
KilledStaysGone ==
  /\ \A h \in hit : h.had = h.want.name
  /\ forgotten \cap (NamesOf(rows) \cup known \cup marked) = {}
  /\ ~Landing => (forgotten \ hidden) \cap cache = {}

(* forgotten "re-forgets the cache it may have rewritten" (tui.go:131-135): *)
(* once the probes have landed the cache names nothing that was killed.     *)
CacheForgets == ~Landing => forgotten \cap cache = {}

-----------------------------------------------------------------------------
(* Why KilledStaysGone holds.  A row the picker holds, in a list, a probe   *)
(* or a batch, names what its id names while the remote is of its age       *)
(* (Faithful); a forgotten name is listed nowhere (Absent), and in the      *)
(* cache only while a probe that will undo its write has yet to land        *)
(* (Undone).                                                                *)
Rows == [name : Names, id : Nat, born : Nat]
Probe == [at : {"off", "asked", "listed", "down", "ready", "done"}, bridges : SUBSET Names, list : SUBSET Rows, items : SUBSET Rows]
Typed ==
  /\ epoch \in Nat /\ remote \in [Ids -> Names \cup {None}]
  /\ cache \in SUBSET Names /\ mirror \in SUBSET Names /\ known \in SUBSET Names
  /\ read \in {None} \cup SUBSET Names
  /\ rows \in SUBSET Rows /\ hostIds \in SUBSET Rows
  /\ staged \in SUBSET Rows /\ batch \in SUBSET Rows
  /\ probes \in [1..MaxProbes -> Probe]

Right(t) == t.id # 0 => /\ t.id \in Ids /\ t.born <= epoch
                        /\ t.born = epoch => remote[t.id] \in {t.name, None}
Faithful ==
  /\ \A t \in rows \cup hostIds \cup staged \cup batch : Right(t)
  /\ \A t \in staged \cup batch : t.id # 0
  /\ \A p \in 1..MaxProbes : \A t \in probes[p].list \cup probes[p].items : Right(t)
Hits == \A h \in hit : h.had = h.want.name

Absent == forgotten \cap (NamesOf(rows) \cup known \cup marked) = {}
Undone == \A n \in (forgotten \ hidden) \cap cache : \E p \in 1..MaxProbes :
            probes[p].at = "ready" /\ n \in NamesOf(probes[p].items)

IInv == Typed /\ Faithful /\ Hits /\ Absent /\ Undone
=============================================================================
