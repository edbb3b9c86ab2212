------------------------------ MODULE SizeOwner ------------------------------
(***************************************************************************)
(* Which of several controllers sizes the windows of one remote session    *)
(* (sizeowner.go, with the env slot of relayenv.go that moves with it).    *)
(*                                                                         *)
(* Every daemon holds a control client on the session.  The record of the  *)
(* owner is an option of the remote session; the owner's client counts in  *)
(* the size calculation and every other control client carries             *)
(* ignore-size.  A daemon's commands wait in a queue per client and the    *)
(* remote executes them one at a time, so the batches of two daemons       *)
(* interleave; its notifications wait in a queue per client too, so a      *)
(* daemon that slept reads old news.                                       *)
(*                                                                         *)
(* Bounds: MaxGen clients per daemon (first dial, reattaches, warm         *)
(* replacements); MaxEvents starts, user actions, changes of a terminal,   *)
(* lost or replaced clients and endings in all; a report waits      *)
(* while MaxNews notifications do, which only delays tmux's tick.          *)
(***************************************************************************)
EXTENDS Naturals, Sequences, FiniteSets, SequencesExt

CONSTANTS Daemons, None, Asked, MaxGen, MaxEvents, MaxNews,
          Endings,    \* whether a daemon may end, cleanly or killed
          TickMisses  \* whether a value that moved and moved back goes unreported

VARIABLES
    rec,      \* @og_bridge_owner: None or [tok, cl]
    env,      \* the published relay value: None or <<whose, which>>
    att,      \* control clients on the session
    flg,      \* those with ignore-size
    sized,    \* the unflagged clients at the last recalculation
    told,     \* client -> last og_self reported to it, None before the first
    queue,    \* client -> commands written and not executed
    notes,    \* client -> notifications not dispatched
    reply,    \* daemon -> the answer of its outstanding read, or None
    cur,      \* daemon -> its current client's number, 0 for none
    gen,      \* daemon -> clients it has used
    pc,       \* daemon -> where its main loop is
    st,       \* daemon -> the read and the view a write is about to use
    belief,   \* ownerToken and ownerClient
    before, wanted, held, taken, members,
    asserted, \* a client size is recorded in the converger
    view,     \* the local terminal's capability
    events    \* disturbances so far

remote == <<rec, env, att, flg, sized>>
mind   == <<belief, before, wanted, held, taken, members, asserted>>
flow   == <<cur, gen, pc, st>>
world  == <<view, events>>
vars   == <<remote, told, queue, notes, reply, flow, mind, world>>

Clients == Daemons \X (1..MaxGen)
Mine(d) == <<d, cur[d]>>
Own(d, r) == r # None /\ r.tok = d
Foreign(d, r) == r # None /\ r.tok # d     \* foreignOwner
Tell(S, n) == notes' = [c \in Clients |-> IF c \in S THEN Append(notes[c], n) ELSE notes[c]]
\* A disturbance spends n of the bound: a lost or replaced client spends two.
Disturbed(n) == events + n <= MaxEvents /\ events' = events + n
Send(c, cmds) == queue' = [queue EXCEPT ![c] = IF cmds = <<>> THEN @ ELSE Append(@, cmds)]

Size       == [op |-> "size"]
Record     == [op |-> "record"]
Flag(c, on) == [op |-> "flag", who |-> c, on |-> on]
Publish(d, v, guarded) == [op |-> "env", val |-> <<d, v>>, guarded |-> guarded]
Release(r, val) == [op |-> "release", old |-> r, val |-> val]
Relinquish == [op |-> "relinquish"]
Unset(n)   == [op |-> "unset", attached |-> n]
Recalc(d)  == IF asserted[d] THEN <<Size>> ELSE <<>>
FlagAll(S) == LET f[T \in SUBSET S] ==
                    IF T = {} THEN <<>>
                    ELSE LET c == CHOOSE x \in T : TRUE IN <<Flag(c, TRUE)>> \o f[T \ {c}]
              IN f[S]

\* Nothing runs yet, or the daemons of S do and one of them, o, owns.
Begun(S, o) ==
    LET on == {<<d, 1>> : d \in S}
        owner == IF S = {} THEN None ELSE [tok |-> o, cl |-> <<o, 1>>]
    IN
    /\ rec = owner /\ env = IF S = {} THEN None ELSE <<o, 0>>
    /\ att = on /\ flg = on \ {<<o, 1>>} /\ sized = on \ flg
    /\ told = [c \in Clients |-> IF c \in on THEN [flagged |-> c \in flg, rec |-> rec] ELSE None]
    /\ queue = [c \in Clients |-> <<>>] /\ notes = [c \in Clients |-> <<>>]
    /\ reply = [d \in Daemons |-> None] /\ st = [d \in Daemons |-> None]
    /\ cur = [d \in Daemons |-> IF d \in S THEN 1 ELSE 0] /\ gen = cur
    /\ pc = [d \in Daemons |-> IF d \in S THEN "idle" ELSE "off"]
    /\ belief = [d \in Daemons |-> IF d \in S THEN owner ELSE None]
    /\ before = [d \in Daemons |-> d \in S /\ d = o]
    /\ wanted = [d \in Daemons |-> FALSE]
    /\ held = [d \in Daemons |-> None] /\ taken = [d \in Daemons |-> None]
    /\ members = [d \in Daemons |-> IF d \in S THEN on \ {<<d, 1>>} ELSE {}]
    /\ asserted = [d \in Daemons |-> d \in S]
    /\ view = [d \in Daemons |-> 0] /\ events = 0

\* The daemons are interchangeable: one of them stands for the first owner.
Init == LET o == CHOOSE d \in Daemons : TRUE
        IN  Begun({}, o) \/ Begun({o}, o) \/ Begun(Daemons, o)

----------------------------------------------------------------------------
(* The remote server.                                                      *)

\* The release command's condition: the record is still the one that was held.
StillRecordedUnchecked(R, cmd) == TRUE
StillRecordedMine(R, cmd) == Own(cmd.val[1], R.rec)
StillRecorded(R, cmd) == R.rec = cmd.old

\* The effect of one command of client c on the session R.
Effect(R, c, cmd) ==
    CASE cmd.op = "record" -> [R EXCEPT !.rec = [tok |-> c[1], cl |-> c]]
      [] cmd.op = "env" ->
            IF cmd.guarded => R.rec = None \/ R.rec.tok = c[1]     \* relayOwnedCond
            THEN [R EXCEPT !.env = cmd.val] ELSE R
      [] cmd.op = "flag" ->
            [R EXCEPT !.flg = IF cmd.on THEN @ \union ({cmd.who} \intersect (att \union {c}))
                              ELSE @ \ {cmd.who}]
      [] cmd.op = "size" -> [R EXCEPT !.sized = IF att \subseteq R.flg THEN @ ELSE att \ R.flg]
      [] cmd.op = "release" ->
            IF StillRecorded(R, cmd) THEN [R EXCEPT !.rec = None, !.env = cmd.val] ELSE R
      [] cmd.op = "relinquish" -> IF Own(c[1], R.rec) THEN [R EXCEPT !.env = None] ELSE R
      [] cmd.op = "unset" -> IF Cardinality(att) = cmd.attached THEN [R EXCEPT !.env = None] ELSE R

InUse(c) == c[2] = cur[c[1]] \/ (pc[c[1]] \in {"prime", "primed"} /\ c[2] = gen[c[1]])

\* One write of a client: its commands run one after the other.
Exec(c) ==
    /\ queue[c] # <<>>
    /\ queue' = [queue EXCEPT ![c] = Tail(@)]
    /\ LET R == FoldLeft(LAMBDA r, cmd : Effect(r, c, cmd),
                         [rec |-> rec, env |-> env, flg |-> flg, sized |-> sized], Head(queue[c]))
       IN rec' = R.rec /\ env' = R.env /\ flg' = R.flg /\ sized' = R.sized
    /\ told' = [x \in Clients |->
                  IF ~TickMisses /\ (rec' # rec \/ (x \in flg) # (x \in flg')) THEN None ELSE told[x]]
    /\ UNCHANGED <<att, notes, reply, flow, mind, world>>

\* ownerReadCmd and sessionClientsCmd, answered in one batch.
ExecRead(c) ==
    /\ queue[c] = <<>> /\ InUse(c) /\ reply[c[1]] = Asked
    /\ (pc[c[1]] = "prime") = (c[2] # cur[c[1]])
    /\ reply' = [reply EXCEPT ![c[1]] = [rec |-> rec, flagged |-> c \in flg,
                                         others |-> att \ {c}, loud |-> (att \ {c}) \ flg]]
    /\ UNCHANGED <<remote, told, queue, notes, flow, mind, world>>

\* tmux reports a subscribed format to a client when its value has moved.
Report(c) ==
    LET r == [flagged |-> c \in flg, rec |-> rec] IN
    /\ c \in att /\ InUse(c) /\ told[c] # r /\ Len(notes[c]) < MaxNews
    /\ told' = [told EXCEPT ![c] = r]
    /\ Tell({c}, [kind |-> "report", r |-> r])
    /\ UNCHANGED <<remote, queue, reply, flow, mind, world>>

\* The server notices that a client its daemon has left is gone.
Gone(c) ==
    /\ c \in att /\ ~InUse(c)
    /\ att' = att \ {c} /\ flg' = flg \ {c}
    /\ queue' = [queue EXCEPT ![c] = <<>>]
    /\ Tell(att \ {c}, [kind |-> "detached", c |-> c])
    /\ UNCHANGED <<rec, env, sized, told, reply, flow, mind, world>>

----------------------------------------------------------------------------
(* A daemon's own view of the race.                                        *)

\* setOwnerLocked: what a report or a read says of the owner.
SetOwner(d, r) ==
    /\ belief' = [belief EXCEPT ![d] = r]
    /\ before' = [before EXCEPT ![d] = @ /\ ~Foreign(d, r)]
    /\ held' = [held EXCEPT ![d] = IF @ = r THEN @ ELSE None]

\* A round trip: one read of the record and the clients.
Ask(d, why) ==
    /\ pc' = [pc EXCEPT ![d] = why]
    /\ reply' = [reply EXCEPT ![d] = Asked]
    /\ UNCHANGED queue

\* A fresh client on the session, announced to the others, then one read.
Dial(d, why, n) ==
    /\ gen' = [gen EXCEPT ![d] = n]
    /\ att' = att \union {<<d, n>>}
    /\ Tell(att, [kind |-> "attached", c |-> <<d, n>>])
    /\ Ask(d, why)
    /\ UNCHANGED <<rec, env, flg, sized, told, st, mind, view>>

\* A process start is the user acting; a re-open after a replaced server is not.
Start(d) ==
    /\ pc[d] = "off" /\ MaxGen > 0 /\ Disturbed(1)
    /\ cur' = [cur EXCEPT ![d] = 1]
    /\ \E why \in {"claim", "reopen"} : Dial(d, why, 1)

Reattach(d) ==
    /\ pc[d] = "down"
    /\ cur' = [cur EXCEPT ![d] = gen[d] + 1]
    /\ Dial(d, "reconnect", gen[d] + 1)
    /\ UNCHANGED events

\* Whether the daemon claims on this answer, and whether it flags itself.
Claims(d, r) ==
    CASE pc[d] = "claim" -> TRUE
      [] pc[d] = "stale" -> ~(Own(d, r.rec) /\ ~r.flagged)
      [] pc[d] = "reconnect" -> Own(d, r.rec) \/ (r.rec = None /\ before[d])
      [] pc[d] = "reopen" -> Own(d, r.rec) \/ (r.rec = None /\ r.others = {})
      [] OTHER -> FALSE

Startup == {"claim", "reopen", "reconnect"}
After(why) == IF why \in Startup THEN "assert" ELSE "idle"

\* read(): every answer refreshes the membership and the believed owner.
Answered(d) ==
    /\ reply[d] \notin {None, Asked}
    /\ reply' = [reply EXCEPT ![d] = None]
    /\ members' = [members EXCEPT ![d] = reply[d].others]
    /\ SetOwner(d, reply[d].rec)
    /\ UNCHANGED <<remote, told, notes, cur, gen, wanted, asserted, world>>

\* claimWith reads the view it will publish before it sends the batch.
AnswerClaim(d) ==
    /\ pc[d] \in Startup \union {"stale"}
    /\ Answered(d) /\ Claims(d, reply[d])
    /\ st' = [st EXCEPT ![d] = [why |-> pc[d], r |-> reply[d], seen |-> view[d]]]
    /\ pc' = [pc EXCEPT ![d] = "claiming"]
    /\ UNCHANGED <<queue, taken>>

AnswerPass(d) ==
    /\ pc[d] \in Startup \union {"stale"}
    /\ Answered(d) /\ ~Claims(d, reply[d])
    /\ Send(Mine(d), IF pc[d] \in {"reconnect", "reopen"} /\ Foreign(d, reply[d].rec)
                     THEN <<Flag(Mine(d), TRUE)>> \o Recalc(d) ELSE <<>>)
    /\ pc' = [pc EXCEPT ![d] = After(@)]
    /\ UNCHANGED <<st, taken>>

CatchUpNever(d) == <<>>
CatchUp(d) == IF view[d] # st[d].seen THEN <<Publish(d, view[d], TRUE)>> ELSE <<>>

ClaimBatch(d) ==
    <<Record, Publish(d, st[d].seen, TRUE), Flag(Mine(d), FALSE)>>
    \o FlagAll(st[d].r.loud) \o Recalc(d)

ClaimSend(d) ==
    /\ pc[d] = "claiming"
    /\ Send(Mine(d), ClaimBatch(d) \o CatchUp(d))
    /\ belief' = [belief EXCEPT ![d] = [tok |-> d, cl |-> Mine(d)]]
    /\ before' = [before EXCEPT ![d] = TRUE]
    /\ held' = [held EXCEPT ![d] = None]
    /\ pc' = [pc EXCEPT ![d] = After(st[d].why)]
    /\ st' = [st EXCEPT ![d] = None]
    /\ UNCHANGED <<remote, told, notes, reply, cur, gen, wanted, taken, members, asserted, world>>

\* The connection's own size assert, and the enforce that opens its main loop.
AssertSize(d) ==
    /\ pc[d] = "assert"
    /\ asserted' = [asserted EXCEPT ![d] = TRUE]
    /\ pc' = [pc EXCEPT ![d] = IF Own(d, belief[d]) THEN "enforce" ELSE "idle"]
    /\ reply' = [reply EXCEPT ![d] = IF Own(d, belief[d]) THEN Asked ELSE None]
    /\ Send(Mine(d), <<Size>>)
    /\ UNCHANGED <<remote, told, notes, cur, gen, st, world>>
    /\ UNCHANGED <<belief, before, wanted, held, taken, members>>

AnswerEnforce(d) ==
    /\ pc[d] = "enforce"
    /\ Answered(d)
    /\ Send(Mine(d), IF Own(d, reply[d].rec) /\ reply[d].loud # {}
                     THEN FlagAll(reply[d].loud) \o Recalc(d) ELSE <<>>)
    /\ pc' = [pc EXCEPT ![d] = "idle"]
    /\ UNCHANGED <<st, taken>>

----------------------------------------------------------------------------
(* The main loop between round trips.                                      *)

\* dropped: only the owner recalculates, for a client it knew as a member.
Dropped(d, c) ==
    LET counts == Own(d, belief[d]) /\ c \in members[d] IN
    /\ members' = [members EXCEPT ![d] = IF counts THEN @ \ {c} ELSE @]
    /\ Send(Mine(d), IF counts THEN Recalc(d) ELSE <<>>)

TakeNote(d, kind) ==
    /\ pc[d] = "idle" /\ notes[Mine(d)] # <<>> /\ Head(notes[Mine(d)]).kind = kind
    /\ notes' = [notes EXCEPT ![Mine(d)] = Tail(@)]
    /\ UNCHANGED <<remote, told, cur, gen, st, wanted, taken, asserted, world>>

\* reconcileCmd: the flag this client should have, given an observed owner.
Wrong(d, r) == r.flagged # Foreign(d, r.rec)

\* queueReport takes the owner from a report, and applyReport reconciles it
\* at the top of the pass that follows the line.
ApplyReport(d) ==
    /\ TakeNote(d, "report")
    /\ LET r == Head(notes[Mine(d)]).r IN
        /\ SetOwner(d, r.rec)
        /\ Send(Mine(d), IF Wrong(d, r) THEN <<Flag(Mine(d), ~r.flagged)>> \o Recalc(d) ELSE <<>>)
    /\ UNCHANGED <<reply, pc, members>>

\* detached: hold the release of a departed owner.
Detached(d) ==
    /\ TakeNote(d, "detached")
    /\ LET c == Head(notes[Mine(d)]).c IN
        /\ held' = [held EXCEPT ![d] =
                      IF Foreign(d, belief[d]) /\ belief[d].cl = c THEN belief[d] ELSE @]
        /\ Dropped(d, c)
    /\ UNCHANGED <<belief, before, reply, pc>>

Arrived(d) ==
    /\ TakeNote(d, "attached")
    /\ members' = [members EXCEPT ![d] = @ \union {Head(notes[Mine(d)]).c}]
    /\ IF Own(d, belief[d]) THEN Ask(d, "enforce") ELSE UNCHANGED <<pc, reply, queue>>
    /\ UNCHANGED <<belief, before, held>>

TakeClaim(d) ==
    /\ pc[d] = "idle" /\ wanted[d]
    /\ wanted' = [wanted EXCEPT ![d] = FALSE]
    /\ Ask(d, "stale")
    /\ UNCHANGED <<remote, told, notes, cur, gen, st, world>>
    /\ UNCHANGED <<belief, before, held, taken, members, asserted>>

\* The grace has passed: any time after the hold.
ReleaseDue(d) ==
    /\ pc[d] = "idle" /\ held[d] # None
    /\ held' = [held EXCEPT ![d] = None]
    /\ taken' = [taken EXCEPT ![d] = held[d]]
    /\ Ask(d, "release")
    /\ UNCHANGED <<remote, told, notes, cur, gen, st, world>>
    /\ UNCHANGED <<belief, before, wanted, members, asserted>>

AnswerRelease(d) ==
    /\ pc[d] = "release"
    /\ Answered(d)
    /\ IF reply[d].rec = taken[d]
       THEN /\ st' = [st EXCEPT ![d] = [why |-> "release", r |-> reply[d], seen |-> view[d]]]
            /\ pc' = [pc EXCEPT ![d] = "releasing"]
            /\ UNCHANGED taken
       ELSE /\ taken' = [taken EXCEPT ![d] = None]
            /\ pc' = [pc EXCEPT ![d] = "idle"]
            /\ UNCHANGED st
    /\ UNCHANGED queue

ReleaseSend(d) ==
    /\ pc[d] = "releasing"
    /\ Send(Mine(d), <<Release(taken[d], <<d, st[d].seen>>)>> \o CatchUp(d))
    /\ taken' = [taken EXCEPT ![d] = None]
    /\ st' = [st EXCEPT ![d] = None]
    /\ pc' = [pc EXCEPT ![d] = "idle"]
    /\ UNCHANGED <<remote, told, notes, reply, cur, gen, world>>
    /\ UNCHANGED <<belief, before, wanted, held, members, asserted>>

----------------------------------------------------------------------------
(* Connections lost, replaced and left.                                    *)

\* The link dies: an outstanding read fails, a taken release is held again.
Drop(d) ==
    /\ cur[d] > 0 /\ gen[d] < MaxGen /\ pc[d] \notin {"prime", "primed", "leave"}
    /\ Disturbed(2)
    /\ cur' = [cur EXCEPT ![d] = 0]
    /\ pc' = [pc EXCEPT ![d] = "down"]
    /\ st' = [st EXCEPT ![d] = None]
    /\ reply' = [reply EXCEPT ![d] = None]
    /\ held' = [held EXCEPT ![d] = IF @ = None THEN taken[d] ELSE @]
    /\ taken' = [taken EXCEPT ![d] = None]
    /\ UNCHANGED <<remote, told, queue, notes, gen, view>>
    /\ UNCHANGED <<belief, before, wanted, members, asserted>>

\* replaceConn dials a second client and primes it, unbound, beside the first.
Prime(d) ==
    /\ pc[d] = "idle" /\ gen[d] < MaxGen /\ Disturbed(2)
    /\ Dial(d, "prime", gen[d] + 1)
    /\ UNCHANGED cur

PrimeAnswer(d) ==
    /\ pc[d] = "prime" /\ reply[d] \notin {None, Asked}
    /\ LET c == <<d, gen[d]>> IN
        Send(c, CASE Own(d, reply[d].rec) -> <<Record, Size>>
                  [] Foreign(d, reply[d].rec) -> <<Flag(c, TRUE), Size>>
                  [] OTHER -> <<Size>>)
    /\ pc' = [pc EXCEPT ![d] = "primed"]
    /\ reply' = [reply EXCEPT ![d] = None]
    /\ UNCHANGED <<remote, told, notes, cur, gen, st, mind, world>>

\* Every reply of the priming came: the old client is closed, repair begins.
PrimeSwap(d) ==
    /\ pc[d] = "primed" /\ queue[<<d, gen[d]>>] = <<>>
    /\ cur' = [cur EXCEPT ![d] = gen[d]]
    /\ Ask(d, "reconnect")
    /\ UNCHANGED <<remote, told, notes, gen, st, mind, world>>

PrimeFail(d) ==
    /\ pc[d] \in {"prime", "primed"}
    /\ pc' = [pc EXCEPT ![d] = "idle"]
    /\ reply' = [reply EXCEPT ![d] = None]
    /\ UNCHANGED <<remote, told, queue, notes, cur, gen, st, mind, world>>

\* Teardown with the connection alive reads who stays before it clears the env.
Leave(d) ==
    /\ Endings /\ pc[d] = "idle" /\ Disturbed(1)
    /\ Ask(d, "leave")
    /\ UNCHANGED <<remote, told, notes, cur, gen, st, mind, view>>

EnvTeardown(d) ==
    /\ pc[d] = "leave" /\ reply[d] \notin {None, Asked}
    /\ Send(Mine(d), IF reply[d].others # {} THEN <<Relinquish>>
                     ELSE <<Unset(Cardinality(reply[d].others) + 1)>>)
    /\ pc' = [pc EXCEPT ![d] = "gone"]
    /\ cur' = [cur EXCEPT ![d] = 0]
    /\ reply' = [reply EXCEPT ![d] = None]
    /\ UNCHANGED <<remote, told, notes, gen, st, mind, world>>

\* A signal or a crash: the transport dies and nothing of the daemon runs.
Kill(d) ==
    /\ Endings /\ cur[d] > 0 /\ Disturbed(1)
    /\ pc' = [pc EXCEPT ![d] = "gone"]
    /\ cur' = [cur EXCEPT ![d] = 0]
    /\ UNCHANGED <<remote, told, queue, notes, reply, gen, st, mind, view>>

----------------------------------------------------------------------------
(* The user and the local terminal, beside the main loop.                  *)

Up(d) == pc[d] \notin {"off", "gone"}

\* wakeClaimLocked, from the activity poll or a gesture.
WantClaim(d) == wanted' = [wanted EXCEPT ![d] = TRUE]

\* Input that activityMark counts on this controller.
Type(d) ==
    /\ Up(d) /\ Disturbed(1)
    /\ WantClaim(d)
    /\ UNCHANGED <<remote, told, queue, notes, reply, flow, view>>
    /\ UNCHANGED <<belief, before, held, taken, members, asserted>>

\* A gesture writes this controller's env at once, unguarded, and asks for a claim.
Press(d) ==
    /\ Up(d) /\ cur[d] > 0 /\ Disturbed(1)
    /\ Send(Mine(d), <<Publish(d, view[d], FALSE)>>)
    /\ WantClaim(d)
    /\ UNCHANGED <<remote, told, notes, reply, flow, view>>
    /\ UNCHANGED <<belief, before, held, taken, members, asserted>>

\* watchLocalClient: the capability changed; a send that failed is undone.
ViewChange(d) ==
    /\ Up(d) /\ cur[d] > 0 /\ Disturbed(1)
    /\ view' = [view EXCEPT ![d] = 1 - @]
    /\ Send(Mine(d), <<Publish(d, 1 - view[d], TRUE)>>)
    /\ UNCHANGED <<remote, told, notes, reply, flow, mind>>

----------------------------------------------------------------------------
Server(c) == Exec(c) \/ ExecRead(c) \/ Report(c) \/ Gone(c)

Loop(d) ==
    \/ Reattach(d) \/ AnswerClaim(d) \/ AnswerPass(d) \/ ClaimSend(d) \/ AssertSize(d)
    \/ AnswerEnforce(d) \/ Detached(d) \/ Arrived(d)
    \/ ApplyReport(d) \/ TakeClaim(d) \/ ReleaseDue(d) \/ AnswerRelease(d) \/ ReleaseSend(d)
    \/ PrimeAnswer(d) \/ PrimeSwap(d) \/ EnvTeardown(d)

Disturb(d) ==
    \/ Start(d) \/ Drop(d) \/ Prime(d) \/ PrimeFail(d) \/ Leave(d) \/ Kill(d)
    \/ Type(d) \/ Press(d) \/ ViewChange(d)

Next ==
    \/ \E c \in Clients : Server(c)
    \/ \E d \in Daemons : Loop(d) \/ Disturb(d)

Spec == Init /\ [][Next]_vars

\* The remote serves every client, and a main loop goes on; a lost link is
\* dialled again.
Fairness ==
    /\ \A c \in Clients : WF_vars(Server(c))
    /\ \A d \in Daemons : WF_vars(Loop(d))

FairSpec == Spec /\ Fairness

----------------------------------------------------------------------------
\* The record, once it names a client that is still attached, is cleared by
\* nobody: a survivor's late release is conditional on the client that left.
KeepsAttached == rec # None /\ rec.cl \in att => rec' # None
AttachedOwnerKept == [][KeepsAttached]_vars

\* With the disturbances over, a record that names an attached client means
\* that this client alone counts, that the windows have its size, and that the
\* session publishes its terminal's capability; with nobody owning, no client
\* stays excluded.
Departed == {d \in Daemons : pc[d] = "gone"}
OwnerRules ==
    rec # None /\ rec.cl \in att =>
        /\ att \ flg = {rec.cl}
        /\ sized = {rec.cl}
        /\ env \in {<<rec.tok, view[rec.tok]>>} \union {<<d, v>> : d \in Departed, v \in {0, 1}}
NobodyExcluded == rec = None => flg \intersect att = {}

\* A release a survivor holds for the recorded owner is not forgotten: the
\* record is cleared or claimed, unless the survivor ends too.
Holds(d) == held[d] # None /\ held[d] = rec
Freed(d) == rec = None \/ rec.cl \in att \/ ~Up(d)

\* What the comment on primeClient says: a record that named a client that is
\* gone would be released by every survivor, so priming rewrites it; an owner
\* whose first connection still lives must therefore never be released.
LiveOwnerKept ==
    [][rec # None /\ cur[rec.tok] = 1 /\ <<rec.tok, 1>> \in att => rec' # None]_vars
=============================================================================
