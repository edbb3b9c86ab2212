---- MODULE ReplyStream ----
(***************************************************************************)
(* One control-mode connection of the bridge daemon: stream, newRoundTrip, *)
(* readReplyRouting, routeWhile and the stall guard (daemon/daemon.go,     *)
(* daemon/routedexec.go, daemon/conn.go).                                  *)
(*                                                                         *)
(* Commands are numbered in the order they are written.  stampAll writes   *)
(* every command with a barrier (display-message -p og-fanout-N) behind    *)
(* it, so a command takes an odd ordinal and its barrier the even one      *)
(* after it.  The far end (tmux, with ssh, the socket and the ctlPump      *)
(* folded into the one FIFO "lines") answers the written ordinals in       *)
(* order, one flag-1 block each, and adds blocks of its own: a command     *)
(* that runs a branch produces further flag-1 blocks before anything       *)
(* written behind it, a hook flag-0 blocks anywhere.  The reader has only  *)
(* the flag and the body of a block to tell which command it answers.      *)
(***************************************************************************)
EXTENDS Integers, Sequences

CONSTANTS
    Main,      \* the main-loop goroutine, the only reader of the stream
    Senders,   \* goroutines that send and read no reply (pumpInput, ctl, watchLocalClient)
    NoLine,    \* an empty parked slot
    Guarded,   \* the stall guard is bound (a reply timeout above zero)
    CanDrop,   \* the far end may hang up, and the daemon may close the connection
    MaxBatch,  \* bound: commands of one stampAll
    MaxSent,   \* bound: ordinals written on this connection
    MaxNoise   \* bound: lines the far end emits that are no command's own reply

ASSUME BoundsAssumption ==
    /\ MaxBatch \in Nat \ {0}
    /\ MaxSent \in Nat
    /\ MaxNoise \in Nat
ASSUME ModeAssumption == Guarded \in BOOLEAN /\ CanDrop \in BOOLEAN
ASSUME MainAssumption == Main \notin Senders /\ "free" \notin Senders \cup {Main}

Procs == Senders \cup {Main}

VARIABLES
    \* stream
    sent, seen, fans, awaitHigh, parked, closed, stalled,
    mu,        \* holder of stream.mu across a Flush, or "free"
    \* the far end and the line between
    wired,     \* ordinals handed to the far end (flushed)
    ran,       \* ordinals it has run
    lines,     \* what it wrote and the main loop has not read yet
    eof,       \* nothing more will be appended to lines
    noise,     \* lines emitted that are no command's own reply
    \* ctlConn
    transport, \* "open" or "shut"
    closer,    \* progress of ctlConn.close: "idle", "marked", "shut", "done"
    armed,     \* processes whose wait is under an armed stall timer
    firing,    \* a timer's function has started and not yet marked the stream
    \* the main loop
    pc, want, high, reading, async,
    sender,    \* pc of each sender
    \* history
    routedAt,  \* "at" of the last %output routed
    answered,  \* the last reply a next() returned
    failed     \* some next() has returned not-ok

streamVars == <<sent, seen, fans, awaitHigh, parked, closed, stalled, mu>>
farVars    == <<wired, ran, lines, eof, noise>>
connVars   == <<transport, closer, armed, firing>>
mainVars   == <<pc, want, high, reading, async>>
history    == <<routedAt, answered, failed>>
vars == <<streamVars, farVars, connVars, mainVars, sender, history>>

----------------------------------------------------------------------------
(* Lines.  "Block" stands for the reader's terminal End or Error line, which *)
(* claimSeq treats alike.  tag is N when the body is og-fanout-N and 0       *)
(* otherwise; answers (the ordinal a block answers, 0 for none), at (how     *)
(* many ordinals had been answered once the line was written) and whole are  *)
(* not visible to the reader.                                                *)

Kinds == {"Block", "Output", "LayoutChange", "Notice"}
Lines == [kind : Kinds, flags : {0, 1}, tag : Nat, answers : Nat, at : Nat, whole : BOOLEAN]

IsBarrier(n) == n % 2 = 0

OwnReply(n) ==
    [kind |-> "Block", flags |-> 1, tag |-> IF IsBarrier(n) THEN n - 1 ELSE 0,
     answers |-> n, at |-> n, whole |-> TRUE]

\* A line the far end writes unasked after answering ordinal n.
Aside(k, f, n) ==
    [kind |-> k, flags |-> f, tag |-> 0, answers |-> 0, at |-> n, whole |-> TRUE]

\* Reader.finish: the block left open at end-of-stream resolves as an End with
\* a partial body, which a barrier's body then is not.
Torn(l) ==
    IF l.answers # 0 /\ IsBarrier(l.answers)
        THEN [kind |-> "Block", flags |-> l.flags, tag |-> 0,
              answers |-> 0, at |-> l.at - 1, whole |-> FALSE]
        ELSE [l EXCEPT !.whole = FALSE]

----------------------------------------------------------------------------
Init ==
    /\ sent = 0 /\ seen = 0 /\ fans = <<>> /\ awaitHigh = 0
    /\ parked = NoLine /\ closed = FALSE /\ stalled = FALSE /\ mu = "free"
    /\ wired = 0 /\ ran = 0 /\ lines = <<>> /\ eof = FALSE /\ noise = 0
    /\ transport = "open" /\ closer = "idle" /\ armed = {} /\ firing = FALSE
    /\ pc = "pass" /\ want = 1 /\ high = 0 /\ reading = FALSE /\ async = <<>>
    /\ sender = [s \in Senders |-> "idle"]
    /\ routedAt = 0 /\ answered = [want |-> 0, answers |-> 0, whole |-> TRUE] /\ failed = FALSE

----------------------------------------------------------------------------
(* The far end. *)

Emit(l) == lines' = Append(lines, l)

\* tmux runs the next written command and answers it.
RunCommand ==
    /\ ~eof /\ ran < wired
    /\ ran' = ran + 1
    /\ Emit(OwnReply(ran + 1))
    /\ UNCHANGED <<streamVars, wired, eof, noise, connVars, mainVars, sender, history>>

\* A branch command of the command just answered: a flag-1 block of its own,
\* before anything written behind it.
RunBranch ==
    /\ ~eof /\ noise < MaxNoise
    /\ ~IsBarrier(ran)
    /\ Emit(Aside("Block", 1, ran))
    /\ noise' = noise + 1
    /\ UNCHANGED <<streamVars, wired, ran, eof, connVars, mainVars, sender, history>>

\* A hook's flag-0 block, pane output, or a notification, at any time.
Unasked ==
    /\ ~eof /\ noise < MaxNoise
    /\ \E k \in Kinds : Emit(Aside(k, 0, ran))
    /\ noise' = noise + 1
    /\ UNCHANGED <<streamVars, wired, ran, eof, connVars, mainVars, sender, history>>

\* End of stream: any suffix of what is in flight is lost, and the block it
\* tears through may resolve as a synthesized End.
Cut ==
    /\ ~eof
    /\ eof' = TRUE
    /\ \E k \in 0..Len(lines) :
          \/ lines' = SubSeq(lines, 1, k)
          \/ /\ k < Len(lines)
             /\ lines[k + 1].kind = "Block"
             /\ lines' = Append(SubSeq(lines, 1, k), Torn(lines[k + 1]))
    /\ UNCHANGED <<streamVars, wired, ran, noise, connVars, mainVars, sender, history>>

RemoteDrops  == CanDrop /\ Cut
TransportEOF == transport = "shut" /\ Cut

----------------------------------------------------------------------------
(* ctlConn.armStall and ctlConn.close. *)

Arm(p)    == armed' = IF Guarded THEN armed \cup {p} ELSE armed
Disarm(p) == armed' = armed \ {p}

\* The deadline passes: the timer's function starts, and Stop no longer stops it.
Expire(p) ==
    /\ p \in armed
    /\ armed' = armed \ {p}
    /\ firing' = TRUE
    /\ UNCHANGED <<streamVars, farVars, transport, closer, mainVars, sender, history>>

\* The stream is marked before the close, so that what EOF synthesizes is
\* never delivered.
MarkStalled ==
    /\ firing
    /\ firing' = FALSE
    /\ stalled' = TRUE
    /\ closer' = IF closer = "idle" THEN "marked" ELSE closer
    /\ UNCHANGED <<sent, seen, fans, awaitHigh, parked, closed, mu, farVars,
                   transport, armed, mainVars, sender, history>>

\* A close of this connection for any other reason: detach, SIGTERM, replacement.
CloseBegins ==
    /\ CanDrop /\ closer = "idle"
    /\ closer' = "marked"
    /\ UNCHANGED <<streamVars, farVars, transport, armed, firing, mainVars, sender, history>>

\* Mutant of CloseTransport: stream.mu is taken first.
CloseTransportLocked ==
    /\ closer = "marked" /\ mu = "free"
    /\ transport' = "shut"
    /\ closer' = "shut"
    /\ UNCHANGED <<streamVars, farVars, armed, firing, mainVars, sender, history>>

\* close: the transport goes before the stream, whose mutex a stuck Flush holds.
CloseTransport ==
    /\ closer = "marked"
    /\ transport' = "shut"
    /\ closer' = "shut"
    /\ UNCHANGED <<streamVars, farVars, armed, firing, mainVars, sender, history>>

CloseStream ==
    /\ closer = "shut" /\ mu = "free"
    /\ closed' = TRUE
    /\ closer' = "done"
    /\ UNCHANGED <<sent, seen, fans, awaitHigh, parked, stalled, mu, farVars,
                   transport, armed, firing, mainVars, sender, history>>

----------------------------------------------------------------------------
(* stream.stampAll: number and write the batch under stream.mu, then flush. *)

InBatch == want <= high

Stamp(p, n) ==
    /\ mu = "free" /\ ~closed
    /\ sent + 2 * n <= MaxSent
    /\ mu' = p
    /\ sent' = sent + 2 * n
    /\ fans' = fans \o [i \in 1..n |-> sent + 2 * i - 1]
    /\ Arm(p)

SenderStamp(s) ==
    /\ sender[s] = "idle"
    /\ Stamp(s, 1)
    /\ sender' = [sender EXCEPT ![s] = "flush"]
    /\ UNCHANGED <<seen, awaitHigh, parked, closed, stalled, farVars,
                   transport, closer, firing, mainVars, history>>

\* newRoundTrip: the batch's ordinals are want, want + 2, ..., high.
Issue(n) ==
    /\ pc = "pass" /\ ~InBatch
    /\ Stamp(Main, n)
    /\ want' = sent + 1
    /\ high' = sent + 2 * n - 1
    /\ pc' = "flush"
    /\ UNCHANGED <<seen, awaitHigh, parked, closed, stalled, farVars,
                   transport, closer, firing, reading, async, sender, history>>

FlushOK(p) ==
    /\ mu = p /\ transport = "open"
    /\ mu' = "free"
    /\ wired' = sent
    /\ Disarm(p)
    /\ IF p = Main
         THEN /\ awaitHigh' = IF high > awaitHigh THEN high ELSE awaitHigh
              /\ pc' = "pass"
              /\ UNCHANGED sender
         ELSE /\ sender' = [sender EXCEPT ![p] = "idle"]
              /\ UNCHANGED <<awaitHigh, pc>>
    /\ UNCHANGED <<sent, seen, fans, parked, closed, stalled, ran, lines, eof, noise,
                   transport, closer, firing, want, high, reading, async, history>>

\* The write fails: any prefix may have reached the far end, and closing the
\* stream bars every later ordinal.
FlushFails(p) ==
    /\ mu = p /\ (transport = "shut" \/ eof)
    /\ mu' = "free"
    /\ wired' \in wired..sent
    /\ closed' = TRUE
    /\ Disarm(p)
    /\ IF p = Main
         THEN /\ pc' = "pass" /\ want' = high + 2 /\ failed' = TRUE
              /\ UNCHANGED sender
         ELSE /\ sender' = [sender EXCEPT ![p] = "idle"]
              /\ UNCHANGED <<pc, want, failed>>
    /\ UNCHANGED <<sent, seen, fans, awaitHigh, parked, stalled, ran, lines, eof, noise,
                   transport, closer, firing, high, reading, async, routedAt, answered>>

----------------------------------------------------------------------------
(* Reading.  Every line taken off the stream passes through claimSeq. *)

Swallowing == fans # <<>> /\ seen = Head(fans)

\* Mutants of Claimed: every flag-1 block takes an ordinal (no barrier, #723);
\* a hook's block takes one too (#276); the count steps back.
ClaimedNoBarrier(l) == IF l.kind # "Block" \/ l.flags # 1 THEN 0 ELSE seen + 1
ClaimedAnyFlag(l) ==
    IF l.kind # "Block" \/ (Swallowing /\ l.tag # Head(fans)) THEN 0 ELSE seen + 1
ClaimedBack(l) == IF l.kind # "Block" \/ l.flags # 1 THEN 0 ELSE seen - 1

\* claimSeq: the ordinal of the command the line answers, 0 for none.
Claimed(l) ==
    IF \/ l.kind # "Block" \/ l.flags # 1
       \/ Swallowing /\ l.tag # Head(fans)
        THEN 0
        ELSE seen + 1

Claim(l) ==
    /\ seen' = IF Claimed(l) = 0 THEN seen ELSE Claimed(l)
    /\ fans' = IF Claimed(l) # 0 /\ Swallowing THEN Tail(fans) ELSE fans

\* One line off the stream; claim takes stream.mu.
Line == Head(lines)

Take ==
    /\ mu = "free" /\ lines # <<>>
    /\ lines' = Tail(lines)
    /\ Claim(Line)

\* handleAsideLine: route %output, queue a notification, drop the rest.
HandleAside(l) ==
    /\ routedAt' = IF l.kind = "Output" THEN l.at ELSE routedAt
    /\ async' = IF l.kind \in {"LayoutChange", "Notice"} THEN Append(async, l) ELSE async

HoldsLayoutChange == \E i \in 1..Len(async) : async[i].kind = "LayoutChange"

\* Mutant of NextCall: the read has no deadline.
NextCallUnguarded ==
    /\ pc = "pass" /\ InBatch
    /\ pc' = "next"
    /\ UNCHANGED <<streamVars, farVars, connVars,
                   want, high, reading, async, sender, history>>

\* next(): one reply is awaited, under one deadline.
NextCall ==
    /\ pc = "pass" /\ InBatch
    /\ Arm(Main)
    /\ pc' = "next"
    /\ UNCHANGED <<streamVars, farVars, transport, closer, firing,
                   want, high, reading, async, sender, history>>

\* The return of a next() whose read produced line l: nothing a stalled
\* connection's reader produces is delivered.
Return(l) ==
    /\ pc' = "pass" /\ want' = want + 2
    /\ Disarm(Main)
    /\ IF stalled
         THEN failed' = TRUE /\ UNCHANGED answered
         ELSE /\ answered' = [want |-> want, answers |-> l.answers, whole |-> l.whole]
              /\ UNCHANGED failed

\* Mutant of NextParked: a matched reply stays in the slot.
NextParkedKept ==
    /\ pc = "next" /\ parked # NoLine /\ mu = "free"
    /\ IF parked.seq = want
         THEN Return(parked.line) /\ UNCHANGED parked
         ELSE parked' = NoLine /\ UNCHANGED <<pc, want, armed, answered, failed>>
    /\ UNCHANGED <<sent, seen, fans, awaitHigh, closed, stalled, mu, farVars,
                   transport, closer, firing, high, reading, async, sender, routedAt>>

\* readReplyRouting: the parked slot first; it is cleared, matched or not.
NextParked ==
    /\ pc = "next" /\ parked # NoLine /\ mu = "free"
    /\ parked' = NoLine
    /\ IF parked.seq = want
         THEN Return(parked.line)
         ELSE UNCHANGED <<pc, want, armed, answered, failed>>
    /\ UNCHANGED <<sent, seen, fans, awaitHigh, closed, stalled, mu, farVars,
                   transport, closer, firing, high, reading, async, sender, routedAt>>

NextRead ==
    /\ pc = "next" /\ parked = NoLine
    /\ Take
    /\ IF Line.kind = "Block" /\ Claimed(Line) = want
         THEN Return(Line) /\ UNCHANGED <<routedAt, async>>
         ELSE HandleAside(Line) /\ UNCHANGED <<pc, want, armed, answered, failed>>
    /\ UNCHANGED <<sent, awaitHigh, parked, closed, stalled, mu, wired, ran, eof, noise,
                   transport, closer, firing, high, reading, sender>>

\* Mutant of NextEOF: the connection's end is noticed ahead of the lines that
\* were read before it.
NextEOFEarly ==
    /\ pc = "next" /\ parked = NoLine /\ eof
    /\ pc' = "pass" /\ want' = want + 2 /\ failed' = TRUE
    /\ Disarm(Main)
    /\ UNCHANGED <<streamVars, farVars, transport, closer, firing,
                   high, reading, async, sender, routedAt, answered>>

NextEOF ==
    /\ pc = "next" /\ parked = NoLine /\ eof /\ lines = <<>>
    /\ pc' = "pass" /\ want' = want + 2 /\ failed' = TRUE
    /\ Disarm(Main)
    /\ UNCHANGED <<streamVars, farVars, transport, closer, firing,
                   high, reading, async, sender, routedAt, answered>>

----------------------------------------------------------------------------
(* routeWhile: the stream is read while a local exec runs. *)

ExecStart ==
    /\ pc = "pass" /\ mu = "free"
    /\ pc' = "exec"
    /\ reading' = (parked = NoLine /\ ~HoldsLayoutChange)
    /\ UNCHANGED <<streamVars, farVars, connVars, want, high, async, sender, history>>

Awaited(seq) == seq # 0 /\ seq <= awaitHigh

\* Mutant of ExecRead: an awaited reply is dropped like any other.
ExecReadNoPark ==
    /\ pc = "exec" /\ reading
    /\ Take
    /\ HandleAside(Line)
    /\ reading' = (Line.kind # "LayoutChange")
    /\ UNCHANGED <<sent, awaitHigh, parked, closed, stalled, mu, wired, ran, eof, noise,
                   connVars, pc, want, high, sender, answered, failed>>

ExecRead ==
    /\ pc = "exec" /\ reading
    /\ Take
    /\ IF Awaited(Claimed(Line))
         THEN /\ parked' = [seq |-> Claimed(Line), line |-> Line]
              /\ reading' = FALSE
              /\ UNCHANGED <<routedAt, async>>
         ELSE /\ HandleAside(Line)
              /\ reading' = (Line.kind # "LayoutChange")
              /\ UNCHANGED parked
    /\ UNCHANGED <<sent, awaitHigh, closed, stalled, mu, wired, ran, eof, noise,
                   connVars, pc, want, high, sender, answered, failed>>

ExecEnd ==
    /\ pc = "exec"
    /\ pc' = "pass" /\ reading' = FALSE
    /\ UNCHANGED <<streamVars, farVars, connVars, want, high, async, sender, history>>

----------------------------------------------------------------------------
(* The main loop between operations. *)

\* The top of a pass: dropParked, then settle dispatches the oldest queued line.
Settle ==
    /\ pc = "pass" /\ ~InBatch /\ mu = "free"
    /\ async # <<>>
    /\ parked' = NoLine
    /\ async' = Tail(async)
    /\ UNCHANGED <<sent, seen, fans, awaitHigh, closed, stalled, mu, farVars, connVars,
                   pc, want, high, reading, sender, history>>

\* runConn's select, and its dispatch of the line it read.
SelectRead ==
    /\ pc = "pass" /\ ~InBatch
    /\ Take
    /\ routedAt' = IF Line.kind = "Output" THEN Line.at ELSE routedAt
    /\ UNCHANGED <<sent, awaitHigh, parked, closed, stalled, mu, wired, ran, eof, noise,
                   connVars, mainVars, sender, answered, failed>>

\* Mutant of HelloRead: the wait drains the stream without counting.
HelloReadUnclaimed ==
    /\ pc = "pass" /\ ~InBatch
    /\ mu = "free" /\ lines # <<>>
    /\ lines' = Tail(lines) /\ UNCHANGED <<seen, fans>>
    /\ HandleAside(Line)
    /\ UNCHANGED <<sent, awaitHigh, parked, closed, stalled, mu, wired, ran, eof, noise,
                   connVars, pc, want, high, reading, sender, answered, failed>>

\* waitHellos reads the stream while it waits for renderers.
HelloRead ==
    /\ pc = "pass" /\ ~InBatch
    /\ Take /\ HandleAside(Line)
    /\ UNCHANGED <<sent, awaitHigh, parked, closed, stalled, mu, wired, ran, eof, noise,
                   connVars, pc, want, high, reading, sender, answered, failed>>

\* connStreamEnded: the channel is closed, runConn returns its verdict.
StreamEnded ==
    /\ pc = "pass" /\ ~InBatch /\ eof /\ lines = <<>>
    /\ pc' = "ended" /\ async' = <<>>
    /\ UNCHANGED <<streamVars, farVars, connVars, want, high, reading, sender, history>>

----------------------------------------------------------------------------
FarEnd == RunCommand \/ RunBranch \/ Unasked \/ RemoteDrops \/ TransportEOF
Closing == (\E p \in Procs : Expire(p)) \/ MarkStalled \/ CloseBegins \/ CloseTransport \/ CloseStream
Writing == \/ \E s \in Senders : SenderStamp(s)
           \/ \E n \in 1..MaxBatch : Issue(n)
           \/ \E p \in Procs : FlushOK(p) \/ FlushFails(p)
MainStep == \/ NextCall \/ NextParked \/ NextRead \/ NextEOF
            \/ ExecStart \/ ExecRead \/ ExecEnd
            \/ Settle \/ SelectRead \/ HelloRead \/ StreamEnded

Next == FarEnd \/ Closing \/ Writing \/ MainStep

Spec == Init /\ [][Next]_vars

\* What the runtime and the timers guarantee: a runnable goroutine runs, a
\* contended sync.Mutex is not withheld forever (its starvation mode), an armed
\* timer nobody stops fires, a shut transport reads as end-of-stream.  Nothing
\* is assumed of the far end.
Fairness ==
    /\ WF_vars(NextEOF) /\ SF_vars(NextParked) /\ SF_vars(NextRead)
    /\ WF_vars(\E p \in Procs : FlushFails(p))
    /\ \A p \in Procs : WF_vars(Expire(p))
    /\ WF_vars(MarkStalled) /\ WF_vars(CloseTransport) /\ WF_vars(TransportEOF)

FairSpec == Spec /\ Fairness

\* A far end that keeps draining and answering, for runs without deadlines.
HealthySpec ==
    /\ Spec
    /\ WF_vars(NextEOF) /\ SF_vars(NextParked) /\ SF_vars(NextRead)
    /\ \A p \in Procs : WF_vars(FlushOK(p))
    /\ WF_vars(RunCommand)

----------------------------------------------------------------------------
(* Properties. *)

ParkedReplies == [seq : Nat, line : Lines]
ASSUME NoLineAssumption == NoLine \notin ParkedReplies

\* Every variable stays in its type.
TypeOK ==
    /\ sent \in Nat /\ seen \in Nat /\ fans \in Seq(Nat) /\ awaitHigh \in Nat
    /\ parked \in ParkedReplies \cup {NoLine}
    /\ closed \in BOOLEAN /\ stalled \in BOOLEAN /\ mu \in Procs \cup {"free"}
    /\ wired \in Nat /\ ran \in Nat /\ lines \in Seq(Lines) /\ eof \in BOOLEAN /\ noise \in Nat
    /\ transport \in {"open", "shut"} /\ closer \in {"idle", "marked", "shut", "done"}
    /\ armed \subseteq Procs /\ firing \in BOOLEAN
    /\ pc \in {"pass", "flush", "next", "exec", "ended"}
    /\ want \in Nat /\ high \in Nat /\ reading \in BOOLEAN /\ async \in Seq(Lines)
    /\ sender \in [Senders -> {"idle", "flush"}]
    /\ routedAt \in Nat /\ failed \in BOOLEAN
    /\ answered \in [want : Nat, answers : Nat, whole : BOOLEAN]

\* A round-trip never takes another command's block for its reply: whatever a
\* next() returned answers the command it was asked for (stream.claim, #276, #723).
ReplyPaired == answered.answers = answered.want

\* Output the far end wrote after the reply to a batch's command is not routed
\* before next() has handed that reply over, so a seed taken from it is
\* enqueued first (routeWhile's parking, the replies iterator of seed.go).
SeedBeforeOutput == InBatch => routedAt < want

\* The count stays exact: when every line written so far has been read, as many
\* ordinals have been consumed as the far end has answered (claimSeq).
OrdinalsExact == lines = <<>> /\ ~eof => seen = ran

\* The parked slot only ever holds a block some next() has yet to walk to, so
\* neither takeParked nor dropParked loses a reply that is still owed.
ParkedStillOwed == parked # NoLine => InBatch /\ parked.seq <= want

\* With a stall guard, no next() waits forever on a far end that has wedged.
NextReturns == pc = "next" ~> pc # "next"

\* With a stall guard, a goroutine stuck in stampAll's Flush gets out of it and
\* releases stream.mu (ctlConn.close shuts the transport before it takes mu).
FlushReturns == \A p \in Procs : mu = p ~> mu # p

\* The guard frees the waiting read and the stuck flush alike.
CallsReturn == NextReturns /\ FlushReturns

\* On a healthy connection with no deadline every reply asked for arrives: the
\* reader never walks past it.
ReplyArrives ==
    \A n \in 1..MaxSent : pc = "next" /\ want = n ~> answered.want = n

\* The stream implements the contract its callers program against (seed.go,
\* roundTrip): replies in issue order, each of its own command, until the
\* connection fails, and then none.
Contract == INSTANCE RoundTrip WITH answer <- answered.answers, working <- ~failed
RoundTripContract == Contract!Spec

\* What a synthesized End carries is not handed to a waiter as its reply
\* (stated at stream.stalled).
WholeReplies == answered.whole
====
