---- MODULE PaneRouter ----
(***************************************************************************)
(* The Router (daemon/router.go): where each remote pane's output goes.    *)
(* A pane is registered (its frames go to its sink), excluded (a filtered  *)
(* daemon discards them), gone (unregistered less than a minute ago), or   *)
(* unknown, and then its frames are buffered for the sink it may yet get,  *)
(* within limits per pane and in total, and for a minute.                  *)
(*                                                                         *)
(* Every operation holds Router.mu.  A timer that has fired waits for the  *)
(* lock in a goroutine of its own, where Stop no longer reaches it, so it  *)
(* may run after its entry was replaced.  Entries are told apart by "id",  *)
(* which stands for the pointer the expiry functions compare.              *)
(***************************************************************************)
EXTENDS Integers, Sequences, FiniteSets, FiniteSetsExt, SequencesExt

CONSTANTS
    Panes,
    Sizes,       \* byte lengths of a frame
    MaxFrames,   \* routerPendingMaxFrames
    MaxBytes,    \* routerPendingMaxBytes
    MaxTotal,    \* routerPendingMaxTotalBytes
    MaxRouted,   \* bound: frames routed, all panes together
    MaxEntries   \* bound: pending and gone entries ever made

ASSUME PanesAssumption == IsFiniteSet(Panes)
ASSUME SizesAssumption == Sizes \subseteq Nat \ {0}
ASSUME LimitsAssumption ==
    /\ MaxFrames \in Nat \ {0} /\ MaxBytes \in Nat /\ MaxTotal \in Nat
    /\ MaxRouted \in Nat /\ MaxEntries \in Nat

VARIABLES
    registered,    \* the panes in Router.sinks
    pending,       \* per pane its pendingOutput, NoEntry for none
    pendingBytes,
    gone,          \* per pane the id of its gonePane, 0 for none
    excluded, excludeOnUnregister,
    dropped,
    armed, fired,  \* timers: still to fire, and fired but not yet run
    made,          \* entries made so far, the id of the newest
    \* history
    routed,        \* per pane, frames Route was given
    sent,          \* per pane, frames written to a sink
    discarded,     \* frames of excluded panes, thrown away
    received       \* per registered pane, what its sink was given

tables  == <<registered, pending, pendingBytes, gone, excluded, excludeOnUnregister>>
timers  == <<armed, fired, made>>
history == <<routed, sent, discarded, received>>
vars == <<tables, dropped, timers, history>>

Frames == [n : Nat, size : Sizes]
NoEntry == [id |-> 0, frames |-> <<>>, bytes |-> 0]
Timers == [pane : Panes, id : Nat]
Timer(p, i) == [pane |-> p, id |-> i]

\* What a sink is given: output by its number, or a seed.
Output(n) == [typ |-> "output", n |-> n]
Seed(n) == [typ |-> "seed", n |-> n]

Outputs(q) == [i \in 1..Len(q) |-> Output(q[i].n)]

Buffering(p) == pending[p].id # 0

Init ==
    /\ registered = {} /\ pending = [p \in Panes |-> NoEntry] /\ pendingBytes = 0
    /\ gone = [p \in Panes |-> 0] /\ excluded = {} /\ excludeOnUnregister = {}
    /\ dropped = 0 /\ armed = {} /\ fired = {} /\ made = 0
    /\ routed = [p \in Panes |-> 0] /\ sent = [p \in Panes |-> 0] /\ discarded = 0
    /\ received = [p \in Panes |-> <<>>]

----------------------------------------------------------------------------
(* Route. *)

RoutedAll == SumFunction(routed)

\* Every outcome of Route counts the frame.
Arrives(p) ==
    /\ RoutedAll < MaxRouted
    /\ routed' = [routed EXCEPT ![p] = @ + 1]

RouteRegistered(p) ==
    /\ p \in registered /\ Arrives(p)
    /\ sent' = [sent EXCEPT ![p] = @ + 1]
    /\ received' = [received EXCEPT ![p] = Append(@, Output(routed[p] + 1))]
    /\ UNCHANGED <<tables, dropped, timers, discarded>>

RouteExcluded(p) ==
    /\ p \notin registered /\ p \in excluded /\ Arrives(p)
    /\ discarded' = discarded + 1
    /\ UNCHANGED <<tables, dropped, timers, sent, received>>

RouteDropped(p) ==
    /\ Arrives(p)
    /\ dropped' = dropped + 1
    /\ UNCHANGED <<tables, timers, sent, discarded, received>>

RouteGone(p) ==
    /\ p \notin registered \cup excluded /\ gone[p] # 0
    /\ RouteDropped(p)

Unknown(p) == p \notin registered \cup excluded /\ gone[p] = 0

\* Mutant of Fits: the total over all panes is not looked at.
FitsPane(p, size) ==
    /\ Len(pending[p].frames) < MaxFrames
    /\ pending[p].bytes + size <= MaxBytes

Fits(p, size) ==
    /\ Len(pending[p].frames) < MaxFrames
    /\ pending[p].bytes + size <= MaxBytes
    /\ pendingBytes + size <= MaxTotal

RouteFull(p, size) ==
    /\ Unknown(p) /\ ~Fits(p, size)
    /\ RouteDropped(p)

\* Mutant of RouteBuffered: a new entry gets no timer.
RouteBufferedUntimed(p, size) ==
    /\ Unknown(p) /\ Fits(p, size) /\ Arrives(p)
    /\ \/ Buffering(p) /\ made' = made
       \/ ~Buffering(p) /\ made < MaxEntries /\ made' = made + 1
    /\ pending' = [pending EXCEPT
          ![p] = [id |-> IF Buffering(p) THEN @.id ELSE made + 1,
                  frames |-> Append(@.frames, [n |-> routed[p] + 1, size |-> size]),
                  bytes |-> @.bytes + size]]
    /\ pendingBytes' = pendingBytes + size
    /\ UNCHANGED <<registered, gone, excluded, excludeOnUnregister,
                   dropped, armed, fired, sent, discarded, received>>

RouteBuffered(p, size) ==
    /\ Unknown(p) /\ Fits(p, size) /\ Arrives(p)
    /\ \/ Buffering(p) /\ UNCHANGED <<made, armed>>
       \/ /\ ~Buffering(p) /\ made < MaxEntries
          /\ made' = made + 1 /\ armed' = armed \cup {Timer(p, made + 1)}
    /\ pending' = [pending EXCEPT
          ![p] = [id |-> IF Buffering(p) THEN @.id ELSE made + 1,
                  frames |-> Append(@.frames, [n |-> routed[p] + 1, size |-> size]),
                  bytes |-> @.bytes + size]]
    /\ pendingBytes' = pendingBytes + size
    /\ UNCHANGED <<registered, gone, excluded, excludeOnUnregister,
                   dropped, fired, sent, discarded, received>>

----------------------------------------------------------------------------
(* Registration. *)

\* Mutant of ClearedBytes: the bytes are given back twice.
ClearedBytesTwice(S) == pendingBytes - 2 * SumFunction([p \in S |-> pending[p].bytes])

\* clearPendingLocked for the panes in S: their bytes and timers go.
ClearedBytes(S) == pendingBytes - SumFunction([p \in S |-> pending[p].bytes])
WithoutPending(S) == [p \in Panes |-> IF p \in S THEN NoEntry ELSE pending[p]]
Stopped(S) == {Timer(p, pending[p].id) : p \in S}

\* Mutant of Flush: a frame buffered earlier is written after a later one.
FlushNewestFirst(p) == Outputs(Reverse(pending[p].frames))

\* The buffered frames Register hands to the sink.
Flush(p) == Outputs(pending[p].frames)

\* Register, for a sink whose next frames are what the caller enqueues.
Register(p, next) ==
    /\ registered' = registered \cup {p}
    /\ excluded' = excluded \ {p} /\ excludeOnUnregister' = excludeOnUnregister \ {p}
    /\ gone' = [gone EXCEPT ![p] = 0]
    /\ pending' = WithoutPending({p}) /\ pendingBytes' = ClearedBytes({p})
    /\ armed' = armed \ (Stopped({p}) \cup {Timer(p, gone[p])})
    /\ received' = [received EXCEPT ![p] = Flush(p) \o next]
    /\ sent' = [sent EXCEPT ![p] = @ + Len(pending[p].frames)]
    /\ UNCHANGED <<dropped, fired, made, routed, discarded>>

\* wireRenderer: the seed was captured at the last frame routed.
Wire(p) == p \notin registered /\ Register(p, <<Seed(routed[p])>>)

\* wireRenderer without a seed, and resetWindow's revival.
WireUnseeded(p) == p \notin registered /\ Register(p, <<>>)

\* Mutant of Unregister: what the pane had buffered is not counted as dropped.
UnregisterUncounted(p) ==
    /\ made < MaxEntries
    /\ registered' = registered \ {p}
    /\ excludeOnUnregister' = excludeOnUnregister \ {p}
    /\ excluded' = excluded \cup (excludeOnUnregister \cap {p})
    /\ pending' = WithoutPending({p}) /\ pendingBytes' = ClearedBytes({p})
    /\ made' = made + 1 /\ gone' = [gone EXCEPT ![p] = made + 1]
    /\ armed' = (armed \ (Stopped({p}) \cup {Timer(p, gone[p])}))
                   \cup {Timer(p, made + 1)}
    /\ received' = [received EXCEPT ![p] = <<>>]
    /\ UNCHANGED <<dropped, fired, routed, sent, discarded>>

Unregister(p) ==
    /\ made < MaxEntries
    /\ registered' = registered \ {p}
    /\ excludeOnUnregister' = excludeOnUnregister \ {p}
    /\ excluded' = excluded \cup (excludeOnUnregister \cap {p})
    /\ dropped' = dropped + Len(pending[p].frames)
    /\ pending' = WithoutPending({p}) /\ pendingBytes' = ClearedBytes({p})
    /\ made' = made + 1 /\ gone' = [gone EXCEPT ![p] = made + 1]
    /\ armed' = (armed \ (Stopped({p}) \cup {Timer(p, gone[p])}))
                   \cup {Timer(p, made + 1)}
    /\ received' = [received EXCEPT ![p] = <<>>]
    /\ UNCHANGED <<fired, routed, sent, discarded>>

\* Mutant of ExcludeLocked: a registered pane is excluded at once.
ExcludeLockedNow(S, ex, onUn) ==
    LET out == S
    IN  /\ excluded' = ex \cup out /\ excludeOnUnregister' = onUn
        /\ pending' = WithoutPending(out) /\ pendingBytes' = ClearedBytes(out)
        /\ armed' = armed \ Stopped(out)
        /\ discarded' = discarded
                        + SumFunction([p \in out |-> Len(pending[p].frames)])
        /\ UNCHANGED <<registered, gone, dropped, fired, made, routed, sent, received>>

\* excludeLocked over the sets ex and onUn.
ExcludeLocked(S, ex, onUn) ==
    LET out == S \ registered
    IN  /\ excluded' = ex \cup out
        /\ excludeOnUnregister' = onUn \cup (S \cap registered)
        /\ pending' = WithoutPending(out) /\ pendingBytes' = ClearedBytes(out)
        /\ armed' = armed \ Stopped(out)
        /\ discarded' = discarded
                        + SumFunction([p \in out |-> Len(pending[p].frames)])
        /\ UNCHANGED <<registered, gone, dropped, fired, made, routed, sent, received>>

Exclude(S) == ExcludeLocked(S, excluded, excludeOnUnregister)
SetExcluded(S) == ExcludeLocked(S, {}, {})

----------------------------------------------------------------------------
(* Expiry. *)

Fire(t) ==
    /\ t \in armed
    /\ armed' = armed \ {t} /\ fired' = fired \cup {t}
    /\ UNCHANGED <<tables, dropped, made, history>>

\* Mutant of ExpirePending: the entry is not compared with the timer's own.
ExpirePendingAny(t) ==
    /\ t \in fired /\ Buffering(t.pane)
    /\ dropped' = dropped + Len(pending[t.pane].frames)
    /\ pending' = WithoutPending({t.pane}) /\ pendingBytes' = ClearedBytes({t.pane})
    /\ fired' = fired \ {t}
    /\ UNCHANGED <<registered, gone, excluded, excludeOnUnregister, armed, made, history>>

ExpirePending(t) ==
    /\ t \in fired /\ pending[t.pane].id = t.id
    /\ dropped' = dropped + Len(pending[t.pane].frames)
    /\ pending' = WithoutPending({t.pane}) /\ pendingBytes' = ClearedBytes({t.pane})
    /\ fired' = fired \ {t}
    /\ UNCHANGED <<registered, gone, excluded, excludeOnUnregister, armed, made, history>>

ExpireGone(t) ==
    /\ t \in fired /\ gone[t.pane] = t.id
    /\ gone' = [gone EXCEPT ![t.pane] = 0]
    /\ fired' = fired \ {t}
    /\ UNCHANGED <<registered, pending, pendingBytes, excluded, excludeOnUnregister,
                   dropped, armed, made, history>>

\* The entry has been replaced since: the function returns without a change.
ExpireStale(t) ==
    /\ t \in fired /\ t.id \notin {pending[t.pane].id, gone[t.pane]}
    /\ fired' = fired \ {t}
    /\ UNCHANGED <<tables, dropped, armed, made, history>>

----------------------------------------------------------------------------
Route(p) ==
    \/ RouteRegistered(p) \/ RouteExcluded(p) \/ RouteGone(p)
    \/ \E size \in Sizes : RouteFull(p, size) \/ RouteBuffered(p, size)

Expire(t) == ExpirePending(t) \/ ExpireGone(t) \/ ExpireStale(t)

Next ==
    \/ \E p \in Panes : Route(p) \/ Wire(p) \/ WireUnseeded(p) \/ Unregister(p)
    \/ \E S \in SUBSET Panes : Exclude(S) \/ SetExcluded(S)
    \/ \E t \in armed : Fire(t)
    \/ \E t \in fired : Expire(t)

Spec == Init /\ [][Next]_vars

\* Timers fire and the goroutines they start get the lock.
Fairness == WF_vars(\E t \in armed : Fire(t)) /\ WF_vars(\E t \in fired : Expire(t))

FairSpec == Spec /\ Fairness

----------------------------------------------------------------------------
(* Properties. *)

Entries == [id : Nat, frames : Seq(Frames), bytes : Nat]
SinkFrames == [typ : {"output", "seed"}, n : Nat]

\* Every variable stays in its type.
TypeOK ==
    /\ registered \subseteq Panes /\ excluded \subseteq Panes
    /\ excludeOnUnregister \subseteq Panes
    /\ pending \in [Panes -> Entries] /\ pendingBytes \in Nat
    /\ gone \in [Panes -> Nat] /\ dropped \in Nat /\ discarded \in Nat
    /\ armed \subseteq Timers /\ fired \subseteq Timers /\ made \in Nat
    /\ routed \in [Panes -> Nat] /\ sent \in [Panes -> Nat]
    /\ received \in [Panes -> Seq(SinkFrames)]

\* A pane's output has one home: a pane with a sink is neither buffered, gone
\* nor excluded, an excluded or gone pane buffers nothing, and only a
\* registered pane is to be excluded later (Register, Unregister, excludeLocked).
OneHome ==
    \A p \in Panes :
        /\ p \in registered => ~Buffering(p) /\ gone[p] = 0 /\ p \notin excluded
        /\ p \in excludeOnUnregister => p \in registered
        /\ p \in excluded \/ gone[p] # 0 => ~Buffering(p)

\* The running totals equal what is buffered, and no limit is exceeded, however
\* entries were flushed, expired, excluded or unregistered.
BytesExact ==
    /\ \A p \in Panes :
          /\ pending[p].bytes = FoldLeft(LAMBDA b, f : b + f.size, 0, pending[p].frames)
          /\ pending[p].bytes <= MaxBytes /\ Len(pending[p].frames) <= MaxFrames
          /\ Buffering(p) <=> pending[p].frames # <<>>
    /\ pendingBytes = SumFunction([p \in Panes |-> pending[p].bytes])
    /\ pendingBytes <= MaxTotal

\* No frame vanishes: each was written to a sink, is still buffered, was counted
\* as dropped, or belonged to a pane the daemon was told to ignore.
Accounted ==
    RoutedAll = SumFunction(sent) + dropped + discarded
                + SumFunction([p \in Panes |-> Len(pending[p].frames)])

\* A sink, and the buffer a sink may yet be given, holds a pane's frames in the
\* order they came.
InOrder ==
    \A p \in Panes :
        LET q == received[p] \o Outputs(pending[p].frames)
        IN  \A i, j \in 1..Len(q) :
                i < j => \/ q[i].n < q[j].n
                         \/ q[j].typ = "seed" /\ q[i].n = q[j].n

\* The router keeps every frame, within the limits and in the order it came, or
\* counts it as dropped (router.go: Route, flush, expire).
FramesKept == BytesExact /\ Accounted /\ InOrder

\* A timer that was too late to be stopped ends only the entry it was made for.
ExpiresOwn ==
    [][\A p \in Panes, t \in fired :
          t \notin fired' /\ t.pane = p
             => /\ pending'[p].id # pending[p].id => pending[p].id = t.id
                /\ gone'[p] # gone[p] => gone[p] = t.id]_vars

====
