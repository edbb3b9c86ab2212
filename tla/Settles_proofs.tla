--------------------------- MODULE Settles_proofs ---------------------------
(***************************************************************************)
(* Proofs about the parts of MCSettles, for all values of its constants:   *)
(* the pane router, the size owners (by the theorems of SizeOwner_proofs), *)
(* the set of mirrored windows and the picker's opening of a session.      *)
(*                                                                         *)
(* The router.  OneHome is not inductive: that a new entry counts as one   *)
(* needs its id to differ from 0, and that an expired or excluded pane is  *)
(* out of every table needs the tables to be functions over the panes      *)
(* (Shape).  With OneHome it follows that an entry never loses its timer   *)
(* (Timed): the timer taken away with a pane's buffered output is never    *)
(* the one of its gone entry, for a pane has one of the two at most.       *)
(* FramesKept needs three more facts.  The totals are exact only as long   *)
(* as the entries have their types.  A frame is accounted for wherever an  *)
(* entry goes because the sums over the panes move with it (FoldSums).     *)
(* And the order holds because no number in a queue is beyond the last one *)
(* routed (Queues), and because a registered pane buffers nothing.         *)
(*                                                                         *)
(* The opening.  That no launcher outlives the picker is not inductive:    *)
(* the picker may be gone with a run that has not forked, and must know    *)
(* that it will not.  Freed of AttachRun says what the supervisor's stop   *)
(* has established when it lets the picker go, and that nothing takes it   *)
(* back: the context stays cancelled, so a run that has not started ends   *)
(* without a fork, and the group that got its KILL does not come up again  *)
(* (Launched).                                                             *)
(***************************************************************************)
EXTENDS MCSettles, FoldSums, TLAPS

----------------------------------------------------------------------------
(* The pane router, for any set of panes and any limits.                   *)

Shape ==
    /\ DOMAIN pending = Panes /\ DOMAIN gone = Panes /\ made \in Nat

\* An entry, buffered or gone, has a timer that is still to fire or to run.
Timed ==
    \A p \in Panes :
        /\ Buffering(p) => Timer(p, pending[p].id) \in armed \cup fired
        /\ gone[p] # 0 => Timer(p, gone[p]) \in armed \cup fired

IInv == Shape /\ OneHome /\ Timed

LEMMA InitInv == Init => IInv
BY DEF Init, IInv, Shape, OneHome, Timed, Buffering, NoEntry

----------------------------------------------------------------------------
(* Route. *)
LEMMA RouteStep == ASSUME IInv, NEW p \in Panes, Route(p) PROVE IInv'
<1> USE DEF IInv, Shape
<1>1. CASE RouteRegistered(p) \/ RouteExcluded(p) \/ RouteGone(p)
    <2>1. UNCHANGED <<tables, timers>>
        BY <1>1 DEF RouteRegistered, RouteExcluded, RouteGone, RouteDropped
    <2>2. QED BY <2>1 DEF tables, timers, OneHome, Timed, Buffering
<1>2. CASE \E size \in Sizes : RouteFull(p, size)
    <2>1. UNCHANGED <<tables, timers>>
        BY <1>2 DEF RouteFull, RouteDropped
    <2>2. QED BY <2>1 DEF tables, timers, OneHome, Timed, Buffering
<1>3. CASE \E size \in Sizes : RouteBuffered(p, size)
    <2>1. PICK size \in Sizes : RouteBuffered(p, size) BY <1>3
    <2> USE <2>1 DEF RouteBuffered, Unknown
    <2>2. /\ UNCHANGED <<registered, gone, excluded, excludeOnUnregister, fired>>
          /\ p \notin registered \cup excluded /\ gone[p] = 0
          /\ armed \subseteq armed'
        OBVIOUS
    <2>3. /\ DOMAIN pending' = Panes /\ made' \in Nat
          /\ \A q \in Panes \ {p} : pending'[q] = pending[q]
        OBVIOUS
    <2>4. Buffering(p) => pending'[p].id = pending[p].id
        BY <2>3
    <2>5. ~Buffering(p) => pending'[p].id = made + 1 /\ Timer(p, made + 1) \in armed'
        BY <2>3
    <2>6. OneHome'
        BY <2>2, <2>3 DEF OneHome, Buffering
    <2>7. Timed'
        BY <2>2, <2>3, <2>4, <2>5 DEF Timed, Buffering
    <2>8. QED BY <2>2, <2>3, <2>6, <2>7
<1>4. QED BY <1>1, <1>2, <1>3 DEF Route

----------------------------------------------------------------------------
(* Registration and exclusion. *)
LEMMA RegisterStep ==
    ASSUME IInv, NEW p \in Panes, NEW next, p \notin registered, Register(p, next)
    PROVE  IInv'
<1> USE DEF IInv, Shape, Register
<1>1. /\ DOMAIN pending' = Panes /\ DOMAIN gone' = Panes /\ made' = made /\ fired' = fired
      /\ pending'[p].id = 0 /\ gone'[p] = 0
      /\ \A q \in Panes \ {p} : pending'[q] = pending[q] /\ gone'[q] = gone[q]
    BY DEF WithoutPending, NoEntry
<1>2. OneHome'
    BY <1>1 DEF OneHome, Buffering
<1>3. \A q \in Panes \ {p} : \A i : Timer(q, i) \in armed => Timer(q, i) \in armed'
    BY DEF Stopped, Timer
<1>4. Timed'
    BY <1>1, <1>3 DEF Timed, Buffering
<1>5. QED BY <1>1, <1>2, <1>4

LEMMA UnregisterStep == ASSUME IInv, NEW p \in Panes, Unregister(p) PROVE IInv'
<1> USE DEF IInv, Shape, Unregister
<1>1. /\ DOMAIN pending' = Panes /\ DOMAIN gone' = Panes /\ made' = made + 1
      /\ fired' = fired /\ pending'[p].id = 0 /\ gone'[p] = made + 1
      /\ \A q \in Panes \ {p} : pending'[q] = pending[q] /\ gone'[q] = gone[q]
    BY DEF WithoutPending, NoEntry
<1>2. OneHome'
    BY <1>1 DEF OneHome, Buffering
<1>3. /\ Timer(p, made + 1) \in armed'
      /\ \A q \in Panes \ {p} : \A i : Timer(q, i) \in armed => Timer(q, i) \in armed'
    BY DEF Stopped, Timer
<1>4. Timed'
    BY <1>1, <1>3 DEF Timed, Buffering
<1>5. QED BY <1>1, <1>2, <1>4

\* Exclude keeps what is excluded already, SetExcluded starts from nothing.
LEMMA ExcludeStep ==
    ASSUME IInv, NEW S \in SUBSET Panes, NEW ex \in SUBSET excluded,
           NEW onUn \in SUBSET excludeOnUnregister, ExcludeLocked(S, ex, onUn)
    PROVE  IInv'
<1> DEFINE out == S \ registered
<1> USE DEF IInv, Shape
<1>1. /\ UNCHANGED <<registered, gone, fired, made>>
      /\ excluded' = ex \cup out /\ excludeOnUnregister' = onUn \cup (S \cap registered)
      /\ armed' = armed \ Stopped(out) /\ pending' = WithoutPending(out)
    BY DEF ExcludeLocked
<1>2. /\ DOMAIN pending' = Panes
      /\ \A q \in out : pending'[q].id = 0
      /\ \A q \in Panes \ out : pending'[q] = pending[q]
    BY <1>1 DEF WithoutPending, NoEntry
<1>3. OneHome'
    BY <1>1, <1>2 DEF OneHome, Buffering
<1>4. \A q \in Panes : \A i : Timer(q, i) \in armed /\ Timer(q, i) \notin armed'
                             => q \in out /\ i = pending[q].id
    BY <1>1 DEF Stopped, Timer
<1>5. \A q \in Panes : Buffering(q)' => Timer(q, pending'[q].id) \in armed' \cup fired'
    BY <1>1, <1>2, <1>4 DEF Timed, Buffering
<1>6. \A q \in Panes : gone'[q] # 0 => Timer(q, gone'[q]) \in armed' \cup fired'
    BY <1>1, <1>4 DEF Timed, OneHome, Buffering
<1>7. QED BY <1>1, <1>2, <1>3, <1>5, <1>6 DEF Timed

----------------------------------------------------------------------------
(* Timers. *)
LEMMA FireStep == ASSUME IInv, NEW t \in armed, Fire(t) PROVE IInv'
<1>1. UNCHANGED <<tables, made>> /\ armed' \cup fired' = armed \cup fired
    BY DEF Fire
<1>2. QED BY <1>1 DEF IInv, Shape, OneHome, Timed, Buffering, tables

LEMMA ExpireStep == ASSUME IInv, NEW t \in fired, Expire(t) PROVE IInv'
<1> USE DEF IInv, Shape
<1>1. /\ UNCHANGED <<registered, excluded, excludeOnUnregister, armed, made>>
      /\ fired' = fired \ {t}
    BY DEF Expire, ExpirePending, ExpireGone, ExpireStale, tables
<1>2. /\ DOMAIN pending' = Panes /\ DOMAIN gone' = Panes
      /\ \A q \in Panes : pending'[q].id \in {0, pending[q].id} /\ gone'[q] \in {0, gone[q]}
    BY DEF Expire, ExpirePending, ExpireGone, ExpireStale, tables, WithoutPending, NoEntry
<1>3. OneHome'
    BY <1>1, <1>2 DEF OneHome, Buffering
<1>4. \A q \in Panes : \A i :
        Timer(q, i) \in armed \cup fired /\ Timer(q, i) \notin armed' \cup fired'
                             => q = t.pane /\ i = t.id
    BY <1>1 DEF Timer
<1>5. t.pane \in Panes =>
        \/ pending[t.pane].id = t.id /\ pending'[t.pane].id = 0 /\ gone' = gone
        \/ gone[t.pane] = t.id /\ gone'[t.pane] = 0 /\ pending' = pending
        \/ t.id # pending[t.pane].id /\ t.id # gone[t.pane]
    BY DEF Expire, ExpirePending, ExpireGone, ExpireStale, tables, WithoutPending, NoEntry
<1>6. Timed'
    BY <1>2, <1>4, <1>5 DEF Timed, OneHome, Buffering
<1>7. QED BY <1>1, <1>2, <1>3, <1>6

----------------------------------------------------------------------------
(* The invariant, whatever the panes and the limits.                        *)
THEOREM Invariance == Spec => []IInv
<1>1. IInv /\ [Next]_vars => IInv'
    <2> SUFFICES ASSUME IInv, [Next]_vars PROVE IInv'
        OBVIOUS
    <2>1. ASSUME NEW p \in Panes, Route(p) PROVE IInv'
        BY <2>1, RouteStep
    <2>2. ASSUME NEW p \in Panes, Wire(p) \/ WireUnseeded(p) PROVE IInv'
        BY <2>2, RegisterStep DEF Wire, WireUnseeded
    <2>3. ASSUME NEW p \in Panes, Unregister(p) PROVE IInv'
        BY <2>3, UnregisterStep
    <2>4. ASSUME NEW S \in SUBSET Panes, Exclude(S) PROVE IInv'
        BY <2>4, ExcludeStep DEF Exclude
    <2>5. ASSUME NEW S \in SUBSET Panes, SetExcluded(S) PROVE IInv'
        BY <2>5, ExcludeStep DEF SetExcluded
    <2>6. ASSUME NEW t \in armed, Fire(t) PROVE IInv'
        BY <2>6, FireStep
    <2>7. ASSUME NEW t \in fired, Expire(t) PROVE IInv'
        BY <2>7, ExpireStep
    <2>8. CASE UNCHANGED vars
        BY <2>8 DEF vars, tables, timers, IInv, Shape, OneHome, Timed, Buffering
    <2>9. QED BY <2>1, <2>2, <2>3, <2>4, <2>5, <2>6, <2>7, <2>8 DEF Next
<1>2. QED BY InitInv, <1>1, PTL DEF Spec

(* A pane's output has one home, through any registrations, exclusions,     *)
(* expiries and late timers (Router).                                       *)
THEOREM HomeIsOne == Spec => []OneHome
<1>1. IInv => OneHome BY DEF IInv
<1>2. QED BY Invariance, <1>1, PTL

(* No entry is left without the timer that will end it, so none keeps its   *)
(* bytes, or marks its pane as gone, for ever (Route, Unregister, stops).   *)
THEOREM TimersKept == Spec => []Timed
<1>1. IInv => Timed BY DEF IInv
<1>2. QED BY Invariance, <1>1, PTL

(* A timer that was too late to be stopped ends only the entry it was made  *)
(* for (expirePending, expireGone).                                         *)
THEOREM LateTimersHarmless == Spec => ExpiresOwn
<1> DEFINE Own == \A p \in Panes, t \in fired :
                     t \notin fired' /\ t.pane = p
                       => /\ pending'[p].id # pending[p].id => pending[p].id = t.id
                          /\ gone'[p] # gone[p] => gone[p] = t.id
<1>1. [Next]_vars => [Own]_vars
    <2> SUFFICES ASSUME Next PROVE Own
        OBVIOUS
    <2>1. CASE \E u \in fired : Expire(u)
        BY <2>1 DEF Expire, ExpirePending, ExpireGone, ExpireStale, tables
    <2>2. CASE fired \subseteq fired'
        BY <2>2
    <2>3. fired \subseteq fired' \/ \E u \in fired : Expire(u)
        <3>1. ASSUME NEW p \in Panes, Route(p) PROVE fired' = fired
            BY <3>1 DEF Route, RouteRegistered, RouteExcluded, RouteGone, RouteFull,
                        RouteDropped, RouteBuffered, timers
        <3>2. ASSUME NEW p \in Panes, Wire(p) \/ WireUnseeded(p) \/ Unregister(p)
              PROVE  fired' = fired
            BY <3>2 DEF Wire, WireUnseeded, Register, Unregister
        <3>3. ASSUME NEW S \in SUBSET Panes, Exclude(S) \/ SetExcluded(S)
              PROVE  fired' = fired
            BY <3>3 DEF Exclude, SetExcluded, ExcludeLocked
        <3>4. ASSUME NEW t \in armed, Fire(t) PROVE fired \subseteq fired'
            BY <3>4 DEF Fire
        <3>5. QED BY <3>1, <3>2, <3>3, <3>4 DEF Next
    <2>4. QED BY <2>1, <2>2, <2>3
<1>2. QED BY <1>1, PTL DEF Spec, ExpiresOwn


----------------------------------------------------------------------------
(* The frames. *)

\* What pane p's sink holds, and what a sink may yet be given after it.
Queue(p) == received[p] \o Outputs(pending[p].frames)

\* The types, but for the running total, which BytesExact settles.
Types ==
    /\ registered \subseteq Panes /\ excluded \subseteq Panes
    /\ excludeOnUnregister \subseteq Panes
    /\ pending \in [Panes -> Entries]
    /\ gone \in [Panes -> Nat] /\ dropped \in Nat /\ discarded \in Nat
    /\ armed \subseteq Timers /\ fired \subseteq Timers /\ made \in Nat
    /\ routed \in [Panes -> Nat] /\ sent \in [Panes -> Nat]
    /\ received \in [Panes -> Seq(SinkFrames)]

Weights == [p \in Panes |-> pending[p].bytes]
Lengths == [p \in Panes |-> Len(pending[p].frames)]

\* The frames of a queue come in the order their numbers say.
Ordered(q) ==
    \A i, j \in 1..Len(q) :
        i < j => \/ q[i].n < q[j].n
                 \/ q[j].typ = "seed" /\ q[i].n = q[j].n

(* What is made of buffered frames is a sequence a sink can hold.            *)
LEMMA OutputsType ==
    ASSUME NEW q \in Seq(Frames)
    PROVE  /\ Outputs(q) \in Seq(SinkFrames) /\ Len(Outputs(q)) = Len(q)
           /\ \A i \in 1..Len(q) : Outputs(q)[i] = Output(q[i].n)
<1>1. /\ Len(q) \in Nat /\ \A i \in 1..Len(q) : q[i] \in Frames
    OBVIOUS
<1>2. \A i \in 1..Len(q) : Output(q[i].n) \in SinkFrames
    BY <1>1 DEF Output, SinkFrames, Frames
<1>3. Outputs(q) \in [1..Len(q) -> SinkFrames]
    BY <1>2 DEF Outputs
<1>4. QED BY <1>1, <1>3 DEF Outputs

(* A frame later than every other, or a seed of the last one, goes last.     *)
LEMMA OrderedAppend ==
    ASSUME NEW q \in Seq(SinkFrames), Ordered(q), NEW e \in SinkFrames,
           \A i \in 1..Len(q) : q[i].n < e.n \/ (e.typ = "seed" /\ q[i].n = e.n)
    PROVE  Ordered(Append(q, e))
<1>1. /\ Append(q, e) \in Seq(SinkFrames) /\ Len(q) \in Nat
      /\ Len(Append(q, e)) = Len(q) + 1 /\ Append(q, e)[Len(q) + 1] = e
      /\ \A i \in 1..Len(q) : Append(q, e)[i] = q[i]
    OBVIOUS
<1>2. QED BY <1>1 DEF Ordered

(* Both parts of an ordered queue are ordered.                              *)
LEMMA OrderedParts ==
    ASSUME NEW q \in Seq(SinkFrames), NEW r \in Seq(SinkFrames), Ordered(q \o r)
    PROVE  Ordered(q) /\ Ordered(r)
<1>1. /\ Len(q) \in Nat /\ Len(r) \in Nat /\ Len(q \o r) = Len(q) + Len(r)
      /\ \A i \in 1..Len(q) : (q \o r)[i] = q[i]
      /\ \A i \in 1..Len(r) : (q \o r)[Len(q) + i] = r[i]
    OBVIOUS
<1>2. Ordered(q)
    BY <1>1 DEF Ordered
<1>3. ASSUME NEW i \in 1..Len(r), NEW j \in 1..Len(r), i < j
      PROVE  r[i].n < r[j].n \/ (r[j].typ = "seed" /\ r[i].n = r[j].n)
    <2> DEFINE c == q \o r
               x == Len(q) + i
               y == Len(q) + j
    <2>1. x \in 1..Len(c) /\ y \in 1..Len(c) /\ x < y /\ c[x] = r[i] /\ c[y] = r[j]
        BY <1>1, <1>3
    <2>2. Ordered(c)
        OBVIOUS
    <2> HIDE DEF c, x, y
    <2>3. c[x].n < c[y].n \/ (c[y].typ = "seed" /\ c[x].n = c[y].n)
        BY <2>1, <2>2 DEF Ordered
    <2>4. QED BY <2>1, <2>3
<1>4. Ordered(r)
    BY <1>3 DEF Ordered
<1>5. QED BY <1>2, <1>4

----------------------------------------------------------------------------
(* The types. *)
(* Clearing panes leaves a table, and what it clears can be counted.         *)
LEMMA ClearTypes ==
    ASSUME Types, NEW S \in SUBSET Panes, pending' = WithoutPending(S)
    PROVE  /\ pending' \in [Panes -> Entries]
           /\ [p \in S |-> Len(pending[p].frames)] \in [S -> Nat]
           /\ SumFunction([p \in S |-> Len(pending[p].frames)]) \in Nat
<1>1. NoEntry \in Entries
    BY DEF NoEntry, Entries
<1>2. pending' \in [Panes -> Entries]
    BY <1>1 DEF WithoutPending, Types
<1>3. \A p \in S : Len(pending[p].frames) \in Nat
    BY DEF Types, Entries
<1> DEFINE w == [p \in S |-> Len(pending[p].frames)]
<1>4. w \in [S -> Int] /\ \A p \in S : w[p] \in Nat
    BY <1>3
<1>5. IsFiniteSet(S)
    BY PanesAssumption, FS_Subset
<1>6. w \in [S -> Nat]
    BY <1>3
<1> HIDE DEF w
<1>7. SumFunction(w) \in Nat
    BY <1>4, <1>5, SumInt
<1>8. QED BY <1>2, <1>6, <1>7 DEF w

(* Every step keeps the types.                                              *)
LEMMA TypesStep == ASSUME Types, Next PROVE Types'
<1> USE DEF Types
<1>1. ASSUME NEW p \in Panes, RouteRegistered(p) PROVE Types'
    <2>1. Output(routed[p] + 1) \in SinkFrames
        BY DEF Output, SinkFrames
    <2>2. received' \in [Panes -> Seq(SinkFrames)]
        BY <1>1, <2>1 DEF RouteRegistered
    <2>3. QED BY <1>1, <2>2 DEF RouteRegistered, Arrives, tables, timers
<1>2. ASSUME NEW p \in Panes, RouteExcluded(p) PROVE Types'
    BY <1>2 DEF RouteExcluded, Arrives, tables, timers
<1>3. ASSUME NEW p \in Panes, RouteDropped(p) PROVE Types'
    BY <1>3 DEF RouteDropped, Arrives, tables, timers
<1>4. ASSUME NEW p \in Panes, NEW size \in Sizes, RouteBuffered(p, size) PROVE Types'
    <2>1. [n |-> routed[p] + 1, size |-> size] \in Frames
        BY DEF Frames
    <2>2. pending[p].frames \in Seq(Frames) /\ pending[p].id \in Nat
          /\ pending[p].bytes \in Nat /\ size \in Nat
        BY SizesAssumption DEF Entries
    <2>3. [id |-> IF Buffering(p) THEN pending[p].id ELSE made + 1,
           frames |-> Append(pending[p].frames, [n |-> routed[p] + 1, size |-> size]),
           bytes |-> pending[p].bytes + size] \in Entries
        BY <2>1, <2>2 DEF Entries
    <2>4. pending' \in [Panes -> Entries]
        BY <1>4, <2>3 DEF RouteBuffered
    <2>5. made' \in Nat /\ armed' \subseteq Timers
        BY <1>4 DEF RouteBuffered, Timer, Timers
    <2>6. QED BY <1>4, <2>4, <2>5 DEF RouteBuffered, Arrives
<1>5. ASSUME NEW p \in Panes, NEW next \in Seq(SinkFrames), Register(p, next) PROVE Types'
    <2>1. pending' \in [Panes -> Entries]
        BY <1>5, ClearTypes DEF Register
    <2>2. pending[p].frames \in Seq(Frames) /\ Len(pending[p].frames) \in Nat
        BY DEF Entries
    <2>3. Flush(p) \o next \in Seq(SinkFrames)
        BY <2>2, OutputsType DEF Flush
    <2>4. received' \in [Panes -> Seq(SinkFrames)] /\ sent' \in [Panes -> Nat]
        BY <1>5, <2>2, <2>3 DEF Register
    <2>5. QED BY <1>5, <2>1, <2>4 DEF Register
<1>6. ASSUME NEW p \in Panes, Unregister(p) PROVE Types'
    <2>1. pending' \in [Panes -> Entries]
        BY <1>6, ClearTypes DEF Unregister
    <2>2. Len(pending[p].frames) \in Nat
        BY DEF Entries
    <2>3. made' \in Nat /\ armed' \subseteq Timers /\ gone' \in [Panes -> Nat]
        BY <1>6 DEF Unregister, Timer, Timers
    <2>4. received' \in [Panes -> Seq(SinkFrames)]
        BY <1>6 DEF Unregister
    <2>5. /\ registered' \subseteq Panes /\ excluded' \subseteq Panes
          /\ excludeOnUnregister' \subseteq Panes
        BY <1>6 DEF Unregister
    <2>6. dropped' \in Nat
        BY <1>6, <2>2 DEF Unregister
    <2>7. UNCHANGED <<fired, routed, sent, discarded>>
        BY <1>6 DEF Unregister
    <2>8. QED BY <2>1, <2>3, <2>4, <2>5, <2>6, <2>7
<1>7. ASSUME NEW S \in SUBSET Panes, NEW ex \in SUBSET Panes, NEW onUn \in SUBSET Panes,
             ExcludeLocked(S, ex, onUn) PROVE Types'
    <2>1. S \ registered \in SUBSET Panes OBVIOUS
    <2>2. /\ pending' \in [Panes -> Entries]
          /\ SumFunction([p \in (S \ registered) |-> Len(pending[p].frames)]) \in Nat
        BY <1>7, <2>1, ClearTypes DEF ExcludeLocked
    <2>3. /\ excluded' \subseteq Panes /\ excludeOnUnregister' \subseteq Panes
          /\ armed' \subseteq Timers
        BY <1>7 DEF ExcludeLocked
    <2>4. discarded' \in Nat
        BY <1>7, <2>2 DEF ExcludeLocked
    <2>5. UNCHANGED <<registered, gone, dropped, fired, made, routed, sent, received>>
        BY <1>7 DEF ExcludeLocked
    <2>6. QED BY <2>2, <2>3, <2>4, <2>5
<1>8. ASSUME NEW t \in armed, Fire(t) PROVE Types'
    BY <1>8 DEF Fire, tables, history
<1>9. ASSUME NEW t \in fired, Expire(t) PROVE Types'
    <2>1. t.pane \in Panes
        BY DEF Timers
    <2>2. CASE ExpirePending(t)
        <3>1. pending' \in [Panes -> Entries]
            BY <2>1, <2>2, ClearTypes DEF ExpirePending
        <3>2. Len(pending[t.pane].frames) \in Nat
            BY <2>1 DEF Entries
        <3>3. dropped' \in Nat /\ fired' \subseteq Timers
            <4>1. dropped' = dropped + Len(pending[t.pane].frames) /\ fired' = fired \ {t}
                BY <2>2 DEF ExpirePending
            <4>2. QED BY <3>2, <4>1
        <3>4. UNCHANGED <<registered, gone, excluded, excludeOnUnregister, armed, made,
                          history>>
            BY <2>2 DEF ExpirePending
        <3>5. QED BY <3>1, <3>3, <3>4 DEF history
    <2>3. CASE ExpireGone(t) \/ ExpireStale(t)
        <3>1. /\ fired' = fired \ {t}
              /\ gone' = gone \/ gone' = [gone EXCEPT ![t.pane] = 0]
            BY <2>3 DEF ExpireGone, ExpireStale, tables
        <3>2. UNCHANGED <<registered, pending, excluded, excludeOnUnregister, dropped,
                          armed, made, history>>
            BY <2>3 DEF ExpireGone, ExpireStale, tables
        <3>3. gone \in [Panes -> Nat] /\ fired \subseteq Timers
            OBVIOUS
        <3>4. [gone EXCEPT ![t.pane] = 0] \in [Panes -> Nat]
            BY <2>1, <3>3
        <3>5. gone' \in [Panes -> Nat]
            BY <3>1, <3>3, <3>4, Zenon
        <3>6. fired' \subseteq Timers
            BY <3>1, <3>3
        <3>7. QED BY <3>2, <3>5, <3>6 DEF history
    <2>4. QED BY <1>9, <2>2, <2>3 DEF Expire
<1>10. ASSUME NEW p \in Panes PROVE Seed(routed[p]) \in SinkFrames
    BY DEF Seed, SinkFrames
<1>11. ASSUME NEW p \in Panes, Wire(p) \/ WireUnseeded(p) PROVE Types'
    <2>1. <<Seed(routed[p])>> \in Seq(SinkFrames) /\ <<>> \in Seq(SinkFrames)
        BY <1>10
    <2>2. QED BY <1>5, <1>11, <2>1 DEF Wire, WireUnseeded
<1>12. ASSUME NEW S \in SUBSET Panes, Exclude(S) \/ SetExcluded(S) PROVE Types'
    <2>1. CASE Exclude(S)
        BY <1>7, <2>1 DEF Exclude
    <2>2. CASE SetExcluded(S)
        <3>1. {} \in SUBSET Panes OBVIOUS
        <3>2. QED BY <1>7, <2>2, <3>1 DEF SetExcluded
    <2>3. QED BY <1>12, <2>1, <2>2
<1>13. ASSUME NEW p \in Panes, Route(p) PROVE Types'
    BY <1>1, <1>2, <1>3, <1>4, <1>13 DEF Route, RouteGone, RouteFull
<1> HIDE DEF Types
<1>14. QED BY <1>6, <1>8, <1>9, <1>11, <1>12, <1>13 DEF Next

----------------------------------------------------------------------------
(* The running totals. *)

\* What is cleared for the panes of S is gone from the sums.
LEMMA Cleared ==
    ASSUME Types, NEW S \in SUBSET Panes, pending' = WithoutPending(S)
    PROVE  /\ SumFunction(Weights) = SumFunction([p \in S |-> pending[p].bytes])
                                     + SumFunction(Weights')
           /\ SumFunction(Lengths) = SumFunction([p \in S |-> Len(pending[p].frames)])
                                     + SumFunction(Lengths')
           /\ SumFunction([p \in S |-> pending[p].bytes]) \in Nat
           /\ SumFunction(Weights') \in Nat
           /\ SumFunction(Lengths') \in Nat
<1> DEFINE bytes == [p \in S |-> pending[p].bytes]
           l == [p \in S |-> Len(pending[p].frames)]
<1>1. \A p \in Panes : pending[p].bytes \in Nat /\ Len(pending[p].frames) \in Nat
    BY DEF Types, Entries
<1>2. \A p \in Panes : pending'[p] = IF p \in S THEN NoEntry ELSE pending[p]
    BY DEF WithoutPending
<1>3. Weights \in [Panes -> Int] /\ Lengths \in [Panes -> Int]
    BY <1>1 DEF Weights, Lengths
<1>4. bytes \in [S -> Int] /\ \A p \in S : bytes[p] = Weights[p] /\ bytes[p] \in Nat
    BY <1>1 DEF Weights
<1>5. l \in [S -> Int] /\ \A p \in S : l[p] = Lengths[p] /\ l[p] \in Nat
    BY <1>1 DEF Lengths
<1>6. /\ Weights' \in [Panes -> Int]
      /\ \A p \in Panes : /\ Weights'[p] = IF p \in S THEN 0 ELSE Weights[p]
                          /\ Weights'[p] \in Nat
    BY <1>1, <1>2 DEF Weights, NoEntry
<1>7. /\ Lengths' \in [Panes -> Int]
      /\ \A p \in Panes : /\ Lengths'[p] = IF p \in S THEN 0 ELSE Lengths[p]
                          /\ Lengths'[p] \in Nat
    BY <1>1, <1>2 DEF Lengths, NoEntry
<1>8. IsFiniteSet(Panes) /\ IsFiniteSet(S)
    BY PanesAssumption, FS_Subset
<1> HIDE DEF bytes, l
<1>9. SumFunction(Weights) = SumFunction(bytes) + SumFunction(Weights')
    BY <1>3, <1>4, <1>6, <1>8, SumSplit
<1>10. SumFunction(Lengths) = SumFunction(l) + SumFunction(Lengths')
    BY <1>3, <1>5, <1>7, <1>8, SumSplit
<1>11. SumFunction(bytes) \in Nat
    BY <1>4, <1>8, SumInt
<1>12. SumFunction(Weights') \in Nat /\ SumFunction(Lengths') \in Nat
    BY <1>6, <1>7, <1>8, SumInt
<1>13. QED BY <1>9, <1>10, <1>11, <1>12 DEF bytes, l

\* The totals of one entry, and of all.
EntryExact(e) ==
    /\ e.bytes = Bytes(e.frames) /\ e.bytes <= MaxBytes /\ Len(e.frames) <= MaxFrames
    /\ e.id # 0 <=> e.frames # <<>>

Exact ==
    /\ \A p \in Panes : EntryExact(pending[p])
    /\ pendingBytes = SumFunction(Weights) /\ pendingBytes <= MaxTotal

(* BytesExact, said of the entries and of the total.                        *)
LEMMA ExactParts == BytesExact <=> Exact
BY DEF BytesExact, Exact, EntryExact, Bytes, Weights, Buffering

LEMMA ExactPartsPrimed == BytesExact' <=> Exact'
BY ExactParts, PTL

(* The totals stay exact where panes are cleared,                           *)
LEMMA ClearExact ==
    ASSUME Types, BytesExact, NEW S \in SUBSET Panes,
           pending' = WithoutPending(S), pendingBytes' = ClearedBytes(S)
    PROVE  BytesExact'
<1>1. EntryExact(NoEntry)
    BY BytesEmpty, LimitsAssumption DEF EntryExact, NoEntry
<1>2. \A p \in Panes : EntryExact(pending'[p])
    BY <1>1, ExactParts DEF Exact, WithoutPending
<1> DEFINE c == SumFunction([p \in S |-> pending[p].bytes])
<1>3. /\ SumFunction(Weights) = c + SumFunction(Weights')
      /\ c \in Nat /\ SumFunction(Weights') \in Nat
    BY Cleared
<1>4. pendingBytes' = pendingBytes - c /\ pendingBytes = SumFunction(Weights)
      /\ pendingBytes <= MaxTotal
    BY ExactParts DEF Exact, ClearedBytes
<1> HIDE DEF c
<1>5. pendingBytes' = SumFunction(Weights') /\ pendingBytes' <= MaxTotal
    BY <1>3, <1>4, LimitsAssumption
<1>6. QED BY <1>2, <1>5, ExactPartsPrimed DEF Exact

(* where a frame is buffered,                                               *)
LEMMA BufferExact ==
    ASSUME Types, BytesExact, NEW p \in Panes, NEW size \in Sizes, RouteBuffered(p, size)
    PROVE  /\ BytesExact'
           /\ SumFunction(Lengths') = SumFunction(Lengths) + 1
<1> DEFINE e == pending[p]
           f == [n |-> routed[p] + 1, size |-> size]
           d == pending'[p]
<1>1. size \in Nat \ {0} /\ e \in Entries /\ Len(e.frames) \in Nat
    BY SizesAssumption DEF Types, Entries
<1>2. f \in Frames
    BY DEF Types, Frames
<1>3. /\ d.frames = Append(e.frames, f) /\ d.bytes = e.bytes + size
      /\ d.id = IF Buffering(p) THEN e.id ELSE made + 1
    BY DEF RouteBuffered, Types
<1>4. \A q \in Panes \ {p} : pending'[q] = pending[q]
    BY DEF RouteBuffered, Types
<1>5. /\ Len(e.frames) < MaxFrames /\ e.bytes + size <= MaxBytes
      /\ pendingBytes + size <= MaxTotal /\ pendingBytes' = pendingBytes + size
    BY DEF RouteBuffered, Fits
<1> HIDE DEF d
<1>6. Bytes(Append(e.frames, f)) = Bytes(e.frames) + size
    <2>1. \A x \in Frames : x.size \in Int
        <3>1. \A x \in Frames : x.size \in Sizes
            BY DEF Frames
        <3>2. Sizes \subseteq Int
            BY SizesAssumption
        <3>3. QED BY <3>1, <3>2
    <2>2. e.frames \in Seq(Frames)
        BY <1>1 DEF Entries
    <2>3. Bytes(Append(e.frames, f)) = Bytes(e.frames) + f.size
        BY <1>2, <2>1, <2>2, BytesAppend
    <2>4. QED BY <2>3
<1>7. EntryExact(e)
    BY ExactParts DEF Exact
<1>8. d.id # 0
    BY <1>3 DEF Buffering, Types
<1>9. Len(d.frames) = Len(e.frames) + 1
    BY <1>1, <1>3 DEF Entries
<1>10. EntryExact(d)
    <2>1. d.bytes = Bytes(d.frames) /\ d.bytes <= MaxBytes
        BY <1>3, <1>5, <1>6, <1>7 DEF EntryExact
    <2>2. Len(d.frames) <= MaxFrames
        BY <1>1, <1>5, <1>9, LimitsAssumption
    <2>3. d.frames # <<>>
        BY <1>1, <1>9
    <2>4. QED BY <1>8, <2>1, <2>2, <2>3 DEF EntryExact
<1>11. \A q \in Panes : EntryExact(pending'[q])
    <2>1. \A q \in Panes \ {p} : EntryExact(pending[q])
        BY ExactParts DEF Exact
    <2>2. QED BY <1>4, <1>10, <2>1 DEF d
<1>12. /\ Weights \in [Panes -> Int] /\ Weights' \in [Panes -> Int]
       /\ Weights'[p] = Weights[p] + size /\ Weights[p] \in Int
       /\ \A q \in Panes \ {p} : Weights'[q] = Weights[q]
    <2>1. \A q \in Panes : pending[q].bytes \in Nat
        BY DEF Types, Entries
    <2>2. \A q \in Panes : pending'[q].bytes \in Nat
        BY <1>1, <1>3, <1>4, <2>1 DEF d
    <2>3. QED BY <1>1, <1>3, <1>4, <2>1, <2>2 DEF Weights, d
<1>13. /\ Lengths \in [Panes -> Int] /\ Lengths' \in [Panes -> Int]
       /\ Lengths'[p] = Lengths[p] + 1 /\ Lengths[p] \in Int
       /\ \A q \in Panes \ {p} : Lengths'[q] = Lengths[q]
    <2>1. \A q \in Panes : Len(pending[q].frames) \in Nat
        BY DEF Types, Entries
    <2>2. \A q \in Panes : Len(pending'[q].frames) \in Nat
        BY <1>1, <1>4, <1>9, <2>1 DEF d
    <2>3. QED BY <1>4, <1>9, <2>1, <2>2 DEF Lengths, d
<1>14. SumFunction(Weights') = SumFunction(Weights) - Weights[p] + Weights'[p]
       /\ SumFunction(Weights) \in Int
    BY <1>12, PanesAssumption, SumChange, SumInt
<1>15. SumFunction(Lengths') = SumFunction(Lengths) - Lengths[p] + Lengths'[p]
       /\ SumFunction(Lengths) \in Int
    BY <1>13, PanesAssumption, SumChange, SumInt
<1>16. pendingBytes' = SumFunction(Weights') /\ pendingBytes' <= MaxTotal
    BY <1>1, <1>5, <1>12, <1>14, ExactParts DEF Exact
<1>17. SumFunction(Lengths') = SumFunction(Lengths) + 1
    BY <1>13, <1>15
<1>18. QED BY <1>11, <1>16, <1>17, ExactPartsPrimed DEF Exact

----------------------------------------------------------------------------
(* Every frame is somewhere. *)
\* What a step that clears the panes of S, and routes nothing, does to the sums.
LEMMA ClearAccounted ==
    ASSUME Types, Accounted, NEW S \in SUBSET Panes, pending' = WithoutPending(S),
           routed' = routed,
           SumFunction(sent') + dropped' + discarded'
             = SumFunction(sent) + dropped + discarded
               + SumFunction([p \in S |-> Len(pending[p].frames)])
    PROVE  Accounted'
<1> DEFINE c == SumFunction([p \in S |-> Len(pending[p].frames)])
<1>1. SumFunction(Lengths) = c + SumFunction(Lengths')
    BY Cleared
<1>2. c \in Nat /\ SumFunction(Lengths') \in Nat
    BY Cleared, ClearTypes
<1>3. SumFunction(sent) \in Int /\ dropped \in Int /\ discarded \in Int
    <2>1. sent \in [Panes -> Int] BY DEF Types
    <2>2. QED BY <2>1, PanesAssumption, SumInt DEF Types
<1>4. RoutedAll = SumFunction(sent) + dropped + discarded + SumFunction(Lengths)
    BY DEF Accounted, Lengths
<1>5. RoutedAll' = RoutedAll
    BY DEF RoutedAll
<1> HIDE DEF c
<1>6. SumFunction(sent') + dropped' + discarded'
        = SumFunction(sent) + dropped + discarded + c
    BY DEF c
<1>7. RoutedAll' = SumFunction(sent') + dropped' + discarded' + SumFunction(Lengths')
    BY <1>1, <1>2, <1>3, <1>4, <1>5, <1>6
<1>8. QED BY <1>7 DEF Accounted, Lengths

\* The sums of one more frame.
LEMMA OneMore ==
    ASSUME NEW f \in [Panes -> Nat], NEW p \in Panes
    PROVE  SumFunction([f EXCEPT ![p] = @ + 1]) = SumFunction(f) + 1
           /\ SumFunction(f) \in Nat
<1> DEFINE g == [f EXCEPT ![p] = @ + 1]
<1>1. f \in [Panes -> Int] /\ g \in [Panes -> Int] /\ g[p] = f[p] + 1 /\ f[p] \in Int
    OBVIOUS
<1>2. (\A q \in Panes \ {p} : g[q] = f[q]) /\ \A q \in Panes : f[q] \in Nat
    OBVIOUS
<1> HIDE DEF g
<1>3. SumFunction(g) = SumFunction(f) - f[p] + g[p]
    BY <1>1, <1>2, PanesAssumption, SumChange
<1>4. SumFunction(f) \in Nat
    BY <1>1, <1>2, PanesAssumption, SumInt
<1>5. SumFunction(g) = SumFunction(f) + 1
    BY <1>1, <1>3, <1>4
<1>6. QED BY <1>4, <1>5 DEF g

\* A routed frame is written, ignored, dropped or buffered.
LEMMA RouteAccounted ==
    ASSUME Types, BytesExact, Accounted, NEW p \in Panes, Route(p)
    PROVE  Accounted'
<1> DEFINE s == SumFunction(sent)
           l == SumFunction(Lengths)
<1>1. /\ routed \in [Panes -> Nat] /\ sent \in [Panes -> Nat]
      /\ dropped \in Nat /\ discarded \in Nat
    BY DEF Types
<1>2. s \in Nat
    BY <1>1, OneMore
<1>3. l \in Int
    <2>1. Lengths \in [Panes -> Int]
        BY DEF Types, Entries, Lengths
    <2>2. QED BY <2>1, PanesAssumption, SumInt
<1>4. RoutedAll = s + dropped + discarded + l
    BY DEF Accounted, Lengths
<1>5. routed' = [routed EXCEPT ![p] = @ + 1]
    BY DEF Route, RouteRegistered, RouteExcluded, RouteGone, RouteFull, RouteBuffered,
           RouteDropped, Arrives
<1>6. RoutedAll' = RoutedAll + 1 /\ RoutedAll \in Nat
    BY <1>1, <1>5, OneMore DEF RoutedAll
<1>7. SumFunction(sent') + dropped' + discarded' + SumFunction(Lengths')
        = s + dropped + discarded + l + 1
    <2>1. CASE RouteRegistered(p)
        <3>1. /\ sent' = [sent EXCEPT ![p] = @ + 1]
              /\ UNCHANGED <<pending, dropped, discarded>>
            BY <2>1 DEF RouteRegistered, tables
        <3>2. SumFunction(sent') = s + 1
            BY <1>1, <3>1, OneMore
        <3>3. SumFunction(Lengths') = l
            BY <3>1 DEF Lengths
        <3> HIDE DEF s, l
        <3>4. QED BY <1>1, <1>2, <1>3, <3>1, <3>2, <3>3
    <2>2. CASE RouteExcluded(p)
        <3>1. discarded' = discarded + 1 /\ UNCHANGED <<pending, dropped, sent>>
            BY <2>2 DEF RouteExcluded, tables
        <3>2. SumFunction(Lengths') = l /\ SumFunction(sent') = s
            BY <3>1 DEF Lengths
        <3> HIDE DEF s, l
        <3>3. QED BY <1>1, <1>2, <1>3, <3>1, <3>2
    <2>3. CASE RouteDropped(p)
        <3>1. dropped' = dropped + 1 /\ UNCHANGED <<pending, discarded, sent>>
            BY <2>3 DEF RouteDropped, tables
        <3>2. SumFunction(Lengths') = l /\ SumFunction(sent') = s
            BY <3>1 DEF Lengths
        <3> HIDE DEF s, l
        <3>3. QED BY <1>1, <1>2, <1>3, <3>1, <3>2
    <2>4. CASE \E size \in Sizes : RouteBuffered(p, size)
        <3>1. UNCHANGED <<dropped, discarded, sent>>
            BY <2>4 DEF RouteBuffered
        <3>2. SumFunction(Lengths') = l + 1
            BY <2>4, BufferExact
        <3>3. SumFunction(sent') = s
            BY <3>1
        <3> HIDE DEF s, l
        <3>4. QED BY <1>1, <1>2, <1>3, <3>1, <3>2, <3>3
    <2>5. QED BY <2>1, <2>2, <2>3, <2>4 DEF Route, RouteGone, RouteFull
<1> HIDE DEF s, l
<1>8. RoutedAll' = SumFunction(sent') + dropped' + discarded' + SumFunction(Lengths')
    BY <1>4, <1>6, <1>7
<1>9. QED BY <1>8 DEF Accounted, Lengths

\* The sum over one pane.
LEMMA OnePane ==
    ASSUME Types, NEW p \in Panes
    PROVE  SumFunction([q \in {p} |-> Len(pending[q].frames)]) = Len(pending[p].frames)
<1> DEFINE w == [q \in {p} |-> Len(pending[q].frames)]
<1>1. w \in [{p} -> Int] /\ w[p] = Len(pending[p].frames)
    BY DEF Types, Entries
<1> HIDE DEF w
<1>2. SumFunction(w) = w[p]
    BY <1>1, SumOne
<1>3. QED BY <1>1, <1>2 DEF w

(* No step loses a frame.                                                   *)
LEMMA AccountedStep ==
    ASSUME Types, BytesExact, Accounted, Next
    PROVE  Accounted'
<1>1. /\ sent \in [Panes -> Nat] /\ dropped \in Nat /\ discarded \in Nat
      /\ SumFunction(sent) \in Nat
      /\ \A p \in Panes : Len(pending[p].frames) \in Nat
    <2>1. sent \in [Panes -> Int] /\ \A p \in Panes : sent[p] \in Nat
        BY DEF Types
    <2>2. SumFunction(sent) \in Nat
        BY <2>1, PanesAssumption, SumInt
    <2>3. QED BY <2>2 DEF Types, Entries
<1>2. ASSUME NEW p \in Panes, NEW next, Register(p, next) PROVE Accounted'
    <2> DEFINE n == Len(pending[p].frames)
    <2>1. /\ pending' = WithoutPending({p}) /\ routed' = routed
          /\ dropped' = dropped /\ discarded' = discarded
          /\ sent' = [sent EXCEPT ![p] = @ + n]
        BY <1>2 DEF Register
    <2>2. /\ sent \in [Panes -> Int] /\ sent' \in [Panes -> Int] /\ sent'[p] = sent[p] + n
          /\ sent[p] \in Int /\ n \in Nat
          /\ \A q \in Panes \ {p} : sent'[q] = sent[q]
        BY <1>1, <2>1
    <2> HIDE DEF n
    <2>3. SumFunction(sent') = SumFunction(sent) - sent[p] + sent'[p]
        BY <2>2, PanesAssumption, SumChange
    <2>4. SumFunction(sent') = SumFunction(sent) + n
        BY <1>1, <2>2, <2>3
    <2>5. SumFunction([q \in {p} |-> Len(pending[q].frames)]) = n
        BY OnePane DEF n
    <2>6. SumFunction(sent') + dropped' + discarded'
            = SumFunction(sent) + dropped + discarded
              + SumFunction([q \in {p} |-> Len(pending[q].frames)])
        BY <1>1, <2>1, <2>2, <2>4, <2>5
    <2>7. {p} \in SUBSET Panes OBVIOUS
    <2>8. QED BY <2>1, <2>6, <2>7, ClearAccounted
<1>3. ASSUME NEW p \in Panes, pending' = WithoutPending({p}),
             UNCHANGED <<routed, sent, discarded>>,
             dropped' = dropped + Len(pending[p].frames)
      PROVE  Accounted'
    <2> DEFINE n == Len(pending[p].frames)
    <2>1. n \in Nat /\ dropped' = dropped + n
        BY <1>1, <1>3
    <2>2. SumFunction([q \in {p} |-> Len(pending[q].frames)]) = n
        BY OnePane
    <2>3. SumFunction(sent') = SumFunction(sent) /\ discarded' = discarded
        BY <1>3
    <2> HIDE DEF n
    <2>4. SumFunction(sent') + dropped' + discarded'
            = SumFunction(sent) + dropped + discarded
              + SumFunction([q \in {p} |-> Len(pending[q].frames)])
        BY <1>1, <2>1, <2>2, <2>3
    <2>5. {p} \in SUBSET Panes OBVIOUS
    <2>6. QED BY <1>3, <2>4, <2>5, ClearAccounted
<1>4. ASSUME NEW S \in SUBSET Panes, NEW ex, NEW onUn, ExcludeLocked(S, ex, onUn)
      PROVE  Accounted'
    <2> DEFINE out == S \ registered
               c == SumFunction([p \in out |-> Len(pending[p].frames)])
    <2>1. /\ pending' = WithoutPending(out) /\ routed' = routed
          /\ dropped' = dropped /\ sent' = sent /\ discarded' = discarded + c
        BY <1>4 DEF ExcludeLocked
    <2>2. out \in SUBSET Panes
        OBVIOUS
    <2> HIDE DEF out
    <2>3. c \in Nat
        BY <2>1, <2>2, ClearTypes
    <2> HIDE DEF c
    <2>4. SumFunction(sent') + dropped' + discarded'
            = SumFunction(sent) + dropped + discarded + c
        BY <1>1, <2>1, <2>3
    <2>5. QED BY <2>1, <2>2, <2>4, ClearAccounted DEF c
<1>5. ASSUME UNCHANGED <<pending, routed, sent, dropped, discarded>> PROVE Accounted'
    BY <1>5 DEF Accounted, RoutedAll
<1>6. ASSUME NEW p \in Panes, Wire(p) \/ WireUnseeded(p) PROVE Accounted'
    BY <1>2, <1>6 DEF Wire, WireUnseeded
<1>7. ASSUME NEW p \in Panes, Unregister(p) PROVE Accounted'
    BY <1>3, <1>7 DEF Unregister
<1>8. ASSUME NEW S \in SUBSET Panes, Exclude(S) \/ SetExcluded(S) PROVE Accounted'
    BY <1>4, <1>8 DEF Exclude, SetExcluded
<1>9. ASSUME NEW t \in armed, Fire(t) PROVE Accounted'
    BY <1>5, <1>9 DEF Fire, tables, history
<1>10. ASSUME NEW t \in fired, Expire(t) PROVE Accounted'
    <2>1. t.pane \in Panes
        BY DEF Types, Timers
    <2>2. CASE ExpirePending(t)
        BY <1>3, <2>1, <2>2 DEF ExpirePending, history
    <2>3. CASE ExpireGone(t) \/ ExpireStale(t)
        BY <1>5, <2>3 DEF ExpireGone, ExpireStale, tables, history
    <2>4. QED BY <1>10, <2>2, <2>3 DEF Expire
<1>11. QED BY RouteAccounted, <1>6, <1>7, <1>8, <1>9, <1>10 DEF Next

----------------------------------------------------------------------------
(* The order of the frames. *)

\* A queue whose numbers do not pass n, in order.
Upto(q, n) ==
    /\ q \in Seq(SinkFrames) /\ Ordered(q)
    /\ \A i \in 1..Len(q) : q[i].n <= n

Queues == \A p \in Panes : Upto(Queue(p), routed[p])

\* The numbers are natural.
LEMMA NumbersNat ==
    ASSUME NEW q \in Seq(SinkFrames), NEW i \in 1..Len(q)
    PROVE  q[i].n \in Nat
<1>1. q[i] \in SinkFrames
    OBVIOUS
<1>2. QED BY <1>1 DEF SinkFrames

\* An empty queue, a queue with the next output, and one with a seed.
LEMMA UptoEmpty == ASSUME NEW n \in Nat PROVE Upto(<<>>, n)
BY DEF Upto, Ordered

LEMMA UptoOutput ==
    ASSUME NEW n \in Nat, NEW q, Upto(q, n)
    PROVE  Upto(Append(q, Output(n + 1)), n + 1)
<1> DEFINE e == Output(n + 1)
<1>1. e \in SinkFrames /\ e.n = n + 1 /\ q \in Seq(SinkFrames) /\ Ordered(q)
    BY DEF Output, SinkFrames, Upto
<1>2. \A i \in 1..Len(q) : q[i].n \in Nat /\ q[i].n <= n
    BY NumbersNat DEF Upto
<1> HIDE DEF e
<1>3. Ordered(Append(q, e))
    BY <1>1, <1>2, OrderedAppend
<1>4. /\ Append(q, e) \in Seq(SinkFrames) /\ Len(q) \in Nat
      /\ Len(Append(q, e)) = Len(q) + 1 /\ Append(q, e)[Len(q) + 1] = e
      /\ \A i \in 1..Len(q) : Append(q, e)[i] = q[i]
    BY <1>1
<1>5. \A i \in 1..Len(Append(q, e)) : Append(q, e)[i].n <= n + 1
    BY <1>1, <1>2, <1>4
<1>6. Upto(Append(q, e), n + 1)
    BY <1>3, <1>4, <1>5 DEF Upto
<1>7. QED BY <1>6 DEF e

LEMMA UptoSeed ==
    ASSUME NEW n \in Nat, NEW q, Upto(q, n)
    PROVE  Upto(Append(q, Seed(n)), n)
<1> DEFINE e == Seed(n)
<1>1. e \in SinkFrames /\ e.n = n /\ e.typ = "seed" /\ q \in Seq(SinkFrames) /\ Ordered(q)
    BY DEF Seed, SinkFrames, Upto
<1>2. \A i \in 1..Len(q) : q[i].n \in Nat /\ q[i].n <= n
    BY NumbersNat DEF Upto
<1> HIDE DEF e
<1>3. Ordered(Append(q, e))
    BY <1>1, <1>2, OrderedAppend
<1>4. /\ Append(q, e) \in Seq(SinkFrames) /\ Len(q) \in Nat
      /\ Len(Append(q, e)) = Len(q) + 1 /\ Append(q, e)[Len(q) + 1] = e
      /\ \A i \in 1..Len(q) : Append(q, e)[i] = q[i]
    BY <1>1
<1>5. \A i \in 1..Len(Append(q, e)) : Append(q, e)[i].n <= n
    BY <1>1, <1>2, <1>4
<1>6. Upto(Append(q, e), n)
    BY <1>3, <1>4, <1>5 DEF Upto
<1>7. QED BY <1>6 DEF e

\* The parts of such a queue.
LEMMA UptoParts ==
    ASSUME NEW n, NEW q \in Seq(SinkFrames), NEW r \in Seq(SinkFrames), Upto(q \o r, n)
    PROVE  Upto(q, n) /\ Upto(r, n)
<1>1. /\ Len(q) \in Nat /\ Len(r) \in Nat /\ Len(q \o r) = Len(q) + Len(r)
      /\ \A i \in 1..Len(q) : (q \o r)[i] = q[i]
      /\ \A i \in 1..Len(r) : (q \o r)[Len(q) + i] = r[i]
    OBVIOUS
<1>2. Ordered(q) /\ Ordered(r)
    BY OrderedParts DEF Upto
<1>3. \A i \in 1..Len(q) : q[i].n <= n
    BY <1>1 DEF Upto
<1>4. ASSUME NEW i \in 1..Len(r) PROVE r[i].n <= n
    <2>1. Len(q) + i \in 1..Len(q \o r)
        BY <1>1
    <2>2. (q \o r)[Len(q) + i].n <= n
        BY <2>1 DEF Upto
    <2>3. QED BY <1>1, <2>2
<1>5. QED BY <1>2, <1>3, <1>4 DEF Upto

(* Every step keeps the order: what is flushed was next in line, what is     *)
(* appended is newer than all the rest.                                      *)
LEMMA QueuesStep ==
    ASSUME Types, BytesExact, Queues, OneHome, Next
    PROVE  Queues'
<1>1. \A p \in Panes :
        /\ received[p] \in Seq(SinkFrames) /\ routed[p] \in Nat
        /\ pending[p].frames \in Seq(Frames)
        /\ Outputs(pending[p].frames) \in Seq(SinkFrames)
    BY OutputsType DEF Types, Entries
<1>2. \A p \in Panes : Upto(Queue(p), routed[p])
    BY DEF Queues
<1>3. \A p \in Panes : /\ Upto(received[p], routed[p])
                       /\ Upto(Outputs(pending[p].frames), routed[p])
    BY <1>1, <1>2, UptoParts DEF Queue
<1>4. Outputs(<<>>) = <<>>
    BY DEF Outputs
\* A pane whose buffer is empty, whatever its sink was given.
<1>5. ASSUME NEW p \in Panes, pending'[p].frames = <<>>, Upto(received'[p], routed'[p])
      PROVE  Upto(Queue(p)', routed'[p])
    <2>1. received'[p] \in Seq(SinkFrames)
        BY <1>5 DEF Upto
    <2>2. Queue(p)' = received'[p]
        BY <1>4, <1>5, <2>1 DEF Queue
    <2>3. QED BY <1>5, <2>2
<1>6. ASSUME NEW p \in Panes, routed'[p] = routed[p], received'[p] = received[p],
             pending'[p] = pending[p] \/ pending'[p] = NoEntry
      PROVE  Upto(Queue(p)', routed'[p])
    <2>1. CASE pending'[p] = pending[p]
        <3>1. Queue(p)' = Queue(p)
            BY <1>6, <2>1 DEF Queue
        <3>2. QED BY <1>2, <1>6, <3>1
    <2>2. CASE pending'[p] = NoEntry
        <3>1. pending'[p].frames = <<>>
            BY <2>2 DEF NoEntry
        <3>2. Upto(received'[p], routed'[p])
            BY <1>3, <1>6
        <3>3. QED BY <1>5, <3>1, <3>2
    <2>3. QED BY <1>6, <2>1, <2>2
<1>7. ASSUME NEW p \in Panes, RouteRegistered(p) PROVE Queues'
    <2>1. /\ pending' = pending
          /\ routed' = [routed EXCEPT ![p] = @ + 1]
          /\ received' = [received EXCEPT ![p] = Append(@, Output(routed[p] + 1))]
        BY <1>7 DEF RouteRegistered, Arrives, tables
    <2>2. pending[p].frames = <<>>
        BY <1>7, ExactParts DEF RouteRegistered, OneHome, Buffering, Exact, EntryExact
    <2>3. /\ routed'[p] = routed[p] + 1
          /\ received'[p] = Append(received[p], Output(routed[p] + 1))
          /\ \A q \in Panes \ {p} : routed'[q] = routed[q] /\ received'[q] = received[q]
        BY <2>1 DEF Types
    <2>4. Upto(received'[p], routed'[p])
        BY <1>1, <1>3, <2>3, UptoOutput
    <2>5. Upto(Queue(p)', routed'[p])
        BY <1>5, <2>1, <2>2, <2>4
    <2>6. \A q \in Panes \ {p} : Upto(Queue(q)', routed'[q])
        BY <1>6, <2>1, <2>3
    <2>7. QED BY <2>5, <2>6 DEF Queues
<1>8. ASSUME NEW p \in Panes, Route(p), pending' = pending, received' = received
      PROVE  Queues'
    <2>1. routed' = [routed EXCEPT ![p] = @ + 1]
        BY <1>8 DEF Route, RouteRegistered, RouteExcluded, RouteGone, RouteFull,
                    RouteBuffered, RouteDropped, Arrives
    <2>2. \A q \in Panes :
            routed'[q] \in Nat /\ routed'[q] >= routed[q] /\ routed[q] \in Nat
        BY <2>1 DEF Types
    <2>3. ASSUME NEW q \in Panes PROVE Upto(Queue(q)', routed'[q])
        <3>1. Queue(q)' = Queue(q)
            BY <1>8 DEF Queue
        <3>2. \A i \in 1..Len(Queue(q)) : Queue(q)[i].n \in Nat
            BY <1>2, NumbersNat DEF Upto
        <3>3. QED BY <1>2, <2>2, <3>1, <3>2 DEF Upto
    <2>4. QED BY <2>3 DEF Queues
<1>9. ASSUME NEW p \in Panes, NEW size \in Sizes, RouteBuffered(p, size) PROVE Queues'
    <2> DEFINE f == [n |-> routed[p] + 1, size |-> size]
               fs == pending[p].frames
    <2>1. /\ received' = received /\ routed' = [routed EXCEPT ![p] = @ + 1]
          /\ pending'[p].frames = Append(fs, f)
          /\ \A q \in Panes \ {p} : pending'[q] = pending[q]
        BY <1>9 DEF RouteBuffered, Arrives, Types
    <2>2. f \in Frames /\ f.n = routed[p] + 1 /\ fs \in Seq(Frames)
        <3>1. routed[p] + 1 \in Nat /\ fs \in Seq(Frames)
            BY <1>1
        <3>2. f \in Frames
            BY <3>1 DEF Frames
        <3>3. QED BY <3>1, <3>2
    <2>3. /\ routed'[p] = routed[p] + 1
          /\ \A q \in Panes \ {p} : routed'[q] = routed[q]
        BY <2>1 DEF Types
    <2> HIDE DEF f, fs
    <2>4. Outputs(Append(fs, f)) = Append(Outputs(fs), Output(f.n))
        <3>1. /\ Append(fs, f) \in Seq(Frames) /\ Len(fs) \in Nat
              /\ Len(Append(fs, f)) = Len(fs) + 1 /\ Append(fs, f)[Len(fs) + 1] = f
              /\ \A i \in 1..Len(fs) : Append(fs, f)[i] = fs[i]
            BY <2>2
        <3> DEFINE l == Outputs(Append(fs, f))
                   r == Append(Outputs(fs), Output(f.n))
        <3>2. /\ Outputs(fs) \in Seq(SinkFrames) /\ Len(Outputs(fs)) = Len(fs)
              /\ \A i \in 1..Len(fs) : Outputs(fs)[i] = Output(fs[i].n)
            BY <2>2, OutputsType
        <3>3. /\ l \in Seq(SinkFrames) /\ Len(l) = Len(fs) + 1
              /\ \A i \in 1..(Len(fs) + 1) : l[i] = Output(Append(fs, f)[i].n)
            BY <3>1, OutputsType
        <3>4. Output(f.n) \in SinkFrames
            BY <1>1, <2>2 DEF Output, SinkFrames
        <3>5. /\ r \in Seq(SinkFrames) /\ Len(r) = Len(fs) + 1
              /\ r[Len(fs) + 1] = Output(f.n)
              /\ \A i \in 1..Len(fs) : r[i] = Outputs(fs)[i]
            BY <3>1, <3>2, <3>4
        <3> HIDE DEF l, r
        <3>6. \A i \in 1..(Len(fs) + 1) : l[i] = r[i]
            <4>1. \A i \in 1..(Len(fs) + 1) : i \in 1..Len(fs) \/ i = Len(fs) + 1
                BY <3>1
            <4>2. QED BY <3>1, <3>2, <3>3, <3>5, <4>1
        <3>7. l = r
            BY <3>3, <3>5, <3>6
        <3>8. QED BY <3>7 DEF l, r
    <2>5. Queue(p)' = received[p] \o Append(Outputs(fs), Output(f.n))
        BY <2>1, <2>4 DEF Queue
    <2>6. received[p] \o Append(Outputs(fs), Output(f.n)) = Append(Queue(p), Output(f.n))
        <3>1. received[p] \in Seq(SinkFrames) /\ Outputs(fs) \in Seq(SinkFrames)
            BY <1>1 DEF fs
        <3>2. Output(f.n) \in SinkFrames
            BY <1>1, <2>2 DEF Output, SinkFrames
        <3>3. \A r, s \in Seq(SinkFrames) : \A e \in SinkFrames :
                 r \o Append(s, e) = Append(r \o s, e)
            OBVIOUS
        <3>4. QED BY <3>1, <3>2, <3>3 DEF Queue, fs
    <2>7. Upto(Queue(p)', routed'[p])
        BY <1>1, <1>2, <2>2, <2>3, <2>5, <2>6, UptoOutput
    <2>8. \A q \in Panes \ {p} : Upto(Queue(q)', routed'[q])
        BY <1>6, <2>1, <2>3
    <2>9. QED BY <2>7, <2>8 DEF Queues
<1>10. ASSUME NEW p \in Panes, Wire(p) \/ WireUnseeded(p) PROVE Queues'
    <2>1. PICK next : Register(p, next) /\ next \in {<<Seed(routed[p])>>, <<>>}
        BY <1>10 DEF Wire, WireUnseeded
    <2>2. /\ routed' = routed /\ pending' = WithoutPending({p})
          /\ received' = [received EXCEPT ![p] = Flush(p) \o next]
        BY <2>1 DEF Register
    <2>3. Upto(Flush(p), routed[p]) /\ Flush(p) \in Seq(SinkFrames)
        BY <1>1, <1>3 DEF Flush
    <2>4. Seed(routed[p]) \in SinkFrames
        BY <1>1 DEF Seed, SinkFrames
    <2>5. \/ Flush(p) \o next = Flush(p)
          \/ Flush(p) \o next = Append(Flush(p), Seed(routed[p]))
        <3>1. \A r \in Seq(SinkFrames) : \A e \in SinkFrames :
                 r \o <<>> = r /\ r \o <<e>> = Append(r, e)
            OBVIOUS
        <3>2. QED BY <2>1, <2>3, <2>4, <3>1
    <2>6. received'[p] = Flush(p) \o next /\ pending'[p].frames = <<>>
        BY <2>2 DEF Types, WithoutPending, NoEntry
    <2>7. Upto(received'[p], routed'[p])
        BY <1>1, <2>2, <2>3, <2>5, <2>6, UptoSeed
    <2>8. Upto(Queue(p)', routed'[p])
        BY <1>5, <2>6, <2>7
    <2>9. \A q \in Panes \ {p} : pending'[q] = pending[q] /\ received'[q] = received[q]
        BY <2>2 DEF WithoutPending, Types
    <2>10. \A q \in Panes \ {p} : Upto(Queue(q)', routed'[q])
        BY <1>6, <2>2, <2>9
    <2>11. QED BY <2>8, <2>10 DEF Queues
<1>11. ASSUME NEW p \in Panes, Unregister(p) PROVE Queues'
    <2>1. /\ routed' = routed /\ pending' = WithoutPending({p})
          /\ received' = [received EXCEPT ![p] = <<>>]
        BY <1>11 DEF Unregister
    <2>2. received'[p] = <<>> /\ pending'[p].frames = <<>>
        BY <2>1 DEF Types, WithoutPending, NoEntry
    <2>3. Upto(Queue(p)', routed'[p])
        BY <1>1, <1>5, <2>1, <2>2, UptoEmpty
    <2>4. \A q \in Panes \ {p} : pending'[q] = pending[q] /\ received'[q] = received[q]
        BY <2>1 DEF WithoutPending, Types
    <2>5. \A q \in Panes \ {p} : Upto(Queue(q)', routed'[q])
        BY <1>6, <2>1, <2>4
    <2>6. QED BY <2>3, <2>5 DEF Queues
<1>12. ASSUME UNCHANGED <<routed, received>>,
              pending' = pending \/ \E S \in SUBSET Panes : pending' = WithoutPending(S)
       PROVE  Queues'
    <2>1. \A p \in Panes : pending'[p] = pending[p] \/ pending'[p] = NoEntry
        BY <1>12 DEF WithoutPending
    <2>2. QED BY <1>6, <1>12, <2>1 DEF Queues
<1>13. ASSUME NEW S \in SUBSET Panes, Exclude(S) \/ SetExcluded(S) PROVE Queues'
    <2>1. UNCHANGED <<routed, received>> /\ pending' = WithoutPending(S \ registered)
        BY <1>13 DEF Exclude, SetExcluded, ExcludeLocked
    <2>2. QED BY <1>12, <2>1
<1>14. ASSUME NEW t \in armed, Fire(t) PROVE Queues'
    BY <1>12, <1>14 DEF Fire, tables, history
<1>15. ASSUME NEW t \in fired, Expire(t) PROVE Queues'
    <2>1. {t.pane} \in SUBSET Panes
        BY DEF Types, Timers
    <2>2. CASE ExpirePending(t)
        BY <1>12, <2>1, <2>2 DEF ExpirePending, history
    <2>3. CASE ExpireGone(t) \/ ExpireStale(t)
        BY <1>12, <2>3 DEF ExpireGone, ExpireStale, tables, history
    <2>4. QED BY <1>15, <2>2, <2>3 DEF Expire
<1>16. ASSUME NEW p \in Panes, Route(p) PROVE Queues'
    <2>1. CASE RouteExcluded(p) \/ RouteDropped(p)
        <3>1. pending' = pending /\ received' = received
            BY <2>1 DEF RouteExcluded, RouteDropped, tables
        <3>2. QED BY <1>8, <1>16, <3>1
    <2>2. QED BY <1>7, <1>9, <1>16, <2>1 DEF Route, RouteGone, RouteFull
<1>17. QED BY <1>10, <1>11, <1>13, <1>14, <1>15, <1>16 DEF Next

----------------------------------------------------------------------------
(* What the invariants say together.                                        *)
Kept == Types /\ BytesExact /\ Accounted /\ Queues

\* They hold at the start.
LEMMA InitKept == Init => Kept
<1> SUFFICES ASSUME Init PROVE Kept
    OBVIOUS
<1>1. Types
    <2>1. NoEntry \in Entries
        BY DEF NoEntry, Entries
    <2>2. QED BY <2>1 DEF Init, Types
<1>2. /\ \A p \in Panes : pending[p] = NoEntry
      /\ NoEntry.bytes = 0 /\ NoEntry.frames = <<>> /\ NoEntry.id = 0
    BY DEF Init, NoEntry
<1>3. SumFunction(Weights) = 0 /\ SumFunction(Lengths) = 0
    <2>1. Weights \in [Panes -> Int] /\ \A p \in Panes : Weights[p] = 0
        BY <1>2 DEF Weights
    <2>2. Lengths \in [Panes -> Int] /\ \A p \in Panes : Lengths[p] = 0
        BY <1>2 DEF Lengths
    <2>3. QED BY <2>1, <2>2, PanesAssumption, SumZero
<1>4. BytesExact
    <2>1. EntryExact(NoEntry)
        BY <1>2, BytesEmpty, LimitsAssumption DEF EntryExact
    <2>2. pendingBytes = 0
        BY DEF Init
    <2>3. QED BY <1>2, <1>3, <2>1, <2>2, ExactParts, LimitsAssumption DEF Exact
<1>5. Accounted
    <2>1. routed \in [Panes -> Int] /\ \A p \in Panes : routed[p] = 0
        BY DEF Init
    <2>2. sent \in [Panes -> Int] /\ \A p \in Panes : sent[p] = 0
        BY DEF Init
    <2>3. SumFunction(routed) = 0 /\ SumFunction(sent) = 0
        BY <2>1, <2>2, PanesAssumption, SumZero
    <2>4. dropped = 0 /\ discarded = 0
        BY DEF Init
    <2>5. QED BY <1>3, <2>3, <2>4 DEF Accounted, RoutedAll, Lengths
<1>6. Queues
    <2>1. ASSUME NEW p \in Panes PROVE Upto(Queue(p), routed[p])
        <3>1. received[p] = <<>> /\ routed[p] = 0
            BY DEF Init
        <3>2. Queue(p) = <<>>
            BY <1>2, <3>1 DEF Queue, Outputs
        <3>3. QED BY <3>1, <3>2, UptoEmpty
    <2>2. QED BY <2>1 DEF Queues
<1>7. QED BY <1>1, <1>4, <1>5, <1>6 DEF Kept

(* and in every step.                                                       *)
LEMMA ExactStep ==
    ASSUME Types, BytesExact, Next
    PROVE  BytesExact'
<1>1. ASSUME UNCHANGED <<pending, pendingBytes>> PROVE BytesExact'
    <2>1. Exact'
        BY <1>1, ExactParts DEF Exact, Weights
    <2>2. QED BY <2>1, ExactPartsPrimed
<1>2. ASSUME NEW p \in Panes, Route(p) PROVE BytesExact'
    <2>1. CASE RouteRegistered(p) \/ RouteExcluded(p) \/ RouteDropped(p)
        BY <1>1, <2>1 DEF RouteRegistered, RouteExcluded, RouteDropped, tables
    <2>2. QED BY <1>2, <2>1, BufferExact DEF Route, RouteGone, RouteFull
<1>3. ASSUME NEW p \in Panes,
             pending' = WithoutPending({p}), pendingBytes' = ClearedBytes({p})
      PROVE  BytesExact'
    <2>1. {p} \in SUBSET Panes OBVIOUS
    <2>2. QED BY <1>3, <2>1, ClearExact
<1>4. ASSUME NEW p \in Panes, Wire(p) \/ WireUnseeded(p) \/ Unregister(p) PROVE BytesExact'
    BY <1>3, <1>4 DEF Wire, WireUnseeded, Register, Unregister
<1>5. ASSUME NEW S \in SUBSET Panes, Exclude(S) \/ SetExcluded(S) PROVE BytesExact'
    <2>1. /\ S \ registered \in SUBSET Panes
          /\ pending' = WithoutPending(S \ registered)
          /\ pendingBytes' = ClearedBytes(S \ registered)
        BY <1>5 DEF Exclude, SetExcluded, ExcludeLocked
    <2>2. QED BY <2>1, ClearExact
<1>6. ASSUME NEW t \in armed, Fire(t) PROVE BytesExact'
    BY <1>1, <1>6 DEF Fire, tables
<1>7. ASSUME NEW t \in fired, Expire(t) PROVE BytesExact'
    <2>1. t.pane \in Panes
        BY DEF Types, Timers
    <2>2. CASE ExpirePending(t)
        BY <1>3, <2>1, <2>2 DEF ExpirePending
    <2>3. CASE ExpireGone(t) \/ ExpireStale(t)
        BY <1>1, <2>3 DEF ExpireGone, ExpireStale, tables
    <2>4. QED BY <1>7, <2>2, <2>3 DEF Expire
<1>8. QED BY <1>2, <1>4, <1>5, <1>6, <1>7 DEF Next

(* The invariant of the frames, whatever the panes, the sizes and the        *)
(* limits.                                                                   *)
THEOREM FramesInvariance == Spec => []Kept
<1>1. IInv /\ Kept /\ [Next]_vars => Kept'
    <2> SUFFICES ASSUME IInv, Kept, [Next]_vars PROVE Kept'
        OBVIOUS
    <2>1. CASE Next
        BY <2>1, TypesStep, ExactStep, AccountedStep, QueuesStep DEF Kept, IInv
    <2>2. CASE UNCHANGED vars
        <3>1. UNCHANGED <<registered, pending, pendingBytes, gone, excluded,
                          excludeOnUnregister, dropped, armed, fired, made,
                          routed, sent, discarded, received>>
            BY <2>2 DEF vars, tables, timers, history
        <3>2. Types'
            BY <3>1 DEF Kept, Types
        <3>3. BytesExact'
            <4>1. Exact'
                BY <3>1, ExactParts DEF Kept, Exact, Weights
            <4>2. QED BY <4>1, ExactPartsPrimed
        <3>4. Accounted'
            BY <3>1 DEF Kept, Accounted, RoutedAll
        <3>5. Queues'
            BY <3>1 DEF Kept, Queues, Queue
        <3>6. QED BY <3>2, <3>3, <3>4, <3>5 DEF Kept
    <2>3. QED BY <2>1, <2>2
<1>2. QED BY InitKept, Invariance, <1>1, PTL DEF Spec

(* Every variable stays in its type: the totals never fall below zero,       *)
(* however entries come and go (pendingBytes, clearPendingLocked).           *)
THEOREM TypeCorrect == Spec => []TypeOK
<1>1. Kept => TypeOK
    <2> SUFFICES ASSUME Kept PROVE TypeOK
        OBVIOUS
    <2>1. Types /\ pendingBytes = SumFunction(Weights)
        BY ExactParts DEF Kept, Exact
    <2>2. Weights \in [Panes -> Int] /\ \A p \in Panes : Weights[p] \in Nat
        BY <2>1 DEF Types, Entries, Weights
    <2>3. SumFunction(Weights) \in Nat
        BY <2>2, PanesAssumption, SumInt
    <2>4. QED BY <2>1, <2>3 DEF Types, TypeOK
<1>2. QED BY FramesInvariance, <1>1, PTL

(* The router keeps every frame, within the limits and in the order it       *)
(* came, or counts it as dropped (Route, Register, flush, expirePending).    *)
THEOREM FramesAreKept == Spec => []FramesKept
<1>1. Kept => FramesKept
    <2> SUFFICES ASSUME Kept PROVE FramesKept
        OBVIOUS
    <2>1. \A p \in Panes : Ordered(Queue(p))
        BY DEF Kept, Queues, Upto
    <2>2. InOrder
        BY <2>1 DEF InOrder, Ordered, Queue
    <2>3. QED BY <2>2 DEF Kept, FramesKept
<1>2. QED BY FramesInvariance, <1>1, PTL

----------------------------------------------------------------------------
(* The size owners: the part is the module the theorems are about.         *)

SP == INSTANCE SizeOwner_proofs WITH
    Daemons <- Owners, Endings <- TRUE, TickMisses <- FALSE, rec <- v1, env <- v2, att <- v3,
    flg <- v4, sized <- v5, told <- v6, queue <- v7, notes <- v8, reply <- v9, cur <- v10,
    gen <- v11, pc <- v12, st <- v13, belief <- v14, before <- v15, wanted <- v16, held <- v17,
    taken <- v18, members <- v19, asserted <- v20, view <- v21, events <- v22

\* The two instances start in the same states.
LEMMA SameInit ==
    Z!Init <=> SP!Init
BY DEF Z!Init, SP!Init, Z!Begun, SP!Begun, Z!Clients, SP!Clients

\* What the far end does for a client is the same.
LEMMA SameServer ==
    ASSUME NEW c \in Z!Clients PROVE Z!Server(c) <=> SP!Server(c)
BY DEF Z!Server, SP!Server, Z!Exec, SP!Exec, Z!ExecRead, SP!ExecRead, Z!Report, SP!Report,
   Z!Gone, SP!Gone, Z!Effect, SP!Effect, Z!StillRecorded, SP!StillRecorded, Z!Own, SP!Own,
   Z!InUse, SP!InUse, Z!Clients, SP!Clients, Z!Tell, SP!Tell, Z!FoldLeft, SP!FoldLeft,
   Z!MapThenFoldSet, SP!MapThenFoldSet, Z!Max, SP!Max, Z!Cardinality, SP!Cardinality,
   Z!remote, SP!remote, Z!mind, SP!mind, Z!flow, SP!flow, Z!world, SP!world

\* So is what a main loop does,
LEMMA SameLoop ==
    ASSUME NEW d \in Owners PROVE Z!Loop(d) <=> SP!Loop(d)
BY DEF Z!Loop, SP!Loop, Z!Reattach, SP!Reattach, Z!AnswerClaim, SP!AnswerClaim,
   Z!AnswerPass, SP!AnswerPass, Z!ClaimSend, SP!ClaimSend, Z!AssertSize, SP!AssertSize,
   Z!AnswerEnforce, SP!AnswerEnforce, Z!Detached, SP!Detached, Z!Arrived, SP!Arrived,
   Z!ApplyReport, SP!ApplyReport, Z!TakeClaim, SP!TakeClaim, Z!ReleaseDue, SP!ReleaseDue,
   Z!AnswerRelease, SP!AnswerRelease, Z!ReleaseSend, SP!ReleaseSend, Z!PrimeAnswer,
   SP!PrimeAnswer, Z!PrimeSwap, SP!PrimeSwap, Z!EnvTeardown, SP!EnvTeardown, Z!Dial,
   SP!Dial, Z!Ask, SP!Ask, Z!Tell, SP!Tell, Z!Answered, SP!Answered, Z!SetOwner,
   SP!SetOwner, Z!Claims, SP!Claims, Z!Startup, SP!Startup, Z!After, SP!After, Z!Send,
   SP!Send, Z!Mine, SP!Mine, Z!Own, SP!Own, Z!Foreign, SP!Foreign, Z!Recalc, SP!Recalc,
   Z!Flag, SP!Flag, Z!FlagAll, SP!FlagAll, Z!Publish, SP!Publish, Z!Release, SP!Release,
   Z!Relinquish, SP!Relinquish, Z!Unset, SP!Unset, Z!Record, SP!Record, Z!Size, SP!Size,
   Z!CatchUp, SP!CatchUp, Z!ClaimBatch, SP!ClaimBatch, Z!Dropped, SP!Dropped, Z!TakeNote,
   SP!TakeNote, Z!Wrong, SP!Wrong, Z!Clients, SP!Clients, Z!Cardinality, SP!Cardinality,
   Z!remote, SP!remote, Z!mind, SP!mind, Z!flow, SP!flow, Z!world, SP!world

\* and what disturbs it.
LEMMA SameDisturb ==
    ASSUME NEW d \in Owners PROVE Z!Disturb(d) <=> SP!Disturb(d)
BY DEF Z!Disturb, SP!Disturb, Z!Start, SP!Start, Z!Drop, SP!Drop, Z!Prime, SP!Prime,
   Z!PrimeFail, SP!PrimeFail, Z!Leave, SP!Leave, Z!Kill, SP!Kill, Z!Type, SP!Type, Z!Press,
   SP!Press, Z!ViewChange, SP!ViewChange, Z!Dial, SP!Dial, Z!Ask, SP!Ask, Z!Tell, SP!Tell,
   Z!Disturbed, SP!Disturbed, Z!Send, SP!Send, Z!Publish, SP!Publish, Z!Mine, SP!Mine, Z!Up,
   SP!Up, Z!WantClaim, SP!WantClaim, Z!Clients, SP!Clients, Z!remote, SP!remote, Z!mind,
   SP!mind, Z!flow, SP!flow, Z!world, SP!world

\* The steps of the two instances.
LEMMA SameNext == Z!Next <=> SP!Next
<1>1. Z!Clients = SP!Clients BY DEF Z!Clients, SP!Clients
<1>2. QED BY <1>1, SameServer, SameLoop, SameDisturb DEF Z!Next, SP!Next

\* Of a behaviour of this part.
SizesInv == part = "sizes" => SP!IInv

(* A step of the whole is, in its part, one of the module or none.          *)
LEMMA SizesStep ==
    ASSUME part = "sizes", [Steps]_all
    PROVE  part' = "sizes" /\ [SP!Next]_(SP!vars) /\ (Z!Next \/ UNCHANGED all)
<1>1. CASE UNCHANGED all
    BY <1>1 DEF all, After0, After13, After15, After16,
       SP!vars, SP!remote, SP!flow, SP!mind, SP!world
<1>2. CASE Steps
    BY <1>2, SameNext DEF Steps
<1>3. QED BY <1>1, <1>2

\* The invariant of the part, at the start and over a step.
LEMMA SizesInit == ASSUME SP!Bounded PROVE Starts => SizesInv
BY SP!InitInv, SameInit DEF Starts, SizesInv

\* A step of another part says nothing of this one.
LEMMA SizesKept == ASSUME SP!Bounded, SizesInv, [Steps]_all PROVE SizesInv'
<1>1. CASE part = "sizes"
    BY <1>1, SizesStep, SP!StepInv DEF SizesInv
<1>2. CASE part # "sizes"
    BY <1>2 DEF SizesInv, Steps, all
<1>3. QED BY <1>1, <1>2

(* For any finite number of daemons and clients they go through, the record *)
(* of an attached client is cleared by nobody (sizeowner.go, releaseDue).   *)
THEOREM AttachedKept == ASSUME SP!Bounded PROVE SettlesSpec => AttachedOwnerKept
<1>1. ASSUME SizesInv, [Steps]_all PROVE [part = "sizes" => Z!KeepsAttached]_all
    <2>1. CASE part = "sizes" /\ ~ UNCHANGED all
        <3>1. [SP!KeepsAttached]_(SP!vars)
            BY <1>1, <2>1, SizesStep, SP!StepSpares DEF SizesInv
        <3>2. UNCHANGED SP!vars => UNCHANGED <<v1, v3>>
            BY DEF SP!vars, SP!remote
        <3>3. Z!KeepsAttached
            BY <3>1, <3>2 DEF SP!KeepsAttached, Z!KeepsAttached
        <3>4. QED BY <3>3
    <2>2. QED BY <2>1
<1>2. SizesInv /\ [Steps]_all => SizesInv'
    BY SizesKept
<1>3. SizesInv /\ [Steps]_all => [part = "sizes" => Z!KeepsAttached]_all
    BY <1>1
<1>4. QED BY <1>2, <1>3, SizesInit, PTL DEF SettlesSpec, AttachedOwnerKept

----------------------------------------------------------------------------
(* The set of mirrored windows.                                            *)

\* Of a behaviour of this part.
WindowsInv == part = "windows" => W!Forgiven

\* Only a sweep and a healing touch the strikes.
LEMMA WindowsKept == ASSUME Strikes \in Nat, WindowsInv, [Steps]_all PROVE WindowsInv'
<1> USE DEF WindowsInv, W!Forgiven
<1>1. CASE UNCHANGED all
    BY <1>1 DEF all, After0, After13, After15
<1>2. CASE part # "windows" /\ Steps
    BY <1>2 DEF Steps
<1>3. CASE part = "windows" /\ W!Next /\ UNCHANGED part
    <2>1. CASE W!Sweep
        BY <1>3, <2>1 DEF W!Sweep, W!Returned
    <2>2. CASE \E w \in Wins : W!Heal(w)
        BY <1>3, <2>2 DEF W!Heal
    <2>3. CASE \E w \in Wins : W!Build(w)
        BY <1>3, <2>3 DEF W!Build
    <2>4. CASE W!Dispatch \/ W!Due \/ W!List \/ W!ActClose \/ W!Built \/ W!NudgeTaken
        BY <1>3, <2>4 DEF W!Dispatch, W!Due, W!List, W!ActClose, W!Built, W!NudgeTaken
    <2>5. CASE W!Clocks
        BY <1>3, <2>5 DEF W!Clocks, W!NudgeFires, W!FloorEnds, W!RecoveryEnds, W!Lands
    <2>6. CASE W!Happens
        BY <1>3, <2>6 DEF W!Happens, W!Open, W!MoveIn, W!Close, W!Match, W!Dies, W!LocalKill,
           W!Remote
    <2>7. QED BY <1>3, <2>1, <2>2, <2>3, <2>4, <2>5, <2>6 DEF W!Next, W!Loop
<1>4. QED BY <1>1, <1>2, <1>3 DEF Steps

(* However windows come and go, die and are killed, and however nudges,     *)
(* floors and recoveries fall between: a mirror is rebuilt at most Strikes  *)
(* times before it has outlived a recovery (reconcilewindows.go).           *)
THEOREM StrikesKept == ASSUME Strikes \in Nat PROVE SettlesSpec => []StrikesHold
<1>1. Starts => WindowsInv
    BY DEF Starts, WindowsInv, W!Init, W!Forgiven
<1>2. WindowsInv /\ [Steps]_all => WindowsInv'
    BY WindowsKept
<1>3. WindowsInv => StrikesHold
    BY DEF WindowsInv, W!Forgiven, StrikesHold, W!StrikesHold
<1>4. QED BY <1>1, <1>2, <1>3, PTL DEF SettlesSpec

----------------------------------------------------------------------------
(* The picker's opening of a session.                                      *)

\* The user's gestures and the loop of the interface.
LEMMA LoopKeeps ==
    ASSUME A!IInv, A!Begin \/ A!Escape \/ (\E hangup \in BOOLEAN : A!Leave(hangup)) \/ A!Loop
    PROVE  A!IInv'
<1> USE DEF A!IInv, A!Shape, A!Launched, A!Freed, A!Reported, A!Results, A!runVars, A!procVars,
        A!uiVars
<1>1. CASE A!Begin BY <1>1 DEF A!Begin
<1>2. CASE A!Escape BY <1>2 DEF A!Escape
<1>3. CASE \E hangup \in BOOLEAN : A!Leave(hangup) BY <1>3 DEF A!Leave
<1>4. CASE A!AttachDone BY <1>4 DEF A!AttachDone, A!Opens
<1>5. CASE A!StopCancel
    <2>1. A!Shape' BY <1>5 DEF A!StopCancel
    <2>2. A!Launched' BY <1>5 DEF A!StopCancel
    <2>3. A!Freed' BY <1>5 DEF A!StopCancel
    <2>4. A!Reported' BY <1>5 DEF A!StopCancel
    <2>5. QED BY <2>1, <2>2, <2>3, <2>4
<1>6. CASE A!StopReturn
    <2>1. A!Shape' BY <1>6 DEF A!StopReturn
    <2>2. A!Launched' BY <1>6 DEF A!StopReturn
    <2>3. A!Freed' BY <1>6 DEF A!StopReturn, A!Released
    <2>4. A!Reported' BY <1>6 DEF A!StopReturn
    <2>5. QED BY <2>1, <2>2, <2>3, <2>4
<1>7. CASE A!Quit
    <2>1. A!Shape' BY <1>7 DEF A!Quit
    <2>2. A!Launched' BY <1>7 DEF A!Quit
    <2>3. A!Freed' BY <1>7 DEF A!Quit
    <2>4. A!Reported' BY <1>7 DEF A!Quit
    <2>5. QED BY <2>1, <2>2, <2>3, <2>4
<1>8. QED BY <1>1, <1>2, <1>3, <1>4, <1>5, <1>6, <1>7 DEF A!Loop

\* The goroutine of the run, with its timers, and the launcher.
LEMMA RunKeeps ==
    ASSUME A!IInv, A!Supervise \/ A!Emit \/ (\E well \in BOOLEAN : A!Exit(well))
    PROVE  A!IInv'
<1> USE DEF A!IInv, A!Shape, A!Launched, A!Freed, A!Reported, A!Results, A!Running, A!runVars,
        A!procVars, A!uiVars
<1>1. CASE A!Start BY <1>1 DEF A!Start
<1>2. CASE \E works \in BOOLEAN : A!Fork(works) BY <1>2 DEF A!Fork
<1>3. CASE A!Line BY <1>3 DEF A!Line
<1>4. CASE A!Budget \/ A!Cancelled
    <2>1. A!Shape' BY <1>4 DEF A!Budget, A!Cancelled, A!Terminate
    <2>2. A!Launched' BY <1>4 DEF A!Budget, A!Cancelled, A!Terminate
    <2>3. A!Freed' BY <1>4 DEF A!Budget, A!Cancelled, A!Terminate
    <2>4. A!Reported' BY <1>4 DEF A!Budget, A!Cancelled, A!Terminate
    <2>5. QED BY <2>1, <2>2, <2>3, <2>4
<1>5. CASE A!Grace BY <1>5 DEF A!Grace
<1>6. CASE A!Waited
    <2>1. A!Shape' BY <1>6 DEF A!Waited, A!Outcome
    <2>2. A!Launched' BY <1>6 DEF A!Waited, A!Outcome
    <2>3. A!Freed' BY <1>6 DEF A!Waited, A!Outcome
    <2>4. A!Reported' BY <1>6 DEF A!Waited, A!Outcome
    <2>5. QED BY <2>1, <2>2, <2>3, <2>4
<1>7. CASE A!Emit BY <1>7 DEF A!Emit
<1>8. CASE \E well \in BOOLEAN : A!Exit(well) BY <1>8 DEF A!Exit
<1>9. QED BY <1>1, <1>2, <1>3, <1>4, <1>5, <1>6, <1>7, <1>8 DEF A!Supervise

\* Of a behaviour of this part.
AttachInv == part = "attach" => A!IInv

\* The picker starts with nothing begun.
LEMMA AttachInit == ASSUME MaxMarks \in Nat, A!Init PROVE A!IInv
<1>1. A!Shape BY DEF A!Init, A!Shape, A!Results
<1>2. A!Launched BY DEF A!Init, A!Launched
<1>3. A!Freed BY DEF A!Init, A!Freed
<1>4. A!Reported BY DEF A!Init, A!Reported
<1>5. QED BY <1>1, <1>2, <1>3, <1>4 DEF A!IInv

\* Every step keeps it, those of other parts by leaving it alone.
LEMMA AttachKept == ASSUME AttachInv, [Steps]_all PROVE AttachInv'
<1>1. CASE UNCHANGED all
    BY <1>1 DEF all, After0, After13, After15, After16, AttachInv, A!IInv, A!Shape, A!Launched,
       A!Freed, A!Reported
<1>2. CASE part # "attach" /\ Steps
    BY <1>2 DEF Steps, AttachInv
<1>3. CASE part = "attach" /\ A!Next
    BY <1>3, LoopKeeps, RunKeeps DEF AttachInv, A!Next
<1>4. QED BY <1>1, <1>2, <1>3 DEF Steps

(* Whatever the user presses and however the launcher hangs, for any number *)
(* of phases, attempts and marks: the picker leaves no launcher behind,     *)
(* says a session opened only when a mirror is there, and calls a run       *)
(* failed only when its launcher did not end well (attachSupervisor.stop,   *)
(* finishAttach, classifyAttach).                                           *)
THEOREM NoneLeftBehind == ASSUME MaxMarks \in Nat PROVE SettlesSpec => []LauncherEnds
<1>1. Starts => AttachInv BY AttachInit DEF Starts, AttachInv
<1>2. AttachInv /\ [Steps]_all => AttachInv' BY AttachKept
<1>3. AttachInv => LauncherEnds
    BY DEF AttachInv, A!IInv, A!Shape, A!Launched, A!Freed, A!Reported, LauncherEnds,
       A!LauncherEnds
<1>4. QED BY <1>1, <1>2, <1>3, PTL DEF SettlesSpec
=============================================================================
