--------------------------- MODULE SizeOwner_proofs ---------------------------
(***************************************************************************)
(* Proofs about who sizes the windows of a session, for any finite number  *)
(* of daemons, clients each may go through and disturbances.               *)
(*                                                                         *)
(* That nobody clears the record of an attached client is an action        *)
(* property of the far end, and what makes it true is spread over the      *)
(* daemons: a release is a command that may be executed long after it was  *)
(* decided, in a batch with others, of a client that may be gone.  The     *)
(* invariant follows a departed owner from the far end's announcement      *)
(* (News) to the release a survivor holds or has taken (Releases) and to   *)
(* the commands it has written (Writes).  It says of each that the client  *)
(* named has left, and Numbered that a client that left is not seen again: *)
(* a daemon's clients are numbered and the numbers only grow.              *)
(***************************************************************************)
EXTENDS SizeOwner, FoldSums, SequenceTheorems, TLAPS

(* What the code justifies of the constants: there are daemons, finitely    *)
(* many, each with a client; None and Asked are no values of their own.     *)
Bounded ==
    /\ IsFiniteSet(Daemons) /\ Daemons # {} /\ MaxGen \in Nat \ {0} /\ MaxEvents \in Nat
    /\ None \notin [tok : Daemons, cl : Clients] /\ None # Asked

----------------------------------------------------------------------------
(* The types.                                                              *)

Recs    == {None} \union [tok : Daemons, cl : Clients]
Values  == Daemons \X {0, 1}
Reports == [flagged : BOOLEAN, rec : Recs]
Reads   == [rec : Recs, flagged : BOOLEAN, others : SUBSET Clients, loud : SUBSET Clients]
Items   ==
    [kind : {"report"}, r : Reports] \union [kind : {"attached", "detached"}, c : Clients]
Cmds    ==
    [op : {"size", "record", "relinquish"}] \union [op : {"unset"}, attached : Nat]
    \union [op : {"flag"}, who : Clients, on : BOOLEAN]
    \union [op : {"env"}, val : Values, guarded : BOOLEAN]
    \union [op : {"release"}, old : Recs, val : Values]
Places ==
    {"off", "down", "gone", "idle", "claim", "reopen", "reconnect", "stale", "claiming", "assert",
     "enforce", "release", "releasing", "prime", "primed", "leave"}
Plans   == [why : Places, r : Reads, seen : {0, 1}]

RemoteTypes ==
    /\ rec \in Recs /\ env \in {None} \union Values
    /\ att \subseteq Clients /\ flg \subseteq Clients /\ sized \subseteq Clients
LineTypes ==
    /\ queue \in [Clients -> Seq(Seq(Cmds))] /\ notes \in [Clients -> Seq(Items)]
    /\ told \in [Clients -> {None} \union Reports]
ReadTypes ==
    /\ reply \in [Daemons -> {None, Asked} \union Reads]
    /\ st \in [Daemons -> {None} \union Plans]
FlowTypes ==
    /\ cur \in [Daemons -> 0..MaxGen] /\ gen \in [Daemons -> 0..MaxGen]
    /\ pc \in [Daemons -> Places] /\ view \in [Daemons -> {0, 1}] /\ events \in 0..MaxEvents
MindTypes ==
    /\ belief \in [Daemons -> Recs]
    /\ held \in [Daemons -> Recs] /\ taken \in [Daemons -> Recs]
    /\ before \in [Daemons -> BOOLEAN] /\ wanted \in [Daemons -> BOOLEAN]
    /\ asserted \in [Daemons -> BOOLEAN] /\ members \in [Daemons -> SUBSET Clients]
TypeOK == RemoteTypes /\ LineTypes /\ ReadTypes /\ FlowTypes /\ MindTypes

----------------------------------------------------------------------------
(* Why a release spares an attached client.                                *)

\* A client that was on the session and will not be again.
Left(c) == c \notin att /\ c[2] <= gen[c[1]]
Ended(r) == r # None => Left(r.cl)

\* Clients are numbered as they are dialled, and a daemon that runs has one.
Numbered ==
    /\ \A c \in att : c[2] <= gen[c[1]]
    /\ \A d \in Daemons :
        /\ cur[d] <= gen[d]
        /\ pc[d] = "off" => gen[d] = 0
        /\ pc[d] = "down" => gen[d] < MaxGen
        /\ pc[d] \notin {"off", "down", "gone"} => cur[d] # 0
        /\ pc[d] \in {"claiming", "releasing"} => st[d] \in Plans

\* A departure is news of a client that has left, and only such an owner is held.
News ==
    \A c \in Clients : \A i \in 1..Len(notes[c]) :
        notes[c][i].kind = "detached" => Left(notes[c][i].c)
Releases == \A d \in Daemons : Ended(held[d]) /\ Ended(taken[d])

\* A write that releases names an owner that has left, and records none.
Spares(cmds) ==
    \A i \in 1..Len(cmds) : cmds[i].op = "release" =>
        Ended(cmds[i].old) /\ \A j \in 1..Len(cmds) : cmds[j].op # "record"
Writes == \A c \in Clients : \A i \in 1..Len(queue[c]) : Spares(queue[c][i])

IInv == TypeOK /\ Numbered /\ News /\ Releases /\ Writes

----------------------------------------------------------------------------
(* What the remote makes of one write.                                     *)

States == [rec : Recs, env : {None} \union Values, flg : SUBSET Clients, sized : SUBSET Clients]
Written(c, R, cmds) == FoldLeft(LAMBDA r, cmd : Effect(r, c, cmd), R, cmds)

(* What every command of a write keeps, the write keeps: on the shortest    *)
(* part of it that does not, its last command would have to break it.       *)
LEMMA WriteStays ==
    ASSUME NEW c, NEW V, NEW R \in V, NEW n \in Nat, NEW cmds, DOMAIN cmds = 1..n,
           \A v \in V : \A i \in 1..n : Effect(v, c, cmds[i]) \in V
    PROVE  Written(c, R, cmds) \in V
<1> DEFINE S == 1..n
           pick == [s \in SUBSET S |-> Max(s)]
           F == [p \in S \X V |-> Effect(p[2], c, cmds[p[1]])]
           G == CHOOSE g : g = [s \in SUBSET S |->
                    IF s = {} THEN R ELSE Effect(g[s \ {Max(s)}], c, cmds[Max(s)])]
<1>1. IsFiniteSet(S)
    BY FS_Interval
<1>2. Picks(pick, S)
    <2> SUFFICES ASSUME NEW s \in SUBSET S, s # {} PROVE Max(s) \in s
        BY DEF Picks
    <2>1. QED BY MaxOfInterval
<1>3. /\ F \in [S \X V -> V]
      /\ \A i \in S, v \in V : F[<<i, v>>] = Effect(v, c, cmds[i])
    <2>1. \A p \in S \X V : Effect(p[2], c, cmds[p[1]]) \in V
        OBVIOUS
    <2> HIDE DEF S
    <2>2. QED BY <2>1
<1>4. Written(c, R, cmds) = G[S]
    BY DEF Written, FoldLeft, MapThenFoldSet
<1> HIDE DEF S, F
<1>5. PICK g : FoldsBy(g, S, pick, F, R)
    BY <1>1, <1>2, FoldsExist
<1>6. g \in [SUBSET S -> V]
    BY <1>1, <1>2, <1>3, <1>5, FoldsTyped
<1>7. \A s \in SUBSET S : s # {} =>
          Max(s) \in s /\ g[s] = Effect(g[s \ {Max(s)}], c, cmds[Max(s)])
    <2> SUFFICES ASSUME NEW s \in SUBSET S, s # {}
                 PROVE  Max(s) \in s /\ g[s] = Effect(g[s \ {Max(s)}], c, cmds[Max(s)])
        OBVIOUS
    <2>1. Max(s) \in s /\ pick[s] = Max(s)
        BY <1>2 DEF Picks
    <2>2. g[s] = F[<<Max(s), g[s \ {Max(s)}]>>]
        BY <1>5, <2>1 DEF FoldsBy
    <2>3. Max(s) \in S /\ g[s \ {Max(s)}] \in V
        BY <1>6, <2>1
    <2>4. QED BY <1>3, <2>1, <2>2, <2>3
<1>8. g[{}] = R
    BY <1>5 DEF FoldsBy
<1>9. g = [s \in SUBSET S |-> IF s = {} THEN R ELSE Effect(g[s \ {Max(s)}], c, cmds[Max(s)])]
    BY <1>6, <1>7, <1>8
<1>10. G = [s \in SUBSET S |-> IF s = {} THEN R ELSE Effect(G[s \ {Max(s)}], c, cmds[Max(s)])]
    BY <1>9
<1> HIDE DEF G
<1> DEFINE C == {s \in SUBSET S : G[s] \notin V}
<1>11. ASSUME C # {} PROVE FALSE
    <2>1. PICK s \in C : \A t \in C : ~ (t \subseteq s /\ t # s)
        <3>1. C \in SUBSET (SUBSET S) OBVIOUS
        <3> HIDE DEF C
        <3>2. QED BY <1>1, <1>11, <3>1, SmallestSet
    <2>2. s # {} /\ Max(s) \in S
        BY <1>7, <1>10
    <2>3. s \ {Max(s)} \notin C
        BY <1>7, <2>1, <2>2
    <2>4. G[s \ {Max(s)}] \in V
        BY <2>3
    <2>5. G[s] = Effect(G[s \ {Max(s)}], c, cmds[Max(s)])
        BY <1>10, <2>2
    <2>6. G[s] \in V
        BY <2>2, <2>4, <2>5 DEF S
    <2>7. QED BY <2>1, <2>6
<1>12. QED BY <1>4, <1>11

\* None is no record.
LEMMA TypesDistinct ==
    ASSUME Bounded, NEW c \in Clients PROVE [tok |-> c[1], cl |-> c] # None
BY DEF Bounded, Clients

(* A command leaves a state of the remote.                                  *)
LEMMA EffectTyped ==
    ASSUME TypeOK, NEW c \in Clients, NEW R \in States, NEW cmd \in Cmds
    PROVE  Effect(R, c, cmd) \in States
<1> USE DEF States
<1>1. CASE cmd.op = "record"
    <2>1. [tok |-> c[1], cl |-> c] \in Recs
        BY DEF Recs, Clients
    <2>2. QED BY <1>1, <2>1 DEF Effect
<1>2. CASE cmd.op = "env"
    <2>1. cmd.val \in Values BY <1>2 DEF Cmds
    <2>2. QED BY <1>2, <2>1 DEF Effect
<1>3. CASE cmd.op = "flag"
    <2>1. att \subseteq Clients BY DEF TypeOK, RemoteTypes
    <2>2. QED BY <1>3, <2>1 DEF Effect
<1>4. CASE cmd.op = "size"
    <2>1. att \subseteq Clients BY DEF TypeOK, RemoteTypes
    <2>2. QED BY <1>4, <2>1 DEF Effect
<1>5. CASE cmd.op = "release"
    <2>1. cmd.val \in Values /\ None \in Recs BY <1>5 DEF Cmds, Recs
    <2>2. QED BY <1>5, <2>1 DEF Effect
<1>6. CASE cmd.op \in {"relinquish", "unset"}
    BY <1>6 DEF Effect
<1>7. cmd.op \in {"record", "env", "flag", "size", "release", "relinquish", "unset"}
    BY DEF Cmds
<1>8. QED BY <1>1, <1>2, <1>3, <1>4, <1>5, <1>6, <1>7

(* What a write does to the record, when its releases name owners that have *)
(* left: it keeps the one of an attached client, or puts its own there.     *)
LEMMA WriteSpares ==
    ASSUME Bounded, TypeOK, NEW c \in Clients, NEW R \in States,
           NEW cmds \in Seq(Cmds), Spares(cmds)
    PROVE  /\ Written(c, R, cmds) \in States
           /\ R.rec # None /\ R.rec.cl \in att => Written(c, R, cmds).rec # None
<1>1. /\ Len(cmds) \in Nat /\ DOMAIN cmds = 1..Len(cmds)
      /\ \A i \in 1..Len(cmds) : cmds[i] \in Cmds
    OBVIOUS
<1>2. Written(c, R, cmds) \in States
    BY <1>1, EffectTyped, WriteStays
<1>3. CASE \A i \in 1..Len(cmds) : cmds[i].op # "release"
    <2> DEFINE V == {v \in States : v.rec # None}
    <2>1. SUFFICES ASSUME R \in V PROVE Written(c, R, cmds) \in V
        BY <1>2
    <2>2. ASSUME NEW v \in V, NEW i \in 1..Len(cmds) PROVE Effect(v, c, cmds[i]) \in V
        <3>1. cmds[i] \in Cmds /\ cmds[i].op # "release" BY <1>1, <1>3
        <3>2. Effect(v, c, cmds[i]) \in States BY <3>1, EffectTyped
        <3>3. Effect(v, c, cmds[i]).rec # None
            BY <1>3, <3>1, TypesDistinct DEF Effect, States, Cmds
        <3>4. QED BY <3>2, <3>3
    <2> HIDE DEF V
    <2>3. QED BY <1>1, <2>1, <2>2, WriteStays
<1>4. CASE \E i \in 1..Len(cmds) : cmds[i].op = "release"
    <2> DEFINE V == {v \in States : v.rec = R.rec}
    <2>1. SUFFICES ASSUME R.rec # None, R.rec.cl \in att PROVE Written(c, R, cmds) \in V
        BY <1>2
    <2>2. ASSUME NEW v \in V, NEW i \in 1..Len(cmds) PROVE Effect(v, c, cmds[i]) \in V
        <3>1. cmds[i] \in Cmds /\ cmds[i].op # "record"
            BY <1>1, <1>4 DEF Spares
        <3>2. Effect(v, c, cmds[i]) \in States BY <3>1, EffectTyped
        <3>3. cmds[i].op = "release" => cmds[i].old # v.rec
            BY <2>1 DEF Spares, Ended, Left
        <3>4. Effect(v, c, cmds[i]).rec = v.rec
            BY <3>1, <3>3 DEF Effect, States, Cmds, StillRecorded
        <3>5. QED BY <3>2, <3>4
    <2>3. R \in V OBVIOUS
    <2> HIDE DEF V
    <2>4. QED BY <1>1, <2>1, <2>2, <2>3, WriteStays
<1>5. QED BY <1>3, <1>4

----------------------------------------------------------------------------
(* Commands without a release.                                             *)
Plain == {cmd \in Cmds : cmd.op # "release"}

\* Commands without a release spare every owner.
LEMMA PlainSpares ==
    ASSUME NEW cmds \in Seq(Plain) PROVE cmds \in Seq(Cmds) /\ Spares(cmds)
<1>1. \A i \in 1..Len(cmds) : cmds[i] \in Plain OBVIOUS
<1>2. cmds \in Seq(Cmds) BY DEF Plain
<1>3. Spares(cmds) BY <1>1 DEF Plain, Spares
<1>4. QED BY <1>2, <1>3

LEMMA PlainJoined ==
    ASSUME NEW p \in Seq(Plain), NEW q \in Seq(Plain) PROVE p \o q \in Seq(Plain)
OBVIOUS

LEMMA PlainOne == ASSUME NEW cmd \in Plain PROVE <<cmd>> \in Seq(Plain)
OBVIOUS

LEMMA PlainTwo == ASSUME NEW x \in Plain, NEW y \in Plain PROVE <<x, y>> \in Seq(Plain)
OBVIOUS

LEMMA PlainThree ==
    ASSUME NEW x \in Plain, NEW y \in Plain, NEW z \in Plain PROVE <<x, y, z>> \in Seq(Plain)
OBVIOUS

\* What the daemons send, releases apart, is such.
LEMMA PlainCommands ==
    /\ <<>> \in Seq(Plain) /\ Size \in Plain /\ Record \in Plain /\ Relinquish \in Plain
    /\ \A c \in Clients, on \in BOOLEAN : Flag(c, on) \in Plain
    /\ \A d \in Daemons, v \in {0, 1}, guarded \in BOOLEAN : Publish(d, v, guarded) \in Plain
    /\ \A n \in Nat : Unset(n) \in Plain
BY DEF Plain, Cmds, Values, Size, Record, Relinquish, Flag, Publish, Unset

\* So are the recalculation and the late publication that follow a batch.
LEMMA RecalcPlain == ASSUME NEW d \in Daemons PROVE Recalc(d) \in Seq(Plain)
BY PlainCommands DEF Recalc

LEMMA CatchUpPlain ==
    ASSUME TypeOK, NEW d \in Daemons PROVE CatchUp(d) \in Seq(Plain)
<1>1. view[d] \in {0, 1} BY DEF TypeOK, FlowTypes
<1>2. Publish(d, view[d], TRUE) \in Plain BY <1>1, PlainCommands
<1>3. <<Publish(d, view[d], TRUE)>> \in Seq(Plain) BY <1>2, PlainOne
<1>4. QED BY <1>3, PlainCommands DEF CatchUp

\* A session has finitely many clients.
LEMMA ClientsFinite == ASSUME Bounded PROVE IsFiniteSet(Clients)
<1>1. IsFiniteSet(Daemons) /\ IsFiniteSet(1..MaxGen) BY FS_Interval DEF Bounded
<1>2. QED BY <1>1, FS_Product DEF Clients

(* Flagging any set of clients is a write of flags.                         *)
LEMMA FlagAllPlain ==
    ASSUME Bounded, NEW S \in SUBSET Clients PROVE FlagAll(S) \in Seq(Plain)
<1> DEFINE V == Seq(Plain)
           pick == [T \in SUBSET S |-> CHOOSE x \in T : TRUE]
           F == [p \in S \X V |-> <<Flag(p[1], TRUE)>> \o p[2]]
           G == CHOOSE g : g = [T \in SUBSET S |->
                    IF T = {} THEN <<>>
                    ELSE <<Flag(CHOOSE x \in T : TRUE, TRUE)>> \o g[T \ {CHOOSE x \in T : TRUE}]]
<1>1. IsFiniteSet(S)
    BY ClientsFinite, FS_Subset
<1>2. Picks(pick, S)
    BY DEF Picks
<1>3. /\ F \in [S \X V -> V]
      /\ \A x \in S, q \in V : F[<<x, q>>] = <<Flag(x, TRUE)>> \o q
    <2>1. ASSUME NEW x \in S, NEW q \in V PROVE <<Flag(x, TRUE)>> \o q \in V
        <3>1. Flag(x, TRUE) \in Plain BY PlainCommands
        <3>2. <<Flag(x, TRUE)>> \in Seq(Plain) BY <3>1, PlainOne
        <3>3. QED BY <3>2, PlainJoined
    <2> HIDE DEF V
    <2>2. QED BY <2>1
<1>4. FlagAll(S) = G[S]
    BY DEF FlagAll
<1>5. <<>> \in V
    BY PlainCommands
<1> HIDE DEF F, V
<1>6. PICK g : FoldsBy(g, S, pick, F, <<>>)
    BY <1>1, <1>2, FoldsExist
<1>7. g \in [SUBSET S -> V]
    BY <1>1, <1>2, <1>3, <1>5, <1>6, FoldsTyped
<1>8. \A T \in SUBSET S : T # {} =>
          g[T] = <<Flag(CHOOSE x \in T : TRUE, TRUE)>> \o g[T \ {CHOOSE x \in T : TRUE}]
    <2> SUFFICES ASSUME NEW T \in SUBSET S, T # {}
                 PROVE  g[T] = <<Flag(pick[T], TRUE)>> \o g[T \ {pick[T]}]
        OBVIOUS
    <2>1. pick[T] \in S /\ g[T \ {pick[T]}] \in V
        BY <1>2, <1>7 DEF Picks
    <2>2. g[T] = F[<<pick[T], g[T \ {pick[T]}]>>]
        BY <1>6 DEF FoldsBy
    <2>3. QED BY <1>3, <2>1, <2>2
<1>9. g[{}] = <<>>
    BY <1>6 DEF FoldsBy
<1>10. g = [T \in SUBSET S |->
              IF T = {} THEN <<>>
              ELSE <<Flag(CHOOSE x \in T : TRUE, TRUE)>> \o g[T \ {CHOOSE x \in T : TRUE}]]
    BY <1>7, <1>8, <1>9
<1>11. G = [T \in SUBSET S |->
              IF T = {} THEN <<>>
              ELSE <<Flag(CHOOSE x \in T : TRUE, TRUE)>> \o G[T \ {CHOOSE x \in T : TRUE}]]
    BY <1>10
<1> HIDE DEF G
<1> DEFINE C == {T \in SUBSET S : G[T] \notin V}
<1>12. ASSUME C # {} PROVE FALSE
    <2>1. PICK T \in C : \A U \in C : ~ (U \subseteq T /\ U # T)
        <3>1. C \in SUBSET (SUBSET S) OBVIOUS
        <3> HIDE DEF C
        <3>2. QED BY <1>1, <1>12, <3>1, SmallestSet
    <2>2. T # {}
        BY <1>5, <1>11
    <2> DEFINE x == CHOOSE y \in T : TRUE
    <2>3. x \in T /\ G[T] = <<Flag(x, TRUE)>> \o G[T \ {x}]
        BY <1>11, <2>2
    <2> HIDE DEF x
    <2>4. T \ {x} \notin C
        BY <2>1, <2>3
    <2>5. G[T \ {x}] \in V
        BY <2>4
    <2>6. x \in S
        BY <2>3
    <2>7. F[<<x, G[T \ {x}]>>] \in V /\ F[<<x, G[T \ {x}]>>] = <<Flag(x, TRUE)>> \o G[T \ {x}]
        <3>1. <<x, G[T \ {x}]>> \in S \X V BY <2>5, <2>6
        <3> HIDE DEF C
        <3>2. QED BY <1>3, <2>5, <2>6, <3>1
    <2>8. QED BY <2>1, <2>3, <2>7
<1>13. QED BY <1>4, <1>12 DEF V

(* A write that spares attached owners joins the queue of its client.       *)
LEMMA SendKeeps ==
    ASSUME TypeOK, Writes, NEW c \in Clients, NEW cmds \in Seq(Cmds), Spares(cmds),
           Send(c, cmds), UNCHANGED <<att, gen>>
    PROVE  queue' \in [Clients -> Seq(Seq(Cmds))] /\ Writes'
<1>1. queue \in [Clients -> Seq(Seq(Cmds))] /\ queue[c] \in Seq(Seq(Cmds))
    BY DEF TypeOK, LineTypes
<1> DEFINE q == queue[c]
<1>2. queue' = [queue EXCEPT ![c] = IF cmds = <<>> THEN q ELSE Append(q, cmds)]
    BY DEF Send
<1>3. q \in Seq(Seq(Cmds)) BY <1>1
<1> HIDE DEF q
<1>4. Append(q, cmds) \in Seq(Seq(Cmds)) BY <1>3
<1>5. queue' \in [Clients -> Seq(Seq(Cmds))] BY <1>1, <1>2, <1>3, <1>4
<1>6. ASSUME NEW w, Spares(w) PROVE Spares(w)'
    BY <1>6 DEF Spares, Ended, Left
<1>7. ASSUME NEW x \in Clients, NEW i \in 1..Len(queue'[x]), NEW w, w = queue'[x][i]
      PROVE  Spares(w)
    <2>1. CASE queue'[x] = queue[x] BY <1>7, <2>1 DEF Writes
    <2>2. CASE x = c /\ queue'[x] = Append(q, cmds)
        <3>1. \A j \in 1..Len(q) : Spares(q[j]) BY DEF Writes, q
        <3>2. i \in 1..(Len(q) + 1) BY <1>3, <1>7, <2>2
        <3>3. CASE i = Len(q) + 1
            <4>1. w = cmds BY <1>3, <1>7, <2>2, <3>3
            <4>2. QED BY <4>1
        <3>4. CASE i # Len(q) + 1
            <4>1. Len(q) \in Nat BY <1>3
            <4>2. i \in 1..Len(q) BY <4>1, <3>2, <3>4
            <4>3. w = q[i] BY <1>3, <1>7, <2>2, <4>2
            <4>4. QED BY <3>1, <4>2, <4>3
        <3>5. QED BY <3>3, <3>4
    <2>3. queue'[x] = queue[x] \/ (x = c /\ queue'[x] = Append(q, cmds))
        BY <1>1, <1>2 DEF q
    <2>4. QED BY <2>1, <2>2, <2>3
<1>8. \A x \in Clients : \A i \in 1..Len(queue'[x]) : \A w : w = queue'[x][i] => Spares(w)'
    BY <1>6, <1>7
<1>9. Writes'
    BY <1>8 DEF Writes, Spares, Ended, Left
<1>10. QED BY <1>5, <1>9

----------------------------------------------------------------------------
(* What most steps leave alone.                                            *)

\* No owner is a record.
LEMMA NoneRec == None \in Recs
BY DEF Recs

\* Commands in flight stay harmless while nobody comes or goes.
LEMMA QueueStays ==
    ASSUME IInv, UNCHANGED <<att, gen, queue>>
    PROVE  queue' \in [Clients -> Seq(Seq(Cmds))] /\ Writes'
<1>1. queue' \in [Clients -> Seq(Seq(Cmds))] BY DEF IInv, TypeOK, LineTypes
<1>2. ASSUME NEW w, Spares(w) PROVE Spares(w)'
    BY <1>2 DEF Spares, Ended, Left
<1>3. \A c \in Clients : \A i \in 1..Len(queue'[c]) : \A w : w = queue'[c][i] => Spares(w)
    BY DEF IInv, Writes
<1>4. \A c \in Clients : \A i \in 1..Len(queue'[c]) : \A w : w = queue'[c][i] => Spares(w)'
    BY <1>2, <1>3
<1>5. Writes' BY <1>4 DEF Writes, Spares, Ended, Left
<1>6. QED BY <1>1, <1>5

\* News stays true while nobody comes or goes.
LEMMA NewsStays ==
    ASSUME IInv, UNCHANGED <<att, gen, notes, told>>
    PROVE  /\ notes' \in [Clients -> Seq(Items)] /\ News'
           /\ told' \in [Clients -> {None} \union Reports]
BY DEF IInv, TypeOK, LineTypes, News, Left

\* The session untouched is the session typed.
LEMMA RemoteStays == ASSUME IInv, UNCHANGED remote PROVE RemoteTypes' /\ UNCHANGED att
BY DEF IInv, TypeOK, RemoteTypes, remote

(* The invariant of a step, from its sides: with news taken; with the news  *)
(* alone left as it is; with nothing sent either.                           *)
LEMMA LineKeeps ==
    ASSUME IInv, UNCHANGED <<remote, gen, told>>,
           queue' \in [Clients -> Seq(Seq(Cmds))], Writes',
           notes' \in [Clients -> Seq(Items)], News',
           ReadTypes', FlowTypes', MindTypes', Numbered', Releases'
    PROVE  IInv'
BY RemoteStays DEF IInv, TypeOK, LineTypes

LEMMA SideKeeps ==
    ASSUME IInv, UNCHANGED <<remote, gen, told, notes>>,
           queue' \in [Clients -> Seq(Seq(Cmds))], Writes',
           ReadTypes', FlowTypes', MindTypes', Numbered', Releases'
    PROVE  IInv'
BY RemoteStays, NewsStays, LineKeeps

LEMMA QuietKeeps ==
    ASSUME IInv, UNCHANGED <<remote, gen, told, queue, notes>>,
           ReadTypes', FlowTypes', MindTypes', Numbered', Releases'
    PROVE  IInv'
BY RemoteStays, QueueStays, SideKeeps

(* What is sent to the client in use, without a release, is well sent.      *)
LEMMA SendPlain ==
    ASSUME IInv, NEW c \in Clients, NEW cmds \in Seq(Plain), Send(c, cmds),
           UNCHANGED <<remote, gen>>
    PROVE  queue' \in [Clients -> Seq(Seq(Cmds))] /\ Writes'
BY PlainSpares, SendKeeps DEF IInv, remote

(* A daemon that runs has a client on the list.                             *)
LEMMA MineClient ==
    ASSUME Bounded, IInv, NEW d \in Daemons, cur[d] # 0 PROVE Mine(d) \in Clients
BY DEF Bounded, IInv, TypeOK, FlowTypes, Mine, Clients

(* An answer is a read, and what it changes of the daemon's mind is typed.  *)
LEMMA AnswerKeeps ==
    ASSUME IInv, NEW d \in Daemons, Answered(d)
    PROVE  /\ reply[d] \in Reads /\ UNCHANGED <<remote, told, notes, cur, gen, world>>
           /\ reply' \in [Daemons -> {None, Asked} \union Reads]
           /\ taken' \in [Daemons -> Recs] => MindTypes'
           /\ \A e \in Daemons : Ended(held'[e])
<1>1. reply \in [Daemons -> {None, Asked} \union Reads] /\ reply[d] \in Reads
    BY DEF IInv, TypeOK, ReadTypes, Answered
<1>2. reply[d].rec \in Recs /\ reply[d].others \subseteq Clients
    BY <1>1 DEF Reads
<1>3. UNCHANGED <<remote, told, notes, cur, gen, world>>
    BY DEF Answered
<1>4. reply' \in [Daemons -> {None, Asked} \union Reads]
    BY <1>1 DEF Answered
<1>5. taken' \in [Daemons -> Recs] => MindTypes'
    BY <1>2 DEF IInv, TypeOK, MindTypes, Answered, SetOwner, Foreign, Recs
<1>6. \A e \in Daemons : Ended(held'[e])
    BY DEF IInv, TypeOK, MindTypes, Releases, Answered, SetOwner, Ended
<1>7. QED BY <1>1, <1>3, <1>4, <1>5, <1>6

\* A claim is taken up: a question is all that leaves the daemon.
LEMMA TakeClaimKeeps ==
    ASSUME Bounded, IInv, NEW d \in Daemons, TakeClaim(d) PROVE IInv'
<1>1. UNCHANGED <<remote, gen, told, queue, notes>>
    BY DEF TakeClaim, Ask
<1>2. ReadTypes'
    BY DEF TakeClaim, Ask, IInv, TypeOK, ReadTypes
<1>3. FlowTypes'
    BY DEF TakeClaim, Ask, world, IInv, TypeOK, FlowTypes, Places
<1>4. MindTypes'
    BY NoneRec DEF TakeClaim, IInv, TypeOK, MindTypes
<1>5. Numbered'
    BY <1>1 DEF TakeClaim, Ask, IInv, Numbered, TypeOK, FlowTypes, remote
<1>6. Releases'
    BY <1>1 DEF TakeClaim, IInv, Releases, Ended, Left, TypeOK, MindTypes, remote
<1>7. QED BY <1>1, <1>2, <1>3, <1>4, <1>5, <1>6, QuietKeeps

\* A held release comes due; the owner it names has still left.
LEMMA ReleaseDueKeeps ==
    ASSUME Bounded, IInv, NEW d \in Daemons, ReleaseDue(d) PROVE IInv'
<1>1. UNCHANGED <<remote, gen, told, queue, notes>>
    BY DEF ReleaseDue, Ask
<1>2. ReadTypes'
    BY DEF ReleaseDue, Ask, IInv, TypeOK, ReadTypes
<1>3. FlowTypes'
    BY DEF ReleaseDue, Ask, world, IInv, TypeOK, FlowTypes, Places
<1>4. MindTypes'
    BY NoneRec DEF ReleaseDue, IInv, TypeOK, MindTypes
<1>5. Numbered'
    BY <1>1 DEF ReleaseDue, Ask, IInv, Numbered, TypeOK, FlowTypes, remote
<1>6. Releases'
    BY <1>1 DEF ReleaseDue, IInv, Releases, Ended, Left, TypeOK, MindTypes, remote
<1>7. QED BY <1>1, <1>2, <1>3, <1>4, <1>5, <1>6, QuietKeeps

\* A lost link, a swap, a failed priming, an ending and a key press send nothing.
LEMMA DropKeeps ==
    ASSUME Bounded, IInv, NEW d \in Daemons, Drop(d) PROVE IInv'
<1>1. UNCHANGED <<remote, gen, told, queue, notes>>
    BY DEF Drop
<1>2. ReadTypes'
    BY DEF Drop, IInv, TypeOK, ReadTypes
<1>3. FlowTypes'
    BY DEF Drop, Disturbed, IInv, TypeOK, FlowTypes, Places, Bounded
<1>4. MindTypes'
    BY NoneRec DEF Drop, IInv, TypeOK, MindTypes
<1>5. Numbered'
    BY <1>1 DEF Drop, IInv, Numbered, TypeOK, FlowTypes, remote
<1>6. Releases'
    BY <1>1 DEF Drop, IInv, Releases, Ended, Left, TypeOK, MindTypes, remote
<1>7. QED BY <1>1, <1>2, <1>3, <1>4, <1>5, <1>6, QuietKeeps

LEMMA PrimeSwapKeeps ==
    ASSUME Bounded, IInv, NEW d \in Daemons, PrimeSwap(d) PROVE IInv'
<1>1. UNCHANGED <<remote, gen, told, queue, notes>>
    BY DEF PrimeSwap, Ask
<1>2. ReadTypes'
    BY DEF PrimeSwap, Ask, IInv, TypeOK, ReadTypes
<1>3. FlowTypes'
    BY DEF PrimeSwap, Ask, world, IInv, TypeOK, FlowTypes, Places
<1>4. MindTypes'
    BY NoneRec DEF PrimeSwap, mind, IInv, TypeOK, MindTypes
<1>5. Numbered'
    BY <1>1 DEF PrimeSwap, Ask, IInv, Numbered, TypeOK, FlowTypes, remote
<1>6. Releases'
    BY <1>1 DEF PrimeSwap, mind, IInv, Releases, Ended, Left, TypeOK, MindTypes, remote
<1>7. QED BY <1>1, <1>2, <1>3, <1>4, <1>5, <1>6, QuietKeeps

LEMMA PrimeFailKeeps ==
    ASSUME Bounded, IInv, NEW d \in Daemons, PrimeFail(d) PROVE IInv'
<1>1. UNCHANGED <<remote, gen, told, queue, notes>>
    BY DEF PrimeFail
<1>2. ReadTypes'
    BY DEF PrimeFail, IInv, TypeOK, ReadTypes
<1>3. FlowTypes'
    BY DEF PrimeFail, world, IInv, TypeOK, FlowTypes, Places
<1>4. MindTypes'
    BY NoneRec DEF PrimeFail, mind, IInv, TypeOK, MindTypes
<1>5. Numbered'
    BY <1>1 DEF PrimeFail, IInv, Numbered, TypeOK, FlowTypes, remote
<1>6. Releases'
    BY <1>1 DEF PrimeFail, mind, IInv, Releases, Ended, Left, TypeOK, MindTypes, remote
<1>7. QED BY <1>1, <1>2, <1>3, <1>4, <1>5, <1>6, QuietKeeps

LEMMA LeaveKeeps ==
    ASSUME Bounded, IInv, NEW d \in Daemons, Leave(d) PROVE IInv'
<1>1. UNCHANGED <<remote, gen, told, queue, notes>>
    BY DEF Leave, Ask
<1>2. ReadTypes'
    BY DEF Leave, Ask, IInv, TypeOK, ReadTypes
<1>3. FlowTypes'
    BY DEF Leave, Ask, Disturbed, IInv, TypeOK, FlowTypes, Places
<1>4. MindTypes'
    BY NoneRec DEF Leave, mind, IInv, TypeOK, MindTypes
<1>5. Numbered'
    BY <1>1 DEF Leave, Ask, IInv, Numbered, TypeOK, FlowTypes, remote
<1>6. Releases'
    BY <1>1 DEF Leave, mind, IInv, Releases, Ended, Left, TypeOK, MindTypes, remote
<1>7. QED BY <1>1, <1>2, <1>3, <1>4, <1>5, <1>6, QuietKeeps

LEMMA KillKeeps ==
    ASSUME Bounded, IInv, NEW d \in Daemons, Kill(d) PROVE IInv'
<1>1. UNCHANGED <<remote, gen, told, queue, notes>>
    BY DEF Kill
<1>2. ReadTypes'
    BY DEF Kill, IInv, TypeOK, ReadTypes
<1>3. FlowTypes'
    BY DEF Kill, Disturbed, IInv, TypeOK, FlowTypes, Places, Bounded
<1>4. MindTypes'
    BY NoneRec DEF Kill, mind, IInv, TypeOK, MindTypes
<1>5. Numbered'
    BY <1>1 DEF Kill, IInv, Numbered, TypeOK, FlowTypes, remote
<1>6. Releases'
    BY <1>1 DEF Kill, mind, IInv, Releases, Ended, Left, TypeOK, MindTypes, remote
<1>7. QED BY <1>1, <1>2, <1>3, <1>4, <1>5, <1>6, QuietKeeps

LEMMA TypeKeeps ==
    ASSUME Bounded, IInv, NEW d \in Daemons, Type(d) PROVE IInv'
<1>1. UNCHANGED <<remote, gen, told, queue, notes>>
    BY DEF Type, flow
<1>2. ReadTypes'
    BY DEF Type, flow, IInv, TypeOK, ReadTypes
<1>3. FlowTypes'
    BY DEF Type, Disturbed, flow, IInv, TypeOK, FlowTypes, Places
<1>4. MindTypes'
    BY NoneRec DEF Type, WantClaim, IInv, TypeOK, MindTypes
<1>5. Numbered'
    BY <1>1 DEF Type, flow, IInv, Numbered, TypeOK, FlowTypes, remote
<1>6. Releases'
    BY <1>1 DEF Type, IInv, Releases, Ended, Left, TypeOK, MindTypes, remote
<1>7. QED BY <1>1, <1>2, <1>3, <1>4, <1>5, <1>6, QuietKeeps

\* An answer that leads to a claim or to a release is kept for the batch.
LEMMA AnswerClaimKeeps ==
    ASSUME Bounded, IInv, NEW d \in Daemons, AnswerClaim(d) PROVE IInv'
<1>1. Answered(d)
    BY DEF AnswerClaim
<1>2. /\ reply[d] \in Reads /\ UNCHANGED <<remote, told, notes, cur, gen, world>>
      /\ reply' \in [Daemons -> {None, Asked} \union Reads]
      /\ taken' \in [Daemons -> Recs] => MindTypes'
      /\ \A e \in Daemons : Ended(held'[e])
    BY <1>1, AnswerKeeps
<1>3. UNCHANGED <<remote, gen, told, queue, notes>>
    BY <1>2 DEF AnswerClaim
<1>4. ReadTypes'
    BY <1>2 DEF AnswerClaim, IInv, TypeOK, ReadTypes, FlowTypes, Places, Plans
<1>5. FlowTypes'
    BY <1>2 DEF AnswerClaim, Startup, IInv, TypeOK, FlowTypes, Places, world
<1>6. taken' \in [Daemons -> Recs]
    BY <1>2 DEF AnswerClaim, Startup, IInv, TypeOK, MindTypes, Recs
<1>7. MindTypes'
    BY <1>2, <1>6
<1>8. Numbered'
    BY <1>2, <1>3 DEF AnswerClaim, Startup, IInv, Numbered, TypeOK, FlowTypes, remote,
       Plans, Places, ReadTypes
<1>9. Releases'
    BY <1>2, <1>3 DEF AnswerClaim, IInv, Releases, Ended, Left, TypeOK, MindTypes, remote
<1>10. QED BY <1>3, <1>4, <1>5, <1>7, <1>8, <1>9, QuietKeeps

LEMMA AnswerReleaseKeeps ==
    ASSUME Bounded, IInv, NEW d \in Daemons, AnswerRelease(d) PROVE IInv'
<1>1. Answered(d)
    BY DEF AnswerRelease
<1>2. /\ reply[d] \in Reads /\ UNCHANGED <<remote, told, notes, cur, gen, world>>
      /\ reply' \in [Daemons -> {None, Asked} \union Reads]
      /\ taken' \in [Daemons -> Recs] => MindTypes'
      /\ \A e \in Daemons : Ended(held'[e])
    BY <1>1, AnswerKeeps
<1>3. UNCHANGED <<remote, gen, told, queue, notes>>
    BY <1>2 DEF AnswerRelease
<1>4. ReadTypes'
    BY <1>2 DEF AnswerRelease, IInv, TypeOK, ReadTypes, FlowTypes, Places, Plans
<1>5. FlowTypes'
    BY <1>2 DEF AnswerRelease, IInv, TypeOK, FlowTypes, Places, world
<1>6. taken' \in [Daemons -> Recs]
    BY <1>2 DEF AnswerRelease, IInv, TypeOK, MindTypes, Recs
<1>7. MindTypes'
    BY <1>2, <1>6
<1>8. Numbered'
    BY <1>2, <1>3 DEF AnswerRelease, IInv, Numbered, TypeOK, FlowTypes, remote, Plans,
       Places, ReadTypes
<1>9. Releases'
    BY <1>2, <1>3 DEF AnswerRelease, IInv, Releases, Ended, Left, TypeOK, MindTypes, remote
<1>10. QED BY <1>3, <1>4, <1>5, <1>7, <1>8, <1>9, QuietKeeps

(* A notification taken: what it says of a client that left is true, and    *)
(* what is behind it stays so.                                              *)
LEMMA NoteAdded ==
    ASSUME IInv, NEW S, NEW item \in Items, item.kind = "report", Tell(S, item),
           UNCHANGED <<att, gen>>
    PROVE  notes' \in [Clients -> Seq(Items)] /\ News'
<1>1. notes \in [Clients -> Seq(Items)] BY DEF IInv, TypeOK, LineTypes
<1>2. notes' \in [Clients -> Seq(Items)] BY <1>1 DEF Tell
<1>3. ASSUME NEW c \in Clients, NEW i \in 1..Len(notes'[c]), NEW n, n = notes'[c][i],
             n.kind = "detached"
      PROVE  Left(n.c)'
    <2> DEFINE q == notes[c]
    <2>1. q \in Seq(Items) BY <1>1
    <2>2. \A j \in 1..Len(q) : q[j].kind = "detached" => Left(q[j].c) BY DEF IInv, News
    <2>3. notes'[c] = q \/ notes'[c] = Append(q, item) BY DEF Tell
    <2> HIDE DEF q
    <2>4. n = item \/ \E j \in 1..Len(q) : n = q[j] BY <1>3, <2>1, <2>3
    <2>5. QED BY <1>3, <2>2, <2>4 DEF Left
<1>4. \A c \in Clients : \A i \in 1..Len(notes'[c]) : \A n :
          n = notes'[c][i] /\ n.kind = "detached" => Left(n.c)'
    BY <1>3
<1>5. QED BY <1>2, <1>4 DEF News, Left

LEMMA NoteTaken ==
    ASSUME Bounded, IInv, NEW d \in Daemons, NEW kind, TakeNote(d, kind)
    PROVE  /\ Mine(d) \in Clients /\ Head(notes[Mine(d)]) \in Items
           /\ Head(notes[Mine(d)]).kind = kind
           /\ kind = "detached" => Left(Head(notes[Mine(d)]).c)
           /\ notes' \in [Clients -> Seq(Items)]
           /\ told' \in [Clients -> {None} \union Reports] /\ News'
<1> DEFINE q == notes[Mine(d)]
<1>1. UNCHANGED <<att, gen, told>> /\ cur[d] # 0 /\ q # <<>> /\ Head(q).kind = kind
    BY DEF TakeNote, remote, IInv, Numbered
<1>2. Mine(d) \in Clients BY <1>1, MineClient
<1>3. notes \in [Clients -> Seq(Items)] /\ told \in [Clients -> {None} \union Reports]
    BY DEF IInv, TypeOK, LineTypes
<1>4. q \in Seq(Items) BY <1>2, <1>3
<1>5. notes' = [notes EXCEPT ![Mine(d)] = Tail(q)] BY DEF TakeNote
<1>6. \A i \in 1..Len(q) : q[i].kind = "detached" => Left(q[i].c)
    BY <1>2 DEF IInv, News
<1> HIDE DEF q
<1>7. Head(q) \in Items /\ Head(q) = q[1] /\ 1 \in 1..Len(q) /\ Tail(q) \in Seq(Items)
      /\ \A i \in 1..Len(Tail(q)) : i + 1 \in 1..Len(q) /\ Tail(q)[i] = q[i + 1]
    BY <1>1, <1>4
<1>8. ASSUME NEW c \in Clients, NEW i \in 1..Len(notes'[c]), NEW n, n = notes'[c][i],
             n.kind = "detached"
      PROVE  Left(n.c)'
    <2>1. CASE notes'[c] = notes[c]
        BY <1>1, <1>8, <2>1 DEF IInv, News, Left
    <2>2. CASE notes'[c] = Tail(q)
        <3>1. n = q[i + 1] /\ i + 1 \in 1..Len(q) BY <1>7, <1>8, <2>2
        <3>2. Left(n.c) BY <1>6, <1>8, <3>1
        <3>3. QED BY <1>1, <3>2 DEF Left
    <2>3. QED BY <1>3, <1>5, <2>1, <2>2
<1>9. \A c \in Clients : \A i \in 1..Len(notes'[c]) : \A n :
          n = notes'[c][i] /\ n.kind = "detached" => Left(n.c)'
    BY <1>8
<1>10. News' BY <1>9 DEF News, Left
<1>11. notes' \in [Clients -> Seq(Items)] BY <1>2, <1>3, <1>5, <1>7
<1>12. kind = "detached" => Left(Head(q).c) BY <1>1, <1>6, <1>7
<1>13. QED BY <1>1, <1>2, <1>3, <1>7, <1>10, <1>11, <1>12 DEF q

\* An answer that leads to no claim may flag the daemon's own client.
LEMMA AnswerPassKeeps ==
    ASSUME Bounded, IInv, NEW d \in Daemons, AnswerPass(d) PROVE IInv'
<1>1. Answered(d)
    BY DEF AnswerPass
<1>2. /\ reply[d] \in Reads /\ UNCHANGED <<remote, told, notes, cur, gen, world>>
      /\ reply' \in [Daemons -> {None, Asked} \union Reads]
      /\ taken' \in [Daemons -> Recs] => MindTypes'
      /\ \A e \in Daemons : Ended(held'[e])
    BY <1>1, AnswerKeeps
<1>3. UNCHANGED <<remote, gen, told, notes>>
    BY <1>2 DEF AnswerPass
<1>4. Mine(d) \in Clients
    BY MineClient DEF AnswerPass, Startup, IInv, Numbered
<1>5. /\ <<>> \in Seq(Plain)
      /\ Mine(d) \in Clients => <<Flag(Mine(d), TRUE)>> \o Recalc(d) \in Seq(Plain)
    BY RecalcPlain, PlainCommands, PlainOne, PlainJoined
<1>6. queue' \in [Clients -> Seq(Seq(Cmds))] /\ Writes'
    BY <1>3, <1>4, <1>5, SendPlain DEF AnswerPass, Startup, After
<1>7. ReadTypes'
    BY <1>2 DEF AnswerPass, IInv, TypeOK, ReadTypes
<1>8. FlowTypes'
    BY <1>2 DEF AnswerPass, After, Startup, IInv, TypeOK, FlowTypes, Places, world
<1>9. taken' \in [Daemons -> Recs]
    BY <1>2 DEF AnswerPass, Startup, After, IInv, TypeOK, MindTypes, Recs
<1>10. MindTypes'
    BY <1>2, <1>9
<1>11. Numbered'
    BY <1>2, <1>3 DEF AnswerPass, After, Startup, IInv, Numbered, TypeOK, FlowTypes, remote
<1>12. Releases'
    BY <1>2, <1>3 DEF AnswerPass, IInv, Releases, Ended, Left, TypeOK, MindTypes, remote
<1>13. QED BY <1>3, <1>6, <1>7, <1>8, <1>10, <1>11, <1>12, SideKeeps

\* A claim records, and so must not release in the same write.
LEMMA ClaimSendKeeps ==
    ASSUME Bounded, IInv, NEW d \in Daemons, ClaimSend(d) PROVE IInv'
<1>1. UNCHANGED <<remote, gen, told, notes>>
    BY DEF ClaimSend
<1>2. Mine(d) \in Clients
    BY MineClient DEF ClaimSend, IInv, Numbered
<1>3. st[d] \in Plans
    BY DEF ClaimSend, IInv, Numbered
<1>4. Mine(d) \in Clients =>
          <<Record, Publish(d, st[d].seen, TRUE), Flag(Mine(d), FALSE)>> \in Seq(Plain)
    BY <1>3, PlainCommands, PlainThree DEF Plans
<1>5. FlagAll(st[d].r.loud) \in Seq(Plain)
    BY <1>3, FlagAllPlain DEF Plans, Reads
<1>6. CatchUp(d) \in Seq(Plain)
    BY CatchUpPlain DEF IInv
<1>7. ClaimBatch(d) \o CatchUp(d) \in Seq(Plain)
    BY <1>2, <1>4, <1>5, <1>6, RecalcPlain, PlainJoined DEF ClaimBatch
<1>8. [tok |-> d, cl |-> Mine(d)] \in Recs
    BY <1>2 DEF Recs
<1>9. queue' \in [Clients -> Seq(Seq(Cmds))] /\ Writes'
    BY <1>1, <1>2, <1>3, <1>4, <1>5, <1>6, <1>7, <1>8, SendPlain DEF ClaimSend, After
<1>10. ReadTypes'
    BY DEF ClaimSend, IInv, TypeOK, ReadTypes
<1>11. FlowTypes'
    BY DEF ClaimSend, After, Startup, world, IInv, TypeOK, FlowTypes, Places
<1>12. MindTypes'
    BY <1>8, NoneRec DEF ClaimSend, IInv, TypeOK, MindTypes
<1>13. Numbered'
    BY <1>1 DEF ClaimSend, After, Startup, IInv, Numbered, TypeOK, FlowTypes, remote
<1>14. Releases'
    BY <1>1 DEF ClaimSend, IInv, Releases, Ended, Left, TypeOK, MindTypes, remote
<1>15. QED BY <1>1, <1>9, <1>10, <1>11, <1>12, <1>13, <1>14, SideKeeps

\* The size assert, the enforce and the teardown release nothing.
LEMMA AssertSizeKeeps ==
    ASSUME Bounded, IInv, NEW d \in Daemons, AssertSize(d) PROVE IInv'
<1>1. UNCHANGED <<remote, gen, told, notes>>
    BY DEF AssertSize
<1>2. Mine(d) \in Clients
    BY MineClient DEF AssertSize, IInv, Numbered
<1>3. <<Size>> \in Seq(Plain)
    BY PlainCommands, PlainOne
<1>4. queue' \in [Clients -> Seq(Seq(Cmds))] /\ Writes'
    BY <1>1, <1>2, <1>3, SendPlain DEF AssertSize, Own
<1>5. ReadTypes'
    BY DEF AssertSize, IInv, TypeOK, ReadTypes
<1>6. FlowTypes'
    BY DEF AssertSize, world, IInv, TypeOK, FlowTypes, Places
<1>7. MindTypes'
    BY NoneRec DEF AssertSize, IInv, TypeOK, MindTypes
<1>8. Numbered'
    BY <1>1 DEF AssertSize, IInv, Numbered, TypeOK, FlowTypes, remote
<1>9. Releases'
    BY <1>1 DEF AssertSize, IInv, Releases, Ended, Left, TypeOK, MindTypes, remote
<1>10. QED BY <1>1, <1>4, <1>5, <1>6, <1>7, <1>8, <1>9, SideKeeps

LEMMA AnswerEnforceKeeps ==
    ASSUME Bounded, IInv, NEW d \in Daemons, AnswerEnforce(d) PROVE IInv'
<1>1. Answered(d)
    BY DEF AnswerEnforce
<1>2. /\ reply[d] \in Reads /\ UNCHANGED <<remote, told, notes, cur, gen, world>>
      /\ reply' \in [Daemons -> {None, Asked} \union Reads]
      /\ taken' \in [Daemons -> Recs] => MindTypes'
      /\ \A e \in Daemons : Ended(held'[e])
    BY <1>1, AnswerKeeps
<1>3. UNCHANGED <<remote, gen, told, notes>>
    BY <1>2 DEF AnswerEnforce
<1>4. Mine(d) \in Clients
    BY MineClient DEF AnswerEnforce, IInv, Numbered
<1>5. FlagAll(reply[d].loud) \o Recalc(d) \in Seq(Plain) /\ <<>> \in Seq(Plain)
    BY <1>2, FlagAllPlain, RecalcPlain, PlainJoined, PlainCommands DEF Reads
<1>6. queue' \in [Clients -> Seq(Seq(Cmds))] /\ Writes'
    BY <1>3, <1>4, <1>5, SendPlain DEF AnswerEnforce
<1>7. ReadTypes'
    BY <1>2 DEF AnswerEnforce, IInv, TypeOK, ReadTypes
<1>8. FlowTypes'
    BY <1>2 DEF AnswerEnforce, IInv, TypeOK, FlowTypes, Places, world
<1>9. taken' \in [Daemons -> Recs]
    BY <1>2 DEF AnswerEnforce, IInv, TypeOK, MindTypes, Recs
<1>10. MindTypes'
    BY <1>2, <1>9
<1>11. Numbered'
    BY <1>2, <1>3 DEF AnswerEnforce, IInv, Numbered, TypeOK, FlowTypes, remote
<1>12. Releases'
    BY <1>2, <1>3 DEF AnswerEnforce, IInv, Releases, Ended, Left, TypeOK, MindTypes, remote
<1>13. QED BY <1>3, <1>6, <1>7, <1>8, <1>10, <1>11, <1>12, SideKeeps

LEMMA EnvTeardownKeeps ==
    ASSUME Bounded, IInv, NEW d \in Daemons, EnvTeardown(d) PROVE IInv'
<1>1. UNCHANGED <<remote, gen, told, notes>>
    BY DEF EnvTeardown
<1>2. Mine(d) \in Clients
    BY MineClient DEF EnvTeardown, IInv, Numbered
<1>3. reply[d] \in Reads
    BY DEF EnvTeardown, IInv, TypeOK, ReadTypes
<1>4. Cardinality(reply[d].others) \in Nat
    BY <1>3, ClientsFinite, FS_Subset, FS_CardinalityType DEF Reads
<1>5. /\ <<Relinquish>> \in Seq(Plain)
      /\ <<Unset(Cardinality(reply[d].others) + 1)>> \in Seq(Plain)
    BY <1>4, PlainCommands, PlainOne
<1>6. queue' \in [Clients -> Seq(Seq(Cmds))] /\ Writes'
    BY <1>1, <1>2, <1>3, <1>4, <1>5, SendPlain DEF EnvTeardown
<1>7. ReadTypes'
    BY DEF EnvTeardown, IInv, TypeOK, ReadTypes
<1>8. FlowTypes'
    BY DEF EnvTeardown, world, IInv, TypeOK, FlowTypes, Places, Bounded
<1>9. MindTypes'
    BY NoneRec DEF EnvTeardown, mind, IInv, TypeOK, MindTypes
<1>10. Numbered'
    BY <1>1 DEF EnvTeardown, IInv, Numbered, TypeOK, FlowTypes, remote
<1>11. Releases'
    BY <1>1 DEF EnvTeardown, mind, IInv, Releases, Ended, Left, TypeOK, MindTypes, remote
<1>12. QED BY <1>1, <1>6, <1>7, <1>8, <1>9, <1>10, <1>11, SideKeeps

\* A gesture, and a change of the local terminal, publish a value.
LEMMA PressKeeps ==
    ASSUME Bounded, IInv, NEW d \in Daemons, Press(d) PROVE IInv'
<1>1. UNCHANGED <<remote, gen, told, notes>>
    BY DEF Press, flow
<1>2. Mine(d) \in Clients
    BY MineClient DEF Press
<1>3. view[d] \in {0, 1}
    BY DEF IInv, TypeOK, FlowTypes
<1>4. <<Publish(d, view[d], FALSE)>> \in Seq(Plain)
    BY <1>3, PlainCommands, PlainOne
<1>5. queue' \in [Clients -> Seq(Seq(Cmds))] /\ Writes'
    BY <1>1, <1>2, <1>3, <1>4, SendPlain DEF Press, WantClaim, Up, Disturbed
<1>6. ReadTypes'
    BY DEF Press, flow, IInv, TypeOK, ReadTypes
<1>7. FlowTypes'
    BY DEF Press, Disturbed, flow, IInv, TypeOK, FlowTypes, Places
<1>8. MindTypes'
    BY NoneRec DEF Press, WantClaim, IInv, TypeOK, MindTypes
<1>9. Numbered'
    BY <1>1 DEF Press, flow, IInv, Numbered, TypeOK, FlowTypes, remote
<1>10. Releases'
    BY <1>1 DEF Press, IInv, Releases, Ended, Left, TypeOK, MindTypes, remote
<1>11. QED BY <1>1, <1>5, <1>6, <1>7, <1>8, <1>9, <1>10, SideKeeps

LEMMA ViewChangeKeeps ==
    ASSUME Bounded, IInv, NEW d \in Daemons, ViewChange(d) PROVE IInv'
<1>1. UNCHANGED <<remote, gen, told, notes>>
    BY DEF ViewChange, flow
<1>2. Mine(d) \in Clients
    BY MineClient DEF ViewChange
<1>3. 1 - view[d] \in {0, 1}
    BY DEF IInv, TypeOK, FlowTypes
<1>4. <<Publish(d, 1 - view[d], TRUE)>> \in Seq(Plain)
    BY <1>3, PlainCommands, PlainOne
<1>5. queue' \in [Clients -> Seq(Seq(Cmds))] /\ Writes'
    BY <1>1, <1>2, <1>3, <1>4, SendPlain DEF ViewChange, Up, Disturbed
<1>6. ReadTypes'
    BY DEF ViewChange, flow, IInv, TypeOK, ReadTypes
<1>7. FlowTypes'
    BY DEF ViewChange, Disturbed, flow, IInv, TypeOK, FlowTypes, Places
<1>8. MindTypes'
    BY NoneRec DEF ViewChange, mind, IInv, TypeOK, MindTypes
<1>9. Numbered'
    BY <1>1 DEF ViewChange, flow, IInv, Numbered, TypeOK, FlowTypes, remote
<1>10. Releases'
    BY <1>1 DEF ViewChange, mind, IInv, Releases, Ended, Left, TypeOK, MindTypes, remote
<1>11. QED BY <1>1, <1>5, <1>6, <1>7, <1>8, <1>9, <1>10, SideKeeps

\* Priming records for a client that is not yet the daemon's own.
LEMMA PrimeAnswerKeeps ==
    ASSUME Bounded, IInv, NEW d \in Daemons, PrimeAnswer(d) PROVE IInv'
<1>1. UNCHANGED <<remote, gen, told, notes>>
    BY DEF PrimeAnswer
<1>2. <<d, gen[d]>> \in Clients
    BY DEF Bounded, PrimeAnswer, IInv, Numbered, TypeOK, FlowTypes, Clients
<1>3. <<Record, Size>> \in Seq(Plain) /\ <<Size>> \in Seq(Plain)
    BY PlainCommands, PlainOne, PlainTwo
<1>4. <<Flag(<<d, gen[d]>>, TRUE), Size>> \in Seq(Plain)
    BY <1>2, PlainCommands, PlainTwo
<1>5. queue' \in [Clients -> Seq(Seq(Cmds))] /\ Writes'
    BY <1>1, <1>2, <1>3, <1>4, SendPlain DEF PrimeAnswer, Own, Foreign
<1>6. ReadTypes'
    BY DEF PrimeAnswer, IInv, TypeOK, ReadTypes
<1>7. FlowTypes'
    BY DEF PrimeAnswer, world, IInv, TypeOK, FlowTypes, Places
<1>8. MindTypes'
    BY NoneRec DEF PrimeAnswer, mind, IInv, TypeOK, MindTypes
<1>9. Numbered'
    BY <1>1 DEF PrimeAnswer, IInv, Numbered, TypeOK, FlowTypes, remote
<1>10. Releases'
    BY <1>1 DEF PrimeAnswer, mind, IInv, Releases, Ended, Left, TypeOK, MindTypes, remote
<1>11. QED BY <1>1, <1>5, <1>6, <1>7, <1>8, <1>9, <1>10, SideKeeps

\* A report taken may flag this client, and forgets a release it contradicts.
LEMMA ApplyReportKeeps ==
    ASSUME Bounded, IInv, NEW d \in Daemons, ApplyReport(d) PROVE IInv'
<1>1. /\ Mine(d) \in Clients /\ Head(notes[Mine(d)]) \in Items
      /\ Head(notes[Mine(d)]).kind = "report"
      /\ notes' \in [Clients -> Seq(Items)]
      /\ told' \in [Clients -> {None} \union Reports] /\ News'
    BY NoteTaken DEF ApplyReport
<1>2. UNCHANGED <<remote, gen, told>>
    BY DEF ApplyReport, TakeNote
<1>3. Head(notes[Mine(d)]).r \in Reports
    BY <1>1 DEF Items
<1>4. Head(notes[Mine(d)]).r.rec \in Recs /\ Head(notes[Mine(d)]).r.flagged \in BOOLEAN
    BY <1>3 DEF Reports
<1>5. /\ <<>> \in Seq(Plain)
      /\ <<Flag(Mine(d), ~Head(notes[Mine(d)]).r.flagged)>> \o Recalc(d) \in Seq(Plain)
    BY <1>1, RecalcPlain, PlainCommands, PlainOne, PlainJoined
<1>6. \E cmds \in Seq(Plain) : Send(Mine(d), cmds)
    BY <1>5 DEF ApplyReport
<1>7. queue' \in [Clients -> Seq(Seq(Cmds))] /\ Writes'
    BY <1>1, <1>2, <1>6, SendPlain
<1>8. ReadTypes'
    BY DEF ApplyReport, TakeNote, IInv, TypeOK, ReadTypes
<1>9. FlowTypes'
    BY DEF ApplyReport, TakeNote, world, IInv, TypeOK, FlowTypes, Places
<1>10. MindTypes'
    BY <1>4, NoneRec DEF ApplyReport, SetOwner, TakeNote, IInv, TypeOK, MindTypes
<1>11. Numbered'
    BY <1>2 DEF ApplyReport, TakeNote, IInv, Numbered, TypeOK, FlowTypes, remote
<1>12. Releases'
    BY <1>2 DEF ApplyReport, SetOwner, TakeNote, IInv, Releases, Ended, Left, TypeOK,
       MindTypes, remote
<1>13. QED BY <1>1, <1>2, <1>7, <1>8, <1>9, <1>10, <1>11, <1>12, LineKeeps

\* A departure taken may hold the release of the owner that departed.
LEMMA DetachedKeeps ==
    ASSUME Bounded, IInv, NEW d \in Daemons, Detached(d) PROVE IInv'
<1>1. /\ Mine(d) \in Clients /\ Head(notes[Mine(d)]) \in Items
      /\ Head(notes[Mine(d)]).kind = "detached"
      /\ notes' \in [Clients -> Seq(Items)]
      /\ told' \in [Clients -> {None} \union Reports] /\ News'
    BY NoteTaken DEF Detached
<1>2. UNCHANGED <<remote, gen, told>>
    BY DEF Detached, TakeNote
<1>3. Left(Head(notes[Mine(d)]).c)
    BY NoteTaken DEF Detached
<1>4. Recalc(d) \in Seq(Plain) /\ <<>> \in Seq(Plain)
    BY RecalcPlain, PlainCommands
<1>5. \E cmds \in Seq(Plain) : Send(Mine(d), cmds)
    BY <1>4 DEF Detached, Dropped
<1>6. queue' \in [Clients -> Seq(Seq(Cmds))] /\ Writes'
    BY <1>1, <1>2, <1>5, SendPlain
<1>7. ReadTypes'
    BY DEF Detached, TakeNote, IInv, TypeOK, ReadTypes
<1>8. FlowTypes'
    BY DEF Detached, TakeNote, world, IInv, TypeOK, FlowTypes, Places
<1>9. MindTypes'
    BY NoneRec DEF Detached, Dropped, TakeNote, IInv, TypeOK, MindTypes
<1>10. Numbered'
    BY <1>2 DEF Detached, TakeNote, IInv, Numbered, TypeOK, FlowTypes, remote
<1>11. Releases'
    BY <1>2, <1>3 DEF Detached, Dropped, TakeNote, IInv, Releases, Ended, Left, TypeOK,
       MindTypes, remote
<1>12. QED BY <1>1, <1>2, <1>6, <1>7, <1>8, <1>9, <1>10, <1>11, LineKeeps

\* An arrival taken asks for the clients anew.
LEMMA ArrivedKeeps ==
    ASSUME Bounded, IInv, NEW d \in Daemons, Arrived(d) PROVE IInv'
<1>1. /\ Mine(d) \in Clients /\ Head(notes[Mine(d)]) \in Items
      /\ Head(notes[Mine(d)]).kind = "attached"
      /\ notes' \in [Clients -> Seq(Items)]
      /\ told' \in [Clients -> {None} \union Reports] /\ News'
    BY NoteTaken DEF Arrived
<1>2. UNCHANGED <<remote, gen, told, queue>>
    BY DEF Arrived, Ask, TakeNote
<1>3. ReadTypes'
    BY DEF Arrived, Ask, TakeNote, IInv, TypeOK, ReadTypes
<1>4. FlowTypes'
    BY DEF Arrived, Ask, TakeNote, world, IInv, TypeOK, FlowTypes, Places
<1>5. MindTypes'
    BY <1>1 DEF Arrived, TakeNote, IInv, TypeOK, MindTypes, Items
<1>6. Numbered'
    BY <1>2 DEF Arrived, Ask, TakeNote, IInv, Numbered, TypeOK, FlowTypes, remote
<1>7. Releases'
    BY <1>2 DEF Arrived, TakeNote, IInv, Releases, Ended, Left, TypeOK, MindTypes, remote
<1>8. QED BY <1>1, <1>2, <1>3, <1>4, <1>5, <1>6, <1>7, RemoteStays, QueueStays, LineKeeps

\* A release followed by commands of neither kind spares every attached owner.
LEMMA PairSpares ==
    ASSUME NEW x \in Seq(Cmds), NEW q \in Seq(Cmds), Len(x) = 1, Ended(x[1].old),
           \A i \in 1..Len(x) : x[i].op # "record",
           \A i \in 1..Len(q) : q[i].op # "record" /\ q[i].op # "release"
    PROVE  x \o q \in Seq(Cmds) /\ Spares(x \o q)
<1> DEFINE w == x \o q
           n == Len(q)
<1>1. /\ w \in Seq(Cmds) /\ n \in Nat /\ Len(w) = 1 + n
      /\ \A i \in 1..(1 + n) : w[i] = IF i <= 1 THEN x[i] ELSE q[i - 1]
    BY ConcatProperties
<1>2. x[1].op # "record" /\ \A i \in 1..n : q[i].op # "record" /\ q[i].op # "release"
    OBVIOUS
<1> HIDE DEF w, n
<1>3. ASSUME NEW i \in 1..Len(w)
      PROVE  w[i].op # "record" /\ (w[i].op = "release" => Ended(w[i].old))
    <2>1. CASE i = 1 BY <1>1, <1>2, <2>1
    <2>2. CASE i # 1
        <3>1. i - 1 \in 1..n /\ ~(i <= 1) /\ i \in 1..(1 + n) BY <1>1, <2>2
        <3>2. w[i] = q[i - 1] BY <1>1, <3>1
        <3>3. QED BY <1>2, <3>1, <3>2
    <2>3. QED BY <2>1, <2>2
<1>4. Spares(w) BY <1>3 DEF Spares
<1>5. QED BY <1>1, <1>4 DEF w

\* So does the release batch, with the late publication behind it.
LEMMA ReleaseSpares ==
    ASSUME TypeOK, NEW d \in Daemons, NEW r \in Recs, Ended(r),
           NEW val, Release(r, val) \in Cmds
    PROVE  /\ <<Release(r, val)>> \o CatchUp(d) \in Seq(Cmds)
           /\ Spares(<<Release(r, val)>> \o CatchUp(d))
<1>1. Publish(d, view[d], TRUE) \in Cmds
    <2>1. view[d] \in {0, 1} BY DEF TypeOK, FlowTypes
    <2>2. QED BY <2>1, PlainCommands DEF Plain
<1>2. Release(r, val).op = "release" /\ Release(r, val).old = r
      /\ Publish(d, view[d], TRUE).op = "env"
    BY DEF Release, Publish
<1>3. CatchUp(d) = <<>> \/ CatchUp(d) = <<Publish(d, view[d], TRUE)>> BY DEF CatchUp
<1> DEFINE e == Release(r, val)
           p == Publish(d, view[d], TRUE)
           q == CatchUp(d)
<1>4. e \in Cmds /\ p \in Cmds /\ e.op = "release" /\ Ended(e.old) /\ p.op = "env"
      /\ (q = <<>> \/ q = <<p>>)
    BY <1>1, <1>2, <1>3
<1> HIDE DEF e, p, q
<1>5. <<e>> \in Seq(Cmds) /\ Len(<<e>>) = 1 /\ <<e>>[1] = e
      /\ \A i \in 1..1 : i = 1
    BY <1>4
<1>6. q \in Seq(Cmds) /\ \A i \in 1..Len(q) : q[i] = p
    <2>1. CASE q = <<>> BY <2>1
    <2>2. CASE q = <<p>>
        <3>1. <<p>> \in Seq(Cmds) /\ Len(<<p>>) = 1 /\ <<p>>[1] = p /\ \A i \in 1..1 : i = 1
            BY <1>4
        <3>2. QED BY <2>2, <3>1
    <2>3. QED BY <1>4, <2>1, <2>2
<1>7. <<e>> \o q \in Seq(Cmds) /\ Spares(<<e>> \o q)
    BY <1>4, <1>5, <1>6, PairSpares
<1>8. QED BY <1>7 DEF e, q

\* A release is sent with the owner it was taken for.
LEMMA ReleaseSendKeeps ==
    ASSUME Bounded, IInv, NEW d \in Daemons, ReleaseSend(d) PROVE IInv'
<1>1. UNCHANGED <<remote, gen, told, notes>>
    BY DEF ReleaseSend
<1>2. Mine(d) \in Clients
    BY MineClient DEF ReleaseSend, IInv, Numbered
<1>3. st[d] \in Plans /\ taken[d] \in Recs /\ Ended(taken[d])
    BY DEF ReleaseSend, IInv, Numbered, Releases, TypeOK, MindTypes
<1>4. Release(taken[d], <<d, st[d].seen>>) \in Cmds
    BY <1>3 DEF Release, Plans, Cmds, Values
<1>5. <<Release(taken[d], <<d, st[d].seen>>)>> \o CatchUp(d) \in Seq(Cmds)
      /\ Spares(<<Release(taken[d], <<d, st[d].seen>>)>> \o CatchUp(d))
    BY <1>3, <1>4, ReleaseSpares DEF IInv
<1>6. queue' \in [Clients -> Seq(Seq(Cmds))] /\ Writes'
    BY <1>1, <1>2, <1>3, <1>4, <1>5, SendKeeps DEF ReleaseSend, IInv, remote
<1>7. ReadTypes'
    BY DEF ReleaseSend, IInv, TypeOK, ReadTypes
<1>8. FlowTypes'
    BY DEF ReleaseSend, world, IInv, TypeOK, FlowTypes, Places
<1>9. MindTypes'
    BY NoneRec DEF ReleaseSend, IInv, TypeOK, MindTypes
<1>10. Numbered'
    BY <1>1 DEF ReleaseSend, IInv, Numbered, TypeOK, FlowTypes, remote
<1>11. Releases'
    BY <1>1 DEF ReleaseSend, IInv, Releases, Ended, Left, TypeOK, MindTypes, remote
<1>12. QED BY <1>1, <1>6, <1>7, <1>8, <1>9, <1>10, <1>11, SideKeeps

----------------------------------------------------------------------------
(* Steps that change who is on the session.                                *)

\* Nobody who left comes back.
Stays == \A c \in Clients : Left(c) => Left(c)'

(* News of a client, true of a departure, and what was on its way.          *)
LEMMA TellKeeps ==
    ASSUME IInv, Stays, NEW S, NEW item \in Items, Tell(S, item), UNCHANGED told,
           item.kind = "detached" => Left(item.c)'
    PROVE  /\ notes' \in [Clients -> Seq(Items)] /\ News'
           /\ told' \in [Clients -> {None} \union Reports]
<1>1. notes \in [Clients -> Seq(Items)] /\ told \in [Clients -> {None} \union Reports]
    BY DEF IInv, TypeOK, LineTypes
<1>2. notes' \in [Clients -> Seq(Items)]
    BY <1>1 DEF Tell
<1>3. ASSUME NEW c \in Clients, NEW i \in 1..Len(notes'[c]), NEW n, n = notes'[c][i],
             n.kind = "detached"
      PROVE  Left(n.c)'
    <2> DEFINE q == notes[c]
    <2>1. q \in Seq(Items) BY <1>1
    <2>2. \A j \in 1..Len(q) : q[j] \in Items /\ (q[j].kind = "detached" => Left(q[j].c))
        BY <2>1 DEF IInv, News
    <2>3. notes'[c] = q \/ notes'[c] = Append(q, item) BY DEF Tell
    <2> HIDE DEF q
    <2>4. n = item \/ \E j \in 1..Len(q) : n = q[j] BY <1>3, <2>1, <2>3
    <2>5. CASE n = item BY <1>3, <2>5
    <2>6. CASE \E j \in 1..Len(q) : n = q[j]
        <3>1. n \in Items /\ Left(n.c) BY <1>3, <2>2, <2>6
        <3>2. n.c \in Clients BY <1>3, <3>1 DEF Items
        <3>3. QED BY <3>1, <3>2 DEF Stays
    <2>7. QED BY <2>4, <2>5, <2>6
<1>4. \A c \in Clients : \A i \in 1..Len(notes'[c]) : \A n :
          n = notes'[c][i] /\ n.kind = "detached" => Left(n.c)'
    BY <1>3
<1>5. News' BY <1>4 DEF News, Left
<1>6. QED BY <1>1, <1>2, <1>5

\* What a write spares when it is sent, it spares when somebody comes or goes.
LEMMA WritesStay ==
    ASSUME IInv, Stays, DOMAIN queue' = Clients,
           \A c \in Clients : queue'[c] = queue[c] \/ queue'[c] = <<>>
                              \/ (queue[c] # <<>> /\ queue'[c] = Tail(queue[c]))
    PROVE  Writes'
<1>1. queue \in [Clients -> Seq(Seq(Cmds))] BY DEF IInv, TypeOK, LineTypes
<1>2. ASSUME NEW w \in Seq(Cmds), Spares(w) PROVE Spares(w)'
    <2>1. \A i \in 1..Len(w) : w[i] \in Cmds OBVIOUS
    <2>2. \A i \in 1..Len(w) : w[i].op = "release" => w[i].old \in Recs
        BY <2>1 DEF Cmds
    <2>3. \A r \in Recs : r # None => r.cl \in Clients BY DEF Recs
    <2>4. \A r \in Recs : Ended(r) => Ended(r)' BY <2>3 DEF Stays, Ended
    <2>5. \A i \in 1..Len(w) : w[i].op = "release" => Ended(w[i].old)'
        BY <1>2, <2>2, <2>4 DEF Spares
    <2>6. QED BY <1>2, <2>5 DEF Spares
<1>3. ASSUME NEW c \in Clients, NEW i \in 1..Len(queue'[c]), NEW w, w = queue'[c][i]
      PROVE  Spares(w)'
    <2> DEFINE q == queue[c]
    <2>1. q \in Seq(Seq(Cmds)) BY <1>1
    <2>2. \A j \in 1..Len(q) : q[j] \in Seq(Cmds) /\ Spares(q[j])
        BY <2>1 DEF IInv, Writes
    <2>3. queue'[c] = q \/ queue'[c] = <<>> \/ (q # <<>> /\ queue'[c] = Tail(q)) OBVIOUS
    <2> HIDE DEF q
    <2>4. \E j \in 1..Len(q) : w = q[j]
        <3>1. CASE queue'[c] = q BY <1>3, <3>1
        <3>2. CASE queue'[c] = <<>> BY <1>3, <3>2
        <3>3. CASE q # <<>> /\ queue'[c] = Tail(q)
            <4>1. i + 1 \in 1..Len(q) /\ Tail(q)[i] = q[i + 1] BY <1>3, <2>1, <3>3
            <4>2. QED BY <1>3, <3>3, <4>1
        <3>4. QED BY <2>3, <3>1, <3>2, <3>3
    <2>5. QED BY <1>2, <2>2, <2>4
<1>4. \A c \in Clients : \A i \in 1..Len(queue'[c]) : \A w : w = queue'[c][i] => Spares(w)'
    BY <1>3
<1>5. QED BY <1>4 DEF Writes, Spares, Ended, Left

\* An owner that has left has left for good.
LEMMA ReleasesStay == ASSUME IInv, Stays, UNCHANGED <<held, taken>> PROVE Releases'
<1>1. \A r \in Recs : Ended(r) => Ended(r)'
    <2>1. \A r \in Recs : r # None => r.cl \in Clients BY DEF Recs
    <2>2. QED BY <2>1 DEF Stays, Ended
<1>2. \A d \in Daemons : held[d] \in Recs /\ taken[d] \in Recs
    BY DEF IInv, TypeOK, MindTypes
<1>3. \A d \in Daemons : Ended(held[d])' /\ Ended(taken[d])'
    <2>1. ASSUME NEW d \in Daemons PROVE Ended(held[d])' /\ Ended(taken[d])'
        <3>1. \A r \in Recs : r = held'[d] \/ r = taken'[d] => Ended(r)'
            BY <1>1, <1>2 DEF IInv, Releases
        <3>2. QED BY <1>2, <3>1 DEF Ended, Left
    <2>2. QED BY <2>1
<1>4. QED BY <1>3 DEF Releases

(* A dial puts a client of a new number on the session.                     *)
LEMMA DialKeeps ==
    ASSUME Bounded, IInv, NEW d \in Daemons, NEW n \in 1..MaxGen, gen[d] < n, NEW why,
           Dial(d, why, n)
    PROVE  /\ RemoteTypes' /\ gen' = [gen EXCEPT ![d] = n] /\ gen' \in [Daemons -> 0..MaxGen]
           /\ queue' \in [Clients -> Seq(Seq(Cmds))] /\ Writes'
           /\ notes' \in [Clients -> Seq(Items)]
           /\ told' \in [Clients -> {None} \union Reports] /\ News'
           /\ reply' \in [Daemons -> {None, Asked} \union Reads]
           /\ Releases' /\ MindTypes' /\ \A c \in att' : c[2] <= gen'[c[1]]
           /\ UNCHANGED <<st, view>> /\ pc' = [pc EXCEPT ![d] = why]
<1>1. gen' = [gen EXCEPT ![d] = n] /\ att' = att \union {<<d, n>>}
      /\ UNCHANGED <<rec, env, flg, sized, told, st, mind, view, queue>>
      /\ pc' = [pc EXCEPT ![d] = why]
    BY DEF Dial, Ask
<1>2. gen \in [Daemons -> 0..MaxGen] /\ MaxGen \in Nat /\ att \subseteq Clients
    BY DEF Bounded, IInv, TypeOK, FlowTypes, RemoteTypes
<1>3. <<d, n>> \in Clients BY DEF Clients
<1>4. RemoteTypes' BY <1>1, <1>2, <1>3 DEF IInv, TypeOK, RemoteTypes
<1>5. gen' \in [Daemons -> 0..MaxGen] BY <1>1, <1>2
<1>6. \A c \in Clients : c[1] \in Daemons /\ c[2] \in 1..MaxGen /\ c = <<c[1], c[2]>>
    BY DEF Clients
<1>7. Stays
    <2>1. ASSUME NEW c \in Clients, Left(c) PROVE Left(c)'
        <3>1. c \notin att /\ c[2] <= gen[c[1]] BY <2>1 DEF Left
        <3>2. c # <<d, n>> BY <1>2, <3>1
        <3>3. c[2] <= gen'[c[1]] BY <1>1, <1>2, <1>6, <3>1
        <3>4. QED BY <1>1, <3>1, <3>2, <3>3 DEF Left
    <2>2. QED BY <2>1 DEF Stays
<1>8. queue' \in [Clients -> Seq(Seq(Cmds))] /\ DOMAIN queue' = Clients
    BY <1>1 DEF IInv, TypeOK, LineTypes
<1>9. Writes' BY <1>1, <1>7, <1>8, WritesStay
<1>10. /\ notes' \in [Clients -> Seq(Items)] /\ News'
      /\ told' \in [Clients -> {None} \union Reports]
    <2>1. [kind |-> "attached", c |-> <<d, n>>] \in Items BY <1>3 DEF Items
    <2>2. Tell(att, [kind |-> "attached", c |-> <<d, n>>]) BY DEF Dial
    <2>3. QED BY <1>1, <1>7, <2>1, <2>2, TellKeeps
<1>11. reply' \in [Daemons -> {None, Asked} \union Reads]
    BY DEF Dial, Ask, IInv, TypeOK, ReadTypes
<1>12. Releases' BY <1>1, <1>7, ReleasesStay DEF mind
<1>13. MindTypes' BY <1>1 DEF IInv, TypeOK, MindTypes, mind
<1>14. \A c \in att' : c[2] <= gen'[c[1]]
    <2>1. ASSUME NEW c \in att' PROVE c[2] <= gen'[c[1]]
        <3>1. CASE c = <<d, n>> BY <1>1, <1>2, <3>1
        <3>2. CASE c \in att
            <4>1. c[2] <= gen[c[1]] /\ c \in Clients BY <1>2, <3>2 DEF IInv, Numbered
            <4>2. QED BY <1>1, <1>2, <1>6, <4>1
        <3>3. QED BY <1>1, <3>1, <3>2
    <2>2. QED BY <2>1
<1>15. QED BY <1>1, <1>4, <1>5, <1>8, <1>9, <1>10, <1>11, <1>12, <1>13, <1>14

\* A new client has a number above those that left.
LEMMA StartKeeps == ASSUME Bounded, IInv, NEW d \in Daemons, Start(d) PROVE IInv'
<1>1. 1 \in 1..MaxGen /\ gen[d] < 1
    BY DEF Bounded, Start, IInv, Numbered, TypeOK, FlowTypes
<1>2. PICK why \in {"claim", "reopen"} : Dial(d, why, 1)
    BY DEF Start
<1>3. /\ RemoteTypes' /\ gen' = [gen EXCEPT ![d] = 1] /\ gen' \in [Daemons -> 0..MaxGen]
      /\ queue' \in [Clients -> Seq(Seq(Cmds))] /\ Writes'
      /\ notes' \in [Clients -> Seq(Items)]
      /\ told' \in [Clients -> {None} \union Reports] /\ News'
      /\ reply' \in [Daemons -> {None, Asked} \union Reads]
      /\ Releases' /\ MindTypes' /\ \A c \in att' : c[2] <= gen'[c[1]]
      /\ UNCHANGED <<st, view>> /\ pc' = [pc EXCEPT ![d] = why]
    BY <1>1, <1>2, DialKeeps
<1>4. ReadTypes' BY <1>3 DEF IInv, TypeOK, ReadTypes
<1>5. FlowTypes' BY <1>1, <1>3 DEF Start, Disturbed, Bounded, IInv, TypeOK, FlowTypes, Places
<1>6. Numbered'
    BY <1>1, <1>3 DEF Start, Disturbed, Bounded, IInv, TypeOK, FlowTypes, Numbered, Places
<1>7. QED BY <1>3, <1>4, <1>5, <1>6 DEF IInv, TypeOK, LineTypes

LEMMA ReattachKeeps == ASSUME Bounded, IInv, NEW d \in Daemons, Reattach(d) PROVE IInv'
<1>1. gen[d] + 1 \in 1..MaxGen /\ gen[d] < gen[d] + 1
    BY DEF Bounded, Reattach, IInv, Numbered, TypeOK, FlowTypes
<1>2. Dial(d, "reconnect", gen[d] + 1)
    BY DEF Reattach
<1>3. /\ RemoteTypes' /\ gen' = [gen EXCEPT ![d] = gen[d] + 1]
      /\ gen' \in [Daemons -> 0..MaxGen]
      /\ queue' \in [Clients -> Seq(Seq(Cmds))] /\ Writes'
      /\ notes' \in [Clients -> Seq(Items)]
      /\ told' \in [Clients -> {None} \union Reports] /\ News'
      /\ reply' \in [Daemons -> {None, Asked} \union Reads]
      /\ Releases' /\ MindTypes' /\ \A c \in att' : c[2] <= gen'[c[1]]
      /\ UNCHANGED <<st, view>> /\ pc' = [pc EXCEPT ![d] = "reconnect"]
    BY <1>1, <1>2, DialKeeps
<1>4. ReadTypes' BY <1>3 DEF IInv, TypeOK, ReadTypes
<1>5. FlowTypes' BY <1>1, <1>3 DEF Reattach, Bounded, IInv, TypeOK, FlowTypes, Places
<1>6. Numbered'
    BY <1>1, <1>3 DEF Reattach, Bounded, IInv, TypeOK, FlowTypes, Numbered, Places
<1>7. QED BY <1>3, <1>4, <1>5, <1>6 DEF IInv, TypeOK, LineTypes

LEMMA PrimeKeeps == ASSUME Bounded, IInv, NEW d \in Daemons, Prime(d) PROVE IInv'
<1>1. gen[d] + 1 \in 1..MaxGen /\ gen[d] < gen[d] + 1
    BY DEF Bounded, Prime, IInv, Numbered, TypeOK, FlowTypes
<1>2. Dial(d, "prime", gen[d] + 1)
    BY DEF Prime
<1>3. /\ RemoteTypes' /\ gen' = [gen EXCEPT ![d] = gen[d] + 1]
      /\ gen' \in [Daemons -> 0..MaxGen]
      /\ queue' \in [Clients -> Seq(Seq(Cmds))] /\ Writes'
      /\ notes' \in [Clients -> Seq(Items)]
      /\ told' \in [Clients -> {None} \union Reports] /\ News'
      /\ reply' \in [Daemons -> {None, Asked} \union Reads]
      /\ Releases' /\ MindTypes' /\ \A c \in att' : c[2] <= gen'[c[1]]
      /\ UNCHANGED <<st, view>> /\ pc' = [pc EXCEPT ![d] = "prime"]
    BY <1>1, <1>2, DialKeeps
<1>4. ReadTypes' BY <1>3 DEF IInv, TypeOK, ReadTypes
<1>5. FlowTypes' BY <1>1, <1>3 DEF Prime, Disturbed, Bounded, IInv, TypeOK, FlowTypes, Places
<1>6. Numbered'
    BY <1>1, <1>3 DEF Prime, Disturbed, Bounded, IInv, TypeOK, FlowTypes, Numbered, Places
<1>7. QED BY <1>3, <1>4, <1>5, <1>6 DEF IInv, TypeOK, LineTypes

\* A client that goes is news to the others, and true.
LEMMA GoneKeeps == ASSUME Bounded, IInv, NEW c \in Clients, Gone(c) PROVE IInv'
<1>1. c \in att /\ att' = att \ {c} /\ flg' = flg \ {c} /\ queue' = [queue EXCEPT ![c] = <<>>]
      /\ UNCHANGED <<rec, env, sized, told, reply, flow, mind, world>>
    BY DEF Gone
<1>2. RemoteTypes' BY <1>1 DEF IInv, TypeOK, RemoteTypes
<1>3. Stays BY <1>1 DEF Stays, Left, flow
<1>4. queue \in [Clients -> Seq(Seq(Cmds))] BY DEF IInv, TypeOK, LineTypes
<1>5. <<>> \in Seq(Seq(Cmds)) OBVIOUS
<1>6. queue' \in [Clients -> Seq(Seq(Cmds))] BY <1>1, <1>4, <1>5
<1>7. Writes' BY <1>1, <1>3, <1>4, <1>6, WritesStay
<1>8. /\ notes' \in [Clients -> Seq(Items)] /\ News'
      /\ told' \in [Clients -> {None} \union Reports]
    <2>1. [kind |-> "detached", c |-> c] \in Items BY DEF Items
    <2>2. Left(c)' BY <1>1 DEF IInv, Numbered, Left, flow
    <2>3. Tell(att \ {c}, [kind |-> "detached", c |-> c]) BY DEF Gone
    <2> DEFINE item == [kind |-> "detached", c |-> c]
    <2>4. item \in Items /\ Tell(att \ {c}, item) /\ item.c = c BY <2>1, <2>3
    <2> HIDE DEF item
    <2>5. Left(item.c)' BY <2>2, <2>4 DEF item
    <2>6. QED BY <1>1, <1>3, <2>4, <2>5, TellKeeps
<1>9. Releases' BY <1>1, <1>3, ReleasesStay DEF mind
<1>10. ReadTypes' /\ FlowTypes' /\ MindTypes'
    BY <1>1 DEF IInv, TypeOK, ReadTypes, FlowTypes, MindTypes, flow, mind, world
<1>11. Numbered' BY <1>1 DEF IInv, Numbered, flow
<1>12. QED BY <1>2, <1>6, <1>7, <1>8, <1>9, <1>10, <1>11 DEF IInv, TypeOK, LineTypes

\* The far end answers and reports; it promises nothing.
LEMMA ExecReadKeeps == ASSUME Bounded, IInv, NEW c \in Clients, ExecRead(c) PROVE IInv'
<1>1. UNCHANGED <<remote, told, queue, notes, flow, mind, world>> BY DEF ExecRead
<1>2. RemoteTypes' /\ UNCHANGED <<att, gen>> BY <1>1, RemoteStays DEF flow
<1>3. queue' \in [Clients -> Seq(Seq(Cmds))] /\ Writes' BY <1>1, <1>2, QueueStays
<1>4. /\ notes' \in [Clients -> Seq(Items)] /\ News'
      /\ told' \in [Clients -> {None} \union Reports]
    BY <1>1, <1>2, NewsStays
<1>5. ReadTypes'
    <2> DEFINE read == [rec |-> rec, flagged |-> c \in flg, others |-> att \ {c},
                        loud |-> (att \ {c}) \ flg]
    <2>1. read \in Reads BY DEF Reads, IInv, TypeOK, RemoteTypes
    <2>2. reply' = [reply EXCEPT ![c[1]] = read] /\ UNCHANGED st BY <1>1 DEF ExecRead, flow
    <2> HIDE DEF read
    <2>3. QED BY <2>1, <2>2 DEF IInv, TypeOK, ReadTypes
<1>6. FlowTypes' /\ MindTypes'
    BY <1>1 DEF IInv, TypeOK, FlowTypes, MindTypes, flow, mind, world
<1>7. Numbered' BY <1>1, <1>2 DEF IInv, Numbered, flow
<1>8. Releases' BY <1>1, <1>2 DEF IInv, Releases, Ended, Left, mind
<1>9. QED BY <1>2, <1>3, <1>4, <1>5, <1>6, <1>7, <1>8 DEF IInv, TypeOK, LineTypes

LEMMA ReportKeeps == ASSUME Bounded, IInv, NEW c \in Clients, Report(c) PROVE IInv'
<1> DEFINE r == [flagged |-> c \in flg, rec |-> rec]
           item == [kind |-> "report", r |-> r]
<1>1. UNCHANGED <<remote, queue, reply, flow, mind, world>> /\ told' = [told EXCEPT ![c] = r]
      /\ Tell({c}, item)
    BY DEF Report
<1>2. RemoteTypes' /\ UNCHANGED <<att, gen>> BY <1>1, RemoteStays DEF flow
<1>3. queue' \in [Clients -> Seq(Seq(Cmds))] /\ Writes' BY <1>1, <1>2, QueueStays
<1>4. r \in Reports BY DEF Reports, IInv, TypeOK, RemoteTypes
<1> HIDE DEF r
<1>5. item \in Items /\ item.kind = "report" BY <1>4 DEF Items
<1> HIDE DEF item
<1>6. told' \in [Clients -> {None} \union Reports]
    BY <1>1, <1>4 DEF IInv, TypeOK, LineTypes
<1>7. notes' \in [Clients -> Seq(Items)] /\ News'
    BY <1>1, <1>2, <1>5, NoteAdded
<1>8. ReadTypes' /\ FlowTypes' /\ MindTypes'
    BY <1>1 DEF IInv, TypeOK, ReadTypes, FlowTypes, MindTypes, flow, mind, world
<1>9. Numbered' BY <1>1, <1>2 DEF IInv, Numbered, flow
<1>10. Releases' BY <1>1, <1>2 DEF IInv, Releases, Ended, Left, mind
<1>11. QED BY <1>2, <1>3, <1>6, <1>7, <1>8, <1>9, <1>10 DEF IInv, TypeOK, LineTypes

(* A write of a client, run to its end, leaves the record of an attached    *)
(* client one.                                                              *)
LEMMA ExecSpares ==
    ASSUME Bounded, IInv, NEW c \in Clients, Exec(c)
    PROVE  /\ KeepsAttached
           /\ rec' \in Recs /\ env' \in {None} \union Values
           /\ flg' \in SUBSET Clients /\ sized' \in SUBSET Clients
<1> DEFINE R == [rec |-> rec, env |-> env, flg |-> flg, sized |-> sized]
           cmds == Head(queue[c])
<1>1. R \in States /\ R.rec = rec BY DEF IInv, TypeOK, RemoteTypes, States
<1>2. queue[c] \in Seq(Seq(Cmds)) /\ queue[c] # <<>> BY DEF IInv, TypeOK, LineTypes, Exec
<1>3. cmds \in Seq(Cmds) /\ cmds = queue[c][1] /\ 1 \in 1..Len(queue[c]) BY <1>2
<1>4. Spares(cmds) BY <1>3 DEF IInv, Writes
<1>5. /\ rec' = Written(c, R, cmds).rec /\ env' = Written(c, R, cmds).env
      /\ flg' = Written(c, R, cmds).flg /\ sized' = Written(c, R, cmds).sized
    BY DEF Exec, Written
<1> HIDE DEF R, cmds
<1>6. /\ Written(c, R, cmds) \in States
      /\ R.rec # None /\ R.rec.cl \in att => Written(c, R, cmds).rec # None
    BY <1>1, <1>3, <1>4, WriteSpares DEF IInv
<1>7. QED BY <1>1, <1>5, <1>6 DEF KeepsAttached, States

\* A write run leaves the queue.
LEMMA ExecKeeps == ASSUME Bounded, IInv, NEW c \in Clients, Exec(c) PROVE IInv'
<1>1. UNCHANGED <<att, notes, reply, flow, mind, world>>
      /\ queue' = [queue EXCEPT ![c] = Tail(queue[c])] /\ queue[c] # <<>>
    BY DEF Exec
<1>2. RemoteTypes' BY <1>1, ExecSpares DEF IInv, TypeOK, RemoteTypes
<1>3. queue \in [Clients -> Seq(Seq(Cmds))] /\ Tail(queue[c]) \in Seq(Seq(Cmds))
    BY <1>1 DEF IInv, TypeOK, LineTypes
<1>4. queue' \in [Clients -> Seq(Seq(Cmds))] BY <1>1, <1>3
<1>5. Stays BY <1>1 DEF Stays, Left, flow
<1>6. Writes' BY <1>1, <1>3, <1>4, <1>5, WritesStay
<1>7. told' \in [Clients -> {None} \union Reports]
    BY DEF Exec, IInv, TypeOK, LineTypes
<1>8. notes' \in [Clients -> Seq(Items)] /\ News'
    BY <1>1 DEF IInv, TypeOK, LineTypes, News, Left, flow
<1>9. ReadTypes' /\ FlowTypes' /\ MindTypes'
    BY <1>1 DEF IInv, TypeOK, ReadTypes, FlowTypes, MindTypes, flow, mind, world
<1>10. Numbered' BY <1>1 DEF IInv, Numbered, flow
<1>11. Releases' BY <1>1, <1>5, ReleasesStay DEF mind
<1>12. QED BY <1>2, <1>4, <1>6, <1>7, <1>8, <1>9, <1>10, <1>11 DEF IInv, TypeOK, LineTypes

----------------------------------------------------------------------------
(* The first state, every step, and what follows.                          *)

\* The first states.
LEMMA BegunTyped ==
    ASSUME Bounded, NEW S \in SUBSET Daemons, NEW o \in Daemons, Begun(S, o)
    PROVE  IInv
<1> DEFINE on == {<<d, 1>> : d \in S}
           owner == IF S = {} THEN None ELSE [tok |-> o, cl |-> <<o, 1>>]
<1>1. on \subseteq Clients /\ <<o, 1>> \in Clients BY DEF Bounded, Clients
<1>2. owner \in Recs BY <1>1 DEF Recs
<1>3. rec = owner /\ att = on /\ flg = on \ {<<o, 1>>} /\ sized = on \ flg
    BY DEF Begun
<1>4. RemoteTypes BY <1>1, <1>2, <1>3 DEF Begun, RemoteTypes, Values
<1>5. <<>> \in Seq(Seq(Cmds)) /\ <<>> \in Seq(Items) OBVIOUS
<1>6. LineTypes BY <1>2, <1>3, <1>5 DEF Begun, LineTypes, Reports
<1>7. ReadTypes BY DEF Begun, ReadTypes
<1>8. FlowTypes BY DEF Bounded, Begun, FlowTypes, Places
<1>9. MindTypes BY <1>1, <1>2, NoneRec DEF Begun, MindTypes
<1>10. Numbered BY <1>3 DEF Begun, Numbered
<1>11. News BY DEF Begun, News
<1>12. Releases BY DEF Begun, Releases, Ended
<1>13. Writes BY DEF Begun, Writes
<1>14. QED BY <1>4, <1>6, <1>7, <1>8, <1>9, <1>10, <1>11, <1>12, <1>13 DEF IInv, TypeOK

LEMMA InitInv == ASSUME Bounded, Init PROVE IInv
<1> DEFINE o == CHOOSE d \in Daemons : TRUE
<1>1. o \in Daemons BY DEF Bounded
<1>2. Begun({}, o) \/ Begun({o}, o) \/ Begun(Daemons, o) BY DEF Init
<1> HIDE DEF o
<1>3. QED BY <1>1, <1>2, BegunTyped

(* Every step keeps the invariant.                                          *)
LEMMA StepInv == ASSUME Bounded, IInv, [Next]_vars PROVE IInv'
<1>1. ASSUME NEW c \in Clients, Server(c) PROVE IInv'
    BY <1>1, ExecKeeps, ExecReadKeeps, ReportKeeps, GoneKeeps DEF Server
<1>2. ASSUME NEW d \in Daemons, Loop(d) PROVE IInv'
    BY <1>2, ReattachKeeps, AnswerClaimKeeps, AnswerPassKeeps, ClaimSendKeeps, AssertSizeKeeps,
       AnswerEnforceKeeps, DetachedKeeps, ArrivedKeeps, ApplyReportKeeps, TakeClaimKeeps,
       ReleaseDueKeeps, AnswerReleaseKeeps, ReleaseSendKeeps, PrimeAnswerKeeps, PrimeSwapKeeps,
       EnvTeardownKeeps DEF Loop
<1>3. ASSUME NEW d \in Daemons, Disturb(d) PROVE IInv'
    BY <1>3, StartKeeps, DropKeeps, PrimeKeeps, PrimeFailKeeps, LeaveKeeps, KillKeeps, TypeKeeps,
       PressKeeps, ViewChangeKeeps DEF Disturb
<1>4. CASE UNCHANGED vars
    <2>1. UNCHANGED <<remote, told, queue, notes, reply, flow, mind, world>> BY <1>4 DEF vars
    <2>2. RemoteTypes' /\ UNCHANGED <<att, gen>> BY <2>1, RemoteStays DEF flow
    <2>3. queue' \in [Clients -> Seq(Seq(Cmds))] /\ Writes' BY <2>1, <2>2, QueueStays
    <2>4. /\ notes' \in [Clients -> Seq(Items)] /\ News'
      /\ told' \in [Clients -> {None} \union Reports]
        BY <2>1, <2>2, NewsStays
    <2>5. ReadTypes' /\ FlowTypes' /\ MindTypes'
        BY <2>1 DEF IInv, TypeOK, ReadTypes, FlowTypes, MindTypes, flow, mind, world
    <2>6. Numbered' /\ Releases'
        BY <2>1, <2>2 DEF IInv, Numbered, Releases, Ended, Left, flow, mind
    <2>7. QED BY <2>2, <2>3, <2>4, <2>5, <2>6 DEF IInv, TypeOK, LineTypes
<1>5. QED BY <1>1, <1>2, <1>3, <1>4 DEF Next

(* Throughout, a release that is announced, held, taken or written is for a *)
(* client that has left for good (sizeowner.go, detached to releaseDue).    *)
THEOREM Invariance == ASSUME Bounded PROVE Spec => []IInv
<1>1. Init => IInv BY InitInv
<1>2. IInv /\ [Next]_vars => IInv' BY StepInv
<1>3. QED BY <1>1, <1>2, PTL DEF Spec

(* Every variable of the controllers and of the session keeps its type, and *)
(* no client is numbered beyond the bound.                                  *)
THEOREM TypeCorrect == ASSUME Bounded PROVE Spec => []TypeOK
<1>1. IInv => TypeOK BY DEF IInv
<1>2. QED BY <1>1, Invariance, PTL

(* Only a write of a client touches the record, and it spares an attached   *)
(* client's.                                                                *)
LEMMA StepSpares == ASSUME Bounded, IInv, [Next]_vars PROVE [KeepsAttached]_vars
<1>1. ASSUME NEW c \in Clients, Server(c) PROVE KeepsAttached
    <2>1. CASE Exec(c) BY <2>1, ExecSpares
    <2>2. CASE ExecRead(c) \/ Report(c) \/ Gone(c)
        BY <2>2 DEF ExecRead, Report, Gone, KeepsAttached, remote
    <2>3. QED BY <1>1, <2>1, <2>2 DEF Server
<1>2. ASSUME NEW d \in Daemons, Loop(d) \/ Disturb(d) PROVE rec' = rec
    <2>1. CASE Loop(d)
        BY <2>1 DEF Loop, Reattach, Dial, AnswerClaim, AnswerPass, Answered, ClaimSend, AssertSize,
            AnswerEnforce, Detached, Arrived, ApplyReport, TakeNote, TakeClaim, ReleaseDue,
            AnswerRelease, ReleaseSend, PrimeAnswer, PrimeSwap, EnvTeardown, remote
    <2>2. CASE Disturb(d)
        BY <2>2 DEF Disturb, Start, Dial, Drop, Prime, PrimeFail, Leave, Kill, Type, Press,
            ViewChange, remote
    <2>3. QED BY <1>2, <2>1, <2>2
<1>3. QED BY <1>1, <1>2 DEF Next, KeepsAttached

(* A record of the sizes' owner that names an attached client is cleared by *)
(* nobody, however many daemons claim, release, drop, replace their         *)
(* clients and end, and however late their commands and news come           *)
(* (sizeowner.go, ownerReleaseCmd and releaseDue).                          *)
THEOREM AttachedKept == ASSUME Bounded PROVE Spec => AttachedOwnerKept
<1>1. IInv /\ [Next]_vars => [KeepsAttached]_vars BY StepSpares
<1>2. QED BY <1>1, Invariance, PTL DEF Spec, AttachedOwnerKept
=============================================================================
