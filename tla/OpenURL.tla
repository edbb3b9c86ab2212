-------------------------------- MODULE OpenURL --------------------------------
(***************************************************************************)
(* URLs opened on the remote reach the machine the user sits at            *)
(* (openurl.go).  The remote's og-open appends records to a log option     *)
(* when a controller is registered; each daemon subscribes to the log and  *)
(* opens the records it has not seen.  Several daemons of one machine may  *)
(* mirror one session, and a connection may be lost and made again.        *)
(*                                                                         *)
(* Ctls are daemons, all on one machine except Elsewhere.  A control       *)
(* client's name is its daemon and the number of its connection, at most   *)
(* MaxConns; only the daemons in Returning lose one.  A record is its      *)
(* number, at most MaxRecords of them; its tag is a client name or None.   *)
(* Burst is the size of the token bucket, PerReport the records one report *)
(* may open, MaxReports the reports on their way to a daemon.              *)
(***************************************************************************)
EXTENDS Integers, Sequences, FiniteSets

CONSTANTS Ctls, Elsewhere, Returning, None, MaxConns, MaxRecords, MaxReports, Burst, PerReport

VARIABLES
    log,      \* records in @og_open_url
    tag,      \* the tags of the records written so far
    listed,   \* @og_open_clients
    legacy,   \* @og_open_client
    conn,     \* daemon -> number of its current or last connection
    up,       \* daemons whose connection stands
    pc,       \* daemon -> the step of connect it is at, or "on"
    got,      \* daemon -> the registry and the clients register read
    told,     \* daemon -> the log last reported to it, or {0}
    reports,  \* daemon -> reports on their way
    seen, self, spent,   \* urlOpener, per daemon
    claims,   \* records claimed in the machine's claim directory
    opens,    \* <<daemon, record>> -> times opened
    dropped,  \* <<daemon, record>>: suppressed by the rate limits
    owed      \* <<daemon, record>>: written while the daemon was registered for it, and its
              \* connection has stood since

ovars == <<log, tag, listed, legacy, conn, up, pc, got, told, reports, seen, self, spent, claims,
           opens, dropped, owed>>
remote == <<log, tag, listed, legacy>>
daemon == <<pc, got, seen, self, spent, claims, opens, dropped>>

Name(c) == <<c, conn[c]>>
Attached == {Name(c) : c \in up}
Records == 1..MaxRecords
Nothing == {0}  \* not yet reported: no log holds 0
Unread == [listed |-> {}, attached |-> {}]

Init ==
    /\ log = {} /\ tag = <<>> /\ listed = {} /\ legacy = None /\ claims = {} /\ dropped = {} /\ owed = {}
    /\ conn = [c \in Ctls |-> 0] /\ up = {} /\ pc = [c \in Ctls |-> "off"]
    /\ got = [c \in Ctls |-> Unread]
    /\ told = [c \in Ctls |-> Nothing] /\ reports = [c \in Ctls |-> <<>>]
    /\ seen = [c \in Ctls |-> {}] /\ self = [c \in Ctls |-> None] /\ spent = [c \in Ctls |-> 0]
    /\ opens = [p \in Ctls \X Records |-> 0]

----------------------------------------------------------------------------
(* The remote: og-open and the subscription.                               *)
\* Forwarded when a listed client, or the legacy one, is attached; tagged
\* with the size owner's client when that one is attached and listed.  A log
\* grown too long is replaced: what no report carried yet is lost with it.
Forward(t, afresh) ==
    /\ Len(tag) < MaxRecords /\ Attached \intersect (listed \union {legacy}) # {}
    /\ t \in (Attached \intersect listed) \union {None}
    /\ afresh => log # {}
    /\ LET n == Len(tag) + 1
           on == {c \in up : pc[c] = "on" /\ t \in {None, Name(c)}}
           kept == IF afresh THEN {p \in owed : p[2] \in told[p[1]]} ELSE owed
       IN  /\ log' = (IF afresh THEN {} ELSE log) \union {n}
           /\ tag' = Append(tag, t) /\ owed' = kept \union (on \X {n})
    /\ UNCHANGED <<listed, legacy, conn, up, told, reports, daemon>>

Subscribed(c) == c \in up /\ pc[c] \in {"read", "clients", "write", "on"}
Report(c) ==
    /\ Subscribed(c) /\ told[c] # log /\ Len(reports[c]) < MaxReports /\ told' = [told EXCEPT ![c] = log]
    /\ reports' = [reports EXCEPT ![c] = Append(@, log)]
    /\ UNCHANGED <<remote, conn, up, owed, daemon>>

----------------------------------------------------------------------------
(* connect: seed, subscribe, register, each after the last succeeded.      *)
Dial(c) ==
    /\ c \notin up /\ conn[c] < MaxConns /\ conn' = [conn EXCEPT ![c] = @ + 1]
    /\ up' = up \union {c} /\ pc' = [pc EXCEPT ![c] = "seed"]
    /\ UNCHANGED <<remote, got, told, reports, seen, self, spent, claims, opens, dropped, owed>>

Seed(c) == seen' = [seen EXCEPT ![c] = log]

Connect(c) ==
    /\ c \in up /\ pc[c] = "seed" /\ Seed(c) /\ pc' = [pc EXCEPT ![c] = "sub"]
    /\ UNCHANGED <<remote, conn, up, got, told, reports, self, spent, claims, opens, dropped, owed>>
Subscribe(c) ==
    /\ c \in up /\ pc[c] = "sub" /\ pc' = [pc EXCEPT ![c] = "read"]
    /\ self' = [self EXCEPT ![c] = None]
    /\ UNCHANGED <<remote, conn, up, got, told, reports, seen, spent, claims, opens, dropped, owed>>

\* register reads the registry, then who is attached.
ReadRegistry(c) ==
    /\ c \in up /\ pc[c] = "read" /\ pc' = [pc EXCEPT ![c] = "clients"]
    /\ got' = [got EXCEPT ![c].listed = listed]
    /\ UNCHANGED <<remote, conn, up, told, reports, seen, self, spent, claims, opens, dropped, owed>>
ReadClients(c) ==
    /\ c \in up /\ pc[c] = "clients" /\ pc' = [pc EXCEPT ![c] = "write"]
    /\ got' = [got EXCEPT ![c].attached = Attached] /\ self' = [self EXCEPT ![c] = Name(c)]
    /\ UNCHANGED <<remote, conn, up, told, reports, seen, spent, claims, opens, dropped, owed>>

\* Names no attached client holds are pruned; each write edits the option in place.
Stale(c) == got[c].listed \ (got[c].attached \union {Name(c)})

Register(c) ==
    /\ c \in up /\ pc[c] = "write" /\ pc' = [pc EXCEPT ![c] = "on"]
    /\ listed' = (listed \ Stale(c)) \union {Name(c)} /\ legacy' = Name(c)
    /\ got' = [got EXCEPT ![c] = Unread]
    /\ UNCHANGED <<log, tag, conn, up, told, reports, seen, self, spent, claims, opens, dropped, owed>>

Drop(c) ==
    /\ c \in up \intersect Returning /\ conn[c] < MaxConns /\ up' = up \ {c} /\ pc' = [pc EXCEPT ![c] = "off"]
    /\ told' = [told EXCEPT ![c] = Nothing] /\ reports' = [reports EXCEPT ![c] = <<>>]
    /\ owed' = {p \in owed : p[1] # c} /\ got' = [got EXCEPT ![c] = Unread]
    /\ UNCHANGED <<remote, conn, seen, self, spent, claims, opens, dropped>>

----------------------------------------------------------------------------
(* handle: the fresh records of one report, within the rate limits.        *)
Fresh(c, recs) == {n \in recs \ seen[c] : tag[n] \in {None, self[c]}}

\* The first daemon of the machine to create a record's marker opens it.
ClaimedNever(c, n) == FALSE  \* Mutant: a daemon does not look for the marker
Claimed(c, n) == c \notin Elsewhere /\ n \in claims

\* Every record takes a token of the bucket; one that is claimed gives it back.
Allowed(c) == IF Burst - spent[c] < PerReport THEN Burst - spent[c] ELSE PerReport

Handle(c) ==
    /\ c \in up /\ pc[c] = "on" /\ reports[c] # <<>>
    /\ reports' = [reports EXCEPT ![c] = Tail(@)]
    /\ LET recs == Head(reports[c])
           mine == {n \in Fresh(c, recs) : ~Claimed(c, n)}
           now == {n \in mine : Cardinality({k \in mine : k < n}) < Allowed(c)}
       IN  /\ seen' = [seen EXCEPT ![c] = recs]
           /\ spent' = [spent EXCEPT ![c] = @ + Cardinality(now)]
           /\ claims' = IF c \in Elsewhere THEN claims ELSE claims \union now
           /\ opens' = [p \in DOMAIN opens |-> IF p[1] = c /\ p[2] \in now THEN opens[p] + 1 ELSE opens[p]]
           /\ dropped' = dropped \union ({c} \X (mine \ now))
    /\ UNCHANGED <<remote, conn, up, pc, got, told, self, owed>>

\* takeToken: the bucket refills as time goes by.
Refill(c) ==
    /\ spent[c] > 0 /\ spent' = [spent EXCEPT ![c] = @ - 1]
    /\ UNCHANGED <<remote, conn, up, pc, got, told, reports, seen, self, claims, opens, dropped, owed>>

Next ==
    \/ \E t \in (Ctls \X (1..MaxConns)) \union {None}, afresh \in BOOLEAN : Forward(t, afresh)
    \/ \E c \in Ctls : \/ Report(c) \/ Dial(c) \/ Connect(c) \/ Subscribe(c) \/ ReadRegistry(c)
                       \/ ReadClients(c) \/ Register(c) \/ Drop(c) \/ Handle(c) \/ Refill(c)
Spec == Init /\ [][Next]_ovars

----------------------------------------------------------------------------
(* A URL opens once: at most once on a machine, and on no machine but the  *)
(* tagged one's, across reconnects, resets of the log and other daemons;   *)
(* a daemon that was registered for a record opens it, or a daemon of its  *)
(* machine does, unless the rate limits dropped it; and a daemon that has  *)
(* registered stays listed while its connection stands.                    *)
OnMachine(c) == IF c \in Elsewhere THEN {c} ELSE Ctls \ Elsewhere
Times(c, n) == LET on == OnMachine(c) IN
               Cardinality({d \in on : opens[<<d, n>>] > 0})
AtMostOnce == \A c \in Ctls, n \in Records :
    /\ opens[<<c, n>>] <= 1 /\ Times(c, n) <= 1
    /\ opens[<<c, n>>] > 0 => tag[n] = None \/ tag[n][1] = c
Reaches == \A p \in owed :
    (reports[p[1]] = <<>> /\ told[p[1]] = log) =>
        \E d \in OnMachine(p[1]) : opens[<<d, p[2]>>] > 0 \/ <<d, p[2]>> \in dropped
StaysListed == \A c \in up : pc[c] = "on" => Name(c) \in listed
OpenedOnce == AtMostOnce /\ Reaches /\ StaysListed

----------------------------------------------------------------------------
(* Why.  A name is listed by a daemon that has registered it, and no daemon *)
(* prunes one it has seen attached (Registers).  What a daemon has seen,    *)
(* what is reported to it and the log follow each other without a record    *)
(* that comes back (Follows), so none it has opened is fresh again          *)
(* (Opened); and a record owed is opened or dropped, or still on its way to *)
(* a daemon that has not seen it (Owes).                                    *)
Steps == {"off", "seed", "sub", "read", "clients", "write", "on"}
Clients == Ctls \X Nat
Logs == SUBSET Nat
Typed ==
    /\ tag \in Seq({None} \union Clients) /\ Len(tag) <= MaxRecords /\ listed \in SUBSET Clients
    /\ conn \in [Ctls -> Nat] /\ up \in SUBSET Ctls /\ pc \in [Ctls -> Steps]
    /\ got \in [Ctls -> [listed : SUBSET Clients, attached : SUBSET Clients]]
    /\ told \in [Ctls -> Logs] /\ reports \in [Ctls -> Seq(Logs)] /\ seen \in [Ctls -> Logs]
    /\ self \in [Ctls -> {None} \union Clients] /\ opens \in [Ctls \X Records -> Nat]
    /\ owed \in SUBSET (Ctls \X Records)

\* No log holds a record that is not written yet.
Written ==
    /\ log \subseteq 1..Len(tag)
    /\ \A c \in Ctls :
         /\ seen[c] \subseteq 1..Len(tag) /\ told[c] \subseteq 0..Len(tag)
         /\ \A i \in 1..Len(reports[c]) : reports[c][i] \subseteq 1..Len(tag)
         /\ c \in up <=> pc[c] # "off"
         /\ ~Subscribed(c) => reports[c] = <<>>

Registers ==
    /\ \A c \in up :
         /\ pc[c] = "on" => Name(c) \in listed
         /\ pc[c] \in {"write", "on"} => self[c] = Name(c)
    /\ \A d \in Ctls, k \in Nat :
         /\ <<d, k>> \in listed => k <= conn[d]
         /\ d \in up /\ <<d, conn[d]>> \in listed => pc[d] = "on"
         /\ \A c \in Ctls : <<d, k>> \in got[c].listed =>
              /\ k <= conn[d]
              /\ d \in up /\ k = conn[d] =>
                   pc[d] = "on" /\ (pc[c] = "write" => <<d, k>> \in got[c].attached)

\* Logs r, from what was seen to the log of now: what leaves does not come back.
InOrder(was, r, now) ==
    /\ \A i \in 1..Len(r) : was \intersect now \subseteq r[i]
    /\ \A i, j \in 1..Len(r) : i < j =>
         was \intersect r[j] \subseteq r[i] /\ r[i] \intersect now \subseteq r[j]
    /\ \A i, j, k \in 1..Len(r) : i < j /\ j < k => r[i] \intersect r[k] \subseteq r[j]
Follows == \A c \in Ctls : InOrder(seen[c], reports[c], log)

Opened ==
    /\ \A c \in Ctls, n \in Records : opens[<<c, n>>] > 0 =>
         /\ opens[<<c, n>>] = 1 /\ n <= Len(tag) /\ (tag[n] = None \/ tag[n][1] = c)
         /\ \/ n \in seen[c]
            \/ n \notin log /\ \A i \in 1..Len(reports[c]) : n \notin reports[c][i]
         /\ c \notin Elsewhere =>
              n \in claims /\ \A d \in Ctls \ Elsewhere : opens[<<d, n>>] > 0 => d = c
    /\ \A n \in claims : n \in Records /\ \E d \in Ctls \ Elsewhere : opens[<<d, n>>] > 0

Served(c, n) == \E d \in OnMachine(c) : opens[<<d, n>>] > 0 \/ <<d, n>> \in dropped
Owes == \A c \in Ctls, n \in Records : <<c, n>> \in owed =>
    /\ c \in up /\ pc[c] = "on" /\ n <= Len(tag) /\ tag[n] \in {None, Name(c)}
    /\ \/ Served(c, n)
       \/ n \notin seen[c] /\ (n \in log \ told[c] \/ \E i \in 1..Len(reports[c]) : n \in reports[c][i])

IInv == Typed /\ Written /\ Registers /\ Follows /\ Opened /\ Owes
================================================================================
