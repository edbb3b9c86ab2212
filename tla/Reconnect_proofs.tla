-------------------------- MODULE Reconnect_proofs --------------------------
(***************************************************************************)
(* Proofs about a mirror's connection, for any terminals, ctl handlers,    *)
(* remotes and schedules, with or without a park.                          *)
(*                                                                         *)
(* None of what the runs check of it is inductive.  A replacement and a    *)
(* reattach pass through places where two connections are open, or none,   *)
(* or one that is not yet recorded: Connections says in every place which  *)
(* of the published, the verified and the served connection are the same,  *)
(* Carries for which terminal each was dialled, Counted sets the dials     *)
(* against the attempts, and Refusals and Marks follow the last answer,    *)
(* the badge and the dimming from where they are set.                      *)
(***************************************************************************)
EXTENDS Reconnect, TLAPS

\* Once the stop has run no transport works, and none started later will.
StopHolds == stopping => shutdown /\ \A c \in Conns : ~conn[c].up

----------------------------------------------------------------------------
\* The loop has the published connection, and repaired the mirror on it.
Served == {"serve", "replace", "replace.dial", "replace.identify", "replace.prime", "done",
           "drop.drain", "drop.clear", "reattach", "up.drain", "up.clear", "undim"}
\* A connection is open beside what is published, if anything is.
Verifying == {"dialled", "identify", "replace.identify", "replace.prime", "replace.bind"}
\* It has been published; the loop does not run on it yet.
Adopting == {"advertise", "repair", "replace.advertise", "replace.repair"}
\* Nothing is published.
Down == {"attempt", "wait", "dial", "dialled", "identify", "replace.bind", "park",
         "park.arm", "park.stamp", "parked", "wake", "ended"}
\* An attempt of a schedule, up to its dial and from there on.
Trying == {"attempt", "wait", "dial"}
Tried == {"dialled", "identify", "advertise", "repair"}
Closing == {"teardown", "ended"}

\* TypeOK by kind: the flags, the connections, and what is neither.
Flags ==
    /\ refused \in BOOLEAN /\ restoring \in BOOLEAN /\ dimmed \in BOOLEAN
    /\ afterProbe \in BOOLEAN /\ quiet \in BOOLEAN /\ woken \in BOOLEAN
    /\ dark \in BOOLEAN /\ unheeded \in BOOLEAN /\ armed \in BOOLEAN /\ poked \in BOOLEAN
    /\ inFlight \in BOOLEAN /\ signal \in BOOLEAN /\ shutdown \in BOOLEAN
    /\ stopping \in BOOLEAN
Conn == [open : BOOLEAN, up : BOOLEAN, term : SomeTerm, home : BOOLEAN]
Held ==
    /\ conn \in [Conns -> Conn] /\ bound \subseteq Conns
    /\ hold \in Conns \cup {0} /\ cur \in Conns /\ next \in Conns \cup {0}
    /\ repaired \in Conns \cup {0}
Plain ==
    /\ pc \in Places /\ term \in Terms /\ kind \in Kinds
    /\ attempt \in Nat \ {0} /\ spent \in Nat
    /\ badge \in {"none", "disconnected", "parked"}
    /\ ending \in {"none", "teardown", "replaced", "gone"} /\ poker \in {"idle", "send"}
    /\ viewer \in Terms /\ desired \in Terms /\ advertised \in Terms
    /\ press \in [Pressers -> [at : {"idle", "compare", "swap", "send"}, term : SomeTerm]]
    /\ \A p \in Pressers : press[p].at = "compare" => press[p].term \in Terms
    /\ remote \in Remotes
    /\ answer \in {"home", "drop", "refused", "malformed", "other"}

\* What is open, and which of the connections are one.
Connections ==
    /\ \A c \in Conns : conn[c].open => c \in {hold, next}
    /\ \A c \in bound : conn[c].open /\ c = hold /\ conn[c].home
    /\ pc \in Verifying => next \in Conns /\ next # hold /\ conn[next].open
    /\ pc \in Adopting => next \in Conns /\ next = hold
    /\ pc \notin Verifying \cup Adopting => next = 0
    /\ pc \in Served => hold \in Conns /\ cur = hold /\ repaired = hold
    /\ pc \in Down => hold = 0
    /\ pc \in {"replace.prime", "replace.bind"} => conn[next].home

\* A connection under way carries the terminal it will be advertised with.
Carries ==
    pc \in Verifying \cup {"advertise", "replace.advertise"} => conn[next].term = term

\* Each dial is one attempt of the schedule, or of the one restore window behind it.
Base == IF restoring THEN RetryMax ELSE 0
Counted ==
    /\ attempt <= MaxAttempts(kind) + 1
    /\ pc \in (Trying \cup Tried) \ {"attempt"} => Scheduled
    /\ pc \in Trying \cup Tried => (restoring <=> kind = "restore")
    /\ pc \in {"park", "park.arm", "park.stamp", "parked", "wake"} => ~restoring
    /\ pc \in Trying => spent + 1 <= Base + attempt
    /\ pc \in Tried => spent <= Base + attempt
    /\ pc \in Served \cup Replacing \cup {"parked", "wake"} => spent = 0

\* A refusal is forgotten before the next dial, an ending is the last thing.
Refusals ==
    /\ refused => pc \in {"attempt", "wait"} \cup Closing /\ answer = "refused"
    /\ ending # "none" => pc \in Closing

\* Where the marks of an outage are set, and where they are gone.
Marks ==
    /\ afterProbe => dark
    /\ dark => dimmed
    /\ pc \in {"park.arm", "park.stamp"} /\ quiet => dark
    /\ pc \in Served \cup Replacing => badge = "none"
    /\ pc \in (Served \cup Replacing) \ {"up.drain", "up.clear", "undim"} => ~dark

IInv ==
    /\ Flags /\ Held /\ Plain /\ Connections /\ Carries /\ AdvertisedTrue
    /\ Counted /\ BudgetHolds /\ Refusals /\ EndingEarned /\ Marks /\ BadgeHonest
    /\ RaiseServed /\ StopHolds

----------------------------------------------------------------------------

(* What happens to the table of connections keeps its type. *)
LEMMA ConnTyped == ASSUME Held PROVE
  /\ \A S : Closed(S) \in [Conns -> Conn]
  /\ \A c \in Conns : /\ [conn EXCEPT ![c].home = TRUE] \in [Conns -> Conn]
                       /\ [conn EXCEPT ![c].up = FALSE] \in [Conns -> Conn]
  /\ [c \in Conns |-> [conn[c] EXCEPT !.up = FALSE]] \in [Conns -> Conn]
  /\ \A c \in Conns, b \in BOOLEAN, t \in Terms :
       [conn EXCEPT ![c] = [open |-> TRUE, up |-> b, term |-> t, home |-> FALSE]]
         \in [Conns -> Conn]
<1>1. TRUE \in BOOLEAN /\ FALSE \in BOOLEAN OBVIOUS
<1>2. \A a, b, d \in BOOLEAN, t \in SomeTerm :
        [open |-> a, up |-> b, term |-> t, home |-> d] \in Conn
  BY DEF Conn
<1>3. Unused \in Conn BY <1>1, <1>2 DEF Unused, SomeTerm
<1>4. \A c \in Conns, b \in BOOLEAN, t \in Terms :
        [open |-> TRUE, up |-> b, term |-> t, home |-> FALSE] \in Conn
  BY <1>1, <1>2 DEF SomeTerm
<1>5. \A r \in Conn, b \in BOOLEAN : /\ [r EXCEPT !.home = b] \in Conn
                                     /\ [r EXCEPT !.up = b] \in Conn
  BY DEF Conn
<1>6. \A S : Closed(S) \in [Conns -> Conn] BY <1>3 DEF Held, Closed
<1>7. \A c \in Conns, r \in Conn : [conn EXCEPT ![c] = r] \in [Conns -> Conn] BY DEF Held
<1>8. \A c \in Conns : conn[c] \in Conn BY DEF Held
<1>9. \A c \in Conns, b \in BOOLEAN : /\ [conn EXCEPT ![c].home = b] \in [Conns -> Conn]
                                      /\ [conn EXCEPT ![c].up = b] \in [Conns -> Conn]
  BY <1>5, <1>7, <1>8
<1>10. [c \in Conns |-> [conn[c] EXCEPT !.up = FALSE]] \in [Conns -> Conn]
  BY <1>1, <1>5, <1>8
<1>11. QED BY <1>1, <1>4, <1>6, <1>7, <1>9, <1>10

(* What a transport's end leaves of a connection. *)
LEMMA UpLost == ASSUME Held
  PROVE \A c \in Conns :
    LET f == [d \in Conns |-> [conn[d] EXCEPT !.up = FALSE]] IN
      /\ f[c].open = conn[c].open /\ f[c].term = conn[c].term
      /\ f[c].home = conn[c].home /\ ~f[c].up
<1>1. ASSUME NEW r \in Conn, NEW b \in BOOLEAN, NEW s, s = [r EXCEPT !.up = b]
      PROVE s.open = r.open /\ s.term = r.term /\ s.home = r.home /\ s.up = b
  BY <1>1 DEF Conn
<1>2. FALSE \in BOOLEAN OBVIOUS
<1>3. \A c \in Conns : conn[c] \in Conn BY DEF Held
<1>4. QED BY <1>1, <1>2, <1>3

(* With two connections open at most, a third id is free to dial. *)
LEMMA FreeIsFree == ASSUME Held, Connections, pc \in {"replace.dial", "dial"}
  PROVE Free \in Conns /\ ~conn[Free].open /\ Free \notin {cur, hold, next}
<1>1. next = 0 /\ (hold = 0 \/ hold = cur)
  BY DEF Connections, Served, Down, Verifying, Adopting
<1>2. PICK c \in Conns : c \notin {cur, hold} BY <1>1 DEF Conns
<1>3. ~conn[c].open /\ c \notin {cur, hold, next} BY <1>1, <1>2 DEF Connections, Conns
<1>4. QED BY <1>3 DEF Free

(* A schedule has at least one attempt, and none but the restore window's is longer
   than the first one's. *)
LEMMA Maxima ==
  /\ MaxAttempts("retry") = RetryMax /\ MaxAttempts("restore") = RestoreMax
  /\ MaxAttempts("wake") \in 1..RetryMax /\ MaxAttempts("probe") = 1
  /\ \A k \in Kinds : MaxAttempts(k) \in Nat \ {0}
  /\ \A k \in Kinds \ {"restore"} : MaxAttempts(k) <= RetryMax
<1>1. /\ MaxAttempts("retry") = RetryMax /\ MaxAttempts("restore") = RestoreMax
      /\ MaxAttempts("wake") = WakeMax /\ MaxAttempts("probe") = 1
  BY DEF MaxAttempts
<1>2. QED BY <1>1, ScheduleAssumption DEF Kinds

(* The flags keep their type. *)
LEMMA FlagsKept ==
  ASSUME Flags, Next PROVE Flags'
<1> USE DEF Flags, Go, loop, marks, waker, view, raising, outside, hist, main
<1>1. CASE ServeDrop BY <1>1 DEF ServeDrop
<1>2. CASE ServeReplace
  <2>1. signal' \in BOOLEAN BY <1>2, Zenon DEF ServeReplace
  <2>2. QED BY <1>2, <2>1 DEF ServeReplace
<1>3. CASE CancelDrain
  <2>1. signal' \in BOOLEAN BY <1>3, Zenon DEF CancelDrain
  <2>2. QED BY <1>3, <2>1 DEF CancelDrain
<1>4. CASE CancelClear
  <2>1. inFlight' \in BOOLEAN BY <1>4, Zenon DEF CancelClear
  <2>2. QED BY <1>4, <2>1 DEF CancelClear
<1>5. CASE Undim
  <2>1. dimmed' \in BOOLEAN /\ afterProbe' \in BOOLEAN BY <1>5, Zenon DEF Undim
  <2>2. QED BY <1>5, <2>1 DEF Undim
<1>6. CASE Teardown BY <1>6 DEF Teardown
<1>7. CASE ServeEnd BY <1>7 DEF ServeEnd
<1>8. CASE ParkVanished
  <2>1. armed' \in BOOLEAN BY <1>8, Zenon DEF ParkVanished, Leave
  <2>2. QED BY <1>8, <2>1 DEF ParkVanished, Leave, Terminal
<1>9. CASE ParkFocus
  <2>1. woken' \in BOOLEAN /\ armed' \in BOOLEAN BY <1>9, Zenon DEF ParkFocus, Woken, Leave
  <2>2. QED BY <1>9, <2>1 DEF ParkFocus, Woken, Leave
<1>10. CASE Replace
  <2>1. CASE ReplaceStart BY <2>1 DEF ReplaceStart
  <2>2. CASE ReplaceDial BY <2>2 DEF ReplaceDial
  <2>3. CASE ReplaceAbandon BY <2>3 DEF ReplaceAbandon
  <2>4. CASE ReplaceIdentify BY <2>4 DEF ReplaceIdentify
  <2>5. CASE ReplaceSwap BY <2>5 DEF ReplaceSwap
  <2>6. CASE ReplaceBind BY <2>6 DEF ReplaceBind
  <2>7. CASE ReplaceAdvertise BY <2>7 DEF ReplaceAdvertise
  <2>8. CASE ReplaceRepaired BY <2>8 DEF ReplaceRepaired
  <2>9. CASE ReplaceGone
    <3>1. inFlight' \in BOOLEAN BY <2>9, Zenon DEF ReplaceGone
    <3>2. QED BY <2>9, <3>1 DEF ReplaceGone
  <2>10. CASE ReplaceDone
    <3>1. inFlight' \in BOOLEAN BY <2>10, Zenon DEF ReplaceDone
    <3>2. QED BY <2>10, <3>1 DEF ReplaceDone
  <2>11. QED
    BY <1>10, <2>1, <2>2, <2>3, <2>4, <2>5, <2>6, <2>7, <2>8, <2>9, <2>10 DEF Replace
<1>11. CASE Cycle
  <2>1. CASE Reattach
    <3>1. refused' \in BOOLEAN /\ restoring' \in BOOLEAN /\ woken' \in BOOLEAN
      BY <2>1, Zenon DEF Reattach, StartCycle
    <3>2. QED BY <2>1, <3>1 DEF Reattach, StartCycle
  <2>2. CASE Attempt BY <2>2 DEF Attempt
  <2>3. CASE AttemptStopped BY <2>3 DEF AttemptStopped, Terminal
  <2>4. CASE WaitOver
    <3>1. refused' \in BOOLEAN BY <2>4, Zenon DEF WaitOver
    <3>2. QED BY <2>4, <3>1 DEF WaitOver
  <2>5. CASE CycleRefused
    <3>1. refused' \in BOOLEAN /\ restoring' \in BOOLEAN /\ unheeded' \in BOOLEAN
      BY <2>5, Zenon DEF CycleRefused, Refused, StartCycle
    <3>2. QED BY <2>5, <3>1 DEF CycleRefused, Refused, StartCycle
  <2>6. CASE CycleExhausted
    <3>1. restoring' \in BOOLEAN BY <2>6, Zenon DEF CycleExhausted
    <3>2. QED BY <2>6, <3>1 DEF CycleExhausted, Terminal
  <2>7. CASE DialFailed BY <2>7 DEF DialFailed, Spend, Continue
  <2>8. CASE Dial BY <2>8 DEF Dial, Spend
  <2>9. CASE DialStopped BY <2>9 DEF DialStopped, Terminal
  <2>10. CASE DialGoesOn BY <2>10 DEF DialGoesOn
  <2>11. CASE IdentifyDropped BY <2>11 DEF IdentifyDropped, Continue
  <2>12. CASE IdentifyRefused
    <3>1. refused' \in BOOLEAN /\ restoring' \in BOOLEAN /\ unheeded' \in BOOLEAN
      BY <2>12, Zenon DEF IdentifyRefused, Refused, StartCycle
    <3>2. QED BY <2>12, <3>1 DEF IdentifyRefused, Refused, StartCycle
  <2>13. CASE IdentifyMalformed BY <2>13 DEF IdentifyMalformed, Terminal
  <2>14. CASE IdentifyOther BY <2>14 DEF IdentifyOther
  <2>15. CASE IdentifyHome BY <2>15 DEF IdentifyHome
  <2>16. CASE Advertise BY <2>16 DEF Advertise
  <2>17. CASE RepairGone BY <2>17 DEF RepairGone, Terminal
  <2>18. CASE RepairPoisoned BY <2>18 DEF RepairPoisoned, Continue
  <2>19. CASE Repaired
    <3>1. unheeded' \in BOOLEAN BY <2>19, Zenon DEF Repaired, Connected
    <3>2. QED BY <2>19, <3>1 DEF Repaired, Connected
  <2>20. QED
    BY <1>11, <2>1, <2>2, <2>3, <2>4, <2>5, <2>6, <2>7, <2>8, <2>9, <2>10, <2>11, <2>12,
       <2>13, <2>14, <2>15, <2>16, <2>17, <2>18, <2>19 DEF Cycle
<1>12. CASE Parking
  <2>1. CASE Park
    <3>1. afterProbe' \in BOOLEAN /\ poked' \in BOOLEAN BY <2>1, Zenon DEF Park
    <3>2. QED BY <2>1, <3>1 DEF Park
  <2>2. CASE ParkArm
    <3>1. woken' \in BOOLEAN /\ armed' \in BOOLEAN BY <2>2, Zenon DEF ParkArm
    <3>2. QED BY <2>2, <3>1 DEF ParkArm
  <2>3. CASE ParkStamp
    <3>1. dimmed' \in BOOLEAN /\ dark' \in BOOLEAN BY <2>3, Zenon DEF ParkStamp
    <3>2. QED BY <2>3, <3>1 DEF ParkStamp
  <2>4. CASE ParkStop
    <3>1. armed' \in BOOLEAN BY <2>4, Zenon DEF ParkStop, Leave
    <3>2. QED BY <2>4, <3>1 DEF ParkStop, Leave, Terminal
  <2>5. CASE ParkKey
    <3>1. woken' \in BOOLEAN /\ armed' \in BOOLEAN /\ poked' \in BOOLEAN
      BY <2>5, Zenon DEF ParkKey, Woken, Leave
    <3>2. QED BY <2>5, <3>1 DEF ParkKey, Woken, Leave
  <2>6. CASE ParkProbe
    <3>1. refused' \in BOOLEAN /\ afterProbe' \in BOOLEAN /\ armed' \in BOOLEAN
      BY <2>6, Zenon DEF ParkProbe, Leave, StartCycle
    <3>2. QED BY <2>6, <3>1 DEF ParkProbe, Leave, StartCycle
  <2>7. CASE WakeCycle
    <3>1. refused' \in BOOLEAN /\ unheeded' \in BOOLEAN
      BY <2>7, Zenon DEF WakeCycle, StartCycle
    <3>2. QED BY <2>7, <3>1 DEF WakeCycle, StartCycle
  <2>8. QED BY <1>12, <2>1, <2>2, <2>3, <2>4, <2>5, <2>6, <2>7 DEF Parking
<1>13. CASE Watch BY <1>13 DEF Watch
<1>14. CASE Key BY <1>14 DEF Key
<1>15. CASE PokeSend
  <2>1. poked' \in BOOLEAN BY <1>15, Zenon DEF PokeSend
  <2>2. QED BY <1>15, <2>1 DEF PokeSend
<1>16. CASE ViewerSwitch BY <1>16 DEF ViewerSwitch
<1>17. CASE RemoteChange BY <1>17 DEF RemoteChange
<1>18. CASE Stop
  <2>1. shutdown' \in BOOLEAN BY <1>18, Zenon DEF Stop
  <2>2. QED BY <1>18, <2>1 DEF Stop
<1>19. CASE StopTransport
  <2>1. stopping' \in BOOLEAN BY <1>19, Zenon DEF StopTransport
  <2>2. QED BY <1>19, <2>1 DEF StopTransport
<1>20. ASSUME NEW p \in Pressers, Raise(p) PROVE Flags'
  <2>1. RaiseSwap(p) => inFlight' \in BOOLEAN BY Zenon DEF RaiseSwap
  <2>2. RaiseSend(p) => signal' \in BOOLEAN BY Zenon DEF RaiseSend
  <2>3. QED BY <1>20, <2>1, <2>2 DEF Raise, RaiseResolve, RaiseCompare, RaiseSwap, RaiseSend
<1>21. ASSUME NEW c \in Conns, ConnDies(c) PROVE Flags' BY <1>21 DEF ConnDies
<1>22. QED
  BY <1>1, <1>2, <1>3, <1>4, <1>5, <1>6, <1>7, <1>8, <1>9, <1>10, <1>11, <1>12, <1>13,
     <1>14, <1>15, <1>16, <1>17, <1>18, <1>19, <1>20, <1>21 DEF Next, MainLoop, Beside

(* The table of connections and what points into it keep their types. *)
LEMMA HeldKept ==
  ASSUME Flags, Plain, Held, Connections, Next PROVE Held'
<1> USE DEF Held, Connections, Conns, Verifying, Adopting, Go, loop, marks, waker, view,
       raising, outside, hist, main
<1>1. CASE ServeDrop BY <1>1 DEF ServeDrop, Live
<1>2. CASE ServeReplace BY <1>2 DEF ServeReplace
<1>3. CASE CancelDrain BY <1>3 DEF CancelDrain
<1>4. CASE CancelClear BY <1>4 DEF CancelClear
<1>5. CASE Undim BY <1>5 DEF Undim
<1>6. CASE Teardown BY <1>6, ConnTyped DEF Teardown, HoldClose, CloseConns
<1>7. CASE ServeEnd BY <1>7 DEF ServeEnd
<1>8. CASE ParkVanished BY <1>8 DEF ParkVanished, Leave, Terminal
<1>9. CASE ParkFocus BY <1>9 DEF ParkFocus, Woken, Leave
<1>10. CASE Replace
  <2>1. CASE ReplaceStart BY <2>1 DEF ReplaceStart
  <2>2. CASE ReplaceDial
    <3>1. Started \in BOOLEAN BY DEF Started
    <3>2. QED BY <2>2, <3>1, ConnTyped, FreeIsFree DEF ReplaceDial, Dialled, Plain
  <2>3. CASE ReplaceAbandon BY <2>3, ConnTyped DEF ReplaceAbandon, CloseConns
  <2>4. CASE ReplaceIdentify BY <2>4, ConnTyped DEF ReplaceIdentify, Live
  <2>5. CASE ReplaceSwap BY <2>5, ConnTyped DEF ReplaceSwap, Live, HoldClose, CloseConns
  <2>6. CASE ReplaceBind BY <2>6, ConnTyped DEF ReplaceBind
  <2>7. CASE ReplaceAdvertise BY <2>7 DEF ReplaceAdvertise, Carried
  <2>8. CASE ReplaceRepaired BY <2>8 DEF ReplaceRepaired
  <2>9. CASE ReplaceGone BY <2>9 DEF ReplaceGone
  <2>10. CASE ReplaceDone BY <2>10 DEF ReplaceDone
  <2>11. QED
    BY <1>10, <2>1, <2>2, <2>3, <2>4, <2>5, <2>6, <2>7, <2>8, <2>9, <2>10 DEF Replace
<1>11. CASE Cycle
  <2>1. CASE Reattach BY <2>1, ConnTyped DEF Reattach, HoldClose, CloseConns, StartCycle
  <2>2. CASE Attempt BY <2>2 DEF Attempt, Scheduled, MaxAttempts
  <2>3. CASE AttemptStopped BY <2>3 DEF AttemptStopped, Terminal
  <2>4. CASE WaitOver BY <2>4 DEF WaitOver
  <2>5. CASE CycleRefused
    BY <2>5 DEF CycleRefused, Over, Scheduled, MaxAttempts, Refused, StartCycle
  <2>6. CASE CycleExhausted
    BY <2>6 DEF CycleExhausted, Over, Scheduled, MaxAttempts, Terminal
  <2>7. CASE DialFailed BY <2>7 DEF DialFailed, Spend, Continue
  <2>8. CASE Dial
    <3>1. Started \in BOOLEAN BY DEF Started
    <3>2. QED BY <2>8, <3>1, ConnTyped, FreeIsFree DEF Dial, Dialled, Plain
  <2>9. CASE DialStopped BY <2>9, ConnTyped DEF DialStopped, Terminal, CloseConns
  <2>10. CASE DialGoesOn BY <2>10 DEF DialGoesOn
  <2>11. CASE IdentifyDropped BY <2>11, ConnTyped DEF IdentifyDropped, CloseConns, Continue
  <2>12. CASE IdentifyRefused
    BY <2>12, ConnTyped DEF IdentifyRefused, Live, CloseConns, Refused, StartCycle
  <2>13. CASE IdentifyMalformed
    BY <2>13, ConnTyped DEF IdentifyMalformed, Live, Terminal, CloseConns
  <2>14. CASE IdentifyOther BY <2>14, ConnTyped DEF IdentifyOther, Live, CloseConns
  <2>15. CASE IdentifyHome BY <2>15, ConnTyped DEF IdentifyHome, Live
  <2>16. CASE Advertise BY <2>16 DEF Advertise, Carried
  <2>17. CASE RepairGone BY <2>17 DEF RepairGone, Terminal
  <2>18. CASE RepairPoisoned
    BY <2>18, ConnTyped DEF RepairPoisoned, Live, HoldClose, CloseConns, Continue
  <2>19. CASE Repaired BY <2>19 DEF Repaired, Live, Connected
  <2>20. QED
    BY <1>11, <2>1, <2>2, <2>3, <2>4, <2>5, <2>6, <2>7, <2>8, <2>9, <2>10, <2>11, <2>12,
       <2>13, <2>14, <2>15, <2>16, <2>17, <2>18, <2>19 DEF Cycle
<1>12. CASE Parking
  BY <1>12 DEF Parking, Park, ParkArm, ParkStamp, ParkStop, Leave, Terminal, ParkKey,
     Woken, ParkProbe, StartCycle, WakeCycle
<1>13. CASE Watch BY <1>13 DEF Watch
<1>14. CASE Key BY <1>14 DEF Key
<1>15. CASE PokeSend BY <1>15 DEF PokeSend
<1>16. CASE ViewerSwitch BY <1>16 DEF ViewerSwitch
<1>17. CASE RemoteChange BY <1>17, ConnTyped DEF RemoteChange
<1>18. CASE Stop BY <1>18 DEF Stop
<1>19. CASE StopTransport BY <1>19, ConnTyped DEF StopTransport
<1>20. ASSUME NEW p \in Pressers, Raise(p) PROVE Held'
  BY <1>20 DEF Raise, RaiseResolve, RaiseCompare, RaiseSwap, RaiseSend
<1>21. ASSUME NEW c \in Conns, ConnDies(c) PROVE Held'
  BY <1>21, ConnTyped DEF ConnDies, Live
<1>22. QED
  BY <1>1, <1>2, <1>3, <1>4, <1>5, <1>6, <1>7, <1>8, <1>9, <1>10, <1>11, <1>12, <1>13,
     <1>14, <1>15, <1>16, <1>17, <1>18, <1>19, <1>20, <1>21 DEF Next, MainLoop, Beside

(* The rest keeps its type; a raise asks for a terminal that a viewer had. *)
LEMMA PlainKept ==
  ASSUME Plain, Next PROVE Plain'
<1> USE DEF Plain, Places, Replacing, Kinds, Go, loop, marks, waker, view, raising, outside,
       hist, main
<1>1. CASE ServeDrop \/ ServeReplace \/ CancelDrain \/ CancelClear \/ Undim \/ Teardown \/
          ServeEnd \/ ParkVanished \/ ParkFocus
  BY <1>1 DEF ServeDrop, ServeReplace, CancelDrain, CancelClear, Undim, Teardown,
     ServeEnd, ParkVanished, Leave, Terminal, ParkFocus, Woken
<1>2. CASE Replace
  BY <1>2 DEF Replace, ReplaceStart, ReplaceDial, ReplaceAbandon, ReplaceIdentify,
     ReplaceSwap, ReplaceBind, ReplaceAdvertise, Carried, ReplaceRepaired, ReplaceGone,
     ReplaceDone
<1>3. CASE Cycle
  <2>1. CASE Reattach BY <2>1 DEF Reattach, StartCycle
  <2>2. CASE Attempt BY <2>2 DEF Attempt
  <2>3. CASE AttemptStopped BY <2>3 DEF AttemptStopped, Terminal
  <2>4. CASE WaitOver BY <2>4 DEF WaitOver
  <2>5. CASE CycleRefused
    <3>1. CASE restoring BY <2>5, <3>1 DEF CycleRefused, Refused
    <3>2. CASE ~restoring BY <2>5, <3>2 DEF CycleRefused, Refused, StartCycle
    <3>3. QED BY <3>1, <3>2
  <2>6. CASE CycleExhausted BY <2>6 DEF CycleExhausted, Terminal
  <2>7. CASE DialFailed BY <2>7 DEF DialFailed, Spend, Continue
  <2>8. CASE Dial BY <2>8 DEF Dial, Spend
  <2>9. CASE DialStopped BY <2>9 DEF DialStopped, Terminal
  <2>10. CASE DialGoesOn BY <2>10 DEF DialGoesOn
  <2>11. CASE IdentifyDropped BY <2>11 DEF IdentifyDropped, Continue
  <2>12. CASE IdentifyRefused BY <2>12 DEF IdentifyRefused, Refused, StartCycle
  <2>13. CASE IdentifyMalformed BY <2>13 DEF IdentifyMalformed, Terminal
  <2>14. CASE IdentifyOther BY <2>14 DEF IdentifyOther
  <2>15. CASE IdentifyHome BY <2>15 DEF IdentifyHome
  <2>16. CASE Advertise BY <2>16 DEF Advertise, Carried
  <2>17. CASE RepairGone BY <2>17 DEF RepairGone, Terminal
  <2>18. CASE RepairPoisoned BY <2>18 DEF RepairPoisoned, Continue
  <2>19. CASE Repaired BY <2>19 DEF Repaired, Connected
  <2>20. QED
    BY <1>3, <2>1, <2>2, <2>3, <2>4, <2>5, <2>6, <2>7, <2>8, <2>9, <2>10, <2>11, <2>12,
       <2>13, <2>14, <2>15, <2>16, <2>17, <2>18, <2>19 DEF Cycle
<1>4. CASE Parking
  <2>1. CASE Park BY <2>1 DEF Park
  <2>2. CASE ParkArm BY <2>2 DEF ParkArm
  <2>3. CASE ParkStamp BY <2>3 DEF ParkStamp
  <2>4. CASE ParkStop BY <2>4 DEF ParkStop, Leave, Terminal
  <2>5. CASE ParkKey BY <2>5 DEF ParkKey, Woken, Leave
  <2>6. CASE ParkProbe BY <2>6 DEF ParkProbe, Leave, StartCycle
  <2>7. CASE WakeCycle BY <2>7 DEF WakeCycle, StartCycle
  <2>8. QED BY <1>4, <2>1, <2>2, <2>3, <2>4, <2>5, <2>6, <2>7 DEF Parking
<1>5. CASE Watch BY <1>5 DEF Watch
<1>6. CASE Key BY <1>6 DEF Key
<1>7. CASE PokeSend BY <1>7 DEF PokeSend
<1>8. CASE ViewerSwitch BY <1>8 DEF ViewerSwitch
<1>9. CASE RemoteChange BY <1>9 DEF RemoteChange
<1>10. CASE Stop BY <1>10 DEF Stop
<1>11. CASE StopTransport BY <1>11 DEF StopTransport
<1>12. ASSUME NEW p \in Pressers, Raise(p) PROVE Plain'
  <2> DEFINE Entry == [at : {"idle", "compare", "swap", "send"}, term : SomeTerm]
  <2>1. ASSUME NEW e \in Entry, e.at = "compare" => e.term \in Terms,
               press' = [press EXCEPT ![p] = e]
        PROVE  /\ press' \in [Pressers -> Entry]
               /\ \A q \in Pressers : press'[q].at = "compare" => press'[q].term \in Terms
    BY <2>1
  <2>2. /\ [at |-> "idle", term |-> NoTerm] \in Entry
        /\ [at |-> "compare", term |-> viewer] \in Entry
        /\ [press[p] EXCEPT !.at = "swap"] \in Entry
        /\ [press[p] EXCEPT !.at = "send"] \in Entry
        /\ [press[p] EXCEPT !.at = "swap"].at = "swap"
        /\ [press[p] EXCEPT !.at = "send"].at = "send"
    BY DEF SomeTerm
  <2>3. CASE RaiseResolve(p) BY <2>1, <2>2, <2>3 DEF RaiseResolve
  <2>4. CASE RaiseCompare(p)
    <3>1. CASE press[p].term = advertised
      BY <2>1, <2>2, <2>4, <3>1 DEF RaiseCompare
    <3>2. CASE press[p].term # advertised
      <4>1. press[p].term \in Terms BY <2>4 DEF RaiseCompare
      <4>2. QED BY <2>1, <2>2, <2>4, <3>2, <4>1 DEF RaiseCompare
    <3>3. QED BY <3>1, <3>2
  <2>5. CASE RaiseSwap(p)
    <3>1. CASE inFlight BY <2>1, <2>2, <2>5, <3>1 DEF RaiseSwap
    <3>2. CASE ~inFlight BY <2>1, <2>2, <2>5, <3>2 DEF RaiseSwap
    <3>3. QED BY <3>1, <3>2
  <2>6. CASE RaiseSend(p) BY <2>1, <2>2, <2>6 DEF RaiseSend
  <2>7. QED BY <1>12, <2>3, <2>4, <2>5, <2>6 DEF Raise
<1>13. ASSUME NEW c \in Conns, ConnDies(c) PROVE Plain' BY <1>13 DEF ConnDies
<1>14. QED
  BY <1>1, <1>2, <1>3, <1>4, <1>5, <1>6, <1>7, <1>8, <1>9, <1>10, <1>11, <1>12, <1>13 DEF
     Next, MainLoop, Beside

(* Every step leaves the connections in the relation its next place asks for. *)
LEMMA ConnectionsKept ==
  ASSUME Held, Connections, Next PROVE Connections'
<1> USE DEF Held, Connections, Conns, Served, Verifying, Adopting, Down, Go, loop, marks,
       waker, view, raising, outside, hist, main
<1>1. CASE ServeDrop BY <1>1 DEF ServeDrop, Live
<1>2. CASE ServeReplace BY <1>2 DEF ServeReplace
<1>3. CASE CancelDrain BY <1>3 DEF CancelDrain
<1>4. CASE CancelClear BY <1>4 DEF CancelClear
<1>5. CASE Undim BY <1>5 DEF Undim
<1>6. CASE Teardown BY <1>6 DEF Teardown, HoldClose, CloseConns, Closed, Unused
<1>7. CASE ServeEnd BY <1>7 DEF ServeEnd
<1>8. CASE ParkVanished BY <1>8 DEF ParkVanished, Leave, Terminal
<1>9. CASE ParkFocus BY <1>9 DEF ParkFocus, Woken, Leave
<1>10. CASE Replace
  <2>1. CASE ReplaceStart BY <2>1 DEF ReplaceStart
  <2>2. CASE ReplaceDial BY <2>2, FreeIsFree DEF ReplaceDial, Dialled, Started
  <2>3. CASE ReplaceAbandon BY <2>3 DEF ReplaceAbandon, CloseConns, Closed, Unused
  <2>4. CASE ReplaceIdentify BY <2>4 DEF ReplaceIdentify, Live
  <2>5. CASE ReplaceSwap
    BY <2>5 DEF ReplaceSwap, Live, HoldClose, CloseConns, Closed, Unused
  <2>6. CASE ReplaceBind BY <2>6 DEF ReplaceBind
  <2>7. CASE ReplaceAdvertise BY <2>7 DEF ReplaceAdvertise, Carried
  <2>8. CASE ReplaceRepaired BY <2>8 DEF ReplaceRepaired
  <2>9. CASE ReplaceGone BY <2>9 DEF ReplaceGone
  <2>10. CASE ReplaceDone BY <2>10 DEF ReplaceDone
  <2>11. QED
    BY <1>10, <2>1, <2>2, <2>3, <2>4, <2>5, <2>6, <2>7, <2>8, <2>9, <2>10 DEF Replace
<1>11. CASE Cycle
  <2>1. CASE Reattach
    BY <2>1 DEF Reattach, HoldClose, CloseConns, Closed, Unused, StartCycle
  <2>2. CASE Attempt BY <2>2 DEF Attempt, Scheduled, MaxAttempts
  <2>3. CASE AttemptStopped BY <2>3 DEF AttemptStopped, Terminal
  <2>4. CASE WaitOver BY <2>4 DEF WaitOver
  <2>5. CASE CycleRefused
    BY <2>5 DEF CycleRefused, Over, Scheduled, MaxAttempts, Refused, StartCycle
  <2>6. CASE CycleExhausted
    BY <2>6 DEF CycleExhausted, Over, Scheduled, MaxAttempts, Terminal
  <2>7. CASE DialFailed BY <2>7 DEF DialFailed, Spend, Continue
  <2>8. CASE Dial BY <2>8, FreeIsFree DEF Dial, Spend, Dialled, Started
  <2>9. CASE DialStopped BY <2>9 DEF DialStopped, Terminal, CloseConns, Closed, Unused
  <2>10. CASE DialGoesOn BY <2>10 DEF DialGoesOn
  <2>11. CASE IdentifyDropped
    BY <2>11 DEF IdentifyDropped, CloseConns, Closed, Unused, Continue
  <2>12. CASE IdentifyRefused
    BY <2>12 DEF IdentifyRefused, Live, CloseConns, Closed, Unused, Refused, StartCycle
  <2>13. CASE IdentifyMalformed
    BY <2>13 DEF IdentifyMalformed, Live, Terminal, CloseConns, Closed, Unused
  <2>14. CASE IdentifyOther BY <2>14 DEF IdentifyOther, Live, CloseConns, Closed, Unused
  <2>15. CASE IdentifyHome BY <2>15 DEF IdentifyHome, Live
  <2>16. CASE Advertise BY <2>16 DEF Advertise, Carried
  <2>17. CASE RepairGone BY <2>17 DEF RepairGone, Terminal
  <2>18. CASE RepairPoisoned
    BY <2>18 DEF RepairPoisoned, Live, HoldClose, CloseConns, Closed, Unused, Continue
  <2>19. CASE Repaired BY <2>19 DEF Repaired, Live, Connected
  <2>20. QED
    BY <1>11, <2>1, <2>2, <2>3, <2>4, <2>5, <2>6, <2>7, <2>8, <2>9, <2>10, <2>11, <2>12,
       <2>13, <2>14, <2>15, <2>16, <2>17, <2>18, <2>19 DEF Cycle
<1>12. CASE Parking
  <2>1. CASE Park BY <2>1 DEF Park
  <2>2. CASE ParkArm BY <2>2 DEF ParkArm
  <2>3. CASE ParkStamp BY <2>3 DEF ParkStamp
  <2>4. CASE ParkStop BY <2>4 DEF ParkStop, Leave, Terminal
  <2>5. CASE ParkKey BY <2>5 DEF ParkKey, Woken, Leave
  <2>6. CASE ParkProbe BY <2>6 DEF ParkProbe, Leave, StartCycle
  <2>7. CASE WakeCycle BY <2>7 DEF WakeCycle, StartCycle
  <2>8. QED BY <1>12, <2>1, <2>2, <2>3, <2>4, <2>5, <2>6, <2>7 DEF Parking
<1>13. CASE Watch BY <1>13 DEF Watch
<1>14. CASE Key BY <1>14 DEF Key
<1>15. CASE PokeSend BY <1>15 DEF PokeSend
<1>16. CASE ViewerSwitch BY <1>16 DEF ViewerSwitch
<1>17. CASE RemoteChange BY <1>17 DEF RemoteChange
<1>18. CASE Stop BY <1>18 DEF Stop
<1>19. CASE StopTransport BY <1>19, UpLost DEF StopTransport
<1>20. ASSUME NEW p \in Pressers, Raise(p) PROVE Connections'
  BY <1>20 DEF Raise, RaiseResolve, RaiseCompare, RaiseSwap, RaiseSend
<1>21. ASSUME NEW c \in Conns, ConnDies(c) PROVE Connections' BY <1>21 DEF ConnDies, Live
<1>22. QED
  BY <1>1, <1>2, <1>3, <1>4, <1>5, <1>6, <1>7, <1>8, <1>9, <1>10, <1>11, <1>12, <1>13,
     <1>14, <1>15, <1>16, <1>17, <1>18, <1>19, <1>20, <1>21 DEF Next, MainLoop, Beside

(* The terminal a connection was dialled for follows it up to the record. *)
LEMMA CarriesKept ==
  ASSUME Held, Connections, Carries, AdvertisedTrue, Next PROVE (Carries /\ AdvertisedTrue)'
<1> USE DEF Held, Connections, Carries, AdvertisedTrue, Conns, Verifying, Adopting, Down,
       Go, loop, marks, waker, view, raising, outside, hist, main
<1>1. CASE ServeDrop \/ ServeReplace \/ CancelDrain \/ CancelClear \/ Undim \/ Teardown \/
          ServeEnd \/ ParkVanished \/ ParkFocus
  BY <1>1 DEF ServeDrop, Live, ServeReplace, CancelDrain, CancelClear, Undim, Teardown,
     HoldClose, CloseConns, Closed, Unused, ServeEnd, ParkVanished, Leave, Terminal,
     ParkFocus, Woken
<1>2. CASE Replace
  <2>1. CASE ReplaceStart BY <2>1 DEF ReplaceStart
  <2>2. CASE ReplaceDial BY <2>2, FreeIsFree DEF ReplaceDial, Dialled, Started
  <2>3. CASE ReplaceAbandon BY <2>3 DEF ReplaceAbandon, CloseConns, Closed, Unused
  <2>4. CASE ReplaceIdentify BY <2>4 DEF ReplaceIdentify, Live
  <2>5. CASE ReplaceSwap
    BY <2>5 DEF ReplaceSwap, Live, HoldClose, CloseConns, Closed, Unused
  <2>6. CASE ReplaceBind BY <2>6 DEF ReplaceBind
  <2>7. CASE ReplaceAdvertise BY <2>7 DEF ReplaceAdvertise, Carried
  <2>8. CASE ReplaceRepaired BY <2>8 DEF ReplaceRepaired
  <2>9. CASE ReplaceGone BY <2>9 DEF ReplaceGone
  <2>10. CASE ReplaceDone BY <2>10 DEF ReplaceDone
  <2>11. QED
    BY <1>2, <2>1, <2>2, <2>3, <2>4, <2>5, <2>6, <2>7, <2>8, <2>9, <2>10 DEF Replace
<1>3. CASE Cycle
  <2>1. CASE Reattach
    BY <2>1 DEF Reattach, HoldClose, CloseConns, Closed, Unused, StartCycle
  <2>2. CASE Attempt BY <2>2 DEF Attempt, Scheduled, MaxAttempts
  <2>3. CASE AttemptStopped BY <2>3 DEF AttemptStopped, Terminal
  <2>4. CASE WaitOver BY <2>4 DEF WaitOver
  <2>5. CASE CycleRefused
    BY <2>5 DEF CycleRefused, Over, Scheduled, MaxAttempts, Refused, StartCycle
  <2>6. CASE CycleExhausted
    BY <2>6 DEF CycleExhausted, Over, Scheduled, MaxAttempts, Terminal
  <2>7. CASE DialFailed BY <2>7 DEF DialFailed, Spend, Continue
  <2>8. CASE Dial BY <2>8, FreeIsFree DEF Dial, Spend, Dialled, Started
  <2>9. CASE DialStopped BY <2>9 DEF DialStopped, Terminal, CloseConns, Closed, Unused
  <2>10. CASE DialGoesOn BY <2>10 DEF DialGoesOn
  <2>11. CASE IdentifyDropped
    BY <2>11 DEF IdentifyDropped, CloseConns, Closed, Unused, Continue
  <2>12. CASE IdentifyRefused
    BY <2>12 DEF IdentifyRefused, Live, CloseConns, Closed, Unused, Refused, StartCycle
  <2>13. CASE IdentifyMalformed
    BY <2>13 DEF IdentifyMalformed, Live, Terminal, CloseConns, Closed, Unused
  <2>14. CASE IdentifyOther BY <2>14 DEF IdentifyOther, Live, CloseConns, Closed, Unused
  <2>15. CASE IdentifyHome BY <2>15 DEF IdentifyHome, Live
  <2>16. CASE Advertise BY <2>16 DEF Advertise, Carried
  <2>17. CASE RepairGone BY <2>17 DEF RepairGone, Terminal
  <2>18. CASE RepairPoisoned
    BY <2>18 DEF RepairPoisoned, Live, HoldClose, CloseConns, Closed, Unused, Continue
  <2>19. CASE Repaired BY <2>19 DEF Repaired, Live, Connected
  <2>20. QED
    BY <1>3, <2>1, <2>2, <2>3, <2>4, <2>5, <2>6, <2>7, <2>8, <2>9, <2>10, <2>11, <2>12,
       <2>13, <2>14, <2>15, <2>16, <2>17, <2>18, <2>19 DEF Cycle
<1>4. CASE Parking
  BY <1>4 DEF Parking, Park, ParkArm, ParkStamp, ParkStop, Leave, Terminal, ParkKey,
     Woken, ParkProbe, StartCycle, WakeCycle
<1>5. CASE Watch BY <1>5 DEF Watch
<1>6. CASE Key BY <1>6 DEF Key
<1>7. CASE PokeSend BY <1>7 DEF PokeSend
<1>8. CASE ViewerSwitch BY <1>8 DEF ViewerSwitch
<1>9. CASE RemoteChange BY <1>9 DEF RemoteChange
<1>10. CASE Stop BY <1>10 DEF Stop
<1>11. CASE StopTransport BY <1>11, UpLost DEF StopTransport
<1>12. ASSUME NEW p \in Pressers, Raise(p) PROVE (Carries /\ AdvertisedTrue)'
  BY <1>12 DEF Raise, RaiseResolve, RaiseCompare, RaiseSwap, RaiseSend
<1>13. ASSUME NEW c \in Conns, ConnDies(c) PROVE (Carries /\ AdvertisedTrue)'
  BY <1>13 DEF ConnDies, Live
<1>14. QED
  BY <1>1, <1>2, <1>3, <1>4, <1>5, <1>6, <1>7, <1>8, <1>9, <1>10, <1>11, <1>12, <1>13 DEF
     Next, MainLoop, Beside

(* No step dials beyond the schedule and the one restore window behind it. *)
LEMMA CountKept ==
  ASSUME Plain, Counted, BudgetHolds, Next PROVE (Counted /\ BudgetHolds)'
<1> USE DEF Plain, Counted, BudgetHolds, Base, Trying, Tried, Served, Replacing, Scheduled,
       Go, loop, marks, waker, view, raising, outside, hist, main
<1>0. /\ RetryMax \in Nat /\ RestoreMax \in Nat /\ MaxAttempts(kind) \in Nat
      /\ kind # "restore" => MaxAttempts(kind) <= RetryMax
      /\ kind = "restore" => MaxAttempts(kind) = RestoreMax
  BY Maxima, ScheduleAssumption
<1>1. CASE ServeDrop \/ ServeReplace \/ CancelDrain \/ CancelClear \/ Undim \/ Teardown \/
          ServeEnd \/ ParkVanished \/ ParkFocus
  BY <1>1, <1>0 DEF ServeDrop, ServeReplace, CancelDrain, CancelClear, Undim, Teardown,
     ServeEnd, ParkVanished, Leave, Terminal, ParkFocus, Woken
<1>2. CASE Replace
  BY <1>2, <1>0 DEF Replace, ReplaceStart, ReplaceDial, ReplaceAbandon, ReplaceIdentify,
     ReplaceSwap, ReplaceBind, ReplaceAdvertise, ReplaceRepaired, ReplaceGone, ReplaceDone
<1>3. CASE Cycle
  <2>1. CASE Reattach BY <2>1, <1>0, Maxima DEF Reattach, StartCycle
  <2>2. CASE Attempt BY <2>2, <1>0 DEF Attempt
  <2>3. CASE AttemptStopped BY <2>3, <1>0 DEF AttemptStopped, Terminal
  <2>4. CASE WaitOver BY <2>4, <1>0 DEF WaitOver
  <2>5. CASE CycleRefused
    <3>1. CASE restoring BY <2>5, <1>0, <3>1 DEF CycleRefused, Refused
    <3>2. CASE ~restoring
      <4>1. spent <= RetryMax /\ spent' = spent BY <2>5, <1>0, <3>2 DEF CycleRefused
      <4>2. kind' = "restore" /\ attempt' = 1 /\ restoring' /\ pc' = "attempt"
        BY <2>5, <3>2 DEF CycleRefused, Refused, StartCycle
      <4>3. QED BY <1>0, <4>1, <4>2, Maxima
    <3>3. QED BY <3>1, <3>2
  <2>6. CASE CycleExhausted BY <2>6, <1>0 DEF CycleExhausted, Over, Terminal
  <2>7. CASE DialFailed BY <2>7, <1>0 DEF DialFailed, Spend, Continue
  <2>8. CASE Dial BY <2>8, <1>0 DEF Dial, Spend
  <2>9. CASE DialStopped BY <2>9, <1>0 DEF DialStopped, Terminal
  <2>10. CASE DialGoesOn BY <2>10, <1>0 DEF DialGoesOn
  <2>11. CASE IdentifyDropped BY <2>11, <1>0 DEF IdentifyDropped, Continue
  <2>12. CASE IdentifyRefused
    BY <2>12, <1>0, Maxima DEF IdentifyRefused, Refused, StartCycle
  <2>13. CASE IdentifyMalformed BY <2>13, <1>0 DEF IdentifyMalformed, Terminal
  <2>14. CASE IdentifyOther BY <2>14, <1>0 DEF IdentifyOther
  <2>15. CASE IdentifyHome BY <2>15, <1>0 DEF IdentifyHome
  <2>16. CASE Advertise BY <2>16, <1>0 DEF Advertise
  <2>17. CASE RepairGone BY <2>17, <1>0 DEF RepairGone, Terminal
  <2>18. CASE RepairPoisoned BY <2>18, <1>0 DEF RepairPoisoned, Continue
  <2>19. CASE Repaired BY <2>19, <1>0 DEF Repaired, Connected
  <2>20. QED
    BY <1>3, <2>1, <2>2, <2>3, <2>4, <2>5, <2>6, <2>7, <2>8, <2>9, <2>10, <2>11, <2>12,
       <2>13, <2>14, <2>15, <2>16, <2>17, <2>18, <2>19 DEF Cycle
<1>4. CASE Parking
  <2>1. CASE Park BY <2>1, <1>0 DEF Park
  <2>2. CASE ParkArm BY <2>2, <1>0 DEF ParkArm
  <2>3. CASE ParkStamp BY <2>3, <1>0 DEF ParkStamp
  <2>4. CASE ParkStop BY <2>4, <1>0 DEF ParkStop, Leave, Terminal
  <2>5. CASE ParkKey BY <2>5, <1>0 DEF ParkKey, Woken, Leave
  <2>6. CASE ParkProbe BY <2>6, <1>0, Maxima DEF ParkProbe, Leave, StartCycle
  <2>7. CASE WakeCycle BY <2>7, <1>0, Maxima DEF WakeCycle, StartCycle
  <2>8. QED BY <1>4, <2>1, <2>2, <2>3, <2>4, <2>5, <2>6, <2>7 DEF Parking
<1>5. CASE Watch \/ Key \/ PokeSend \/ ViewerSwitch \/ RemoteChange \/ Stop \/ StopTransport
  BY <1>5, <1>0 DEF Watch, Key, PokeSend, ViewerSwitch, RemoteChange, Stop, StopTransport
<1>6. ASSUME NEW p \in Pressers, Raise(p) PROVE (Counted /\ BudgetHolds)'
  BY <1>6, <1>0 DEF Raise, RaiseResolve, RaiseCompare, RaiseSwap, RaiseSend
<1>7. ASSUME NEW c \in Conns, ConnDies(c) PROVE (Counted /\ BudgetHolds)'
  BY <1>7, <1>0 DEF ConnDies
<1>8. QED BY <1>1, <1>2, <1>3, <1>4, <1>5, <1>6, <1>7 DEF Next, MainLoop, Beside

(* A tombstone and a rebuild stay earned. *)
LEMMA RefusalsKept ==
  ASSUME Refusals, EndingEarned, Next PROVE (Refusals /\ EndingEarned)'
<1> USE DEF Refusals, EndingEarned, Closing, Go, loop, marks, waker, view, raising, outside,
       hist, main
<1>1. CASE ServeDrop \/ ServeReplace \/ CancelDrain \/ CancelClear \/ Undim \/ Teardown \/
          ServeEnd \/ ParkVanished \/ ParkFocus
  BY <1>1 DEF ServeDrop, ServeReplace, CancelDrain, CancelClear, Undim, Teardown,
     ServeEnd, ParkVanished, Leave, Terminal, ParkFocus, Woken
<1>2. CASE Replace
  BY <1>2 DEF Replace, ReplaceStart, ReplaceDial, ReplaceAbandon, ReplaceIdentify,
     ReplaceSwap, ReplaceBind, ReplaceAdvertise, ReplaceRepaired, ReplaceGone, ReplaceDone
<1>3. CASE Cycle
  BY <1>3 DEF Cycle, Reattach, StartCycle, Attempt, AttemptStopped, Terminal, WaitOver,
     CycleRefused, Refused, CycleExhausted, DialFailed, Spend, Continue, Dial, DialStopped,
     DialGoesOn, IdentifyDropped, IdentifyRefused, IdentifyMalformed, IdentifyOther,
     IdentifyHome, Advertise, RepairGone, RepairPoisoned, Repaired, Connected
<1>4. CASE Parking
  BY <1>4 DEF Parking, Park, ParkArm, ParkStamp, ParkStop, Leave, Terminal, ParkKey,
     Woken, ParkProbe, StartCycle, WakeCycle
<1>5. CASE Watch \/ Key \/ PokeSend \/ ViewerSwitch \/ RemoteChange \/ Stop \/ StopTransport
  BY <1>5 DEF Watch, Key, PokeSend, ViewerSwitch, RemoteChange, Stop, StopTransport
<1>6. ASSUME NEW p \in Pressers, Raise(p) PROVE (Refusals /\ EndingEarned)'
  BY <1>6 DEF Raise, RaiseResolve, RaiseCompare, RaiseSwap, RaiseSend
<1>7. ASSUME NEW c \in Conns, ConnDies(c) PROVE (Refusals /\ EndingEarned)'
  BY <1>7 DEF ConnDies
<1>8. QED BY <1>1, <1>2, <1>3, <1>4, <1>5, <1>6, <1>7 DEF Next, MainLoop, Beside

(* Whatever a step does, the badge and the dimming go together with the place. *)
LEMMA MarksKept ==
  ASSUME Marks, BadgeHonest, Next PROVE (Marks /\ BadgeHonest)'
<1> USE DEF Marks, BadgeHonest, Served, Replacing, Go, loop, marks, waker, view, raising,
       outside, hist, main
<1>1. CASE ServeDrop BY <1>1 DEF ServeDrop
<1>2. CASE ServeReplace BY <1>2 DEF ServeReplace
<1>3. CASE CancelDrain BY <1>3 DEF CancelDrain
<1>4. CASE CancelClear BY <1>4 DEF CancelClear
<1>5. CASE Undim BY <1>5 DEF Undim
<1>6. CASE Teardown BY <1>6 DEF Teardown
<1>7. CASE ServeEnd BY <1>7 DEF ServeEnd
<1>8. CASE ParkVanished BY <1>8 DEF ParkVanished, Leave, Terminal
<1>9. CASE ParkFocus BY <1>9 DEF ParkFocus, Woken, Leave
<1>10. CASE Replace
  BY <1>10 DEF Replace, ReplaceStart, ReplaceDial, ReplaceAbandon, ReplaceIdentify,
     ReplaceSwap, ReplaceBind, ReplaceAdvertise, ReplaceRepaired, ReplaceGone, ReplaceDone
<1>11. CASE Cycle
  BY <1>11 DEF Cycle, Reattach, StartCycle, Attempt, AttemptStopped, Terminal, WaitOver,
     CycleRefused, Refused, CycleExhausted, DialFailed, Spend, Continue, Dial, DialStopped,
     DialGoesOn, IdentifyDropped, IdentifyRefused, IdentifyMalformed, IdentifyOther,
     IdentifyHome, Advertise, RepairGone, RepairPoisoned, Repaired, Connected
<1>12. CASE Parking
  BY <1>12 DEF Parking, Park, ParkArm, ParkStamp, ParkStop, Leave, Terminal, ParkKey,
     Woken, ParkProbe, StartCycle, WakeCycle
<1>13. CASE Watch \/ Key \/ PokeSend \/ ViewerSwitch \/ RemoteChange \/ Stop \/
          StopTransport
  BY <1>13 DEF Watch, Key, PokeSend, ViewerSwitch, RemoteChange, Stop, StopTransport
<1>14. ASSUME NEW p \in Pressers, Raise(p) PROVE (Marks /\ BadgeHonest)'
  BY <1>14 DEF Raise, RaiseResolve, RaiseCompare, RaiseSwap, RaiseSend
<1>15. ASSUME NEW c \in Conns, ConnDies(c) PROVE (Marks /\ BadgeHonest)'
  BY <1>15 DEF ConnDies
<1>16. QED
  BY <1>1, <1>2, <1>3, <1>4, <1>5, <1>6, <1>7, <1>8, <1>9, <1>10, <1>11, <1>12, <1>13,
     <1>14, <1>15 DEF Next, MainLoop, Beside

(* The flag of a raise in flight always has something on its way to lower it. *)
LEMMA RaiseKept ==
  ASSUME Plain, RaiseServed, Next PROVE RaiseServed'
<1> USE DEF Plain, RaiseServed, Replacing, Go, loop, marks, waker, view, raising, outside,
       hist, main
<1>1. CASE ServeDrop \/ ServeReplace \/ CancelDrain \/ CancelClear \/ Undim \/ Teardown \/
          ServeEnd \/ ParkVanished \/ ParkFocus
  BY <1>1 DEF ServeDrop, ServeReplace, CancelDrain, CancelClear, Undim, Teardown,
     ServeEnd, ParkVanished, Leave, Terminal, ParkFocus, Woken
<1>2. CASE Replace
  BY <1>2 DEF Replace, ReplaceStart, ReplaceDial, ReplaceAbandon, ReplaceIdentify,
     ReplaceSwap, ReplaceBind, ReplaceAdvertise, ReplaceRepaired, ReplaceGone, ReplaceDone
<1>3. CASE Cycle
  BY <1>3 DEF Cycle, Reattach, StartCycle, Attempt, AttemptStopped, Terminal, WaitOver,
     CycleRefused, Refused, CycleExhausted, DialFailed, Spend, Continue, Dial, DialStopped,
     DialGoesOn, IdentifyDropped, IdentifyRefused, IdentifyMalformed, IdentifyOther,
     IdentifyHome, Advertise, RepairGone, RepairPoisoned, Repaired, Connected
<1>4. CASE Parking
  BY <1>4 DEF Parking, Park, ParkArm, ParkStamp, ParkStop, Leave, Terminal, ParkKey,
     Woken, ParkProbe, StartCycle, WakeCycle
<1>5. CASE Watch \/ Key \/ PokeSend \/ ViewerSwitch \/ RemoteChange \/ Stop \/ StopTransport
  BY <1>5 DEF Watch, Key, PokeSend, ViewerSwitch, RemoteChange, Stop, StopTransport
<1>6. ASSUME NEW p \in Pressers, Raise(p) PROVE RaiseServed'
  BY <1>6 DEF Raise, RaiseResolve, RaiseCompare, RaiseSwap, RaiseSend
<1>7. ASSUME NEW c \in Conns, ConnDies(c) PROVE RaiseServed' BY <1>7 DEF ConnDies
<1>8. QED BY <1>1, <1>2, <1>3, <1>4, <1>5, <1>6, <1>7 DEF Next, MainLoop, Beside

(* Once the stop has run, a dial gives a dead transport. *)
LEMMA StopKept ==
  ASSUME Held, Connections, StopHolds, Next PROVE StopHolds'
<1> USE DEF Held, StopHolds, Connections, Conns, Verifying, Adopting, Go, loop, marks,
       waker, view, raising, outside, hist, main
<1>1. CASE ServeDrop BY <1>1 DEF ServeDrop, Live
<1>2. CASE ServeReplace BY <1>2 DEF ServeReplace
<1>3. CASE CancelDrain BY <1>3 DEF CancelDrain
<1>4. CASE CancelClear BY <1>4 DEF CancelClear
<1>5. CASE Undim BY <1>5 DEF Undim
<1>6. CASE Teardown BY <1>6 DEF Teardown, HoldClose, CloseConns, Closed, Unused
<1>7. CASE ServeEnd BY <1>7 DEF ServeEnd
<1>8. CASE ParkVanished BY <1>8 DEF ParkVanished, Leave, Terminal
<1>9. CASE ParkFocus BY <1>9 DEF ParkFocus, Woken, Leave
<1>10. CASE Replace
  <2>1. CASE ReplaceStart BY <2>1 DEF ReplaceStart
  <2>2. CASE ReplaceDial BY <2>2, FreeIsFree DEF ReplaceDial, Dialled, Started
  <2>3. CASE ReplaceAbandon BY <2>3 DEF ReplaceAbandon, CloseConns, Closed, Unused
  <2>4. CASE ReplaceIdentify BY <2>4 DEF ReplaceIdentify, Live
  <2>5. CASE ReplaceSwap
    BY <2>5 DEF ReplaceSwap, Live, HoldClose, CloseConns, Closed, Unused
  <2>6. CASE ReplaceBind BY <2>6 DEF ReplaceBind
  <2>7. CASE ReplaceAdvertise BY <2>7 DEF ReplaceAdvertise, Carried
  <2>8. CASE ReplaceRepaired BY <2>8 DEF ReplaceRepaired
  <2>9. CASE ReplaceGone BY <2>9 DEF ReplaceGone
  <2>10. CASE ReplaceDone BY <2>10 DEF ReplaceDone
  <2>11. QED
    BY <1>10, <2>1, <2>2, <2>3, <2>4, <2>5, <2>6, <2>7, <2>8, <2>9, <2>10 DEF Replace
<1>11. CASE Cycle
  <2>1. CASE Reattach
    BY <2>1 DEF Reattach, HoldClose, CloseConns, Closed, Unused, StartCycle
  <2>2. CASE Attempt BY <2>2 DEF Attempt, Scheduled, MaxAttempts
  <2>3. CASE AttemptStopped BY <2>3 DEF AttemptStopped, Terminal
  <2>4. CASE WaitOver BY <2>4 DEF WaitOver
  <2>5. CASE CycleRefused
    BY <2>5 DEF CycleRefused, Over, Scheduled, MaxAttempts, Refused, StartCycle
  <2>6. CASE CycleExhausted
    BY <2>6 DEF CycleExhausted, Over, Scheduled, MaxAttempts, Terminal
  <2>7. CASE DialFailed BY <2>7 DEF DialFailed, Spend, Continue
  <2>8. CASE Dial BY <2>8, FreeIsFree DEF Dial, Spend, Dialled, Started
  <2>9. CASE DialStopped BY <2>9 DEF DialStopped, Terminal, CloseConns, Closed, Unused
  <2>10. CASE DialGoesOn BY <2>10 DEF DialGoesOn
  <2>11. CASE IdentifyDropped
    BY <2>11 DEF IdentifyDropped, CloseConns, Closed, Unused, Continue
  <2>12. CASE IdentifyRefused
    BY <2>12 DEF IdentifyRefused, Live, CloseConns, Closed, Unused, Refused, StartCycle
  <2>13. CASE IdentifyMalformed
    BY <2>13 DEF IdentifyMalformed, Live, Terminal, CloseConns, Closed, Unused
  <2>14. CASE IdentifyOther BY <2>14 DEF IdentifyOther, Live, CloseConns, Closed, Unused
  <2>15. CASE IdentifyHome BY <2>15 DEF IdentifyHome, Live
  <2>16. CASE Advertise BY <2>16 DEF Advertise, Carried
  <2>17. CASE RepairGone BY <2>17 DEF RepairGone, Terminal
  <2>18. CASE RepairPoisoned
    BY <2>18 DEF RepairPoisoned, Live, HoldClose, CloseConns, Closed, Unused, Continue
  <2>19. CASE Repaired BY <2>19 DEF Repaired, Live, Connected
  <2>20. QED
    BY <1>11, <2>1, <2>2, <2>3, <2>4, <2>5, <2>6, <2>7, <2>8, <2>9, <2>10, <2>11, <2>12,
       <2>13, <2>14, <2>15, <2>16, <2>17, <2>18, <2>19 DEF Cycle
<1>12. CASE Parking
  BY <1>12 DEF Parking, Park, ParkArm, ParkStamp, ParkStop, Leave, Terminal, ParkKey,
     Woken, ParkProbe, StartCycle, WakeCycle
<1>13. CASE Watch BY <1>13 DEF Watch
<1>14. CASE Key BY <1>14 DEF Key
<1>15. CASE PokeSend BY <1>15 DEF PokeSend
<1>16. CASE ViewerSwitch BY <1>16 DEF ViewerSwitch
<1>17. CASE RemoteChange BY <1>17 DEF RemoteChange
<1>18. CASE Stop BY <1>18 DEF Stop
<1>19. CASE StopTransport BY <1>19, UpLost DEF StopTransport
<1>20. ASSUME NEW p \in Pressers, Raise(p) PROVE StopHolds'
  BY <1>20 DEF Raise, RaiseResolve, RaiseCompare, RaiseSwap, RaiseSend
<1>21. ASSUME NEW c \in Conns, ConnDies(c) PROVE StopHolds' BY <1>21 DEF ConnDies, Live
<1>22. QED
  BY <1>1, <1>2, <1>3, <1>4, <1>5, <1>6, <1>7, <1>8, <1>9, <1>10, <1>11, <1>12, <1>13,
     <1>14, <1>15, <1>16, <1>17, <1>18, <1>19, <1>20, <1>21 DEF Next, MainLoop, Beside

----------------------------------------------------------------------------
LEMMA InitInv == Init => IInv
<1> SUFFICES ASSUME Init PROVE IInv OBVIOUS
<1> USE DEF Init
<1>1. Flags BY Zenon DEF Flags
<1>2. PICK t \in Terms :
        /\ viewer = t /\ desired = t /\ advertised = t /\ term = t
        /\ conn = [c \in Conns |-> IF c # 1 THEN Unused ELSE
                     [open |-> TRUE, up |-> TRUE, term |-> t, home |-> TRUE]]
  OBVIOUS
<1>3. 1 \in Conns /\ conn[1].open /\ conn[1].home /\ conn[1].term = t
      /\ \A c \in Conns \ {1} : ~conn[c].open
  BY <1>2 DEF Conns, Unused
<1>4. Held
  <2>1. [open |-> TRUE, up |-> TRUE, term |-> t, home |-> TRUE] \in Conn /\ Unused \in Conn
    <3>1. TRUE \in BOOLEAN /\ FALSE \in BOOLEAN OBVIOUS
    <3>2. \A a, b, d \in BOOLEAN, s \in SomeTerm :
            [open |-> a, up |-> b, term |-> s, home |-> d] \in Conn
      BY DEF Conn
    <3>3. QED BY <3>1, <3>2 DEF Unused, SomeTerm
  <2>2. conn \in [Conns -> Conn] BY <1>2, <2>1
  <2>3. QED BY <2>2, <1>3 DEF Held
<1>5. Plain BY <1>2, RemotesAssumption DEF Plain, Places, Replacing, Kinds, SomeTerm
<1>6. Connections BY <1>3 DEF Connections, Served, Verifying, Adopting, Down
<1>7. Carries /\ AdvertisedTrue BY <1>2, <1>3 DEF Carries, Verifying, AdvertisedTrue
<1>8. Counted /\ BudgetHolds
  BY Maxima, ScheduleAssumption DEF Counted, BudgetHolds, Trying, Tried, Served, Replacing
<1>9. Refusals /\ EndingEarned /\ RaiseServed /\ StopHolds
  BY DEF Refusals, EndingEarned, RaiseServed, StopHolds
<1>10. Marks /\ BadgeHonest BY DEF Marks, BadgeHonest, Served, Replacing
<1>11. QED BY <1>1, <1>4, <1>5, <1>6, <1>7, <1>8, <1>9, <1>10 DEF IInv

LEMMA StepInv == IInv /\ [Next]_vars => IInv'
<1>1. ASSUME IInv, Next PROVE IInv'
  BY <1>1, FlagsKept, HeldKept, PlainKept, ConnectionsKept, CarriesKept, CountKept,
     RefusalsKept, MarksKept, RaiseKept, StopKept DEF IInv
<1>2. ASSUME IInv, UNCHANGED vars PROVE IInv'
  <2> USE <1>2 DEF IInv, vars, loop, marks, waker, view, raising, outside, hist
  <2>1. (Flags /\ Held /\ Plain)' BY DEF Flags, Held, Plain
  <2>2. (Connections /\ Carries /\ AdvertisedTrue)'
    BY DEF Connections, Carries, AdvertisedTrue
  <2>3. (Counted /\ BudgetHolds)' BY DEF Counted, BudgetHolds, Base, Scheduled
  <2>4. (Refusals /\ EndingEarned /\ Marks /\ BadgeHonest)'
    BY DEF Refusals, EndingEarned, Marks, BadgeHonest
  <2>5. (RaiseServed /\ StopHolds)' BY DEF RaiseServed, StopHolds
  <2>6. QED BY <2>1, <2>2, <2>3, <2>4, <2>5
<1>3. QED BY <1>1, <1>2

(* The inductive invariant holds of every terminal, remote and schedule.     *)
THEOREM Invariance == Spec => []IInv
BY InitInv, StepInv, PTL DEF Spec

(* Every variable stays in its type; no schedule counts beyond its attempts. *)
THEOREM TypeCorrect == Spec => []TypeOK
<1>1. IInv => TypeOK
  <2> SUFFICES ASSUME IInv PROVE TypeOK OBVIOUS
  <2>1. attempt \in 1..(RetryMax + RestoreMax + 1)
    <3>1. /\ RetryMax \in Nat /\ RestoreMax \in Nat /\ MaxAttempts(kind) \in Nat
          /\ kind # "restore" => MaxAttempts(kind) <= RetryMax
          /\ kind = "restore" => MaxAttempts(kind) = RestoreMax
      BY Maxima, ScheduleAssumption DEF IInv, Plain
    <3>2. attempt \in Nat \ {0} /\ attempt <= MaxAttempts(kind) + 1
      BY DEF IInv, Plain, Counted
    <3>3. QED BY <3>1, <3>2
  <2>2. QED BY <2>1, Zenon DEF IInv, TypeOK, Flags, Held, Conn, Plain
<1>2. QED BY <1>1, Invariance, PTL

(* One connection paints, the published one, proved to be the pinned         *)
(* server's; the loop reads it and has repaired the mirror on it; Advertised *)
(* names the terminal it was dialled for; nothing else is left open, and     *)
(* nothing at all once the daemon has ended, whatever replacement, drop,     *)
(* park and stop came between (attemptCycle, replaceConn, teardown).         *)
THEOREM PublishedIsTrue == Spec => []PublishedTrue
<1>1. IInv => OneConnection BY DEF IInv, Connections, OneConnection
<1>2. IInv => NoLeak
  BY DEF IInv, Held, Connections, NoLeak, Conns, Verifying, Adopting, Down
<1>3. IInv => ServesPublished BY DEF IInv, Connections, ServesPublished, Served
<1>4. QED BY <1>1, <1>2, <1>3, Invariance, PTL DEF IInv, PublishedTrue

(* A raise in flight is queued, on its way, or being served: the flag that   *)
(* suppresses further raises is never up with nothing to bring it down       *)
(* (viewReplacer.raise, done, cancel), for any number of ctl handlers.       *)
THEOREM RaisesServed == Spec => []RaiseServed
BY Invariance, PTL DEF IInv

(* Since a mirror was last live or parked there have been no more dials than *)
(* one schedule and one restore window have: a connection that dies before   *)
(* it is of use buys no fresh budget (attemptCycle's live check).            *)
THEOREM BudgetKept == Spec => []BudgetHolds
BY Invariance, PTL DEF IInv

(* The badge and the dimming tell the truth on a served and on a parked      *)
(* mirror; a tombstone and a rebuild are earned by the last answer.          *)
THEOREM OutagesHonest == Spec => []OutageHonest
BY Invariance, PTL DEF IInv, OutageHonest

(* A stop is final: from when it has run no connection has a working         *)
(* transport, those dialled later included (transport.start and stop).       *)
THEOREM StopIsFinal == Spec => []StopHolds
BY Invariance, PTL DEF IInv

=============================================================================
