---- MODULE ReplyStream_proofs ----
(***************************************************************************)
(* Proofs that the invariants of ReplyStream hold for any set of senders,  *)
(* any batch size and any amount of unasked traffic.                       *)
(*                                                                         *)
(* None of them is inductive by itself: whether the block at the head of   *)
(* the stream answers the command claim takes it to answer depends on what *)
(* the far end has put in flight (InTransit) and on which barriers the     *)
(* stream still expects (Ledger); that parking keeps output behind a seed  *)
(* depends on how the batch, the slot and awaitHigh move together          *)
(* (Progress).  Failing adds what refusing every later call rests on.      *)
(* IInv is their conjunction.                                              *)
(***************************************************************************)
EXTENDS ReplyStream, SequenceTheorems, TLAPS

----------------------------------------------------------------------------
\* fans lists, in order, the commands whose barrier is still to come.
NextFan == IF IsBarrier(seen) THEN seen + 1 ELSE seen

Ledger ==
    /\ IsBarrier(sent)
    /\ NextFan + 2 * Len(fans) = sent + 1
    /\ \A i \in 1..Len(fans) : fans[i] = NextFan + 2 * (i - 1)

\* What a line may be when b ordinals have been answered before it.
Follows(l, b) ==
    \/ /\ l.kind = "Block" /\ l.flags = 1
       /\ l.answers = b + 1 /\ l.at = b + 1
       /\ l.tag = IF IsBarrier(b + 1) THEN b ELSE 0
    \/ /\ l.answers = 0 /\ l.at = b
       /\ l.kind = "Block" /\ l.flags = 1 => ~IsBarrier(b) /\ l.tag = 0

Before(i) == IF i = 1 THEN seen ELSE lines[i - 1].at

InTransit ==
    /\ seen <= ran /\ ran <= wired /\ wired <= sent
    /\ \A i \in 1..Len(lines) : Follows(lines[i], Before(i)) /\ lines[i].at <= ran
    /\ ~eof => ran = Before(Len(lines) + 1)

\* How far the batch, the parked slot and the routed output have got.
Progress ==
    /\ mu = Main <=> pc = "flush"
    /\ ~IsBarrier(want) /\ awaitHigh <= sent /\ high <= sent
    /\ routedAt <= seen
    /\ InBatch /\ parked = NoLine => seen < want
    /\ InBatch => ~IsBarrier(high)
    /\ InBatch /\ pc # "flush" => awaitHigh = high
    /\ pc = "flush" => InBatch /\ parked = NoLine /\ awaitHigh < want /\ high = sent - 1
    /\ pc = "next" => InBatch
    /\ pc = "flush" \/ ~InBatch => awaitHigh <= seen \/ (eof /\ lines = <<>>)
    /\ parked # NoLine =>
          /\ InBatch /\ parked.seq <= want
          /\ parked.seq = seen /\ parked.line.answers = seen
          /\ routedAt < seen
    /\ pc = "exec" /\ reading => parked = NoLine

\* Once a call has failed, nothing is left that could answer another one.
Failing ==
    failed => \/ stalled
              \/ eof /\ lines = <<>> /\ parked = NoLine
              \/ closed /\ ~InBatch

IInv == TypeOK /\ Ledger /\ InTransit /\ Progress /\ Failing /\ ReplyPaired

----------------------------------------------------------------------------
\* Ordinals alternate between commands and barriers.
LEMMA Alternate ==
    ASSUME NEW n \in Nat
    PROVE  /\ IsBarrier(n + 1) <=> ~IsBarrier(n)
           /\ IsBarrier(n + 2) <=> IsBarrier(n)
BY SMT DEF IsBarrier

LEMMA WholePairs ==
    ASSUME NEW n \in Nat, NEW k \in Nat, IsBarrier(n)
    PROVE  n + 2 * k \in Nat /\ IsBarrier(n + 2 * k)
BY SMT DEF IsBarrier

LEMMA ZeroBarrier == IsBarrier(0)
BY SMT DEF IsBarrier

LEMMA LineFields ==
    ASSUME NEW l \in Lines
    PROVE  /\ l.at \in Nat /\ l.answers \in Nat /\ l.tag \in Nat
           /\ l.flags \in {0, 1} /\ l.whole \in BOOLEAN
BY DEF Lines

\* A line keeps its type when it is torn, and what may be in flight stays so.
LEMMA TornLine ==
    ASSUME NEW l \in Lines, NEW b \in Nat, Follows(l, b), l.kind = "Block"
    PROVE  Torn(l) \in Lines /\ Follows(Torn(l), b) /\ Torn(l).at <= l.at
<1> DEFINE t == Torn(l)
<1>1. CASE l.answers # 0 /\ IsBarrier(l.answers)
  <2>1. l.answers = b + 1 /\ l.at = b + 1 /\ l.flags = 1 /\ l.at - 1 = b
    BY <1>1 DEF Follows
  <2>2. ~IsBarrier(b)
    BY <1>1, <2>1, Alternate
  <2>3. t = [kind |-> "Block", flags |-> 1, tag |-> 0, answers |-> 0,
             at |-> b, whole |-> FALSE]
    BY <1>1, <2>1 DEF Torn
  <2>4. t \in Lines
    BY <2>3 DEF Lines, Kinds
  <2>5. t.kind = "Block" /\ t.flags = 1 /\ t.tag = 0 /\ t.answers = 0 /\ t.at = b
    BY <2>3
  <2>6. Follows(t, b)
    BY <2>2, <2>5 DEF Follows
  <2> QED
    BY <2>1, <2>4, <2>5, <2>6
<1>2. CASE ~(l.answers # 0 /\ IsBarrier(l.answers))
  <2>1. t = [l EXCEPT !.whole = FALSE]
    BY <1>2 DEF Torn
  <2>2. t \in Lines
    BY <2>1 DEF Lines
  <2>3. /\ t.kind = l.kind /\ t.flags = l.flags /\ t.tag = l.tag
        /\ t.answers = l.answers /\ t.at = l.at /\ l.at \in Nat
    BY <2>1 DEF Lines
  <2>4. Follows(t, b)
    BY <2>3 DEF Follows
  <2> QED
    BY <2>2, <2>3, <2>4
<1> QED
  BY <1>1, <1>2

\* What the far end writes is what may be in flight.
LEMMA OwnReplyLine ==
    ASSUME NEW b \in Nat
    PROVE  OwnReply(b + 1) \in Lines /\ Follows(OwnReply(b + 1), b) /\ OwnReply(b + 1).at = b + 1
BY DEF OwnReply, Lines, Kinds, Follows

LEMMA AsideLine ==
    ASSUME NEW b \in Nat, NEW k \in Kinds, NEW f \in {0, 1}, f = 1 => ~IsBarrier(b)
    PROVE  Aside(k, f, b) \in Lines /\ Follows(Aside(k, f, b), b) /\ Aside(k, f, b).at = b
BY DEF Aside, Lines, Kinds, Follows

\* The heart of the pairing: the ordinal claim gives the head of the stream is
\* the one the far end answered.
LEMMA ClaimRight ==
    ASSUME TypeOK, Ledger, InTransit, lines # <<>>
    PROVE  /\ Line \in Lines /\ Follows(Line, seen) /\ Line.at <= ran
           /\ Claimed(Line) = Line.answers
           /\ Line.answers # 0 => Line.answers = seen + 1
           /\ Line.at = IF Line.answers = 0 THEN seen ELSE seen + 1
<1>1. Line \in Lines /\ Follows(Line, seen) /\ Line.at <= ran
  BY DEF TypeOK, InTransit, Before, Line
<1>2. seen \in Nat /\ sent \in Nat /\ ran \in Nat /\ wired \in Nat /\ fans \in Seq(Nat) /\ seen <= sent
  BY DEF TypeOK, InTransit
<1>3. Swallowing <=> ~IsBarrier(seen)
  <2>1. CASE IsBarrier(seen)
    BY <1>2, <2>1 DEF Ledger, NextFan, Swallowing
  <2>2. CASE ~IsBarrier(seen)
    <3>1. seen # sent
      BY <2>2 DEF Ledger
    <3>2. Len(fans) \in Nat /\ seen + 2 * Len(fans) = sent + 1
      BY <1>2, <2>2 DEF Ledger, NextFan
    <3>3. Len(fans) >= 1
      BY <1>2, <3>1, <3>2
    <3>4. fans[1] = seen
      BY <1>2, <2>2, <3>3 DEF Ledger, NextFan
    <3> QED
      BY <1>2, <2>2, <3>3, <3>4 DEF Swallowing
  <2> QED
    BY <2>1, <2>2
<1>4. Swallowing => Head(fans) = seen
  BY DEF Swallowing
<1>5. Claimed(Line) = Line.answers
  <2>1. CASE Line.answers = 0
    <3>1. ~IsBarrier(seen) => seen # 0
      BY ZeroBarrier
    <3> QED
      BY <1>1, <1>2, <1>3, <1>4, <2>1, <3>1 DEF Follows, Claimed
  <2>2. CASE Line.answers # 0
    <3>1. Line.kind = "Block" /\ Line.flags = 1 /\ Line.answers = seen + 1
          /\ Line.tag = IF IsBarrier(seen + 1) THEN seen ELSE 0
      BY <1>1, <2>2 DEF Follows
    <3>2. Swallowing => Line.tag = Head(fans)
      BY <1>2, <1>3, <1>4, <3>1, Alternate
    <3> QED
      BY <3>1, <3>2 DEF Claimed
  <2> QED
    BY <2>1, <2>2
<1> QED
  BY <1>1, <1>2, <1>5 DEF Follows
----------------------------------------------------------------------------
\* A line taken off the stream brings seen to where it was written, and leaves
\* what is behind it in order.
LEMMA TakeStep ==
    ASSUME TypeOK, Ledger, InTransit, Take, UNCHANGED <<sent, wired, ran, eof>>
    PROVE  /\ seen' = Line.at /\ seen' \in Nat /\ seen <= seen' /\ seen' <= seen + 1
           /\ fans' \in Seq(Nat) /\ lines' \in Seq(Lines)
           /\ Ledger' /\ InTransit'
<1>1. lines # <<>> /\ lines' = Tail(lines) /\ Claim(Line)
  BY DEF Take
<1>2. /\ seen \in Nat /\ sent \in Nat /\ ran \in Nat /\ wired \in Nat
      /\ fans \in Seq(Nat) /\ lines \in Seq(Lines)
  BY DEF TypeOK
<1>3. /\ Line \in Lines /\ Line.at <= ran /\ Claimed(Line) = Line.answers
      /\ Line.answers # 0 => Line.answers = seen + 1
      /\ Line.at = IF Line.answers = 0 THEN seen ELSE seen + 1
  BY <1>1, ClaimRight
<1>4. seen' = Line.at /\ seen' \in Nat /\ seen <= seen' /\ seen' <= seen + 1
  BY <1>1, <1>2, <1>3 DEF Claim
<1>5. Ledger' /\ fans' \in Seq(Nat)
  <2>1. CASE Line.answers = 0
    BY <1>1, <1>2, <1>3, <2>1 DEF Claim, Ledger, NextFan
  <2>2. CASE Line.answers # 0
    <3>1. seen' = seen + 1 /\ fans' = IF Swallowing THEN Tail(fans) ELSE fans
      BY <1>1, <1>3, <2>2 DEF Claim
    <3>2. CASE IsBarrier(seen)
      <4>1. ~IsBarrier(seen') /\ NextFan' = NextFan
        BY <1>2, <3>1, <3>2, Alternate DEF NextFan
      <4>2. ~Swallowing
        BY <1>2, <3>2 DEF Ledger, NextFan, Swallowing
      <4> QED
        BY <1>2, <3>1, <4>1, <4>2 DEF Ledger
    <3>3. CASE ~IsBarrier(seen)
      <4>1. IsBarrier(seen') /\ NextFan' = NextFan + 2
        BY <1>2, <3>1, <3>3, Alternate DEF NextFan
      <4>2. fans # <<>>
        <5>1. seen # sent /\ NextFan = seen /\ seen <= sent
          BY <1>2, <3>3 DEF Ledger, NextFan, InTransit
        <5> QED
          BY <1>2, <5>1 DEF Ledger
      <4>3. Swallowing
        BY <1>2, <3>3, <4>2 DEF Swallowing, Ledger, NextFan
      <4>4. fans' = Tail(fans) /\ fans' \in Seq(Nat) /\ Len(fans') = Len(fans) - 1
            /\ \A i \in 1..Len(fans') : fans'[i] = fans[i + 1]
        BY <1>2, <3>1, <4>2, <4>3
      <4>5. NextFan \in Nat
        BY <1>2 DEF NextFan
      <4>6. \A i \in 1..Len(fans') : fans'[i] = NextFan' + 2 * (i - 1)
        BY <1>2, <4>1, <4>4, <4>5 DEF Ledger
      <4> QED
        BY <1>2, <4>1, <4>4, <4>5, <4>6 DEF Ledger
    <3> QED
      BY <3>2, <3>3
  <2> QED
    BY <2>1, <2>2
<1>6. lines' \in Seq(Lines) /\ Len(lines') = Len(lines) - 1 /\ Len(lines) \in Nat \ {0}
      /\ \A i \in 1..Len(lines') : lines'[i] = lines[i + 1]
  BY <1>1, <1>2
<1>7. \A i \in 1..Len(lines') + 1 :
         (IF i = 1 THEN seen' ELSE lines'[i - 1].at) = Before(i + 1)
  BY <1>4, <1>6 DEF Before, Line
<1>8. InTransit'
  <2>1. seen' <= ran /\ ran <= wired /\ wired <= sent
    BY <1>3, <1>4 DEF InTransit
  <2>2. \A i \in 1..Len(lines') :
           /\ Follows(lines'[i], IF i = 1 THEN seen' ELSE lines'[i - 1].at)
           /\ lines'[i].at <= ran
    <3> TAKE i \in 1..Len(lines')
    <3>1. /\ i + 1 \in 1..Len(lines) /\ i \in 1..Len(lines') + 1
          /\ lines'[i] = lines[i + 1]
      BY <1>6
    <3> QED
      BY <3>1, <1>7 DEF InTransit
  <2>3. ~eof => ran = IF Len(lines') + 1 = 1 THEN seen' ELSE lines'[Len(lines')].at
    <3>1. Len(lines') + 1 \in 1..Len(lines') + 1 /\ Len(lines') + 1 - 1 = Len(lines')
          /\ Len(lines') + 1 + 1 = Len(lines) + 1
      BY <1>6
    <3> QED
      BY <3>1, <1>7 DEF InTransit
  <2>4. Len(lines') + 1 - 1 = Len(lines')
    BY <1>6
  <2> QED
    BY <2>1, <2>2, <2>3, <2>4 DEF InTransit, Before
<1> QED
  BY <1>4, <1>5, <1>6, <1>8

\* What is left in flight when the stream ends is still in order.
LEMMA CutStep ==
    ASSUME TypeOK, InTransit, Cut
    PROVE  lines' \in Seq(Lines) /\ InTransit'
<1>1. /\ lines \in Seq(Lines) /\ Len(lines) \in Nat /\ eof'
      /\ seen \in Nat /\ ran \in Nat
      /\ UNCHANGED <<sent, seen, wired, ran>>
  BY DEF Cut, TypeOK, streamVars
<1>2. \A i \in 1..Len(lines) :
         /\ lines[i] \in Lines /\ lines[i].at \in Nat
         /\ Before(i) \in Nat
         /\ Follows(lines[i], Before(i)) /\ lines[i].at <= ran
  <2> TAKE i \in 1..Len(lines)
  <2>1. lines[i] \in Lines /\ lines[i].at \in Nat
    BY <1>1, LineFields
  <2>2. ASSUME i # 1 PROVE lines[i - 1].at \in Nat
    <3>1. i - 1 \in 1..Len(lines)
      BY <1>1, <2>2
    <3> QED
      BY <1>1, <3>1, LineFields
  <2> QED
    BY <1>1, <2>1, <2>2 DEF InTransit, Before
<1>3. PICK k \in 0..Len(lines) :
         \/ lines' = SubSeq(lines, 1, k)
         \/ /\ k < Len(lines)
            /\ lines[k + 1].kind = "Block"
            /\ lines' = Append(SubSeq(lines, 1, k), Torn(lines[k + 1]))
  BY DEF Cut
<1> DEFINE kept == SubSeq(lines, 1, k)
<1>4. kept \in Seq(Lines) /\ Len(kept) = k /\ \A i \in 1..k : kept[i] = lines[i]
  BY <1>1
<1>5. CASE lines' = kept
  <2>1. \A i \in 1..Len(lines') :
           /\ Follows(lines'[i], IF i = 1 THEN seen' ELSE lines'[i - 1].at)
           /\ lines'[i].at <= ran
    BY <1>1, <1>2, <1>4, <1>5 DEF Before
  <2> QED
    BY <1>1, <1>4, <1>5, <2>1 DEF InTransit, Before
<1>6. CASE /\ k < Len(lines)
           /\ lines[k + 1].kind = "Block"
           /\ lines' = Append(kept, Torn(lines[k + 1]))
  <2> DEFINE t == Torn(lines[k + 1])
  <2>1. t \in Lines /\ Follows(t, Before(k + 1)) /\ t.at <= lines[k + 1].at
    BY <1>2, <1>6, TornLine
  <2> HIDE DEF t
  <2>2. /\ lines' \in Seq(Lines) /\ Len(lines') = k + 1 /\ lines'[k + 1] = t
        /\ \A i \in 1..k : lines'[i] = lines[i]
    BY <1>4, <1>6, <2>1 DEF t
  <2>3. t.at \in Nat /\ t.at <= ran
    <3>1. k + 1 \in 1..Len(lines)
      BY <1>1, <1>6
    <3> QED
      BY <1>1, <1>2, <2>1, <3>1, LineFields
  <2>4. Before(k + 1) = IF k + 1 = 1 THEN seen' ELSE lines'[k + 1 - 1].at
    BY <1>1, <2>2 DEF Before
  <2>5. \A i \in 1..Len(lines') :
           /\ Follows(lines'[i], IF i = 1 THEN seen' ELSE lines'[i - 1].at)
           /\ lines'[i].at <= ran
    <3> TAKE i \in 1..Len(lines')
    <3>1. CASE i = k + 1
      BY <2>1, <2>2, <2>3, <2>4, <3>1
    <3>2. CASE i # k + 1
      <4>1. /\ i \in 1..k /\ i \in 1..Len(lines)
            /\ lines'[i] = lines[i]
            /\ i # 1 => i - 1 \in 1..k /\ lines'[i - 1] = lines[i - 1]
        BY <1>1, <2>2, <3>2
      <4>2. Follows(lines[i], IF i = 1 THEN seen ELSE lines[i - 1].at) /\ lines[i].at <= ran
        BY <1>2, <4>1 DEF Before
      <4> QED
        BY <1>1, <4>1, <4>2
    <3> QED
      BY <3>1, <3>2
  <2> QED
    BY <1>1, <2>2, <2>5 DEF InTransit, Before
<1> QED
  BY <1>3, <1>5, <1>6

\* stampAll numbers the batch, and lists its barriers, where the last one ended.
LEMMA StampStep ==
    ASSUME TypeOK, Ledger, NEW p \in Procs, NEW n \in Nat \ {0}, Stamp(p, n), UNCHANGED seen
    PROVE  /\ sent' \in Nat /\ sent' > sent /\ fans' \in Seq(Nat)
           /\ armed' \subseteq Procs
           /\ Ledger'
<1> DEFINE added == [i \in 1..n |-> sent + 2 * i - 1]
<1>1. sent \in Nat /\ seen \in Nat /\ fans \in Seq(Nat) /\ armed \subseteq Procs /\ NextFan \in Nat
  BY DEF TypeOK, NextFan
<1>2. sent' = sent + 2 * n /\ fans' = fans \o added /\ sent' > sent
  BY <1>1 DEF Stamp
<1>3. added \in Seq(Nat) /\ Len(added) = n /\ \A i \in 1..n : added[i] = sent + 2 * i - 1
  BY <1>1
<1> HIDE DEF added
<1>4. /\ fans' \in Seq(Nat) /\ Len(fans') = Len(fans) + n
      /\ \A i \in 1..Len(fans') :
            fans'[i] = IF i <= Len(fans) THEN fans[i] ELSE added[i - Len(fans)]
  <2>1. /\ fans \o added \in Seq(Nat) /\ Len(fans \o added) = Len(fans) + Len(added)
        /\ \A i \in 1..Len(fans) + Len(added) :
              (fans \o added)[i] = IF i <= Len(fans) THEN fans[i] ELSE added[i - Len(fans)]
    BY <1>1, <1>3, ConcatProperties
  <2> QED
    BY <1>2, <1>3, <2>1
<1>5. IsBarrier(sent')
  BY <1>1, <1>2, WholePairs DEF Ledger
<1>6. NextFan' = NextFan
  BY DEF NextFan
<1>7. Len(fans) \in Nat /\ NextFan + 2 * Len(fans) = sent + 1
  BY <1>1 DEF Ledger
<1>8. \A i \in 1..Len(fans') : fans'[i] = NextFan + 2 * (i - 1)
  <2> TAKE i \in 1..Len(fans')
  <2>0. i \in Nat \ {0} /\ i <= Len(fans) + n
    BY <1>4, <1>7
  <2>1. CASE i <= Len(fans)
    <3>1. i \in 1..Len(fans) /\ fans'[i] = fans[i]
      BY <1>4, <1>7, <2>0, <2>1
    <3> QED
      BY <3>1 DEF Ledger
  <2>2. CASE i > Len(fans)
    <3>1. i - Len(fans) \in 1..n
      BY <1>7, <2>0, <2>2
    <3>2. fans'[i] = added[i - Len(fans)]
      BY <1>4, <1>7, <2>0, <2>2
    <3>3. fans'[i] = sent + 2 * (i - Len(fans)) - 1
      BY <1>3, <3>1, <3>2
    <3>4. sent + 2 * (i - Len(fans)) - 1 = NextFan + 2 * (i - 1)
      BY <1>1, <1>7, <2>0
    <3> QED
      BY <3>3, <3>4
  <2> QED
    BY <1>7, <2>0, <2>1, <2>2
<1>9. armed' \subseteq Procs
  BY <1>1 DEF Stamp, Arm
<1> QED
  <2>1. NextFan' + 2 * Len(fans') = sent' + 1
    <3>1. NextFan + 2 * (Len(fans) + n) = sent + 2 * n + 1
      BY <1>1, <1>7
    <3> QED
      BY <1>2, <1>4, <1>6, <3>1
  <2> QED
    BY <1>1, <1>2, <1>4, <1>5, <1>6, <1>8, <1>9, <2>1 DEF Ledger

----------------------------------------------------------------------------
LEMMA InitInv == Init => IInv
<1> SUFFICES ASSUME Init PROVE IInv
  OBVIOUS
<1>1. TypeOK
  <2>1. answered \in [want : Nat, answers : Nat, whole : BOOLEAN]
    BY DEF Init
  <2>2. sender \in [Senders -> {"idle", "flush"}]
    BY DEF Init
  <2>3. fans \in Seq(Nat) /\ lines \in Seq(Lines) /\ async \in Seq(Lines)
    BY DEF Init
  <2> QED
    BY <2>1, <2>2, <2>3 DEF Init, TypeOK, Procs
<1>2. Ledger
  BY ZeroBarrier DEF Init, Ledger, NextFan
<1>3. InTransit
  BY DEF Init, InTransit, Before
<1>4. Progress
  <2>1. ~IsBarrier(1)
    BY DEF IsBarrier
  <2> QED
    BY <2>1, MainAssumption DEF Init, Progress, InBatch, Procs
<1>5. Failing /\ ReplyPaired
  BY DEF Init, Failing, ReplyPaired
<1> QED
  BY <1>1, <1>2, <1>3, <1>4, <1>5 DEF IInv
----------------------------------------------------------------------------
\* Each action keeps every variable in its type.
LEMMA ReturnTypes ==
    ASSUME TypeOK, NEW l \in Lines, Return(l)
    PROVE  /\ pc' = "pass" /\ want' \in Nat /\ armed' \subseteq Procs /\ failed' \in BOOLEAN
           /\ answered' \in [want : Nat, answers : Nat, whole : BOOLEAN]
<1>1. l.answers \in Nat /\ l.whole \in BOOLEAN
  BY LineFields
<1>2. want \in Nat /\ [want |-> want, answers |-> l.answers, whole |-> l.whole]
                        \in [want : Nat, answers : Nat, whole : BOOLEAN]
  BY <1>1 DEF TypeOK
<1>3. answered' \in [want : Nat, answers : Nat, whole : BOOLEAN]
  <2>1. answered' = answered \/ answered' = [want |-> want, answers |-> l.answers, whole |-> l.whole]
    BY DEF Return
  <2> QED
    BY <1>2, <2>1 DEF TypeOK
<1>4. failed' \in BOOLEAN
  BY DEF Return, TypeOK
<1> QED
  BY <1>2, <1>3, <1>4 DEF Return, Disarm, TypeOK

LEMMA AsideTypes ==
    ASSUME TypeOK, NEW l \in Lines, HandleAside(l)
    PROVE  routedAt' \in Nat /\ async' \in Seq(Lines)
BY LineFields DEF HandleAside, TypeOK

LEMMA TypeStep ==
    ASSUME TypeOK, Ledger, InTransit, [Next]_vars
    PROVE  TypeOK'
<1> USE DEF streamVars, farVars, connVars, mainVars, history
<1>0. CASE UNCHANGED vars
  BY <1>0 DEF vars, TypeOK
<1>1. CASE RunCommand
  <2>1. OwnReply(ran + 1) \in Lines
    BY OwnReplyLine DEF TypeOK
  <2> QED
    BY <1>1, <2>1 DEF RunCommand, Emit, TypeOK
<1>2. CASE RunBranch
  <2>1. Aside("Block", 1, ran) \in Lines
    BY <1>2, AsideLine DEF RunBranch, TypeOK, Kinds
  <2> QED
    BY <1>2, <2>1 DEF RunBranch, Emit, TypeOK
<1>3. CASE Unasked
  <2>1. \A k \in Kinds : Aside(k, 0, ran) \in Lines
    BY AsideLine DEF TypeOK
  <2> QED
    BY <1>3, <2>1 DEF Unasked, Emit, TypeOK
<1>4. CASE RemoteDrops \/ TransportEOF
  <2>1. lines' \in Seq(Lines)
    BY <1>4, CutStep DEF RemoteDrops, TransportEOF
  <2>2. /\ eof' = TRUE
        /\ UNCHANGED <<streamVars, wired, ran, noise, connVars, mainVars, sender, history>>
    BY <1>4 DEF RemoteDrops, TransportEOF, Cut
  <2> QED
    BY <2>1, <2>2 DEF TypeOK
<1>5. CASE Closing
  <2>1. ASSUME NEW p \in Procs, Expire(p) PROVE TypeOK'
    BY <2>1 DEF Expire, TypeOK
  <2>2. CASE MarkStalled
    <3>1. closer' \in {"idle", "marked", "shut", "done"}
          /\ firing' \in BOOLEAN /\ stalled' \in BOOLEAN
      BY <2>2 DEF MarkStalled, TypeOK
    <3>2. UNCHANGED <<sent, seen, fans, awaitHigh, parked, closed, mu, farVars,
                      transport, armed, mainVars, sender, history>>
      BY <2>2 DEF MarkStalled
    <3> QED
      BY <3>1, <3>2 DEF TypeOK
  <2>3. CASE CloseBegins
    <3>1. closer' = "marked"
          /\ UNCHANGED <<streamVars, farVars, transport, armed, firing, mainVars, sender, history>>
      BY <2>3 DEF CloseBegins
    <3> QED
      BY <3>1 DEF TypeOK
  <2>4. CASE CloseTransport
    <3>1. transport' = "shut" /\ closer' = "shut"
          /\ UNCHANGED <<streamVars, farVars, armed, firing, mainVars, sender, history>>
      BY <2>4 DEF CloseTransport
    <3> QED
      BY <3>1 DEF TypeOK
  <2>5. CASE CloseStream
    BY <2>5 DEF CloseStream, TypeOK
  <2> QED
    BY <1>5, <2>1, <2>2, <2>3, <2>4, <2>5 DEF Closing
<1>6. ASSUME NEW s \in Senders, SenderStamp(s) PROVE TypeOK'
  <2>1. sent' \in Nat /\ fans' \in Seq(Nat) /\ armed' \subseteq Procs /\ mu' = s /\ s \in Procs
    BY <1>6, StampStep DEF SenderStamp, Stamp, Procs
  <2>2. /\ sender' = [sender EXCEPT ![s] = "flush"]
        /\ UNCHANGED <<seen, awaitHigh, parked, closed, stalled, farVars,
                       transport, closer, firing, mainVars, history>>
    BY <1>6 DEF SenderStamp
  <2> QED
    BY <2>1, <2>2 DEF TypeOK
<1>7. ASSUME NEW n \in 1..MaxBatch, Issue(n) PROVE TypeOK'
  <2>1. n \in Nat \ {0} /\ Main \in Procs
    BY BoundsAssumption DEF Procs
  <2>2. sent' \in Nat /\ fans' \in Seq(Nat) /\ armed' \subseteq Procs /\ mu' = Main
    BY <1>7, <2>1, StampStep DEF Issue, Stamp
  <2>3. /\ want' = sent + 1 /\ high' = sent + 2 * n - 1 /\ pc' = "flush"
        /\ UNCHANGED <<seen, awaitHigh, parked, closed, stalled, farVars,
                       transport, closer, firing, reading, async, sender, history>>
    BY <1>7 DEF Issue
  <2> QED
    BY <2>1, <2>2, <2>3 DEF TypeOK
<1>8. ASSUME NEW p \in Procs, FlushOK(p) PROVE TypeOK'
  <2>1. wired' \in Nat /\ awaitHigh' \in Nat
    BY <1>8 DEF FlushOK, TypeOK
  <2>2. pc' \in {"pass", "flush", "next", "exec", "ended"}
    BY <1>8 DEF FlushOK, TypeOK
  <2>3. sender' \in [Senders -> {"idle", "flush"}]
    BY <1>8 DEF FlushOK, TypeOK
  <2>4. mu' = "free" /\ armed' = armed \ {p}
    BY <1>8 DEF FlushOK, Disarm
  <2>5. UNCHANGED <<sent, seen, fans, parked, closed, stalled, ran, lines, eof, noise,
                    transport, closer, firing, want, high, reading, async, history>>
    BY <1>8 DEF FlushOK, Disarm
  <2> QED
    BY <2>1, <2>2, <2>3, <2>4, <2>5 DEF TypeOK
<1>9. ASSUME NEW p \in Procs, FlushFails(p) PROVE TypeOK'
  <2>1. wired' \in Nat /\ want' \in Nat
    BY <1>9 DEF FlushFails, TypeOK
  <2>2. sender' \in [Senders -> {"idle", "flush"}] /\ failed' \in BOOLEAN
        /\ pc' \in {"pass", "flush", "next", "exec", "ended"}
    BY <1>9 DEF FlushFails, TypeOK
  <2>3. /\ mu' = "free" /\ closed' = TRUE /\ armed' = armed \ {p}
        /\ UNCHANGED <<sent, seen, fans, awaitHigh, parked, stalled, ran, lines, eof, noise,
                       transport, closer, firing, high, reading, async, routedAt, answered>>
    BY <1>9 DEF FlushFails, Disarm
  <2> QED
    BY <2>1, <2>2, <2>3 DEF TypeOK
<1>10. CASE NextCall
  BY <1>10 DEF NextCall, Arm, TypeOK, Procs
<1>11. CASE NextParked
  <2>1. parked \in ParkedReplies /\ parked.line \in Lines
    BY <1>11 DEF NextParked, TypeOK, ParkedReplies
  <2>2. parked' = NoLine
        /\ UNCHANGED <<sent, seen, fans, awaitHigh, closed, stalled, mu, farVars,
                       transport, closer, firing, high, reading, async, sender, routedAt>>
    BY <1>11 DEF NextParked
  <2>3. CASE parked.seq = want
    <3>1. Return(parked.line)
      BY <1>11, <2>3 DEF NextParked
    <3> QED
      BY <2>1, <2>2, <3>1, ReturnTypes DEF TypeOK
  <2>4. CASE parked.seq # want
    <3>1. UNCHANGED <<pc, want, armed, answered, failed>>
      BY <1>11, <2>4 DEF NextParked
    <3> QED
      BY <2>2, <3>1 DEF TypeOK
  <2> QED
    BY <2>3, <2>4
<1>12. CASE NextRead \/ ExecRead \/ SelectRead \/ HelloRead
  <2>1. /\ Line \in Lines /\ Claimed(Line) = Line.answers /\ Line.at \in Nat /\ Line.answers \in Nat
        /\ seen' \in Nat /\ fans' \in Seq(Nat) /\ lines' \in Seq(Lines)
        /\ UNCHANGED <<sent, awaitHigh, closed, stalled, mu, wired, ran, eof, noise,
                       transport, closer, firing, high, sender>>
    BY <1>12, TakeStep, ClaimRight, LineFields DEF NextRead, ExecRead, SelectRead, HelloRead, Take
  <2>2. CASE NextRead
    <3>1. UNCHANGED <<parked, reading>>
      BY <2>2 DEF NextRead
    <3>2. CASE Line.kind = "Block" /\ Claimed(Line) = want
      <4>1. Return(Line) /\ UNCHANGED <<routedAt, async>>
        BY <2>2, <3>2 DEF NextRead
      <4> QED
        BY <2>1, <3>1, <4>1, ReturnTypes DEF TypeOK
    <3>3. CASE ~(Line.kind = "Block" /\ Claimed(Line) = want)
      <4>1. HandleAside(Line) /\ UNCHANGED <<pc, want, armed, answered, failed>>
        BY <2>2, <3>3 DEF NextRead
      <4> QED
        BY <2>1, <3>1, <4>1, AsideTypes DEF TypeOK
    <3> QED
      BY <3>2, <3>3
  <2>3. CASE ExecRead
    <3>1. UNCHANGED <<armed, pc, want, answered, failed>> /\ reading' \in BOOLEAN
      BY <2>3 DEF ExecRead
    <3>2. CASE Awaited(Claimed(Line))
      <4>1. parked' = [seq |-> Line.answers, line |-> Line] /\ UNCHANGED <<routedAt, async>>
        BY <2>1, <2>3, <3>2 DEF ExecRead
      <4>2. parked' \in ParkedReplies
        BY <2>1, <4>1 DEF ParkedReplies
      <4> QED
        BY <2>1, <3>1, <4>1, <4>2 DEF TypeOK
    <3>3. CASE ~Awaited(Claimed(Line))
      <4>1. HandleAside(Line) /\ UNCHANGED parked
        BY <2>3, <3>3 DEF ExecRead
      <4> QED
        BY <2>1, <3>1, <4>1, AsideTypes DEF TypeOK
    <3> QED
      BY <3>2, <3>3
  <2>4. CASE SelectRead
    BY <2>1, <2>4 DEF SelectRead, TypeOK
  <2>5. CASE HelloRead
    <3>1. HandleAside(Line)
          /\ UNCHANGED <<parked, armed, pc, want, reading, answered, failed>>
      BY <2>5 DEF HelloRead
    <3> QED
      BY <2>1, <3>1, AsideTypes DEF TypeOK
  <2> QED
    BY <1>12, <2>2, <2>3, <2>4, <2>5
<1>13. CASE NextEOF
  BY <1>13 DEF NextEOF, Disarm, TypeOK
<1>14. CASE ExecStart \/ ExecEnd
  <2>1. pc' \in {"pass", "flush", "next", "exec", "ended"} /\ reading' \in BOOLEAN
    BY <1>14 DEF ExecStart, ExecEnd
  <2>2. UNCHANGED <<streamVars, farVars, connVars, want, high, async, sender, history>>
    BY <1>14 DEF ExecStart, ExecEnd
  <2> QED
    BY <2>1, <2>2 DEF TypeOK
<1>15. CASE Settle
  BY <1>15 DEF Settle, TypeOK
<1>16. CASE StreamEnded
  <2>1. <<>> \in Seq(Lines)
    OBVIOUS
  <2> QED
    BY <1>16, <2>1 DEF StreamEnded, TypeOK
<1> QED
  BY <1>0, <1>1, <1>2, <1>3, <1>4, <1>5, <1>6, <1>7, <1>8, <1>9, <1>10, <1>11, <1>12, <1>13,
     <1>14, <1>15, <1>16 DEF Next, FarEnd, Writing, MainStep
----------------------------------------------------------------------------
\* What the far end adds behind the lines in flight keeps them in order.
LEMMA EmitStep ==
    ASSUME TypeOK, InTransit, ~eof, NEW l \in Lines, Emit(l), Follows(l, ran),
           ran' \in Nat, l.at = ran', ran <= ran', ran' <= wired,
           UNCHANGED <<sent, seen, wired, eof>>
    PROVE  InTransit'
<1>1. /\ lines \in Seq(Lines) /\ Len(lines) \in Nat /\ ran \in Nat /\ seen \in Nat
      /\ wired \in Nat /\ sent \in Nat
  BY DEF TypeOK
<1>2. /\ lines' \in Seq(Lines) /\ Len(lines') = Len(lines) + 1
      /\ lines'[Len(lines) + 1] = l
      /\ \A i \in 1..Len(lines) : lines'[i] = lines[i] /\ lines[i].at \in Nat
  BY <1>1, LineFields DEF Emit
<1>3. ran = Before(Len(lines) + 1)
  BY DEF InTransit
<1>4. \A i \in 1..Len(lines') :
         /\ Follows(lines'[i], IF i = 1 THEN seen' ELSE lines'[i - 1].at)
         /\ lines'[i].at <= ran'
  <2> TAKE i \in 1..Len(lines')
  <2>1. CASE i = Len(lines) + 1
    <3>1. ran = IF i = 1 THEN seen' ELSE lines'[i - 1].at
      BY <1>1, <1>2, <1>3, <2>1 DEF Before
    <3> QED
      BY <1>1, <1>2, <2>1, <3>1
  <2>2. CASE i # Len(lines) + 1
    <3>1. /\ i \in 1..Len(lines) /\ lines'[i] = lines[i]
          /\ i # 1 => i - 1 \in 1..Len(lines) /\ lines'[i - 1] = lines[i - 1]
      BY <1>1, <1>2, <2>2
    <3>2. Follows(lines[i], IF i = 1 THEN seen ELSE lines[i - 1].at) /\ lines[i].at <= ran
      BY <3>1 DEF InTransit, Before
    <3>3. lines'[i].at <= ran'
      BY <1>1, <1>2, <3>1, <3>2
    <3> QED
      BY <1>1, <3>1, <3>2, <3>3
  <2> QED
    BY <2>1, <2>2
<1>5. seen' <= ran' /\ ran' <= wired' /\ wired' <= sent'
  BY <1>1 DEF InTransit
<1>6. Len(lines') + 1 # 1 /\ Len(lines') + 1 - 1 = Len(lines) + 1
  BY <1>1, <1>2
<1>7. ran' = lines'[Len(lines') + 1 - 1].at
  BY <1>2, <1>6
<1>8. ran' = (IF Len(lines') + 1 = 1 THEN seen' ELSE lines'[Len(lines') + 1 - 1].at)
  BY <1>6, <1>7
<1>9. \A i \in 1..Len(lines') :
         Follows(lines'[i], IF i = 1 THEN seen' ELSE lines'[i - 1].at) /\ lines'[i].at <= ran'
  BY <1>4
<1> QED
  BY <1>5, <1>8, <1>9 DEF InTransit, Before

\* Each action keeps the ledger of ordinals and the order of what is in flight.
LEMMA FlowStep ==
    ASSUME TypeOK, Ledger, InTransit, [Next]_vars
    PROVE  Ledger' /\ InTransit'
<1> USE DEF streamVars, farVars, connVars, mainVars, history
<1>0. ASSUME UNCHANGED <<sent, seen, fans, wired, ran, lines, eof>>
      PROVE  Ledger' /\ InTransit'
  BY <1>0 DEF Ledger, NextFan, InTransit, Before
<1>1. ASSUME UNCHANGED <<sent, seen, fans>> PROVE Ledger'
  BY <1>1 DEF Ledger, NextFan
<1>2. CASE RunCommand
  <2>1. /\ OwnReply(ran + 1) \in Lines /\ Follows(OwnReply(ran + 1), ran)
        /\ OwnReply(ran + 1).at = ran + 1
    BY OwnReplyLine DEF TypeOK
  <2>2. ran' = ran + 1 /\ ran \in Nat /\ ran' <= wired /\ wired \in Nat
    BY <1>2 DEF RunCommand, TypeOK
  <2> QED
    BY <1>1, <1>2, <2>1, <2>2, EmitStep DEF RunCommand
<1>3. CASE RunBranch
  <2>1. /\ Aside("Block", 1, ran) \in Lines /\ Follows(Aside("Block", 1, ran), ran)
        /\ Aside("Block", 1, ran).at = ran
    BY <1>3, AsideLine DEF RunBranch, TypeOK, Kinds
  <2>2. ran \in Nat /\ ran <= wired
    BY DEF TypeOK, InTransit
  <2> QED
    BY <1>1, <1>3, <2>1, <2>2, EmitStep DEF RunBranch
<1>4. CASE Unasked
  <2>1. PICK k \in Kinds : Emit(Aside(k, 0, ran))
    BY <1>4 DEF Unasked
  <2>2. /\ Aside(k, 0, ran) \in Lines /\ Follows(Aside(k, 0, ran), ran)
        /\ Aside(k, 0, ran).at = ran
    BY AsideLine DEF TypeOK
  <2>3. ran \in Nat /\ ran <= wired
    BY DEF TypeOK, InTransit
  <2> QED
    BY <1>1, <1>4, <2>1, <2>2, <2>3, EmitStep DEF Unasked
<1>5. CASE RemoteDrops \/ TransportEOF
  BY <1>1, <1>5, CutStep DEF RemoteDrops, TransportEOF, Cut
<1>6. CASE Closing
  BY <1>0, <1>6 DEF Closing, Expire, MarkStalled, CloseBegins, CloseTransport, CloseStream
<1>7. ASSUME NEW p \in Procs, NEW n \in Nat \ {0}, Stamp(p, n),
             UNCHANGED <<seen, wired, ran, lines, eof>>
      PROVE  Ledger' /\ InTransit'
  <2>1. Ledger' /\ sent' \in Nat /\ sent' > sent
    BY <1>7, StampStep
  <2>2. sent \in Nat /\ wired \in Nat
    BY DEF TypeOK
  <2> QED
    BY <1>7, <2>1, <2>2 DEF InTransit, Before
<1>8. ASSUME NEW s \in Senders, SenderStamp(s) PROVE Ledger' /\ InTransit'
  BY <1>7, <1>8 DEF SenderStamp, Procs
<1>9. ASSUME NEW n \in 1..MaxBatch, Issue(n) PROVE Ledger' /\ InTransit'
  <2>1. n \in Nat \ {0} /\ Main \in Procs
    BY BoundsAssumption DEF Procs
  <2> QED
    BY <1>7, <1>9, <2>1 DEF Issue
<1>10. ASSUME NEW p \in Procs, FlushOK(p) \/ FlushFails(p) PROVE Ledger' /\ InTransit'
  <2>1. /\ wired' \in wired..sent
        /\ UNCHANGED <<sent, seen, fans, ran, lines, eof>>
    BY <1>10 DEF FlushOK, FlushFails, TypeOK, InTransit
  <2>2. ran \in Nat /\ wired \in Nat /\ sent \in Nat
    BY DEF TypeOK
  <2> QED
    BY <1>1, <2>1, <2>2 DEF InTransit, Before
<1>11. CASE NextRead \/ ExecRead \/ SelectRead \/ HelloRead
  BY <1>11, TakeStep DEF NextRead, ExecRead, SelectRead, HelloRead
<1>12. CASE NextCall \/ NextParked \/ NextEOF \/ ExecStart \/ ExecEnd \/ Settle \/ StreamEnded
  BY <1>0, <1>12 DEF NextCall, NextParked, NextEOF, ExecStart, ExecEnd, Settle, StreamEnded
<1>13. CASE UNCHANGED vars
  BY <1>0, <1>13 DEF vars
<1> QED
  BY <1>2, <1>3, <1>4, <1>5, <1>6, <1>8, <1>9, <1>10, <1>11, <1>12, <1>13
     DEF Next, FarEnd, Writing, MainStep

----------------------------------------------------------------------------
\* The reply a next() returns is the one it was asked for.
LEMMA PairedStep ==
    ASSUME IInv, [Next]_vars
    PROVE  ReplyPaired'
<1> USE DEF streamVars, farVars, connVars, mainVars, history
<1>1. ASSUME UNCHANGED answered PROVE ReplyPaired'
  BY <1>1 DEF IInv, ReplyPaired
<1>2. ASSUME NEW l, Return(l), l.answers = want PROVE ReplyPaired'
  <2>1. answered' = answered \/ answered' = [want |-> want, answers |-> l.answers, whole |-> l.whole]
    BY <1>2 DEF Return
  <2> QED
    BY <1>1, <1>2, <2>1 DEF ReplyPaired
<1>3. CASE NextParked
  <2>1. parked.seq = want => parked.line.answers = want
    BY <1>3 DEF IInv, Progress, NextParked
  <2> QED
    BY <1>1, <1>2, <1>3, <2>1 DEF NextParked
<1>4. CASE NextRead
  <2>1. Claimed(Line) = Line.answers
    BY <1>4, ClaimRight DEF IInv, NextRead, Take
  <2> QED
    BY <1>1, <1>2, <1>4, <2>1 DEF NextRead
<1>5. CASE FarEnd
  BY <1>1, <1>5 DEF FarEnd, RunCommand, RunBranch, Unasked, RemoteDrops, TransportEOF, Cut
<1>6. CASE Closing
  BY <1>1, <1>6 DEF Closing, Expire, MarkStalled, CloseBegins, CloseTransport, CloseStream
<1>7. CASE Writing
  BY <1>1, <1>7 DEF Writing, SenderStamp, Issue, FlushOK, FlushFails
<1>8. CASE NextCall \/ NextEOF \/ ExecStart \/ ExecRead \/ ExecEnd \/ Settle \/ SelectRead
           \/ HelloRead \/ StreamEnded
  BY <1>1, <1>8 DEF NextCall, NextEOF, ExecStart, ExecRead, ExecEnd, Settle, SelectRead,
                    HelloRead, StreamEnded
<1>9. CASE UNCHANGED vars
  BY <1>1, <1>9 DEF vars
<1> QED
  BY <1>3, <1>4, <1>5, <1>6, <1>7, <1>8, <1>9 DEF Next, MainStep
----------------------------------------------------------------------------
\* What reading the reply to want leaves behind: the batch goes on past it, or
\* it was the last of the batch.
LEMMA BatchAdvances ==
    ASSUME TypeOK, Progress, InBatch, pc # "flush"
    PROVE  /\ ~IsBarrier(want + 2)
           /\ ~(want + 2 <= high) => want = high /\ awaitHigh = want
<1>1. want \in Nat /\ high \in Nat /\ awaitHigh \in Nat
  BY DEF TypeOK
<1>2. ~IsBarrier(want) /\ ~IsBarrier(high) /\ awaitHigh = high /\ want <= high
  BY DEF Progress, InBatch
<1>3. want + 1 # high
  BY <1>1, <1>2, Alternate
<1> QED
  BY <1>1, <1>2, <1>3, Alternate

\* Each action keeps the batch, the slot and the routed output in step.
LEMMA ProgressStep ==
    ASSUME IInv, TypeOK', [Next]_vars
    PROVE  Progress'
<1> USE DEF streamVars, farVars, connVars, mainVars, history
<1>a. TypeOK /\ Ledger /\ InTransit /\ Progress
  BY DEF IInv
<1>b. /\ sent \in Nat /\ seen \in Nat /\ awaitHigh \in Nat /\ want \in Nat /\ high \in Nat
      /\ routedAt \in Nat /\ Main # "free"
  BY <1>a, MainAssumption DEF TypeOK
<1>1. ASSUME UNCHANGED <<sent, seen, awaitHigh, parked, mu, pc, want, high, reading, routedAt>>,
             (lines' = lines /\ eof' = eof) \/ ~eof
      PROVE  Progress'
  BY <1>a, <1>1 DEF Progress, InBatch
<1>2. CASE FarEnd
  BY <1>1, <1>2 DEF FarEnd, RunCommand, RunBranch, Unasked, RemoteDrops, TransportEOF, Cut
<1>3. CASE Closing
  BY <1>1, <1>3 DEF Closing, Expire, MarkStalled, CloseBegins, CloseTransport, CloseStream
<1>4. ASSUME NEW s \in Senders, SenderStamp(s) PROVE Progress'
  <2>1. sent' > sent /\ sent' \in Nat
    BY <1>a, <1>4, StampStep DEF SenderStamp, Procs
  <2>2. mu = "free" /\ mu' = s /\ s # Main
    BY <1>4, MainAssumption DEF SenderStamp, Stamp
  <2>3. pc # "flush"
    BY <1>a, <1>b, <2>2 DEF Progress
  <2> QED
    BY <1>a, <1>b, <1>4, <2>1, <2>2, <2>3 DEF SenderStamp, Progress, InBatch
<1>5. ASSUME NEW n \in 1..MaxBatch, Issue(n) PROVE Progress'
  <2>1. n \in Nat \ {0}
    BY BoundsAssumption
  <2>2. /\ mu' = Main /\ pc' = "flush" /\ sent' = sent + 2 * n
        /\ want' = sent + 1 /\ high' = sent + 2 * n - 1 /\ ~InBatch
        /\ UNCHANGED <<seen, awaitHigh, parked, lines, eof, reading, routedAt>>
    BY <1>5 DEF Issue, Stamp
  <2>3. parked = NoLine /\ seen <= sent /\ awaitHigh <= sent
    BY <1>a, <1>b, <2>2 DEF Progress, InTransit, TypeOK
  <2>4. awaitHigh <= seen \/ (eof /\ lines = <<>>)
    BY <1>a, <2>2 DEF Progress
  <2>5. ~IsBarrier(want') /\ ~IsBarrier(high')
    <3>1. IsBarrier(sent) /\ IsBarrier(sent + 2 * (n - 1)) /\ sent + 2 * (n - 1) \in Nat
      <4>1. IsBarrier(sent) /\ n - 1 \in Nat
        BY <1>a, <2>1 DEF Ledger
      <4> QED
        BY <1>b, <4>1, WholePairs
    <3>2. high' = sent + 2 * (n - 1) + 1
      BY <1>b, <2>1, <2>2
    <3> QED
      BY <1>b, <2>2, <3>1, <3>2, Alternate
  <2>6. InBatch'
    BY <1>b, <2>1, <2>2 DEF InBatch
  <2>7. awaitHigh' < want' /\ seen' < want' /\ high' = sent' - 1 /\ awaitHigh' <= sent' /\ high' <= sent'
    BY <1>b, <2>1, <2>2, <2>3
  <2> QED
    BY <1>a, <2>2, <2>3, <2>4, <2>5, <2>6, <2>7 DEF Progress
<1>6. ASSUME NEW p \in Procs, FlushOK(p) PROVE Progress'
  <2>1. /\ mu = p /\ mu' = "free"
        /\ UNCHANGED <<sent, seen, parked, lines, eof, want, high, reading, routedAt>>
    BY <1>6 DEF FlushOK
  <2>2. CASE p = Main
    <3>1. pc = "flush" /\ InBatch /\ parked = NoLine /\ awaitHigh < want /\ high = sent - 1
      BY <1>a, <2>1, <2>2 DEF Progress
    <3>2. pc' = "pass" /\ awaitHigh' = high
      BY <1>b, <1>6, <2>2, <3>1 DEF FlushOK, InBatch
    <3> QED
      BY <1>a, <1>b, <2>1, <3>1, <3>2 DEF Progress, InBatch
  <2>3. CASE p # Main
    <3>1. pc # "flush" /\ UNCHANGED <<awaitHigh, pc>>
      BY <1>a, <1>6, <2>1, <2>3 DEF Progress, FlushOK
    <3> QED
      BY <1>a, <1>b, <2>1, <3>1 DEF Progress, InBatch
  <2> QED
    BY <2>2, <2>3
<1>7. ASSUME NEW p \in Procs, FlushFails(p) PROVE Progress'
  <2>1. /\ mu = p /\ mu' = "free"
        /\ UNCHANGED <<sent, seen, awaitHigh, parked, lines, eof, high, reading, routedAt>>
    BY <1>7 DEF FlushFails
  <2>2. CASE p = Main
    <3>1. pc = "flush" /\ InBatch /\ parked = NoLine /\ ~IsBarrier(high)
          /\ (awaitHigh <= seen \/ (eof /\ lines = <<>>))
      BY <1>a, <2>1, <2>2 DEF Progress
    <3>2. pc' = "pass" /\ want' = high + 2 /\ ~IsBarrier(want') /\ ~InBatch'
      BY <1>b, <1>7, <2>1, <2>2, <3>1, Alternate DEF FlushFails, InBatch
    <3> QED
      BY <1>a, <1>b, <2>1, <3>1, <3>2 DEF Progress
  <2>3. CASE p # Main
    <3>1. pc # "flush" /\ UNCHANGED <<pc, want>>
      BY <1>a, <1>7, <2>1, <2>3 DEF Progress, FlushFails
    <3> QED
      BY <1>a, <1>b, <2>1, <3>1 DEF Progress, InBatch
  <2> QED
    BY <2>2, <2>3
<1>8. CASE NextCall
  BY <1>a, <1>8 DEF NextCall, Progress, InBatch
<1>9. CASE NextParked
  <2>1. /\ pc = "next" /\ InBatch /\ parked # NoLine /\ parked.seq = seen /\ seen <= want
        /\ awaitHigh = high /\ ~IsBarrier(high) /\ mu # Main
    BY <1>a, <1>9 DEF NextParked, Progress
  <2>2. /\ parked' = NoLine
        /\ UNCHANGED <<sent, seen, awaitHigh, mu, lines, eof, high, reading, routedAt>>
    BY <1>9 DEF NextParked
  <2>3. CASE parked.seq = want
    <3>1. pc' = "pass" /\ want' = want + 2
      BY <1>9, <2>3 DEF NextParked, Return
    <3>2. ~IsBarrier(want + 2) /\ (~(want + 2 <= high) => want = high /\ awaitHigh = want)
      BY <1>a, <2>1, BatchAdvances
    <3> QED
      BY <1>a, <1>b, <2>1, <2>2, <2>3, <3>1, <3>2 DEF Progress, InBatch
  <2>4. CASE parked.seq # want
    <3>1. UNCHANGED <<pc, want>> /\ seen < want
      BY <1>b, <1>9, <2>1, <2>4 DEF NextParked
    <3> QED
      BY <1>a, <1>b, <2>1, <2>2, <3>1 DEF Progress, InBatch
  <2> QED
    BY <2>3, <2>4
<1>10. ASSUME Take, UNCHANGED <<sent, wired, ran, eof>>
       PROVE  /\ seen' = Line.at /\ seen' \in Nat /\ seen <= seen'
              /\ Claimed(Line) = Line.answers /\ lines # <<>>
              /\ \/ Line.answers = 0 /\ seen' = seen
                 \/ Line.answers = seen' /\ seen' = seen + 1 /\ Line.kind = "Block"
  BY <1>a, <1>b, <1>10, TakeStep, ClaimRight DEF Take, Follows
<1>11. CASE NextRead
  <2>1. /\ pc = "next" /\ InBatch /\ parked = NoLine /\ seen < want
        /\ awaitHigh = high /\ mu # Main
        /\ UNCHANGED <<sent, awaitHigh, parked, mu, eof, high, reading>>
    BY <1>a, <1>11 DEF NextRead, Progress
  <2>2. /\ seen' = Line.at /\ seen' \in Nat /\ seen <= seen' /\ Claimed(Line) = Line.answers
        /\ \/ Line.answers = 0 /\ seen' = seen
           \/ Line.answers = seen' /\ seen' = seen + 1 /\ Line.kind = "Block"
    BY <1>10, <1>11 DEF NextRead
  <2>3. CASE Line.kind = "Block" /\ Claimed(Line) = want
    <3>1. pc' = "pass" /\ want' = want + 2 /\ routedAt' = routedAt
      BY <1>11, <2>3 DEF NextRead, Return
    <3>2. seen' = want
      BY <1>b, <2>1, <2>2, <2>3
    <3>3. ~IsBarrier(want + 2) /\ (~(want + 2 <= high) => want = high /\ awaitHigh = want)
      BY <1>a, <2>1, BatchAdvances
    <3> QED
      BY <1>a, <1>b, <2>1, <2>2, <3>1, <3>2, <3>3 DEF Progress, InBatch
  <2>4. CASE ~(Line.kind = "Block" /\ Claimed(Line) = want)
    <3>1. HandleAside(Line) /\ UNCHANGED <<pc, want>>
      BY <1>11, <2>4 DEF NextRead
    <3>2. seen' < want
      BY <1>b, <2>1, <2>2, <2>4
    <3>3. routedAt' <= seen' /\ routedAt' \in Nat
      BY <1>a, <1>b, <2>2, <3>1 DEF HandleAside, Progress
    <3> QED
      BY <1>a, <1>b, <2>1, <2>2, <3>1, <3>2, <3>3 DEF Progress, InBatch
  <2> QED
    BY <2>3, <2>4
<1>12. CASE NextEOF
  <2>1. /\ pc = "next" /\ InBatch /\ parked = NoLine /\ seen < want /\ mu # Main
        /\ eof /\ lines = <<>> /\ pc' = "pass" /\ want' = want + 2
        /\ UNCHANGED <<sent, seen, awaitHigh, parked, mu, lines, eof, high, reading, routedAt>>
    BY <1>a, <1>12 DEF NextEOF, Progress
  <2>2. ~IsBarrier(want + 2)
    BY <1>a, <2>1, BatchAdvances
  <2> QED
    BY <1>a, <1>b, <2>1, <2>2 DEF Progress, InBatch
<1>13. CASE ExecStart \/ ExecEnd
  BY <1>a, <1>b, <1>13 DEF ExecStart, ExecEnd, Progress, InBatch
<1>14. CASE ExecRead
  <2>1. /\ pc = "exec" /\ reading /\ parked = NoLine /\ mu # Main
        /\ UNCHANGED <<sent, awaitHigh, mu, eof, pc, want, high>>
    BY <1>a, <1>14 DEF ExecRead, Progress
  <2>2. /\ seen' = Line.at /\ seen' \in Nat /\ seen <= seen' /\ Claimed(Line) = Line.answers
        /\ lines # <<>>
        /\ \/ Line.answers = 0 /\ seen' = seen
           \/ Line.answers = seen' /\ seen' = seen + 1 /\ Line.kind = "Block"
    BY <1>10, <1>14 DEF ExecRead
  <2>3. /\ routedAt <= seen
        /\ InBatch => seen < want /\ awaitHigh = high
        /\ ~InBatch => awaitHigh <= seen
    BY <1>a, <2>1, <2>2 DEF Progress
  <2>4. CASE Awaited(Claimed(Line))
    <3>1. /\ parked' = [seq |-> Line.answers, line |-> Line] /\ reading' = FALSE
          /\ routedAt' = routedAt
      BY <1>14, <2>2, <2>4 DEF ExecRead
    <3>2. parked'.seq = Line.answers /\ parked'.line = Line /\ parked' # NoLine
      <4>1. Line \in Lines /\ Line.answers \in Nat
        BY <1>a, <2>2, ClaimRight, LineFields
      <4>2. parked' \in ParkedReplies
        BY <3>1, <4>1 DEF ParkedReplies
      <4> QED
        BY <3>1, <4>2, NoLineAssumption
    <3>3. Line.answers # 0 /\ Line.answers <= awaitHigh /\ Line.answers = seen' /\ seen' = seen + 1
      BY <2>2, <2>4 DEF Awaited
    <3>4. InBatch /\ seen' <= want /\ routedAt < seen'
      BY <1>b, <2>3, <3>3
    <3> QED
      BY <1>a, <1>b, <2>1, <2>2, <3>1, <3>2, <3>3, <3>4 DEF Progress, InBatch
  <2>5. CASE ~Awaited(Claimed(Line))
    <3>1. HandleAside(Line) /\ parked' = parked
      BY <1>14, <2>5 DEF ExecRead
    <3>2. InBatch => seen' < want
      BY <1>b, <2>2, <2>3, <2>5 DEF Awaited, InBatch
    <3>3. routedAt' <= seen' /\ routedAt' \in Nat
      BY <1>b, <2>2, <2>3, <3>1 DEF HandleAside
    <3>4. ~InBatch => awaitHigh <= seen'
      BY <1>b, <2>2, <2>3
    <3> QED
      BY <1>a, <1>b, <2>1, <2>2, <3>1, <3>2, <3>3, <3>4 DEF Progress, InBatch
  <2> QED
    BY <2>4, <2>5
<1>15. CASE SelectRead \/ HelloRead
  <2>1. /\ pc = "pass" /\ ~InBatch /\ parked = NoLine /\ mu # Main
        /\ routedAt <= seen
        /\ UNCHANGED <<sent, awaitHigh, parked, mu, eof, pc, want, high, reading>>
    BY <1>a, <1>15 DEF SelectRead, HelloRead, Progress
  <2>2. /\ seen' = Line.at /\ seen' \in Nat /\ seen <= seen' /\ lines # <<>>
    BY <1>10, <1>15 DEF SelectRead, HelloRead
  <2>3. awaitHigh <= seen'
    BY <1>a, <1>b, <2>1, <2>2 DEF Progress
  <2>4. routedAt' <= seen' /\ routedAt' \in Nat
    BY <1>b, <1>15, <2>1, <2>2 DEF SelectRead, HelloRead, HandleAside
  <2> QED
    BY <1>a, <1>b, <2>1, <2>2, <2>3, <2>4 DEF Progress, InBatch
<1>16. CASE Settle
  BY <1>a, <1>16 DEF Settle, Progress, InBatch
<1>17. CASE StreamEnded
  BY <1>a, <1>b, <1>17 DEF StreamEnded, Progress, InBatch
<1>18. CASE UNCHANGED vars
  BY <1>1, <1>18 DEF vars
<1> QED
  BY <1>2, <1>3, <1>4, <1>5, <1>6, <1>7, <1>8, <1>9, <1>11, <1>12, <1>13, <1>14, <1>15,
     <1>16, <1>17, <1>18 DEF Next, Writing, MainStep
\* Once a call has failed, it stays true that nothing can answer another one.
LEMMA FailingStep ==
    ASSUME IInv, TypeOK', [Next]_vars
    PROVE  Failing'
<1> USE DEF streamVars, farVars, connVars, mainVars, history
<1>1. ASSUME UNCHANGED <<failed, parked, want, high>>, stalled => stalled', closed => closed',
             (lines' = lines /\ eof' = eof) \/ ~eof
      PROVE  Failing'
  BY <1>1 DEF IInv, Failing, InBatch
<1>2. CASE FarEnd
  BY <1>1, <1>2 DEF FarEnd, RunCommand, RunBranch, Unasked, RemoteDrops, TransportEOF, Cut
<1>3. CASE Closing
  BY <1>1, <1>3 DEF Closing, Expire, MarkStalled, CloseBegins, CloseTransport, CloseStream
<1>4. ASSUME NEW s \in Senders, SenderStamp(s) PROVE Failing'
  BY <1>1, <1>4 DEF SenderStamp, Stamp
<1>5. ASSUME NEW n \in 1..MaxBatch, Issue(n) PROVE Failing'
  BY <1>5 DEF Issue, Stamp, IInv, Failing
<1>6. ASSUME NEW p \in Procs, FlushOK(p) PROVE Failing'
  BY <1>1, <1>6 DEF FlushOK
<1>7. ASSUME NEW p \in Procs, FlushFails(p) PROVE Failing'
  <2>1. high \in Nat
    BY DEF IInv, TypeOK
  <2>2. CASE p = Main
    <3>1. closed' /\ want' = high + 2 /\ high' = high
      BY <1>7, <2>2 DEF FlushFails
    <3> QED
      BY <2>1, <3>1 DEF Failing, InBatch
  <2>3. CASE p # Main
    <3>1. closed' /\ UNCHANGED <<failed, stalled, eof, lines, parked, want, high>>
      BY <1>7, <2>3 DEF FlushFails
    <3> QED
      BY <1>1, <3>1
  <2> QED
    BY <2>2, <2>3
<1>8. CASE NextParked
  BY <1>8 DEF NextParked, Return, IInv, Failing, Progress
<1>9. CASE NextRead
  BY <1>9 DEF NextRead, Take, Return, IInv, Failing, Progress
<1>10. CASE NextEOF
  BY <1>10 DEF NextEOF, Failing
<1>11. CASE ExecRead
  BY <1>11 DEF ExecRead, Take, IInv, Failing, Progress, InBatch
<1>12. CASE SelectRead \/ HelloRead
  BY <1>12 DEF SelectRead, HelloRead, Take, IInv, Failing, InBatch
<1>13. CASE Settle
  BY <1>13 DEF Settle, IInv, Failing, Progress, InBatch
<1>14. CASE NextCall \/ ExecStart \/ ExecEnd \/ StreamEnded
  BY <1>1, <1>14 DEF NextCall, ExecStart, ExecEnd, StreamEnded
<1>15. CASE UNCHANGED vars
  BY <1>1, <1>15 DEF vars
<1> QED
  BY <1>2, <1>3, <1>4, <1>5, <1>6, <1>7, <1>8, <1>9, <1>10, <1>11, <1>12, <1>13, <1>14, <1>15
     DEF Next, Writing, MainStep

LEMMA NextInv == IInv /\ [Next]_vars => IInv'
<1> SUFFICES ASSUME IInv, [Next]_vars PROVE IInv'
  OBVIOUS
<1>1. TypeOK' /\ Ledger' /\ InTransit'
  BY TypeStep, FlowStep DEF IInv
<1> QED
  BY <1>1, ProgressStep, FailingStep, PairedStep DEF IInv

----------------------------------------------------------------------------
\* IInv holds throughout: the fact every theorem below is read off.
THEOREM Invariance == Spec => []IInv
BY InitInv, NextInv, PTL DEF Spec

\* Every variable keeps its type, for any number of senders and any traffic.
THEOREM TypeCorrect == Spec => []TypeOK
<1>1. IInv => TypeOK
  BY DEF IInv
<1> QED
  BY <1>1, Invariance, PTL

\* A round-trip never takes another command's block for its reply.
THEOREM RepliesPaired == Spec => []ReplyPaired
<1>1. IInv => ReplyPaired
  BY DEF IInv
<1> QED
  BY <1>1, Invariance, PTL

\* No output drawn after a reply is routed before the reply is handed over.
THEOREM SeedsFirst == Spec => []SeedBeforeOutput
<1>1. IInv => SeedBeforeOutput
  <2> SUFFICES ASSUME IInv, InBatch PROVE routedAt < want
    BY DEF SeedBeforeOutput
  <2>1. routedAt \in Nat /\ seen \in Nat /\ want \in Nat
    BY DEF IInv, TypeOK
  <2>2. CASE parked = NoLine
    BY <2>1, <2>2 DEF IInv, Progress
  <2>3. CASE parked # NoLine
    BY <2>1, <2>3 DEF IInv, Progress
  <2> QED
    BY <2>2, <2>3
<1> QED
  BY <1>1, Invariance, PTL

\* The reader's count is exact whenever it has caught up.
THEOREM CountExact == Spec => []OrdinalsExact
<1>1. IInv => OrdinalsExact
  <2> SUFFICES ASSUME IInv, lines = <<>>, ~eof PROVE seen = ran
    BY DEF OrdinalsExact
  <2>1. ran = Before(Len(lines) + 1) /\ Len(lines) + 1 = 1
    BY DEF IInv, InTransit
  <2> QED
    BY <2>1 DEF Before
<1> QED
  BY <1>1, Invariance, PTL

\* Clearing the parked slot never loses a reply that is still owed.
THEOREM SlotSafe == Spec => []ParkedStillOwed
<1>1. IInv => ParkedStillOwed
  BY DEF IInv, Progress, ParkedStillOwed
<1> QED
  BY <1>1, Invariance, PTL
----------------------------------------------------------------------------
\* Every step of the stream is a step of the contract, or changes nothing of it.
LEMMA ContractStep ==
    ASSUME IInv, [Next]_vars
    PROVE  [Contract!Next]_(Contract!contractVars)
<1> USE DEF streamVars, farVars, connVars, mainVars, history, Contract!contractVars
<1>a. /\ want \in Nat /\ high \in Nat /\ sent \in Nat /\ high <= sent
  BY DEF IInv, TypeOK, Progress
<1>1. ASSUME UNCHANGED <<want, high, answered, failed>> PROVE UNCHANGED Contract!contractVars
  BY <1>1
<1>2. ASSUME NEW n \in 1..MaxBatch, Issue(n) PROVE Contract!Next
  <2>1. n \in Nat \ {0} /\ high < want
    BY <1>2, <1>a, BoundsAssumption DEF Issue, InBatch
  <2>2. /\ want' = sent + 1 /\ high' = sent + 2 * n - 1
        /\ UNCHANGED <<answered, failed>>
    BY <1>2 DEF Issue
  <2>3. high' = want' + 2 * (n - 1) /\ want' > high
    BY <1>a, <2>1, <2>2
  <2> QED
    BY <2>1, <2>2, <2>3 DEF Contract!Next, Contract!Ask
<1>3. ASSUME NEW p \in Procs, FlushFails(p) PROVE [Contract!Next]_(Contract!contractVars)
  <2>1. CASE p = Main
    <3>1. want' = high + 2 /\ failed' = TRUE /\ UNCHANGED <<high, answered>>
      BY <1>3, <2>1 DEF FlushFails
    <3> QED
      BY <1>a, <3>1 DEF Contract!Next, Contract!Refuse
  <2>2. CASE p # Main
    BY <1>1, <1>3, <2>2 DEF FlushFails
  <2> QED
    BY <2>1, <2>2
<1>4. ASSUME NEW l, Return(l), l.answers = want, InBatch, failed => stalled, UNCHANGED high
      PROVE  Contract!Next
  <2>1. CASE stalled
    BY <1>4, <2>1 DEF Return, InBatch, Contract!Next, Contract!Fail
  <2>2. CASE ~stalled
    <3>1. answered'.answers = want /\ ~failed /\ failed' = failed /\ want' = want + 2
      BY <1>4, <2>2 DEF Return
    <3> QED
      BY <1>4, <3>1 DEF InBatch, Contract!Next, Contract!Reply
  <2> QED
    BY <2>1, <2>2
<1>5. CASE NextParked
  <2>1. InBatch /\ (parked.seq = want => parked.line.answers = want) /\ (failed => stalled)
    BY <1>5 DEF IInv, Progress, Failing, NextParked
  <2> QED
    BY <1>1, <1>4, <1>5, <2>1 DEF NextParked
<1>6. CASE NextRead
  <2>1. InBatch /\ Claimed(Line) = Line.answers /\ (failed => stalled)
    BY <1>6, ClaimRight DEF IInv, Progress, Failing, NextRead, Take
  <2> QED
    BY <1>1, <1>4, <1>6, <2>1 DEF NextRead
<1>7. CASE NextEOF
  <2>1. InBatch
    BY <1>7 DEF IInv, Progress, NextEOF
  <2> QED
    BY <1>7, <2>1 DEF NextEOF, InBatch, Contract!Next, Contract!Fail
<1>8. CASE FarEnd
  BY <1>1, <1>8 DEF FarEnd, RunCommand, RunBranch, Unasked, RemoteDrops, TransportEOF, Cut
<1>9. CASE Closing
  BY <1>1, <1>9 DEF Closing, Expire, MarkStalled, CloseBegins, CloseTransport, CloseStream
<1>10. ASSUME NEW s \in Senders, SenderStamp(s) PROVE UNCHANGED Contract!contractVars
  BY <1>1, <1>10 DEF SenderStamp
<1>11. ASSUME NEW p \in Procs, FlushOK(p) PROVE UNCHANGED Contract!contractVars
  BY <1>1, <1>11 DEF FlushOK
<1>12. CASE NextCall \/ ExecStart \/ ExecRead \/ ExecEnd \/ Settle \/ SelectRead
            \/ HelloRead \/ StreamEnded
  BY <1>1, <1>12 DEF NextCall, ExecStart, ExecRead, ExecEnd, Settle, SelectRead,
                     HelloRead, StreamEnded
<1>13. CASE UNCHANGED vars
  BY <1>1, <1>13 DEF vars
<1> QED
  BY <1>2, <1>3, <1>5, <1>6, <1>7, <1>8, <1>9, <1>10, <1>11, <1>12, <1>13
     DEF Next, Writing, MainStep

\* The stream implements the contract its callers program against.
THEOREM StreamKeepsContract == Spec => RoundTripContract
<1>1. Init => Contract!Init
  BY DEF Init, Contract!Init
<1>2. IInv /\ [Next]_vars => [Contract!Next]_(Contract!contractVars)
  BY ContractStep
<1> QED
  BY <1>1, <1>2, Invariance, PTL DEF Spec, RoundTripContract, Contract!Spec
====
