------------------------- MODULE AgreedParts_proofs -------------------------
(***************************************************************************)
(* Proofs about the parts of AgreedParts.                                  *)
(*                                                                         *)
(* The focus, for any panes, moves, keybinds and length of the queue of    *)
(* commanded panes.  Heals is far from inductive: it speaks of rest, and   *)
(* of one more move.  That no keybind's effect stays unread rests on where *)
(* its read stands among the commands and the lines (Reading).  That the   *)
(* next move finds nothing lasting rests on the two beliefs being true or  *)
(* about to be (Lately, Believed), and on no report settling a pane        *)
(* commanded after the move it reports (Traced): its witnesses, what was   *)
(* active at each line and the line each commanded pane answers to, are    *)
(* carried through every step.  Ended lists the places the last move can   *)
(* have come to.                                                           *)
(*                                                                         *)
(* The statuses, for any panes, windows, rows, changes, losses and failed  *)
(* listings.  Shipped too speaks of rest.  Flow and Placed say what the    *)
(* stream and the local objects can be; Files and Remembered, that what    *)
(* the shippers remember having written is there; Ordered, that the newest *)
(* value reported is on the stream, queued or applied.  PanesCovered and   *)
(* WinsCovered follow a full read: since the last one with nothing moved   *)
(* after it, a row the mirror does not show is on its way.                 *)
(***************************************************************************)
EXTENDS AgreedParts, Integers, FiniteSetTheorems, WellFoundedInduction, TLAPS

\* A set of numbers has a least.
LEMMA FocusLowest ==
    ASSUME NEW C \in SUBSET Nat, C # {}
    PROVE  \E n \in C : \A m \in C : n <= m
<1>1. PICK n \in C : \A m \in C : ~ (<<m, n>> \in OpToRel(<, Nat))
    BY NatLessThanWellFounded, WFMin
<1>2. ASSUME NEW m \in C PROVE n <= m
    <2>1. m \in Nat /\ n \in Nat /\ <<m, n>> \in Nat \X Nat
        OBVIOUS
    <2>2. ~ (m < n)
        BY <1>1, <2>1 DEF OpToRel
    <2>3. QED BY <2>1, <2>2
<1>3. QED BY <1>2

----------------------------------------------------------------------------
(* The panes' focus.                                                        *)

\* What the code justifies of the constants: there are panes, Null is none,
\* and one pane can be commanded.
FocusApart ==
    /\ FocusPanes # {} /\ Null \notin FocusPanes /\ Commanded \in Nat \ {0}
    /\ MaxFocus \in Nat /\ MaxOuter \in Nat /\ MaxBinds \in Nat

\* The commands and the lines, by their kinds.
LEMMA FocusKinded ==
    ASSUME NEW c \in F!Sent
    PROVE  /\ c[1] \in {"select", "moves", "keeps", "read"}
           /\ c[1] = "select" => c[2] \in FocusPanes /\ c = <<"select", c[2]>>
           /\ c[1] = "read" => c = <<"read">>
           /\ \A p : c = <<"select", p>> => c[1] = "select" /\ c[2] = p
BY DEF F!Sent

\* What a line of the stream is, by its kind.
LEMMA FocusLined ==
    ASSUME NEW c \in F!Told
    PROVE  /\ c[1] \in {"report", "layout"}
           /\ c[1] = "report" => c[2] \in FocusPanes
           /\ c[1] = "layout" => c[2] \in F!Windows
           /\ \A p : c = <<"report", p>> => c[1] = "report" /\ c[2] = p
           /\ \A w : c = <<"layout", w>> => c[1] = "layout" /\ c[2] = w
BY DEF F!Told

\* The first place of a pane among those commanded.
LEMMA FocusFirstPlace ==
    ASSUME NEW E, NEW s \in Seq(E), NEW p
    PROVE  LET at == F!SelectInSeq(s, LAMBDA q : q = p) IN
           /\ at = 0 => \A i \in 1..Len(s) : s[i] # p
           /\ at # 0 => at \in 1..Len(s) /\ s[at] = p
<1> DEFINE I == {i \in 1..Len(s) : s[i] = p}
<1>1. F!SelectInSeq(s, LAMBDA q : q = p) = IF I # {} THEN F!Min(I) ELSE 0
    BY DEF F!SelectInSeq
<1>2. I # {} => F!Min(I) \in I
    <2>1. I \in SUBSET Nat OBVIOUS
    <2> HIDE DEF I
    <2>2. I # {} => \E x \in I : \A y \in I : x <= y BY <2>1, FocusLowest
    <2>3. QED BY <2>2 DEF F!Min
<1>3. QED BY <1>1, <1>2

\* The place of the reply.
LEMMA FocusReplyPlace ==
    ASSUME NEW E, NEW s \in Seq(E)
    PROVE  LET at == F!SelectInSeq(s, LAMBDA l : l[1] = "layout") IN
           at > 0 => at \in 1..Len(s) /\ s[at][1] = "layout"
<1> DEFINE I == {i \in 1..Len(s) : s[i][1] = "layout"}
<1>1. F!SelectInSeq(s, LAMBDA l : l[1] = "layout") = IF I # {} THEN F!Min(I) ELSE 0
    BY DEF F!SelectInSeq
<1>2. I # {} => F!Min(I) \in I
    <2>1. I \in SUBSET Nat OBVIOUS
    <2> HIDE DEF I
    <2>2. I # {} => \E x \in I : \A y \in I : x <= y BY <2>1, FocusLowest
    <2>3. QED BY <2>2 DEF F!Min
<1>3. QED BY <1>1, <1>2

\* A line taken out of the middle.
LEMMA FocusTaken ==
    ASSUME NEW E, NEW s \in Seq(E), NEW i \in 1..Len(s)
    PROVE  /\ F!RemoveAt(s, i) \in Seq(E) /\ Len(F!RemoveAt(s, i)) = Len(s) - 1
           /\ \A k \in 1..(Len(s) - 1) : F!RemoveAt(s, i)[k] = IF k < i THEN s[k] ELSE s[k + 1]
<1> DEFINE a == SubSeq(s, 1, i - 1)
           b == SubSeq(s, i + 1, Len(s))
<1>1. /\ a \in Seq(E) /\ Len(a) = i - 1 /\ b \in Seq(E) /\ Len(b) = Len(s) - i
      /\ \A k \in 1..(i - 1) : a[k] = s[k]
      /\ \A k \in 1..(Len(s) - i) : b[k] = s[i + k]
    OBVIOUS
<1>2. F!RemoveAt(s, i) = a \o b
    BY DEF F!RemoveAt
<1> HIDE DEF a, b
<1>3. Len(a) \in Nat /\ Len(b) \in Nat /\ Len(s) \in Nat /\ Len(a) + Len(b) = Len(s) - 1
    BY <1>1
<1>4. a \o b \in Seq(E) /\ Len(a \o b) = Len(a) + Len(b)
    <2>1. a \in Seq(E) /\ b \in Seq(E) BY <1>1
    <2> HIDE <1>1, <1>2, <1>3
    <2>2. QED BY <2>1
<1>5. /\ \A k \in 1..Len(a) : (a \o b)[k] = a[k]
      /\ \A k \in 1..(Len(a) + Len(b)) : k > Len(a) => (a \o b)[k] = b[k - Len(a)]
    BY <1>1, <1>3
<1>6. ASSUME NEW k \in 1..(Len(s) - 1), k < i PROVE (a \o b)[k] = s[k]
    BY <1>1, <1>3, <1>5, <1>6
<1>7. ASSUME NEW k \in 1..(Len(s) - 1), ~ (k < i) PROVE (a \o b)[k] = s[k + 1]
    <2>1. k - (i - 1) \in 1..(Len(s) - i) /\ i + (k - (i - 1)) = k + 1 BY <1>7
    <2>2. (a \o b)[k] = b[k - (i - 1)]
        <3>1. k > Len(a) /\ k \in 1..(Len(a) + Len(b)) /\ k - (i - 1) = k - Len(a)
            BY <1>1, <1>3, <1>7
        <3>2. QED BY <1>5, <3>1
    <2>3. b[k - (i - 1)] = s[i + (k - (i - 1))] BY <1>1, <2>1
    <2>4. QED BY <2>1, <2>2, <2>3
<1> HIDE DEF F!RemoveAt
<1>8. QED BY <1>2, <1>3, <1>4, <1>6, <1>7

\* Sequences of the commands and of the lines.
LEMMA FocusSending ==
    ASSUME NEW s \in Seq(F!Sent), NEW p \in FocusPanes
    PROVE  /\ Append(s, <<"select", p>>) \in Seq(F!Sent) /\ Append(s, <<"moves">>) \in Seq(F!Sent)
           /\ Append(s, <<"keeps">>) \in Seq(F!Sent) /\ Append(s, <<"read">>) \in Seq(F!Sent)
<1>1. /\ <<"select", p>> \in F!Sent /\ <<"moves">> \in F!Sent /\ <<"keeps">> \in F!Sent
      /\ <<"read">> \in F!Sent
    BY DEF F!Sent
<1> HIDE DEF F!Sent
<1>2. QED BY <1>1

\* A report, or a reply, joins the lines.
LEMMA FocusTelling ==
    ASSUME NEW s \in Seq(F!Told), NEW p \in FocusPanes, NEW w \in F!Windows
    PROVE  Append(s, <<"report", p>>) \in Seq(F!Told) /\ Append(s, <<"layout", w>>) \in Seq(F!Told)
<1>1. <<"report", p>> \in F!Told /\ <<"layout", w>> \in F!Told
    BY DEF F!Told
<1> HIDE DEF F!Told
<1>2. QED BY <1>1

\* A pane of the remote's that a command made active.
LEMMA FocusMadeFacts ==
    ASSUME F!Typed, NEW c \in F!Sent, NEW r, F!Made(c, r)
    PROVE  /\ r \in F!Windows
           /\ c[1] = "select" => r.act = c[2] /\ r.order = v2.order /\ r.shape = v2.shape
           /\ c[1] # "read"
<1>1. v2 \in F!Windows BY DEF F!Typed
<1>2. CASE c[1] = "select" /\ r = [v2 EXCEPT !.act = c[2]]
    BY <1>1, <1>2, FocusKinded DEF F!Windows
<1>3. CASE /\ c[1] = "moves"
           /\ \E p \in FocusPanes : r = [act |-> p, order |-> v2.order + 1, shape |-> v2.shape + 1]
    BY <1>1, <1>3 DEF F!Windows
<1>4. CASE c[1] = "keeps" /\ r = [v2 EXCEPT !.shape = @ + 1]
    BY <1>1, <1>4 DEF F!Windows
<1>5. QED BY <1>2, <1>3, <1>4 DEF F!Made

\* What a selection changes.
LEMMA FocusSelectFacts ==
    ASSUME F!Typed, NEW p \in FocusPanes, F!Select(p)
    PROVE  /\ v1' \in F!Windows /\ v1'.act = p
           /\ v1'.order = v1.order /\ v1'.shape = v1.shape
           /\ v4' \in Nat /\ v3' \subseteq [pane : FocusPanes, seq : Nat]
           /\ p = v1.act => UNCHANGED <<v3, v4>>
           /\ p # v1.act => /\ v3' = v3 \union {[pane |-> p, seq |-> v4]}
                            /\ v4' = v4 + 1
<1>1. v1 \in F!Windows /\ v4 \in Nat /\ v3 \subseteq [pane : FocusPanes, seq : Nat]
    BY DEF F!Typed
<1>2. v1' = [v1 EXCEPT !.act = p]
    BY DEF F!Select
<1>3. v1' \in F!Windows /\ v1'.act = p /\ v1'.order = v1.order /\ v1'.shape = v1.shape
    BY <1>1, <1>2 DEF F!Windows
<1>4. [pane |-> p, seq |-> v4] \in [pane : FocusPanes, seq : Nat]
    BY <1>1
<1>5. QED BY <1>1, <1>3, <1>4 DEF F!Select

\* What is left of the users' moves.
LEMMA FocusMovesFacts ==
    ASSUME F!Typed, NEW who \in {"focus", "outer"}, F!Moves(who)
    PROVE  /\ DOMAIN v10' = {"focus", "outer", "keys", "last"}
           /\ \A a \in DOMAIN v10' : v10'[a] \in Nat
           /\ \/ v10[who] > 0 /\ v10'.last = v10.last
              \/ F!Quiet /\ v10.last > 0 /\ \A a \in DOMAIN v10' : v10'[a] = 0
<1> DEFINE four == {"focus", "outer", "keys", "last"}
<1>1. DOMAIN v10 = four /\ (\A a \in four : v10[a] \in Nat) /\ who \in four /\ who # "last"
    BY DEF F!Typed
<1>2. CASE v10[who] > 0 /\ v10' = [v10 EXCEPT ![who] = @ - 1]
    <2>1. DOMAIN v10' = four /\ v10[who] - 1 \in Nat BY <1>1, <1>2
    <2>2. \A a \in four : v10'[a] = IF a = who THEN v10[who] - 1 ELSE v10[a]
        BY <1>1, <1>2
    <2>3. v10'.last = v10.last BY <1>1, <2>2
    <2>4. \A a \in four : v10'[a] \in Nat BY <1>1, <2>1, <2>2
    <2>5. QED BY <1>2, <2>1, <2>3, <2>4
<1>3. CASE v10.last > 0 /\ F!Quiet /\ v10' = [a \in DOMAIN v10 |-> 0]
    BY <1>1, <1>3
<1>4. QED BY <1>2, <1>3 DEF F!Moves

\* A line taken at rest is a report.
LEMMA FocusLineFacts ==
    ASSUME F!Typed, F!Reading, F!Line
    PROVE  /\ v8 # <<>> /\ v8' = Tail(v8) /\ Len(v8) \in Nat \ {0}
           /\ v8[1][1] = "report" /\ Head(v8) = v8[1] /\ v8[1][2] \in FocusPanes
           /\ v8' \in Seq(F!Told) /\ Len(v8') = Len(v8) - 1
           /\ \A k \in 1..(Len(v8) - 1) : v8'[k] = v8[k + 1]
           /\ v5' = F!Reported(v5, v8[1][2])
           /\ \A i \in 1..Len(v8) : v8[i][1] = "report"
<1>1. v8 \in Seq(F!Told) /\ v8 # <<>> /\ v8' = Tail(v8) /\ v9.at = "rest"
    BY DEF F!Typed, F!Line
<1>2. /\ Len(v8) \in Nat \ {0} /\ Head(v8) = v8[1]
      /\ \A i \in 1..Len(v8) : v8[i] \in F!Told
    BY <1>1
<1>3. \A i \in 1..Len(v8) : v8[i][1] = "report"
    BY <1>1, <1>2, FocusLined DEF F!Reading, F!Answered
<1>4. v8[1][2] \in FocusPanes
    BY <1>2, <1>3, FocusLined
<1>5. /\ v8' \in Seq(F!Told) /\ Len(v8') = Len(v8) - 1
      /\ \A k \in 1..(Len(v8) - 1) : v8'[k] = v8[k + 1]
    BY <1>1, <1>2
<1>6. QED BY <1>1, <1>2, <1>3, <1>4, <1>5 DEF F!Line

\* What a report makes of the beliefs.
LEMMA FocusReportFacts ==
    ASSUME F!Typed, NEW p \in FocusPanes
    PROVE  /\ F!Reported(v5, p) \in
                [loc : FocusPanes, rem : FocusPanes \union {Null}, sent : Seq(FocusPanes),
                 seq : Nat]
           /\ F!Reported(v5, p).rem = p /\ F!Reported(v5, p).seq = v5.seq
           /\ \/ /\ ~ F!Follows(v5, p) /\ F!Reported(v5, p).loc = v5.loc
                 /\ \E j \in 1..Len(v5.sent) : /\ v5.sent[j] = p
                       /\ F!Reported(v5, p).sent = SubSeq(v5.sent, j + 1, Len(v5.sent))
              \/ /\ \A j \in 1..Len(v5.sent) : v5.sent[j] # p
                 /\ F!Reported(v5, p).sent = <<>> /\ F!Reported(v5, p).loc = p
                 /\ (F!Follows(v5, p) \/ p = v5.loc)
<1> DEFINE at == F!SelectInSeq(v5.sent, LAMBDA q : q = p)
<1>1. /\ v5 \in [loc : FocusPanes, rem : FocusPanes \union {Null}, sent : Seq(FocusPanes),
                 seq : Nat]
      /\ DOMAIN v5.sent = 1..Len(v5.sent) /\ Len(v5.sent) \in Nat
    BY DEF F!Typed
<1>2. /\ at = 0 => \A i \in 1..Len(v5.sent) : v5.sent[i] # p
      /\ at # 0 => at \in 1..Len(v5.sent) /\ v5.sent[at] = p
    BY <1>1, FocusFirstPlace
<1>3. F!Reported(v5, p) =
         IF at > 0 THEN [v5 EXCEPT !.rem = p, !.sent = SubSeq(v5.sent, at + 1, Len(v5.sent))]
         ELSE [[v5 EXCEPT !.rem = p, !.sent = <<>>] EXCEPT !.loc = p]
    BY DEF F!Reported, F!Unmatched
<1> HIDE DEF at
<1>4. CASE at = 0
    <2>1. F!Reported(v5, p) = [v5 EXCEPT !.rem = p, !.sent = <<>>, !.loc = p]
        BY <1>1, <1>3, <1>4
    <2>2. <<>> \in Seq(FocusPanes) OBVIOUS
    <2>3. \A j \in 1..Len(v5.sent) : v5.sent[j] # p BY <1>2, <1>4
    <2>4. F!Follows(v5, p) \/ p = v5.loc BY <1>1, <2>3 DEF F!Follows
    <2>5. QED BY <1>1, <2>1, <2>2, <2>3, <2>4
<1>5. CASE at # 0
    <2>1. at > 0 /\ SubSeq(v5.sent, at + 1, Len(v5.sent)) \in Seq(FocusPanes)
        BY <1>1, <1>2, <1>5
    <2>2. F!Reported(v5, p) =
            [v5 EXCEPT !.rem = p, !.sent = SubSeq(v5.sent, at + 1, Len(v5.sent))]
        BY <1>3, <2>1
    <2>3. ~ F!Follows(v5, p) BY <1>1, <1>2, <1>5 DEF F!Follows
    <2>4. QED BY <1>1, <1>2, <1>5, <2>1, <2>2, <2>3
<1>6. QED BY <1>4, <1>5

\* The reply of the read, and what is left of the stream.
LEMMA FocusReplyFacts ==
    ASSUME F!Typed, F!Reading, F!ReadReply
    PROVE  \E r \in 1..Len(v8) :
             /\ v9.at = "read" /\ v8[r][1] = "layout" /\ v8[r][2] \in F!Windows
             /\ Len(v8) \in Nat \ {0}
             /\ v8' \in Seq(F!Told) /\ Len(v8') = Len(v8) - 1
             /\ \A k \in 1..(Len(v8) - 1) :
                    v8'[k] = IF k < r THEN v8[k] ELSE v8[k + 1]
             /\ \A k \in 1..Len(v8) : k # r => v8[k][1] = "report"
             /\ v1' = [v1 EXCEPT !.order = v8[r][2].order, !.shape = v8[r][2].shape]
             /\ v9' = IF v8[r][2].order # v1.order
                      THEN [at |-> "note", pane |-> v8[r][2].act] ELSE F!Rest
<1> DEFINE at == F!SelectInSeq(v8, LAMBDA l : l[1] = "layout")
<1>1. v8 \in Seq(F!Told) BY DEF F!Typed
<1>2. at > 0 => at \in 1..Len(v8) /\ v8[at][1] = "layout"
    BY <1>1, FocusReplyPlace
<1>3. /\ v9.at = "read" /\ at > 0 /\ v8' = F!RemoveAt(v8, at)
      /\ v1' = [v1 EXCEPT !.order = v8[at][2].order, !.shape = v8[at][2].shape]
      /\ v9' = IF v8[at][2].order # v1.order
               THEN [at |-> "note", pane |-> v8[at][2].act] ELSE F!Rest
    BY DEF F!ReadReply
<1> HIDE DEF at
<1>4. \A i \in 1..Len(v8) : v8[i] \in F!Told /\ Len(v8) \in Nat \ {0}
    BY <1>1
<1>5. v8[at][2] \in F!Windows
    BY <1>2, <1>3, <1>4, FocusLined
<1>6. \A k \in 1..Len(v8) : k # at => v8[k][1] = "report"
    <2>1. DOMAIN v8 = 1..Len(v8) BY <1>1
    <2>2. \A k \in 1..Len(v8) : k # at => v8[k][1] # "layout"
        BY <1>2, <1>3, <2>1 DEF F!Reading, F!Answered
    <2>3. QED BY <1>4, <2>2, FocusLined
<1>7. /\ v8' \in Seq(F!Told) /\ Len(v8') = Len(v8) - 1
      /\ \A k \in 1..(Len(v8) - 1) : v8'[k] = IF k < at THEN v8[k] ELSE v8[k + 1]
    BY <1>1, <1>2, <1>3, FocusTaken
<1>8. QED BY <1>2, <1>3, <1>4, <1>5, <1>6, <1>7

\* What is left of the keybinds.
LEMMA FocusKeyFacts ==
    ASSUME F!Typed, v10.keys > 0, v10' = [v10 EXCEPT !.keys = @ - 1]
    PROVE  /\ DOMAIN v10' = {"focus", "outer", "keys", "last"}
           /\ \A a \in DOMAIN v10' : v10'[a] \in Nat
           /\ v10'.last = v10.last
<1> DEFINE four == {"focus", "outer", "keys", "last"}
<1>1. DOMAIN v10 = four /\ (\A a \in four : v10[a] \in Nat)
    BY DEF F!Typed
<1>2. DOMAIN v10' = four /\ v10["keys"] - 1 \in Nat BY <1>1
<1>3. \A a \in four : v10'[a] = IF a = "keys" THEN v10["keys"] - 1 ELSE v10[a] BY <1>1
<1>4. v10'.last = v10.last BY <1>3
<1>5. \A a \in four : v10'[a] \in Nat BY <1>1, <1>2, <1>3
<1>6. QED BY <1>2, <1>4, <1>5

\* The types are kept.
LEMMA FocusTypedKeeps == ASSUME FocusApart, F!Typed, F!Reading, F!Next PROVE F!Typed'
<1> USE DEF FocusApart
<1>0. /\ v1 \in F!Windows /\ v2 \in F!Windows
      /\ v3 \subseteq [pane : FocusPanes, seq : Nat] /\ v4 \in Nat /\ v6 \in BOOLEAN
      /\ v5 \in [loc : FocusPanes, rem : FocusPanes \union {Null}, sent : Seq(FocusPanes),
                 seq : Nat]
      /\ v7 \in Seq(F!Sent) /\ v8 \in Seq(F!Told)
    BY DEF F!Typed
<1>1. ASSUME NEW p \in FocusPanes, F!UserFocus(p) PROVE F!Typed'
    <2>1. v1' \in F!Windows /\ v3' \subseteq [pane : FocusPanes, seq : Nat] /\ v4' \in Nat
        BY <1>1, FocusSelectFacts DEF F!UserFocus
    <2>2. /\ DOMAIN v10' = {"focus", "outer", "keys", "last"}
          /\ \A a \in DOMAIN v10' : v10'[a] \in Nat
        BY <1>1, FocusMovesFacts DEF F!UserFocus
    <2>3. QED BY <2>1, <2>2, <1>1 DEF F!UserFocus, F!Typed
<1>2. ASSUME NEW p \in FocusPanes, F!OuterFocus(p) PROVE F!Typed'
    <2>1. v2' \in F!Windows BY <1>0, <1>2 DEF F!OuterFocus, F!Windows
    <2>2. /\ DOMAIN v10' = {"focus", "outer", "keys", "last"}
          /\ \A a \in DOMAIN v10' : v10'[a] \in Nat
        BY <1>2, FocusMovesFacts DEF F!OuterFocus
    <2>3. v8' \in Seq(F!Told) BY <1>0, <1>2, FocusTelling DEF F!OuterFocus
    <2>4. QED BY <2>1, <2>2, <2>3, <1>2 DEF F!OuterFocus, F!Typed
<1>3. ASSUME NEW k \in F!Kinds, F!Key(k) PROVE F!Typed'
    <2>1. v5' \in [loc : FocusPanes, rem : FocusPanes \union {Null}, sent : Seq(FocusPanes),
                   seq : Nat]
        BY <1>0, <1>3 DEF F!Key, F!Forgets
    <2>2. /\ DOMAIN v10' = {"focus", "outer", "keys", "last"}
          /\ \A a \in DOMAIN v10' : v10'[a] \in Nat
        BY <1>3, FocusKeyFacts DEF F!Key
    <2>3. v7' \in Seq(F!Sent)
        <3>1. PICK p \in FocusPanes : TRUE OBVIOUS
        <3>2. QED BY <1>0, <1>3, <3>1, FocusSending DEF F!Key, F!Kinds
    <2>4. v6' \in BOOLEAN BY <1>3 DEF F!Key, F!Intends
    <2>5. QED BY <2>1, <2>2, <2>3, <2>4, <1>3 DEF F!Key, F!Typed
<1>4. CASE F!RemoteRuns
    <2>1. v7 # <<>> /\ v7' = Tail(v7) /\ Head(v7) \in F!Sent BY <1>0, <1>4 DEF F!RemoteRuns
    <2>2. v7' \in Seq(F!Sent) BY <1>0, <2>1
    <2>3. v2' \in F!Windows
        BY <1>0, <1>4, <2>1, FocusMadeFacts DEF F!RemoteRuns
    <2>4. v8' \in Seq(F!Told)
        BY <1>0, <1>4, FocusTelling DEF F!RemoteRuns
    <2>5. QED BY <1>4, <2>2, <2>3, <2>4 DEF F!RemoteRuns, F!Typed
<1>5. ASSUME NEW h \in v3, F!Hook(h) PROVE F!Typed'
    <2>1. h.pane \in FocusPanes /\ h.seq \in Nat /\ F!Stamp(h) = h.seq BY <1>0 DEF F!Stamp
    <2>2. v5' \in [loc : FocusPanes, rem : FocusPanes \union {Null}, sent : Seq(FocusPanes),
                   seq : Nat]
        <3> DEFINE rest == IF Len(v5.sent) >= Commanded THEN Tail(v5.sent) ELSE v5.sent
        <3>1. rest \in Seq(FocusPanes)
            <4>1. Len(v5.sent) >= Commanded => v5.sent # <<>> BY <1>0
            <4>2. QED BY <1>0, <4>1
        <3>2. v5' = IF h.seq <= v5.seq THEN v5
                     ELSE [loc |-> h.pane, rem |-> h.pane, seq |-> h.seq,
                           sent |-> IF v5.rem = h.pane THEN v5.sent ELSE Append(rest, h.pane)]
            BY <1>5, <2>1 DEF F!Hook, F!Planned
        <3> HIDE DEF rest
        <3>3. Append(rest, h.pane) \in Seq(FocusPanes) BY <3>1, <2>1
        <3>4. QED BY <1>0, <2>1, <3>2, <3>3
    <2>3. v7' \in Seq(F!Sent) BY <1>0, <1>5, <2>1, FocusSending DEF F!Hook
    <2>4. v3' \subseteq v3 /\ v4' = v4 BY <1>5 DEF F!Hook
    <2>5. QED BY <2>2, <2>3, <2>4, <1>5 DEF F!Hook, F!Typed
<1>6. CASE F!Line
    <2>1. v8[1][2] \in FocusPanes /\ v8' \in Seq(F!Told) /\ v5' = F!Reported(v5, v8[1][2])
          /\ Head(v8) = v8[1]
        BY <1>6, FocusLineFacts
    <2>2. v5' \in [loc : FocusPanes, rem : FocusPanes \union {Null}, sent : Seq(FocusPanes),
                   seq : Nat]
        BY <2>1, FocusReportFacts
    <2>3. v9' \in {v9, [at |-> "note", pane |-> v8[1][2]]}
        BY <1>6, <2>1 DEF F!Line
    <2>4. /\ DOMAIN v9' = {"at", "pane"} /\ v9'.at \in {"rest", "read", "note", "select"}
          /\ v9'.at \in {"note", "select"} => v9'.pane \in FocusPanes
          /\ v9'.at = "rest" => v9' = F!Rest
        <3>1. CASE v9' = v9 BY <3>1 DEF F!Typed
        <3>2. CASE v9' = [at |-> "note", pane |-> v8[1][2]] BY <2>1, <3>2
        <3>3. QED BY <2>3, <3>1, <3>2
    <2>5. QED BY <1>6, <2>1, <2>2, <2>4 DEF F!Line, F!Typed
<1>7. CASE F!Take
    <2>1. v7' \in Seq(F!Sent)
        <3>1. PICK p \in FocusPanes : TRUE OBVIOUS
        <3>2. QED BY <1>0, <1>7, <3>1, FocusSending DEF F!Take
    <2>2. QED BY <1>7, <2>1 DEF F!Take, F!Typed, F!Rest
<1>8. CASE F!ReadReply
    <2>1. PICK r \in 1..Len(v8) :
             /\ v8[r][2] \in F!Windows /\ v8' \in Seq(F!Told)
             /\ v1' = [v1 EXCEPT !.order = v8[r][2].order, !.shape = v8[r][2].shape]
             /\ v9' = IF v8[r][2].order # v1.order
                      THEN [at |-> "note", pane |-> v8[r][2].act] ELSE F!Rest
        BY <1>8, FocusReplyFacts
    <2>2. v1' \in F!Windows BY <1>0, <2>1 DEF F!Windows
    <2>3. /\ DOMAIN v9' = {"at", "pane"} /\ v9'.at \in {"rest", "read", "note", "select"}
          /\ v9'.at \in {"note", "select"} => v9'.pane \in FocusPanes
          /\ v9'.at = "rest" => v9' = F!Rest
        <3>1. v8[r][2].act \in FocusPanes BY <2>1 DEF F!Windows
        <3>2. QED BY <2>1, <3>1 DEF F!Rest
    <2>4. QED BY <1>8, <2>1, <2>2, <2>3 DEF F!ReadReply, F!Typed
<1>9. CASE F!Note
    <2>1. v5' \in [loc : FocusPanes, rem : FocusPanes \union {Null}, sent : Seq(FocusPanes),
                   seq : Nat]
        BY <1>0, <1>9 DEF F!Note, F!Noted, F!Typed
    <2>2. QED BY <2>1, <1>9 DEF F!Note, F!Typed
<1>10. CASE F!Focus
    <2>1. v9.pane \in FocusPanes BY <1>10 DEF F!Focus, F!Typed
    <2>2. v1' \in F!Windows /\ v3' \subseteq [pane : FocusPanes, seq : Nat] /\ v4' \in Nat
        BY <1>10, <2>1, FocusSelectFacts DEF F!Focus
    <2>3. QED BY <2>2, <1>10 DEF F!Focus, F!Typed, F!Rest
<1>11. QED BY <1>1, <1>2, <1>3, <1>4, <1>5, <1>6, <1>7, <1>8, <1>9, <1>10 DEF F!Next

\* A sequence and one more.
LEMMA FocusGrown ==
    ASSUME NEW E, NEW s \in Seq(E), NEW e \in E
    PROVE  /\ Append(s, e) \in Seq(E) /\ Len(Append(s, e)) = Len(s) + 1 /\ Len(s) \in Nat
           /\ DOMAIN Append(s, e) = 1..(Len(s) + 1)
           /\ \A i \in 1..Len(s) : Append(s, e)[i] = s[i]
           /\ Append(s, e)[Len(s) + 1] = e
OBVIOUS

\* A command more on its way.
LEMMA FocusOneMoreOut ==
    ASSUME F!Typed, NEW c \in F!Sent, v7' = Append(v7, c)
    PROVE  /\ Len(v7) \in Nat /\ Len(v7') = Len(v7) + 1
           /\ DOMAIN v7 = 1..Len(v7) /\ DOMAIN v7' = 1..(Len(v7) + 1)
           /\ \A i \in 1..Len(v7) : v7'[i] = v7[i] /\ i \in DOMAIN v7'
           /\ v7'[Len(v7) + 1] = c
<1>1. v7 \in Seq(F!Sent) /\ DOMAIN v7 = 1..Len(v7) /\ Len(v7) \in Nat BY DEF F!Typed
<1> HIDE DEF F!Sent
<1>2. QED BY <1>1, FocusGrown

\* A line more on the stream.
LEMMA FocusOneMoreLine ==
    ASSUME F!Typed, NEW c \in F!Told, v8' = Append(v8, c)
    PROVE  /\ Len(v8) \in Nat /\ Len(v8') = Len(v8) + 1
           /\ DOMAIN v8 = 1..Len(v8) /\ DOMAIN v8' = 1..(Len(v8) + 1)
           /\ \A i \in 1..Len(v8) : v8'[i] = v8[i] /\ i \in DOMAIN v8'
           /\ v8'[Len(v8) + 1] = c
<1>1. v8 \in Seq(F!Told) /\ DOMAIN v8 = 1..Len(v8) /\ Len(v8) \in Nat BY DEF F!Typed
<1> HIDE DEF F!Told
<1>2. QED BY <1>1, FocusGrown

\* The remote runs a command: the read is answered, a pane that becomes active
\* is reported.
LEMMA FocusRunFacts ==
    ASSUME F!Typed, F!RemoteRuns
    PROVE  /\ Len(v7) \in Nat \ {0} /\ v7[1] \in F!Sent
           /\ Len(v7') = Len(v7) - 1 /\ \A k \in 1..(Len(v7) - 1) : v7'[k] = v7[k + 1]
           /\ v7[1][1] \notin F!Kinds => v2'.order = v2.order /\ v2'.shape = v2.shape
           /\ \A p \in FocusPanes : v7[1] = <<"select", p>> => v2'.act = p
           /\ \/ /\ v7[1] = <<"read">> /\ v2' = v2
                 /\ v8' = Append(v8, <<"layout", v2>>)
              \/ /\ v7[1][1] # "read" /\ v2'.act = v2.act /\ v8' = v8
              \/ /\ v7[1][1] # "read" /\ v2'.act # v2.act /\ v2'.act \in FocusPanes
                 /\ v8' = Append(v8, <<"report", v2'.act>>)
<1>1. v7 \in Seq(F!Sent) /\ v2 \in F!Windows BY DEF F!Typed
<1>2. v7 # <<>> /\ v7' = Tail(v7) BY DEF F!RemoteRuns
<1>3. Len(v7) \in Nat \ {0} /\ v7[1] \in F!Sent /\ Head(v7) = v7[1] BY <1>1, <1>2
<1>4. Len(v7') = Len(v7) - 1 /\ \A k \in 1..(Len(v7) - 1) : v7'[k] = v7[k + 1]
    BY <1>1, <1>2
<1>5. CASE v7[1][1] = "read" /\ UNCHANGED v2 /\ v8' = Append(v8, <<"layout", v2>>)
    <2>1. v7[1] = <<"read">> /\ \A p \in FocusPanes : v7[1] # <<"select", p>>
        BY <1>3, <1>5, FocusKinded
    <2>2. QED BY <1>3, <1>4, <1>5, <2>1
<1>6. ASSUME NEW p \in FocusPanes, NEW o \in 0..MaxBinds, NEW s \in 0..MaxBinds,
             v2' = [act |-> p, order |-> o, shape |-> s], F!Made(v7[1], v2'),
             v8' = IF p = v2.act THEN v8 ELSE Append(v8, <<"report", p>>)
      PROVE  /\ v7[1][1] \notin F!Kinds => v2'.order = v2.order /\ v2'.shape = v2.shape
             /\ \A q \in FocusPanes : v7[1] = <<"select", q>> => v2'.act = q
             /\ v7[1][1] # "read"
             /\ \/ v2'.act = v2.act /\ v8' = v8
                \/ /\ v2'.act # v2.act /\ v2'.act \in FocusPanes
                   /\ v8' = Append(v8, <<"report", v2'.act>>)
    <2>1. /\ v7[1][1] = "select" =>
               v2'.act = v7[1][2] /\ v2'.order = v2.order /\ v2'.shape = v2.shape
          /\ v7[1][1] # "read"
        BY <1>3, <1>6, FocusMadeFacts
    <2>2. v7[1][1] \in {"select", "moves", "keeps", "read"} BY <1>3, FocusKinded
    <2>3. v7[1][1] \notin F!Kinds => v7[1][1] = "select" BY <2>1, <2>2 DEF F!Kinds
    <2>4. \A q \in FocusPanes : v7[1] = <<"select", q>> => v7[1][1] = "select" /\ v7[1][2] = q
        BY <1>3, FocusKinded
    <2>5. v2'.act = p BY <1>6
    <2>6. QED BY <1>6, <2>1, <2>3, <2>4, <2>5
<1>7. QED BY <1>3, <1>4, <1>5, <1>6 DEF F!RemoteRuns

\* Nothing of a read has changed.
LEMMA FocusReadingSame ==
    ASSUME F!Typed, F!Reading,
           UNCHANGED v7 \/ \E p \in FocusPanes : v7' = Append(v7, <<"select", p>>),
           UNCHANGED v8 \/ \E p \in FocusPanes : v8' = Append(v8, <<"report", p>>),
           UNCHANGED v6, v2'.order = v2.order, v2'.shape = v2.shape,
           v1'.order = v1.order, v1'.shape = v1.shape,
           v9'.at = "read" <=> v9.at = "read"
    PROVE  F!Reading'
<1>1. /\ v7 \in Seq(F!Sent) /\ v8 \in Seq(F!Told)
      /\ DOMAIN v7 = 1..Len(v7) /\ DOMAIN v8 = 1..Len(v8)
      /\ Len(v7) \in Nat /\ Len(v8) \in Nat
    BY DEF F!Typed
<1>2. /\ DOMAIN v7' \in {1..Len(v7), 1..(Len(v7) + 1)}
      /\ \A i \in 1..Len(v7) : v7'[i] = v7[i] /\ i \in DOMAIN v7'
      /\ \A i \in DOMAIN v7' : i \notin 1..Len(v7) => v7'[i][1] = "select"
    <2>1. CASE UNCHANGED v7 BY <1>1, <2>1
    <2>2. ASSUME NEW p \in FocusPanes, v7' = Append(v7, <<"select", p>>) 
          PROVE  /\ DOMAIN v7' = 1..(Len(v7) + 1)
                 /\ \A i \in 1..Len(v7) : v7'[i] = v7[i] /\ i \in DOMAIN v7'
                 /\ v7'[Len(v7) + 1] = <<"select", p>>
        <3>1. <<"select", p>> \in F!Sent BY DEF F!Sent
        <3>2. QED BY <2>2, <3>1, FocusOneMoreOut
    <2>3. QED BY <2>1, <2>2
<1>3. /\ DOMAIN v8' \in {1..Len(v8), 1..(Len(v8) + 1)}
      /\ \A i \in 1..Len(v8) : v8'[i] = v8[i] /\ i \in DOMAIN v8'
      /\ \A i \in DOMAIN v8' : i \notin 1..Len(v8) => v8'[i][1] = "report"
    <2>1. CASE UNCHANGED v8 BY <1>1, <2>1
    <2>2. ASSUME NEW p \in FocusPanes, v8' = Append(v8, <<"report", p>>) 
          PROVE  /\ DOMAIN v8' = 1..(Len(v8) + 1)
                 /\ \A i \in 1..Len(v8) : v8'[i] = v8[i] /\ i \in DOMAIN v8'
                 /\ v8'[Len(v8) + 1] = <<"report", p>>
        <3>1. <<"report", p>> \in F!Told BY DEF F!Told
        <3>2. QED BY <2>2, <3>1, FocusOneMoreLine
    <2>3. QED BY <2>1, <2>2
<1>4. \A i \in DOMAIN v7' : v7'[i][1] \in F!Kinds \union {"read"} =>
            i \in DOMAIN v7 /\ v7'[i] = v7[i]
    BY <1>1, <1>2 DEF F!Kinds
<1>5. \A i \in DOMAIN v8' : v8'[i][1] = "layout" =>
            i \in DOMAIN v8 /\ v8'[i] = v8[i]
    BY <1>1, <1>3
<1>6. DOMAIN v7 \subseteq DOMAIN v7' /\ DOMAIN v8 \subseteq DOMAIN v8'
    BY <1>1, <1>2, <1>3
<1>7. (\A i \in DOMAIN v7 : v7[i][1] \in F!Kinds =>
            v6 \/ \E j \in DOMAIN v7 : i < j /\ F!Asked(j))'
    <2> SUFFICES ASSUME NEW i \in DOMAIN v7', v7'[i][1] \in F!Kinds, ~ v6
                 PROVE  \E j \in DOMAIN v7' : i < j /\ v7'[j][1] = "read"
        BY DEF F!Asked
    <2>1. i \in DOMAIN v7 /\ v7[i][1] \in F!Kinds BY <1>4
    <2>2. PICK j \in DOMAIN v7 : i < j /\ v7[j][1] = "read" BY <2>1 DEF F!Reading, F!Asked
    <2>3. j \in DOMAIN v7' /\ v7'[j] = v7[j] BY <1>1, <1>2, <1>6
    <2>4. QED BY <2>2, <2>3
<1>8. (\A j \in DOMAIN v8 : F!Answered(j) =>
          v6 \/ (v8[j][2].order = v2.order /\ v8[j][2].shape = v2.shape))'
    BY <1>5 DEF F!Reading, F!Answered
<1>9. (\/ (v1.order = v2.order /\ v1.shape = v2.shape)
       \/ v6
       \/ (\E i \in DOMAIN v7 : F!Asked(i))
       \/ \E j \in DOMAIN v8 : F!Answered(j))'
    BY <1>1, <1>2, <1>3, <1>6 DEF F!Reading, F!Asked, F!Answered
<1>10. QED BY <1>4, <1>5, <1>7, <1>8, <1>9 DEF F!Reading, F!Asked, F!Answered

\* A keybind: its intent will have the window read.
LEMMA FocusKeyReading == ASSUME FocusApart, F!Typed, F!Reading, NEW k \in F!Kinds, F!Key(k)
    PROVE F!Reading'
<1>1. <<k>> \in F!Sent /\ <<k>>[1] = k /\ k # "read" BY DEF F!Kinds, F!Sent
<1>2. /\ Len(v7) \in Nat /\ DOMAIN v7 = 1..Len(v7) /\ DOMAIN v7' = 1..(Len(v7) + 1)
      /\ \A i \in 1..Len(v7) : v7'[i] = v7[i] /\ i \in DOMAIN v7'
      /\ v7'[Len(v7) + 1] = <<k>>
    BY <1>1, FocusOneMoreOut DEF F!Key
<1>3. v6' /\ UNCHANGED <<v1, v2, v8, v9>> BY DEF F!Key, F!Intends
<1>4. \A i \in DOMAIN v7' : v7'[i][1] = "read" => i \in DOMAIN v7 /\ v7'[i] = v7[i]
    BY <1>1, <1>2
<1>5. QED BY <1>3, <1>4 DEF F!Reading, F!Asked, F!Answered

\* The intent is taken: the read goes out behind every keybind so far.
LEMMA FocusTakeReading == ASSUME FocusApart, F!Typed, F!Reading, F!Take PROVE F!Reading'
<1>1. <<"read">> \in F!Sent BY DEF F!Sent
<1>2. /\ Len(v7) \in Nat /\ DOMAIN v7 = 1..Len(v7) /\ DOMAIN v7' = 1..(Len(v7) + 1)
      /\ \A i \in 1..Len(v7) : v7'[i] = v7[i] /\ i \in DOMAIN v7'
      /\ v7'[Len(v7) + 1] = <<"read">>
    BY <1>1, FocusOneMoreOut DEF F!Take
<1>3. v9.at = "rest" /\ v9'.at = "read" /\ UNCHANGED <<v1, v2, v8>>
    BY DEF F!Take, F!Rest
<1>4. \A i \in DOMAIN v8 : v8[i][1] # "layout" BY <1>3 DEF F!Reading, F!Answered
<1>5. \A i \in DOMAIN v7' : v7'[i][1] = "read" <=> i = Len(v7) + 1
    BY <1>2, <1>3 DEF F!Reading, F!Asked
<1>6. \A i \in DOMAIN v7' : v7'[i][1] \in F!Kinds => i < Len(v7) + 1
    BY <1>2, <1>5 DEF F!Kinds
<1>7. Len(v7) + 1 \in DOMAIN v7' BY <1>2
<1>8. QED BY <1>3, <1>4, <1>5, <1>6, <1>7 DEF F!Reading, F!Asked, F!Answered

\* A report is met.
LEMMA FocusLineReading == ASSUME FocusApart, F!Typed, F!Reading, F!Line PROVE F!Reading'
<1>1. UNCHANGED <<v7, v6, v2, v1>> /\ v9.at = "rest" /\ v9'.at # "read"
    BY DEF F!Line
<1>2. v8' \in Seq(F!Told) /\ \A i \in DOMAIN v8' : v8'[i][1] = "report"
    <2>1. /\ v8' \in Seq(F!Told) /\ Len(v8') = Len(v8) - 1 /\ Len(v8) \in Nat
          /\ \A k \in 1..(Len(v8) - 1) : v8'[k] = v8[k + 1]
          /\ \A i \in 1..Len(v8) : v8[i][1] = "report"
        BY FocusLineFacts
    <2>2. DOMAIN v8' = 1..(Len(v8) - 1) BY <2>1
    <2>3. \A k \in 1..(Len(v8) - 1) : k + 1 \in 1..Len(v8) BY <2>1
    <2>4. QED BY <2>1, <2>2, <2>3
<1>3. \A i \in DOMAIN v8' : v8'[i][1] # "layout" BY <1>2
<1>4. \A i \in DOMAIN v7 : ~ F!Asked(i) BY <1>1 DEF F!Reading
<1>5. \A i \in DOMAIN v8 : ~ F!Answered(i) BY <1>1 DEF F!Reading
<1>6. QED BY <1>1, <1>3, <1>4, <1>5 DEF F!Reading, F!Asked, F!Answered

\* The reply is met: the local window is what was read.
LEMMA FocusReplyReading == ASSUME FocusApart, F!Typed, F!Reading, F!ReadReply PROVE F!Reading'
<1>1. PICK r \in 1..Len(v8) :
         /\ v9.at = "read" /\ v8[r][1] = "layout" /\ v8[r][2] \in F!Windows
         /\ Len(v8) \in Nat \ {0}
         /\ v8' \in Seq(F!Told) /\ Len(v8') = Len(v8) - 1
         /\ \A k \in 1..(Len(v8) - 1) : v8'[k] = IF k < r THEN v8[k] ELSE v8[k + 1]
         /\ \A k \in 1..Len(v8) : k # r => v8[k][1] = "report"
         /\ v1' = [v1 EXCEPT !.order = v8[r][2].order, !.shape = v8[r][2].shape]
         /\ v9' = IF v8[r][2].order # v1.order
                  THEN [at |-> "note", pane |-> v8[r][2].act] ELSE F!Rest
    BY FocusReplyFacts
<1>2. UNCHANGED <<v7, v6, v2>> /\ v9'.at # "read"
    BY <1>1 DEF F!ReadReply, F!Rest
<1>3. \A i \in DOMAIN v8' : v8'[i][1] # "layout"
    <2>1. DOMAIN v8' = 1..(Len(v8) - 1) BY <1>1
    <2>2. \A k \in 1..(Len(v8) - 1) :
             /\ k \in 1..Len(v8) /\ k + 1 \in 1..Len(v8)
             /\ k < r => k # r
             /\ ~ (k < r) => k + 1 # r
        BY <1>1
    <2>3. QED BY <1>1, <2>1, <2>2
<1>4. r \in DOMAIN v8 /\ F!Answered(r) BY <1>1 DEF F!Typed, F!Answered
<1>5. \A i \in DOMAIN v7 : ~ F!Asked(i) BY <1>4 DEF F!Reading
<1>6. v6 \/ (v8[r][2].order = v2.order /\ v8[r][2].shape = v2.shape)
    BY <1>4 DEF F!Reading
<1>7. v1'.order = v8[r][2].order /\ v1'.shape = v8[r][2].shape
    BY <1>1 DEF F!Typed, F!Windows
<1>8. QED BY <1>2, <1>3, <1>5, <1>6, <1>7 DEF F!Reading, F!Asked, F!Answered

\* The remote runs a command: what a keybind does is not read before.
LEMMA FocusRunsReading == ASSUME FocusApart, F!Typed, F!Reading, F!RemoteRuns PROVE F!Reading'
<1>1. /\ Len(v7) \in Nat \ {0} /\ v7[1] \in F!Sent
      /\ Len(v7') = Len(v7) - 1 /\ \A k \in 1..(Len(v7) - 1) : v7'[k] = v7[k + 1]
      /\ v7[1][1] \notin F!Kinds => v2'.order = v2.order /\ v2'.shape = v2.shape
      /\ \/ /\ v7[1] = <<"read">> /\ v2' = v2
            /\ v8' = Append(v8, <<"layout", v2>>)
         \/ /\ v7[1][1] # "read" /\ v2'.act = v2.act /\ v8' = v8
         \/ /\ v7[1][1] # "read" /\ v2'.act # v2.act /\ v2'.act \in FocusPanes
            /\ v8' = Append(v8, <<"report", v2'.act>>)
    BY FocusRunFacts
<1>2. UNCHANGED <<v1, v6, v9>> BY DEF F!RemoteRuns
<1>3. DOMAIN v7 = 1..Len(v7) /\ DOMAIN v7' = 1..(Len(v7) - 1) /\ 1 \in DOMAIN v7
    <2>1. v7' \in Seq(F!Sent)
        <3>1. v7 \in Seq(F!Sent) BY DEF F!Typed
        <3>2. v7' = Tail(v7) /\ v7 # <<>> BY DEF F!RemoteRuns
        <3>3. QED BY <3>1, <3>2
    <2>2. QED BY <1>1, <2>1 DEF F!Typed
<1>4. \A i \in DOMAIN v7' : i + 1 \in DOMAIN v7 /\ v7'[i] = v7[i + 1]
    BY <1>1, <1>3
<1>5. \A i \in DOMAIN v7 : i # 1 => i - 1 \in DOMAIN v7' /\ v7'[i - 1] = v7[i]
    <2> SUFFICES ASSUME NEW i \in DOMAIN v7, i # 1
                 PROVE  i - 1 \in DOMAIN v7' /\ v7'[i - 1] = v7[i]
        OBVIOUS
    <2>1. i - 1 \in 1..(Len(v7) - 1) /\ (i - 1) + 1 = i BY <1>1, <1>3
    <2>2. QED BY <1>3, <1>4, <2>1
<1>6. \A i \in DOMAIN v7' : v7'[i][1] \in F!Kinds =>
         v6 \/ \E j \in DOMAIN v7' : i < j /\ v7'[j][1] = "read"
    <2> SUFFICES ASSUME NEW i \in DOMAIN v7', v7'[i][1] \in F!Kinds, ~ v6
                 PROVE  \E j \in DOMAIN v7' : i < j /\ v7'[j][1] = "read"
        OBVIOUS
    <2>1. i + 1 \in DOMAIN v7 /\ v7[i + 1][1] \in F!Kinds BY <1>4
    <2>2. PICK j \in DOMAIN v7 : i + 1 < j /\ v7[j][1] = "read" BY <2>1 DEF F!Reading, F!Asked
    <2>3. j # 1 /\ i < j - 1 BY <1>1, <1>3, <2>2
    <2>4. QED BY <1>5, <2>2, <2>3
<1>7. /\ \A i \in DOMAIN v7' : v7'[i][1] = "read" => v9.at = "read"
      /\ \A i, j \in DOMAIN v7' : v7'[i][1] = "read" /\ v7'[j][1] = "read" => i = j
    <2>1. \A i \in DOMAIN v7 : v7[i][1] = "read" => v9.at = "read" BY DEF F!Reading, F!Asked
    <2>2. \A i, j \in DOMAIN v7 : v7[i][1] = "read" /\ v7[j][1] = "read" => i = j
        BY DEF F!Reading, F!Asked
    <2>3. \A i, j \in DOMAIN v7' : i + 1 = j + 1 => i = j BY <1>1, <1>3
    <2>4. QED BY <1>4, <2>1, <2>2, <2>3
<1>8. CASE v7[1] = <<"read">>
    <2>1. v2' = v2 /\ v8' = Append(v8, <<"layout", v2>>) BY <1>1, <1>8
    <2>2. v7[1][1] = "read" BY <1>8
    <2>3. \A i \in DOMAIN v8 : v8[i][1] # "layout"
        BY <1>3, <2>2 DEF F!Reading, F!Asked, F!Answered
    <2>4. \A i \in DOMAIN v7' : v7'[i][1] # "read"
        <3>1. \A i \in DOMAIN v7' : i + 1 # 1 BY <1>1, <1>3
        <3>2. QED BY <1>3, <1>4, <2>2, <3>1 DEF F!Reading, F!Asked
    <2>5. <<"layout", v2>> \in F!Told BY DEF F!Told, F!Typed
    <2>6. /\ Len(v8) \in Nat /\ DOMAIN v8 = 1..Len(v8)
          /\ DOMAIN v8' = 1..(Len(v8) + 1)
          /\ \A i \in 1..Len(v8) : v8'[i] = v8[i] /\ i \in DOMAIN v8'
          /\ v8'[Len(v8) + 1] = <<"layout", v2>>
        BY <2>1, <2>5, FocusOneMoreLine
    <2>7. \A i \in DOMAIN v8' : v8'[i][1] = "layout" <=> i = Len(v8) + 1
        BY <2>3, <2>6
    <2>8. Len(v8) + 1 \in DOMAIN v8' /\ v8'[Len(v8) + 1][2] = v2 BY <2>6
    <2>9. v9.at = "read" BY <1>3, <2>2 DEF F!Reading, F!Asked
    <2>10. QED BY <1>2, <1>6, <2>1, <2>4, <2>7, <2>8, <2>9 DEF F!Reading, F!Asked, F!Answered
<1>9. CASE v7[1][1] # "read"
    <2>1. \/ v8' = v8
          \/ v2'.act \in FocusPanes /\ v8' = Append(v8, <<"report", v2'.act>>)
        BY <1>1, <1>9
    <2>2. /\ DOMAIN v8 \subseteq DOMAIN v8' /\ \A i \in DOMAIN v8 : v8'[i] = v8[i]
          /\ \A i \in DOMAIN v8' : v8'[i][1] = "layout" => i \in DOMAIN v8
        <3>1. CASE v8' = v8 BY <3>1
        <3>2. CASE v2'.act \in FocusPanes /\ v8' = Append(v8, <<"report", v2'.act>>)
            <4>1. <<"report", v2'.act>> \in F!Told BY <3>2 DEF F!Told
            <4>2. /\ Len(v8) \in Nat /\ DOMAIN v8 = 1..Len(v8)
                  /\ DOMAIN v8' = 1..(Len(v8) + 1)
                  /\ \A i \in 1..Len(v8) : v8'[i] = v8[i] /\ i \in DOMAIN v8'
                  /\ v8'[Len(v8) + 1] = <<"report", v2'.act>>
                BY <3>2, <4>1, FocusOneMoreLine
            <4>3. QED BY <4>2
        <3>3. QED BY <2>1, <3>1, <3>2
    <2>3. \A i \in DOMAIN v8' : v8'[i][1] = "layout" =>
                i \in DOMAIN v8 /\ v8'[i] = v8[i]
        BY <2>2
    <2>4. (\E i \in DOMAIN v7 : v7[i][1] = "read") => \E i \in DOMAIN v7' : v7'[i][1] = "read"
        BY <1>5, <1>9
    <2>5. v7[1][1] \in F!Kinds => v6 \/ \E i \in DOMAIN v7 : v7[i][1] = "read"
        BY <1>3 DEF F!Reading, F!Asked
    <2>6. \A i \in DOMAIN v8' : v8'[i][1] = "layout" =>
             v6 \/ (v8'[i][2].order = v2'.order /\ v8'[i][2].shape = v2'.shape)
        <3> SUFFICES ASSUME NEW i \in DOMAIN v8', v8'[i][1] = "layout", ~ v6
                     PROVE  v8'[i][2].order = v2'.order /\ v8'[i][2].shape = v2'.shape
            OBVIOUS
        <3>1. i \in DOMAIN v8 /\ v8'[i] = v8[i] /\ v8[i][1] = "layout" BY <2>3
        <3>2. ~ \E j \in DOMAIN v7 : v7[j][1] = "read"
            BY <3>1 DEF F!Reading, F!Asked, F!Answered
        <3>3. v2'.order = v2.order /\ v2'.shape = v2.shape BY <1>1, <2>5, <3>2
        <3>4. QED BY <3>1, <3>3 DEF F!Reading, F!Answered
    <2>7. \/ (v1'.order = v2'.order /\ v1'.shape = v2'.shape)
          \/ v6
          \/ (\E i \in DOMAIN v7' : v7'[i][1] = "read")
          \/ \E j \in DOMAIN v8' : v8'[j][1] = "layout"
        <3>1. CASE v7[1][1] \in F!Kinds BY <2>4, <2>5, <3>1
        <3>2. CASE v7[1][1] \notin F!Kinds
            BY <1>1, <1>2, <2>2, <2>4, <3>2 DEF F!Reading, F!Asked, F!Answered
        <3>3. QED BY <3>1, <3>2
    <2>8. /\ \A i, j \in DOMAIN v8' :
                v8'[i][1] = "layout" /\ v8'[j][1] = "layout" => i = j
          /\ \A i \in DOMAIN v8' : v8'[i][1] = "layout" => v9.at = "read"
        BY <2>3 DEF F!Reading, F!Answered
    <2>9. \A i \in DOMAIN v7', j \in DOMAIN v8' :
             ~ (v7'[i][1] = "read" /\ v8'[j][1] = "layout")
        BY <1>4, <2>3 DEF F!Reading, F!Asked, F!Answered
    <2>10. QED BY <1>2, <1>6, <1>7, <2>6, <2>7, <2>8, <2>9 DEF F!Reading, F!Asked, F!Answered
<1>10. QED BY <1>1, <1>8, <1>9

\* Every step keeps what is known of the reads.
LEMMA FocusReadingKeeps == ASSUME FocusApart, F!Typed, F!Reading, F!Next PROVE F!Reading'
<1>1. ASSUME NEW p \in FocusPanes, F!UserFocus(p) PROVE F!Reading'
    BY <1>1, FocusSelectFacts, FocusReadingSame DEF F!UserFocus
<1>2. ASSUME NEW p \in FocusPanes, F!OuterFocus(p) PROVE F!Reading'
    <2>1. v2'.order = v2.order /\ v2'.shape = v2.shape
        BY <1>2 DEF F!OuterFocus, F!Typed, F!Windows
    <2>2. QED BY <1>2, <2>1, FocusReadingSame DEF F!OuterFocus
<1>3. ASSUME NEW h \in v3, F!Hook(h) PROVE F!Reading'
    <2>1. h.pane \in FocusPanes BY DEF F!Typed
    <2>2. QED BY <1>3, <2>1, FocusReadingSame DEF F!Hook
<1>4. CASE F!Note BY <1>4, FocusReadingSame DEF F!Note, F!Typed
<1>5. CASE F!Focus
    <2>1. v9.pane \in FocusPanes BY <1>5 DEF F!Focus, F!Typed
    <2>2. QED BY <1>5, <2>1, FocusSelectFacts, FocusReadingSame DEF F!Focus, F!Rest
<1>6. QED BY <1>1, <1>2, <1>3, <1>4, <1>5, FocusKeyReading, FocusTakeReading, FocusLineReading,
             FocusReplyReading,
             FocusRunsReading DEF F!Next

\* A request arrives, with the number of its move.
LEMMA FocusHookFacts ==
    ASSUME FocusApart, F!Typed, NEW h \in v3, F!Hook(h)
    PROVE  /\ h.pane \in FocusPanes /\ h.seq \in Nat /\ v3' = v3 \ {h}
           /\ UNCHANGED <<v1, v2, v4, v6, v8, v9, v10>>
           /\ \/ h.seq <= v5.seq /\ UNCHANGED <<v5, v7>>
              \/ /\ h.seq > v5.seq
                 /\ v5'.loc = h.pane /\ v5'.rem = h.pane /\ v5'.seq = h.seq
                 /\ \/ v5.rem = h.pane /\ UNCHANGED v7 /\ v5'.sent = v5.sent
                    \/ /\ v5.rem # h.pane /\ v7' = Append(v7, <<"select", h.pane>>)
                       /\ v5'.sent = Append(IF Len(v5.sent) >= Commanded THEN Tail(v5.sent)
                                             ELSE v5.sent, h.pane)
<1>1. h.pane \in FocusPanes /\ h.seq \in Nat /\ v5.seq \in Nat BY DEF F!Typed
<1>2. F!Stamp(h) = h.seq BY DEF FocusApart, F!Stamp
<1>3. /\ v3' = v3 \ {h} /\ v5' = F!Planned(v5, h.pane, h.seq)
      /\ v7' = IF F!Commands(v5, h.pane, h.seq) THEN Append(v7, <<"select", h.pane>>) ELSE v7
      /\ UNCHANGED <<v1, v2, v4, v6, v8, v9, v10>>
    BY <1>2 DEF F!Hook, FocusApart
<1>4. CASE h.seq <= v5.seq
    BY <1>1, <1>3, <1>4 DEF F!Planned, F!Commands
<1>5. CASE ~ (h.seq <= v5.seq)
    BY <1>1, <1>3, <1>5 DEF F!Planned, F!Commands
<1>6. QED BY <1>4, <1>5

\* The focus is moved: its request is the newest.
LEMMA FocusSelectLately ==
    ASSUME F!Typed, F!Lately, NEW p \in FocusPanes, F!Select(p), UNCHANGED v5,
           p = v1.act => v9.at = "select" /\ v9.pane = p
    PROVE  F!Lately' /\ (p # v1.act => v5'.seq < v4' - 1)
<1>1. /\ v4 \in Nat /\ v4' \in Nat /\ v5.seq \in Nat /\ v1'.act = p
      /\ v3 \subseteq [pane : FocusPanes, seq : Nat]
      /\ p = v1.act => UNCHANGED <<v3, v4>>
      /\ p # v1.act => /\ v3' = v3 \union {[pane |-> p, seq |-> v4]}
                       /\ v4' = v4 + 1
    BY FocusSelectFacts DEF F!Typed
<1>2. CASE p = v1.act
    BY <1>1, <1>2 DEF F!Lately
<1>3. CASE p # v1.act
    <2>1. /\ v3' = v3 \union {[pane |-> p, seq |-> v4]} /\ v4' - 1 = v4
          /\ v5'.seq = v5.seq /\ v5.seq <= v4 - 1
        BY <1>1, <1>3 DEF F!Lately
    <2>2. (\A h \in v3 : h.seq < v4)' BY <1>1, <1>3, <2>1 DEF F!Lately
    <2>3. (\A h \in v3 : h.seq = v4 - 1 => h.pane = v1.act)'
        BY <1>1, <2>1 DEF F!Lately
    <2>4. v5'.seq < v4' - 1 /\ v4' >= 1 /\ [pane |-> p, seq |-> v4] \in v3'
        BY <1>1, <1>3, <2>1
    <2>5. QED BY <1>1, <2>1, <2>2, <2>3, <2>4 DEF F!Lately
<1>4. QED BY <1>2, <1>3

\* Every step keeps what is known of the local side.
LEMMA FocusLatelyKeeps == ASSUME FocusApart, F!Typed, F!Reading, F!Lately, F!Next PROVE F!Lately'
<1>0. v4 \in Nat /\ v5.seq \in Nat /\ v3 \subseteq [pane : FocusPanes, seq : Nat]
    BY DEF F!Typed
<1>1. ASSUME NEW p \in FocusPanes, F!UserFocus(p) PROVE F!Lately'
    <2>1. F!Select(p) /\ p # v1.act /\ UNCHANGED v5 BY <1>1 DEF F!UserFocus
    <2>2. QED BY <2>1, FocusSelectLately
<1>2. ASSUME NEW p \in FocusPanes, F!OuterFocus(p) PROVE F!Lately'
    BY <1>2 DEF F!OuterFocus, F!Lately
<1>3. ASSUME NEW k \in F!Kinds, F!Key(k) PROVE F!Lately'
    <2>1. v5'.loc = v5.loc /\ v5'.seq = v5.seq BY <1>3 DEF F!Key, F!Forgets, F!Typed
    <2>2. QED BY <1>3, <2>1 DEF F!Key, F!Lately
<1>4. CASE F!RemoteRuns BY <1>4 DEF F!RemoteRuns, F!Lately
<1>5. ASSUME NEW h \in v3, F!Hook(h) PROVE F!Lately'
    <2>1. /\ h.seq \in Nat /\ v3' = v3 \ {h} /\ UNCHANGED <<v1, v4, v9>>
          /\ \/ h.seq <= v5.seq /\ UNCHANGED v5
             \/ h.seq > v5.seq /\ v5'.loc = h.pane /\ v5'.seq = h.seq
        BY <1>5, FocusHookFacts
    <2>2. h.seq < v4 BY DEF F!Lately
    <2>3. CASE h.seq <= v5.seq /\ UNCHANGED v5
        BY <1>0, <2>1, <2>2, <2>3 DEF F!Lately
    <2>4. CASE h.seq > v5.seq /\ v5'.loc = h.pane /\ v5'.seq = h.seq
        <3>1. CASE h.seq < v4 - 1
            BY <1>0, <2>1, <2>2, <2>4, <3>1 DEF F!Lately
        <3>2. CASE h.seq = v4 - 1
            BY <1>0, <2>1, <2>2, <2>4, <3>2 DEF F!Lately
        <3>3. QED BY <1>0, <2>1, <2>2, <3>1, <3>2
    <2>5. QED BY <2>1, <2>3, <2>4
<1>6. CASE F!Line
    <2>1. /\ v8[1][2] \in FocusPanes /\ v5' = F!Reported(v5, v8[1][2])
          /\ Head(v8) = v8[1]
        BY <1>6, FocusLineFacts
    <2>2. /\ v5'.seq = v5.seq
          /\ \/ v5'.loc = v5.loc /\ ~ F!Follows(v5, v8[1][2])
             \/ /\ v5'.loc = v8[1][2]
                /\ (F!Follows(v5, v8[1][2]) \/ v8[1][2] = v5.loc)
        BY <2>1, FocusReportFacts
    <2>3. v5'.loc = v5.loc \/ v9'.at = "note"
        BY <1>6, <2>1, <2>2 DEF F!Line
    <2>4. v9.at = "rest" /\ UNCHANGED <<v1, v3, v4>> BY <1>6 DEF F!Line
    <2>5. QED BY <2>2, <2>3, <2>4 DEF F!Lately
<1>7. CASE F!Take
    BY <1>7 DEF F!Take, F!Lately, F!Rest
<1>8. CASE F!ReadReply
    <2>1. v1'.act = v1.act BY <1>8 DEF F!ReadReply, F!Typed, F!Windows
    <2>2. v9.at = "read" /\ UNCHANGED <<v3, v4, v5>> BY <1>8 DEF F!ReadReply
    <2>3. QED BY <2>1, <2>2 DEF F!Lately
<1>9. CASE F!Note
    <2>1. v5'.loc = v9.pane /\ v5'.seq = v5.seq BY <1>9 DEF F!Note, F!Noted, F!Typed
    <2>2. v9'.at = "select" /\ v9'.pane = v9.pane /\ UNCHANGED <<v3, v4, v1>>
        BY <1>9 DEF F!Note, F!Typed
    <2>3. QED BY <2>1, <2>2 DEF F!Lately
<1>10. CASE F!Focus
    <2>1. /\ v9.pane \in FocusPanes /\ F!Select(v9.pane) /\ UNCHANGED v5 /\ v9'.at = "rest"
          /\ v9.at = "select"
        BY <1>10 DEF F!Focus, F!Typed, F!Rest
    <2>2. QED BY <2>1, FocusSelectLately
<1>11. QED BY <1>1, <1>2, <1>3, <1>4, <1>5, <1>6, <1>7, <1>8, <1>9, <1>10 DEF F!Next

\* Two functions trace the commanded panes.
LEMMA FocusTracedBy == ASSUME NEW was, NEW at, F!Was(was)', F!At(at, was)' PROVE F!Traced'
<1>1. was \in [0..Len(v8) -> FocusPanes]' BY DEF F!Was
<1>2. at \in [1..Len(v5.sent) -> 0..(Len(v8) + Len(v7))]' BY DEF F!At
<1>3. QED BY <1>1, <1>2 DEF F!Traced

\* The lines, the remote pane and the queue as they were: so is the trace.
LEMMA FocusTracedSame ==
    ASSUME F!Typed, F!Traced, UNCHANGED v8, v2'.act = v2.act, v5'.sent = v5.sent,
           UNCHANGED v7 \/ \E c \in F!Sent : v7' = Append(v7, c)
    PROVE  F!Traced'
<1>1. PICK was, at : F!Was(was) /\ F!At(at, was) BY DEF F!Traced
<1>2. F!Was(was)' BY <1>1 DEF F!Was
<1>3. /\ Len(v7) \in Nat /\ Len(v8) \in Nat /\ Len(v5.sent) \in Nat
      /\ Len(v7') \in Nat /\ Len(v7') >= Len(v7)
      /\ \A i \in 1..Len(v7) : v7'[i] = v7[i]
    <2>1. CASE UNCHANGED v7 BY <2>1 DEF F!Typed
    <2>2. ASSUME NEW c \in F!Sent, v7' = Append(v7, c)
          PROVE  /\ Len(v7) \in Nat /\ Len(v7') = Len(v7) + 1
                 /\ \A i \in 1..Len(v7) : v7'[i] = v7[i]
        BY <2>2, FocusOneMoreOut
    <2>3. Len(v8) \in Nat /\ Len(v5.sent) \in Nat BY DEF F!Typed
    <2>4. QED BY <2>1, <2>2, <2>3
<1>4. F!At(at, was)'
    <2>1. at \in [1..Len(v5.sent) -> 0..(Len(v8) + Len(v7))] BY <1>1 DEF F!At
    <2>2. at \in [1..Len(v5'.sent) -> 0..(Len(v8') + Len(v7'))]
        <3>1. \A i \in 1..Len(v5.sent) : at[i] \in 0..(Len(v8) + Len(v7'))
            BY <1>3, <2>1
        <3>2. QED BY <2>1, <3>1
    <2>3. \A i \in 1..Len(v5.sent) : at[i] > Len(v8) =>
                v7'[at[i] - Len(v8)] = <<"select", v5.sent[i]>>
        <3> SUFFICES ASSUME NEW i \in 1..Len(v5.sent), at[i] > Len(v8)
                     PROVE  v7'[at[i] - Len(v8)] = <<"select", v5.sent[i]>>
            OBVIOUS
        <3>1. at[i] - Len(v8) \in 1..Len(v7) BY <1>3, <2>1
        <3>2. QED BY <1>1, <1>3, <2>1, <3>1 DEF F!At
    <2>4. \A i \in 1..Len(v5.sent) : at[i] <= Len(v8) => v5.sent[i] = was[at[i]]
        BY <1>1 DEF F!At
    <2>5. \A i \in 1..Len(v5.sent) : at[i] <= Len(v8) \/ at[i] > Len(v8)
        BY <1>3, <2>1
    <2>6. QED BY <1>1, <2>2, <2>3, <2>4, <2>5 DEF F!At
<1>5. QED BY <1>2, <1>4, FocusTracedBy

\* The trace of a line more.
LEMMA FocusWasGrows ==
    ASSUME F!Typed, NEW was, F!Was(was), v2'.act \in FocusPanes,
           \/ v8' = Append(v8, <<"report", v2'.act>>) /\ v2'.act # v2.act
           \/ v8' = Append(v8, <<"layout", v2>>) /\ v2' = v2,
           NEW w, w = [x \in 0..(Len(v8) + 1) |-> IF x <= Len(v8) THEN was[x] ELSE v2'.act]
    PROVE  F!Was(w)' /\ Len(v8') = Len(v8) + 1
<1>1. \E c \in F!Told : /\ v8' = Append(v8, c)
                        /\ \/ c[1] = "report" /\ c[2] = v2'.act /\ v2'.act # v2.act
                           \/ c[1] = "layout" /\ c[2] = v2 /\ v2' = v2
    <2>1. <<"report", v2'.act>> \in F!Told /\ <<"layout", v2>> \in F!Told BY DEF F!Told, F!Typed
    <2>2. /\ <<"report", v2'.act>>[1] = "report" /\ <<"report", v2'.act>>[2] = v2'.act
          /\ <<"layout", v2>>[1] = "layout" /\ <<"layout", v2>>[2] = v2
        OBVIOUS
    <2>3. QED BY <2>1, <2>2
<1>2. PICK c \in F!Told : /\ v8' = Append(v8, c)
                          /\ \/ c[1] = "report" /\ c[2] = v2'.act /\ v2'.act # v2.act
                             \/ c[1] = "layout" /\ c[2] = v2 /\ v2' = v2
    BY <1>1
<1>3. /\ Len(v8) \in Nat /\ Len(v8') = Len(v8) + 1
      /\ \A i \in 1..Len(v8) : v8'[i] = v8[i]
      /\ v8'[Len(v8) + 1] = c
    BY <1>2, FocusOneMoreLine
<1>4. /\ was \in [0..Len(v8) -> FocusPanes] /\ was[Len(v8)] = v2.act
      /\ \A k \in 1..Len(v8) :
            IF v8[k][1] = "report" THEN v8[k][2] = was[k] /\ was[k] # was[k - 1]
            ELSE v8[k][2].act = was[k] /\ was[k] = was[k - 1]
    BY DEF F!Was
<1>5. w \in [0..(Len(v8) + 1) -> FocusPanes] /\ w[Len(v8) + 1] = v2'.act
    BY <1>3, <1>4
<1>6. ASSUME NEW k \in 1..(Len(v8) + 1)
      PROVE  IF v8'[k][1] = "report" THEN v8'[k][2] = w[k] /\ w[k] # w[k - 1]
             ELSE v8'[k][2].act = w[k] /\ w[k] = w[k - 1]
    <2>1. CASE k <= Len(v8)
        <3>1. k \in 1..Len(v8) /\ w[k] = was[k] /\ w[k - 1] = was[k - 1] BY <1>3, <2>1
        <3>2. QED BY <1>3, <1>4, <3>1
    <2>2. CASE k = Len(v8) + 1
        <3>1. w[k] = v2'.act /\ w[k - 1] = v2.act /\ v8'[k] = c
            BY <1>3, <1>4, <1>5, <2>2
        <3>2. QED BY <1>2, <3>1
    <2>3. QED BY <1>3, <2>1, <2>2
<1>7. QED BY <1>3, <1>5, <1>6 DEF F!Was

\* The remote's own user moves: what is still to run comes after.
LEMMA FocusOuterTraced ==
    ASSUME FocusApart, F!Typed, F!Traced, NEW p \in FocusPanes, F!OuterFocus(p)
    PROVE  F!Traced'
<1>1. PICK was, at : F!Was(was) /\ F!At(at, was) BY DEF F!Traced
<1>2. /\ v2'.act = p /\ p # v2.act /\ v8' = Append(v8, <<"report", v2'.act>>)
      /\ UNCHANGED <<v7, v5>>
    BY DEF F!OuterFocus, F!Typed, F!Windows
<1>3. PICK w : w = [x \in 0..(Len(v8) + 1) |-> IF x <= Len(v8) THEN was[x] ELSE v2'.act]
    OBVIOUS
<1>4. PICK a : a = [i \in 1..Len(v5.sent) |-> IF at[i] <= Len(v8) THEN at[i] ELSE at[i] + 1]
    OBVIOUS
<1>5. F!Was(w)' /\ Len(v8') = Len(v8) + 1
    BY <1>1, <1>2, <1>3, FocusWasGrows
<1>6. Len(v8) \in Nat /\ Len(v7) \in Nat /\ Len(v5.sent) \in Nat BY DEF F!Typed
<1>7. /\ at \in [1..Len(v5.sent) -> 0..(Len(v8) + Len(v7))]
      /\ \A i, j \in 1..Len(v5.sent) : i <= j => at[i] <= at[j]
      /\ \A i \in 1..Len(v5.sent) :
            IF at[i] <= Len(v8) THEN v5.sent[i] = was[at[i]]
            ELSE v7[at[i] - Len(v8)] = <<"select", v5.sent[i]>>
    BY <1>1 DEF F!At
<1>8. a \in [1..Len(v5.sent) -> 0..(Len(v8) + 1 + Len(v7))]
    BY <1>4, <1>6, <1>7
<1>9. \A i, j \in 1..Len(v5.sent) : i <= j => a[i] <= a[j]
    <2> SUFFICES ASSUME NEW i \in 1..Len(v5.sent), NEW j \in 1..Len(v5.sent), i <= j
                 PROVE  a[i] <= a[j]
        OBVIOUS
    <2>1. at[i] \in Nat /\ at[j] \in Nat
        <3>1. 0..(Len(v8) + Len(v7)) \subseteq Nat BY <1>6
        <3>2. QED BY <1>7, <3>1
    <2>2. at[i] <= at[j] BY <1>7
    <2>3. a[i] = IF at[i] <= Len(v8) THEN at[i] ELSE at[i] + 1 BY <1>4
    <2>4. a[j] = IF at[j] <= Len(v8) THEN at[j] ELSE at[j] + 1 BY <1>4
    <2>5. QED BY <1>6, <2>1, <2>2, <2>3, <2>4
<1>10. ASSUME NEW i \in 1..Len(v5.sent)
       PROVE  IF a[i] <= Len(v8) + 1 THEN v5.sent[i] = w[a[i]]
              ELSE v7[a[i] - (Len(v8) + 1)] = <<"select", v5.sent[i]>>
    <2>1. CASE at[i] <= Len(v8)
        <3>1. a[i] = at[i] /\ a[i] \in 0..Len(v8) BY <1>4, <1>6, <1>7, <2>1
        <3>2. w[a[i]] = was[a[i]] BY <1>3, <1>6, <3>1
        <3>3. QED BY <1>6, <1>7, <2>1, <3>1, <3>2
    <2>2. CASE ~ (at[i] <= Len(v8))
        <3>1. a[i] = at[i] + 1 /\ at[i] \in Nat BY <1>4, <1>6, <1>7, <2>2
        <3>2. ~ (a[i] <= Len(v8) + 1) /\ a[i] - (Len(v8) + 1) = at[i] - Len(v8)
            BY <1>6, <2>2, <3>1
        <3>3. QED BY <1>7, <2>2, <3>2
    <2>3. QED BY <2>1, <2>2
<1>11. F!At(a, w)' BY <1>2, <1>5, <1>8, <1>9, <1>10 DEF F!At
<1>12. QED BY <1>5, <1>11, FocusTracedBy

\* A commanded pane counts as one command more, behind those on their way.
LEMMA FocusHookTraced == ASSUME FocusApart, F!Typed, F!Traced, NEW h \in v3, F!Hook(h)
    PROVE F!Traced'
<1> DEFINE p == h.pane
           kept == IF Len(v5.sent) >= Commanded THEN Tail(v5.sent) ELSE v5.sent
           d == IF Len(v5.sent) >= Commanded THEN 1 ELSE 0
<1>1. /\ p \in FocusPanes /\ UNCHANGED <<v2, v8>>
      /\ \/ UNCHANGED v7 /\ v5'.sent = v5.sent
         \/ v7' = Append(v7, <<"select", p>>) /\ v5'.sent = Append(kept, p)
    BY FocusHookFacts
<1>2. CASE UNCHANGED v7 /\ v5'.sent = v5.sent
    BY <1>1, <1>2, FocusTracedSame
<1>3. CASE v7' = Append(v7, <<"select", p>>) /\ v5'.sent = Append(kept, p)
    <2>1. PICK was, at : F!Was(was) /\ F!At(at, was) BY DEF F!Traced
    <2>2. F!Was(was)' BY <1>1, <2>1 DEF F!Was
    <2>3. /\ Len(v8) \in Nat /\ Len(v7) \in Nat /\ Len(v5.sent) \in Nat
          /\ v5.sent \in Seq(FocusPanes) /\ Commanded \in Nat \ {0}
        BY DEF F!Typed, FocusApart
    <2>4. <<"select", p>> \in F!Sent BY <1>1 DEF F!Sent
    <2>5. /\ Len(v7') = Len(v7) + 1 /\ \A i \in 1..Len(v7) : v7'[i] = v7[i]
          /\ v7'[Len(v7) + 1] = <<"select", p>>
        BY <1>3, <2>4, FocusOneMoreOut
    <2>6. /\ kept \in Seq(FocusPanes) /\ Len(kept) = Len(v5.sent) - d /\ Len(kept) \in Nat
          /\ d \in {0, 1}
          /\ \A i \in 1..Len(kept) : kept[i] = v5.sent[i + d]
        <3>1. Len(v5.sent) >= Commanded => v5.sent # <<>> BY <2>3
        <3>2. CASE Len(v5.sent) >= Commanded
            <4>1. /\ Tail(v5.sent) \in Seq(FocusPanes) /\ Len(Tail(v5.sent)) = Len(v5.sent) - 1
                  /\ \A i \in 1..(Len(v5.sent) - 1) : Tail(v5.sent)[i] = v5.sent[i + 1]
                BY <2>3, <3>1, <3>2
            <4>2. QED BY <2>3, <3>2, <4>1
        <3>3. CASE ~ (Len(v5.sent) >= Commanded)
            BY <2>3, <3>3
        <3>4. QED BY <3>2, <3>3
    <2> HIDE DEF kept, d
    <2>7. /\ Len(v5'.sent) = Len(kept) + 1
          /\ \A i \in 1..Len(kept) : v5'.sent[i] = v5.sent[i + d]
          /\ v5'.sent[Len(kept) + 1] = p
        <3>1. /\ Len(Append(kept, p)) = Len(kept) + 1
              /\ \A i \in 1..Len(kept) : Append(kept, p)[i] = kept[i]
              /\ Append(kept, p)[Len(kept) + 1] = p
            BY <1>1, <2>6, FocusGrown
        <3>2. QED BY <1>3, <2>6, <3>1
    <2>8. PICK a : a = [i \in 1..(Len(kept) + 1) |->
                          IF i <= Len(kept) THEN at[i + d] ELSE Len(v8) + Len(v7) + 1]
        OBVIOUS
    <2>9. /\ at \in [1..Len(v5.sent) -> 0..(Len(v8) + Len(v7))]
          /\ \A i, j \in 1..Len(v5.sent) : i <= j => at[i] <= at[j]
          /\ \A i \in 1..Len(v5.sent) :
                IF at[i] <= Len(v8) THEN v5.sent[i] = was[at[i]]
                ELSE v7[at[i] - Len(v8)] = <<"select", v5.sent[i]>>
        BY <2>1 DEF F!At
    <2>10. \A i \in 1..Len(kept) : i + d \in 1..Len(v5.sent) /\ a[i] = at[i + d]
        BY <2>3, <2>6, <2>8
    <2>11. a[Len(kept) + 1] = Len(v8) + Len(v7) + 1 BY <2>6, <2>8
    <2>12. \A i \in 1..(Len(kept) + 1) : i \in 1..Len(kept) \/ i = Len(kept) + 1 BY <2>6
    <2>13. a \in [1..(Len(kept) + 1) -> 0..(Len(v8) + (Len(v7) + 1))]
        <3>1. \A i \in 1..(Len(kept) + 1) : a[i] \in 0..(Len(v8) + (Len(v7) + 1))
            BY <2>3, <2>9, <2>10, <2>11, <2>12
        <3>2. DOMAIN a = 1..(Len(kept) + 1) BY <2>8
        <3>3. QED BY <2>8, <3>1, <3>2
    <2>14. ASSUME NEW i \in 1..(Len(kept) + 1), NEW j \in 1..(Len(kept) + 1), i <= j
           PROVE  a[i] <= a[j]
        <3>1. CASE j = Len(kept) + 1
            <4>1. a[i] \in 0..(Len(v8) + (Len(v7) + 1)) BY <2>13
            <4>2. QED BY <2>3, <2>11, <3>1, <4>1
        <3>2. CASE j # Len(kept) + 1
            <4>1. i \in 1..Len(kept) /\ j \in 1..Len(kept)
                <5>1. j \in 1..Len(kept) BY <2>12, <3>2
                <5>2. i \in Nat /\ j \in Nat /\ i >= 1 /\ i <= j /\ j <= Len(kept)
                    BY <2>6, <2>14, <5>1
                <5>3. QED BY <2>6, <5>1, <5>2
            <4>2. i + d <= j + d BY <2>6, <2>14
            <4>3. QED BY <2>9, <2>10, <4>1, <4>2
        <3>3. QED BY <3>1, <3>2
    <2>15. ASSUME NEW i \in 1..(Len(kept) + 1)
           PROVE  IF a[i] <= Len(v8) THEN v5'.sent[i] = was[a[i]]
                  ELSE v7'[a[i] - Len(v8)] = <<"select", v5'.sent[i]>>
        <3>1. CASE i \in 1..Len(kept)
            <4>1. /\ i + d \in 1..Len(v5.sent) /\ a[i] = at[i + d]
                  /\ v5'.sent[i] = v5.sent[i + d]
                BY <2>7, <2>10, <3>1
            <4>2. ~ (a[i] <= Len(v8)) => a[i] - Len(v8) \in 1..Len(v7)
                BY <2>3, <2>9, <4>1
            <4>3. QED BY <2>5, <2>9, <4>1, <4>2
        <3>2. CASE i = Len(kept) + 1
            <4>1. /\ ~ (a[i] <= Len(v8)) /\ a[i] - Len(v8) = Len(v7) + 1
                  /\ v5'.sent[i] = p
                BY <2>3, <2>7, <2>11, <3>2
            <4>2. QED BY <2>5, <4>1
        <3>3. QED BY <2>12, <3>1, <3>2
    <2>16. F!At(a, was)' BY <1>1, <2>5, <2>7, <2>13, <2>14, <2>15 DEF F!At
    <2>17. QED BY <2>2, <2>16, FocusTracedBy
<1>4. QED BY <1>1, <1>2, <1>3

\* A command that is run: those traced to it are traced to its line, or to the
\* line before when it changes nothing.
LEMMA FocusRunsTraced == ASSUME FocusApart, F!Typed, F!Traced, F!RemoteRuns PROVE F!Traced'
<1>1. PICK was, at : F!Was(was) /\ F!At(at, was) BY DEF F!Traced
<1>2. /\ Len(v7) \in Nat \ {0} /\ v7[1] \in F!Sent
      /\ Len(v7') = Len(v7) - 1 /\ \A k \in 1..(Len(v7) - 1) : v7'[k] = v7[k + 1]
      /\ \A p \in FocusPanes : v7[1] = <<"select", p>> => v2'.act = p
      /\ \/ /\ v7[1] = <<"read">> /\ v2' = v2
            /\ v8' = Append(v8, <<"layout", v2>>)
         \/ /\ v7[1][1] # "read" /\ v2'.act = v2.act /\ v8' = v8
         \/ /\ v7[1][1] # "read" /\ v2'.act # v2.act /\ v2'.act \in FocusPanes
            /\ v8' = Append(v8, <<"report", v2'.act>>)
    BY FocusRunFacts
<1>3. UNCHANGED v5 BY DEF F!RemoteRuns
<1>4. Len(v8) \in Nat /\ Len(v5.sent) \in Nat /\ v2.act \in FocusPanes
    /\ v5.sent \in Seq(FocusPanes)
    BY DEF F!Typed, F!Windows
<1>5. /\ at \in [1..Len(v5.sent) -> 0..(Len(v8) + Len(v7))]
      /\ \A i, j \in 1..Len(v5.sent) : i <= j => at[i] <= at[j]
      /\ \A i \in 1..Len(v5.sent) :
            IF at[i] <= Len(v8) THEN v5.sent[i] = was[at[i]]
            ELSE v7[at[i] - Len(v8)] = <<"select", v5.sent[i]>>
    BY <1>1 DEF F!At
<1>6. \A i \in 1..Len(v5.sent) : v5.sent[i] \in FocusPanes BY <1>4
<1>7. ASSUME NEW i \in 1..Len(v5.sent), ~ (at[i] <= Len(v8) + 1)
      PROVE  v7'[at[i] - (Len(v8) + 1)] = <<"select", v5.sent[i]>>
    <2>1. at[i] \in 0..(Len(v8) + Len(v7)) BY <1>5
    <2>2. Len(v7) \in Nat BY <1>2
    <2>3. /\ at[i] - (Len(v8) + 1) \in 1..(Len(v7) - 1)
          /\ (at[i] - (Len(v8) + 1)) + 1 = at[i] - Len(v8) /\ ~ (at[i] <= Len(v8))
        BY <1>4, <1>7, <2>1, <2>2
    <2>4. v7'[at[i] - (Len(v8) + 1)] = v7[at[i] - Len(v8)] BY <1>2, <2>3
    <2>5. QED BY <1>5, <2>3, <2>4
<1>8. ASSUME NEW i \in 1..Len(v5.sent), at[i] = Len(v8) + 1
      PROVE  v5.sent[i] = v2'.act
    <2>1. ~ (at[i] <= Len(v8)) /\ at[i] - Len(v8) = 1 BY <1>4, <1>8
    <2>2. v7[1] = <<"select", v5.sent[i]>> BY <1>5, <2>1
    <2>3. QED BY <1>2, <1>6, <2>2
<1>9. CASE \/ /\ v8' = Append(v8, <<"report", v2'.act>>)
              /\ v2'.act # v2.act /\ v2'.act \in FocusPanes
           \/ v8' = Append(v8, <<"layout", v2>>) /\ v2' = v2
    <2>1. PICK w : w = [x \in 0..(Len(v8) + 1) |-> IF x <= Len(v8) THEN was[x] ELSE v2'.act]
        OBVIOUS
    <2>2. F!Was(w)' /\ Len(v8') = Len(v8) + 1
        BY <1>1, <1>4, <1>9, <2>1, FocusWasGrows
    <2>3. at \in [1..Len(v5.sent) -> 0..((Len(v8) + 1) + (Len(v7) - 1))]
        <3>1. (Len(v8) + 1) + (Len(v7) - 1) = Len(v8) + Len(v7) BY <1>2, <1>4
        <3>2. QED BY <1>5, <3>1
    <2>4. ASSUME NEW i \in 1..Len(v5.sent)
          PROVE  IF at[i] <= Len(v8) + 1 THEN v5.sent[i] = w[at[i]]
                 ELSE v7'[at[i] - (Len(v8) + 1)] = <<"select", v5.sent[i]>>
        <3>1. at[i] \in Nat BY <1>5
        <3>2. CASE at[i] <= Len(v8)
            <4>1. w[at[i]] = was[at[i]] /\ at[i] <= Len(v8) + 1 BY <1>4, <2>1, <3>1, <3>2
            <4>2. QED BY <1>5, <3>2, <4>1
        <3>3. CASE at[i] = Len(v8) + 1
            <4>1. w[at[i]] = v2'.act BY <1>4, <2>1, <3>3
            <4>2. QED BY <1>8, <3>3, <4>1
        <3>4. CASE ~ (at[i] <= Len(v8) + 1) BY <1>7, <3>4
        <3>5. QED BY <1>4, <3>1, <3>2, <3>3, <3>4
    <2>5. F!At(at, w)' BY <1>2, <1>3, <1>5, <2>2, <2>3, <2>4 DEF F!At
    <2>6. QED BY <2>2, <2>5, FocusTracedBy
<1>10. CASE v2'.act = v2.act /\ v8' = v8
    <2>1. F!Was(was)' BY <1>1, <1>10 DEF F!Was
    <2>2. was[Len(v8)] = v2.act BY <1>1 DEF F!Was
    <2>3. PICK a : a = [i \in 1..Len(v5.sent) |-> IF at[i] <= Len(v8) THEN at[i] ELSE at[i] - 1]
        OBVIOUS
    <2>4. a \in [1..Len(v5.sent) -> 0..(Len(v8) + (Len(v7) - 1))]
        BY <1>2, <1>4, <1>5, <2>3
    <2>5. ASSUME NEW i \in 1..Len(v5.sent), NEW j \in 1..Len(v5.sent), i <= j PROVE a[i] <= a[j]
        <3>1. at[i] <= at[j] /\ at[i] \in Nat /\ at[j] \in Nat BY <1>5, <2>5
        <3>2. QED BY <1>4, <2>3, <3>1
    <2>6. ASSUME NEW i \in 1..Len(v5.sent)
          PROVE  IF a[i] <= Len(v8) THEN v5.sent[i] = was[a[i]]
                 ELSE v7'[a[i] - Len(v8)] = <<"select", v5.sent[i]>>
        <3>1. at[i] \in Nat BY <1>5
        <3>2. CASE at[i] <= Len(v8) BY <1>5, <2>3, <3>2
        <3>3. CASE at[i] = Len(v8) + 1
            <4>1. a[i] = Len(v8) BY <1>4, <2>3, <3>3
            <4>2. QED BY <1>4, <1>8, <1>10, <2>2, <3>3, <4>1
        <3>4. CASE ~ (at[i] <= Len(v8) + 1)
            <4>1. a[i] = at[i] - 1 /\ ~ (a[i] <= Len(v8))
                  /\ a[i] - Len(v8) = at[i] - (Len(v8) + 1)
                BY <1>4, <2>3, <3>1, <3>4
            <4>2. QED BY <1>7, <3>4, <4>1
        <3>5. QED BY <1>4, <3>1, <3>2, <3>3, <3>4
    <2>7. F!At(a, was)' BY <1>2, <1>3, <1>10, <2>4, <2>5, <2>6 DEF F!At
    <2>8. QED BY <2>1, <2>7, FocusTracedBy
<1>11. QED BY <1>2, <1>9, <1>10

\* A report is taken: the panes commanded before the one it settles go with it,
\* and those after it were active no earlier.
LEMMA FocusLineTraced == ASSUME FocusApart, F!Typed, F!Reading, F!Traced, F!Line PROVE F!Traced'
<1>1. PICK was, at : F!Was(was) /\ F!At(at, was) BY DEF F!Traced
<1> DEFINE p == v8[1][2]
<1>2. /\ Len(v8) \in Nat \ {0} /\ Len(v8') = Len(v8) - 1
      /\ \A k \in 1..(Len(v8) - 1) : v8'[k] = v8[k + 1]
      /\ p \in FocusPanes /\ v8[1][1] = "report" /\ v5' = F!Reported(v5, p)
    BY FocusLineFacts
<1>3. UNCHANGED <<v2, v7>> BY DEF F!Line
<1>4. /\ was \in [0..Len(v8) -> FocusPanes] /\ was[Len(v8)] = v2.act
      /\ \A k \in 1..Len(v8) :
            IF v8[k][1] = "report" THEN v8[k][2] = was[k] /\ was[k] # was[k - 1]
            ELSE v8[k][2].act = was[k] /\ was[k] = was[k - 1]
    BY <1>1 DEF F!Was
<1>5. p = was[1] /\ was[1] # was[0]
    <2>1. 1 \in 1..Len(v8) /\ 1 - 1 = 0 BY <1>2
    <2>2. QED BY <1>2, <1>4, <2>1
<1> HIDE DEF p
<1>6. PICK w : w = [x \in 0..(Len(v8) - 1) |-> was[x + 1]] OBVIOUS
<1>7. F!Was(w)'
    <2>1. w \in [0..(Len(v8) - 1) -> FocusPanes] /\ w[Len(v8) - 1] = v2.act
        BY <1>2, <1>4, <1>6
    <2>2. ASSUME NEW k \in 1..(Len(v8) - 1)
          PROVE  IF v8'[k][1] = "report" THEN v8'[k][2] = w[k] /\ w[k] # w[k - 1]
                 ELSE v8'[k][2].act = w[k] /\ w[k] = w[k - 1]
        <3>1. /\ k + 1 \in 1..Len(v8) /\ (k + 1) - 1 = k
              /\ w[k] = was[k + 1] /\ w[k - 1] = was[k]
            BY <1>2, <1>6
        <3>2. v8'[k] = v8[k + 1] BY <1>2
        <3>3. QED BY <1>4, <3>1, <3>2
    <2>3. QED BY <1>2, <1>3, <2>1, <2>2 DEF F!Was
<1>8. Len(v7) \in Nat /\ Len(v5.sent) \in Nat /\ v5.sent \in Seq(FocusPanes) BY DEF F!Typed
<1>9. /\ at \in [1..Len(v5.sent) -> 0..(Len(v8) + Len(v7))]
      /\ \A i, j \in 1..Len(v5.sent) : i <= j => at[i] <= at[j]
      /\ \A i \in 1..Len(v5.sent) :
            IF at[i] <= Len(v8) THEN v5.sent[i] = was[at[i]]
            ELSE v7[at[i] - Len(v8)] = <<"select", v5.sent[i]>>
    BY <1>1 DEF F!At
<1>14. \A i \in 1..Len(v5.sent) : at[i] \in 0..(Len(v8) + Len(v7)) /\ at[i] \in Nat
    <2>1. at \in [1..Len(v5.sent) -> 0..(Len(v8) + Len(v7))] BY <1>9
    <2>2. 0..(Len(v8) + Len(v7)) \subseteq Nat BY <1>2, <1>8
    <2> HIDE <1>9
    <2>3. QED BY <2>1, <2>2
<1>10. \/ \E j \in 1..Len(v5.sent) : /\ v5.sent[j] = p
                /\ v5'.sent = SubSeq(v5.sent, j + 1, Len(v5.sent))
       \/ v5'.sent = <<>>
    BY <1>2, FocusReportFacts
<1>11. CASE v5'.sent = <<>>
    <2>1. PICK a : a = [i \in 1..0 |-> 0] OBVIOUS
    <2>2. F!At(a, w)'
        <3>1. 1..Len(v5'.sent) = {} BY <1>11
        <3>2. a \in [1..Len(v5'.sent) -> 0..(Len(v8') + Len(v7'))] BY <2>1, <3>1
        <3>3. QED BY <3>1, <3>2 DEF F!At
    <2>3. QED BY <1>7, <2>2, FocusTracedBy
<1>12. ASSUME NEW j \in 1..Len(v5.sent), v5.sent[j] = p,
              v5'.sent = SubSeq(v5.sent, j + 1, Len(v5.sent))
       PROVE  F!Traced'
    <2>1. at[j] >= 1
        <3>1. at[j] \in Nat BY <1>9
        <3>2. at[j] # 0
            <4>1. at[j] = 0 => v5.sent[j] = was[0] BY <1>2, <1>9
            <4>2. QED BY <1>5, <1>12, <4>1
        <3>3. QED BY <3>1, <3>2
    <2> DEFINE n == Len(v5.sent) - j
    <2>2. /\ n \in Nat /\ Len(v5'.sent) = n
          /\ \A i \in 1..n : v5'.sent[i] = v5.sent[i + j] /\ i + j \in 1..Len(v5.sent)
        BY <1>8, <1>12
    <2> HIDE DEF n
    <2>3. PICK a : a = [i \in 1..n |-> at[i + j] - 1] OBVIOUS
    <2>4. ASSUME NEW i \in 1..n PROVE at[i + j] \in 1..(Len(v8) + Len(v7))
        <3>1. j <= i + j BY <2>2
        <3>2. at[j] <= at[i + j] BY <1>9, <2>2, <3>1
        <3>3. at[i + j] \in 0..(Len(v8) + Len(v7)) /\ at[j] \in Nat BY <1>14, <2>2
        <3>4. QED BY <1>2, <1>8, <2>1, <3>2, <3>3
    <2>5. a \in [1..n -> 0..((Len(v8) - 1) + Len(v7))]
        <3>1. \A i \in 1..n : a[i] \in 0..((Len(v8) - 1) + Len(v7))
            BY <1>2, <1>8, <2>3, <2>4
        <3>2. QED BY <2>3, <3>1
    <2>6. ASSUME NEW i \in 1..n, NEW k \in 1..n, i <= k PROVE a[i] <= a[k]
        <3>1. i + j <= k + j BY <2>2, <2>6
        <3>2. at[i + j] <= at[k + j] BY <1>9, <2>2, <3>1
        <3>3. a[i] = at[i + j] - 1 /\ a[k] = at[k + j] - 1 BY <2>3
        <3>4. at[i + j] \in Nat /\ at[k + j] \in Nat BY <2>4
        <3>5. QED BY <3>2, <3>3, <3>4
    <2>7. ASSUME NEW i \in 1..n
          PROVE  IF a[i] <= Len(v8) - 1 THEN v5'.sent[i] = w[a[i]]
                 ELSE v7[a[i] - (Len(v8) - 1)] = <<"select", v5'.sent[i]>>
        <3>1. a[i] = at[i + j] - 1 /\ at[i + j] \in 1..(Len(v8) + Len(v7))
            BY <2>3, <2>4
        <3>2. i + j \in 1..Len(v5.sent) /\ v5'.sent[i] = v5.sent[i + j] BY <2>2
        <3>3. CASE a[i] <= Len(v8) - 1
            <4>1. at[i + j] <= Len(v8) /\ a[i] \in 0..(Len(v8) - 1) /\ a[i] + 1 = at[i + j]
                BY <1>2, <1>8, <3>1, <3>3
            <4>2. w[a[i]] = was[at[i + j]] BY <1>6, <4>1
            <4>3. QED BY <1>9, <3>2, <3>3, <4>1, <4>2
        <3>4. CASE ~ (a[i] <= Len(v8) - 1)
            <4>1. ~ (at[i + j] <= Len(v8))
                  /\ a[i] - (Len(v8) - 1) = at[i + j] - Len(v8)
                BY <1>2, <1>8, <3>1, <3>4
            <4>2. QED BY <1>9, <3>2, <3>4, <4>1
        <3>5. QED BY <3>3, <3>4
    <2>8. F!At(a, w)' BY <1>2, <1>3, <2>2, <2>5, <2>6, <2>7 DEF F!At
    <2>9. QED BY <1>7, <2>8, FocusTracedBy
<1>13. QED BY <1>10, <1>11, <1>12

\* The reply is taken from the middle of the stream: nothing became active there.
LEMMA FocusReplyTraced == ASSUME FocusApart, F!Typed, F!Reading, F!Traced, F!ReadReply
    PROVE F!Traced'
<1>1. PICK was, at : F!Was(was) /\ F!At(at, was) BY DEF F!Traced
<1>2. PICK r \in 1..Len(v8) :
         /\ v8[r][1] = "layout"
         /\ Len(v8) \in Nat \ {0} /\ Len(v8') = Len(v8) - 1
         /\ \A k \in 1..(Len(v8) - 1) : v8'[k] = IF k < r THEN v8[k] ELSE v8[k + 1]
    BY FocusReplyFacts
<1>3. UNCHANGED <<v2, v7, v5>> BY DEF F!ReadReply
<1>4. /\ was \in [0..Len(v8) -> FocusPanes] /\ was[Len(v8)] = v2.act
      /\ \A k \in 1..Len(v8) :
            IF v8[k][1] = "report" THEN v8[k][2] = was[k] /\ was[k] # was[k - 1]
            ELSE v8[k][2].act = was[k] /\ was[k] = was[k - 1]
    BY <1>1 DEF F!Was
<1>5. was[r] = was[r - 1] BY <1>2, <1>4
<1>6. PICK w : w = [x \in 0..(Len(v8) - 1) |-> IF x < r THEN was[x] ELSE was[x + 1]] OBVIOUS
<1>7. F!Was(w)'
    <2>1. w \in [0..(Len(v8) - 1) -> FocusPanes]
        BY <1>2, <1>4, <1>6
    <2>2. w[Len(v8) - 1] = v2.act
        <3>1. CASE r = Len(v8) BY <1>2, <1>4, <1>5, <1>6, <3>1
        <3>2. CASE r # Len(v8) BY <1>2, <1>4, <1>6, <3>2
        <3>3. QED BY <3>1, <3>2
    <2>3. ASSUME NEW k \in 1..(Len(v8) - 1)
          PROVE  IF v8'[k][1] = "report" THEN v8'[k][2] = w[k] /\ w[k] # w[k - 1]
                 ELSE v8'[k][2].act = w[k] /\ w[k] = w[k - 1]
        <3>1. k \in Nat /\ r \in Nat /\ k >= 1 BY <1>2
        <3>2. CASE k < r
            <4>1. k \in 1..Len(v8) /\ v8'[k] = v8[k] BY <1>2, <3>2
            <4>2. /\ k \in 0..(Len(v8) - 1) /\ k - 1 \in 0..(Len(v8) - 1)
                  /\ k - 1 < r
                BY <1>2, <3>1, <3>2
            <4>3. w[k] = was[k] /\ w[k - 1] = was[k - 1] BY <1>6, <3>2, <4>2
            <4>4. QED BY <1>4, <4>1, <4>3
        <3>3. CASE ~ (k < r)
            <4>1. /\ k + 1 \in 1..Len(v8) /\ (k + 1) - 1 = k /\ v8'[k] = v8[k + 1]
                  /\ w[k] = was[k + 1]
                BY <1>2, <1>6, <3>1, <3>3
            <4>2. w[k - 1] = was[k]
                <5>1. k - 1 \in 0..(Len(v8) - 1) BY <1>2
                <5>2. CASE k = r
                    <6>1. k - 1 < r BY <3>1, <5>2
                    <6>2. QED BY <1>5, <1>6, <5>1, <5>2, <6>1
                <5>3. CASE k # r
                    <6>1. ~ (k - 1 < r) /\ (k - 1) + 1 = k BY <3>1, <3>3, <5>3
                    <6>2. QED BY <1>6, <5>1, <6>1
                <5>4. QED BY <5>2, <5>3
            <4>3. QED BY <1>4, <4>1, <4>2
        <3>4. QED BY <3>2, <3>3
    <2>4. QED BY <1>2, <1>3, <2>1, <2>2, <2>3 DEF F!Was
<1>8. Len(v7) \in Nat /\ Len(v5.sent) \in Nat BY DEF F!Typed
<1>9. /\ at \in [1..Len(v5.sent) -> 0..(Len(v8) + Len(v7))]
      /\ \A i, j \in 1..Len(v5.sent) : i <= j => at[i] <= at[j]
      /\ \A i \in 1..Len(v5.sent) :
            IF at[i] <= Len(v8) THEN v5.sent[i] = was[at[i]]
            ELSE v7[at[i] - Len(v8)] = <<"select", v5.sent[i]>>
    BY <1>1 DEF F!At
<1>16. \A i \in 1..Len(v5.sent) : at[i] \in 0..(Len(v8) + Len(v7)) /\ at[i] \in Nat
    <2>1. at \in [1..Len(v5.sent) -> 0..(Len(v8) + Len(v7))] BY <1>9
    <2>2. 0..(Len(v8) + Len(v7)) \subseteq Nat BY <1>2, <1>8
    <2> HIDE <1>9
    <2>3. QED BY <2>1, <2>2
<1>10. PICK a : a = [i \in 1..Len(v5.sent) |-> IF at[i] < r THEN at[i] ELSE at[i] - 1]
    OBVIOUS
<1>11. a \in [1..Len(v5.sent) -> 0..((Len(v8) - 1) + Len(v7))]
    <2>1. ASSUME NEW i \in 1..Len(v5.sent) PROVE a[i] \in 0..((Len(v8) - 1) + Len(v7))
        <3>1. at[i] \in 0..(Len(v8) + Len(v7)) /\ r \in 1..Len(v8) BY <1>9
        <3>2. a[i] = IF at[i] < r THEN at[i] ELSE at[i] - 1 BY <1>10
        <3>3. QED BY <1>2, <1>8, <3>1, <3>2
    <2>2. QED BY <1>10, <2>1
<1>12. ASSUME NEW i \in 1..Len(v5.sent), NEW j \in 1..Len(v5.sent), i <= j PROVE a[i] <= a[j]
    <2>1. at[i] \in Nat /\ at[j] \in Nat /\ r \in Nat BY <1>16
    <2>2. at[i] <= at[j] BY <1>9, <1>12
    <2>3. /\ a[i] = IF at[i] < r THEN at[i] ELSE at[i] - 1
          /\ a[j] = IF at[j] < r THEN at[j] ELSE at[j] - 1
        BY <1>10
    <2>4. QED BY <2>1, <2>2, <2>3
<1>13. ASSUME NEW i \in 1..Len(v5.sent)
       PROVE  IF a[i] <= Len(v8) - 1 THEN v5.sent[i] = w[a[i]]
              ELSE v7[a[i] - (Len(v8) - 1)] = <<"select", v5.sent[i]>>
    <2>1. at[i] \in Nat /\ r \in Nat /\ r >= 1 /\ r <= Len(v8) /\ Len(v8) \in Nat
        BY <1>2, <1>16
    <2>2. CASE at[i] < r
        <3>1. a[i] = at[i] /\ a[i] \in 0..(Len(v8) - 1) /\ a[i] <= Len(v8) - 1
              /\ at[i] <= Len(v8)
            BY <1>10, <2>1, <2>2
        <3>2. w[a[i]] = was[at[i]] BY <1>6, <2>2, <3>1
        <3>3. QED BY <1>9, <3>1, <3>2
    <2>3. CASE ~ (at[i] < r) /\ at[i] <= Len(v8)
        <3>1. a[i] = at[i] - 1 /\ a[i] \in 0..(Len(v8) - 1) /\ a[i] <= Len(v8) - 1
            BY <1>10, <2>1, <2>3
        <3>2. w[a[i]] = was[at[i]]
            <4>1. CASE at[i] = r BY <1>5, <1>6, <2>1, <3>1, <4>1
            <4>2. CASE at[i] # r
                <5>1. ~ (a[i] < r) /\ a[i] + 1 = at[i] BY <2>1, <2>3, <3>1, <4>2
                <5>2. QED BY <1>6, <3>1, <5>1
            <4>3. QED BY <4>1, <4>2
        <3>3. QED BY <1>9, <2>3, <3>1, <3>2
    <2>4. CASE ~ (at[i] <= Len(v8))
        <3>1. /\ a[i] = at[i] - 1 /\ ~ (a[i] <= Len(v8) - 1)
              /\ a[i] - (Len(v8) - 1) = at[i] - Len(v8)
            BY <1>10, <2>1, <2>4
        <3>2. QED BY <1>9, <2>4, <3>1
    <2>5. QED BY <2>2, <2>3, <2>4
<1>14. F!At(a, w)' BY <1>2, <1>3, <1>11, <1>12, <1>13 DEF F!At
<1>15. QED BY <1>7, <1>14, FocusTracedBy

\* Every step keeps the trace.
LEMMA FocusTracedKeeps == ASSUME FocusApart, F!Typed, F!Reading, F!Traced, F!Next PROVE F!Traced'
<1>1. ASSUME NEW p \in FocusPanes, F!UserFocus(p) PROVE F!Traced'
    BY <1>1, FocusTracedSame DEF F!UserFocus
<1>2. ASSUME NEW k \in F!Kinds, F!Key(k) PROVE F!Traced'
    <2>1. <<k>> \in F!Sent BY DEF F!Kinds, F!Sent
    <2>2. v5'.sent = v5.sent BY <1>2 DEF F!Key, F!Forgets, F!Typed
    <2>3. QED BY <1>2, <2>1, <2>2, FocusTracedSame DEF F!Key
<1>3. CASE F!Take
    <2>1. <<"read">> \in F!Sent BY DEF F!Sent
    <2>2. QED BY <1>3, <2>1, FocusTracedSame DEF F!Take
<1>4. CASE F!Note
    <2>1. v5'.sent = v5.sent BY <1>4 DEF F!Note, F!Noted, F!Typed
    <2>2. QED BY <1>4, <2>1, FocusTracedSame DEF F!Note
<1>5. CASE F!Focus BY <1>5, FocusTracedSame DEF F!Focus
<1>6. QED
    BY <1>1, <1>2, <1>3, <1>4, <1>5, FocusOuterTraced, FocusHookTraced, FocusRunsTraced,
       FocusLineTraced,
             FocusReplyTraced DEF F!Next

\* The pane believed active stays so, or commanded.
LEMMA FocusBelievedSame ==
    ASSUME F!Typed, F!Believed, UNCHANGED v8, v2'.act = v2.act,
           v5'.rem \in {v5.rem, Null},
           UNCHANGED v7 \/ \E c \in F!Sent : v7' = Append(v7, c),
           v9'.at = "note" => v9.at = "note" /\ v9'.pane = v9.pane
    PROVE  F!Believed'
<1>1. \A i \in DOMAIN v7 : i \in DOMAIN v7' /\ v7'[i] = v7[i]
    <2>1. CASE UNCHANGED v7 BY <2>1
    <2>2. ASSUME NEW c \in F!Sent, v7' = Append(v7, c)
          PROVE  \A i \in DOMAIN v7 : i \in DOMAIN v7' /\ v7'[i] = v7[i]
        BY <2>2, FocusOneMoreOut
    <2>3. QED BY <2>1, <2>2
<1>2. F!NoReport' => F!NoReport BY DEF F!NoReport
<1>3. QED BY <1>1, <1>2 DEF F!Believed

\* A request is planned: the pane it believes in is commanded.
LEMMA FocusHookBelieved ==
    ASSUME FocusApart, F!Typed, F!Believed, NEW h \in v3, F!Hook(h)
    PROVE  F!Believed'
<1>1. /\ h.pane \in FocusPanes /\ UNCHANGED <<v2, v8, v9>>
      /\ \/ UNCHANGED <<v5, v7>>
         \/ /\ v5'.rem = h.pane
            /\ \/ v5.rem = h.pane /\ UNCHANGED v7
               \/ v7' = Append(v7, <<"select", h.pane>>)
    BY FocusHookFacts
<1>2. CASE UNCHANGED v7 /\ v5'.rem = v5.rem
    BY <1>1, <1>2, FocusBelievedSame
<1>3. CASE v5'.rem = h.pane /\ v7' = Append(v7, <<"select", h.pane>>)
    <2>1. <<"select", h.pane>> \in F!Sent BY <1>1 DEF F!Sent
    <2>2. /\ Len(v7) \in Nat /\ DOMAIN v7' = 1..(Len(v7) + 1)
          /\ v7'[Len(v7) + 1] = <<"select", h.pane>>
        BY <1>3, <2>1, FocusOneMoreOut
    <2>3. Len(v7) + 1 \in DOMAIN v7' BY <2>2
    <2>4. QED BY <1>1, <1>3, <2>2, <2>3 DEF F!Believed, F!NoReport
<1>4. QED BY <1>1, <1>2, <1>3

\* The remote runs a command: the pane it makes active is reported.
LEMMA FocusRunsBelieved == ASSUME FocusApart, F!Typed, F!Believed, F!RemoteRuns PROVE F!Believed'
<1>1. /\ Len(v7) \in Nat \ {0} /\ v7[1] \in F!Sent
      /\ Len(v7') = Len(v7) - 1 /\ \A k \in 1..(Len(v7) - 1) : v7'[k] = v7[k + 1]
      /\ \A p \in FocusPanes : v7[1] = <<"select", p>> => v2'.act = p
      /\ \/ /\ v7[1] = <<"read">> /\ v2' = v2
            /\ v8' = Append(v8, <<"layout", v2>>)
         \/ /\ v7[1][1] # "read" /\ v2'.act = v2.act /\ v8' = v8
         \/ /\ v7[1][1] # "read" /\ v2'.act # v2.act /\ v2'.act \in FocusPanes
            /\ v8' = Append(v8, <<"report", v2'.act>>)
    BY FocusRunFacts
<1>2. UNCHANGED <<v5, v9>> /\ v5.rem \in FocusPanes \union {Null} /\ Null \notin FocusPanes
    BY DEF F!RemoteRuns, F!Typed, FocusApart
<1> SUFFICES ASSUME F!NoReport'
             PROVE  /\ \/ v5.rem \in {Null, v2'.act}
                       \/ \E i \in DOMAIN v7' : v7'[i] = <<"select", v5.rem>>
                    /\ v9.at = "note" => v9.pane = v2'.act
    BY <1>2 DEF F!Believed
<1>3. v2'.act = v2.act /\ F!NoReport
    <2>1. CASE v7[1] = <<"read">> /\ v2' = v2 /\ v8' = Append(v8, <<"layout", v2>>)
        <3>1. <<"layout", v2>> \in F!Told BY DEF F!Told, F!Typed
        <3>2. \A i \in DOMAIN v8 : i \in DOMAIN v8' /\ v8'[i] = v8[i]
            BY <2>1, <3>1, FocusOneMoreLine
        <3>3. QED BY <2>1, <3>2 DEF F!NoReport
    <2>2. CASE v2'.act = v2.act /\ v8' = v8
        BY <2>2 DEF F!NoReport
    <2>3. CASE v2'.act \in FocusPanes /\ v8' = Append(v8, <<"report", v2'.act>>)
        <3>1. <<"report", v2'.act>> \in F!Told BY <2>3 DEF F!Told
        <3>2. /\ Len(v8) \in Nat /\ DOMAIN v8' = 1..(Len(v8) + 1)
              /\ v8'[Len(v8) + 1] = <<"report", v2'.act>>
            BY <2>3, <3>1, FocusOneMoreLine
        <3>3. Len(v8) + 1 \in DOMAIN v8' /\ v8'[Len(v8) + 1][1] = "report"
            BY <3>2
        <3>4. QED BY <3>3 DEF F!NoReport
    <2>4. QED BY <1>1, <2>1, <2>2, <2>3
<1>4. v9.at = "note" => v9.pane = v2'.act BY <1>3 DEF F!Believed
<1>5. CASE v5.rem \in {Null, v2.act} BY <1>3, <1>4, <1>5
<1>6. ASSUME NEW i \in DOMAIN v7, v7[i] = <<"select", v5.rem>>, v5.rem # Null
      PROVE  \/ v5.rem = v2'.act
             \/ \E k \in DOMAIN v7' : v7'[k] = <<"select", v5.rem>>
    <2>1. DOMAIN v7 = 1..Len(v7) BY DEF F!Typed
    <2>2. CASE i = 1 BY <1>1, <1>2, <1>6, <2>2
    <2>3. CASE i # 1
        <3>1. i - 1 \in 1..(Len(v7) - 1) /\ (i - 1) + 1 = i BY <1>1, <2>1, <2>3
        <3>2. DOMAIN v7' = 1..(Len(v7) - 1)
            <4>1. v7' \in Seq(F!Sent)
                <5>1. v7 \in Seq(F!Sent) BY DEF F!Typed
                <5>2. v7' = Tail(v7) /\ v7 # <<>> BY DEF F!RemoteRuns
                <5>3. QED BY <5>1, <5>2
            <4>2. QED BY <1>1, <4>1
        <3>3. v7'[i - 1] = v7[i] BY <1>1, <3>1
        <3>4. QED BY <1>6, <3>1, <3>2, <3>3
    <2>4. QED BY <2>2, <2>3
<1>7. QED BY <1>3, <1>4, <1>5, <1>6 DEF F!Believed

\* The last report tells the pane that is active.
LEMMA FocusLineBelieved == ASSUME FocusApart, F!Typed, F!Reading, F!Traced, F!Line PROVE F!Believed'
<1>1. /\ Len(v8) \in Nat \ {0} /\ Len(v8') = Len(v8) - 1 /\ v8' \in Seq(F!Told)
      /\ \A k \in 1..(Len(v8) - 1) : v8'[k] = v8[k + 1]
      /\ v8[1][2] \in FocusPanes /\ v5' = F!Reported(v5, v8[1][2]) /\ Head(v8) = v8[1]
      /\ \A i \in 1..Len(v8) : v8[i][1] = "report"
    BY FocusLineFacts
<1>2. UNCHANGED v2 /\ v5'.rem = v8[1][2]
    BY <1>1, FocusReportFacts DEF F!Line
<1>3. v9'.at = "note" => v9'.pane = v8[1][2]
    BY <1>1 DEF F!Line
<1>4. F!NoReport' => Len(v8) = 1
    <2>1. Len(v8) # 1 => 1 \in DOMAIN v8' /\ v8'[1][1] = "report"
        <3>1. Len(v8) # 1 => 1 \in 1..(Len(v8) - 1) /\ 1 + 1 \in 1..Len(v8) BY <1>1
        <3>2. QED BY <1>1, <3>1
    <2>2. QED BY <2>1 DEF F!NoReport
<1>5. Len(v8) = 1 => v8[1][2] = v2.act
    <2>1. PICK was : F!Was(was) BY DEF F!Traced
    <2>2. Len(v8) = 1 => v8[1][2] = was[1] /\ was[1] = v2.act BY <1>1, <2>1 DEF F!Was
    <2>3. QED BY <2>2
<1>6. QED BY <1>2, <1>3, <1>4, <1>5 DEF F!Believed

\* So does the reply, when no report is behind it.
LEMMA FocusReplyBelieved ==
    ASSUME FocusApart, F!Typed, F!Reading, F!Believed, F!Traced, F!ReadReply
    PROVE  F!Believed'
<1>1. PICK r \in 1..Len(v8) :
         /\ v8[r][1] = "layout"
         /\ Len(v8) \in Nat \ {0} /\ v8' \in Seq(F!Told) /\ Len(v8') = Len(v8) - 1
         /\ \A k \in 1..(Len(v8) - 1) : v8'[k] = IF k < r THEN v8[k] ELSE v8[k + 1]
         /\ \A k \in 1..Len(v8) : k # r => v8[k][1] = "report"
         /\ v9' = IF v8[r][2].order # v1.order
                  THEN [at |-> "note", pane |-> v8[r][2].act] ELSE F!Rest
    BY FocusReplyFacts
<1>2. UNCHANGED <<v2, v7, v5>> BY DEF F!ReadReply
<1>3. F!NoReport' => Len(v8) = 1
    <2> SUFFICES ASSUME Len(v8) # 1 PROVE \E i \in DOMAIN v8' : v8'[i][1] = "report"
        BY DEF F!NoReport
    <2>1. DOMAIN v8' = 1..(Len(v8) - 1) /\ 1 \in 1..(Len(v8) - 1) BY <1>1
    <2>2. CASE r = 1
        <3>1. v8'[1] = v8[1 + 1] /\ 1 + 1 \in 1..Len(v8) /\ 1 + 1 # r
            BY <1>1, <2>1, <2>2
        <3>2. QED BY <1>1, <2>1, <3>1
    <2>3. CASE r # 1
        <3>1. v8'[1] = v8[1] /\ 1 \in 1..Len(v8) /\ 1 # r BY <1>1, <2>1, <2>3
        <3>2. QED BY <1>1, <2>1, <3>1
    <2>4. QED BY <2>2, <2>3
<1>4. Len(v8) = 1 => F!NoReport /\ v8[r][2].act = v2.act
    <2>1. PICK was : F!Was(was) BY DEF F!Traced
    <2>2. DOMAIN v8 = 1..Len(v8) BY DEF F!Typed
    <2>3. Len(v8) = 1 => r = 1 /\ v8[1][2].act = was[1] /\ was[1] = v2.act
        BY <1>1, <2>1 DEF F!Was
    <2>4. Len(v8) = 1 => F!NoReport BY <1>1, <2>2 DEF F!NoReport
    <2>5. QED BY <2>3, <2>4
<1>5. v9'.at = "note" => v9'.pane = v8[r][2].act BY <1>1 DEF F!Rest
<1>6. QED BY <1>2, <1>3, <1>4, <1>5 DEF F!Believed

\* Every step keeps what is known of the remote side.
LEMMA FocusBelievedKeeps == ASSUME FocusApart, F!Typed, F!Reading, F!Believed, F!Traced, F!Next
    PROVE F!Believed'
<1>1. ASSUME NEW p \in FocusPanes, F!UserFocus(p) PROVE F!Believed'
    BY <1>1, FocusBelievedSame DEF F!UserFocus
<1>2. ASSUME NEW p \in FocusPanes, F!OuterFocus(p) PROVE F!Believed'
    <2>1. <<"report", p>> \in F!Told BY DEF F!Told
    <2>2. /\ Len(v8) \in Nat /\ DOMAIN v8' = 1..(Len(v8) + 1)
          /\ v8'[Len(v8) + 1] = <<"report", p>>
        BY <1>2, <2>1, FocusOneMoreLine DEF F!OuterFocus
    <2>3. Len(v8) + 1 \in DOMAIN v8' /\ v8'[Len(v8) + 1][1] = "report" BY <2>2
    <2>4. ~ F!NoReport' BY <2>3 DEF F!NoReport
    <2>5. QED BY <2>4 DEF F!Believed
<1>3. ASSUME NEW k \in F!Kinds, F!Key(k) PROVE F!Believed'
    <2>1. <<k>> \in F!Sent BY DEF F!Kinds, F!Sent
    <2>2. v5'.rem \in {v5.rem, Null} BY <1>3 DEF F!Key, F!Forgets, F!Typed
    <2>3. UNCHANGED <<v8, v2, v9>> /\ v7' = Append(v7, <<k>>) BY <1>3 DEF F!Key
    <2>4. QED BY <2>1, <2>2, <2>3, FocusBelievedSame
<1>4. CASE F!Take
    <2>1. <<"read">> \in F!Sent BY DEF F!Sent
    <2>2. UNCHANGED <<v8, v2, v5>> /\ v7' = Append(v7, <<"read">>) /\ v9'.at # "note"
        BY <1>4 DEF F!Take, F!Rest
    <2>3. QED BY <2>1, <2>2, FocusBelievedSame
<1>5. CASE F!Note
    <2>1. /\ v9.at = "note" /\ v5'.rem = v9.pane /\ v9'.at # "note"
          /\ UNCHANGED <<v2, v8, v7>>
        BY <1>5 DEF F!Note, F!Noted, F!Typed
    <2>2. F!NoReport' => F!NoReport BY <2>1 DEF F!NoReport
    <2>3. QED BY <2>1, <2>2 DEF F!Believed
<1>6. CASE F!Focus
    <2>1. UNCHANGED <<v8, v2, v5, v7>> /\ v9'.at # "note" BY <1>6 DEF F!Focus, F!Rest
    <2>2. QED BY <2>1, FocusBelievedSame
<1>7. QED
    BY <1>1, <1>2, <1>3, <1>4, <1>5, <1>6, FocusHookBelieved, FocusRunsBelieved, FocusLineBelieved,
             FocusReplyBelieved DEF F!Next

\* The last move is made.
LEMMA FocusLastUser ==
    ASSUME FocusApart, F!Typed, F!Lately, NEW p \in FocusPanes, F!UserFocus(p), F!Quiet
    PROVE  F!LastMove'
<1>1. /\ p # v1.act /\ F!Select(p) /\ UNCHANGED <<v5, v6, v7, v8, v9>>
      /\ v3 = {} /\ v7 = <<>> /\ v8 = <<>> /\ v9 = F!Rest /\ ~ v6
    BY DEF F!UserFocus, F!Quiet
<1>2. /\ v1'.act = p /\ v4' = v4 + 1 /\ v4 \in Nat /\ v5.seq \in Nat
      /\ v3' = v3 \union {[pane |-> p, seq |-> v4]}
    BY <1>1, FocusSelectFacts DEF F!Typed
<1>3. v3' = {[pane |-> v1'.act, seq |-> v4' - 1]} /\ v5'.seq < v4' - 1
    <2>1. v4' - 1 = v4 BY <1>2
    <2>2. v5.seq <= v4 - 1 BY DEF F!Lately
    <2>3. QED BY <1>1, <1>2, <2>1, <2>2
<1>4. QED BY <1>1, <1>3 DEF F!LastMove

\* The last move, made at the remote.
LEMMA FocusLastOuter ==
    ASSUME FocusApart, F!Typed, F!Traced, NEW p \in FocusPanes, F!OuterFocus(p), F!Quiet
    PROVE  F!LastMove'
<1>1. /\ p # v2.act /\ v2' = [v2 EXCEPT !.act = p] /\ v8' = Append(v8, <<"report", p>>)
      /\ UNCHANGED <<v1, v3, v5, v6, v7, v9>>
      /\ v3 = {} /\ v7 = <<>> /\ v8 = <<>> /\ v9 = F!Rest /\ ~ v6
    BY DEF F!OuterFocus, F!Quiet
<1>2. v2'.act = p BY <1>1 DEF F!Typed, F!Windows
<1>3. v8' = <<<<"report", v2'.act>>>> BY <1>1, <1>2
<1>4. \A i \in 1..Len(v5.sent) : v5.sent[i] = v2.act
    <2>1. PICK was, at : F!Was(was) /\ F!At(at, was) BY DEF F!Traced
    <2>2. Len(v8) = 0 /\ Len(v7) = 0 BY <1>1
    <2>3. was[0] = v2.act BY <2>1, <2>2 DEF F!Was
    <2>4. at \in [1..Len(v5.sent) -> 0..(0 + 0)] BY <2>1, <2>2 DEF F!At
    <2>5. \A i \in 1..Len(v5.sent) : at[i] = 0 BY <2>4
    <2>6. \A i \in 1..Len(v5.sent) : at[i] <= Len(v8) => v5.sent[i] = was[at[i]]
        BY <2>1 DEF F!At
    <2>7. QED BY <2>2, <2>3, <2>5, <2>6
<1>5. QED BY <1>1, <1>2, <1>3, <1>4 DEF F!LastMove, F!Still

\* What follows the last move.
LEMMA FocusLastHook ==
    ASSUME FocusApart, F!Typed, F!Believed, F!LastMove, NEW h \in v3, F!Hook(h)
    PROVE  F!LastMove'
<1>1. /\ v3 = {[pane |-> v1.act, seq |-> v4 - 1]} /\ v5.seq < v4 - 1
      /\ ~ v6 /\ v7 = <<>> /\ v8 = <<>> /\ v9 = F!Rest
    BY DEF F!LastMove, F!Still
<1>2. h.pane = v1.act /\ h.seq = v4 - 1 BY <1>1
<1>3. /\ v3' = {} /\ UNCHANGED <<v1, v2, v6, v8, v9>>
      /\ v5'.loc = v1.act
      /\ \/ v5.rem = v1.act /\ UNCHANGED v7
         \/ v7' = Append(v7, <<"select", v1.act>>)
    <2>1. v4 \in Nat /\ v5.seq \in Nat BY DEF F!Typed
    <2>2. ~ (h.seq <= v5.seq) BY <1>1, <1>2, <2>1
    <2>3. v3' = {} BY <1>1, FocusHookFacts
    <2>4. QED BY <1>2, <2>2, <2>3, FocusHookFacts
<1>4. CASE v5.rem = v1.act /\ UNCHANGED v7
    <2>1. v1.act \in FocusPanes /\ Null \notin FocusPanes BY DEF F!Typed, F!Windows, FocusApart
    <2>2. F!NoReport BY <1>1 DEF F!NoReport
    <2>3. v5.rem \in {Null, v2.act} BY <1>1, <2>2 DEF F!Believed
    <2>4. v2.act = v1.act BY <1>4, <2>1, <2>3
    <2>5. QED BY <1>1, <1>3, <1>4, <2>4 DEF F!LastMove, F!Still
<1>5. CASE v7' = Append(v7, <<"select", v1.act>>)
    <2>1. v7' = <<<<"select", v1.act>>>> BY <1>1, <1>5
    <2>2. QED BY <1>1, <1>3, <2>1 DEF F!LastMove
<1>6. QED BY <1>3, <1>4, <1>5

\* The last move, run by the remote.
LEMMA FocusLastRuns == ASSUME FocusApart, F!Typed, F!LastMove, F!RemoteRuns PROVE F!LastMove'
<1>1. v7 # <<>> /\ v7' = Tail(v7) /\ UNCHANGED <<v1, v3, v5, v6, v9>>
    BY DEF F!RemoteRuns
<1>2. /\ v3 = {} /\ v7 = <<<<"select", v1.act>>>> /\ v5.loc = v1.act
      /\ ~ v6 /\ v8 = <<>> /\ v9 = F!Rest
    BY <1>1 DEF F!LastMove, F!Still
<1>3. v1.act \in FocusPanes /\ v7[1] = <<"select", v1.act>> /\ v7' = <<>>
    BY <1>1, <1>2 DEF F!Typed, F!Windows
<1>4. /\ v2'.act = v1.act
      /\ v8' = v8 \/ v8' = Append(v8, <<"report", v2'.act>>)
    <2>1. v7[1][1] = "select" BY <1>3
    <2>2. v7[1] # <<"read">> BY <2>1
    <2>3. QED BY <1>3, <2>2, FocusRunFacts
<1>5. v8' \in {<<>>, <<<<"report", v1.act>>>>} BY <1>2, <1>4
<1>6. QED BY <1>1, <1>2, <1>3, <1>4, <1>5 DEF F!LastMove, F!Still

\* The last move, reported.
LEMMA FocusLastLine == ASSUME FocusApart, F!Typed, F!Reading, F!Lately, F!LastMove, F!Line
    PROVE F!LastMove'
<1>1. /\ v8 # <<>> /\ v8' = Tail(v8) /\ UNCHANGED <<v1, v2, v3, v6, v7>>
      /\ v5' = F!Reported(v5, v8[1][2]) /\ v8[1][2] \in FocusPanes
      /\ v9' = IF F!Follows(v5, v8[1][2]) THEN [at |-> "note", pane |-> v8[1][2]] ELSE v9
    BY FocusLineFacts DEF F!Line
<1>2. \/ /\ v2.act = v1.act /\ v5.loc = v1.act /\ v8 = <<<<"report", v1.act>>>>
      \/ /\ v8 = <<<<"report", v2.act>>>>
         /\ \A i \in 1..Len(v5.sent) : v5.sent[i] # v2.act
    BY <1>1 DEF F!LastMove
<1>3. F!Still /\ v9 = F!Rest BY <1>1 DEF F!LastMove
<1>4. v8[1][2] = v2.act /\ v8' = <<>> /\ F!Still'
    <2>1. v8 = <<<<"report", v2.act>>>> BY <1>2
    <2>2. QED BY <1>1, <1>3, <2>1 DEF F!Still
<1>5. \/ /\ ~ F!Follows(v5, v2.act) /\ v5'.loc = v5.loc
         /\ \E j \in 1..Len(v5.sent) : v5.sent[j] = v2.act
      \/ v5'.loc = v2.act /\ (F!Follows(v5, v2.act) \/ v2.act = v5.loc)
    BY <1>1, <1>4, FocusReportFacts
<1>6. CASE v2.act = v1.act /\ v5.loc = v1.act
    <2>1. ~ F!Follows(v5, v2.act) BY <1>6 DEF F!Follows
    <2>2. v5'.loc = v1.act /\ v9' = F!Rest BY <1>1, <1>3, <1>4, <1>5, <1>6, <2>1
    <2>3. QED BY <1>1, <1>4, <1>6, <2>2 DEF F!LastMove
<1>7. CASE \A i \in 1..Len(v5.sent) : v5.sent[i] # v2.act
    <2>1. v5'.loc = v2.act /\ (F!Follows(v5, v2.act) \/ v2.act = v5.loc) BY <1>5, <1>7
    <2>2. CASE F!Follows(v5, v2.act)
        <3>1. v9' = [at |-> "note", pane |-> v2.act] BY <1>1, <1>4, <2>2
        <3>2. v9'.at = "note" /\ v9'.pane = v2.act BY <3>1
        <3>3. QED BY <1>1, <1>4, <3>2 DEF F!LastMove
    <2>3. CASE v2.act = v5.loc /\ ~ F!Follows(v5, v2.act)
        <3>1. v9' = F!Rest BY <1>1, <1>3, <1>4, <2>3
        <3>2. v5.loc = v1.act
            <4>1. v3 = {} /\ v9.at = "rest" BY <1>3 DEF F!Still, F!Rest
            <4>2. QED BY <4>1 DEF F!Lately
        <3>3. QED BY <1>1, <1>4, <2>1, <2>3, <3>1, <3>2 DEF F!LastMove
    <2>4. QED BY <2>1, <2>2, <2>3
<1>8. QED BY <1>2, <1>6, <1>7

\* The last move, followed by the local focus.
LEMMA FocusLastFocus == ASSUME FocusApart, F!Typed, F!Lately, F!LastMove, F!Note \/ F!Focus
    PROVE F!LastMove'
<1>1. F!Still /\ v8 = <<>> /\ v9.pane = v2.act /\ v9.at \in {"note", "select"}
    <2>1. v9.at \in {"note", "select"} BY DEF F!Note, F!Focus
    <2>2. v9 # F!Rest BY <2>1 DEF F!Rest
    <2>3. QED BY <2>1, <2>2 DEF F!LastMove
<1>2. CASE F!Note
    <2>1. v9'.at = "select" /\ v9'.pane = v9.pane /\ UNCHANGED <<v2, v3, v6, v7, v8>>
        BY <1>2 DEF F!Note, F!Typed
    <2>2. QED BY <1>1, <2>1 DEF F!LastMove, F!Still
<1>3. CASE F!Focus
    <2>1. /\ F!Select(v9.pane) /\ v9' = F!Rest /\ UNCHANGED <<v2, v5, v6, v7, v8>>
          /\ v9.at = "select" /\ v2.act \in FocusPanes
        BY <1>3 DEF F!Focus, F!Typed, F!Windows
    <2>2. /\ v1'.act = v2.act /\ v4 \in Nat /\ v5.seq \in Nat
          /\ v2.act = v1.act => UNCHANGED <<v3, v4>>
          /\ v2.act # v1.act => /\ v3' = v3 \union {[pane |-> v2.act, seq |-> v4]}
                                /\ v4' = v4 + 1
        BY <1>1, <2>1, FocusSelectFacts DEF F!Typed
    <2>3. CASE v2.act = v1.act
        <3>1. v5.loc = v1.act BY <1>1, <2>1, <2>3 DEF F!Lately, F!Still
        <3>2. F!Still' BY <1>1, <2>1, <2>2, <2>3 DEF F!Still
        <3>3. QED BY <1>1, <2>1, <2>2, <2>3, <3>1, <3>2 DEF F!LastMove
    <2>4. CASE v2.act # v1.act
        <3>1. v4' - 1 = v4 /\ v5'.seq < v4' - 1
            <4>1. v5.seq <= v4 - 1 BY DEF F!Lately
            <4>2. QED BY <2>1, <2>2, <2>4, <4>1
        <3>2. v3' = {[pane |-> v1'.act, seq |-> v4' - 1]}
            BY <1>1, <2>2, <2>4, <3>1 DEF F!Still
        <3>3. QED BY <1>1, <2>1, <3>1, <3>2 DEF F!LastMove, F!Still
    <2>5. QED BY <2>3, <2>4
<1>4. QED BY <1>2, <1>3

\* Every step keeps what is known of the last move.
LEMMA FocusEndedKeeps ==
    ASSUME FocusApart, F!Typed, F!Reading, F!Lately, F!Believed, F!Traced, F!Ended, F!Next
    PROVE  F!Ended'
<1>0. DOMAIN v10 = {"focus", "outer", "keys", "last"} BY DEF F!Typed
<1>1. ASSUME NEW who \in {"focus", "outer"}, F!Moves(who), F!Quiet => F!LastMove' PROVE F!Ended'
    <2>1. /\ DOMAIN v10' = {"focus", "outer", "keys", "last"}
          /\ \/ v10[who] > 0 /\ v10'.last = v10.last
             \/ F!Quiet /\ v10.last > 0 /\ \A a \in DOMAIN v10' : v10'[a] = 0
        BY <1>1, FocusMovesFacts
    <2>2. ~ (v10[who] > 0 /\ v10.last = 0)
        <3>1. v10.last = 0 => v10[who] = 0 BY <1>0, <1>1 DEF F!Ended
        <3>2. QED BY <3>1
    <2>3. QED BY <1>1, <2>1, <2>2 DEF F!Ended
<1>2. ASSUME NEW p \in FocusPanes, F!UserFocus(p) PROVE F!Ended'
    <2>1. F!Moves("focus") BY <1>2 DEF F!UserFocus
    <2>2. QED BY <1>1, <1>2, <2>1, FocusLastUser
<1>3. ASSUME NEW p \in FocusPanes, F!OuterFocus(p) PROVE F!Ended'
    <2>1. F!Moves("outer") BY <1>3 DEF F!OuterFocus
    <2>2. QED BY <1>1, <1>3, <2>1, FocusLastOuter
<1>4. ASSUME NEW k \in F!Kinds, F!Key(k) PROVE F!Ended'
    <2>1. v10.keys > 0 /\ v10'.last = v10.last BY <1>4, FocusKeyFacts DEF F!Key
    <2>2. v10.last = 0 => v10.keys = 0 BY <1>0 DEF F!Ended
    <2>3. v10'.last # 0 BY <2>1, <2>2
    <2>4. QED BY <2>3 DEF F!Ended
<1>5. ASSUME UNCHANGED v10, F!LastMove => F!LastMove' PROVE F!Ended' BY <1>5 DEF F!Ended
<1>6. CASE F!RemoteRuns BY <1>5, <1>6, FocusLastRuns DEF F!RemoteRuns
<1>7. ASSUME NEW h \in v3, F!Hook(h) PROVE F!Ended' BY <1>5, <1>7, FocusLastHook DEF F!Hook
<1>8. CASE F!Line BY <1>5, <1>8, FocusLastLine DEF F!Line
<1>9. CASE F!Take
    <2>1. ~ F!LastMove BY <1>9 DEF F!Take, F!LastMove, F!Still
    <2>2. QED BY <1>5, <1>9, <2>1 DEF F!Take
<1>10. CASE F!ReadReply
    <2>1. v9.at = "read" BY <1>10 DEF F!ReadReply
    <2>2. ~ F!LastMove BY <2>1 DEF F!LastMove, F!Rest
    <2>3. QED BY <1>5, <1>10, <2>2 DEF F!ReadReply
<1>11. CASE F!Note \/ F!Focus BY <1>5, <1>11, FocusLastFocus DEF F!Note, F!Focus
<1>12. QED BY <1>2, <1>3, <1>4, <1>6, <1>7, <1>8, <1>9, <1>10, <1>11 DEF F!Next

\* The invariant holds at the start.
LEMMA FocusInitInv == ASSUME FocusApart, F!Init PROVE F!IInv
<1> USE DEF F!Init
<1>1. F!FirstPane \in FocusPanes BY DEF F!FirstPane, FocusApart
<1>2. F!Typed
    <2>1. v1 \in F!Windows BY <1>1 DEF F!Win0, F!Windows
    <2>2. v5 \in [loc : FocusPanes, rem : FocusPanes \union {Null}, sent : Seq(FocusPanes),
                  seq : Nat]
        BY <1>1
    <2>3. /\ DOMAIN v10 = {"focus", "outer", "keys", "last"}
          /\ \A a \in DOMAIN v10 : v10[a] \in Nat
        BY DEF FocusApart
    <2>4. v7 \in Seq(F!Sent) /\ v8 \in Seq(F!Told) OBVIOUS
    <2>5. /\ DOMAIN v9 = {"at", "pane"} /\ v9.at = "rest" /\ v9 = F!Rest
        BY DEF F!Rest
    <2>6. QED BY <2>1, <2>2, <2>3, <2>4, <2>5 DEF F!Typed
<1>3. DOMAIN v7 = {} /\ DOMAIN v8 = {} /\ Len(v7) = 0 /\ Len(v8) = 0 OBVIOUS
<1>4. F!Reading BY <1>3 DEF F!Reading
<1>5. F!Lately BY DEF F!Lately, F!Win0
<1>6. F!Believed
    <2>1. v9.at # "note" BY DEF F!Rest
    <2>2. QED BY <2>1 DEF F!Believed, F!Win0
<1>7. F!Traced
    <2>1. PICK was : was = [x \in 0..0 |-> v2.act] OBVIOUS
    <2>2. PICK at : at = [i \in 1..0 |-> 0] OBVIOUS
    <2>3. F!Was(was)
        <3>1. v2.act \in FocusPanes BY <1>1 DEF F!Win0
        <3>2. QED BY <1>3, <2>1, <3>1 DEF F!Was
    <2>4. F!At(at, was)
        <3>1. Len(v5.sent) = 0 /\ 1..0 = {} OBVIOUS
        <3>2. QED BY <1>3, <2>2, <3>1 DEF F!At
    <2>5. was \in [0..Len(v8) -> FocusPanes] BY <2>3 DEF F!Was
    <2>6. at \in [1..Len(v5.sent) -> 0..(Len(v8) + Len(v7))] BY <2>4 DEF F!At
    <2>7. QED BY <2>3, <2>4, <2>5, <2>6 DEF F!Traced
<1>8. F!Ended BY DEF F!Ended
<1>9. QED BY <1>2, <1>4, <1>5, <1>6, <1>7, <1>8 DEF F!IInv

\* No step.
LEMMA FocusSameKeeps == ASSUME F!IInv, UNCHANGED F!fvars PROVE F!IInv'
<1>1. UNCHANGED <<v1, v2, v3, v4, v5, v6, v7, v8, v9, v10>> BY DEF F!fvars
<1>2. F!Typed' BY <1>1 DEF F!IInv, F!Typed
<1>3. F!Reading' BY <1>1, FocusReadingSame DEF F!IInv
<1>4. F!Lately' BY <1>1 DEF F!IInv, F!Lately
<1>5. F!Believed' BY <1>1 DEF F!IInv, F!Believed, F!NoReport
<1>6. F!Traced' BY <1>1, FocusTracedSame DEF F!IInv
<1>7. F!Ended'
    <2>1. F!LastMove = F!LastMove' BY <1>1 DEF F!LastMove, F!Still
    <2>2. QED BY <1>1, <2>1 DEF F!IInv, F!Ended
<1>8. QED BY <1>2, <1>3, <1>4, <1>5, <1>6, <1>7 DEF F!IInv

\* Every step of the two sides and of the daemon keeps the invariant.
LEMMA FocusNextKeeps == ASSUME FocusApart, F!IInv, F!Next PROVE F!IInv'
BY FocusTypedKeeps, FocusReadingKeeps, FocusLatelyKeeps, FocusBelievedKeeps, FocusTracedKeeps,
   FocusEndedKeeps DEF F!IInv

\* The invariant gives the property.
LEMMA FocusInvHeals == ASSUME F!IInv PROVE F!Heals
<1> SUFFICES ASSUME F!Quiet
             PROVE  /\ v1.order = v2.order /\ v1.shape = v2.shape
                    /\ v10.last = 0 => v1.act = v2.act
    BY DEF F!Heals
<1>1. v3 = {} /\ v7 = <<>> /\ v8 = <<>> /\ v9 = F!Rest /\ ~ v6 BY DEF F!Quiet
<1>2. v1.order = v2.order /\ v1.shape = v2.shape
    <2>1. DOMAIN v7 = {} /\ DOMAIN v8 = {} BY <1>1
    <2>2. QED BY <1>1, <2>1 DEF F!IInv, F!Reading
<1>3. F!LastMove => v1.act = v2.act
    <2>1. v9.at = "rest" BY <1>1 DEF F!Rest
    <2>2. v8 # <<<<"report", v2.act>>>> /\ v7 # <<<<"select", v1.act>>>> BY <1>1
    <2>3. QED BY <1>1, <2>1, <2>2 DEF F!LastMove
<1>4. QED BY <1>2, <1>3 DEF F!IInv, F!Ended

\* Every step, and none.
LEMMA FocusStepKeeps == FocusApart /\ F!IInv /\ [F!Next]_(F!fvars) => F!IInv'
BY FocusNextKeeps, FocusSameKeeps

\* Of a behaviour of this part.
FocusInv == part = "focus" => F!IInv

(* For any panes, moves, keybinds and queue of commanded panes: however the *)
(* hooks and the reports interleaved, once all is quiet no keybind's effect *)
(* stays unread, and the next focus move made on either side alone brings   *)
(* both windows to the same pane (focus.go, ctl.go).                        *)
THEOREM FocusHeals ==
    ASSUME FocusPanes # {}, Null \notin FocusPanes, Commanded \in Nat \ {0},
           MaxFocus \in Nat, MaxOuter \in Nat, MaxBinds \in Nat
    PROVE  AgreedSpec => []Heals
<1>0. FocusApart BY DEF FocusApart
<1>1. AgreedStarts => FocusInv BY <1>0, FocusInitInv DEF AgreedStarts, FocusInv
<1>2. FocusInv /\ [AgreedSteps]_agreed => FocusInv'
    <2> SUFFICES ASSUME FocusInv, [AgreedSteps]_agreed PROVE FocusInv' OBVIOUS
    <2>1. CASE UNCHANGED agreed
        <3>1. UNCHANGED F!fvars /\ UNCHANGED part
            BY <2>1 DEF agreed, F!fvars
        <3>2. QED BY <1>0, <3>1, FocusStepKeeps DEF FocusInv
    <2>2. CASE part # "focus" /\ AgreedSteps BY <2>2 DEF AgreedSteps, FocusInv
    <2>3. CASE part = "focus" /\ F!Next BY <1>0, <2>3, FocusStepKeeps DEF FocusInv
    <2>4. QED BY <2>1, <2>2, <2>3 DEF AgreedSteps
<1>3. FocusInv => Heals BY FocusInvHeals DEF FocusInv, Heals
<1>4. QED BY <1>1, <1>2, <1>3, PTL DEF AgreedSpec

----------------------------------------------------------------------------
(* The statuses.                                                            *)

\* Objects of different kinds differ, and those there are have local ids.
ShipApart ==
    /\ {0, 1, BadRow} \subseteq StatusRows /\ Null \notin StatusRows
    /\ StatusPanes \intersect StatusWins = {}
    /\ (StatusPanes \union StatusWins) \intersect {"res", "usage", "panes", "windows"} = {}
    /\ IsFiniteSet(StatusPanes \union StatusWins) /\ MaxLocals \in Nat
    /\ Cardinality(StatusPanes \union StatusWins) <= MaxLocals

\* A line at the end of the stream.
LEMMA ShipAppend ==
    ASSUME NEW E, NEW q \in Seq(E), NEW e \in E, NEW o
    PROVE  /\ Append(q, e) \in Seq(E)
           /\ S!Carries(Append(q, e), o) <=> S!Carries(q, o) \/ e.obj = o
           /\ \A v : S!Newest(q, o, v) /\ e.obj # o => S!Newest(Append(q, e), o, v)
           /\ e.obj = o => S!Newest(Append(q, e), o, e.row)
           /\ \A v : S!Replies(q, o, v) /\ (e.obj = o => e.rows = v)
              => S!Replies(Append(q, e), o, v)
<1> DEFINE r == Append(q, e)
<1>1. r \in Seq(E) /\ Len(r) = Len(q) + 1 /\ Len(q) \in Nat OBVIOUS
<1>2. \A k \in 1..Len(q) : r[k] = q[k] OBVIOUS
<1>3. r[Len(q) + 1] = e OBVIOUS
<1> HIDE DEF r
<1>4. \A k \in 1..Len(r) : k \in 1..Len(q) \/ k = Len(q) + 1 BY <1>1
<1>5. 1..Len(q) \subseteq 1..Len(r) /\ Len(q) + 1 \in 1..Len(r) BY <1>1
<1>6. S!Carries(r, o) <=> S!Carries(q, o) \/ e.obj = o
    BY <1>2, <1>3, <1>4, <1>5 DEF S!Carries
<1>7. ASSUME NEW v, S!Newest(q, o, v), e.obj # o PROVE S!Newest(r, o, v)
    <2> SUFFICES ASSUME NEW k \in 1..Len(r), r[k].obj = o,
                        \A j \in (k + 1)..Len(r) : r[j].obj # o
                 PROVE  r[k].row = v
        BY DEF S!Newest
    <2>1. k \in 1..Len(q) BY <1>3, <1>4, <1>7
    <2>2. \A j \in (k + 1)..Len(q) : j \in (k + 1)..Len(r) /\ j \in 1..Len(q) BY <1>1, <2>1
    <2>3. QED BY <1>2, <1>7, <2>1, <2>2 DEF S!Newest
<1>8. ASSUME e.obj = o PROVE S!Newest(r, o, e.row)
    <2> SUFFICES ASSUME NEW k \in 1..Len(r), r[k].obj = o,
                        \A j \in (k + 1)..Len(r) : r[j].obj # o
                 PROVE  r[k].row = e.row
        BY DEF S!Newest
    <2>1. k \in 1..Len(q) => Len(q) + 1 \in (k + 1)..Len(r) BY <1>1
    <2>2. QED BY <1>3, <1>4, <1>8, <2>1
<1>9. ASSUME NEW v, S!Replies(q, o, v), e.obj = o => e.rows = v PROVE S!Replies(r, o, v)
    BY <1>2, <1>3, <1>4, <1>9 DEF S!Replies
<1>10. QED BY <1>1, <1>6, <1>7, <1>8, <1>9 DEF r

\* The first line is read.
LEMMA ShipTail ==
    ASSUME NEW E, NEW q \in Seq(E), q # <<>>, NEW o
    PROVE  /\ Tail(q) \in Seq(E) /\ Head(q) \in E
           /\ S!Carries(q, o) <=> S!Carries(Tail(q), o) \/ Head(q).obj = o
           /\ \A v : S!Newest(q, o, v) => S!Newest(Tail(q), o, v)
           /\ \A v : S!Newest(q, o, v) /\ Head(q).obj = o /\ ~S!Carries(Tail(q), o)
              => Head(q).row = v
           /\ \A v : S!Replies(q, o, v) => S!Replies(Tail(q), o, v)
<1> DEFINE r == Tail(q)
<1>1. r \in Seq(E) /\ Len(q) = Len(r) + 1 /\ Len(r) \in Nat OBVIOUS
<1>2. \A k \in 1..Len(r) : r[k] = q[k + 1] OBVIOUS
<1>3. Head(q) = q[1] /\ Head(q) \in E OBVIOUS
<1> HIDE DEF r
<1>4. \A k \in 1..Len(q) : k = 1 \/ (k - 1 \in 1..Len(r) /\ q[k] = r[k - 1]) BY <1>1, <1>2
<1>5. 1 \in 1..Len(q) /\ \A k \in 1..Len(r) : k + 1 \in 1..Len(q) BY <1>1
<1>6. S!Carries(q, o) <=> S!Carries(r, o) \/ Head(q).obj = o
    BY <1>2, <1>3, <1>4, <1>5 DEF S!Carries
<1>7. ASSUME NEW v, S!Newest(q, o, v) PROVE S!Newest(r, o, v)
    <2> SUFFICES ASSUME NEW k \in 1..Len(r), r[k].obj = o,
                        \A j \in (k + 1)..Len(r) : r[j].obj # o
                 PROVE  r[k].row = v
        BY DEF S!Newest
    <2>1. ASSUME NEW j \in (k + 2)..Len(q) PROVE q[j].obj # o
        <3>1. j - 1 \in (k + 1)..Len(r) /\ q[j] = r[j - 1] BY <1>1, <1>2
        <3>2. QED BY <3>1
    <2>2. (k + 1) + 1 = k + 2 OBVIOUS
    <2>3. QED BY <1>2, <1>5, <1>7, <2>1, <2>2 DEF S!Newest
<1>8. ASSUME NEW v, S!Newest(q, o, v), Head(q).obj = o, ~S!Carries(r, o) PROVE Head(q).row = v
    <2>1. ASSUME NEW j \in (1 + 1)..Len(q) PROVE q[j].obj # o
        <3>1. j - 1 \in 1..Len(r) /\ q[j] = r[j - 1] BY <1>1, <1>2
        <3>2. QED BY <1>8, <3>1 DEF S!Carries
    <2>2. QED BY <1>3, <1>5, <1>8, <2>1 DEF S!Newest
<1>9. ASSUME NEW v, S!Replies(q, o, v) PROVE S!Replies(r, o, v)
    BY <1>2, <1>5, <1>9 DEF S!Replies
<1>10. QED BY <1>1, <1>3, <1>6, <1>7, <1>8, <1>9 DEF r

\* An empty stream.
LEMMA ShipEmpty ==
    ASSUME NEW o, NEW v
    PROVE  ~S!Carries(<<>>, o) /\ S!Newest(<<>>, o, v) /\ S!Replies(<<>>, o, v)
BY DEF S!Carries, S!Newest, S!Replies

\* The local objects are counted off.
LEMMA ShipCounts ==
    ASSUME ShipApart
    PROVE  LET O == StatusPanes \union StatusWins
           IN  \E f \in [O -> 1..Cardinality(O)] : \A x, y \in O : f[x] = f[y] => x = y
<1> DEFINE O == StatusPanes \union StatusWins
<1> DEFINE n == Cardinality(O)
<1>1. IsFiniteSet(O) BY DEF ShipApart
<1>2. PICK g : ExistsBijection(1..n, O) /\ g \in Bijection(1..n, O)
    BY <1>1, FS_CardinalityType DEF ExistsBijection
<1> DEFINE f == [x \in O |-> CHOOSE i \in 1..n : g[i] = x]
<1>3. \A x \in O : \E i \in 1..n : g[i] = x BY <1>2 DEF Bijection, Surjection
<1>4. \A x \in O : f[x] \in 1..n /\ g[f[x]] = x BY <1>3
<1>5. f \in [O -> 1..n] BY <1>4
<1>6. \A x, y \in O : f[x] = f[y] => x = y BY <1>4
<1>7. QED BY <1>5, <1>6

\* The library's count, as the module sees it.
LEMMA ShipSizes == ASSUME NEW s PROVE S!Cardinality(s) = Cardinality(s)
BY DEF S!Cardinality, Cardinality, S!IsFiniteSet, IsFiniteSet

\* Nothing has been read, queued or written.
LEMMA ShipInit == ASSUME ShipApart, S!Init PROVE S!IInv
<1> USE DEF ShipApart
<1> DEFINE O == StatusPanes \union StatusWins
<1>1. Cardinality(O) \in Nat BY FS_CardinalityType
<1>2. v6 \in [O -> 1..Cardinality(O)] /\ \A x, y \in O : v6[x] = v6[y] => x = y
    <2>1. v6 = CHOOSE f \in [O -> 1..Cardinality(O)] : \A x, y \in O : f[x] = f[y] => x = y
        BY ShipSizes DEF S!Init
    <2>2. \E f \in [O -> 1..Cardinality(O)] : \A x, y \in O : f[x] = f[y] => x = y
        BY ShipCounts
    <2>3. QED BY <2>1, <2>2
<1> DEFINE n == Cardinality(O)
<1>3. v7 = n + 1 BY ShipSizes DEF S!Init
<1>4. n <= MaxLocals /\ MaxLocals \in Nat OBVIOUS
<1>5. \A o \in O : v6[o] # 0 /\ v6[o] < v7 /\ v6[o] \in 0..MaxLocals
    <2> HIDE DEF n
    <2>1. n \in Nat /\ \A o \in O : v6[o] \in 1..n BY <1>1, <1>2 DEF n
    <2>2. QED BY <1>3, <1>4, <2>1
<1>6. v7 \in 1..(MaxLocals + 1)
    <2> HIDE DEF n
    <2>1. n \in Nat BY <1>1 DEF n
    <2>2. QED BY <1>3, <1>4, <2>1
<1>7. v3 = <<>> /\ v15 = {} /\ v4 = "no" /\ v5 = "up" /\ v16 = "idle" BY DEF S!Init
<1>8. v11 = [written |-> [i \in S!Ids |-> Null], pending |-> S!Empty, unsynced |-> {},
                wasWritten |-> {}]
    BY DEF S!Init
<1>9. v12 = [written |-> [w \in StatusWins |-> [win |-> 0, row |-> Null]], pending |-> S!Empty]
    BY DEF S!Init
<1>10. v13 = [s \in S!Sess |-> [written |-> Null, pending |-> Null, stamp |-> 0]] BY DEF S!Init
<1>11. v8 = [i \in S!Ids |-> 0] /\ v9 = [i \in S!Ids |-> 0] BY DEF S!Init
<1>12. S!Empty \in S!Queued(StatusPanes) /\ S!Empty \in S!Queued(StatusWins) /\ DOMAIN S!Empty = {}
    <2>1. S!Empty \in [{} -> StatusRows] /\ DOMAIN S!Empty = {} BY DEF S!Empty
    <2>2. {} \in SUBSET StatusPanes /\ {} \in SUBSET StatusWins OBVIOUS
    <2>3. QED BY <2>1, <2>2 DEF S!Queued
<1>13. S!Typed
    <2>1. v1 \in [S!Objs -> S!Row] /\ v2 \in [S!Objs -> S!Row] BY DEF S!Init, S!Row
    <2>2. v6 \in [O -> 0..MaxLocals] BY <1>1, <1>2
    <2>3. v11 \in [written : [S!Ids -> S!Row], pending : S!Queued(StatusPanes),
                   unsynced : SUBSET S!Ids, wasWritten : SUBSET S!Ids]
        BY <1>8, <1>12 DEF S!Row
    <2>4. v12 \in [written : [StatusWins -> [win : 0..MaxLocals, row : S!Row]],
                   pending : S!Queued(StatusWins)]
        BY <1>9, <1>12 DEF S!Row
    <2>5. v13 \in [S!Sess -> [written : S!Row, pending : S!Row, stamp : StatusRows]]
        BY <1>10 DEF S!Row
    <2>6. v8 \in [S!Ids -> StatusRows] /\ v9 \in [S!Ids -> StatusRows] BY <1>11
    <2>7. v10 \in BOOLEAN /\ v14 \subseteq {"agents", "labels"} BY DEF S!Init
    <2>8. QED BY <1>6, <1>7, <2>1, <2>2, <2>3, <2>4, <2>5, <2>6, <2>7 DEF S!Typed
<1>14. \A o : ~S!Waits(o) BY <1>7, ShipEmpty DEF S!Waits
<1>15. S!Flow BY <1>7, <1>14 DEF S!Flow, S!Asks
<1>16. S!Placed
    <2>1. \A w \in StatusWins : v12.written[w].win < v7 BY <1>6, <1>9
    <2>2. QED BY <1>2, <1>5, <1>8, <1>11, <2>1 DEF S!Placed
<1>17. S!Files BY <1>8, <1>11 DEF S!Files
<1>18. S!Remembered
    <2>1. \A w \in StatusWins : ~S!Same(w) BY <1>5, <1>9 DEF S!Same
    <2>2. \A p \in StatusPanes : v6[p] \in S!Ids BY <1>5 DEF S!Ids
    <2>3. QED BY <1>8, <1>11, <2>1, <2>2 DEF S!Remembered
<1>19. S!Ordered
    <2>1. S!Heard BY <1>7, ShipEmpty DEF S!Heard
    <2>2. S!Queues(v11.pending) /\ S!Queues(v12.pending) BY <1>8, <1>9, <1>12 DEF S!Queues
    <2>3. \A s \in S!Sess : v2[s] = Null BY DEF S!Init, S!Objs
    <2>4. S!Stamped BY <1>10 DEF S!Stamped
    <2>5. QED BY <2>1, <2>2, <2>3, <2>4 DEF S!Ordered, S!Applied
<1>20. S!PanesCovered /\ S!WinsCovered BY <1>7 DEF S!PanesCovered, S!WinsCovered
<1>21. QED BY <1>13, <1>15, <1>16, <1>17, <1>18, <1>19, <1>20 DEF S!IInv


\* A report, or the line an excursion causes, is the newest of its object.
LEMMA ShipSent ==
    ASSUME ShipApart, S!IInv, NEW o \in S!Objs, NEW v \in S!Row, v5 = "up",
           o \in StatusPanes \union StatusWins \union {"usage"} => v # Null,
           v3' = Append(v3, [obj |-> o, row |-> v, rows |-> S!Empty]),
           v2' = [v2 EXCEPT ![o] = v],
           UNCHANGED <<v1, v4, v5, v8, v15, S!Remote>>
    PROVE  S!IInv'
<1> USE DEF ShipApart
<1> DEFINE e == [obj |-> o, row |-> v, rows |-> S!Empty]
<1>1. S!Typed /\ S!Flow /\ S!Placed /\ S!Files /\ S!Remembered /\ S!Ordered /\ S!PanesCovered
    /\ S!WinsCovered
    BY DEF S!IInv
<1>2. UNCHANGED <<v1, v4, v5, v8, v15, v6, v7, v9, v10, v11, v12, v13,
                  v14, v16>>
    BY DEF S!Remote
<1>3. v3 \in Seq(S!Lines) /\ v2 \in [S!Objs -> S!Row] BY <1>1 DEF S!Typed
<1>4. e \in S!Lines
    <2>1. S!Empty \in [{} -> StatusRows] BY DEF S!Empty
    <2>2. {} \in SUBSET (StatusPanes \union StatusWins) OBVIOUS
    <2>3. QED BY <2>1, <2>2 DEF S!Lines, S!Queued
<1>5. e.obj = o /\ e.row = v /\ e.rows = S!Empty OBVIOUS
<1>6. o \notin {"panes", "windows"} BY DEF S!Objs, S!Sess
<1> HIDE DEF e
<1>7. v3' = Append(v3, e) BY DEF e
<1>8. \A x : S!Waits(x)' <=> S!Waits(x) \/ x = o BY <1>3, <1>4, <1>5, <1>7, ShipAppend DEF S!Waits
<1>9. \A x \in S!Objs : v2'[x] = IF x = o THEN v ELSE v2[x] BY <1>3
<1>10. S!Typed'
    <2>1. v2' \in [S!Objs -> S!Row] BY <1>3
    <2>2. v3' \in Seq(S!Lines) BY <1>3, <1>4, <1>7, ShipAppend
    <2>3. QED BY <1>1, <1>2, <2>1, <2>2 DEF S!Typed
<1>11. S!Flow'
    <2>1. Len(v3') = Len(v3) + 1 /\ Len(v3) \in Nat BY <1>3, <1>4, <1>7
    <2>2. \A k \in 1..Len(v3') : v3'[k] = IF k = Len(v3) + 1 THEN e ELSE v3[k]
        BY <1>3, <1>4, <1>7
    <2>3. \A k \in 1..Len(v3') : k \in 1..Len(v3) \/ k = Len(v3) + 1 BY <2>1
    <2>4. \A k \in 1..Len(v3') :
            /\ v3'[k].obj \in StatusPanes \union StatusWins \union {"usage"} => v3'[k].row # Null
            /\ v3'[k].obj = "panes" => v3'[k].rows \in S!Queued(StatusPanes)
            /\ v3'[k].obj = "windows" => v3'[k].rows \in S!Queued(StatusWins)
        BY <1>1, <1>5, <1>6, <2>2, <2>3 DEF S!Flow
    <2>5. \A j, k \in 1..Len(v3') :
            v3'[j].obj \in {"panes", "windows"} /\ v3'[j].obj = v3'[k].obj => j = k
        BY <1>1, <1>5, <1>6, <2>2, <2>3 DEF S!Flow
    <2>6. S!Asks("panes")' /\ S!Asks("windows")' BY <1>1, <1>2, <1>6, <1>8 DEF S!Flow, S!Asks
    <2>7. QED BY <1>1, <1>2, <2>4, <2>5, <2>6 DEF S!Flow
<1>12. S!Placed' BY <1>1, <1>2 DEF S!Placed
<1>13. S!Files' BY <1>1, <1>2 DEF S!Files
<1>14. S!Remembered' BY <1>1, <1>2 DEF S!Remembered, S!Same
<1>15. S!Ordered'
    <2>1. S!Heard'
        <3>1. ASSUME NEW x \in S!Objs, x # o PROVE S!Newest(v3', x, v2[x])
            <4>1. S!Newest(v3, x, v2[x]) /\ e.obj # x BY <1>1, <1>5, <3>1 DEF S!Ordered, S!Heard
            <4>2. S!Newest(Append(v3, e), x, v2[x]) BY <1>3, <1>4, <4>1, ShipAppend
            <4>3. QED BY <1>7, <4>2
        <3>2. S!Newest(v3', o, v)
            <4>1. S!Newest(Append(v3, e), o, e.row) BY <1>3, <1>4, <1>5, ShipAppend
            <4>2. QED BY <1>5, <1>7, <4>1
        <3>3. QED BY <1>9, <3>1, <3>2 DEF S!Heard
    <2>2. \A x : x \in DOMAIN v11.pending => x \in S!Objs BY <1>1 DEF S!Typed, S!Queued, S!Objs
    <2>3. \A x : x \in DOMAIN v12.pending => x \in S!Objs BY <1>1 DEF S!Typed, S!Queued, S!Objs
    <2>4. S!Queues(v11.pending)' BY <1>1, <1>2, <1>8, <1>9, <2>2 DEF S!Ordered, S!Queues
    <2>5. S!Queues(v12.pending)' BY <1>1, <1>2, <1>8, <1>9, <2>3 DEF S!Ordered, S!Queues
    <2>6. \A s \in S!Sess : S!Applied(s)'
        BY <1>1, <1>2, <1>8, <1>9 DEF S!Ordered, S!Applied, S!Objs
    <2>7. S!Stamped' BY <1>1, <1>2 DEF S!Ordered, S!Stamped
    <2>8. QED BY <2>1, <2>4, <2>5, <2>6, <2>7 DEF S!Ordered
<1>16. S!PanesCovered'
    <2> SUFFICES ASSUME "agents" \in v15 PROVE S!PanesCovered' BY <1>2 DEF S!PanesCovered
    <2>1. S!Replies(v3, "panes", S!Now(StatusPanes)) /\ S!Now(StatusPanes)' = S!Now(StatusPanes)
        BY <1>1, <1>2 DEF S!PanesCovered, S!Now
    <2>2. S!Replies(v3', "panes", S!Now(StatusPanes)')
        BY <1>3, <1>4, <1>5, <1>6, <1>7, <2>1, ShipAppend
    <2>3. ~S!Waits("panes")' => ~S!Waits("panes") BY <1>8
    <2>4. ASSUME NEW p \in StatusPanes, S!PaneShown(p) PROVE S!PaneShown(p)'
        BY <1>2, <1>8, <1>9, <2>4 DEF S!PaneShown, S!Coming, S!Objs, S!Clean
    <2>5. S!NoneLeft => S!NoneLeft' BY <1>2 DEF S!NoneLeft
    <2>6. QED BY <1>1, <1>2, <2>2, <2>3, <2>4, <2>5 DEF S!PanesCovered
<1>17. S!WinsCovered'
    <2> SUFFICES ASSUME "labels" \in v15 PROVE S!WinsCovered' BY <1>2 DEF S!WinsCovered
    <2>1. S!Replies(v3, "windows", S!Now(StatusWins)) /\ S!Now(StatusWins)' = S!Now(StatusWins)
        BY <1>1, <1>2 DEF S!WinsCovered, S!Now
    <2>2. S!Replies(v3', "windows", S!Now(StatusWins)')
        BY <1>3, <1>4, <1>5, <1>6, <1>7, <2>1, ShipAppend
    <2>3. ~S!Waits("windows")' => ~S!Waits("windows") BY <1>8
    <2>4. ASSUME NEW w \in StatusWins, S!WinShown(w) PROVE S!WinShown(w)'
        BY <1>2, <1>8, <1>9, <2>4 DEF S!WinShown, S!Coming, S!Objs, S!Clean, S!Same
    <2>5. QED BY <1>1, <1>2, <2>2, <2>3, <2>4 DEF S!WinsCovered
<1>18. QED BY <1>10, <1>11, <1>12, <1>13, <1>14, <1>15, <1>16, <1>17 DEF S!IInv

\* What the remote reports.
LEMMA ShipReports ==
    ASSUME ShipApart, S!IInv
    PROVE  /\ \A o \in S!Objs : S!Report(o) => S!IInv'
           /\ S!Excursion("res") => S!IInv'
<1>1. ASSUME NEW o \in S!Objs, S!Report(o) PROVE S!IInv'
    <2>1. v1[o] \in S!Row /\ v1[o] # Null BY <1>1 DEF S!Report, S!IInv, S!Typed
    <2>2. QED BY <1>1, <2>1, ShipSent DEF S!Report
<1>2. ASSUME S!Excursion("res") PROVE S!IInv'
    <2>1. "res" \in S!Objs /\ Null \in S!Row
        /\ "res" \notin StatusPanes \union StatusWins \union {"usage"}
        BY DEF S!Objs, S!Sess, S!Row, ShipApart
    <2>2. QED BY <1>2, <2>1, ShipSent DEF S!Excursion
<1>3. QED BY <1>1, <1>2

\* A row of the remote moves: what was read is old.
LEMMA ShipChange ==
    ASSUME ShipApart, S!IInv, NEW o \in S!Objs, NEW v \in StatusRows, S!Change(o, v) PROVE S!IInv'
<1> USE DEF ShipApart
<1>1. S!Typed /\ S!Flow /\ S!Placed /\ S!Files /\ S!Remembered /\ S!Ordered BY DEF S!IInv
<1>2. /\ UNCHANGED <<v2, v3, v4, v5, v6, v7, v8, v9, v10, v11, v12, v13, v14, v16>>
      /\ v15' = {} /\ v1' = [v1 EXCEPT ![o] = v] /\ v1[o] # Null
    BY DEF S!Change, S!Remote
<1>3. S!Typed'
    <2>1. v1' \in [S!Objs -> S!Row] BY <1>1, <1>2 DEF S!Typed, S!Row
    <2>2. QED BY <1>1, <1>2, <2>1 DEF S!Typed
<1>4. S!Flow' BY <1>1, <1>2 DEF S!Flow, S!Asks, S!Waits
<1>5. S!Placed'
    <2>1. \A x \in S!Objs : v1[x] = Null => v1'[x] = Null BY <1>1, <1>2 DEF S!Typed
    <2>2. \A x \in StatusPanes \union StatusWins : x \in S!Objs BY DEF S!Objs
    <2>3. QED BY <1>1, <1>2, <2>1, <2>2 DEF S!Placed
<1>6. S!Files' /\ S!Remembered' BY <1>1, <1>2 DEF S!Files, S!Remembered, S!Same
<1>7. S!Ordered' BY <1>1, <1>2 DEF S!Ordered, S!Heard, S!Queues, S!Waits, S!Applied, S!Stamped
<1>8. S!PanesCovered' /\ S!WinsCovered' BY <1>2 DEF S!PanesCovered, S!WinsCovered
<1>9. QED BY <1>3, <1>4, <1>5, <1>6, <1>7, <1>8 DEF S!IInv

\* The remote answers a full read with what it has.
LEMMA ShipAnswer == ASSUME ShipApart, S!IInv, S!Answer PROVE S!IInv'
<1> USE DEF ShipApart
<1> DEFINE of == {o \in IF v4 = "panes" THEN StatusPanes ELSE StatusWins : v1[o] # Null}
<1> DEFINE e == [obj |-> v4, row |-> Null, rows |-> [o \in of |-> v1[o]]]
<1>1. S!Typed /\ S!Flow /\ S!Placed /\ S!Files /\ S!Remembered /\ S!Ordered /\ S!PanesCovered
    /\ S!WinsCovered
    BY DEF S!IInv
<1>2. /\ UNCHANGED <<v1, v2, v5, v8, v6, v7, v9, v10, v11, v12, v13, v14, v16>>
      /\ v5 = "up" /\ v4' = "no" /\ v4 \in {"panes", "windows"}
      /\ v15' = v15 \union {IF v4 = "panes" THEN "agents" ELSE "labels"}
      /\ v3' = Append(v3, e)
    BY <1>1 DEF S!Answer, S!Remote, S!Typed
<1>3. v3 \in Seq(S!Lines) BY <1>1 DEF S!Typed
<1>4. /\ v4 = "panes" => [o \in of |-> v1[o]] = S!Now(StatusPanes)
      /\ v4 = "windows" => [o \in of |-> v1[o]] = S!Now(StatusWins)
    BY DEF S!Now
<1>5. ASSUME NEW Z, Z \subseteq StatusPanes \union StatusWins PROVE S!Now(Z) \in S!Queued(Z)
    <2> DEFINE T == {x \in Z : v1[x] # Null}
    <2>1. \A x \in T : v1[x] \in StatusRows BY <1>1, <1>5 DEF S!Typed, S!Objs, S!Row
    <2>2. S!Now(Z) \in [T -> StatusRows] BY <2>1 DEF S!Now
    <2>3. T \in SUBSET Z OBVIOUS
    <2>4. QED BY <2>2, <2>3 DEF S!Queued
<1>6. S!Now(StatusPanes) \in S!Queued(StatusPanes) /\ S!Now(StatusWins) \in S!Queued(StatusWins)
    BY <1>5
<1>7. e.rows \in S!Queued(StatusPanes \union StatusWins) /\ e.obj = v4 /\ e.row = Null
    <2>1. S!Queued(StatusPanes) \subseteq S!Queued(StatusPanes \union StatusWins) BY DEF S!Queued
    <2>2. S!Queued(StatusWins) \subseteq S!Queued(StatusPanes \union StatusWins) BY DEF S!Queued
    <2>3. QED BY <1>2, <1>4, <1>6, <2>1, <2>2
<1>8. e \in S!Lines BY <1>2, <1>7 DEF S!Lines, S!Row
<1>9. /\ v4 = "panes" => e.rows = S!Now(StatusPanes)
      /\ v4 = "windows" => e.rows = S!Now(StatusWins)
    BY <1>4
<1> HIDE DEF e
<1>10. \A x : S!Waits(x)' <=> S!Waits(x) \/ x = v4 BY <1>2, <1>3, <1>7, <1>8, ShipAppend DEF S!Waits
<1>11. ~S!Waits(v4) /\ v16 = v4 BY <1>1, <1>2 DEF S!Flow, S!Asks
<1>12. S!Typed'
    <2>1. v3' \in Seq(S!Lines) BY <1>2, <1>3, <1>8, ShipAppend
    <2>2. QED BY <1>1, <1>2, <2>1 DEF S!Typed
<1>13. S!Flow'
    <2>1. Len(v3') = Len(v3) + 1 /\ Len(v3) \in Nat BY <1>2, <1>3, <1>8
    <2>2. \A k \in 1..Len(v3') : v3'[k] = IF k = Len(v3) + 1 THEN e ELSE v3[k]
        BY <1>2, <1>3, <1>8
    <2>3. \A k \in 1..Len(v3') : k \in 1..Len(v3) \/ k = Len(v3) + 1 BY <2>1
    <2>4. \A k \in 1..Len(v3') :
            /\ v3'[k].obj \in StatusPanes \union StatusWins \union {"usage"} => v3'[k].row # Null
            /\ v3'[k].obj = "panes" => v3'[k].rows \in S!Queued(StatusPanes)
            /\ v3'[k].obj = "windows" => v3'[k].rows \in S!Queued(StatusWins)
        BY <1>1, <1>2, <1>6, <1>7, <1>9, <2>2, <2>3 DEF S!Flow
    <2>5. \A k \in 1..Len(v3) : v3[k].obj # v4 BY <1>11 DEF S!Waits, S!Carries
    <2>6. \A j, k \in 1..Len(v3') :
            v3'[j].obj \in {"panes", "windows"} /\ v3'[j].obj = v3'[k].obj => j = k
        BY <1>1, <1>7, <2>2, <2>3, <2>5 DEF S!Flow
    <2>7. S!Asks("panes")' /\ S!Asks("windows")' BY <1>1, <1>2, <1>10, <1>11 DEF S!Flow, S!Asks
    <2>8. QED BY <1>1, <1>2, <2>4, <2>6, <2>7 DEF S!Flow
<1>14. S!Placed' BY <1>1, <1>2 DEF S!Placed
<1>15. S!Files' /\ S!Remembered' BY <1>1, <1>2 DEF S!Files, S!Remembered, S!Same
<1>16. \A x \in S!Objs : x # v4 BY <1>2 DEF S!Objs, S!Sess
<1>17. S!Ordered'
    <2>1. ASSUME NEW x \in S!Objs PROVE S!Newest(v3', x, v2[x])
        <3>1. S!Newest(v3, x, v2[x]) /\ e.obj # x BY <1>1, <1>7, <1>16 DEF S!Ordered, S!Heard
        <3>2. QED BY <1>2, <1>3, <1>8, <3>1, ShipAppend
    <2>2. S!Heard' BY <1>2, <2>1 DEF S!Heard
    <2>3. S!Queues(v11.pending)' /\ S!Queues(v12.pending)'
        BY <1>1, <1>2, <1>10 DEF S!Ordered, S!Queues
    <2>4. \A s \in S!Sess : S!Applied(s)' BY <1>1, <1>2, <1>10 DEF S!Ordered, S!Applied
    <2>5. S!Stamped' BY <1>1, <1>2 DEF S!Ordered, S!Stamped
    <2>6. QED BY <2>2, <2>3, <2>4, <2>5 DEF S!Ordered
<1>18. S!PanesCovered'
    <2> SUFFICES ASSUME "agents" \in v15' PROVE S!PanesCovered' BY DEF S!PanesCovered
    <2>1. S!Now(StatusPanes)' = S!Now(StatusPanes) BY <1>2 DEF S!Now
    <2>2. S!Replies(v3, "panes", S!Now(StatusPanes))
        BY <1>1, <1>2, <1>11 DEF S!PanesCovered, S!Replies, S!Waits, S!Carries
    <2>3. S!Replies(v3', "panes", S!Now(StatusPanes)')
        BY <1>2, <1>3, <1>7, <1>8, <1>9, <2>1, <2>2, ShipAppend
    <2>4. ASSUME ~S!Waits("panes")' PROVE S!NoneLeft' /\ \A p \in StatusPanes : v1[p] # Null
        => S!PaneShown(p)'
        <3>1. "agents" \in v15 /\ ~S!Waits("panes") BY <1>2, <1>10, <2>4
        <3>2. S!NoneLeft' BY <1>1, <1>2, <3>1 DEF S!PanesCovered, S!NoneLeft
        <3>3. ASSUME NEW p \in StatusPanes, S!PaneShown(p) PROVE S!PaneShown(p)'
            BY <1>2, <1>10, <3>3 DEF S!PaneShown, S!Coming, S!Clean
        <3>4. QED BY <1>1, <3>1, <3>2, <3>3 DEF S!PanesCovered
    <2>5. QED BY <1>2, <2>3, <2>4 DEF S!PanesCovered
<1>19. S!WinsCovered'
    <2> SUFFICES ASSUME "labels" \in v15' PROVE S!WinsCovered' BY DEF S!WinsCovered
    <2>1. S!Now(StatusWins)' = S!Now(StatusWins) BY <1>2 DEF S!Now
    <2>2. S!Replies(v3, "windows", S!Now(StatusWins))
        BY <1>1, <1>2, <1>11 DEF S!WinsCovered, S!Replies, S!Waits, S!Carries
    <2>3. S!Replies(v3', "windows", S!Now(StatusWins)')
        BY <1>2, <1>3, <1>7, <1>8, <1>9, <2>1, <2>2, ShipAppend
    <2>4. ASSUME ~S!Waits("windows")' PROVE \A w \in StatusWins : v1[w] # Null => S!WinShown(w)'
        <3>1. "labels" \in v15 /\ ~S!Waits("windows") BY <1>2, <1>10, <2>4
        <3>2. ASSUME NEW w \in StatusWins, S!WinShown(w) PROVE S!WinShown(w)'
            BY <1>2, <1>10, <3>2 DEF S!WinShown, S!Coming, S!Clean, S!Same
        <3>3. QED BY <1>1, <3>1, <3>2 DEF S!WinsCovered
    <2>5. QED BY <1>2, <2>3, <2>4 DEF S!WinsCovered
<1>20. QED BY <1>12, <1>13, <1>14, <1>15, <1>17, <1>18, <1>19 DEF S!IInv

\* A queue with one more row.
ShipJoins(Z, q, o, v) ==
    /\ S!With(q, o, v) \in S!Queued(Z)
    /\ DOMAIN S!With(q, o, v) = DOMAIN q \union {o}
    /\ S!With(q, o, v)[o] = v
    /\ \A x \in DOMAIN q : x # o => S!With(q, o, v)[x] = q[x]

LEMMA ShipWith == ASSUME NEW Z, NEW q \in S!Queued(Z), NEW o \in Z, NEW v \in StatusRows
    PROVE ShipJoins(Z, q, o, v)
<1>1. PICK T \in SUBSET Z : q \in [T -> StatusRows] BY DEF S!Queued
<1>2. DOMAIN q = T /\ \A x \in T : q[x] \in StatusRows BY <1>1
<1>3. S!With(q, o, v) = [x \in T \union {o} |-> IF x = o THEN v ELSE q[x]] BY <1>2 DEF S!With
<1>4. S!With(q, o, v) \in [T \union {o} -> StatusRows] BY <1>2, <1>3
<1>5. T \union {o} \in SUBSET Z OBVIOUS
<1>6. QED BY <1>2, <1>3, <1>4, <1>5 DEF S!Queued, ShipJoins

\* The main loop takes a line off the stream.
LEMMA ShipPop ==
    ASSUME ShipApart, S!IInv, S!Pop
    PROVE  /\ v3' \in Seq(S!Lines) /\ Head(v3) \in S!Lines
           /\ Head(v3) = v3[1] /\ 1 \in 1..Len(v3)
           /\ \A x : S!Carries(v3, x) <=> S!Carries(v3', x) \/ Head(v3).obj = x
           /\ \A x \in S!Objs : S!Newest(v3', x, v2[x])
           /\ \A x \in S!Objs : Head(v3).obj = x /\ ~S!Carries(v3', x) => Head(v3).row = v2[x]
           /\ \A what, v : S!Replies(v3, what, v) =>
                S!Replies(v3', what, v) /\ (Head(v3).obj = what => Head(v3).rows = v)
           /\ \A k \in 1..Len(v3') :
                /\ v3'[k].obj \in StatusPanes \union StatusWins \union {"usage"}
                   => v3'[k].row # Null
                /\ v3'[k].obj = "panes" => v3'[k].rows \in S!Queued(StatusPanes)
                /\ v3'[k].obj = "windows" => v3'[k].rows \in S!Queued(StatusWins)
           /\ \A j, k \in 1..Len(v3') :
                v3'[j].obj \in {"panes", "windows"} /\ v3'[j].obj = v3'[k].obj => j = k
           /\ Head(v3).obj \in {"panes", "windows"} => ~S!Carries(v3', Head(v3).obj)
<1> DEFINE h == Head(v3)
<1>1. S!Typed /\ S!Flow /\ S!Heard BY DEF S!IInv, S!Ordered
<1>2. v3 \in Seq(S!Lines) /\ v3 # <<>> /\ v3' = Tail(v3) BY <1>1 DEF S!Typed, S!Pop
<1>3. /\ h \in S!Lines /\ v3' \in Seq(S!Lines)
      /\ Len(v3) = Len(v3') + 1 /\ Len(v3') \in Nat
      /\ \A k \in 1..Len(v3') : k + 1 \in 1..Len(v3) /\ v3'[k] = v3[k + 1]
      /\ h = v3[1] /\ 1 \in 1..Len(v3)
    BY <1>2
<1>4. ASSUME NEW x PROVE S!Carries(v3, x) <=> S!Carries(v3', x) \/ h.obj = x
    <2>1. S!Carries(v3, x) <=> S!Carries(Tail(v3), x) \/ h.obj = x BY <1>2, ShipTail
    <2>2. QED BY <1>2, <2>1
<1>5. ASSUME NEW x \in S!Objs
      PROVE  /\ S!Newest(v3', x, v2[x])
             /\ h.obj = x /\ ~S!Carries(v3', x) => h.row = v2[x]
    <2>1. S!Newest(v3, x, v2[x]) BY <1>1 DEF S!Heard
    <2>2. /\ S!Newest(Tail(v3), x, v2[x])
          /\ h.obj = x /\ ~S!Carries(Tail(v3), x) => h.row = v2[x]
        BY <1>2, <2>1, ShipTail
    <2>3. QED BY <1>2, <2>2
<1>6. ASSUME NEW what, NEW v, S!Replies(v3, what, v)
      PROVE  S!Replies(v3', what, v) /\ (h.obj = what => h.rows = v)
    <2>1. S!Replies(Tail(v3), what, v) BY <1>2, <1>6, ShipTail
    <2>2. h.obj = what => h.rows = v BY <1>3, <1>6 DEF S!Replies
    <2>3. QED BY <1>2, <2>1, <2>2
<1>7. \A k \in 1..Len(v3') :
        /\ v3'[k].obj \in StatusPanes \union StatusWins \union {"usage"} => v3'[k].row # Null
        /\ v3'[k].obj = "panes" => v3'[k].rows \in S!Queued(StatusPanes)
        /\ v3'[k].obj = "windows" => v3'[k].rows \in S!Queued(StatusWins)
    BY <1>1, <1>3 DEF S!Flow
<1>8. \A j, k \in 1..Len(v3) :
        v3[j].obj \in {"panes", "windows"} /\ v3[j].obj = v3[k].obj => j = k
    BY <1>1 DEF S!Flow
<1>9. ASSUME NEW j \in 1..Len(v3'), NEW k \in 1..Len(v3'),
             v3'[j].obj \in {"panes", "windows"}, v3'[j].obj = v3'[k].obj
      PROVE  j = k
    <2>1. j + 1 = k + 1 BY <1>3, <1>8, <1>9
    <2>2. QED BY <2>1
<1>10. ASSUME h.obj \in {"panes", "windows"} PROVE ~S!Carries(v3', h.obj)
    <2>1. ASSUME NEW k \in 1..Len(v3'), v3'[k].obj = h.obj PROVE FALSE
        <3>1. 1 = k + 1 BY <1>3, <1>8, <1>10, <2>1
        <3>2. QED BY <3>1
    <2>2. QED BY <2>1 DEF S!Carries
<1>11. QED BY <1>3, <1>4, <1>5, <1>6, <1>7, <1>9, <1>10

\* A report is read: it moves from the stream to its queue.
LEMMA ShipQueued ==
    ASSUME ShipApart, S!IInv, S!Pop, S!Queue(Head(v3)), v5 = "up",
           v16' = v16 \/ (v16 = "idle" /\ v16' = "agents"),
           UNCHANGED <<v4, v8, v9, v14, v15, v1, v2, v5, v6, v7, v10>>
    PROVE  S!IInv'
<1> USE DEF ShipApart
<1> DEFINE h == Head(v3)
<1>1. S!Typed /\ S!Flow /\ S!Placed /\ S!Files /\ S!Remembered /\ S!Ordered /\ S!PanesCovered
    /\ S!WinsCovered
    BY DEF S!IInv
<1>2. /\ h \in S!Lines /\ v3' \in Seq(S!Lines) /\ h = v3[1] /\ 1 \in 1..Len(v3) BY ShipPop
<1>3. \A x : S!Waits(x) <=> S!Waits(x)' \/ h.obj = x BY ShipPop DEF S!Waits
<1>4. h.obj \in S!Objs => (h.obj \in StatusPanes \union StatusWins \union {"usage"} => h.row # Null)
                        /\ h.obj \notin {"panes", "windows"}
    BY <1>1, <1>2 DEF S!Flow, S!Objs, S!Sess
<1>5. h.obj \in S!Objs BY DEF S!Queue, S!Objs, S!Sess
<1>6. h.row \in S!Row /\ (h.row # Null => h.row \in StatusRows) BY <1>2 DEF S!Lines, S!Row
<1>7. ~S!Carries(v3', h.obj) => h.row = v2[h.obj] BY <1>5, ShipPop
<1>8. S!Flow'
    <2>1. \A k \in 1..Len(v3') :
            /\ v3'[k].obj \in StatusPanes \union StatusWins \union {"usage"} => v3'[k].row # Null
            /\ v3'[k].obj = "panes" => v3'[k].rows \in S!Queued(StatusPanes)
            /\ v3'[k].obj = "windows" => v3'[k].rows \in S!Queued(StatusWins)
        BY ShipPop
    <2>2. \A j, k \in 1..Len(v3') :
            v3'[j].obj \in {"panes", "windows"} /\ v3'[j].obj = v3'[k].obj => j = k
        BY ShipPop
    <2>3. S!Asks("panes")' /\ S!Asks("windows")' BY <1>1, <1>3 DEF S!Flow, S!Asks
    <2>4. QED BY <1>1, <2>1, <2>2, <2>3 DEF S!Flow
<1>9. S!Heard' BY ShipPop DEF S!Heard
<1>10. /\ v11'.written = v11.written /\ v11'.unsynced = v11.unsynced
       /\ v11'.wasWritten = v11.wasWritten /\ v12'.written = v12.written
       /\ \A s \in S!Sess : v13'[s].written = v13[s].written /\ v13'[s].stamp = v13[s].stamp
    BY <1>1 DEF S!Queue, S!QueueAgent, S!QueueLabel, S!QueueRes, S!QueueUsage, S!Typed, S!Sess
<1>11. /\ v11' \in [written : [S!Ids -> S!Row], pending : S!Queued(StatusPanes),
                    unsynced : SUBSET S!Ids, wasWritten : SUBSET S!Ids]
       /\ DOMAIN v11'.pending = DOMAIN v11.pending \union ({h.obj} \intersect StatusPanes)
       /\ S!Queues(v11.pending)'
    <2>1. v11.pending \in S!Queued(StatusPanes) /\ S!Queues(v11.pending)
        BY <1>1 DEF S!Typed, S!Ordered
    <2>2. CASE h.obj \in StatusPanes /\ S!QueueAgent(h)
        <3>1. v11' = [v11 EXCEPT !.pending = S!With(@, h.obj, h.row)] BY <2>2 DEF S!QueueAgent
        <3>2. v11'.pending = S!With(v11.pending, h.obj, h.row) BY <1>1, <3>1 DEF S!Typed
        <3>3. h.row \in StatusRows BY <1>4, <1>5, <1>6, <2>2
        <3> DEFINE q == S!With(v11.pending, h.obj, h.row)
        <3>4. /\ q \in S!Queued(StatusPanes)
              /\ DOMAIN q = DOMAIN v11.pending \union {h.obj}
              /\ q[h.obj] = h.row
              /\ \A x \in DOMAIN v11.pending : x # h.obj => q[x] = v11.pending[x]
            <4>1. ShipJoins(StatusPanes, v11.pending, h.obj, h.row) BY <2>1, <2>2, <3>3, ShipWith
            <4>2. QED BY <4>1 DEF ShipJoins
        <3>5. v11'.pending = q /\ v11' = [v11 EXCEPT !.pending = q] BY <3>1, <3>2
        <3> HIDE DEF q
        <3>6. S!Queues(v11.pending)'
            BY <1>3, <1>7, <2>1, <3>4, <3>5 DEF S!Queues, S!Waits
        <3>7. v11' \in [written : [S!Ids -> S!Row], pending : S!Queued(StatusPanes),
                        unsynced : SUBSET S!Ids, wasWritten : SUBSET S!Ids]
            BY <1>1, <3>4, <3>5 DEF S!Typed
        <3>8. {h.obj} \intersect StatusPanes = {h.obj} BY <2>2
        <3>9. QED BY <3>4, <3>6, <3>5, <3>7, <3>8
    <2>3. CASE h.obj \notin StatusPanes /\ UNCHANGED v11
        <3>1. \A x \in DOMAIN v11.pending : x # h.obj BY <2>1, <2>3 DEF S!Queued
        <3>2. S!Queues(v11.pending)' BY <1>3, <2>1, <2>3, <3>1 DEF S!Queues
        <3>3. QED BY <1>1, <2>3, <3>2 DEF S!Typed
    <2>4. QED BY <2>2, <2>3 DEF S!Queue, S!QueueLabel, S!QueueRes, S!QueueUsage
<1>12. /\ v12' \in [written : [StatusWins -> [win : 0..MaxLocals, row : S!Row]],
                    pending : S!Queued(StatusWins)]
       /\ DOMAIN v12'.pending = DOMAIN v12.pending \union ({h.obj} \intersect StatusWins)
       /\ S!Queues(v12.pending)'
    <2>1. v12.pending \in S!Queued(StatusWins) /\ S!Queues(v12.pending)
        BY <1>1 DEF S!Typed, S!Ordered
    <2>2. CASE h.obj \in StatusWins /\ S!QueueLabel(h)
        <3>1. v12' = [v12 EXCEPT !.pending = S!With(@, h.obj, h.row)] BY <2>2 DEF S!QueueLabel
        <3>2. v12'.pending = S!With(v12.pending, h.obj, h.row) BY <1>1, <3>1 DEF S!Typed
        <3>3. h.row \in StatusRows BY <1>4, <1>5, <1>6, <2>2
        <3> DEFINE q == S!With(v12.pending, h.obj, h.row)
        <3>4. /\ q \in S!Queued(StatusWins)
              /\ DOMAIN q = DOMAIN v12.pending \union {h.obj}
              /\ q[h.obj] = h.row
              /\ \A x \in DOMAIN v12.pending : x # h.obj => q[x] = v12.pending[x]
            <4>1. ShipJoins(StatusWins, v12.pending, h.obj, h.row) BY <2>1, <2>2, <3>3, ShipWith
            <4>2. QED BY <4>1 DEF ShipJoins
        <3>5. v12'.pending = q /\ v12' = [v12 EXCEPT !.pending = q] BY <3>1, <3>2
        <3> HIDE DEF q
        <3>6. S!Queues(v12.pending)'
            BY <1>3, <1>7, <2>1, <3>4, <3>5 DEF S!Queues, S!Waits
        <3>7. v12' \in [written : [StatusWins -> [win : 0..MaxLocals, row : S!Row]],
                        pending : S!Queued(StatusWins)]
            BY <1>1, <3>4, <3>5 DEF S!Typed
        <3>8. {h.obj} \intersect StatusWins = {h.obj} BY <2>2
        <3>9. QED BY <3>4, <3>6, <3>5, <3>7, <3>8
    <2>3. CASE h.obj \notin StatusWins /\ UNCHANGED v12
        <3>1. \A x \in DOMAIN v12.pending : x # h.obj BY <2>1, <2>3 DEF S!Queued
        <3>2. S!Queues(v12.pending)' BY <1>3, <2>1, <2>3, <3>1 DEF S!Queues
        <3>3. QED BY <1>1, <2>3, <3>2 DEF S!Typed
    <2>4. QED BY <2>2, <2>3 DEF S!Queue, S!QueueAgent, S!QueueRes, S!QueueUsage
<1>13. v13' \in [S!Sess -> [written : S!Row, pending : S!Row, stamp : StatusRows]]
    /\ \A s \in S!Sess : S!Applied(s)'
    <2>1. v13 \in [S!Sess -> [written : S!Row, pending : S!Row, stamp : StatusRows]]
        BY <1>1 DEF S!Typed
    <2>2. \A s \in S!Sess : S!Applied(s) BY <1>1 DEF S!Ordered
    <2>3. "res" \in S!Sess /\ "usage" \in S!Sess BY DEF S!Sess
    <2>4. CASE h.obj = "res" /\ S!QueueRes(h)
        <3>1. v13' = [v13 EXCEPT !["res"].pending = IF h.row = Null THEN @ ELSE h.row]
            BY <2>4 DEF S!QueueRes
        <3>2. v13' \in [S!Sess -> [written : S!Row, pending : S!Row, stamp : StatusRows]]
            BY <1>6, <2>1, <3>1
        <3>3. S!Applied("res")'
            BY <1>3, <1>7, <2>1, <2>3, <2>4, <3>1 DEF S!Applied, S!Waits
        <3>4. v13'["usage"] = v13["usage"] BY <2>1, <2>3, <3>1
        <3>5. S!Applied("usage")' BY <1>3, <2>2, <2>3, <2>4, <3>4 DEF S!Applied, S!Sanitized
        <3>6. QED BY <3>2, <3>3, <3>5 DEF S!Sess
    <2>5. CASE h.obj = "usage" /\ S!QueueUsage(h)
        <3>1. v13' = [v13 EXCEPT !["usage"].pending = h.row] BY <2>5 DEF S!QueueUsage
        <3>2. v13' \in [S!Sess -> [written : S!Row, pending : S!Row, stamp : StatusRows]]
            BY <1>6, <2>1, <3>1
        <3>3. S!Applied("usage")'
            BY <1>3, <1>7, <2>1, <2>3, <2>5, <3>1 DEF S!Applied, S!Waits
        <3>4. v13'["res"] = v13["res"] BY <2>1, <2>3, <3>1
        <3>5. S!Applied("res")' BY <1>3, <2>2, <2>3, <2>5, <3>4 DEF S!Applied, S!Sanitized
        <3>6. QED BY <3>2, <3>3, <3>5 DEF S!Sess
    <2>6. CASE h.obj \notin S!Sess /\ UNCHANGED v13
        <3>1. \A s \in S!Sess : S!Waits(s)' <=> S!Waits(s) BY <1>3, <2>6
        <3>2. \A s \in S!Sess : S!Applied(s)' BY <2>2, <2>6, <3>1 DEF S!Applied, S!Sanitized
        <3>3. QED BY <2>1, <2>6, <3>2
    <2>7. (h.obj \in StatusPanes \/ h.obj \in StatusWins) => h.obj \notin S!Sess BY DEF S!Sess
    <2>8. QED BY <2>4, <2>5, <2>6, <2>7 DEF S!Queue, S!QueueAgent, S!QueueLabel
<1>14. S!Typed' BY <1>1, <1>2, <1>11, <1>12, <1>13 DEF S!Typed
<1>15. S!Placed' BY <1>1, <1>10 DEF S!Placed
<1>16. S!Files' /\ S!Remembered' BY <1>1, <1>10 DEF S!Files, S!Remembered, S!Same
<1>17. S!Ordered'
    <2>1. S!Stamped'
        <3>1. v16 # "away" BY <1>1 DEF S!Flow
        <3>2. QED BY <1>1, <1>10, <3>1 DEF S!Ordered, S!Stamped
    <2>2. QED BY <1>9, <1>11, <1>12, <1>13, <2>1 DEF S!Ordered
<1>18. S!PanesCovered'
    <2> SUFFICES ASSUME "agents" \in v15 PROVE S!PanesCovered' BY DEF S!PanesCovered
    <2>1. S!Replies(v3', "panes", S!Now(StatusPanes)') BY <1>1, ShipPop DEF S!PanesCovered, S!Now
    <2>2. S!Waits("panes")' <=> S!Waits("panes") BY <1>3, <1>4, <1>5
    <2>3. ASSUME NEW p \in StatusPanes, S!PaneShown(p) PROVE S!PaneShown(p)'
        BY <1>3, <1>10, <1>11, <2>3 DEF S!PaneShown, S!Coming, S!Clean
    <2>4. S!NoneLeft => S!NoneLeft' BY DEF S!NoneLeft
    <2>5. QED BY <1>1, <2>1, <2>2, <2>3, <2>4 DEF S!PanesCovered
<1>19. S!WinsCovered'
    <2> SUFFICES ASSUME "labels" \in v15 PROVE S!WinsCovered' BY DEF S!WinsCovered
    <2>1. S!Replies(v3', "windows", S!Now(StatusWins)') BY <1>1, ShipPop DEF S!WinsCovered, S!Now
    <2>2. S!Waits("windows")' <=> S!Waits("windows") BY <1>3, <1>4, <1>5
    <2>3. ASSUME NEW w \in StatusWins, S!WinShown(w) PROVE S!WinShown(w)'
        BY <1>3, <1>10, <1>12, <2>3 DEF S!WinShown, S!Coming, S!Clean, S!Same
    <2>4. QED BY <1>1, <2>1, <2>2, <2>3 DEF S!WinsCovered
<1>20. QED BY <1>8, <1>14, <1>15, <1>16, <1>17, <1>18, <1>19 DEF S!IInv

\* The rows a reply or the queue holds, as a pane's own says.
LEMMA ShipRow ==
    ASSUME ShipApart, S!Typed, S!Placed, NEW rows \in S!Queued(StatusPanes),
           NEW local \in {v6, [o \in StatusPanes \union StatusWins |-> 0]}
    PROVE  /\ \A p \in DOMAIN rows : local[p] # 0 =>
                local[p] = v6[p] /\ local[p] \in S!Seen(rows, local)
                /\ S!RowOf(rows, local, local[p]) = S!Clean(rows[p])
           /\ \A i \in S!Seen(rows, local) :
                /\ i \in S!Ids /\ S!RowOf(rows, local, i) \in StatusRows
                /\ \E p \in DOMAIN rows : local[p] = i /\ v6[p] = i /\ rows[p] \in StatusRows
                                          /\ S!RowOf(rows, local, i) = S!Clean(rows[p])
<1> USE DEF ShipApart
<1>1. PICK T \in SUBSET StatusPanes : rows \in [T -> StatusRows] BY DEF S!Queued
<1>2. DOMAIN rows = T /\ \A p \in T : rows[p] \in StatusRows /\ p \in StatusPanes \union StatusWins
    BY <1>1
<1>3. v6 \in [StatusPanes \union StatusWins -> 0..MaxLocals] BY DEF S!Typed
<1>4. \A p \in T : local[p] # 0 => local[p] = v6[p] /\ local[p] \in S!Ids BY <1>2, <1>3 DEF S!Ids
<1>5. \A p, q \in T : local[p] = local[q] /\ local[p] # 0 => p = q
    BY <1>2, <1>4 DEF S!Placed
<1>6. ASSUME NEW p \in T, local[p] # 0 PROVE S!RowOf(rows, local, local[p]) = S!Clean(rows[p])
    <2>1. (CHOOSE q \in T : local[q] = local[p]) = p BY <1>5, <1>6
    <2>2. QED BY <1>2, <2>1 DEF S!RowOf
<1>7. \A p \in T : S!Clean(rows[p]) \in StatusRows BY <1>2 DEF S!Clean
<1>8. QED BY <1>2, <1>4, <1>6, <1>7 DEF S!Seen

\* What a stamp does to one local pane.
LEMMA ShipStamp ==
    ASSUME ShipApart, S!Typed, S!Placed, NEW rows \in S!Queued(StatusPanes),
           NEW local \in {v6, [o \in StatusPanes \union StatusWins |-> 0]}, NEW reap \in BOOLEAN,
           NEW q \in S!Queued(StatusPanes), S!Stamp([v11 EXCEPT !.pending = q], rows, local, reap)
    PROVE  /\ v8' \in [S!Ids -> StatusRows] /\ v9' \in [S!Ids -> StatusRows]
           /\ v11' \in [written : [S!Ids -> S!Row], pending : S!Queued(StatusPanes),
                        unsynced : SUBSET S!Ids, wasWritten : SUBSET S!Ids]
           /\ v11'.pending = q
           /\ \A i \in S!Ids \ S!Seen(rows, local) :
                /\ v8'[i] = v8[i]
                /\ IF reap /\ v10 /\ v11.written[i] # Null
                   THEN v11'.written[i] = Null /\ v9'[i] = 0 /\ i \notin v11'.unsynced
                   ELSE v11'.written[i] = v11.written[i] /\ v9'[i] = v9[i]
                        /\ (i \in v11'.unsynced <=> i \in v11.unsynced)
           /\ \A i \in S!Seen(rows, local) :
                LET v == S!RowOf(rows, local, i)
                    stale == v11.written[i] # v \/ i \in v11.unsynced
                IN  /\ v11'.written[i] = v
                    /\ v8'[i] = IF S!Options(i, v) THEN v ELSE v8[i]
                    /\ v9'[i] = IF stale /\ v10 THEN v ELSE v9[i]
                    /\ i \in v11'.unsynced <=> ~v10 /\ stale
                    /\ S!Options(i, v) /\ v # 0 /\ (\E p \in StatusPanes : v6[p] = i)
                       => i \in v11'.wasWritten
           /\ \A p \in StatusPanes : v6[p] \in v11.wasWritten => v6[p] \in v11'.wasWritten
           /\ v11'.wasWritten \subseteq v11.wasWritten \union S!Seen(rows, local)
<1> USE DEF ShipApart
<1> DEFINE row(i) == S!RowOf(rows, local, i)
<1> DEFINE seen == S!Seen(rows, local)
<1> DEFINE stale == {i \in seen : v11.written[i] # row(i) \/ i \in v11.unsynced}
<1> DEFINE written == {i \in stale : S!Options(i, row(i)) /\ row(i) # 0}
<1> DEFINE gone == IF reap /\ v10 THEN {i \in S!Ids : v11.written[i] # Null} \ seen ELSE {}
<1> DEFINE listed == {local[p] : p \in StatusPanes}
<1> DEFINE w1 == [i \in S!Ids |-> IF i \in gone THEN Null ELSE IF i \in stale THEN row(i)
                                ELSE v11.written[i]]
<1> DEFINE u1 == (IF v10 THEN v11.unsynced \ stale ELSE v11.unsynced \union stale) \ gone
<1> DEFINE was == v11.wasWritten \union written
<1> DEFINE was1 == IF \A p \in StatusPanes : local[p] = 0 THEN was ELSE was \intersect listed
<1>1. seen \subseteq S!Ids /\ \A i \in seen : row(i) \in StatusRows BY ShipRow
<1>2. v11 \in [written : [S!Ids -> S!Row], pending : S!Queued(StatusPanes),
               unsynced : SUBSET S!Ids, wasWritten : SUBSET S!Ids] /\ v8 \in [S!Ids -> StatusRows]
                   /\ v9 \in [S!Ids -> StatusRows]
    BY DEF S!Typed
<1>3. /\ v8' = [i \in S!Ids |-> IF i \in stale /\ S!Options(i, row(i)) THEN row(i) ELSE v8[i]]
      /\ v9' = [i \in S!Ids |-> IF i \in gone THEN 0
                                ELSE IF i \in stale /\ v10 THEN row(i) ELSE v9[i]]
    BY DEF S!Stamp
<1>4. v11' = [written |-> w1, pending |-> q, unsynced |-> u1, wasWritten |-> was1]
    BY <1>2 DEF S!Stamp
<1>5. stale \subseteq S!Ids /\ gone \subseteq S!Ids /\ written \subseteq stale BY <1>1
<1>6. w1 \in [S!Ids -> S!Row] /\ u1 \subseteq S!Ids /\ was1 \subseteq S!Ids
    BY <1>1, <1>2, <1>5 DEF S!Row
<1>7. v8' \in [S!Ids -> StatusRows] /\ v9' \in [S!Ids -> StatusRows] BY <1>1, <1>2, <1>3, <1>5
<1>8. v11'.written = w1 /\ v11'.unsynced = u1 /\ v11'.wasWritten = was1 /\ v11'.pending = q
    BY <1>4
<1>9. v11' \in [written : [S!Ids -> S!Row], pending : S!Queued(StatusPanes),
                unsynced : SUBSET S!Ids, wasWritten : SUBSET S!Ids]
    BY <1>4, <1>6
<1>10. ASSUME NEW i \in S!Ids \ seen
       PROVE /\ v8'[i] = v8[i]
             /\ IF reap /\ v10 /\ v11.written[i] # Null
                THEN v11'.written[i] = Null /\ v9'[i] = 0 /\ i \notin v11'.unsynced
                ELSE v11'.written[i] = v11.written[i] /\ v9'[i] = v9[i]
                     /\ (i \in v11'.unsynced <=> i \in v11.unsynced)
    BY <1>3, <1>8, <1>10
<1>11. ASSUME NEW i \in seen
       PROVE /\ v11'.written[i] = row(i)
             /\ v8'[i] = IF S!Options(i, row(i)) THEN row(i) ELSE v8[i]
             /\ v9'[i] = IF (v11.written[i] # row(i) \/ i \in v11.unsynced) /\ v10
                           THEN row(i) ELSE v9[i]
             /\ i \in v11'.unsynced <=>
                    ~v10 /\ (v11.written[i] # row(i) \/ i \in v11.unsynced)
    <2>1. S!Options(i, row(i)) => i \in stale BY <1>11 DEF S!Options
    <2>2. i \in S!Ids /\ i \notin gone BY <1>1, <1>11
    <2>3. QED BY <1>3, <1>8, <2>1, <2>2
<1>12. ASSUME NEW i \in seen, S!Options(i, row(i)), row(i) # 0, NEW p \in StatusPanes, v6[p] = i
       PROVE  i \in v11'.wasWritten
    <2>1. i \in written BY <1>12 DEF S!Options
    <2>2. \E o \in DOMAIN rows : local[o] = i /\ v6[o] = i BY ShipRow
    <2>3. DOMAIN rows \subseteq StatusPanes BY DEF S!Queued
    <2>4. i \in listed BY <2>2, <2>3
    <2>5. QED BY <1>8, <2>1, <2>4
<1>13. ASSUME NEW p \in StatusPanes, v6[p] \in v11.wasWritten PROVE v6[p] \in v11'.wasWritten
    <2>1. CASE local = v6 BY <1>8, <1>13, <2>1
    <2>2. CASE local = [o \in StatusPanes \union StatusWins |-> 0] BY <1>8, <1>13, <2>2
    <2>3. QED BY <2>1, <2>2
<1>14. v11'.wasWritten \subseteq v11.wasWritten \union seen BY <1>5, <1>8
<1>15. QED BY <1>7, <1>8, <1>9, <1>10, <1>11, <1>12, <1>13, <1>14

\* What a stamp wrote, and what it left alone.
ShipLeaves(rows, local, reap, q) ==
    /\ v8' \in [S!Ids -> StatusRows] /\ v9' \in [S!Ids -> StatusRows]
    /\ v11' \in [written : [S!Ids -> S!Row], pending : S!Queued(StatusPanes),
                 unsynced : SUBSET S!Ids, wasWritten : SUBSET S!Ids]
    /\ v11'.pending = q
    /\ \A i \in S!Seen(rows, local) :
         v11'.written[i] = S!RowOf(rows, local, i) /\ (v10 => i \notin v11'.unsynced)
    /\ \A i \in S!Ids \ S!Seen(rows, local) :
         /\ v10 /\ reap => IF v11.written[i] # Null THEN v9'[i] = 0 ELSE v9'[i] = v9[i]
         /\ ~reap => v11'.written[i] = v11.written[i] /\ v9'[i] = v9[i]
                     /\ (i \in v11'.unsynced <=> i \in v11.unsynced)

\* What a stamp leaves behind: it remembers what it wrote, and writes nothing
\* but the panes it was told of.
LEMMA ShipStamped ==
    ASSUME ShipApart, S!Typed, S!Placed, S!Files, S!Remembered, NEW rows \in S!Queued(StatusPanes),
           NEW local \in {v6, [o \in StatusPanes \union StatusWins |-> 0]}, NEW reap \in BOOLEAN,
           NEW q \in S!Queued(StatusPanes), S!Stamp([v11 EXCEPT !.pending = q], rows, local, reap),
           UNCHANGED <<v6, v7, v1, v12>>
    PROVE  /\ S!Placed' /\ S!Files' /\ S!Remembered' /\ ShipLeaves(rows, local, reap, q)
<1> USE DEF ShipApart
<1> DEFINE seen == S!Seen(rows, local)
<1>1. seen \subseteq S!Ids /\ \A i \in seen : S!RowOf(rows, local, i) \in StatusRows BY ShipRow
<1>2. \A i \in seen : \E p \in StatusPanes : v6[p] = i
    <2>1. DOMAIN rows \subseteq StatusPanes BY DEF S!Queued
    <2>2. QED BY <2>1, ShipRow
<1>3. \A p \in StatusPanes : v6[p] # 0 => v6[p] \in S!Ids BY DEF S!Typed, S!Ids
<1>4. S!Files'
    <2> SUFFICES ASSUME NEW i \in S!Ids
                 PROVE  /\ v11'.written[i] = Null => v9'[i] = 0 /\ i \notin v11'.unsynced
                        /\ v11'.written[i] # Null /\ i \notin v11'.unsynced =>
                               v9'[i] = v11'.written[i]
        BY DEF S!Files
    <2>1. CASE i \notin seen BY <2>1, ShipStamp DEF S!Files
    <2>2. CASE i \in seen
        <3>1. S!RowOf(rows, local, i) # Null BY <1>1, <2>2
        <3>2. QED BY <2>2, <3>1, ShipStamp DEF S!Files
    <2>3. QED BY <2>1, <2>2
<1>5. S!Remembered'
    <2>1. ASSUME NEW p \in StatusPanes, v6[p] # 0
          PROVE  /\ v8'[v6[p]] # 0 => v6[p] \in v11'.wasWritten
                 /\ v11'.written[v6[p]] # Null => v8'[v6[p]] = v11'.written[v6[p]]
        <3> DEFINE i == v6[p]
        <3>1. i \in S!Ids BY <1>3, <2>1
        <3>2. /\ v8[i] # 0 => i \in v11.wasWritten
              /\ v11.written[i] # Null => v8[i] = v11.written[i]
            BY <2>1 DEF S!Remembered
        <3>3. i \in v11.wasWritten => i \in v11'.wasWritten BY ShipStamp
        <3>4. CASE i \notin seen BY <3>1, <3>2, <3>3, <3>4, ShipStamp
        <3>5. CASE i \in seen
            <4> DEFINE v == S!RowOf(rows, local, i)
            <4>1. /\ v11'.written[i] = v
                  /\ v8'[i] = IF S!Options(i, v) THEN v ELSE v8[i]
                  /\ S!Options(i, v) /\ v # 0 => i \in v11'.wasWritten
                BY <3>5, ShipStamp
            <4>2. v \in StatusRows BY <1>1, <3>5
            <4>3. CASE S!Options(i, v) BY <4>1, <4>3
            <4>4. CASE ~S!Options(i, v) BY <3>2, <3>3, <4>1, <4>2, <4>4 DEF S!Options, S!Fresh
            <4>5. QED BY <4>3, <4>4
        <3>6. QED BY <3>4, <3>5
    <2>2. ASSUME NEW w \in StatusWins, S!Same(w)' PROVE v8'[v6[w]] = v12'.written[w].row
        <3>1. S!Same(w) BY <2>2 DEF S!Same
        <3>2. v6[w] \in S!Ids BY DEF S!Typed, S!Placed, S!Ids
        <3>3. v6[w] \notin seen BY <1>2, <3>2 DEF S!Placed, S!Ids
        <3>4. v8'[v6[w]] = v8[v6[w]] BY <3>2, <3>3, ShipStamp
        <3>5. QED BY <3>1, <3>4 DEF S!Remembered
    <2>3. QED BY <2>1, <2>2 DEF S!Remembered
<1>6. S!Placed'
    <2>1. ASSUME NEW i \in S!Ids, i >= v7
          PROVE  v8'[i] = 0 /\ v9'[i] = 0 /\ v11'.written[i] = Null /\ i \notin v11'.wasWritten
        <3>1. \A p \in StatusPanes : v6[p] < v7 /\ v6[p] \in Nat BY DEF S!Placed, S!Typed
        <3>2. v7 \in Nat BY DEF S!Typed
        <3>3. i \notin seen BY <1>2, <2>1, <3>1, <3>2 DEF S!Ids
        <3>4. QED BY <2>1, <3>3, ShipStamp DEF S!Placed
    <2>2. QED BY <2>1 DEF S!Placed
<1>7. ShipLeaves(rows, local, reap, q) BY ShipStamp DEF ShipLeaves
<1>8. QED BY <1>4, <1>5, <1>6, <1>7

\* The agents' queue is applied, or held; a full read may be asked for.
LEMMA ShipFlushAgents ==
    ASSUME ShipApart, S!IInv, NEW hold \in BOOLEAN, NEW elapsed \in BOOLEAN,
        S!FlushAgents(hold, elapsed)
    PROVE  S!IInv'
<1> USE DEF ShipApart
<1>1. S!Typed /\ S!Flow /\ S!Placed /\ S!Files /\ S!Remembered /\ S!Ordered /\ S!PanesCovered
    /\ S!WinsCovered
    BY DEF S!IInv
<1>2. UNCHANGED <<v3, v12, v13, v1, v2, v5, v6, v7, v10>> /\ v16 = "agents"
      /\ v5 = "up"
    BY DEF S!FlushAgents, S!Loop
<1>3. /\ v4 = "no" /\ ~S!Waits("panes") /\ ~S!Waits("windows")
      /\ \/ v4' = "no" /\ v16' = "labels"
         \/ v4' = "panes" /\ v16' = "panes"
      /\ v14' \subseteq {"agents", "labels"}
    BY <1>1, <1>2 DEF S!FlushAgents, S!Read, S!Flow, S!Asks, S!Typed
<1>4. \A x : S!Waits(x)' <=> S!Waits(x) BY <1>2 DEF S!Waits
<1>5. S!Flow'
    <2>1. S!Asks("panes")' /\ S!Asks("windows")' BY <1>1, <1>3, <1>4 DEF S!Asks
    <2>2. v5' = "up" /\ v16' # "away" BY <1>2, <1>3
    <2>3. QED BY <1>1, <1>2, <2>1, <2>2 DEF S!Flow
<1>6. S!Heard' BY <1>1, <1>2 DEF S!Ordered, S!Heard
<1>7. S!Stamped' /\ S!Queues(v12.pending)' /\ \A s \in S!Sess : S!Applied(s)'
    BY <1>1, <1>2, <1>4 DEF S!Ordered, S!Stamped, S!Queues, S!Applied
<1>8. v15' = v15 \/ v15' = {} BY DEF S!FlushAgents, S!Listed
<1>9. S!WinsCovered'
    <2>1. S!Replies(v3, "windows", S!Now(StatusWins))'
        <=> S!Replies(v3, "windows", S!Now(StatusWins))
        BY <1>2 DEF S!Replies, S!Now
    <2>2. \A w \in StatusWins : S!WinShown(w) => S!WinShown(w)'
        BY <1>2, <1>4 DEF S!WinShown, S!Coming, S!Same, S!Clean
    <2>3. QED BY <1>1, <1>2, <1>4, <1>8, <2>1, <2>2 DEF S!WinsCovered
<1>10. CASE UNCHANGED <<v8, v9, v11, v19, v15>>
    <2>1. S!Typed' BY <1>1, <1>2, <1>3, <1>10 DEF S!Typed
    <2>2. S!Placed' /\ S!Files' /\ S!Remembered'
        BY <1>1, <1>2, <1>10 DEF S!Placed, S!Files, S!Remembered, S!Same
    <2>3. S!Queues(v11.pending)' BY <1>1, <1>2, <1>4, <1>10 DEF S!Ordered, S!Queues
    <2>4. S!PanesCovered'
        <3>1. S!Replies(v3, "panes", S!Now(StatusPanes))'
            <=> S!Replies(v3, "panes", S!Now(StatusPanes))
            BY <1>2 DEF S!Replies, S!Now
        <3>2. \A p \in StatusPanes : S!PaneShown(p) => S!PaneShown(p)'
            BY <1>2, <1>4, <1>10 DEF S!PaneShown, S!Coming, S!Clean
        <3>3. S!NoneLeft' <=> S!NoneLeft BY <1>2, <1>10 DEF S!NoneLeft
        <3>4. QED BY <1>1, <1>2, <1>4, <1>10, <3>1, <3>2, <3>3 DEF S!PanesCovered
    <2>5. QED BY <1>5, <1>6, <1>7, <1>9, <2>1, <2>2, <2>3, <2>4 DEF S!IInv, S!Ordered
<1>11. ASSUME NEW local \in S!Listings, S!Listed(local),
              S!Stamp([v11 EXCEPT !.pending = S!Empty], v11.pending, local, FALSE)
       PROVE  S!IInv'
    <2>1. local \in {v6, [o \in StatusPanes \union StatusWins |-> 0]} BY DEF S!Listings
    <2> DEFINE pend == v11.pending
    <2>2. pend \in S!Queued(StatusPanes) /\ DOMAIN pend \subseteq StatusPanes
        BY <1>1 DEF S!Typed, S!Queued
    <2>3. S!Empty \in S!Queued(StatusPanes) /\ DOMAIN S!Empty = {}
        <3>1. S!Empty \in [{} -> StatusRows] /\ DOMAIN S!Empty = {} BY DEF S!Empty
        <3>2. {} \in SUBSET StatusPanes OBVIOUS
        <3>3. QED BY <3>1, <3>2 DEF S!Queued
    <2>4. S!Placed' /\ S!Files' /\ S!Remembered' /\ ShipLeaves(pend, local, FALSE, S!Empty)
        BY <1>1, <1>2, <1>11, <2>1, <2>2, <2>3, ShipStamped
    <2>5. /\ v8' \in [S!Ids -> StatusRows] /\ v9' \in [S!Ids -> StatusRows]
          /\ v11' \in [written : [S!Ids -> S!Row], pending : S!Queued(StatusPanes),
                       unsynced : SUBSET S!Ids, wasWritten : SUBSET S!Ids]
          /\ v11'.pending = S!Empty
        BY <2>4 DEF ShipLeaves
    <2>6. \A i \in S!Ids \ S!Seen(pend, local) :
            v11'.written[i] = v11.written[i] /\ v9'[i] = v9[i]
            /\ (i \in v11'.unsynced <=> i \in v11.unsynced)
        BY <2>4 DEF ShipLeaves
    <2>7. \A i \in S!Seen(pend, local) :
            v11'.written[i] = S!RowOf(pend, local, i) /\ (v10 => i \notin v11'.unsynced)
        BY <2>4 DEF ShipLeaves
    <2>8. S!Typed' BY <1>1, <1>2, <1>3, <1>8, <2>5 DEF S!Typed
    <2>9. S!Queues(v11.pending)' BY <2>3, <2>5 DEF S!Queues
    <2>10. S!PanesCovered'
        <3> SUFFICES ASSUME "agents" \in v15' PROVE S!PanesCovered' BY DEF S!PanesCovered
        <3>1. local = v6 /\ v15' = v15 BY <1>11 DEF S!Listed
        <3>2. S!Replies(v3, "panes", S!Now(StatusPanes))'
            BY <1>1, <1>2, <3>1 DEF S!PanesCovered, S!Replies, S!Now
        <3>3. S!NoneLeft /\ \A p \in StatusPanes : v1[p] # Null => S!PaneShown(p)
            BY <1>1, <1>3, <3>1 DEF S!PanesCovered
        <3>4. \A i \in S!Seen(pend, v6) : i \in S!Ids /\ \E p \in DOMAIN pend : v6[p] = i
            BY <1>1, <2>2, ShipRow
        <3>5. S!NoneLeft' BY <1>2, <2>2, <2>6, <3>1, <3>3, <3>4 DEF S!NoneLeft
        <3>6. ASSUME NEW p \in StatusPanes, v1[p] # Null PROVE S!PaneShown(p)'
            <4>1. v6[p] # 0 /\ v6[p] \in S!Ids BY <1>1, <3>6 DEF S!Placed, S!Typed, S!Ids
            <4>2. SUFFICES ASSUME v2[p] = v1[p], ~S!Waits(p)
                           PROVE  v11'.written[v6[p]] = S!Clean(v1[p])
                                  /\ (v10 => v6[p] \notin v11'.unsynced)
                BY <1>2, <1>4 DEF S!PaneShown, S!Coming, S!Clean
            <4>3. CASE p \in DOMAIN pend
                <5>1. pend[p] = v1[p] BY <1>1, <3>6, <4>2, <4>3 DEF S!Ordered, S!Queues
                <5>2. v6[p] \in S!Seen(pend, v6) /\ S!RowOf(pend, v6, v6[p]) = S!Clean(pend[p])
                    BY <1>1, <2>2, <4>1, <4>3, ShipRow
                <5>3. QED BY <2>7, <3>1, <5>1, <5>2
            <4>4. CASE p \notin DOMAIN pend
                <5>1. v6[p] \notin S!Seen(pend, v6) BY <1>1, <2>2, <3>4, <4>1, <4>4 DEF S!Placed
                <5>2. v11.written[v6[p]] = S!Clean(v1[p])
                      /\ (v10 => v6[p] \notin v11.unsynced)
                    BY <3>3, <3>6, <4>2, <4>4 DEF S!PaneShown, S!Coming
                <5>3. QED BY <2>6, <3>1, <4>1, <5>1, <5>2
            <4>5. QED BY <4>3, <4>4
        <3>7. QED BY <1>2, <3>2, <3>5, <3>6 DEF S!PanesCovered
    <2>11. QED BY <1>5, <1>6, <1>7, <1>9, <2>4, <2>8, <2>9, <2>10 DEF S!IInv, S!Ordered
<1>12. QED BY <1>10, <1>11 DEF S!FlushAgents

\* A reply of the panes is applied, or the report ahead of it queued.
LEMMA ShipReplyAgents == ASSUME ShipApart, S!IInv, S!ReplyAgents PROVE S!IInv'
<1> USE DEF ShipApart
<1> DEFINE h == Head(v3)
<1>1. S!Typed /\ S!Flow /\ S!Placed /\ S!Files /\ S!Remembered /\ S!Ordered /\ S!PanesCovered
    /\ S!WinsCovered
    BY DEF S!IInv
<1>2. UNCHANGED <<v4, v14, v1, v2, v5, v6, v7, v10>> /\ v16 = "panes" /\ v5 = "up"
      /\ S!Pop
    BY DEF S!ReplyAgents, S!Loop
<1>3. CASE h.obj # "panes" BY <1>2, <1>3, ShipQueued DEF S!ReplyAgents
<1>4. ASSUME h.obj = "panes", v16' = "labels", UNCHANGED <<v12, v13>>, NEW local \in S!Listings,
             S!Listed(local), S!Stamp(v11, h.rows, local, TRUE)
      PROVE  S!IInv'
    <2>1. local \in {v6, [o \in StatusPanes \union StatusWins |-> 0]} BY DEF S!Listings
    <2> DEFINE pend == v11.pending
    <2>2. pend \in S!Queued(StatusPanes) /\ v11 = [v11 EXCEPT !.pending = pend] BY <1>1 DEF S!Typed
    <2>3. h.rows \in S!Queued(StatusPanes) BY <1>1, <1>2, <1>4, ShipPop DEF S!Flow
    <2>4. S!Stamp([v11 EXCEPT !.pending = pend], h.rows, local, TRUE) BY <1>4, <2>2
    <2>5. S!Placed' /\ S!Files' /\ S!Remembered' /\ ShipLeaves(h.rows, local, TRUE, pend)
        BY <1>1, <1>2, <1>4, <2>1, <2>2, <2>3, <2>4, ShipStamped
    <2>6. /\ v8' \in [S!Ids -> StatusRows] /\ v9' \in [S!Ids -> StatusRows]
          /\ v11' \in [written : [S!Ids -> S!Row], pending : S!Queued(StatusPanes),
                       unsynced : SUBSET S!Ids, wasWritten : SUBSET S!Ids]
          /\ v11'.pending = pend
        BY <2>5 DEF ShipLeaves
    <2>7. \A i \in S!Ids \ S!Seen(h.rows, local) :
            v10 => IF v11.written[i] # Null THEN v9'[i] = 0 ELSE v9'[i] = v9[i]
        BY <2>5 DEF ShipLeaves
    <2>8. \A i \in S!Seen(h.rows, local) :
            v11'.written[i] = S!RowOf(h.rows, local, i) /\ (v10 => i \notin v11'.unsynced)
        BY <2>5 DEF ShipLeaves
    <2>9. v15' = v15 \/ v15' = {} BY <1>4 DEF S!Listed
    <2>10. \A x : S!Waits(x) <=> S!Waits(x)' \/ x = "panes" BY <1>2, <1>4, ShipPop DEF S!Waits
    <2>11. ~S!Waits("panes")' /\ v4 # "panes"
        BY <1>1, <1>2, <1>4, <2>10, ShipPop DEF S!Waits, S!Flow, S!Asks
    <2>12. v3' \in Seq(S!Lines) BY <1>2, ShipPop
    <2>13. S!Typed' BY <1>1, <1>2, <1>4, <2>6, <2>9, <2>12 DEF S!Typed
    <2>14. S!Flow'
        <3>1. \A k \in 1..Len(v3') :
                /\ v3'[k].obj \in StatusPanes \union StatusWins \union {"usage"}
                   => v3'[k].row # Null
                /\ v3'[k].obj = "panes" => v3'[k].rows \in S!Queued(StatusPanes)
                /\ v3'[k].obj = "windows" => v3'[k].rows \in S!Queued(StatusWins)
            BY <1>2, ShipPop
        <3>2. \A j, k \in 1..Len(v3') :
                v3'[j].obj \in {"panes", "windows"} /\ v3'[j].obj = v3'[k].obj => j = k
            BY <1>2, ShipPop
        <3>3. S!Asks("panes")' /\ S!Asks("windows")' BY <1>1, <1>2, <2>10, <2>11 DEF S!Flow, S!Asks
        <3>4. v5' = "up" /\ v16' # "away" BY <1>2, <1>4
        <3>5. QED BY <3>1, <3>2, <3>3, <3>4 DEF S!Flow
    <2>15. \A x \in S!Objs : S!Waits(x)' <=> S!Waits(x) BY <2>10 DEF S!Objs, S!Sess
    <2>16. S!Ordered'
        <3>1. S!Heard' BY <1>2, ShipPop DEF S!Heard
        <3>2. DOMAIN pend \subseteq S!Objs /\ DOMAIN v12.pending \subseteq S!Objs
            BY <1>1 DEF S!Typed, S!Queued, S!Objs
        <3>3. S!Queues(v11.pending)' /\ S!Queues(v12.pending)'
            BY <1>1, <1>2, <1>4, <2>6, <2>15, <3>2 DEF S!Ordered, S!Queues
        <3>4. \A s \in S!Sess : S!Applied(s)'
            BY <1>1, <1>2, <1>4, <2>15 DEF S!Ordered, S!Applied, S!Objs
        <3>5. S!Stamped' BY <1>1, <1>2, <1>4 DEF S!Ordered, S!Stamped
        <3>6. QED BY <3>1, <3>3, <3>4, <3>5 DEF S!Ordered
    <2>17. S!WinsCovered'
        <3> SUFFICES ASSUME "labels" \in v15' PROVE S!WinsCovered' BY DEF S!WinsCovered
        <3>1. S!Replies(v3, "windows", S!Now(StatusWins)) /\ S!Now(StatusWins)' = S!Now(StatusWins)
            BY <1>1, <1>2, <2>9 DEF S!WinsCovered, S!Now
        <3>2. S!Replies(v3', "windows", S!Now(StatusWins)') BY <1>2, <3>1, ShipPop
        <3>3. \A w \in StatusWins : S!WinShown(w) => S!WinShown(w)'
            BY <1>2, <1>4, <2>15 DEF S!WinShown, S!Coming, S!Same, S!Clean, S!Objs
        <3>4. S!Waits("windows")' <=> S!Waits("windows") BY <2>10
        <3>5. QED BY <1>1, <1>2, <2>9, <3>2, <3>3, <3>4 DEF S!WinsCovered
    <2>18. S!PanesCovered'
        <3> SUFFICES ASSUME "agents" \in v15' PROVE S!PanesCovered' BY DEF S!PanesCovered
        <3>1. local = v6 /\ v15' = v15 BY <1>4 DEF S!Listed
        <3>2. S!Replies(v3, "panes", S!Now(StatusPanes)) /\ S!Now(StatusPanes)' = S!Now(StatusPanes)
            BY <1>1, <1>2, <3>1 DEF S!PanesCovered, S!Now
        <3>3. S!Replies(v3', "panes", S!Now(StatusPanes)') /\ h.rows = S!Now(StatusPanes)
            BY <1>2, <1>4, <3>2, ShipPop
        <3>4. S!NoneLeft'
            <4> SUFFICES ASSUME v10, NEW i \in S!Ids, v9'[i] # 0
                         PROVE  \E p \in StatusPanes : v6[p] = i
                BY <1>2 DEF S!NoneLeft
            <4>1. i \in S!Seen(h.rows, v6) BY <1>1, <2>7, <3>1 DEF S!Files
            <4>2. \E p \in DOMAIN h.rows : v6[p] = i BY <1>1, <2>3, <4>1, ShipRow
            <4>3. QED BY <2>3, <4>2 DEF S!Queued
        <3>5. ASSUME NEW p \in StatusPanes, v1[p] # Null PROVE S!PaneShown(p)'
            <4>1. v6[p] # 0 BY <1>1, <3>5 DEF S!Placed
            <4>2. p \in DOMAIN h.rows /\ h.rows[p] = v1[p] BY <3>3, <3>5 DEF S!Now
            <4>3. v6[p] \in S!Seen(h.rows, v6) /\ S!RowOf(h.rows, v6, v6[p]) = S!Clean(v1[p])
                BY <1>1, <2>3, <4>1, <4>2, ShipRow
            <4>4. v11'.written[v6[p]] = S!Clean(v1[p]) /\ (v10 => v6[p] \notin v11'.unsynced)
                BY <2>8, <3>1, <4>3
            <4>5. QED BY <1>2, <4>4 DEF S!PaneShown, S!Clean
        <3>6. QED BY <1>2, <3>3, <3>4, <3>5 DEF S!PanesCovered
    <2>19. QED BY <2>5, <2>13, <2>14, <2>16, <2>17, <2>18 DEF S!IInv
<1>5. QED BY <1>3, <1>4 DEF S!ReplyAgents

\* What a label writes, and what it leaves alone.
ShipLabels(rows, q) ==
    /\ v8' \in [S!Ids -> StatusRows]
    /\ v12' \in [written : [StatusWins -> [win : 0..MaxLocals, row : S!Row]],
                 pending : S!Queued(StatusWins)]
    /\ v12'.pending = q
    /\ \A w \in DOMAIN rows :
         v12'.written[w].win = v6[w] /\ v12'.written[w].row = S!Clean(rows[w])
    /\ \A w \in StatusWins \ DOMAIN rows : v12'.written[w] = v12.written[w]

\* A label remembers what it wrote, and writes nothing but the windows it was told of.
LEMMA ShipLabelled ==
    ASSUME ShipApart, S!Typed, S!Placed, S!Files, S!Remembered, NEW rows \in S!Queued(StatusWins),
           NEW q \in S!Queued(StatusWins), S!Label([v12 EXCEPT !.pending = q], rows),
           UNCHANGED <<v6, v7, v1, v11, v9>>
    PROVE  S!Placed' /\ S!Files' /\ S!Remembered' /\ ShipLabels(rows, q)
<1> USE DEF ShipApart
<1> DEFINE stale == {w \in DOMAIN rows :
                        v6[w] # 0 /\ ~(S!Same(w) /\ v12.written[w].row = S!Clean(rows[w]))}
<1> DEFINE on(i) == {w \in stale : v6[w] = i}
<1> DEFINE w1 == [w \in StatusWins |->
                     IF v6[w] = 0 THEN [win |-> 0, row |-> Null]
                     ELSE IF w \in stale THEN [win |-> v6[w], row |-> S!Clean(rows[w])]
                     ELSE v12.written[w]]
<1>1. PICK T \in SUBSET StatusWins : rows \in [T -> StatusRows] BY DEF S!Queued
<1>2. DOMAIN rows = T /\ T \subseteq StatusWins /\ \A w \in T : rows[w] \in StatusRows
    /\ S!Clean(rows[w]) \in StatusRows
    BY <1>1 DEF S!Clean
<1>3. v12 \in [written : [StatusWins -> [win : 0..MaxLocals, row : S!Row]],
               pending : S!Queued(StatusWins)]
      /\ v8 \in [S!Ids -> StatusRows] /\ v6 \in [StatusPanes \union StatusWins -> 0..MaxLocals]
    BY DEF S!Typed
<1>4. \A w \in StatusWins : v6[w] # 0 /\ v6[w] \in S!Ids /\ v6[w] \in 0..MaxLocals
    BY <1>3 DEF S!Placed, S!Ids
<1>5. \A w \in StatusWins, o \in StatusPanes \union StatusWins : v6[w] = v6[o] => w = o
    BY <1>4 DEF S!Placed
<1>6. /\ v8' = [i \in S!Ids |-> IF on(i) = {} THEN v8[i]
                               ELSE S!Clean(rows[CHOOSE w \in on(i) : TRUE])]
      /\ v12' = [written |-> w1, pending |-> q]
    BY <1>3 DEF S!Label
<1>7. w1 \in [StatusWins -> [win : 0..MaxLocals, row : S!Row]] BY <1>2, <1>3, <1>4 DEF S!Row
<1>8. v12' \in [written : [StatusWins -> [win : 0..MaxLocals, row : S!Row]],
                pending : S!Queued(StatusWins)]
      /\ v12'.pending = q /\ v12'.written = w1
    BY <1>6, <1>7
<1>9. stale \subseteq T /\ \A i \in S!Ids : on(i) \subseteq T BY <1>2
<1>10. ASSUME NEW i \in S!Ids, on(i) # {} PROVE (CHOOSE w \in on(i) : TRUE) \in on(i) BY <1>10
<1>11. v8' \in [S!Ids -> StatusRows] BY <1>2, <1>3, <1>6, <1>9, <1>10
<1>12. ASSUME NEW w \in stale PROVE v8'[v6[w]] = S!Clean(rows[w])
    <2>1. w \in StatusWins /\ v6[w] \in S!Ids /\ w \in on(v6[w]) BY <1>2, <1>4, <1>9
    <2>2. \A x \in on(v6[w]) : x = w BY <1>2, <1>5, <1>9
    <2>3. (CHOOSE x \in on(v6[w]) : TRUE) = w BY <2>1, <2>2
    <2>4. QED BY <1>6, <2>1, <2>3
<1>13. ASSUME NEW i \in S!Ids, \A w \in stale : v6[w] # i PROVE v8'[i] = v8[i]
    <2>1. on(i) = {} BY <1>13
    <2>2. QED BY <1>6, <2>1
<1>14. ASSUME NEW w \in DOMAIN rows
       PROVE  v12'.written[w].win = v6[w] /\ v12'.written[w].row = S!Clean(rows[w])
    <2>1. w \in StatusWins /\ v6[w] # 0 BY <1>2, <1>4
    <2>2. CASE w \in stale BY <1>8, <2>1, <2>2
    <2>3. CASE w \notin stale BY <1>8, <2>1, <2>3 DEF S!Same
    <2>4. QED BY <2>2, <2>3
<1>15. ASSUME NEW w \in StatusWins \ stale PROVE v12'.written[w] = v12.written[w]
    BY <1>4, <1>8, <1>15
<1>16. ShipLabels(rows, q) BY <1>8, <1>9, <1>11, <1>14, <1>15 DEF ShipLabels
<1>17. S!Files' BY DEF S!Files
<1>18. S!Remembered'
    <2>1. ASSUME NEW p \in StatusPanes, v6[p] # 0 PROVE v8'[v6[p]] = v8[v6[p]]
        <3>1. v6[p] \in S!Ids BY <1>3, <2>1 DEF S!Ids
        <3>2. \A w \in stale : v6[w] # v6[p] BY <1>2, <1>5, <1>9
        <3>3. QED BY <1>13, <3>1, <3>2
    <2>2. ASSUME NEW w \in StatusWins, S!Same(w)' PROVE v8'[v6[w]] = v12'.written[w].row
        <3>1. CASE w \in stale BY <1>12, <1>14, <3>1
        <3>2. CASE w \notin stale
            <4>1. S!Same(w) /\ v12'.written[w] = v12.written[w] BY <1>15, <2>2, <3>2 DEF S!Same
            <4>2. \A x \in stale : v6[x] # v6[w] BY <1>2, <1>5, <1>9, <3>2
            <4>3. v8'[v6[w]] = v8[v6[w]] BY <1>4, <1>13, <4>2
            <4>4. QED BY <4>1, <4>3 DEF S!Remembered
        <3>3. QED BY <3>1, <3>2
    <2>3. QED BY <2>1, <2>2 DEF S!Remembered
<1>19. S!Placed'
    <2>1. ASSUME NEW i \in S!Ids, i >= v7 PROVE v8'[i] = 0
        <3>1. \A w \in StatusWins : v6[w] < v7 /\ v6[w] \in Nat BY <1>3 DEF S!Placed
        <3>2. v7 \in Nat /\ i \in Nat BY DEF S!Typed, S!Ids
        <3>3. \A w \in stale : v6[w] # i BY <1>2, <1>9, <2>1, <3>1, <3>2
        <3>4. QED BY <1>13, <2>1, <3>3 DEF S!Placed
    <2>2. ASSUME NEW w \in StatusWins PROVE v12'.written[w].win < v7
        BY <1>9, <1>14, <1>15 DEF S!Placed
    <2>3. QED BY <2>1, <2>2 DEF S!Placed
<1>20. QED BY <1>16, <1>17, <1>18, <1>19

\* The labels' queue is applied, or held; a full read may be asked for.
LEMMA ShipFlushLabels ==
    ASSUME ShipApart, S!IInv, NEW hold \in BOOLEAN, NEW elapsed \in BOOLEAN,
        S!FlushLabels(hold, elapsed)
    PROVE  S!IInv'
<1> USE DEF ShipApart
<1>1. S!Typed /\ S!Flow /\ S!Placed /\ S!Files /\ S!Remembered /\ S!Ordered /\ S!PanesCovered
    /\ S!WinsCovered
    BY DEF S!IInv
<1>2. UNCHANGED <<v3, v9, v11, v13, v1, v2, v5, v6, v7, v10, v15>>
      /\ v16 = "labels" /\ v5 = "up"
    BY DEF S!FlushLabels, S!Loop
<1>3. /\ v4 = "no" /\ ~S!Waits("panes") /\ ~S!Waits("windows")
      /\ \/ v4' = "no" /\ v16' = "sess"
         \/ v4' = "windows" /\ v16' = "windows"
      /\ v14' \subseteq {"agents", "labels"}
    BY <1>1, <1>2 DEF S!FlushLabels, S!Read, S!Flow, S!Asks, S!Typed
<1>4. \A x : S!Waits(x)' <=> S!Waits(x) BY <1>2 DEF S!Waits
<1>5. S!Flow'
    <2>1. S!Asks("panes")' /\ S!Asks("windows")' BY <1>1, <1>3, <1>4 DEF S!Asks
    <2>2. v5' = "up" /\ v16' # "away" BY <1>2, <1>3
    <2>3. QED BY <1>1, <1>2, <2>1, <2>2 DEF S!Flow
<1>6. S!Heard' BY <1>1, <1>2 DEF S!Ordered, S!Heard
<1>7. S!Stamped' /\ S!Queues(v11.pending)' /\ \A s \in S!Sess : S!Applied(s)'
    BY <1>1, <1>2, <1>4 DEF S!Ordered, S!Stamped, S!Queues, S!Applied
<1>8. S!PanesCovered'
    <2>1. S!Replies(v3, "panes", S!Now(StatusPanes))' <=> S!Replies(v3, "panes", S!Now(StatusPanes))
        BY <1>2 DEF S!Replies, S!Now
    <2>2. \A p \in StatusPanes : S!PaneShown(p) => S!PaneShown(p)'
        BY <1>2, <1>4 DEF S!PaneShown, S!Coming, S!Clean
    <2>3. S!NoneLeft' <=> S!NoneLeft BY <1>2 DEF S!NoneLeft
    <2>4. QED BY <1>1, <1>2, <1>4, <2>1, <2>2, <2>3 DEF S!PanesCovered
<1>9. CASE UNCHANGED <<v8, v12>>
    <2>1. S!Typed' BY <1>1, <1>2, <1>3, <1>9 DEF S!Typed
    <2>2. S!Placed' /\ S!Files' /\ S!Remembered'
        BY <1>1, <1>2, <1>9 DEF S!Placed, S!Files, S!Remembered, S!Same
    <2>3. S!Queues(v12.pending)' BY <1>1, <1>2, <1>4, <1>9 DEF S!Ordered, S!Queues
    <2>4. S!WinsCovered'
        <3>1. S!Replies(v3, "windows", S!Now(StatusWins))'
            <=> S!Replies(v3, "windows", S!Now(StatusWins))
            BY <1>2 DEF S!Replies, S!Now
        <3>2. \A w \in StatusWins : S!WinShown(w) => S!WinShown(w)'
            BY <1>2, <1>4, <1>9 DEF S!WinShown, S!Coming, S!Same, S!Clean
        <3>3. QED BY <1>1, <1>2, <1>4, <3>1, <3>2 DEF S!WinsCovered
    <2>5. QED BY <1>5, <1>6, <1>7, <1>8, <2>1, <2>2, <2>3, <2>4 DEF S!IInv, S!Ordered
<1>10. ASSUME S!Label([v12 EXCEPT !.pending = S!Empty], v12.pending) PROVE S!IInv'
    <2> DEFINE pend == v12.pending
    <2>1. pend \in S!Queued(StatusWins) /\ DOMAIN pend \subseteq StatusWins
        BY <1>1 DEF S!Typed, S!Queued
    <2>2. S!Empty \in S!Queued(StatusWins) /\ DOMAIN S!Empty = {}
        <3>1. S!Empty \in [{} -> StatusRows] /\ DOMAIN S!Empty = {} BY DEF S!Empty
        <3>2. {} \in SUBSET StatusWins OBVIOUS
        <3>3. QED BY <3>1, <3>2 DEF S!Queued
    <2>3. S!Placed' /\ S!Files' /\ S!Remembered' /\ ShipLabels(pend, S!Empty)
        BY <1>1, <1>2, <1>10, <2>1, <2>2, ShipLabelled
    <2>4. S!Typed' BY <1>1, <1>2, <1>3, <2>3 DEF S!Typed, ShipLabels
    <2>5. S!Queues(v12.pending)' BY <2>2, <2>3 DEF S!Queues, ShipLabels
    <2>6. S!WinsCovered'
        <3> SUFFICES ASSUME "labels" \in v15 PROVE S!WinsCovered' BY <1>2 DEF S!WinsCovered
        <3>1. S!Replies(v3, "windows", S!Now(StatusWins))'
            BY <1>1, <1>2 DEF S!WinsCovered, S!Replies, S!Now
        <3>2. ASSUME NEW w \in StatusWins, v1[w] # Null PROVE S!WinShown(w)'
            <4>1. S!WinShown(w) BY <1>1, <1>3, <3>2 DEF S!WinsCovered
            <4>2. SUFFICES ASSUME v2[w] = v1[w], ~S!Waits(w)
                           PROVE  v12'.written[w].win = v6[w]
                                  /\ v12'.written[w].row = S!Clean(v1[w])
                BY <1>2, <1>4 DEF S!WinShown, S!Coming, S!Clean, S!Same
            <4>3. CASE w \in DOMAIN pend
                <5>1. pend[w] = v1[w] BY <1>1, <3>2, <4>2, <4>3 DEF S!Ordered, S!Queues
                <5>2. QED BY <2>3, <4>3, <5>1 DEF ShipLabels
            <4>4. CASE w \notin DOMAIN pend
                BY <2>3, <4>1, <4>2, <4>4 DEF ShipLabels, S!WinShown, S!Coming, S!Same
            <4>5. QED BY <4>3, <4>4
        <3>3. QED BY <1>2, <3>1, <3>2 DEF S!WinsCovered
    <2>7. QED BY <1>5, <1>6, <1>7, <1>8, <2>3, <2>4, <2>5, <2>6 DEF S!IInv, S!Ordered
<1>11. QED BY <1>9, <1>10 DEF S!FlushLabels

\* A reply of the windows is applied, or the report ahead of it queued.
LEMMA ShipReplyLabels == ASSUME ShipApart, S!IInv, S!ReplyLabels PROVE S!IInv'
<1> USE DEF ShipApart
<1> DEFINE h == Head(v3)
<1>1. S!Typed /\ S!Flow /\ S!Placed /\ S!Files /\ S!Remembered /\ S!Ordered /\ S!PanesCovered
    /\ S!WinsCovered
    BY DEF S!IInv
<1>2. UNCHANGED <<v4, v9, v14, v15, v1, v2, v5, v6, v7, v10>> /\ v16 = "windows"
      /\ v5 = "up" /\ S!Pop
    BY DEF S!ReplyLabels, S!Loop
<1>3. CASE h.obj # "windows" BY <1>2, <1>3, ShipQueued DEF S!ReplyLabels
<1>4. ASSUME h.obj = "windows", v16' = "sess", UNCHANGED <<v11, v13>>, S!Label(v12, h.rows)
      PROVE  S!IInv'
    <2> DEFINE pend == v12.pending
    <2>1. pend \in S!Queued(StatusWins) /\ v12 = [v12 EXCEPT !.pending = pend] BY <1>1 DEF S!Typed
    <2>2. h.rows \in S!Queued(StatusWins) BY <1>1, <1>2, <1>4, ShipPop DEF S!Flow
    <2>3. S!Label([v12 EXCEPT !.pending = pend], h.rows) BY <1>4, <2>1
    <2>4. S!Placed' /\ S!Files' /\ S!Remembered' /\ ShipLabels(h.rows, pend)
        BY <1>1, <1>2, <1>4, <2>1, <2>2, <2>3, ShipLabelled
    <2>5. \A x : S!Waits(x) <=> S!Waits(x)' \/ x = "windows" BY <1>2, <1>4, ShipPop DEF S!Waits
    <2>6. ~S!Waits("windows")' /\ v4 # "windows"
        BY <1>1, <1>2, <1>4, <2>5, ShipPop DEF S!Waits, S!Flow, S!Asks
    <2>7. v3' \in Seq(S!Lines) BY <1>2, ShipPop
    <2>8. S!Typed' BY <1>1, <1>2, <1>4, <2>4, <2>7 DEF S!Typed, ShipLabels
    <2>9. S!Flow'
        <3>1. \A k \in 1..Len(v3') :
                /\ v3'[k].obj \in StatusPanes \union StatusWins \union {"usage"}
                   => v3'[k].row # Null
                /\ v3'[k].obj = "panes" => v3'[k].rows \in S!Queued(StatusPanes)
                /\ v3'[k].obj = "windows" => v3'[k].rows \in S!Queued(StatusWins)
            BY <1>2, ShipPop
        <3>2. \A j, k \in 1..Len(v3') :
                v3'[j].obj \in {"panes", "windows"} /\ v3'[j].obj = v3'[k].obj => j = k
            BY <1>2, ShipPop
        <3>3. S!Asks("panes")' /\ S!Asks("windows")' BY <1>1, <1>2, <2>5, <2>6 DEF S!Flow, S!Asks
        <3>4. v5' = "up" /\ v16' # "away" BY <1>2, <1>4
        <3>5. QED BY <3>1, <3>2, <3>3, <3>4 DEF S!Flow
    <2>10. \A x \in S!Objs : S!Waits(x)' <=> S!Waits(x) BY <2>5 DEF S!Objs, S!Sess
    <2>11. S!Ordered'
        <3>1. S!Heard' BY <1>2, ShipPop DEF S!Heard
        <3>2. DOMAIN pend \subseteq S!Objs /\ DOMAIN v11.pending \subseteq S!Objs
            BY <1>1 DEF S!Typed, S!Queued, S!Objs
        <3>3. S!Queues(v11.pending)' /\ S!Queues(v12.pending)'
            BY <1>1, <1>2, <1>4, <2>4, <2>10, <3>2 DEF S!Ordered, S!Queues, ShipLabels
        <3>4. \A s \in S!Sess : S!Applied(s)'
            BY <1>1, <1>2, <1>4, <2>10 DEF S!Ordered, S!Applied, S!Objs
        <3>5. S!Stamped' BY <1>1, <1>2, <1>4 DEF S!Ordered, S!Stamped
        <3>6. QED BY <3>1, <3>3, <3>4, <3>5 DEF S!Ordered
    <2>12. S!PanesCovered'
        <3> SUFFICES ASSUME "agents" \in v15 PROVE S!PanesCovered' BY <1>2 DEF S!PanesCovered
        <3>1. S!Replies(v3, "panes", S!Now(StatusPanes)) /\ S!Now(StatusPanes)' = S!Now(StatusPanes)
            BY <1>1, <1>2 DEF S!PanesCovered, S!Now
        <3>2. S!Replies(v3', "panes", S!Now(StatusPanes)') BY <1>2, <3>1, ShipPop
        <3>3. \A p \in StatusPanes : S!PaneShown(p) => S!PaneShown(p)'
            BY <1>2, <1>4, <2>10 DEF S!PaneShown, S!Coming, S!Clean, S!Objs
        <3>4. S!Waits("panes")' <=> S!Waits("panes") BY <2>5
        <3>5. S!NoneLeft' <=> S!NoneLeft BY <1>2 DEF S!NoneLeft
        <3>6. QED BY <1>1, <1>2, <3>2, <3>3, <3>4, <3>5 DEF S!PanesCovered
    <2>13. S!WinsCovered'
        <3> SUFFICES ASSUME "labels" \in v15 PROVE S!WinsCovered' BY <1>2 DEF S!WinsCovered
        <3>1. S!Replies(v3, "windows", S!Now(StatusWins)) /\ S!Now(StatusWins)' = S!Now(StatusWins)
            BY <1>1, <1>2 DEF S!WinsCovered, S!Now
        <3>2. S!Replies(v3', "windows", S!Now(StatusWins)') /\ h.rows = S!Now(StatusWins)
            BY <1>2, <1>4, <3>1, ShipPop
        <3>3. ASSUME NEW w \in StatusWins, v1[w] # Null PROVE S!WinShown(w)'
            <4>1. w \in DOMAIN h.rows /\ h.rows[w] = v1[w] BY <3>2, <3>3 DEF S!Now
            <4>2. v12'.written[w].win = v6[w] /\ v12'.written[w].row = S!Clean(v1[w])
                BY <2>4, <4>1 DEF ShipLabels
            <4>3. QED BY <1>2, <4>2 DEF S!WinShown, S!Same, S!Clean
        <3>4. QED BY <1>2, <3>2, <3>3 DEF S!WinsCovered
    <2>14. QED BY <2>4, <2>8, <2>9, <2>11, <2>12, <2>13 DEF S!IInv
<1>5. QED BY <1>3, <1>4 DEF S!ReplyLabels

\* The main loop reads a report, or its tick comes.
LEMMA ShipWakes == ASSUME ShipApart, S!IInv, S!Line \/ S!Tick PROVE S!IInv'
<1>1. CASE S!Line BY <1>1, ShipQueued DEF S!Line, S!Loop
<1>2. CASE S!Tick
    <2>1. UNCHANGED <<v3, v4, v8, v9, v11, v12, v13, v14, v15, v1, v2, v5,
                      v6, v7, v10>> /\ v16 = "idle" /\ v16' = "agents"
        BY <1>2 DEF S!Tick, S!Loop
    <2>2. S!Typed' BY <2>1 DEF S!IInv, S!Typed
    <2>3. S!Flow' BY <2>1 DEF S!IInv, S!Flow, S!Asks, S!Waits
    <2>4. S!Placed' /\ S!Files' /\ S!Remembered'
        BY <2>1 DEF S!IInv, S!Placed, S!Files, S!Remembered, S!Same
    <2>5. S!Ordered' BY <2>1 DEF S!IInv, S!Ordered, S!Heard, S!Queues, S!Waits, S!Applied, S!Stamped
    <2>6. S!PanesCovered'
        BY <2>1 DEF S!IInv, S!PanesCovered, S!Waits, S!Now, S!NoneLeft, S!PaneShown, S!Coming,
           S!Clean
    <2>7. S!WinsCovered'
        BY <2>1 DEF S!IInv, S!WinsCovered, S!Waits, S!Now, S!WinShown, S!Coming, S!Same, S!Clean
    <2>8. QED BY <2>2, <2>3, <2>4, <2>5, <2>6, <2>7 DEF S!IInv
<1>3. QED BY <1>1, <1>2

\* The last pass stamps what the session's reports said; or a shipper whose
\* reply was lost with the connection returns.
LEMMA ShipRest == ASSUME ShipApart, S!IInv, S!FlushRest \/ S!Fails PROVE S!IInv'
<1> USE DEF ShipApart
<1>1. UNCHANGED <<v3, v4, v8, v9, v11, v12, v14, v15, v1, v2, v5, v6, v7,
                  v10>>
    BY DEF S!FlushRest, S!Fails, S!Loop
<1>2. /\ (v16 = "sess" /\ v16' = "idle") \/ (v5 = "down" /\ v16' = "sess")
      /\ v16 # "away"
    BY DEF S!FlushRest, S!Fails
<1>3. S!Flow'
    <2>1. ~S!Waits("panes") /\ ~S!Waits("windows") /\ v4 \notin {"panes", "windows"}
        BY <1>2, ShipEmpty DEF S!IInv, S!Flow, S!Asks, S!Waits
    <2>2. QED BY <1>1, <1>2, <2>1 DEF S!IInv, S!Flow, S!Asks, S!Waits
<1>4. S!Placed' /\ S!Files' /\ S!Remembered'
    BY <1>1 DEF S!IInv, S!Placed, S!Files, S!Remembered, S!Same
<1>5. S!PanesCovered'
    BY <1>1 DEF S!IInv, S!PanesCovered, S!Waits, S!Now, S!NoneLeft, S!PaneShown, S!Coming, S!Clean
<1>6. S!WinsCovered'
    BY <1>1 DEF S!IInv, S!WinsCovered, S!Waits, S!Now, S!WinShown, S!Coming, S!Same, S!Clean
<1>7. S!Heard' /\ S!Queues(v11.pending)' /\ S!Queues(v12.pending)'
    BY <1>1 DEF S!IInv, S!Ordered, S!Heard, S!Queues, S!Waits
<1>8. v13 \in [S!Sess -> [written : S!Row, pending : S!Row, stamp : StatusRows]]
      /\ (\A s \in S!Sess : S!Applied(s) /\ v13[s].written \in {Null, v13[s].stamp})
    BY <1>2 DEF S!IInv, S!Ordered, S!Typed, S!Stamped
<1>9. CASE S!Fails
    <2>1. v13' = v13 BY <1>9 DEF S!Fails
    <2>2. (\A s \in S!Sess : S!Applied(s)') /\ S!Stamped'
        BY <1>1, <1>8, <2>1 DEF S!Applied, S!Waits, S!Stamped
    <2>3. S!Typed' BY <1>1, <1>2, <2>1 DEF S!IInv, S!Typed
    <2>4. QED BY <1>3, <1>4, <1>5, <1>6, <1>7, <2>2, <2>3 DEF S!IInv, S!Ordered
<1>10. CASE S!FlushRest
    <2>1. v13' = [s \in S!Sess |-> S!FlushSess(s)] BY <1>10 DEF S!FlushRest
    <2>2. ASSUME NEW s \in S!Sess
          PROVE  /\ v13'[s] \in [written : S!Row, pending : S!Row, stamp : StatusRows]
                 /\ S!Applied(s)' /\ v13'[s].written \in {Null, v13'[s].stamp}
        <3> DEFINE r == v13[s]
        <3>1. r \in [written : S!Row, pending : S!Row, stamp : StatusRows] BY <1>8
        <3>2. v13'[s] = S!FlushSess(s) BY <2>1
        <3>3. CASE r.pending = Null \/ (s = "res" /\ r.pending = BadRow)
            <4>1. v13'[s] = [r EXCEPT !.pending = Null] BY <3>2, <3>3 DEF S!FlushSess
            <4>2. v13'[s] \in [written : S!Row, pending : S!Row, stamp : StatusRows]
                  /\ v13'[s].pending = Null /\ v13'[s].written = r.written
                  /\ v13'[s].stamp = r.stamp
                BY <3>1, <4>1 DEF S!Row
            <4>3. S!Applied(s)' BY <1>1, <1>8, <3>3, <4>2 DEF S!Applied, S!Waits, S!Sanitized
            <4>4. QED BY <1>8, <4>2, <4>3
        <3>4. CASE ~(r.pending = Null \/ (s = "res" /\ r.pending = BadRow))
            <4>1. v13'[s] = [r EXCEPT !.pending = Null, !.written = S!Sanitized(r.pending),
                                 !.stamp = IF r.written = S!Sanitized(r.pending) THEN @
                                           ELSE S!Sanitized(r.pending)]
                BY <3>2, <3>4 DEF S!FlushSess
            <4>2. S!Sanitized(r.pending) \in StatusRows BY <3>1, <3>4 DEF S!Sanitized, S!Row
            <4>3. v13'[s] \in [written : S!Row, pending : S!Row, stamp : StatusRows]
                  /\ v13'[s].pending = Null /\ v13'[s].written = S!Sanitized(r.pending)
                  /\ v13'[s].stamp = IF r.written = S!Sanitized(r.pending) THEN r.stamp
                                      ELSE S!Sanitized(r.pending)
                BY <3>1, <4>1, <4>2 DEF S!Row
            <4>4. S!Applied(s)' BY <1>1, <1>8, <3>4, <4>3 DEF S!Applied, S!Waits, S!Sanitized
            <4>5. v13'[s].written \in {Null, v13'[s].stamp} BY <1>8, <4>2, <4>3
            <4>6. QED BY <4>3, <4>4, <4>5
        <3>5. QED BY <3>3, <3>4
    <2>3. v13' \in [S!Sess -> [written : S!Row, pending : S!Row, stamp : StatusRows]] BY <2>1, <2>2
    <2>4. S!Stamped' BY <2>2 DEF S!Stamped
    <2>5. S!Typed' BY <1>1, <1>10, <2>3 DEF S!IInv, S!Typed, S!FlushRest
    <2>6. QED BY <1>3, <1>4, <1>5, <1>6, <1>7, <2>2, <2>4, <2>5 DEF S!IInv, S!Ordered
<1>11. QED BY <1>9, <1>10

\* What was read before is old: nothing is covered.
LEMMA ShipRelocated ==
    ASSUME ShipApart, S!IInv, S!Flow', S!Ordered', v15' = {},
           S!Typed', S!Placed', S!Files', S!Remembered'
    PROVE  S!IInv'
BY DEF S!IInv, S!PanesCovered, S!WinsCovered

\* A mirror is rebuilt on a fresh local object.
LEMMA ShipRebuild == ASSUME ShipApart, S!IInv, NEW o \in StatusPanes \union StatusWins,
    S!Rebuild(o) PROVE S!IInv'
<1> USE DEF ShipApart
<1>1. S!Typed /\ S!Flow /\ S!Placed /\ S!Files /\ S!Remembered /\ S!Ordered BY DEF S!IInv
<1>2. /\ UNCHANGED <<v1, v2, v3, v4, v5, v9, v10, v11, v12, v13, v16>>
      /\ v6' = [v6 EXCEPT ![o] = v7] /\ v7' = v7 + 1 /\ v7 <= MaxLocals
      /\ v8' = [v8 EXCEPT ![v6[o]] = 0] /\ v15' = {} /\ v14' \subseteq {"agents", "labels"}
    BY <1>1 DEF S!Rebuild, S!Typed
<1>3. /\ v7 \in Nat /\ v7 \in S!Ids /\ v8 \in [S!Ids -> StatusRows]
      /\ v6 \in [StatusPanes \union StatusWins -> 0..MaxLocals]
    BY <1>1, <1>2 DEF S!Typed, S!Ids
<1>4. \A x \in StatusPanes \union StatusWins :
        v6[x] < v7 /\ v6[x] \in Nat /\ v6'[x] = IF x = o THEN v7 ELSE v6[x]
    BY <1>1, <1>2, <1>3 DEF S!Placed
<1>5. \A i \in S!Ids : v8'[i] = IF i = v6[o] THEN 0 ELSE v8[i] BY <1>2, <1>3
<1>6. S!Typed'
    <2>1. v6' \in [StatusPanes \union StatusWins -> 0..MaxLocals] BY <1>2, <1>3 DEF S!Ids
    <2>2. v7' \in 1..(MaxLocals + 1) BY <1>2, <1>3 DEF S!Ids
    <2>3. v8' \in [S!Ids -> StatusRows] BY <1>2, <1>3
    <2>4. QED BY <1>1, <1>2, <2>1, <2>2, <2>3 DEF S!Typed
<1>7. S!Flow' BY <1>1, <1>2 DEF S!Flow, S!Asks, S!Waits
<1>8. S!Ordered' BY <1>1, <1>2 DEF S!Ordered, S!Heard, S!Queues, S!Waits, S!Applied, S!Stamped
<1>9. S!Files' BY <1>1, <1>2 DEF S!Files
<1>10. S!Placed'
    <2>1. \A x \in StatusPanes \union StatusWins : v6'[x] < v7' BY <1>2, <1>3, <1>4
    <2>2. \A x, y \in StatusPanes \union StatusWins : v6'[x] = v6'[y] /\ v6'[x] # 0 => x = y
        BY <1>1, <1>3, <1>4 DEF S!Placed
    <2>3. \A x \in StatusPanes \union StatusWins : v6'[x] = 0 => v1[x] = Null /\ x \in StatusPanes
        BY <1>1, <1>3, <1>4 DEF S!Placed, S!Ids
    <2>4. \A w \in StatusWins : v12.written[w].win < v7'
        <3>1. \A w \in StatusWins : v12.written[w].win < v7 /\ v12.written[w].win \in Nat
            BY <1>1 DEF S!Placed, S!Typed
        <3>2. QED BY <1>2, <1>3, <3>1
    <2>5. ASSUME NEW i \in S!Ids, i >= v7'
          PROVE  v8'[i] = 0 /\ v9[i] = 0 /\ v11.written[i] = Null /\ i \notin v11.wasWritten
        <3>1. i >= v7 BY <1>2, <1>3, <2>5 DEF S!Ids
        <3>2. QED BY <1>1, <1>5, <3>1 DEF S!Placed
    <2>6. QED BY <1>2, <2>1, <2>2, <2>3, <2>4, <2>5 DEF S!Placed
<1>11. S!Remembered'
    <2>1. ASSUME NEW p \in StatusPanes, v6'[p] # 0
          PROVE  /\ v8'[v6'[p]] # 0 => v6'[p] \in v11.wasWritten
                 /\ v11.written[v6'[p]] # Null => v8'[v6'[p]] = v11.written[v6'[p]]
        <3>1. CASE p = o
            <4>1. v6'[p] = v7 BY <1>4, <3>1
            <4>2. v8'[v7] = 0 /\ v11.written[v7] = Null
                BY <1>1, <1>3, <1>5 DEF S!Placed
            <4>3. QED BY <4>1, <4>2
        <3>2. CASE p # o
            <4>1. v6'[p] = v6[p] /\ v6[p] \in S!Ids BY <1>3, <1>4, <2>1, <3>2 DEF S!Ids
            <4>2. v6[p] # v6[o] BY <1>1, <2>1, <3>2, <4>1 DEF S!Placed
            <4>3. v8'[v6[p]] = v8[v6[p]] BY <1>5, <4>1, <4>2
            <4>4. QED BY <1>1, <2>1, <4>1, <4>3 DEF S!Remembered
        <3>3. QED BY <3>1, <3>2
    <2>2. ASSUME NEW w \in StatusWins, v12.written[w].win = v6'[w]
          PROVE  v8'[v6'[w]] = v12.written[w].row
        <3>1. v12.written[w].win < v7 /\ v12.written[w].win \in Nat
            BY <1>1 DEF S!Placed, S!Typed
        <3>2. w # o BY <1>3, <1>4, <2>2, <3>1
        <3>3. v6'[w] = v6[w] /\ v6[w] # 0 /\ v6[w] \in S!Ids
            BY <1>1, <1>3, <1>4, <3>2 DEF S!Ids, S!Placed
        <3>4. v6[w] # v6[o] BY <1>1, <3>2, <3>3 DEF S!Placed
        <3>5. v8'[v6[w]] = v8[v6[w]] BY <1>5, <3>3, <3>4
        <3>6. QED BY <1>1, <2>2, <3>3, <3>5 DEF S!Remembered, S!Same
    <2>3. QED BY <1>2, <2>1, <2>2 DEF S!Remembered, S!Same
<1>12. QED BY <1>2, <1>6, <1>7, <1>8, <1>9, <1>10, <1>11, ShipRelocated

\* A remote pane closes, and its mirror with it.
LEMMA ShipClose == ASSUME ShipApart, S!IInv, NEW o \in StatusPanes, S!Close(o) PROVE S!IInv'
<1> USE DEF ShipApart
<1>1. S!Typed /\ S!Flow /\ S!Placed /\ S!Files /\ S!Remembered /\ S!Ordered BY DEF S!IInv
<1>2. /\ UNCHANGED <<v2, v3, v4, v5, v7, v9, v10, v11, v12, v13, v14, v16>>
      /\ v6' = [v6 EXCEPT ![o] = 0] /\ v1' = [v1 EXCEPT ![o] = Null]
      /\ v8' = [v8 EXCEPT ![v6[o]] = 0] /\ v15' = {}
    BY DEF S!Close
<1>3. /\ v1 \in [S!Objs -> S!Row] /\ v8 \in [S!Ids -> StatusRows]
      /\ v6 \in [StatusPanes \union StatusWins -> 0..MaxLocals]
    BY <1>1 DEF S!Typed
<1>4. \A x \in StatusPanes \union StatusWins : v6'[x] = IF x = o THEN 0 ELSE v6[x] BY <1>2, <1>3
<1>5. \A i \in S!Ids : v8'[i] = IF i = v6[o] THEN 0 ELSE v8[i] BY <1>2, <1>3
<1>6. S!Typed'
    <2>1. v6' \in [StatusPanes \union StatusWins -> 0..MaxLocals] BY <1>2, <1>3
    <2>2. v1' \in [S!Objs -> S!Row] BY <1>2, <1>3 DEF S!Row
    <2>3. v8' \in [S!Ids -> StatusRows] BY <1>2, <1>3
    <2>4. QED BY <1>1, <1>2, <2>1, <2>2, <2>3 DEF S!Typed
<1>7. S!Flow' BY <1>1, <1>2 DEF S!Flow, S!Asks, S!Waits
<1>8. S!Ordered' BY <1>1, <1>2 DEF S!Ordered, S!Heard, S!Queues, S!Waits, S!Applied, S!Stamped
<1>9. S!Files' BY <1>1, <1>2 DEF S!Files
<1>10. S!Placed'
    <2>1. \A x \in StatusPanes \union StatusWins : x \in S!Objs BY DEF S!Objs
    <2>2. \A x \in StatusPanes \union StatusWins : v6'[x] < v7
        <3>1. v7 \in Nat /\ v7 > 0 BY <1>1 DEF S!Typed
        <3>2. QED BY <1>1, <1>4, <3>1 DEF S!Placed
    <2>3. \A x, y \in StatusPanes \union StatusWins : v6'[x] = v6'[y] /\ v6'[x] # 0 => x = y
        BY <1>1, <1>4 DEF S!Placed
    <2>4. \A x \in StatusPanes \union StatusWins : v6'[x] = 0 => v1'[x] = Null /\ x \in StatusPanes
        BY <1>1, <1>2, <1>3, <1>4, <2>1 DEF S!Placed
    <2>5. QED BY <1>1, <1>2, <1>5, <2>2, <2>3, <2>4 DEF S!Placed
<1>11. S!Remembered'
    <2>1. ASSUME NEW x \in StatusPanes \union StatusWins, v6'[x] # 0
          PROVE  v6'[x] = v6[x] /\ v8'[v6[x]] = v8[v6[x]]
        <3>1. x # o /\ v6'[x] = v6[x] BY <1>4, <2>1
        <3>2. v6[x] \in S!Ids BY <1>3, <2>1, <3>1 DEF S!Ids
        <3>3. v6[x] # v6[o] BY <1>1, <2>1, <3>1 DEF S!Placed
        <3>4. QED BY <1>5, <3>1, <3>2, <3>3
    <2>2. ASSUME NEW w \in StatusWins PROVE v6'[w] # 0 BY <1>1, <1>4 DEF S!Placed
    <2>3. ASSUME NEW p \in StatusPanes, v6'[p] # 0
          PROVE  /\ v8'[v6'[p]] # 0 => v6'[p] \in v11.wasWritten
                 /\ v11.written[v6'[p]] # Null => v8'[v6'[p]] = v11.written[v6'[p]]
        <3>1. v6'[p] = v6[p] /\ v8'[v6[p]] = v8[v6[p]] BY <2>1, <2>3
        <3>2. QED BY <1>1, <2>3, <3>1 DEF S!Remembered
    <2>4. ASSUME NEW w \in StatusWins, v12.written[w].win = v6'[w]
          PROVE  v8'[v6'[w]] = v12.written[w].row
        <3>1. v6'[w] = v6[w] /\ v8'[v6[w]] = v8[v6[w]] BY <2>1, <2>2
        <3>2. QED BY <1>1, <2>4, <3>1 DEF S!Remembered, S!Same
    <2>5. QED BY <1>2, <2>3, <2>4 DEF S!Remembered, S!Same
<1>12. QED BY <1>2, <1>6, <1>7, <1>8, <1>9, <1>10, <1>11, ShipRelocated

\* The status directory loses or regains its trust, and the connection goes.
LEMMA ShipTurns == ASSUME ShipApart, S!IInv, S!Distrust \/ S!Trust \/ S!Drop PROVE S!IInv'
<1> USE DEF ShipApart
<1>1. S!Typed /\ S!Flow /\ S!Placed /\ S!Files /\ S!Remembered /\ S!Ordered BY DEF S!IInv
<1>2. CASE S!Distrust \/ S!Trust
    <2>1. UNCHANGED <<v1, v2, v3, v4, v5, v6, v7, v8, v9, v11, v12, v13,
                      v14, v16>> /\ v15' = {} /\ v10' \in BOOLEAN
        BY <1>2 DEF S!Distrust, S!Trust
    <2>2. S!Typed' BY <1>1, <2>1 DEF S!Typed
    <2>3. S!Flow' BY <1>1, <2>1 DEF S!Flow, S!Asks, S!Waits
    <2>4. S!Placed' /\ S!Files' /\ S!Remembered'
        BY <1>1, <2>1 DEF S!Placed, S!Files, S!Remembered, S!Same
    <2>5. S!Ordered' BY <1>1, <2>1 DEF S!Ordered, S!Heard, S!Queues, S!Waits, S!Applied, S!Stamped
    <2>6. QED BY <2>1, <2>2, <2>3, <2>4, <2>5, ShipRelocated
<1>3. CASE S!Drop
    <2>1. /\ UNCHANGED <<v1, v6, v7, v8, v9, v10, v11, v12, v13, v14, v16>>
          /\ v5' = "down" /\ v3' = <<>> /\ v4' = "no" /\ v2' = [x \in S!Objs |-> Null]
          /\ v15' = {} /\ v5 = "up"
        BY <1>3 DEF S!Drop
    <2>2. \A x : ~S!Waits(x)' BY <2>1, ShipEmpty DEF S!Waits
    <2>3. S!Typed' BY <1>1, <2>1 DEF S!Typed, S!Row
    <2>4. S!Flow' BY <1>1, <2>1, <2>2 DEF S!Flow, S!Asks
    <2>5. S!Placed' /\ S!Files' /\ S!Remembered'
        BY <1>1, <2>1 DEF S!Placed, S!Files, S!Remembered, S!Same
    <2>6. S!Ordered'
        <3>1. S!Heard' BY <2>1, ShipEmpty DEF S!Heard
        <3>2. \A x \in S!Objs : v2'[x] = Null BY <2>1
        <3>3. DOMAIN v11.pending \subseteq S!Objs /\ DOMAIN v12.pending \subseteq S!Objs
            BY <1>1 DEF S!Typed, S!Queued, S!Objs
        <3>4. S!Queues(v11.pending)' /\ S!Queues(v12.pending)' BY <2>1, <3>2, <3>3 DEF S!Queues
        <3>5. \A s \in S!Sess : S!Applied(s)' BY <3>2 DEF S!Applied, S!Objs
        <3>6. S!Stamped' BY <1>1, <2>1 DEF S!Ordered, S!Stamped
        <3>7. QED BY <3>1, <3>4, <3>5, <3>6 DEF S!Ordered
    <2>7. QED BY <2>1, <2>3, <2>4, <2>5, <2>6, ShipRelocated
<1>4. QED BY <1>2, <1>3

\* The loss is noticed, and the connection repaired.
LEMMA ShipReturns ==
    ASSUME ShipApart, S!IInv, (\E parks \in BOOLEAN : S!Reattach(parks)) \/ S!Repair PROVE S!IInv'
<1> USE DEF ShipApart
<1>1. S!Typed /\ S!Flow /\ S!Placed /\ S!Files /\ S!Remembered /\ S!Ordered BY DEF S!IInv
<1>2. v13 \in [S!Sess -> [written : S!Row, pending : S!Row, stamp : StatusRows]]
      /\ \A s \in S!Sess : S!Applied(s)
    BY <1>1 DEF S!Typed, S!Ordered
<1>3. UNCHANGED <<v1, v2, v3, v4, v6, v7, v8, v10, v12, v14>> /\ v15' = {}
    BY DEF S!Reattach, S!Repair
<1>4. v5 = "down" /\ \A s \in S!Sess : v2[s] = Null
    BY <1>1 DEF S!Reattach, S!Repair, S!Flow, S!Objs
<1>5. \A s \in S!Sess : S!Applied(s)' BY <1>3, <1>4 DEF S!Applied
<1>6. ASSUME NEW parks \in BOOLEAN, S!Reattach(parks) PROVE S!IInv'
    <2>1. v5' = "down" /\ v16 = "idle" /\ v16' = "away"
          /\ v13' = [s \in S!Sess |-> [v13[s] EXCEPT !.stamp = 0]]
        BY <1>4, <1>6 DEF S!Reattach
    <2>2. v13' \in [S!Sess -> [written : S!Row, pending : S!Row, stamp : StatusRows]] BY <1>2, <2>1
    <2>3. S!Flow' BY <1>1, <1>3, <1>4, <2>1 DEF S!Flow, S!Asks, S!Waits
    <2>4. CASE UNCHANGED <<v11, v9>>
        <3>1. S!Typed' BY <1>1, <1>3, <2>1, <2>2, <2>4 DEF S!Typed
        <3>2. S!Placed' /\ S!Files' /\ S!Remembered'
            BY <1>1, <1>3, <2>4 DEF S!Placed, S!Files, S!Remembered, S!Same
        <3>3. S!Ordered'
            BY <1>1, <1>3, <1>5, <2>1, <2>4 DEF S!Ordered, S!Heard, S!Queues, S!Waits, S!Stamped
        <3>4. QED BY <1>3, <2>3, <3>1, <3>2, <3>3, ShipRelocated
    <2>5. CASE /\ v11' = [v11 EXCEPT !.written = [i \in S!Ids |-> Null],
                                 !.unsynced = @ \ {i \in S!Ids : v11.written[i] # Null}]
               /\ v9' = [i \in S!Ids |-> IF v11.written[i] # Null THEN 0 ELSE v9[i]]
        <3>1. v11 \in [written : [S!Ids -> S!Row], pending : S!Queued(StatusPanes),
                       unsynced : SUBSET S!Ids, wasWritten : SUBSET S!Ids]
            BY <1>1 DEF S!Typed
        <3>2. /\ v11'.written = [i \in S!Ids |-> Null]
              /\ v11'.unsynced = v11.unsynced \ {i \in S!Ids : v11.written[i] # Null}
              /\ v11'.pending = v11.pending /\ v11'.wasWritten = v11.wasWritten
              /\ v11' \in [written : [S!Ids -> S!Row], pending : S!Queued(StatusPanes),
                           unsynced : SUBSET S!Ids, wasWritten : SUBSET S!Ids]
            BY <2>5, <3>1 DEF S!Row
        <3>3. v9' \in [S!Ids -> StatusRows] BY <1>1, <2>5 DEF S!Typed
        <3>4. S!Typed' BY <1>1, <1>3, <2>1, <2>2, <3>2, <3>3 DEF S!Typed
        <3>5. S!Files' BY <1>1, <2>5, <3>2 DEF S!Files
        <3>6. S!Placed' BY <1>1, <1>3, <2>5, <3>2 DEF S!Placed
        <3>7. \A p \in StatusPanes : v6[p] # 0 => v6[p] \in S!Ids BY <1>1 DEF S!Typed, S!Ids
        <3>8. S!Remembered' BY <1>1, <1>3, <3>2, <3>7 DEF S!Remembered, S!Same
        <3>9. S!Ordered'
            BY <1>1, <1>3, <1>5, <2>1, <3>2 DEF S!Ordered, S!Heard, S!Queues, S!Waits, S!Stamped
        <3>10. QED BY <1>3, <2>3, <3>4, <3>5, <3>6, <3>8, <3>9, ShipRelocated
    <2>6. QED BY <1>6, <2>4, <2>5 DEF S!Reattach, S!Clear
<1>7. CASE S!Repair
    <2>1. UNCHANGED <<v11, v9>> /\ v5' = "up" /\ v16' = "idle" /\ v16 = "away"
          /\ v13' = [s \in S!Sess |-> S!Reset(s)]
        BY <1>7 DEF S!Repair
    <2>2. \A s \in S!Sess : v13'[s] = [v13[s] EXCEPT !.written = Null, !.pending = Null]
        BY <2>1 DEF S!Reset
    <2>3. v13' \in [S!Sess -> [written : S!Row, pending : S!Row, stamp : StatusRows]]
          /\ \A s \in S!Sess : v13'[s].written = Null
        <3>1. ASSUME NEW s \in S!Sess
              PROVE  v13'[s] \in [written : S!Row, pending : S!Row, stamp : StatusRows]
                     /\ v13'[s].written = Null
            BY <1>2, <2>2 DEF S!Row
        <3>2. QED BY <2>1, <3>1
    <2>4. S!Flow'
        <3>1. \A x : ~S!Waits(x) BY <1>1, <1>4, ShipEmpty DEF S!Flow, S!Waits
        <3>2. QED BY <1>1, <1>3, <1>4, <2>1, <3>1 DEF S!Flow, S!Asks, S!Waits
    <2>5. S!Typed' BY <1>1, <1>3, <2>1, <2>3 DEF S!Typed
    <2>6. S!Placed' /\ S!Files' /\ S!Remembered'
        BY <1>1, <1>3, <2>1 DEF S!Placed, S!Files, S!Remembered, S!Same
    <2>7. S!Ordered'
        BY <1>1, <1>3, <1>5, <2>1, <2>3 DEF S!Ordered, S!Heard, S!Queues, S!Waits, S!Stamped
    <2>8. QED BY <1>3, <2>4, <2>5, <2>6, <2>7, ShipRelocated
<1>8. QED BY <1>6, <1>7

\* Every step keeps the invariant.
LEMMA ShipStep == ShipApart /\ S!IInv /\ [S!Next]_(S!svars) => S!IInv'
<1> SUFFICES ASSUME ShipApart, S!IInv, [S!Next]_(S!svars) PROVE S!IInv' OBVIOUS
<1>1. CASE UNCHANGED S!svars
    <2>1. S!Typed' BY <1>1 DEF S!svars, S!IInv, S!Typed
    <2>2. S!Flow' BY <1>1 DEF S!svars, S!IInv, S!Flow, S!Asks, S!Waits
    <2>3. S!Placed' /\ S!Files' /\ S!Remembered'
        BY <1>1 DEF S!svars, S!IInv, S!Placed, S!Files, S!Remembered, S!Same
    <2>4. S!Ordered'
        <3>1. UNCHANGED <<v2, v3, v11, v12, v13, v16>> /\ S!Ordered BY <1>1 DEF S!svars, S!IInv
        <3>2. S!Heard' BY <3>1 DEF S!Ordered, S!Heard
        <3>3. S!Queues(v11.pending)' /\ S!Queues(v12.pending)'
            BY <3>1 DEF S!Ordered, S!Queues, S!Waits
        <3>4. (\A s \in S!Sess : S!Applied(s)') /\ S!Stamped'
            BY <3>1 DEF S!Ordered, S!Applied, S!Waits, S!Stamped
        <3>5. QED BY <3>2, <3>3, <3>4 DEF S!Ordered
    <2>5. S!PanesCovered'
        BY <1>1 DEF S!svars, S!IInv, S!PanesCovered, S!Waits, S!Now, S!NoneLeft, S!PaneShown,
           S!Coming, S!Clean
    <2>6. S!WinsCovered'
        BY <1>1 DEF S!svars, S!IInv, S!WinsCovered, S!Waits, S!Now, S!WinShown, S!Coming, S!Same,
           S!Clean
    <2>7. QED BY <2>1, <2>2, <2>3, <2>4, <2>5, <2>6 DEF S!IInv
<1>2. CASE \E o \in S!Objs, v \in StatusRows : S!Change(o, v) BY <1>2, ShipChange
<1>3. CASE (\E o \in S!Objs : S!Report(o)) \/ S!Excursion("res") BY <1>3, ShipReports
<1>4. CASE S!Answer BY <1>4, ShipAnswer
<1>5. CASE S!Line \/ S!Tick BY <1>5, ShipWakes
<1>6. CASE \E hold \in BOOLEAN, elapsed \in BOOLEAN :
              S!FlushAgents(hold, elapsed) \/ S!FlushLabels(hold, elapsed)
    BY <1>6, ShipFlushAgents, ShipFlushLabels
<1>7. CASE S!ReplyAgents \/ S!ReplyLabels BY <1>7, ShipReplyAgents, ShipReplyLabels
<1>8. CASE S!FlushRest \/ S!Fails BY <1>8, ShipRest
<1>9. CASE (\E o \in StatusPanes \union StatusWins : S!Rebuild(o))
    \/ \E p \in StatusPanes : S!Close(p)
    BY <1>9, ShipRebuild, ShipClose
<1>10. CASE S!Distrust \/ S!Trust \/ S!Drop BY <1>10, ShipTurns
<1>11. CASE S!Repair \/ \E parks \in BOOLEAN : S!Reattach(parks) BY <1>11, ShipReturns
<1>12. QED BY <1>1, <1>2, <1>3, <1>4, <1>5, <1>6, <1>7, <1>8, <1>9, <1>10, <1>11 DEF S!Next

\* The invariant gives the property.
LEMMA ShipHolds == ASSUME ShipApart, S!IInv PROVE S!Shipped
<1> USE DEF ShipApart
<1>1. S!Typed /\ S!Placed /\ S!Files /\ S!Remembered /\ S!Ordered /\ S!PanesCovered /\ S!WinsCovered
    BY DEF S!IInv
<1> SUFFICES ASSUME S!Settled PROVE S!Agrees BY DEF S!Shipped
<1>2. \A x : ~S!Waits(x) BY ShipEmpty DEF S!Settled, S!Waits
<1>3. DOMAIN v11.pending = {} /\ DOMAIN v12.pending = {} BY DEF S!Settled, S!Empty
<1>4. S!NoneLeft /\ \A p \in StatusPanes : v1[p] # Null => S!PaneShown(p)
    BY <1>1, <1>2 DEF S!PanesCovered, S!Settled
<1>5. \A w \in StatusWins : v1[w] # Null => S!WinShown(w) BY <1>1, <1>2 DEF S!WinsCovered, S!Settled
<1>6. \A x \in S!Objs : v2[x] = v1[x] BY DEF S!Settled
<1>7. ASSUME NEW p \in StatusPanes, v6[p] # 0, v1[p] # Null
      PROVE  v8[v6[p]] = S!Clean(v1[p]) /\ (v10 => v9[v6[p]] = S!Clean(v1[p]))
    <2>1. v11.written[v6[p]] = S!Clean(v1[p]) /\ (v10 => v6[p] \notin v11.unsynced)
        BY <1>2, <1>3, <1>4, <1>6, <1>7 DEF S!PaneShown, S!Coming, S!Objs
    <2>2. v1[p] \in StatusRows BY <1>1, <1>7 DEF S!Typed, S!Row, S!Objs
    <2>3. S!Clean(v1[p]) # Null BY <2>2 DEF S!Clean
    <2>4. v6[p] \in S!Ids BY <1>1, <1>7 DEF S!Typed, S!Ids
    <2>5. QED BY <1>1, <1>7, <2>1, <2>3, <2>4 DEF S!Files, S!Remembered
<1>8. ASSUME NEW w \in StatusWins, v1[w] # Null PROVE v8[v6[w]] = S!Clean(v1[w])
    <2>1. S!Same(w) /\ v12.written[w].row = S!Clean(v1[w])
        BY <1>2, <1>3, <1>5, <1>6, <1>8 DEF S!WinShown, S!Coming, S!Objs
    <2>2. QED BY <1>1, <2>1 DEF S!Remembered
<1>9. ASSUME NEW s \in S!Sess, v1[s] # Null
      PROVE  (s = "res" /\ v1[s] = BadRow) \/ v13[s].stamp = S!Sanitized(v1[s])
    <2>1. v2[s] = v1[s] /\ v13[s].pending = Null /\ ~S!Waits(s) /\ v16 = "idle"
        BY <1>2, <1>6 DEF S!Settled, S!Objs
    <2>2. (s = "res" /\ v1[s] = BadRow) \/ v13[s].written = S!Sanitized(v1[s])
        BY <1>1, <1>9, <2>1 DEF S!Ordered, S!Applied
    <2>3. v1[s] \in StatusRows BY <1>1, <1>9 DEF S!Typed, S!Row, S!Objs
    <2>4. S!Sanitized(v1[s]) # Null BY <2>3 DEF S!Sanitized
    <2>5. v13[s].written \in {Null, v13[s].stamp} BY <1>1, <2>1 DEF S!Ordered, S!Stamped
    <2>6. QED BY <2>2, <2>4, <2>5
<1>10. "res" \in S!Sess /\ "usage" \in S!Sess BY DEF S!Sess
<1>11. QED BY <1>4, <1>7, <1>8, <1>9, <1>10 DEF S!Agrees, S!NoneLeft, S!Sanitized, S!Clean

\* Of a behaviour of this part.
ShipInv == part = "status" => S!IInv

(* For any panes, windows, changes, losses and failed listings: when        *)
(* nothing is left to happen the mirror shows the status the remote         *)
(* carries, whatever was queued, read, lost, rebuilt or forgotten on the    *)
(* way (agentstatus.go, windowlabels.go, sessionres.go).                    *)
THEOREM StatusShipped ==
    ASSUME {0, 1, BadRow} \subseteq StatusRows, Null \notin StatusRows,
           StatusPanes \intersect StatusWins = {},
           (StatusPanes \union StatusWins) \intersect {"res", "usage", "panes", "windows"} = {},
           IsFiniteSet(StatusPanes \union StatusWins), MaxLocals \in Nat,
           Cardinality(StatusPanes \union StatusWins) <= MaxLocals
    PROVE  AgreedSpec => []Shipped
<1>0. ShipApart BY DEF ShipApart
<1>1. AgreedStarts => ShipInv BY <1>0, ShipInit DEF AgreedStarts, ShipInv
<1>2. ShipInv /\ [AgreedSteps]_agreed => ShipInv'
    <2> SUFFICES ASSUME ShipInv, [AgreedSteps]_agreed PROVE ShipInv' OBVIOUS
    <2>1. CASE UNCHANGED agreed
        <3>1. UNCHANGED S!svars /\ UNCHANGED part
            BY <2>1 DEF agreed, Behind, S!svars
        <3>2. QED BY <1>0, <3>1, ShipStep DEF ShipInv
    <2>2. CASE part # "status" /\ AgreedSteps BY <2>2 DEF AgreedSteps, ShipInv
    <2>3. CASE part = "status" /\ S!Next BY <1>0, <2>3, ShipStep DEF ShipInv
    <2>4. QED BY <2>1, <2>2, <2>3 DEF AgreedSteps
<1>3. ShipInv => Shipped BY <1>0, ShipHolds DEF ShipInv, Shipped
<1>4. QED BY <1>1, <1>2, <1>3, PTL DEF AgreedSpec

=============================================================================
