------------------------------ MODULE QueryFilter ------------------------------
(***************************************************************************)
(* The filter that takes a program's terminal queries out of a mirrored    *)
(* pane's output (keyneg.Filter), inside the pump that also writes holds   *)
(* and seeds to the same local terminal (outputSink.start).  Output comes  *)
(* in frames cut at any byte.  The local terminal is tmux's parser, as the *)
(* source's comments describe it: a query it reads from the ground is      *)
(* answered, a second time.                                                *)
(*                                                                         *)
(* A byte stands for its class: "E" is ESC, "C" is CAN or SUB, "n" ends a  *)
(* CSI query ("6n") and "t" any other, "?" asks, "c" is a colour number    *)
(* and its ";", "$" is "$q", and "t" is any other text.  Left out: BEL (it *)
(* ends an OSC as ST does), controls inside a CSI, the 64 KiB bound on a   *)
(* region, which none here reaches, and a sequence broken off by the ESC   *)
(* of the next: where that one is stripped, its ESC no longer ends the     *)
(* first.  A lost frame needs no step of its own: the bytes that do arrive *)
(* are any others.                                                         *)
(*                                                                         *)
(* Bounds: frames of at most MaxFrame bytes; a hold of Pending bytes, or   *)
(* of Colour for a colour query.                                           *)
(***************************************************************************)
EXTENDS Naturals, Sequences

CONSTANTS MaxFrame, Pending, Colour

VARIABLES
    held, region, escaped,   \* the filter: what it holds back, where it is
    local, holding,          \* the local terminal's parser; the pump's hold
    raw, owed, whole,        \* what the program's own terminal has read and done
    answered, strayed, swallowed, open

filter == <<held, region, escaped>>
reference == <<raw, owed, whole>>
qvars == <<filter, local, holding, reference, answered, strayed, swallowed, open>>

Bytes == {"E", "[", "]", "P", "_", "\\", "C", "n", "?", "c", "$", "t"}
Frames == UNION {[1..n -> Bytes] : n \in 1..MaxFrame}

Init ==
    /\ held = <<>> /\ region = "none" /\ escaped = FALSE
    /\ local = "ground" /\ holding = FALSE
    /\ raw = "ground" /\ owed = <<>> /\ whole = TRUE
    /\ answered = FALSE /\ strayed = FALSE /\ swallowed = FALSE /\ open = TRUE

----------------------------------------------------------------------------
(* tmux's parser: the state after a byte, and what the byte did.           *)
To(s) == [s |-> s, did |-> <<>>]
Does(e) == [s |-> "ground", did |-> <<e>>]
Cut(r) == [r EXCEPT !.did = <<<<"cut">>>> \o @]   \* a sequence broken off by the next

Opened(b) == CASE b = "[" -> "csi" [] b = "]" -> "osc" [] b = "P" -> "dcs0" [] b = "_" -> "apc"
Escape(b) ==
    IF b \in {"[", "]", "P", "_"} THEN To(Opened(b))
    ELSE IF b = "E" THEN Cut(To("esc")) ELSE IF b \in {"C", "\\"} THEN To("ground") ELSE Does(<<"esc", b>>)

Csi(s, b) ==
    IF b = "E" THEN Cut(To("esc")) ELSE IF b = "C" THEN To("ground")
    ELSE IF b \in {"?", "c"} THEN To("params")
    ELSE IF s = "csi" /\ b = "n" THEN Does(<<"query">>) ELSE Does(<<"csi", s, b>>)

\* An OSC: its number unread, a colour's, one that asks, any other.
Osc(s, b) ==
    IF b = "C" THEN To("ground")
    ELSE IF b = "E" THEN To(IF s = "asks" THEN "askesc" ELSE "oscesc")
    ELSE IF s = "apc" THEN To("apc")
    ELSE To(CASE s = "osc" /\ b = "c" -> "colour" [] s = "colour" /\ b = "?" -> "asks" [] OTHER -> "string")

\* A DCS ends at ESC \ alone; any other byte after an ESC is its payload.
Dcs(s, b) ==
    IF s = "dcsesc" THEN IF b = "\\" THEN Does(<<"dcs">>) ELSE To("dcs")
    ELSE IF s = "rqesc" THEN IF b = "\\" THEN Does(<<"query">>) ELSE To("rq")
    ELSE IF b = "E" THEN To(IF s = "rq" THEN "rqesc" ELSE "dcsesc")
    ELSE To(IF s = "rq" \/ (s = "dcs0" /\ b = "$") THEN "rq" ELSE "dcs")

Parse(s, b) ==
    CASE s = "ground" -> IF b = "E" THEN To("esc") ELSE IF b = "C" THEN To("ground") ELSE Does(<<"print", b>>)
      [] s = "esc" -> Escape(b)
      [] s \in {"askesc", "oscesc"} -> IF b # "\\" THEN Cut(Escape(b)) ELSE Does(IF s = "askesc" THEN <<"query">> ELSE <<"string">>)
      [] s \in {"csi", "params"} -> Csi(s, b)
      [] s \in {"osc", "colour", "asks", "string", "apc"} -> Osc(s, b)
      [] OTHER -> Dcs(s, b)

RECURSIVE Reads(_, _)
Reads(s, bytes) ==
    IF bytes = <<>> THEN To(s)
    ELSE LET p == Parse(s, Head(bytes)) r == Reads(p.s, Tail(bytes))
         IN  [s |-> r.s, did |-> p.did \o r.did]

Effects(did) == SelectSeq(did, LAMBDA e : e \notin {<<"query">>, <<"cut">>})
Has(did, e) == \E i \in DOMAIN did : did[i] = <<e>>

----------------------------------------------------------------------------
(* The filter (keyneg/strip.go).                                           *)
Verdict(v, n) == [v |-> v, n |-> n]
After(b, i, S) == {j \in i..Len(b) : b[j] \in S}
First(S) == CHOOSE j \in S : \A k \in S : j <= k

ClassifyCSI(b) ==
    LET ends == After(b, 3, Bytes \ {"?", "c"})
        i == First(ends)
    IN  CASE ends = {} -> Verdict("hold", 0)
          [] ends # {} /\ b[i] \in {"E", "C"} -> Verdict("abort", 0)
          [] OTHER -> Verdict(IF b[i] = "n" /\ i = 3 THEN "strip" ELSE "forward", i)

\* regionEnd: the ST, what aborts an OSC instead, or neither yet.
STs(b, i, doubled) ==
    {j \in i..(Len(b) - 1) : b[j] = "E" /\ b[j + 1] = "\\"
        /\ (doubled => \E k \in 0..j : k % 2 = 0 /\ k <= j - i /\ (\A l \in (j - k)..j : b[l] = "E")
                                       /\ (j - k = i \/ b[j - k - 1] # "E"))}
Aborts(b, i) == {j \in i..Len(b) : b[j] = "C" \/ (b[j] = "E" /\ j < Len(b) /\ b[j + 1] # "\\")}

ClassifyOSC(b) ==
    IF Len(b) < 3 THEN Verdict("hold", 0)
    ELSE IF b[3] # "c" THEN Verdict("osc", 2)
    ELSE LET ends == STs(b, 4, FALSE) stops == Aborts(b, 4)
         IN  IF stops # {} /\ (ends = {} \/ First(stops) < First(ends)) THEN Verdict("osc", 2)
             ELSE IF ends = {} THEN Verdict("colour", 0)
             ELSE Verdict(IF SubSeq(b, 4, First(ends) - 1) = <<"?">> THEN "strip" ELSE "forward", First(ends) + 1)

ClassifyDCS(b) ==
    IF Len(b) < 3 THEN Verdict("hold", 0)
    ELSE IF b[3] # "$" THEN Verdict("dcs", 2)
    ELSE LET ends == STs(b, 4, TRUE)
         IN  IF ends = {} THEN Verdict("hold", 0) ELSE Verdict("strip", First(ends) + 1)

Classify(b) ==
    IF Len(b) < 2 THEN Verdict("hold", 0)
    ELSE CASE b[2] = "[" -> ClassifyCSI(b)
           [] b[2] = "]" -> ClassifyOSC(b)
           [] b[2] = "P" -> ClassifyDCS(b)
           [] b[2] = "_" -> Verdict("apc", 2)
           [] OTHER -> Verdict("abort", 0)

Leads(out, r) == [r EXCEPT !.out = out \o @]
From(b, i) == SubSeq(b, i, Len(b))

RECURSIVE Scan(_, _, _)

\* walkRegion, a byte at a time: one ESC of a DCS may wait for its next.
Walk(b, r, e) ==
    IF r = "dcs" THEN
        Leads(<<b[1]>>, Scan(Tail(b), IF e /\ b[1] = "\\" THEN "none" ELSE r, ~e /\ b[1] = "E"))
    ELSE IF b[1] = "E" THEN Scan(b, "none", FALSE)
    ELSE Leads(<<b[1]>>, Scan(Tail(b), IF b[1] = "C" THEN "none" ELSE r, FALSE))

\* Feed's loop.
Scan(b, r, e) ==
    IF b = <<>> THEN [out |-> <<>>, held |-> <<>>, region |-> r, escaped |-> e]
    ELSE IF r # "none" THEN Walk(b, r, e)
    ELSE IF b[1] # "E" THEN Leads(<<b[1]>>, Scan(Tail(b), r, FALSE))
    ELSE LET c == Classify(b)
             waits == \/ c.v = "hold" /\ Len(b) <= Pending
                      \/ c.v = "colour" /\ Len(b) <= Colour
         IN  IF waits THEN [out |-> <<>>, held |-> b, region |-> r, escaped |-> FALSE]
             ELSE IF c.v \in {"hold", "colour", "abort"} THEN Leads(<<"E">>, Scan(Tail(b), r, FALSE))
             ELSE Leads(IF c.v = "strip" THEN <<>> ELSE SubSeq(b, 1, c.n),
                        Scan(From(b, c.n + 1), IF c.v \in {"osc", "dcs", "apc"} THEN c.v ELSE r, FALSE))

Fed(p) == Scan(held \o p, region, escaped)

KeepRegion == UNCHANGED <<region, escaped>>  \* Mutant: a hold leaves the filter in the region it ended
EndRegion == region' = "none" /\ escaped' = FALSE
PendingDCSEscape == region = "dcs" /\ escaped

----------------------------------------------------------------------------
(* The pump.                                                               *)
\* What reaches the terminal does what the program's own terminal owed.
Writes(bytes, due) ==
    LET r == Reads(local, bytes)
        did == Effects(r.did)
    IN  /\ local' = r.s
        /\ answered' = (answered \/ Has(r.did, "query"))
        /\ IF whole
           THEN /\ strayed' = (strayed \/ Len(did) > Len(due) \/ \E i \in DOMAIN did : i <= Len(due) /\ did[i] # due[i])
                /\ owed' = From(due, Len(did) + 1)
           ELSE owed' = <<>> /\ UNCHANGED strayed

\* Nothing compares with the program's terminal any more.
Apart == whole' = FALSE /\ owed' = <<>> /\ raw' = "ground" /\ UNCHANGED strayed
Beside(bytes) ==
    LET r == Reads(local, bytes)
    IN  local' = r.s /\ answered' = (answered \/ Has(r.did, "query")) /\ Apart

\* A DECRQSS is short enough for the hold, as every real one is.
Fits(p) ==
    LET b == held \o p
    IN  \A i \in DOMAIN b : b[i] = "E" /\ ClassifyDCS(From(b, i)).v = "hold" /\ i + 1 <= Len(b) /\ b[i + 1] = "P"
            => Len(b) - i + 1 <= Pending

\* No sequence is broken off by the next one's ESC.
Tidy(p) == ~Has(Reads(local, held \o p).did, "cut")

Output(p) ==
    /\ open /\ Fits(p) /\ (holding \/ Tidy(p))
    /\ LET f == Fed(p) r == Reads(raw, p)
       IN  /\ held' = f.held /\ region' = f.region /\ escaped' = f.escaped
           /\ IF holding THEN UNCHANGED <<local, answered, reference, strayed>>
              ELSE /\ Writes(f.out, owed \o Effects(r.did))
                   /\ raw' = (IF whole THEN r.s ELSE raw) /\ UNCHANGED whole
    /\ UNCHANGED <<holding, swallowed, open>>

Hold ==
    /\ open /\ ~holding /\ holding' = TRUE
    /\ Beside((IF PendingDCSEscape THEN <<"\\">> ELSE <<>>) \o <<"E", "\\">>)
    /\ EndRegion /\ UNCHANGED <<held, swallowed, open>>

\* A seed leads with ESC [ m.
Seed ==
    /\ open /\ holding' = FALSE /\ Beside(<<"E", "[", "t">>)
    /\ swallowed' = (swallowed \/ local' # "ground")
    /\ IF holding THEN EndRegion ELSE UNCHANGED <<region, escaped>>
    /\ UNCHANGED <<held, open>>

Deadline ==
    /\ open /\ holding /\ holding' = FALSE /\ Beside(<<"E", "[", "?", "t">>) /\ EndRegion
    /\ UNCHANGED <<held, swallowed, open>>

\* The pane is gone: what was held back is flushed as it is.
Close ==
    /\ open /\ open' = FALSE /\ held' = <<>> /\ holding' = FALSE
    /\ Writes(held, owed) /\ UNCHANGED <<region, escaped, raw, whole, swallowed>>

Next == Hold \/ Seed \/ Deadline \/ Close \/ \E p \in Frames : Output(p)
Spec == Init /\ [][Next]_qvars

----------------------------------------------------------------------------
(* However the output is cut into frames, and whatever holds, seeds and    *)
(* deadlines the pump writes between them, the local terminal answers no   *)
(* query and a hold lands on it, until a seed is lost in an open DCS (see  *)
(* SeedPaints); and while no hold or seed has come, it has done just what  *)
(* the program's own terminal did besides answering.                       *)
QueriesStripped ==
    /\ ~swallowed => ~answered /\ (holding => local = "ground")
    /\ ~strayed
    /\ whole /\ held = <<>> => owed = <<>> /\ (open => local = raw)

\* render.Seed's comment: "paints captured as a full-screen repaint".
SeedPaints == ~swallowed
===============================================================================
