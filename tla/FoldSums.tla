------------------------------ MODULE FoldSums ------------------------------
(***************************************************************************)
(* What the folds of the community modules add up to.  SumFunction and     *)
(* FoldLeft take one element after the other, through a recursive function *)
(* on the subsets of the domain.  That such a function exists, that the    *)
(* order does not matter, and how the sum changes with one value, is       *)
(* shown here for any finite domain, each time with a smallest set on      *)
(* which it would fail.                                                    *)
(***************************************************************************)
EXTENDS Integers, Sequences, FiniteSets, SequencesExt, FiniteSetTheorems,
        WellFoundedInduction, TLAPS

\* g folds the subsets of S by F, from b, taking pick[s] out of s first.
FoldsBy(g, S, pick, F, b) ==
    g = [s \in SUBSET S |-> IF s = {} THEN b ELSE F[<<pick[s], g[s \ {pick[s]}]>>]]

\* g sums w over the subsets of S, taking pick[s] out of s first.
SumsBy(g, S, pick, w) ==
    g = [s \in SUBSET S |-> IF s = {} THEN 0 ELSE w[pick[s]] + g[s \ {pick[s]}]]

\* g sums w over the subsets of S, whichever element is taken first.
Sums(g, S, w) ==
    /\ g \in [SUBSET S -> Int] /\ g[{}] = 0
    /\ \A s \in SUBSET S : \A x \in s : g[s] = w[x] + g[s \ {x}]

Picks(pick, S) == \A s \in SUBSET S : s # {} => pick[s] \in s

(* Of the sets of a non-empty collection of subsets of a finite set, one    *)
(* has no other below it.                                                   *)
LEMMA SmallestSet ==
    ASSUME NEW S, IsFiniteSet(S), NEW C \in SUBSET (SUBSET S), C # {}
    PROVE  \E s \in C : \A t \in C : ~ (t \subseteq s /\ t # s)
<1>1. IsWellFoundedOn(StrictSubsetOrdering(S), FiniteSubsetsOf(S))
    BY FS_StrictSubsetOrderingWellFounded
<1>2. FiniteSubsetsOf(S) = SUBSET S
    BY FS_FiniteSubsetsOfFinite
<1>3. C \subseteq FiniteSubsetsOf(S)
    BY <1>2
<1>4. \E s \in C : \A t \in C : ~ (<<t, s>> \in StrictSubsetOrdering(S))
    BY <1>1, <1>3, WFMin
<1>5. PICK s \in C : \A t \in C : ~ (<<t, s>> \in StrictSubsetOrdering(S))
    BY <1>4
<1>6. ASSUME NEW t \in C, t \subseteq s, t # s PROVE FALSE
    <2>1. <<t, s>> \in StrictSubsetOrdering(S)
        BY <1>6 DEF StrictSubsetOrdering
    <2>2. QED BY <1>5, <2>1
<1>7. QED BY <1>6

(* A set of natural numbers has a smallest one.                             *)
LEMMA SmallestNumber ==
    ASSUME NEW C \in SUBSET Nat, C # {}
    PROVE  \E n \in C : \A m \in C : n <= m
<1>1. PICK n \in C : \A m \in C : ~ (<<m, n>> \in OpToRel(<, Nat))
    BY NatLessThanWellFounded, WFMin
<1>2. ASSUME NEW m \in C PROVE n <= m
    <2>1. m \in Nat /\ n \in Nat /\ <<m, n>> \in Nat \X Nat
        OBVIOUS
    <2>2. ~ (m < n)
        BY <1>1, <2>1 DEF OpToRel
    <2>3. QED BY <2>1, <2>2
<1>3. QED BY <1>2

(* Two such functions agree where both are defined and their values agree.  *)
LEMMA FoldsAgree ==
    ASSUME NEW S, IsFiniteSet(S), NEW T, NEW pick, NEW F, NEW b, NEW g, NEW h,
           Picks(pick, S), FoldsBy(g, S, pick, F, b), FoldsBy(h, T, pick, F, b)
    PROVE  \A s \in SUBSET (S \cap T) : g[s] = h[s]
<1> DEFINE C == {s \in SUBSET (S \cap T) : g[s] # h[s]}
<1> SUFFICES ASSUME C # {} PROVE FALSE
    OBVIOUS
<1>1. PICK s \in C : \A t \in C : ~ (t \subseteq s /\ t # s)
    <2>1. C \in SUBSET (SUBSET S) OBVIOUS
    <2> HIDE DEF C
    <2>2. QED BY <2>1, SmallestSet
<1>2. s \in SUBSET S /\ s \in SUBSET T
    OBVIOUS
<1>3. /\ g[s] = IF s = {} THEN b ELSE F[<<pick[s], g[s \ {pick[s]}]>>]
      /\ h[s] = IF s = {} THEN b ELSE F[<<pick[s], h[s \ {pick[s]}]>>]
    BY <1>2 DEF FoldsBy
<1>4. s # {} /\ pick[s] \in s
    BY <1>2, <1>3 DEF Picks
<1>5. s \ {pick[s]} \notin C
    BY <1>1, <1>4
<1>6. g[s \ {pick[s]}] = h[s \ {pick[s]}]
    BY <1>5, <1>2
<1>7. QED BY <1>3, <1>4, <1>6

(* A function that folds by picking exists on any finite set.               *)
LEMMA FoldsExist ==
    ASSUME NEW S, IsFiniteSet(S), NEW pick, NEW F, NEW b, Picks(pick, S)
    PROVE  \E g : FoldsBy(g, S, pick, F, b)
<1> DEFINE C == {T \in SUBSET S : \A g : ~ FoldsBy(g, T, pick, F, b)}
<1> SUFFICES ASSUME C # {} PROVE FALSE
    <2>1. S \notin C => \E g : FoldsBy(g, S, pick, F, b)
        OBVIOUS
    <2>2. QED BY <2>1
<1>1. PICK T \in C : \A U \in C : ~ (U \subseteq T /\ U # T)
    <2>1. C \in SUBSET (SUBSET S) OBVIOUS
    <2> HIDE DEF C
    <2>2. QED BY <2>1, SmallestSet
<1> DEFINE G(u) == CHOOSE g : FoldsBy(g, u, pick, F, b)
           rest(s) == s \ {pick[s]}
           h == [s \in SUBSET T |-> IF s = {} THEN b ELSE F[<<pick[s], G(rest(s))[rest(s)]>>]]
<1>2. \A s \in SUBSET T : s # {} => pick[s] \in s
    BY DEF Picks
<1>3. \A u \in SUBSET T : u # T => FoldsBy(G(u), u, pick, F, b)
    <2>1. SUFFICES ASSUME NEW u \in SUBSET T, u # T PROVE FoldsBy(G(u), u, pick, F, b)
        OBVIOUS
    <2>2. u \notin C BY <1>1, <2>1
    <2>3. \E g : FoldsBy(g, u, pick, F, b) BY <2>2
    <2>4. QED BY <2>3
<1> HIDE DEF G
<1>4. \A u \in SUBSET T : u # T => G(u)[u] = h[u]
    <2> SUFFICES ASSUME NEW u \in SUBSET T, u # T PROVE G(u)[u] = h[u]
        OBVIOUS
    <2>1. FoldsBy(G(u), u, pick, F, b) BY <1>3
    <2>2. G(u)[u] = IF u = {} THEN b ELSE F[<<pick[u], G(u)[rest(u)]>>]
        BY <2>1 DEF FoldsBy
    <2>3. h[u] = IF u = {} THEN b ELSE F[<<pick[u], G(rest(u))[rest(u)]>>]
        OBVIOUS
    <2>4. CASE u = {} BY <2>2, <2>3, <2>4
    <2>5. CASE u # {}
        <3>1. rest(u) \in SUBSET T /\ rest(u) # T /\ rest(u) \in SUBSET (u \cap rest(u))
            BY <1>2, <2>5
        <3>2. FoldsBy(G(rest(u)), rest(u), pick, F, b) BY <1>3, <3>1
        <3>3. IsFiniteSet(u) /\ Picks(pick, u)
            <4>1. u \in SUBSET S OBVIOUS
            <4>2. QED BY <4>1, FS_Subset DEF Picks
        <3>4. G(u)[rest(u)] = G(rest(u))[rest(u)]
            BY <2>1, <3>1, <3>2, <3>3, FoldsAgree
        <3>5. QED BY <2>2, <2>3, <2>5, <3>4
    <2>6. QED BY <2>4, <2>5
<1>5. \A s \in SUBSET T : s # {} => G(rest(s))[rest(s)] = h[rest(s)]
    BY <1>2, <1>4
<1>6. h = [s \in SUBSET T |-> IF s = {} THEN b ELSE F[<<pick[s], h[rest(s)]>>]]
    BY <1>5
<1>7. FoldsBy(h, T, pick, F, b)
    BY <1>6 DEF FoldsBy
<1>8. QED BY <1>7

(* Every value of such a fold is of the type F is made for.                 *)
LEMMA FoldsTyped ==
    ASSUME NEW S, IsFiniteSet(S), NEW pick, NEW V, NEW F \in [S \X V -> V], NEW b \in V, NEW g,
           Picks(pick, S), FoldsBy(g, S, pick, F, b)
    PROVE  g \in [SUBSET S -> V]
<1> DEFINE C == {s \in SUBSET S : g[s] \notin V}
<1>1. /\ DOMAIN g = SUBSET S /\ g = [s \in SUBSET S |-> g[s]]
      /\ \A s \in SUBSET S : g[s] = IF s = {} THEN b ELSE F[<<pick[s], g[s \ {pick[s]}]>>]
    BY DEF FoldsBy
<1>2. ASSUME C # {} PROVE FALSE
    <2>1. PICK s \in C : \A t \in C : ~ (t \subseteq s /\ t # s)
        <3>1. C \in SUBSET (SUBSET S) OBVIOUS
        <3> HIDE DEF C
        <3>2. QED BY <1>2, <3>1, SmallestSet
    <2>2. s # {} /\ pick[s] \in s
        BY <1>1 DEF Picks
    <2>3. g[s \ {pick[s]}] \in V
        BY <2>1, <2>2
    <2>4. <<pick[s], g[s \ {pick[s]}]>> \in S \X V
        BY <2>2, <2>3
    <2>5. QED BY <1>1, <2>2, <2>4
<1>3. QED BY <1>1, <1>2

(* A function that sums by picking exists on any finite set.                *)
LEMMA SumsByExists ==
    ASSUME NEW S, IsFiniteSet(S), NEW pick, NEW w, Picks(pick, S), \A x \in S : w[x] \in Int
    PROVE  \E g : SumsBy(g, S, pick, w)
<1> DEFINE F == [p \in S \X Int |-> w[p[1]] + p[2]]
<1>1. F \in [S \X Int -> Int] /\ \A x \in S, n \in Int : F[<<x, n>>] = w[x] + n
    OBVIOUS
<1> HIDE DEF F
<1>2. PICK g : FoldsBy(g, S, pick, F, 0)
    BY FoldsExist
<1>3. g \in [SUBSET S -> Int]
    <2>1. 0 \in Int OBVIOUS
    <2>2. QED BY <1>1, <1>2, <2>1, FoldsTyped
<1>4. \A s \in SUBSET S : s # {} =>
          F[<<pick[s], g[s \ {pick[s]}]>>] = w[pick[s]] + g[s \ {pick[s]}]
    <2> SUFFICES ASSUME NEW s \in SUBSET S, s # {}
                 PROVE  F[<<pick[s], g[s \ {pick[s]}]>>] = w[pick[s]] + g[s \ {pick[s]}]
        OBVIOUS
    <2>1. pick[s] \in S /\ g[s \ {pick[s]}] \in Int
        BY <1>3 DEF Picks
    <2>2. QED BY <1>1, <2>1
<1>5. g = [s \in SUBSET S |-> IF s = {} THEN 0 ELSE w[pick[s]] + g[s \ {pick[s]}]]
    BY <1>2, <1>4 DEF FoldsBy
<1>6. QED BY <1>5 DEF SumsBy

----------------------------------------------------------------------------
(* Picking in any order gives the same sums, for integers.                  *)
LEMMA SumsAnyOrder ==
    ASSUME NEW S, IsFiniteSet(S), NEW pick, NEW w, NEW g,
           Picks(pick, S), \A x \in S : w[x] \in Int, SumsBy(g, S, pick, w)
    PROVE  Sums(g, S, w)
<1>1. \A s \in SUBSET S : g[s] = IF s = {} THEN 0 ELSE w[pick[s]] + g[s \ {pick[s]}]
    BY DEF SumsBy
<1>2. DOMAIN g = SUBSET S /\ g = [s \in SUBSET S |-> g[s]]
    BY DEF SumsBy
<1>3. \A s \in SUBSET S : g[s] \in Int
    <2> DEFINE C == {s \in SUBSET S : g[s] \notin Int}
    <2> SUFFICES ASSUME C # {} PROVE FALSE
        OBVIOUS
    <2>1. PICK s \in C : \A t \in C : ~ (t \subseteq s /\ t # s)
        <3>1. C \in SUBSET (SUBSET S) OBVIOUS
        <3> HIDE DEF C
        <3>2. QED BY <3>1, SmallestSet
    <2>2. s # {} /\ pick[s] \in s
        BY <1>1 DEF Picks
    <2>3. g[s \ {pick[s]}] \in Int
        BY <2>1, <2>2
    <2>4. QED BY <1>1, <2>2, <2>3
<1>4. \A s \in SUBSET S : \A x \in s : g[s] = w[x] + g[s \ {x}]
    <2> DEFINE C == {s \in SUBSET S : \E x \in s : g[s] # w[x] + g[s \ {x}]}
    <2> SUFFICES ASSUME C # {} PROVE FALSE
        OBVIOUS
    <2>1. PICK s \in C : \A t \in C : ~ (t \subseteq s /\ t # s)
        <3>1. C \in SUBSET (SUBSET S) OBVIOUS
        <3> HIDE DEF C
        <3>2. QED BY <3>1, SmallestSet
    <2>2. PICK x \in s : g[s] # w[x] + g[s \ {x}]
        OBVIOUS
    <2> DEFINE y == pick[s]
    <2>3. y \in s /\ g[s] = w[y] + g[s \ {y}]
        BY <1>1 DEF Picks
    <2> HIDE DEF y
    <2>4. x # y
        BY <2>2, <2>3
    <2>5. s \ {x} \in (SUBSET S) \ C /\ s \ {y} \in (SUBSET S) \ C
        BY <2>1, <2>2, <2>3
    <2>6. g[s \ {x}] = w[y] + g[(s \ {x}) \ {y}] /\ g[s \ {y}] = w[x] + g[(s \ {y}) \ {x}]
        BY <2>2, <2>3, <2>4, <2>5
    <2>7. (s \ {x}) \ {y} = (s \ {y}) \ {x}
        OBVIOUS
    <2>8. w[x] \in Int /\ w[y] \in Int /\ g[(s \ {y}) \ {x}] \in Int
        BY <1>3, <2>3
    <2>9. g[s] = w[y] + (w[x] + g[(s \ {y}) \ {x}])
        BY <2>3, <2>6
    <2>10. g[s \ {x}] = w[y] + g[(s \ {y}) \ {x}]
        BY <2>6, <2>7, Zenon
    <2>11. g[s] = w[x] + g[s \ {x}]
        BY <2>8, <2>9, <2>10
    <2>12. QED BY <2>2, <2>11
<1>5. g[{}] = 0
    BY <1>1
<1>6. QED BY <1>2, <1>3, <1>4, <1>5 DEF Sums

(* Where two functions have the same values, they have the same sums.       *)
LEMMA SumsAgree ==
    ASSUME NEW S, IsFiniteSet(S), NEW w, NEW g, Sums(g, S, w),
           NEW T, NEW v, NEW h, Sums(h, T, v),
           NEW s0 \in SUBSET (S \cap T), \A x \in s0 : w[x] = v[x]
    PROVE  g[s0] = h[s0]
<1> DEFINE C == {s \in SUBSET s0 : g[s] # h[s]}
<1> SUFFICES ASSUME C # {} PROVE FALSE
    OBVIOUS
<1>1. PICK s \in C : \A t \in C : ~ (t \subseteq s /\ t # s)
    <2>1. C \in SUBSET (SUBSET S) OBVIOUS
    <2> HIDE DEF C
    <2>2. QED BY <2>1, SmallestSet
<1>2. s \in SUBSET S /\ s \in SUBSET T /\ s \in SUBSET s0
    OBVIOUS
<1>3. s # {}
    BY <1>2 DEF Sums
<1>4. PICK x \in s : TRUE
    BY <1>3
<1>5. g[s] = w[x] + g[s \ {x}] /\ h[s] = v[x] + h[s \ {x}]
    BY <1>2 DEF Sums
<1>6. s \ {x} \notin C /\ s \ {x} \in SUBSET s0
    BY <1>1, <1>2
<1>7. g[s \ {x}] = h[s \ {x}]
    BY <1>6
<1>8. QED BY <1>2, <1>5, <1>7

----------------------------------------------------------------------------
(* The operators of the community modules are such sums.                    *)

(* SumFunction adds up the values of a function with a finite domain.       *)
LEMMA SumFunctionSums ==
    ASSUME NEW S, IsFiniteSet(S), NEW w \in [S -> Int]
    PROVE  \E g : Sums(g, S, w) /\ SumFunction(w) = g[S]
<1> DEFINE pick == [s \in SUBSET S |-> CHOOSE x \in s : TRUE]
           G == CHOOSE g : g = [s \in SUBSET S |->
                    IF s = {} THEN 0
                    ELSE w[CHOOSE x \in s : TRUE] + g[s \ {CHOOSE x \in s : TRUE}]]
<1>1. Picks(pick, S)
    <2> SUFFICES ASSUME NEW s \in SUBSET S, s # {} PROVE (CHOOSE x \in s : TRUE) \in s
        BY DEF Picks
    <2>1. \E x \in s : TRUE OBVIOUS
    <2>2. QED BY <2>1
<1>2. PICK g : SumsBy(g, S, pick, w)
    BY <1>1, SumsByExists
<1>3. g = [s \in SUBSET S |-> IF s = {} THEN 0
                    ELSE w[CHOOSE x \in s : TRUE] + g[s \ {CHOOSE x \in s : TRUE}]]
    BY <1>2 DEF SumsBy
<1>4. G = [s \in SUBSET S |-> IF s = {} THEN 0
                    ELSE w[CHOOSE x \in s : TRUE] + G[s \ {CHOOSE x \in s : TRUE}]]
    BY <1>3
<1>5. SumFunction(w) = G[S]
    BY DEF SumFunction, SumFunctionOnSet, FoldFunctionOnSet, MapThenFoldSet
<1> HIDE DEF G
<1>6. SumsBy(G, S, pick, w)
    BY <1>4 DEF SumsBy
<1>7. Sums(G, S, w)
    BY <1>1, <1>6, SumsAnyOrder
<1>8. QED BY <1>5, <1>7

(* Max picks an element of a set of numbers up to n.                        *)
LEMMA MaxOfInterval ==
    ASSUME NEW n \in Nat, NEW s \in SUBSET (1..n), s # {}
    PROVE  Max(s) \in s
<1> DEFINE S == 1..n
           C == {u \in SUBSET S : u # {} /\ \A m \in u : \E k \in u : m < k}
<1>1. IsFiniteSet(S) /\ C \in SUBSET (SUBSET S)
    BY FS_Interval
<1>2. ASSUME C # {} PROVE FALSE
    <2>1. PICK u \in C : \A t \in C : ~ (t \subseteq u /\ t # u)
        <3> HIDE DEF C, S
        <3>1. QED BY <1>1, <1>2, SmallestSet
    <2>2. u # {} /\ u \in SUBSET S /\ \A m \in u : \E k \in u : m < k
        OBVIOUS
    <2>3. PICK x \in u : TRUE
        BY <2>2
    <2>4. PICK y \in u : x < y
        BY <2>2
    <2>5. u \subseteq Int /\ y \in u \ {x}
        BY <2>2, <2>4
    <2>6. u \ {x} \in SUBSET S /\ u \ {x} # {} /\ u \ {x} \notin C
        BY <2>1, <2>2, <2>5
    <2>7. PICK m \in u \ {x} : \A k \in u \ {x} : ~ (m < k)
        BY <2>6
    <2>8. PICK k \in u : m < k
        BY <2>2
    <2>9. k = x /\ y <= m
        BY <2>5, <2>7, <2>8
    <2>10. QED BY <2>4, <2>5, <2>8, <2>9
<1>3. s \notin C /\ s \in SUBSET S /\ s \subseteq Int
    <2>1. C = {} BY <1>2
    <2> HIDE DEF C
    <2>2. QED BY <2>1
<1>4. \E m \in s : \A k \in s : m >= k
    BY <1>3
<1>5. QED BY <1>4 DEF Max

(* Folding the sizes of the frames of a sequence from the left adds them    *)
(* up.                                                                      *)
LEMMA FoldLeftSums ==
    ASSUME NEW q, NEW n \in Nat, DOMAIN q = 1..n, \A i \in 1..n : q[i].size \in Int
    PROVE  \E g : /\ Sums(g, 1..n, [i \in 1..n |-> q[i].size])
                  /\ FoldLeft(LAMBDA b, f : b + f.size, 0, q) = g[1..n]
<1> DEFINE S == 1..n
           w == [i \in S |-> q[i].size]
           pick == [s \in SUBSET S |-> Max(s)]
           G == CHOOSE g : g = [s \in SUBSET S |->
                    IF s = {} THEN 0 ELSE g[s \ {Max(s)}] + q[Max(s)].size]
<1>1. IsFiniteSet(S)
    BY FS_Interval
<1>2. Picks(pick, S)
    <2> SUFFICES ASSUME NEW s \in SUBSET S, s # {} PROVE Max(s) \in s
        BY DEF Picks
    <2>1. QED BY MaxOfInterval
<1> HIDE DEF S
<1>3. \A i \in S : w[i] \in Int
    BY DEF S
<1>4. PICK g : SumsBy(g, S, pick, w)
    BY <1>1, <1>2, <1>3, SumsByExists
<1>5. Sums(g, S, w)
    BY <1>1, <1>2, <1>3, <1>4, SumsAnyOrder
<1>6. \A s \in SUBSET S : s # {} =>
          /\ Max(s) \in s /\ g[s] = g[s \ {Max(s)}] + q[Max(s)].size
    <2> SUFFICES ASSUME NEW s \in SUBSET S, s # {}
                 PROVE  Max(s) \in s /\ g[s] = g[s \ {Max(s)}] + q[Max(s)].size
        OBVIOUS
    <2>1. Max(s) \in s
        BY <1>2 DEF Picks
    <2>2. g[s] = w[Max(s)] + g[s \ {Max(s)}]
        BY <1>5, <2>1 DEF Sums
    <2>3. g[s \ {Max(s)}] \in Int /\ w[Max(s)] \in Int /\ w[Max(s)] = q[Max(s)].size
        BY <1>3, <1>5, <2>1 DEF Sums
    <2>4. QED BY <2>1, <2>2, <2>3
<1>7. g[{}] = 0 /\ DOMAIN g = SUBSET S /\ g = [s \in SUBSET S |-> g[s]]
    BY <1>5 DEF Sums
<1>8. g = [s \in SUBSET S |-> IF s = {} THEN 0 ELSE g[s \ {Max(s)}] + q[Max(s)].size]
    BY <1>6, <1>7
<1>9. G = [s \in SUBSET S |-> IF s = {} THEN 0 ELSE G[s \ {Max(s)}] + q[Max(s)].size]
    BY <1>8
<1>10. FoldLeft(LAMBDA b, f : b + f.size, 0, q) = G[S]
    BY DEF FoldLeft, MapThenFoldSet, S
<1> HIDE DEF G
<1>11. \A s \in SUBSET S : G[s] = g[s]
    <2> DEFINE C == {s \in SUBSET S : G[s] # g[s]}
    <2> SUFFICES ASSUME C # {} PROVE FALSE
        OBVIOUS
    <2>1. PICK s \in C : \A t \in C : ~ (t \subseteq s /\ t # s)
        <3>1. C \in SUBSET (SUBSET S) OBVIOUS
        <3> HIDE DEF C
        <3>2. QED BY <1>1, <3>1, SmallestSet
    <2>2. s # {}
        BY <1>7, <1>9
    <2>3. s \ {Max(s)} \notin C
        BY <1>6, <2>1, <2>2
    <2>4. G[s \ {Max(s)}] = g[s \ {Max(s)}]
        BY <2>3
    <2>5. QED BY <1>6, <1>9, <2>2, <2>4
<1>12. QED BY <1>5, <1>10, <1>11 DEF S

----------------------------------------------------------------------------
(* How a sum changes.                                                       *)

(* A sum is an integer, and a natural number when all its values are.       *)
LEMMA SumInt ==
    ASSUME NEW S, IsFiniteSet(S), NEW w \in [S -> Int]
    PROVE  /\ SumFunction(w) \in Int
           /\ (\A x \in S : w[x] \in Nat) => \A x \in S : w[x] <= SumFunction(w)
           /\ (\A x \in S : w[x] \in Nat) => SumFunction(w) \in Nat
<1>1. PICK g : Sums(g, S, w) /\ SumFunction(w) = g[S]
    BY SumFunctionSums
<1>2. \A s \in SUBSET S : g[s] \in Int
    BY <1>1 DEF Sums
<1>3. ASSUME \A x \in S : w[x] \in Nat PROVE \A s \in SUBSET S : g[s] \in Nat
    <2> DEFINE C == {s \in SUBSET S : g[s] \notin Nat}
    <2> SUFFICES ASSUME C # {} PROVE FALSE
        OBVIOUS
    <2>1. PICK s \in C : \A t \in C : ~ (t \subseteq s /\ t # s)
        <3>1. C \in SUBSET (SUBSET S) OBVIOUS
        <3> HIDE DEF C
        <3>2. QED BY <3>1, SmallestSet
    <2>2. PICK x \in s : TRUE
        <3>1. g[{}] = 0 BY <1>1 DEF Sums
        <3>2. 0 \in Nat /\ g[s] \notin Nat OBVIOUS
        <3>3. s # {} BY <3>1, <3>2
        <3>4. QED BY <3>3
    <2>3. g[s] = w[x] + g[s \ {x}] /\ g[s \ {x}] \in Nat
        <3>1. s \ {x} \notin C BY <2>1
        <3>2. QED BY <1>1, <3>1 DEF Sums
    <2>4. QED BY <1>3, <2>3
<1>4. ASSUME \A x \in S : w[x] \in Nat, NEW x \in S PROVE w[x] <= g[S]
    <2>1. g[S] = w[x] + g[S \ {x}] /\ g[S \ {x}] \in Nat
        BY <1>1, <1>3, <1>4 DEF Sums
    <2>2. w[x] \in Nat
        BY <1>4
    <2>3. QED BY <2>1, <2>2
<1>5. QED BY <1>1, <1>2, <1>3, <1>4

(* The sum follows the one value that changes.                              *)
LEMMA SumChange ==
    ASSUME NEW S, IsFiniteSet(S), NEW w \in [S -> Int], NEW x \in S, NEW v \in [S -> Int],
           \A y \in S \ {x} : v[y] = w[y]
    PROVE  SumFunction(v) = SumFunction(w) - w[x] + v[x]
<1>1. PICK g : Sums(g, S, w) /\ SumFunction(w) = g[S]
    BY SumFunctionSums
<1>2. PICK h : Sums(h, S, v) /\ SumFunction(v) = h[S]
    BY SumFunctionSums
<1>3. g[S] = w[x] + g[S \ {x}] /\ h[S] = v[x] + h[S \ {x}]
    BY <1>1, <1>2 DEF Sums
<1>4. g[S \ {x}] = h[S \ {x}]
    <2>1. S \ {x} \in SUBSET (S \cap S) OBVIOUS
    <2>2. QED BY <1>1, <1>2, <2>1, SumsAgree
<1>5. g[S \ {x}] \in Int
    BY <1>1 DEF Sums
<1>6. QED BY <1>1, <1>2, <1>3, <1>4, <1>5

(* The sum over a subset is what the sum loses when the values there go.    *)
LEMMA SumSplit ==
    ASSUME NEW S, IsFiniteSet(S), NEW w \in [S -> Int], NEW T \in SUBSET S,
           NEW u \in [T -> Int], \A x \in T : u[x] = w[x],
           NEW v \in [S -> Int], \A x \in S : v[x] = IF x \in T THEN 0 ELSE w[x]
    PROVE  SumFunction(w) = SumFunction(u) + SumFunction(v)
<1>0. IsFiniteSet(T)
    BY FS_Subset
<1>1. PICK g : Sums(g, S, w) /\ SumFunction(w) = g[S]
    BY SumFunctionSums
<1>2. PICK h : Sums(h, T, u) /\ SumFunction(u) = h[T]
    BY <1>0, SumFunctionSums
<1>3. PICK k : Sums(k, S, v) /\ SumFunction(v) = k[S]
    BY SumFunctionSums
<1>4. \A s \in SUBSET S : g[s] = h[s \cap T] + k[s]
    <2> DEFINE C == {s \in SUBSET S : g[s] # h[s \cap T] + k[s]}
    <2> SUFFICES ASSUME C # {} PROVE FALSE
        OBVIOUS
    <2>1. PICK s \in C : \A t \in C : ~ (t \subseteq s /\ t # s)
        <3>1. C \in SUBSET (SUBSET S) OBVIOUS
        <3> HIDE DEF C
        <3>2. QED BY <3>1, SmallestSet
    <2>2. s # {}
        <3>1. g[{}] = 0 /\ h[{}] = 0 /\ k[{}] = 0 /\ {} \cap T = {}
            BY <1>1, <1>2, <1>3 DEF Sums
        <3>2. g[s] # h[s \cap T] + k[s] OBVIOUS
        <3> SUFFICES ASSUME s = {} PROVE FALSE OBVIOUS
        <3>3. g[{}] # h[{}] + k[{}] BY <3>1, <3>2
        <3>4. QED BY <3>1, <3>3
    <2>3. PICK x \in s : TRUE
        BY <2>2
    <2> DEFINE r == s \ {x}
    <2>4. r \in SUBSET S /\ r \notin C
        BY <2>1
    <2>5. g[r] = h[r \cap T] + k[r]
        BY <2>4
    <2>6. g[s] = w[x] + g[r] /\ k[s] = v[x] + k[r]
        BY <1>1, <1>3 DEF Sums
    <2>7. g[r] \in Int /\ k[r] \in Int /\ h[r \cap T] \in Int /\ w[x] \in Int
        BY <1>1, <1>2, <1>3, <2>4 DEF Sums
    <2>8. CASE x \in T
        <3>1. (s \cap T) \ {x} = r \cap T /\ x \in s \cap T /\ s \cap T \in SUBSET T
            BY <2>8
        <3>2. h[s \cap T] = u[x] + h[r \cap T]
            <4>1. \A t \in SUBSET T : \A y \in t : h[t] = u[y] + h[t \ {y}]
                BY <1>2 DEF Sums
            <4>2. h[s \cap T] = u[x] + h[(s \cap T) \ {x}]
                BY <3>1, <4>1
            <4>3. QED BY <3>1, <4>2
        <3>3. u[x] = w[x] /\ v[x] = 0
            BY <2>8
        <3> HIDE DEF r
        <3>4. g[s] = h[s \cap T] + k[s]
            BY <2>5, <2>6, <2>7, <3>2, <3>3
        <3>5. QED BY <3>4
    <2>9. CASE x \notin T
        <3>1. s \cap T = r \cap T
            BY <2>9
        <3>2. v[x] = w[x]
            BY <2>9
        <3>3. h[s \cap T] = h[r \cap T]
            BY <3>1
        <3> HIDE DEF r
        <3>4. g[s] = h[s \cap T] + k[s]
            BY <2>5, <2>6, <2>7, <3>2, <3>3
        <3>5. QED BY <3>4
    <2>10. QED BY <2>8, <2>9
<1>5. S \cap T = T
    OBVIOUS
<1>6. QED BY <1>1, <1>2, <1>3, <1>4, <1>5

(* A sum of nothing but zeroes is zero.                                     *)
LEMMA SumZero ==
    ASSUME NEW S, IsFiniteSet(S), NEW w \in [S -> Int], \A x \in S : w[x] = 0
    PROVE  SumFunction(w) = 0
<1>1. PICK g : Sums(g, S, w) /\ SumFunction(w) = g[S]
    BY SumFunctionSums
<1>2. \A s \in SUBSET S : g[s] = 0
    <2> DEFINE C == {s \in SUBSET S : g[s] # 0}
    <2> SUFFICES ASSUME C # {} PROVE FALSE
        OBVIOUS
    <2>1. PICK s \in C : \A t \in C : ~ (t \subseteq s /\ t # s)
        <3>1. C \in SUBSET (SUBSET S) OBVIOUS
        <3> HIDE DEF C
        <3>2. QED BY <3>1, SmallestSet
    <2>2. PICK x \in s : TRUE
        BY <1>1 DEF Sums
    <2>3. g[s \ {x}] = 0
        BY <2>1
    <2>4. g[s] = w[x] + g[s \ {x}]
        BY <1>1 DEF Sums
    <2>5. QED BY <2>3, <2>4
<1>3. QED BY <1>1, <1>2

(* The sum over one element is its value.                                   *)
LEMMA SumOne ==
    ASSUME NEW x, NEW w \in [{x} -> Int]
    PROVE  SumFunction(w) = w[x]
<1>1. IsFiniteSet({x})
    BY FS_Singleton
<1>2. PICK g : Sums(g, {x}, w) /\ SumFunction(w) = g[{x}]
    BY <1>1, SumFunctionSums
<1>3. g[{x}] = w[x] + g[{}] /\ g[{}] = 0
    <2>1. {x} \ {x} = {} OBVIOUS
    <2>2. QED BY <1>2, <2>1 DEF Sums
<1>4. QED BY <1>2, <1>3

----------------------------------------------------------------------------
(* The sizes of the frames of a queue.                                      *)
Bytes(q) == FoldLeft(LAMBDA b, f : b + f.size, 0, q)

(* A queue's bytes are its frames' sizes, one after the other.              *)
LEMMA BytesEmpty == Bytes(<<>>) = 0
<1>1. DOMAIN <<>> = 1..0
    OBVIOUS
<1>2. PICK g : /\ Sums(g, 1..0, [i \in 1..0 |-> <<>>[i].size])
               /\ Bytes(<<>>) = g[1..0]
    <2>1. ASSUME NEW q, DOMAIN q = 1..0
          PROVE  \E g : Sums(g, 1..0, [i \in 1..0 |-> q[i].size]) /\ Bytes(q) = g[1..0]
        <3>1. 0 \in Nat /\ \A i \in 1..0 : q[i].size \in Int
            OBVIOUS
        <3>2. QED BY <2>1, <3>1, FoldLeftSums DEF Bytes
    <2>2. QED BY <1>1, <2>1
<1>3. 1..0 = {}
    OBVIOUS
<1>4. QED BY <1>2, <1>3 DEF Sums

LEMMA BytesAppend ==
    ASSUME NEW F, \A e \in F : e.size \in Int, NEW q \in Seq(F), NEW f \in F
    PROVE  Bytes(Append(q, f)) = Bytes(q) + f.size
<1> DEFINE n == Len(q)
           m == n + 1
           A == 1..n
           B == 1..m
           a == Append(q, f)
           w == [i \in A |-> q[i].size]
           v == [i \in B |-> a[i].size]
<1>1. /\ n \in Nat /\ DOMAIN q = A /\ m \in Nat /\ DOMAIN a = B /\ a[m] = f
      /\ \A i \in A : q[i] \in F /\ a[i] = q[i]
    OBVIOUS
<1>2. A \in SUBSET (A \cap B) /\ B \in SUBSET B /\ m \in B /\ B \ {m} = A /\ IsFiniteSet(A)
    BY FS_Interval
<1> HIDE DEF a
<1>3. f.size \in Int /\ (\A i \in A : q[i].size \in Int) /\ \A i \in B : a[i].size \in Int
    <2> HIDE DEF A, B
    <2>1. \A i \in B : i = m \/ i \in A
        BY <1>2
    <2>2. QED BY <1>1, <2>1
<1>4. PICK g : Sums(g, A, w) /\ Bytes(q) = g[A]
    BY <1>1, <1>3, FoldLeftSums DEF Bytes
<1>5. PICK h : Sums(h, B, v) /\ Bytes(a) = h[B]
    BY <1>1, <1>3, FoldLeftSums DEF Bytes
<1> HIDE DEF A, B, n, m
<1>6. (\A i \in A : w[i] = v[i]) /\ v[m] = f.size
    BY <1>1, <1>2
<1> HIDE DEF w, v
<1>7. g[A] = h[A]
    BY <1>2, <1>4, <1>5, <1>6, SumsAgree
<1>8. h[B] = v[m] + h[A] /\ h[A] \in Int
    BY <1>2, <1>5 DEF Sums
<1>9. Bytes(a) = Bytes(q) + f.size
    BY <1>3, <1>4, <1>5, <1>6, <1>7, <1>8
<1>10. QED BY <1>9 DEF a
=============================================================================
