--------------------------- MODULE Activity_proofs ---------------------------
(***************************************************************************)
(* The metadata track for any input, any number of samples and any         *)
(* interleaving of xinput, the timer and xdotool: typing, that every press *)
(* is counted once, and that the hotkeys recorded are those typed.  Then   *)
(* what the console draws of it: a timeline keeps the counts it is given,  *)
(* and its focus intervals are in order.                                   *)
(***************************************************************************)
EXTENDS Activity, SequenceTheorems, FiniteSetTheorems, WellFoundedInduction, TLAPS

-----------------------------------------------------------------------------
\* Induction on numbers, over a set instead of a predicate

\* A set of numbers that has 0 and every successor has them all: otherwise its
\* complement had a least element.
LEMMA Induction ==
  ASSUME NEW T \in SUBSET Nat, 0 \in T, \A n \in T : n + 1 \in T
  PROVE  T = Nat
<1> DEFINE Rest == Nat \ T
           Less == {p \in Nat \X Nat : p[1] < p[2]}
<1>1. SUFFICES ASSUME Rest # {}
               PROVE  FALSE
  OBVIOUS
<1>2. IsWellFoundedOn(Less, Nat)
  BY NatLessThanWellFounded DEF OpToRel
<1>3. PICK n \in Rest : \A m \in Rest : <<m, n>> \notin Less
  <2> HIDE DEF Less
  <2> QED
    BY <1>1, <1>2, WFMin
<1>4. n \in Nat /\ n # 0 /\ n - 1 \in Nat /\ n - 1 < n /\ (n - 1) + 1 = n
  BY <1>3
<1>5. <<n - 1, n>> \in Less
  BY <1>4
<1>6. n - 1 \in T
  BY <1>3, <1>4, <1>5
<1> QED
  BY <1>3, <1>4, <1>6

-----------------------------------------------------------------------------
\* Folds: what FoldLeft computes is the end of a run of its operator, here a
\* function G, along the sequence s.

Run(c, G, base, s) ==
  /\ DOMAIN c = 0..Len(s)
  /\ c[0] = base
  /\ \A k \in 1..Len(s) : c[k] = G[<<c[k - 1], s[k]>>]

\* Sequences that agree up to m have runs that agree up to m.
Agree(s, t, m) == /\ Len(s) \in Nat /\ Len(t) \in Nat /\ m \in Nat
                  /\ m <= Len(s) /\ m <= Len(t)
                  /\ \A k \in 1..m : s[k] = t[k]

LEMMA RunsAgree ==
  ASSUME NEW G, NEW base, NEW s, NEW t, NEW m, NEW c, NEW d,
         Run(c, G, base, s), Run(d, G, base, t), Agree(s, t, m)
  PROVE  \A k \in 0..m : c[k] = d[k]
<1> USE DEF Agree
<1> DEFINE T == {k \in Nat : k <= m => c[k] = d[k]}
<1>1. 0 \in T
  BY DEF Run
<1>2. ASSUME NEW k \in T
      PROVE  k + 1 \in T
  <2> SUFFICES ASSUME k + 1 <= m
               PROVE  c[k + 1] = d[k + 1]
    OBVIOUS
  <2>1. k \in Nat /\ k + 1 \in 1..Len(s) /\ k + 1 \in 1..Len(t) /\ k + 1 \in 1..m
    OBVIOUS
  <2>2. c[k] = d[k] /\ (k + 1) - 1 = k /\ s[k + 1] = t[k + 1]
    BY <2>1
  <2>3. c[k + 1] = G[<<c[k], s[k + 1]>>]
    BY <2>1, <2>2 DEF Run
  <2>4. d[k + 1] = G[<<d[k], t[k + 1]>>]
    BY <2>1, <2>2 DEF Run
  <2> QED
    BY <2>2, <2>3, <2>4
<1> HIDE DEF T
<1>3. T = Nat
  BY <1>1, <1>2, Induction DEF T
<1> QED
  BY <1>3 DEF T

\* What the operator keeps, its run keeps.
Operates(G, base, A, E) == base \in A /\ \A a \in A, e \in E : G[<<a, e>>] \in A

LEMMA RunStays ==
  ASSUME NEW G, NEW base, NEW E, NEW s \in Seq(E), NEW c, Run(c, G, base, s),
         NEW A, Operates(G, base, A, E)
  PROVE  \A k \in 0..Len(s) : c[k] \in A
<1> USE DEF Operates
<1> DEFINE T == {k \in Nat : k <= Len(s) => c[k] \in A}
<1>1. 0 \in T
  BY DEF Run
<1>2. ASSUME NEW k \in T
      PROVE  k + 1 \in T
  <2> SUFFICES ASSUME k + 1 <= Len(s)
               PROVE  c[k + 1] \in A
    OBVIOUS
  <2>1. k \in Nat /\ k + 1 \in 1..Len(s) /\ s[k + 1] \in E /\ (k + 1) - 1 = k /\ c[k] \in A
    OBVIOUS
  <2> QED
    BY <2>1 DEF Run
<1> HIDE DEF T
<1>3. T = Nat
  BY <1>1, <1>2, Induction DEF T
<1> QED
  BY <1>3 DEF T

\* One element more is one step more.
LEMMA RunAppend ==
  ASSUME NEW G, NEW base, NEW E, NEW s \in Seq(E), NEW e \in E, NEW c, NEW d,
         Run(c, G, base, s), Run(d, G, base, Append(s, e))
  PROVE  d[Len(Append(s, e))] = G[<<c[Len(s)], e>>]
<1> DEFINE t == Append(s, e)
<1>1. /\ t \in Seq(E) /\ Len(s) \in Nat /\ Len(t) = Len(s) + 1
      /\ t[Len(s) + 1] = e
      /\ \A k \in 1..Len(s) : s[k] = t[k]
  BY AppendProperties
<1>2. Len(s) + 1 \in 1..Len(t) /\ (Len(s) + 1) - 1 = Len(s)
  BY <1>1
<1>3. d[Len(s) + 1] = G[<<d[Len(s)], e>>]
  BY <1>1, <1>2 DEF Run
<1>4. Run(d, G, base, t) /\ Agree(s, t, Len(s))
  BY <1>1 DEF Agree
<1> HIDE DEF t
<1>5. \A k \in 0..Len(s) : c[k] = d[k]
  BY ONLY Run(c, G, base, s), <1>4, RunsAgree
<1>6. c[Len(s)] = d[Len(s)]
  BY <1>1, <1>5
<1> QED
  BY <1>1, <1>3, <1>6 DEF t

\* A prefix of the sequence is a prefix of the run.
LEMMA RunPrefix ==
  ASSUME NEW G, NEW base, NEW E, NEW s \in Seq(E), NEW m \in 0..Len(s), NEW c, NEW d,
         Run(c, G, base, SubSeq(s, 1, m)), Run(d, G, base, s)
  PROVE  c[Len(SubSeq(s, 1, m))] = d[m]
<1> DEFINE t == SubSeq(s, 1, m)
<1>1. m \in Nat /\ m <= Len(s) /\ 1 \in 1..(Len(s) + 1)
  OBVIOUS
<1>2. t \in Seq(E) /\ Len(t) = m /\ \A k \in 1..m : t[k] = s[k]
  BY <1>1, SubSeqProperties
<1>3. Run(c, G, base, t) /\ Agree(t, s, m)
  BY <1>1, <1>2 DEF Agree
<1> HIDE DEF t
<1>4. \A k \in 0..m : c[k] = d[k]
  BY ONLY Run(d, G, base, s), <1>3, RunsAgree
<1>5. c[m] = d[m]
  BY <1>1, <1>4
<1> QED
  BY <1>2, <1>5 DEF t

\* The sets FoldLeft goes through: i is what its recursion computes of them.
Folding(i, G, base, s, D) ==
  /\ i = [t \in SUBSET D |-> i[t]]
  /\ i[{}] = base
  /\ \A t \in SUBSET D : t # {} => /\ Max(t) \in t
                                   /\ i[t] = G[<<i[t \ {Max(t)}], s[Max(t)]>>]

LEMMA MaxIsTop ==
  ASSUME NEW n \in Nat, NEW t \in SUBSET (1..n), n \in t
  PROVE  Max(t) = n
<1>1. \A k \in t : k \in Nat /\ n >= k
  OBVIOUS
<1>2. PICK x : x = Max(t)
  OBVIOUS
<1>3. x \in t /\ \A k \in t : x >= k
  BY <1>1, <1>2 DEF Max
<1>4. x \in Nat /\ n >= x /\ x >= n
  BY <1>1, <1>3
<1> QED
  BY <1>2, <1>4

\* There is a function that computes the fold over every set of indices.
LEMMA FoldExists ==
  ASSUME NEW G, NEW E, NEW s \in Seq(E), NEW A, NEW base,
         Operates(G, base, A, E)
  PROVE  \E i : /\ Folding(i, G, base, s, DOMAIN s)
                /\ \A t \in SUBSET DOMAIN s : i[t] \in A
<1> USE DEF Operates
<1> DEFINE Good(i, n) == Folding(i, G, base, s, 1..n) /\ \A t \in SUBSET (1..n) : i[t] \in A
           T == {n \in Nat : n <= Len(s) => \E i : Good(i, n)}
<1>1. 0 \in T
  <2> DEFINE i == [t \in SUBSET (1..0) |-> base]
  <2>1. SUBSET (1..0) = {{}}
    OBVIOUS
  <2>2. Good(i, 0)
    BY <2>1 DEF Folding
  <2> QED
    BY <2>2
<1>2. ASSUME NEW n \in T
      PROVE  n + 1 \in T
  <2> SUFFICES ASSUME n + 1 <= Len(s)
               PROVE  \E i : Good(i, n + 1)
    OBVIOUS
  <2>1. n \in Nat /\ n + 1 \in Nat /\ n + 1 \in 1..Len(s) /\ s[n + 1] \in E
    OBVIOUS
  <2>2. PICK j : Good(j, n)
    BY <2>1
  <2> DEFINE i == [t \in SUBSET (1..(n + 1)) |->
                     IF n + 1 \in t THEN G[<<j[t \ {n + 1}], s[n + 1]>>] ELSE j[t]]
  <2>3. \A t \in SUBSET (1..(n + 1)) : /\ t \ {n + 1} \in SUBSET (1..n)
                                       /\ n + 1 \notin t => t \in SUBSET (1..n)
    BY <2>1
  <2>4. \A t \in SUBSET (1..n) : t \in SUBSET (1..(n + 1)) /\ n + 1 \notin t /\ i[t] = j[t]
    BY <2>1
  <2>5. \A t \in SUBSET (1..(n + 1)) : i[t] \in A
    BY <2>1, <2>2, <2>3
  <2>6. i[{}] = base
    BY <2>2, <2>4 DEF Folding
  <2>7. ASSUME NEW t \in SUBSET (1..(n + 1)), t # {}
        PROVE  Max(t) \in t /\ i[t] = G[<<i[t \ {Max(t)}], s[Max(t)]>>]
    <3>1. CASE n + 1 \in t
      <4>1. Max(t) = n + 1
        BY <2>1, <3>1, MaxIsTop
      <4>2. i[t \ {n + 1}] = j[t \ {n + 1}]
        BY <2>3, <2>4
      <4>3. i[t] = G[<<j[t \ {n + 1}], s[n + 1]>>]
        BY <3>1
      <4> QED
        BY <3>1, <4>1, <4>2, <4>3
    <3>2. CASE n + 1 \notin t
      <4>1. t \in SUBSET (1..n) /\ t \ {Max(t)} \in SUBSET (1..n)
        BY <2>3, <3>2
      <4>2. i[t] = j[t] /\ i[t \ {Max(t)}] = j[t \ {Max(t)}]
        BY <2>4, <4>1
      <4>3. Max(t) \in t /\ j[t] = G[<<j[t \ {Max(t)}], s[Max(t)]>>]
        BY <2>2, <2>7, <4>1 DEF Folding
      <4> HIDE DEF i
      <4> QED
        BY <4>2, <4>3
    <3> QED
      BY <3>1, <3>2
  <2>8. i = [t \in SUBSET (1..(n + 1)) |-> i[t]]
    OBVIOUS
  <2> HIDE DEF i
  <2>9. Good(i, n + 1)
    BY <2>5, <2>6, <2>7, <2>8 DEF Folding
  <2> QED
    BY <2>9
<1> HIDE DEF T
<1>3. T = Nat
  BY <1>1, <1>2, Induction DEF T
<1>4. Len(s) \in Nat /\ DOMAIN s = 1..Len(s) /\ Len(s) <= Len(s)
  OBVIOUS
<1>5. \E i : Good(i, Len(s))
  BY <1>3, <1>4 DEF T
<1> QED
  BY <1>4, <1>5

\* The values FoldLeft's recursion gives the beginnings of s are a run along s;
\* that each is in the operator's range follows on the way.
Computes(i, G, A, base, s) ==
  /\ i[{}] = base
  /\ \A t \in SUBSET DOMAIN s :
       t # {} /\ Max(t) \in t /\ i[t \ {Max(t)}] \in A
       => i[t] = G[<<i[t \ {Max(t)}], s[Max(t)]>>]

\* Its values at 1..k are a run.  The lemmas ...Run below apply this to one fold
\* each: an operator cannot be a lemma's parameter, so the argument is repeated.
LEMMA FoldRuns ==
  ASSUME NEW G, NEW E, NEW s \in Seq(E), NEW A, NEW base,
         Operates(G, base, A, E), NEW i, Computes(i, G, A, base, s)
  PROVE  Run([k \in 0..Len(s) |-> i[1..k]], G, base, s)
<1> USE DEF Operates, Computes
<1> DEFINE T == {k \in Nat : k <= Len(s) => i[1..k] \in A}
<1>1. ASSUME NEW k \in Nat, k + 1 <= Len(s), i[1..k] \in A
      PROVE  i[1..(k + 1)] = G[<<i[1..k], s[k + 1]>>] /\ s[k + 1] \in E
  <2> DEFINE t == 1..(k + 1)
  <2>1. t \in SUBSET DOMAIN s /\ t # {} /\ k + 1 \in t /\ t \ {k + 1} = 1..k
    BY <1>1
  <2>2. Max(t) = k + 1
    BY <2>1, MaxIsTop
  <2>3. s[k + 1] \in E
    BY <1>1
  <2> HIDE DEF t
  <2>4. i[t] = G[<<i[t \ {Max(t)}], s[Max(t)]>>]
    BY <1>1, <2>1, <2>2
  <2> QED
    BY <2>1, <2>2, <2>3, <2>4 DEF t
<1>2. 1..0 = {}
  OBVIOUS
<1>3. 0 \in T
  BY <1>2
<1>4. ASSUME NEW k \in T
      PROVE  k + 1 \in T
  <2> SUFFICES ASSUME k + 1 <= Len(s)
               PROVE  i[1..(k + 1)] \in A
    OBVIOUS
  <2>1. k \in Nat /\ i[1..k] \in A
    BY <1>4
  <2>2. i[1..(k + 1)] = G[<<i[1..k], s[k + 1]>>] /\ s[k + 1] \in E
    BY <1>1, <2>1
  <2> QED
    BY <2>1, <2>2
<1> HIDE DEF T
<1>5. T = Nat
  BY <1>3, <1>4, Induction DEF T
<1>6. ASSUME NEW k \in 1..Len(s)
      PROVE  i[1..k] = G[<<i[1..(k - 1)], s[k]>>]
  <2>1. k - 1 \in Nat /\ (k - 1) + 1 = k /\ k <= Len(s) /\ k - 1 <= Len(s)
    OBVIOUS
  <2>2. i[1..(k - 1)] \in A
    BY <1>5, <2>1 DEF T
  <2> QED
    BY <1>1, <2>1, <2>2
<1>7. \A k \in 1..Len(s) : k \in 0..Len(s) /\ k - 1 \in 0..Len(s)
  OBVIOUS
<1> QED
  BY <1>2, <1>6, <1>7 DEF Run

-----------------------------------------------------------------------------
\* The model's folds are runs

\* The elements of E have a count of this name, or none.
HaveCount(field, E) == \A e \in E : Console!Finite(e[field]) \in Nat

Adding(field, E) == [p \in Nat \X E |-> p[1] + Console!Finite(p[2][field])]

LEMMA SumRuns ==
  ASSUME NEW field, NEW E, HaveCount(field, E), NEW s \in Seq(E)
  PROVE  \E c : Run(c, Adding(field, E), 0, s) /\ Sum(field, s) = c[Len(s)]
<1> DEFINE G == Adding(field, E)
           F(j) == [t \in SUBSET DOMAIN s |->
                      IF t = {} THEN 0
                      ELSE j[t \ {Max(t)}] + Console!Finite(s[Max(t)][field])]
           i == CHOOSE j : j = F(j)
<1>1. Sum(field, s) = i[DOMAIN s]
  BY DEF Sum, FoldLeft, MapThenFoldSet
<1>2. \A a \in Nat, x \in E : /\ G[<<a, x>>] = a + Console!Finite(x[field])
                                   /\ G[<<a, x>>] \in Nat
  BY DEF HaveCount, Adding
<1>3. Operates(G, 0, Nat, E)
  BY <1>2 DEF Operates
<1> HIDE DEF G
<1>4. \E j : j = F(j)
  <2>1. PICK j : /\ Folding(j, G, 0, s, DOMAIN s)
                 /\ \A t \in SUBSET DOMAIN s : j[t] \in Nat
    BY <1>3, FoldExists
  <2>2. ASSUME NEW t \in SUBSET DOMAIN s, t # {}
        PROVE  j[t] = j[t \ {Max(t)}] + Console!Finite(s[Max(t)][field])
    <3>1. Max(t) \in t /\ j[t] = G[<<j[t \ {Max(t)}], s[Max(t)]>>]
      BY <2>1, <2>2 DEF Folding
    <3>2. s[Max(t)] \in E /\ j[t \ {Max(t)}] \in Nat
      BY <2>1, <3>1
    <3> QED
      BY <1>2, <3>1, <3>2
  <2>3. j = [t \in SUBSET DOMAIN s |-> j[t]] /\ j[{}] = 0
    BY <2>1 DEF Folding
  <2>4. F(j) = [t \in SUBSET DOMAIN s |-> j[t]]
    BY <2>2, <2>3
  <2> QED
    BY <2>3, <2>4
<1>5. i = F(i)
  <2> HIDE DEF F
  <2> QED
    BY <1>4
<1> HIDE DEF i
<1>6. Computes(i, G, Nat, 0, s)
  <2>1. ASSUME NEW t \in SUBSET DOMAIN s,
               t # {} /\ Max(t) \in t /\ i[t \ {Max(t)}] \in Nat
        PROVE  i[t] = G[<<i[t \ {Max(t)}], s[Max(t)]>>]
    <3>1. i[t] = i[t \ {Max(t)}] + Console!Finite(s[Max(t)][field])
      BY <1>5, <2>1
    <3>2. s[Max(t)] \in E
      BY <2>1
    <3> QED
      BY <1>2, <2>1, <3>1, <3>2
  <2>2. i[{}] = 0
    BY <1>5
  <2> QED
    BY <2>1, <2>2 DEF Computes
<1> DEFINE c == [k \in 0..Len(s) |-> i[1..k]]
<1>7. Run(c, G, 0, s)
  BY <1>3, <1>6, FoldRuns
<1>8. c[Len(s)] = i[DOMAIN s]
  OBVIOUS
<1> QED
  BY <1>1, <1>7, <1>8 DEF G

Joining == [p \in Seq(Combo) \X Sample |-> p[1] \o p[2].hotkeys]

LEMMA HotkeysRun ==
  ASSUME NEW s \in Seq(Sample)
  PROVE  \E c : Run(c, Joining, <<>>, s) /\ HotkeysOf(s) = c[Len(s)]
<1> DEFINE G == Joining
           F(j) == [t \in SUBSET DOMAIN s |->
                      IF t = {} THEN <<>>
                      ELSE j[t \ {Max(t)}] \o s[Max(t)].hotkeys]
           i == CHOOSE j : j = F(j)
<1>1. HotkeysOf(s) = i[DOMAIN s]
  BY DEF HotkeysOf, FoldLeft, MapThenFoldSet
<1>2. \A a \in Seq(Combo), x \in Sample : /\ G[<<a, x>>] = a \o x.hotkeys
                                          /\ G[<<a, x>>] \in Seq(Combo)
  <2> SUFFICES ASSUME NEW a \in Seq(Combo), NEW x \in Sample
               PROVE  G[<<a, x>>] = a \o x.hotkeys /\ a \o x.hotkeys \in Seq(Combo)
    OBVIOUS
  <2>1. x.hotkeys \in Seq(Combo)
    BY DEF Sample
  <2>2. a \o x.hotkeys \in Seq(Combo)
    BY <2>1, ConcatProperties
  <2> QED
    BY <2>2 DEF Joining
<1>3. Operates(G, <<>>, Seq(Combo), Sample)
  BY <1>2, EmptySeq DEF Operates
<1> HIDE DEF G
<1>4. \E j : j = F(j)
  <2>1. PICK j : /\ Folding(j, G, <<>>, s, DOMAIN s)
                 /\ \A t \in SUBSET DOMAIN s : j[t] \in Seq(Combo)
    BY <1>3, FoldExists
  <2>2. ASSUME NEW t \in SUBSET DOMAIN s, t # {}
        PROVE  j[t] = j[t \ {Max(t)}] \o s[Max(t)].hotkeys
    <3>1. Max(t) \in t /\ j[t] = G[<<j[t \ {Max(t)}], s[Max(t)]>>]
      BY <2>1, <2>2 DEF Folding
    <3>2. s[Max(t)] \in Sample /\ j[t \ {Max(t)}] \in Seq(Combo)
      BY <2>1, <3>1
    <3> QED
      BY <1>2, <3>1, <3>2
  <2>3. j = [t \in SUBSET DOMAIN s |-> j[t]] /\ j[{}] = <<>>
    BY <2>1 DEF Folding
  <2>4. F(j) = [t \in SUBSET DOMAIN s |-> j[t]]
    BY <2>2, <2>3
  <2> QED
    BY <2>3, <2>4
<1>5. i = F(i)
  <2> HIDE DEF F
  <2> QED
    BY <1>4
<1> HIDE DEF i
<1>6. Computes(i, G, Seq(Combo), <<>>, s)
  <2>1. ASSUME NEW t \in SUBSET DOMAIN s,
               t # {} /\ Max(t) \in t /\ i[t \ {Max(t)}] \in Seq(Combo)
        PROVE  i[t] = G[<<i[t \ {Max(t)}], s[Max(t)]>>]
    <3>1. i[t] = i[t \ {Max(t)}] \o s[Max(t)].hotkeys
      BY <1>5, <2>1
    <3>2. s[Max(t)] \in Sample
      BY <2>1
    <3> QED
      BY <1>2, <2>1, <3>1, <3>2
  <2>2. i[{}] = <<>>
    BY <1>5
  <2> QED
    BY <2>1, <2>2 DEF Computes
<1> DEFINE c == [k \in 0..Len(s) |-> i[1..k]]
<1>7. Run(c, G, <<>>, s)
  BY <1>3, <1>6, FoldRuns
<1>8. c[Len(s)] = i[DOMAIN s]
  OBVIOUS
<1> QED
  BY <1>1, <1>7, <1>8 DEF G

Keeping == [p \in Seq(Combo) \X Combo |-> Append(p[1], p[2])]

LEMMA FilterRun ==
  ASSUME NEW s \in Seq(Combo)
  PROVE  \E c : Run(c, Keeping, <<>>, s) /\ filterHotkeys(s) = c[Len(s)]
<1> DEFINE G == Keeping
           F(j) == [t \in SUBSET DOMAIN s |->
                      IF t = {} THEN <<>>
                      ELSE IF s[Max(t)] \in Combo THEN Append(j[t \ {Max(t)}], s[Max(t)])
                           ELSE j[t \ {Max(t)}]]
           i == CHOOSE j : j = F(j)
<1>1. filterHotkeys(s) = i[DOMAIN s]
  BY DEF filterHotkeys, FoldLeft, MapThenFoldSet
<1>2. \A a \in Seq(Combo), x \in Combo : /\ G[<<a, x>>] = Append(a, x)
                                         /\ G[<<a, x>>] \in Seq(Combo)
  BY DEF Keeping
<1>3. Operates(G, <<>>, Seq(Combo), Combo)
  BY <1>2, EmptySeq DEF Operates
<1> HIDE DEF G
<1>4. \E j : j = F(j)
  <2>1. PICK j : /\ Folding(j, G, <<>>, s, DOMAIN s)
                 /\ \A t \in SUBSET DOMAIN s : j[t] \in Seq(Combo)
    BY <1>3, FoldExists
  <2>2. ASSUME NEW t \in SUBSET DOMAIN s, t # {}
        PROVE  j[t] = IF s[Max(t)] \in Combo THEN Append(j[t \ {Max(t)}], s[Max(t)])
                      ELSE j[t \ {Max(t)}]
    <3>1. Max(t) \in t /\ j[t] = G[<<j[t \ {Max(t)}], s[Max(t)]>>]
      BY <2>1, <2>2 DEF Folding
    <3>2. s[Max(t)] \in Combo /\ j[t \ {Max(t)}] \in Seq(Combo)
      BY <2>1, <3>1
    <3> QED
      BY <1>2, <3>1, <3>2
  <2>3. j = [t \in SUBSET DOMAIN s |-> j[t]] /\ j[{}] = <<>>
    BY <2>1 DEF Folding
  <2>4. F(j) = [t \in SUBSET DOMAIN s |-> j[t]]
    BY <2>2, <2>3
  <2> QED
    BY <2>3, <2>4
<1>5. i = F(i)
  <2> HIDE DEF F
  <2> QED
    BY <1>4
<1> HIDE DEF i
<1>6. Computes(i, G, Seq(Combo), <<>>, s)
  <2>1. ASSUME NEW t \in SUBSET DOMAIN s,
               t # {} /\ Max(t) \in t /\ i[t \ {Max(t)}] \in Seq(Combo)
        PROVE  i[t] = G[<<i[t \ {Max(t)}], s[Max(t)]>>]
    <3>1. i[t] = IF s[Max(t)] \in Combo THEN Append(i[t \ {Max(t)}], s[Max(t)])
                 ELSE i[t \ {Max(t)}]
      BY <1>5, <2>1
    <3>2. s[Max(t)] \in Combo
      BY <2>1
    <3> QED
      BY <1>2, <2>1, <3>1, <3>2
  <2>2. i[{}] = <<>>
    BY <1>5
  <2> QED
    BY <2>1, <2>2 DEF Computes
<1> DEFINE c == [k \in 0..Len(s) |-> i[1..k]]
<1>7. Run(c, G, <<>>, s)
  BY <1>3, <1>6, FoldRuns
<1>8. c[Len(s)] = i[DOMAIN s]
  OBVIOUS
<1> QED
  BY <1>1, <1>7, <1>8 DEF G

Typing == [p \in Seq(Combo) \X (Combo \cup {{}}) |->
             IF p[2] = {} THEN p[1] ELSE Append(p[1], p[2])]

LEMMA TypedRun ==
  ASSUME NEW s \in Seq((Combo \cup {{}}))
  PROVE  \E c : Run(c, Typing, <<>>, s) /\ TypedOf(s) = c[Len(s)]
<1> DEFINE G == Typing
           F(j) == [t \in SUBSET DOMAIN s |->
                      IF t = {} THEN <<>>
                      ELSE IF s[Max(t)] = {} THEN j[t \ {Max(t)}]
                           ELSE Append(j[t \ {Max(t)}], s[Max(t)])]
           i == CHOOSE j : j = F(j)
<1>1. TypedOf(s) = i[DOMAIN s]
  BY DEF TypedOf, FoldLeft, MapThenFoldSet
<1>2. \A a \in Seq(Combo), x \in Combo \cup {{}} :
        /\ G[<<a, x>>] = IF x = {} THEN a ELSE Append(a, x)
        /\ G[<<a, x>>] \in Seq(Combo)
  BY DEF Typing
<1>3. Operates(G, <<>>, Seq(Combo), (Combo \cup {{}}))
  BY <1>2 DEF Operates
<1> HIDE DEF G
<1>4. \E j : j = F(j)
  <2>1. PICK j : /\ Folding(j, G, <<>>, s, DOMAIN s)
                 /\ \A t \in SUBSET DOMAIN s : j[t] \in Seq(Combo)
    BY <1>3, FoldExists
  <2>2. ASSUME NEW t \in SUBSET DOMAIN s, t # {}
        PROVE  j[t] = IF s[Max(t)] = {} THEN j[t \ {Max(t)}]
                      ELSE Append(j[t \ {Max(t)}], s[Max(t)])
    <3>1. Max(t) \in t /\ j[t] = G[<<j[t \ {Max(t)}], s[Max(t)]>>]
      BY ONLY <2>1, <2>2 DEF Folding
    <3>2. s[Max(t)] \in (Combo \cup {{}}) /\ j[t \ {Max(t)}] \in Seq(Combo)
      BY <2>1, <3>1
    <3> QED
      BY <1>2, <3>1, <3>2
  <2>3. j = [t \in SUBSET DOMAIN s |-> j[t]] /\ j[{}] = <<>>
    BY <2>1 DEF Folding
  <2>4. F(j) = [t \in SUBSET DOMAIN s |-> j[t]]
    BY <2>2, <2>3
  <2> QED
    BY <2>3, <2>4
<1>5. i = F(i)
  <2> HIDE DEF F
  <2> QED
    BY <1>4
<1> HIDE DEF i
<1>6. Computes(i, G, Seq(Combo), <<>>, s)
  <2>1. ASSUME NEW t \in SUBSET DOMAIN s,
               t # {} /\ Max(t) \in t /\ i[t \ {Max(t)}] \in Seq(Combo)
        PROVE  i[t] = G[<<i[t \ {Max(t)}], s[Max(t)]>>]
    <3>1. i[t] = IF s[Max(t)] = {} THEN i[t \ {Max(t)}] ELSE Append(i[t \ {Max(t)}], s[Max(t)])
      BY <1>5, <2>1
    <3>2. s[Max(t)] \in (Combo \cup {{}})
      BY <2>1
    <3> QED
      BY <1>2, <2>1, <3>1, <3>2
  <2>2. i[{}] = <<>>
    BY <1>5
  <2> QED
    BY <2>1, <2>2 DEF Computes
<1> DEFINE c == [k \in 0..Len(s) |-> i[1..k]]
<1>7. Run(c, G, <<>>, s)
  BY <1>3, <1>6, FoldRuns
<1>8. c[Len(s)] = i[DOMAIN s]
  OBVIOUS
<1> QED
  BY <1>1, <1>7, <1>8 DEF G

-----------------------------------------------------------------------------
\* What a sample adds to the sums and to the hotkeys of the file

LEMMA SumTyped ==
  ASSUME NEW field, NEW E, HaveCount(field, E), NEW s \in Seq(E), NEW c,
         Run(c, Adding(field, E), 0, s)
  PROVE  \A k \in 0..Len(s) : c[k] \in Nat
<1>1. Operates(Adding(field, E), 0, Nat, E)
  BY DEF Operates, Adding, HaveCount
<1> QED
  BY <1>1, RunStays

LEMMA SumEmpty == ASSUME NEW field
                  PROVE  Sum(field, <<>>) = 0
<1>1. <<>> \in Seq({}) /\ Len(<<>>) = 0 /\ HaveCount(field, {})
  BY EmptySeq DEF HaveCount
<1>2. PICK c : Run(c, Adding(field, {}), 0, <<>>) /\ Sum(field, <<>>) = c[Len(<<>>)]
  BY <1>1, SumRuns
<1> QED
  BY <1>1, <1>2 DEF Run

LEMMA SumAppends ==
  ASSUME NEW field, NEW E, HaveCount(field, E), NEW s \in Seq(E), NEW e \in E
  PROVE  /\ Sum(field, s) \in Nat
         /\ Sum(field, Append(s, e)) = Sum(field, s) + Console!Finite(e[field])
<1>1. PICK c : Run(c, Adding(field, E), 0, s) /\ Sum(field, s) = c[Len(s)]
  BY SumRuns
<1>2. Append(s, e) \in Seq(E)
  BY AppendProperties
<1>3. PICK d : /\ Run(d, Adding(field, E), 0, Append(s, e))
               /\ Sum(field, Append(s, e)) = d[Len(Append(s, e))]
  BY <1>2, SumRuns
<1>4. Sum(field, Append(s, e)) = Adding(field, E)[<<Sum(field, s), e>>]
  BY <1>1, <1>3, RunAppend
<1>5. Sum(field, s) \in Nat
  <2>1. Len(s) \in 0..Len(s)
    OBVIOUS
  <2> QED
    BY <1>1, <2>1, SumTyped
<1> QED
  BY <1>4, <1>5 DEF Adding

LEMMA SampleCounts ==
  ASSUME NEW field \in {"keys", "clicks"}
  PROVE  /\ HaveCount(field, Sample)
         /\ \A e \in Sample : e[field] \in Nat /\ Console!Finite(e[field]) = e[field]
BY MissingAssumption DEF HaveCount, Sample, Console!Finite

LEMMA SumAppend ==
  ASSUME NEW field \in {"keys", "clicks"}, NEW s \in Seq(Sample), NEW e \in Sample
  PROVE  /\ Sum(field, s) \in Nat
         /\ Sum(field, Append(s, e)) = Sum(field, s) + e[field]
BY SampleCounts, SumAppends

\* What is cut off a file is taken off its sums.
LEMMA SumPrefix ==
  ASSUME NEW field \in {"keys", "clicks"}, NEW s \in Seq(Sample), NEW m \in 0..Len(s)
  PROVE  /\ Sum(field, SubSeq(s, 1, m)) \in Nat
         /\ Sum(field, SubSeq(s, 1, m)) <= Sum(field, s)
<1>1. PICK d : Run(d, Adding(field, Sample), 0, s) /\ Sum(field, s) = d[Len(s)]
  BY SampleCounts, SumRuns
<1>2. SubSeq(s, 1, m) \in Seq(Sample)
  BY SubSeqProperties
<1>3. PICK c : /\ Run(c, Adding(field, Sample), 0, SubSeq(s, 1, m))
               /\ Sum(field, SubSeq(s, 1, m)) = c[Len(SubSeq(s, 1, m))]
  BY <1>2, SampleCounts, SumRuns
<1>4. Sum(field, SubSeq(s, 1, m)) = d[m]
  BY <1>1, <1>3, RunPrefix
<1>5. \A k \in 0..Len(s) : d[k] \in Nat
  BY <1>1, SampleCounts, SumTyped
<1> DEFINE T == {k \in Nat : k <= Len(s) /\ m <= k => d[m] <= d[k]}
<1>6. 0 \in T
  BY <1>5
<1>7. ASSUME NEW k \in T
      PROVE  k + 1 \in T
  <2> SUFFICES ASSUME k + 1 <= Len(s), m <= k + 1
               PROVE  d[m] <= d[k + 1]
    OBVIOUS
  <2>1. k \in Nat /\ k + 1 \in 1..Len(s) /\ (k + 1) - 1 = k /\ k \in 0..Len(s) /\ k + 1 \in 0..Len(s)
    OBVIOUS
  <2>2. s[k + 1] \in Sample /\ s[k + 1][field] \in Nat
    <3>1. \A e \in Sample : e[field] \in Nat
      BY SampleCounts
    <3> QED
      BY <2>1, <3>1
  <2>3. d[k + 1] = Adding(field, Sample)[<<d[k], s[k + 1]>>]
    BY <1>1, <2>1 DEF Run
  <2>4. d[k] \in Nat /\ d[k + 1] = d[k] + s[k + 1][field]
    BY <1>5, <2>1, <2>2, <2>3, SampleCounts DEF Adding
  <2>5. CASE m = k + 1
    BY <1>5, <2>1, <2>5
  <2>6. CASE m <= k
    BY <1>5, <2>1, <2>2, <2>4, <2>6
  <2> QED
    BY <2>1, <2>5, <2>6
<1> HIDE DEF T
<1>8. T = Nat
  BY <1>6, <1>7, Induction DEF T
<1>9. Len(s) \in T
  BY <1>8
<1> QED
  BY <1>1, <1>4, <1>5, <1>9 DEF T

LEMMA HotkeysEmpty == HotkeysOf(<<>>) = <<>>
<1>1. <<>> \in Seq(Sample) /\ Len(<<>>) = 0
  BY EmptySeq
<1> QED
  BY <1>1, HotkeysRun DEF Run

LEMMA HotkeysTyped ==
  ASSUME NEW s \in Seq(Sample), NEW c, Run(c, Joining, <<>>, s)
  PROVE  \A k \in 0..Len(s) : c[k] \in Seq(Combo)
<1>1. Operates(Joining, <<>>, Seq(Combo), Sample)
  <2> SUFFICES ASSUME NEW a \in Seq(Combo), NEW x \in Sample
               PROVE  Joining[<<a, x>>] \in Seq(Combo)
    BY EmptySeq DEF Operates
  <2>1. x.hotkeys \in Seq(Combo)
    BY DEF Sample
  <2>2. a \o x.hotkeys \in Seq(Combo)
    BY <2>1, ConcatProperties
  <2> QED
    BY <2>2 DEF Joining
<1> QED
  BY <1>1, RunStays

LEMMA ConcatAppend ==
  ASSUME NEW S, NEW s \in Seq(S), NEW t \in Seq(S), NEW e \in S
  PROVE  s \o Append(t, e) = Append(s \o t, e)
<1>1. <<e>> \in Seq(S) /\ s \o t \in Seq(S)
  BY ConcatProperties
<1>2. Append(t, e) = t \o <<e>> /\ Append(s \o t, e) = (s \o t) \o <<e>>
  BY <1>1, AppendIsConcat
<1> QED
  BY <1>1, <1>2, ConcatAssociative

LEMMA HotkeysAppend ==
  ASSUME NEW s \in Seq(Sample), NEW e \in Sample
  PROVE  /\ HotkeysOf(s) \in Seq(Combo)
         /\ HotkeysOf(Append(s, e)) = HotkeysOf(s) \o e.hotkeys
<1>1. PICK c : Run(c, Joining, <<>>, s) /\ HotkeysOf(s) = c[Len(s)]
  BY HotkeysRun
<1>2. Append(s, e) \in Seq(Sample)
  BY AppendProperties
<1>3. PICK d : /\ Run(d, Joining, <<>>, Append(s, e))
               /\ HotkeysOf(Append(s, e)) = d[Len(Append(s, e))]
  BY <1>2, HotkeysRun
<1>4. HotkeysOf(Append(s, e)) = Joining[<<HotkeysOf(s), e>>]
  BY <1>1, <1>3, RunAppend
<1>5. HotkeysOf(s) \in Seq(Combo)
  <2>1. Len(s) \in 0..Len(s)
    OBVIOUS
  <2> QED
    BY <1>1, <2>1, HotkeysTyped
<1> QED
  BY <1>4, <1>5 DEF Joining

-----------------------------------------------------------------------------
\* The filters

\* The tracker's filter drops nothing the listener hands it.
LEMMA FilterKeepsAll ==
  ASSUME NEW s \in Seq(Combo)
  PROVE  filterHotkeys(s) = s
<1>1. PICK c : Run(c, Keeping, <<>>, s) /\ filterHotkeys(s) = c[Len(s)]
  BY FilterRun
<1> DEFINE d == [k \in 0..Len(s) |-> SubSeq(s, 1, k)]
<1>2. Run(d, Keeping, <<>>, s)
  <2>1. SubSeq(s, 1, 0) = <<>>
    BY SubSeqEmpty
  <2>2. ASSUME NEW k \in 1..Len(s)
        PROVE  SubSeq(s, 1, k) = Keeping[<<SubSeq(s, 1, k - 1), s[k]>>]
    <3>1. SubSeq(s, 1, k - 1) \in Seq(Combo) /\ s[k] \in Combo
      BY SubSeqProperties
    <3>2. SubSeq(s, 1, k) = Append(SubSeq(s, 1, k - 1), s[k])
      BY SubSeqRecursiveSecond
    <3> QED
      BY <3>1, <3>2 DEF Keeping
  <2>3. \A k \in 1..Len(s) : d[k] = SubSeq(s, 1, k) /\ d[k - 1] = SubSeq(s, 1, k - 1)
    OBVIOUS
  <2>4. DOMAIN d = 0..Len(s) /\ d[0] = <<>>
    BY <2>1
  <2> HIDE DEF d
  <2> QED
    BY <2>2, <2>3, <2>4 DEF Run
<1>3. Agree(s, s, Len(s))
  BY DEF Agree
<1>4. c[Len(s)] = d[Len(s)]
  <2> HIDE DEF d
  <2>1. \A k \in 0..Len(s) : c[k] = d[k]
    BY ONLY <1>1, <1>2, <1>3, RunsAgree
  <2> QED
    BY <2>1
<1>5. SubSeq(s, 1, Len(s)) = s
  BY SubSeqFull
<1> QED
  BY <1>1, <1>4, <1>5

\* Where nothing more is typed the run of what was typed rests.
LEMMA TypedRests ==
  ASSUME NEW s \in Seq(Combo \cup {{}}), NEW c, Run(c, Typing, <<>>, s),
         NEW m \in 0..Len(s), \A k \in 1..Len(s) : k > m => s[k] = {}
  PROVE  c[Len(s)] = c[m] /\ c[m] \in Seq(Combo)
<1>1. Operates(Typing, <<>>, Seq(Combo), Combo \cup {{}})
  BY EmptySeq DEF Operates, Typing
<1>2. \A k \in 0..Len(s) : c[k] \in Seq(Combo)
  BY <1>1, RunStays
<1> DEFINE T == {k \in Nat : k <= Len(s) /\ m <= k => c[k] = c[m]}
<1>3. 0 \in T
  OBVIOUS
<1>4. ASSUME NEW k \in T
      PROVE  k + 1 \in T
  <2> SUFFICES ASSUME k + 1 <= Len(s), m <= k + 1
               PROVE  c[k + 1] = c[m]
    OBVIOUS
  <2>1. CASE m = k + 1
    BY <2>1
  <2>2. CASE m <= k
    <3>1. k \in Nat /\ k + 1 \in 1..Len(s) /\ (k + 1) - 1 = k /\ k \in 0..Len(s)
      OBVIOUS
    <3>2. s[k + 1] = {} /\ c[k] = c[m] /\ c[k] \in Seq(Combo)
      BY <1>2, <2>2, <3>1
    <3>3. c[k + 1] = Typing[<<c[k], s[k + 1]>>]
      BY <3>1 DEF Run
    <3> QED
      BY <3>2, <3>3 DEF Typing
  <2> QED
    BY <2>1, <2>2
<1> HIDE DEF T
<1>5. T = Nat
  BY <1>3, <1>4, Induction DEF T
<1>6. Len(s) \in T
  BY <1>5
<1> QED
  BY <1>2, <1>6 DEF T

LEMMA TypedNothing ==
  ASSUME NEW s \in Seq(Combo \cup {{}}), \A k \in 1..Len(s) : s[k] = {}
  PROVE  TypedOf(s) = <<>>
<1>1. PICK c : Run(c, Typing, <<>>, s) /\ TypedOf(s) = c[Len(s)]
  BY TypedRun
<1>2. c[Len(s)] = c[0]
  BY <1>1, TypedRests
<1> QED
  BY <1>1, <1>2 DEF Run

\* Two records of what was typed that differ in the latest entry, i.
LEMMA TypedMore ==
  ASSUME NEW s \in Seq(Combo \cup {{}}), NEW t \in Seq(Combo \cup {{}}),
         Len(t) = Len(s), NEW i \in 1..Len(s),
         \A k \in 1..Len(s) : k < i => t[k] = s[k],
         \A k \in 1..Len(s) : k >= i => s[k] = {},
         \A k \in 1..Len(s) : k > i => t[k] = {}
  PROVE  /\ TypedOf(s) \in Seq(Combo)
         /\ TypedOf(t) = IF t[i] = {} THEN TypedOf(s) ELSE Append(TypedOf(s), t[i])
<1>1. PICK c : Run(c, Typing, <<>>, s) /\ TypedOf(s) = c[Len(s)]
  BY TypedRun
<1>2. PICK d : Run(d, Typing, <<>>, t) /\ TypedOf(t) = d[Len(t)]
  BY TypedRun
<1>3. i - 1 \in 0..Len(s) /\ i \in 0..Len(t) /\ i \in 1..Len(t) /\ i - 1 \in Nat
  OBVIOUS
<1>4. c[Len(s)] = c[i - 1] /\ c[i - 1] \in Seq(Combo)
  BY <1>1, <1>3, TypedRests
<1>5. d[Len(t)] = d[i]
  BY <1>2, <1>3, TypedRests
<1>6. Agree(s, t, i - 1)
  BY <1>3 DEF Agree
<1>7. c[i - 1] = d[i - 1]
  BY <1>1, <1>2, <1>3, <1>6, RunsAgree
<1>8. d[i] = Typing[<<d[i - 1], t[i]>>] /\ t[i] \in Combo \cup {{}}
  BY <1>2, <1>3 DEF Run
<1> QED
  BY <1>1, <1>2, <1>4, <1>5, <1>7, <1>8 DEF Typing

-----------------------------------------------------------------------------
\* xinput's lines: line r + 1 is about event r \div 3 + 1

Current(r) == (r \div 3) + 1

Header(event) == IF event.act = "press" THEN "key"
                 ELSE IF event.act = "release" THEN "release" ELSE "button"

LEMMA InputTyped ==
  ASSUME input \in Inputs
  PROVE  input \in Seq(Event) /\ Len(input) \in Nat /\ DOMAIN input = 1..Len(input)
<1>1. PICK n \in Nat : input \in [1..n -> Event]
  BY BoundsAssumption DEF Inputs
<1>2. input \in Seq(Event)
  BY <1>1, IsASeq
<1> QED
  BY <1>2

LEMMA EventTyped ==
  ASSUME NEW e \in Event
  PROVE  /\ e.act \in {"press", "release", "click"}
         /\ e.act # "click" => e = [act |-> e.act, code |-> e.code] /\ e.code \in Code
BY DEF Event

LEMMA LineIs ==
  ASSUME input \in Inputs, NEW r \in Nat, r < 3 * Len(input)
  PROVE  /\ Current(r) \in DOMAIN input /\ input[Current(r)] \in Event
         /\ r % 3 = 0 => Line(r + 1).kind = Header(input[Current(r)])
         /\ r % 3 # 0 => /\ Line(r + 1).kind = "detail"
                         /\ input[Current(r)].act # "click"
                            => Line(r + 1).code = input[Current(r)].code
<1> DEFINE i == Current(r)
           e == input[i]
<1>1. /\ ((r + 1) - 1) \div PerEvent = r \div 3
      /\ ((r + 1) - 1) % PerEvent = r % 3
      /\ r \div 3 \in Nat /\ r % 3 \in {0, 1, 2} /\ r = 3 * (r \div 3) + (r % 3)
  BY DEF PerEvent
<1>2. i \in DOMAIN input /\ e \in Event
  BY <1>1, InputTyped DEF Current
<1>3. e.act \in {"press", "release", "click"}
  BY <1>2, EventTyped
<1>4. Line(r + 1) = PrintedLines(e)[(r % 3) + 1]
  BY <1>1 DEF Line, Current
<1> HIDE DEF i, e
<1>5. PrintedLines(e)[1].kind = Header(e)
  BY <1>3 DEF PrintedLines, Header
<1>6. /\ PrintedLines(e)[2] = PrintedLines(e)[3]
      /\ PrintedLines(e)[2].kind = "detail"
      /\ e.act # "click" => PrintedLines(e)[2].code = e.code
  BY <1>3 DEF PrintedLines
<1>7. r % 3 = 0 => Line(r + 1).kind = Header(e)
  BY <1>4, <1>5
<1>8. r % 3 # 0 => Line(r + 1) = PrintedLines(e)[2]
  BY <1>1, <1>4, <1>6
<1> QED
  BY <1>2, <1>6, <1>7, <1>8 DEF i, e

-----------------------------------------------------------------------------
\* Typing

LEMMA ComboTyped ==
  ASSUME NEW h \in SUBSET DOMAIN Modifier, {Modifier[c] : c \in h} # {}
  PROVE  {Modifier[c] : c \in h} \in Combo
BY DEF Combo

LEMMA countKeyTyped ==
  ASSUME TypeOK, NEW h \in SUBSET DOMAIN Modifier,
         countKey({Modifier[c] : c \in h}) \/ countKey({})
  PROVE  keys' \in Nat /\ clicks' \in Nat /\ hotkeys' \in Seq(Combo)
<1> DEFINE combo == {Modifier[c] : c \in h}
<1>1. keys' \in Nat /\ clicks' \in Nat
  BY DEF countKey, TypeOK
<1>2. hotkeys' = hotkeys \/ (hotkeys' = Append(hotkeys, combo) /\ combo \in Combo)
  <2>1. combo # {} => combo \in Combo
    BY ComboTyped
  <2> QED
    BY <2>1 DEF countKey
<1> HIDE DEF combo
<1>3. hotkeys \in Seq(Combo)
  BY DEF TypeOK
<1>4. hotkeys' \in Seq(Combo)
  BY <1>2, <1>3, AppendProperties
<1> QED
  BY <1>1, <1>4

LEMMA handleLineTyped ==
  ASSUME TypeOK, handleLine
  PROVE  TypeOK'
<1>1. read \in Nat /\ read < 3 * Len(input) /\ Len(input) \in Nat
  BY InputTyped DEF TypeOK, handleLine, PerEvent
<1>2. read' \in 0..(PerEvent * Len(input'))
  BY <1>1 DEF handleLine, PerEvent, tracker
<1> DEFINE line == Line(read + 1)
<1>3. line.kind \in {"key", "release", "button", "detail"}
  <2>1. read % 3 = 0 \/ read % 3 # 0
    OBVIOUS
  <2>2. input \in Inputs
    BY DEF TypeOK
  <2> QED
    BY <1>1, <2>1, <2>2, LineIs DEF Header
<1> HIDE DEF line
<1>4. pending' \in {"none", "key", "button", "release"}
  BY <1>3 DEF handleLine, Claimed, Unclaimed, TypeOK, line
<1>5. held' \subseteq DOMAIN Modifier
  BY DEF handleLine, Claimed, Unclaimed, ReleaseKey, TypeOK
<1>6. keys' \in Nat /\ clicks' \in Nat /\ hotkeys' \in Seq(Combo)
  <2>1. CASE UNCHANGED counters
    BY <2>1 DEF counters, TypeOK
  <2>2. CASE countClick
    BY <2>2 DEF countClick, TypeOK
  <2>3. CASE countKey({}) \/ countKey(currentHotkey)
    <3>1. held \in SUBSET DOMAIN Modifier
      BY DEF TypeOK
    <3> QED
      BY <2>3, <3>1, countKeyTyped DEF currentHotkey
  <2> QED
    BY <2>1, <2>2, <2>3 DEF handleLine, Claimed, Unclaimed
<1> QED
  BY <1>2, <1>4, <1>5, <1>6 DEF handleLine, tracker, file, TypeOK

LEMMA ProcessEndsTyped ==
  ASSUME TypeOK, NEW how \in {"killed", "threw"}, ProcessEnds(how), torn' \in BOOLEAN
  PROVE  TypeOK'
<1>1. onDisk \in Nat /\ onDisk <= Len(lines) /\ lines \in Seq(Sample) /\ Len(lines) \in Nat
  BY DEF TypeOK
<1>2. lines' \in Seq(Sample) /\ Len(lines') = onDisk
  <2>1. /\ SubSeq(lines, 1, onDisk) \in Seq(Sample)
        /\ Len(SubSeq(lines, 1, onDisk)) = onDisk
    BY <1>1, SubSeqProperties
  <2> QED
    BY <2>1 DEF ProcessEnds
<1>3. hotkeys' \in Seq(Combo)
  BY EmptySeq DEF ProcessEnds, ResetCounters
<1>4. onDisk' \in 0..Len(lines')
  BY <1>1, <1>2 DEF ProcessEnds
<1>5. begun' \in 0..MaxSamples /\ asking' \in 0..begun'
  BY BoundsAssumption DEF ProcessEnds
<1>6. input' = input /\ read' = read
  BY DEF ProcessEnds
<1> QED
  BY <1>2, <1>3, <1>4, <1>5, <1>6 DEF ProcessEnds, ResetCounters, TypeOK

LEMMA EventIsSample ==
  ASSUME TypeOK, NEW ts \in 0..MaxTime, NEW window \in Window \cup {NoWindow}
  PROVE  /\ buildEvent(ts, window) \in Sample
         /\ buildEvent(ts, window).keys = keys
         /\ buildEvent(ts, window).clicks = clicks
         /\ buildEvent(ts, window).hotkeys = hotkeys
<1>1. filterHotkeys(hotkeys) = hotkeys /\ hotkeys \in Seq(Combo)
  BY FilterKeepsAll DEF TypeOK
<1> QED
  BY <1>1 DEF buildEvent, Sample, TypeOK

LEMMA sampleEndsTyped ==
  ASSUME TypeOK, sampleEnds
  PROVE  TypeOK'
<1>1. PICK ts \in 0..MaxTime, window \in Window \cup {NoWindow} :
        /\ lastWindow' = window
        /\ lines' = IF stream = "open" THEN Append(lines, buildEvent(ts, window)) ELSE lines
  BY DEF sampleEnds, TypeOK
<1> DEFINE e == buildEvent(ts, window)
<1>2. e \in Sample
  BY EventIsSample
<1> HIDE DEF e
<1>3. lines \in Seq(Sample) /\ onDisk \in 0..Len(lines)
  BY DEF TypeOK
<1>4. lines' \in Seq(Sample) /\ onDisk \in 0..Len(lines')
  <2>1. Append(lines, e) \in Seq(Sample) /\ Len(Append(lines, e)) = Len(lines) + 1
    BY <1>2, <1>3, AppendProperties
  <2> QED
    BY <1>1, <1>3, <2>1 DEF e
<1>5. <<>> \in Seq(Combo)
  BY EmptySeq
<1>6. asking' \in 0..begun'
  BY BoundsAssumption DEF sampleEnds, TypeOK
<1> QED
  BY <1>1, <1>4, <1>5, <1>6 DEF sampleEnds, ResetCounters, listener, file, TypeOK

LEMMA TypeInductive == TypeOK /\ [Next]_vars => TypeOK'
<1> SUFFICES ASSUME TypeOK, [Next]_vars
             PROVE  TypeOK'
  OBVIOUS
<1>1. CASE xinputExits
  BY <1>1 DEF xinputExits, counters, tracker, file, TypeOK
<1>2. CASE sampleBegins
  <2>1. begun' \in 0..MaxSamples /\ asking' \in 0..begun'
    BY <1>2, BoundsAssumption DEF sampleBegins, TypeOK
  <2> QED
    BY <1>2, <2>1 DEF sampleBegins, listener, counters, file, TypeOK
<1>3. CASE sampleThrows
  BY <1>3, ProcessEndsTyped DEF sampleThrows, TypeOK
<1>4. CASE flush
  <2>1. onDisk' \in 0..Len(lines')
    BY <1>4 DEF flush, tracker, TypeOK
  <2> QED
    BY <1>4, <2>1 DEF flush, listener, counters, tracker, TypeOK
<1>5. CASE stop \/ stopEnds
  BY <1>5 DEF stop, stopEnds, StopListening, listener, counters, file, TypeOK
<1>6. CASE crash
  BY <1>6, ProcessEndsTyped DEF crash
<1>7. CASE UNCHANGED vars
  BY <1>7 DEF vars, listener, counters, tracker, file, TypeOK
<1> QED
  BY <1>1, <1>2, <1>3, <1>4, <1>5, <1>6, <1>7, handleLineTyped, sampleEndsTyped DEF Next

LEMMA TypeInitial == Init => TypeOK
<1> SUFFICES ASSUME Init
             PROVE  TypeOK
  OBVIOUS
<1>1. hotkeys \in Seq(Combo) /\ lines \in Seq(Sample) /\ Len(lines) = 0
  BY EmptySeq DEF Init
<1>2. input \in Inputs /\ read \in 0..(PerEvent * Len(input))
  BY InputTyped DEF Init, PerEvent
<1>3. begun \in 0..MaxSamples /\ asking \in 0..begun /\ onDisk \in 0..Len(lines)
  BY <1>1, BoundsAssumption DEF Init
<1> QED
  BY <1>1, <1>2, <1>3 DEF Init, TypeOK

\* Whatever the user does, however many samples overlap and whenever the agent
\* dies, the track keeps its types: in particular every line is a sample, and
\* a hotkey names at least one modifier.
THEOREM TypeCorrect == Spec => []TypeOK
BY TypeInitial, TypeInductive, PTL DEF Spec

-----------------------------------------------------------------------------
\* What the listener knows after r lines

HeardBy(r) == {i \in DOMAIN input : 3 * (i - 1) + 2 <= r}
PressesBy(r) == {i \in HeardBy(r) : input[i].act = "press"}
ClicksBy(r) == {i \in HeardBy(r) : input[i].act = "click"}
NextEvent(r) == ((r + 1) \div 3) + 1
HeldBy(r) == {c \in DOMAIN Modifier : DownAt(NextEvent(r), c)}

ComboOf(i) == IF input[i].act = "press" /\ input[i].code \notin DOMAIN Modifier
              THEN {Modifier[c] : c \in {d \in DOMAIN Modifier : DownAt(i, d)}}
              ELSE {}
RecordBy(r) == [i \in DOMAIN input |-> IF i \in HeardBy(r) THEN ComboOf(i) ELSE {}]

LEMMA Views ==
  /\ HeardPresses = PressesBy(read) /\ HeardClicks = ClicksBy(read)
  /\ Typed = TypedOf(RecordBy(read))
<1>1. Heard = HeardBy(read)
  BY DEF Heard, HeardBy, PerEvent
<1>2. HeardPresses = PressesBy(read) /\ HeardClicks = ClicksBy(read)
  BY <1>1 DEF HeardPresses, HeardClicks, PressesBy, ClicksBy
<1>3. [i \in DOMAIN input |-> ComboAt(i)] = RecordBy(read)
  <2>1. ASSUME NEW i \in DOMAIN input
        PROVE  ComboAt(i) = IF i \in HeardBy(read) THEN ComboOf(i) ELSE {}
    BY <1>1 DEF ComboAt, HeardPresses, ComboOf
  <2> QED
    BY <2>1 DEF RecordBy
<1> QED
  BY <1>2, <1>3 DEF Typed

\* Only the second line of the three about an event adds to what is heard.
LEMMA HeardGrows ==
  ASSUME input \in Inputs, NEW r \in Nat, r < 3 * Len(input)
  PROVE  /\ r % 3 # 1 => HeardBy(r + 1) = HeardBy(r) /\ NextEvent(r + 1) = NextEvent(r)
         /\ r % 3 = 1 => /\ HeardBy(r) = {i \in DOMAIN input : i < Current(r)}
                         /\ HeardBy(r + 1) = HeardBy(r) \cup {Current(r)}
                         /\ NextEvent(r) = Current(r) /\ NextEvent(r + 1) = Current(r) + 1
<1>1. PICK k \in Nat, m \in {0, 1, 2} : r = 3 * k + m /\ r % 3 = m /\ r \div 3 = k
  <2>1. r \div 3 \in Nat /\ r % 3 \in {0, 1, 2} /\ r = 3 * (r \div 3) + (r % 3)
    OBVIOUS
  <2> WITNESS r \div 3 \in Nat, r % 3 \in {0, 1, 2}
  <2> QED
    BY <2>1
<1>2. DOMAIN input \subseteq Nat
  BY InputTyped
<1>3. Current(r) \in DOMAIN input
  BY LineIs
<1>4. CASE m # 1
  <2>1. \A i \in DOMAIN input : 3 * (i - 1) + 2 <= r <=> 3 * (i - 1) + 2 <= r + 1
    BY <1>1, <1>2, <1>4
  <2>2. ((r + 1) + 1) \div 3 = (r + 1) \div 3
    BY <1>1, <1>4
  <2> QED
    BY <1>1, <1>4, <2>1, <2>2 DEF HeardBy, NextEvent
<1>5. CASE m = 1
  <2>1. \A i \in DOMAIN input : 3 * (i - 1) + 2 <= r <=> i < k + 1
    BY <1>1, <1>2, <1>5
  <2>2. \A i \in DOMAIN input : 3 * (i - 1) + 2 <= r + 1 <=> (i < k + 1 \/ i = k + 1)
    BY <1>1, <1>2, <1>5
  <2>3. (r + 1) \div 3 = k /\ ((r + 1) + 1) \div 3 = k + 1
    BY <1>1, <1>5
  <2> QED
    BY <1>1, <1>3, <1>5, <2>1, <2>2, <2>3 DEF HeardBy, NextEvent, Current
<1> QED
  BY <1>4, <1>5

\* A modifier is down after an event if the event pressed it, or if it was
\* down and the event did not release it.
LEMMA DownNext ==
  ASSUME NEW i \in Nat \ {0}, NEW c
  PROVE  DownAt(i + 1, c) <=> \/ input[i] = [act |-> "press", code |-> c]
                              \/ DownAt(i, c) /\ input[i] # [act |-> "release", code |-> c]
<1> DEFINE P(j) == input[j] = [act |-> "press", code |-> c]
           R(j) == input[j] = [act |-> "release", code |-> c]
<1>1. P(i) => ~R(i)
  OBVIOUS
<1>2. DownAt(i + 1, c) <=> \E j \in 1..i : P(j) /\ \A k \in (j + 1)..i : ~R(k)
  BY DEF DownAt
<1>3. DownAt(i, c) <=> \E j \in 1..(i - 1) : P(j) /\ \A k \in (j + 1)..(i - 1) : ~R(k)
  BY DEF DownAt
<1> HIDE DEF P, R
<1>4. ASSUME NEW j \in 1..i, P(j), \A k \in (j + 1)..i : ~R(k)
      PROVE  P(i) \/ (DownAt(i, c) /\ ~R(i))
  <2>1. CASE j = i
    BY <1>4, <2>1
  <2>2. CASE j # i
    <3>1. j \in 1..(i - 1) /\ i \in (j + 1)..i /\ \A k \in (j + 1)..(i - 1) : k \in (j + 1)..i
      BY <2>2
    <3> QED
      BY <1>3, <1>4, <3>1
  <2> QED
    BY <2>1, <2>2
<1>5. P(i) => \E j \in 1..i : P(j) /\ \A k \in (j + 1)..i : ~R(k)
  <2>1. i \in 1..i /\ (i + 1)..i = {}
    OBVIOUS
  <2> QED
    BY <2>1
<1>6. ASSUME NEW j \in 1..(i - 1), P(j), \A k \in (j + 1)..(i - 1) : ~R(k), ~R(i)
      PROVE  \E n \in 1..i : P(n) /\ \A k \in (n + 1)..i : ~R(k)
  <2>1. j \in 1..i /\ \A k \in (j + 1)..i : k \in (j + 1)..(i - 1) \/ k = i
    OBVIOUS
  <2> QED
    BY <1>6, <2>1
<1> QED
  BY <1>2, <1>3, <1>4, <1>5, <1>6 DEF P, R

-----------------------------------------------------------------------------
\* The inductive invariant: what the listener holds is what it has been told,
\* and what it was told is in the counters and in the lines.

\* While xinput is heard the header waiting for its detail line is the right
\* one, and the modifiers held are those that are down.
ListenerOK ==
  xinput => /\ stream = "open" /\ agent = "up"
            /\ pending = IF read % 3 = 1 THEN Header(input[Current(read)]) ELSE "none"
            /\ held = HeldBy(read)

CountsOK ==
  /\ stream = "open" => /\ Sum("keys", lines) + keys = Cardinality(PressesBy(read))
                        /\ Sum("clicks", lines) + clicks = Cardinality(ClicksBy(read))
  /\ Sum("keys", lines) <= Cardinality(PressesBy(read))
  /\ Sum("clicks", lines) <= Cardinality(ClicksBy(read))

HotkeysOK == stream = "open" => HotkeysOf(lines) \o hotkeys = TypedOf(RecordBy(read))

TrackInv == ListenerOK /\ CountsOK /\ HotkeysOK

LEMMA TrackInvImplies == TrackInv => CountedOnce /\ HotkeysAreTyped
BY Views DEF TrackInv, CountsOK, HotkeysOK, CountedOnce, HotkeysAreTyped, Counted

\* Events heard are finitely many, and one more counts one more.
LEMMA HeardFinite ==
  ASSUME input \in Inputs, NEW r
  PROVE  /\ IsFiniteSet(PressesBy(r)) /\ Cardinality(PressesBy(r)) \in Nat
         /\ IsFiniteSet(ClicksBy(r)) /\ Cardinality(ClicksBy(r)) \in Nat
<1>1. IsFiniteSet(1..Len(input))
  BY InputTyped, FS_Interval
<1>2. PressesBy(r) \subseteq 1..Len(input) /\ ClicksBy(r) \subseteq 1..Len(input)
  BY InputTyped DEF PressesBy, ClicksBy, HeardBy
<1> QED
  BY <1>1, <1>2, FS_Subset, FS_CardinalityType

\* The counts after a line: only the detail line that was waited for counts.
LEMMA HeardCounts ==
  ASSUME input \in Inputs, NEW r \in Nat, r < 3 * Len(input)
  PROVE  /\ Cardinality(PressesBy(r + 1)) =
              IF r % 3 = 1 /\ input[Current(r)].act = "press"
              THEN Cardinality(PressesBy(r)) + 1 ELSE Cardinality(PressesBy(r))
         /\ Cardinality(ClicksBy(r + 1)) =
              IF r % 3 = 1 /\ input[Current(r)].act = "click"
              THEN Cardinality(ClicksBy(r)) + 1 ELSE Cardinality(ClicksBy(r))
<1> DEFINE i == Current(r)
<1>1. CASE r % 3 # 1
  BY <1>1, HeardGrows DEF PressesBy, ClicksBy
<1>2. CASE r % 3 = 1
  <2>1. HeardBy(r + 1) = HeardBy(r) \cup {i} /\ i \notin HeardBy(r)
    <3>1. i \in Nat
      BY LineIs, InputTyped
    <3> QED
      BY <1>2, <3>1, HeardGrows
  <2> HIDE DEF i
  <2>2. PressesBy(r + 1) = IF input[i].act = "press" THEN PressesBy(r) \cup {i} ELSE PressesBy(r)
    BY <2>1 DEF PressesBy
  <2>3. ClicksBy(r + 1) = IF input[i].act = "click" THEN ClicksBy(r) \cup {i} ELSE ClicksBy(r)
    BY <2>1 DEF ClicksBy
  <2>4. i \notin PressesBy(r) /\ i \notin ClicksBy(r)
    BY <2>1 DEF PressesBy, ClicksBy
  <2>5. /\ Cardinality(PressesBy(r) \cup {i}) = Cardinality(PressesBy(r)) + 1
        /\ Cardinality(ClicksBy(r) \cup {i}) = Cardinality(ClicksBy(r)) + 1
    BY <2>4, HeardFinite, FS_AddElement
  <2> QED
    BY <1>2, <2>2, <2>3, <2>5 DEF i
<1> QED
  BY <1>1, <1>2

\* The record of what was typed after a line.
LEMMA RecordGrows ==
  ASSUME input \in Inputs, NEW r \in Nat, r < 3 * Len(input)
  PROVE  /\ TypedOf(RecordBy(r)) \in Seq(Combo)
         /\ TypedOf(RecordBy(r + 1)) =
              IF r % 3 = 1 /\ ComboOf(Current(r)) # {}
              THEN Append(TypedOf(RecordBy(r)), ComboOf(Current(r))) ELSE TypedOf(RecordBy(r))
<1> DEFINE i == Current(r)
           s == RecordBy(r)
           t == RecordBy(r + 1)
<1>1. \A k \in DOMAIN input : ComboOf(k) \in Combo \cup {{}}
  BY DEF ComboOf, Combo
<1>2. /\ s \in Seq(Combo \cup {{}}) /\ Len(s) = Len(input)
      /\ t \in Seq(Combo \cup {{}}) /\ Len(t) = Len(input)
  BY <1>1, InputTyped, IsASeq DEF RecordBy
<1>3. /\ \A k \in 1..Len(input) : s[k] = IF k \in HeardBy(r) THEN ComboOf(k) ELSE {}
      /\ \A k \in 1..Len(input) : t[k] = IF k \in HeardBy(r + 1) THEN ComboOf(k) ELSE {}
  BY InputTyped DEF RecordBy
<1>4. TypedOf(s) \in Seq(Combo)
  <2>1. PICK c : Run(c, Typing, <<>>, s) /\ TypedOf(s) = c[Len(s)]
    BY <1>2, TypedRun
  <2>2. Operates(Typing, <<>>, Seq(Combo), Combo \cup {{}})
    BY EmptySeq DEF Operates, Typing
  <2>3. \A k \in 0..Len(s) : c[k] \in Seq(Combo)
    BY <1>2, <2>1, <2>2, RunStays
  <2> QED
    BY <1>2, <2>1, <2>3
<1>5. CASE r % 3 # 1
  <2>1. s = t
    BY <1>5, HeardGrows DEF RecordBy
  <2> QED
    BY <1>4, <1>5, <2>1
<1>6. CASE r % 3 = 1
  <2>1. i \in 1..Len(input)
    BY LineIs, InputTyped
  <2>2. /\ HeardBy(r) = {k \in 1..Len(input) : k < i}
        /\ HeardBy(r + 1) = HeardBy(r) \cup {i}
    BY <1>6, HeardGrows, InputTyped
  <2> HIDE DEF i, s, t
  <2>3. /\ \A k \in 1..Len(s) : k < i => t[k] = s[k]
        /\ \A k \in 1..Len(s) : k >= i => s[k] = {}
        /\ \A k \in 1..Len(s) : k > i => t[k] = {}
        /\ t[i] = ComboOf(i)
    <3>1. \A k \in 1..Len(s) : k < i => t[k] = s[k]
      BY <1>2, <1>3, <2>1, <2>2
    <3>2. \A k \in 1..Len(s) : k >= i => s[k] = {}
      BY <1>2, <1>3, <2>1, <2>2
    <3>3. \A k \in 1..Len(s) : k > i => t[k] = {}
      BY <1>2, <1>3, <2>1, <2>2
    <3>4. t[i] = ComboOf(i)
      BY <1>2, <1>3, <2>1, <2>2
    <3> QED
      BY ONLY <3>1, <3>2, <3>3, <3>4
  <2>4. TypedOf(t) = IF t[i] = {} THEN TypedOf(s) ELSE Append(TypedOf(s), t[i])
    BY <1>2, <2>1, <2>3, TypedMore
  <2> QED
    BY <1>4, <1>6, <2>3, <2>4 DEF i, s, t
<1> QED
  BY <1>5, <1>6

-----------------------------------------------------------------------------
\* The invariant is inductive

\* After a step the parts of the invariant speak of the same input.
LEMMA InvAfter ==
  ASSUME input' = input,
         xinput' => /\ stream' = "open" /\ agent' = "up"
                    /\ pending' = IF read' % 3 = 1 THEN Header(input[Current(read')]) ELSE "none"
                    /\ held' = HeldBy(read'),
         stream' = "open" =>
           /\ Sum("keys", lines') + keys' = Cardinality(PressesBy(read'))
           /\ Sum("clicks", lines') + clicks' = Cardinality(ClicksBy(read'))
           /\ HotkeysOf(lines') \o hotkeys' = TypedOf(RecordBy(read')),
         Sum("keys", lines') <= Cardinality(PressesBy(read')),
         Sum("clicks", lines') <= Cardinality(ClicksBy(read'))
  PROVE  TrackInv'
<1>1. \A i, c : DownAt(i, c)' <=> DownAt(i, c)
  BY DEF DownAt
<1>2. HeldBy(read)' = HeldBy(read')
  BY <1>1 DEF HeldBy, NextEvent
<1>3. HeardBy(read)' = HeardBy(read')
  BY DEF HeardBy
<1>4. PressesBy(read)' = PressesBy(read') /\ ClicksBy(read)' = ClicksBy(read')
  BY <1>3 DEF PressesBy, ClicksBy
<1>5. RecordBy(read)' = RecordBy(read')
  <2>1. \A i : ComboOf(i)' = ComboOf(i)
    BY <1>1 DEF ComboOf
  <2> QED
    BY <1>3, <2>1 DEF RecordBy
<1>6. ListenerOK'
  BY <1>2 DEF ListenerOK, Header, Current
<1>7. CountsOK'
  BY <1>4 DEF CountsOK
<1>8. HotkeysOK'
  BY <1>5 DEF HotkeysOK
<1> QED
  BY <1>6, <1>7, <1>8 DEF TrackInv

\* The listener's turn: the line of a header sets it, the first detail line
\* counts, the second finds no header and counts nothing.
LEMMA handleLineTrack ==
  ASSUME TypeOK, TrackInv, handleLine
  PROVE  TrackInv'
<1> DEFINE i == Current(read)
           line == Line(read + 1)
<1>1. /\ input \in Inputs /\ read \in Nat /\ read < 3 * Len(input)
      /\ lines \in Seq(Sample) /\ hotkeys \in Seq(Combo) /\ keys \in Nat /\ clicks \in Nat
  BY InputTyped DEF TypeOK, handleLine, PerEvent
<1>2. /\ xinput /\ stream = "open" /\ agent = "up"
      /\ pending = IF read % 3 = 1 THEN Header(input[i]) ELSE "none"
      /\ held = HeldBy(read)
      /\ Sum("keys", lines) + keys = Cardinality(PressesBy(read))
      /\ Sum("clicks", lines) + clicks = Cardinality(ClicksBy(read))
      /\ Sum("keys", lines) <= Cardinality(PressesBy(read))
      /\ Sum("clicks", lines) <= Cardinality(ClicksBy(read))
      /\ HotkeysOf(lines) \o hotkeys = TypedOf(RecordBy(read))
  BY DEF TrackInv, ListenerOK, CountsOK, HotkeysOK, handleLine
<1>3. /\ read' = read + 1 /\ input' = input /\ lines' = lines /\ stream' = stream
      /\ agent' = agent /\ xinput' = xinput
  BY DEF handleLine, tracker
<1>4. /\ i \in DOMAIN input /\ i \in Nat \ {0} /\ input[i] \in Event
      /\ read % 3 = 0 => line.kind = Header(input[i])
      /\ read % 3 # 0 => /\ line.kind = "detail"
                         /\ input[i].act # "click" => line.code = input[i].code
  BY <1>1, LineIs, InputTyped
<1>5. Header(input[i]) \in {"key", "release", "button"}
  BY DEF Header
<1>6. read % 3 \in {0, 1, 2} /\ (read + 1) % 3 = IF read % 3 = 2 THEN 0 ELSE (read % 3) + 1
  BY <1>1
<1>7. Sum("keys", lines) \in Nat /\ Sum("clicks", lines) \in Nat
  <2>1. Len(lines) \in 0..Len(lines) /\ SubSeq(lines, 1, Len(lines)) = lines
    BY <1>1, SubSeqFull
  <2> QED
    BY <1>1, <2>1, SumPrefix
<1>8. /\ Cardinality(PressesBy(read)) \in Nat /\ Cardinality(PressesBy(read + 1)) \in Nat
      /\ Cardinality(ClicksBy(read)) \in Nat /\ Cardinality(ClicksBy(read + 1)) \in Nat
  BY <1>1, HeardFinite
<1> HIDE DEF line
<1>9. CASE read % 3 # 1
  <2>1. UNCHANGED <<held, keys, clicks, hotkeys>>
    BY <1>2, <1>4, <1>5, <1>6, <1>9 DEF handleLine, Unclaimed, counters, line
  <2>2. pending' = IF read' % 3 = 1 THEN Header(input[Current(read')]) ELSE "none"
    <3>1. CASE read % 3 = 0
      <4>1. pending' = Header(input[i])
        BY <1>4, <1>5, <3>1 DEF handleLine, line
      <4>2. Current(read + 1) = i
        BY <1>1, <3>1 DEF Current
      <4> QED
        BY <1>3, <1>6, <3>1, <4>1, <4>2
    <3>2. CASE read % 3 = 2
      <4>1. pending' = "none"
        BY <1>2, <1>4, <3>2 DEF handleLine, Unclaimed, line
      <4> QED
        BY <1>3, <1>6, <3>2, <4>1
    <3> QED
      BY <1>6, <1>9, <3>1, <3>2
  <2>3. HeldBy(read') = HeldBy(read)
    BY <1>1, <1>3, <1>9, HeardGrows DEF HeldBy
  <2>4. /\ Cardinality(PressesBy(read')) = Cardinality(PressesBy(read))
        /\ Cardinality(ClicksBy(read')) = Cardinality(ClicksBy(read))
        /\ TypedOf(RecordBy(read')) = TypedOf(RecordBy(read))
    BY <1>1, <1>3, <1>9, HeardCounts, RecordGrows
  <2> QED
    BY <1>2, <1>3, <2>1, <2>2, <2>3, <2>4, InvAfter
<1>10. CASE read % 3 = 1
  <2>1. Claimed(line) /\ pending' = "none"
    BY <1>2, <1>4, <1>5, <1>10 DEF handleLine, Claimed, line
  <2>2. \A c : c \in HeldBy(read') <=>
               c \in DOMAIN Modifier /\ (\/ input[i] = [act |-> "press", code |-> c]
                                         \/ /\ DownAt(i, c)
                                            /\ input[i] # [act |-> "release", code |-> c])
    <3>1. NextEvent(read') = i + 1
      BY <1>1, <1>3, <1>10, HeardGrows
    <3> QED
      BY <1>4, <3>1, DownNext DEF HeldBy
  <2>3. \A c : c \in held <=> c \in DOMAIN Modifier /\ DownAt(i, c)
    BY <1>1, <1>2, <1>10, HeardGrows DEF HeldBy
  <2>4. currentHotkey = {Modifier[c] : c \in {d \in DOMAIN Modifier : DownAt(i, d)}}
    <3>1. held = {d \in DOMAIN Modifier : DownAt(i, d)}
      BY <2>3
    <3> QED
      BY <3>1 DEF currentHotkey
  <2>5. /\ Cardinality(PressesBy(read')) = IF input[i].act = "press"
             THEN Cardinality(PressesBy(read)) + 1 ELSE Cardinality(PressesBy(read))
        /\ Cardinality(ClicksBy(read')) = IF input[i].act = "click"
             THEN Cardinality(ClicksBy(read)) + 1 ELSE Cardinality(ClicksBy(read))
        /\ TypedOf(RecordBy(read')) = IF ComboOf(i) # {}
             THEN Append(TypedOf(RecordBy(read)), ComboOf(i)) ELSE TypedOf(RecordBy(read))
    BY <1>1, <1>3, <1>10, HeardCounts, RecordGrows
  <2>6. input[i].act \in {"press", "release", "click"}
    BY <1>4, EventTyped
  <2>7. input[i].act # "click" => line.code = input[i].code
                                  /\ input[i] = [act |-> input[i].act, code |-> input[i].code]
    BY <1>4, <1>10, EventTyped
  <2> HIDE DEF i
  <2>8. /\ held' = HeldBy(read')
        /\ keys' = IF input[i].act = "press" THEN keys + 1 ELSE keys
        /\ clicks' = IF input[i].act = "click" THEN clicks + 1 ELSE clicks
        /\ hotkeys' = IF ComboOf(i) # {} THEN Append(hotkeys, ComboOf(i)) ELSE hotkeys
    <3>1. CASE input[i].act = "press"
      <4>1. pending = "key"
        BY <1>2, <1>10, <3>1 DEF Header, i
      <4>2. CASE input[i].code \in DOMAIN Modifier
        <5>1. held' = held \cup {input[i].code} /\ countKey({})
          BY <2>1, <2>7, <3>1, <4>1, <4>2 DEF Claimed
        <5>2. ComboOf(i) = {}
          BY <4>2 DEF ComboOf
        <5>3. \A c : /\ input[i] = [act |-> "press", code |-> c] <=> c = input[i].code
                     /\ input[i] # [act |-> "release", code |-> c]
          BY <2>7, <3>1
        <5>4. held' = HeldBy(read')
          <6>1. \A c : c \in HeldBy(read')
                       <=> c \in DOMAIN Modifier /\ (c = input[i].code \/ DownAt(i, c))
            BY <2>2, <5>3
          <6>2. \A c : c \in held' <=> c \in DOMAIN Modifier /\ (c = input[i].code \/ DownAt(i, c))
            BY <2>3, <4>2, <5>1
          <6> QED
            BY <6>1, <6>2 DEF HeldBy
        <5> QED
          BY <3>1, <5>1, <5>2, <5>4 DEF countKey
      <4>3. CASE input[i].code \notin DOMAIN Modifier
        <5>1. held' = held /\ countKey(currentHotkey)
          BY <2>1, <2>7, <3>1, <4>1, <4>3 DEF Claimed
        <5>2. ComboOf(i) = currentHotkey
          BY <2>4, <3>1, <4>3 DEF ComboOf
        <5>3. held' = HeldBy(read')
          <6>1. \A c \in DOMAIN Modifier : /\ input[i] # [act |-> "press", code |-> c]
                                           /\ input[i] # [act |-> "release", code |-> c]
            BY <2>7, <3>1, <4>3
          <6> QED
            BY <2>2, <2>3, <5>1, <6>1
        <5> QED
          BY <3>1, <5>1, <5>2, <5>3 DEF countKey
      <4> QED
        BY <4>2, <4>3
    <3>2. CASE input[i].act = "release"
      <4>1. pending = "release"
        BY <1>2, <1>10, <3>2 DEF Header, i
      <4>2. held' = held \ {input[i].code} /\ UNCHANGED counters
        BY <2>1, <2>7, <3>2, <4>1 DEF Claimed, ReleaseKey
      <4>3. \A c : /\ input[i] # [act |-> "press", code |-> c]
                   /\ input[i] = [act |-> "release", code |-> c] <=> c = input[i].code
        BY <2>7, <3>2
      <4>4. held' = HeldBy(read')
        BY <2>2, <2>3, <4>2, <4>3
      <4>5. ComboOf(i) = {}
        BY <3>2 DEF ComboOf
      <4> QED
        BY <3>2, <4>2, <4>4, <4>5 DEF counters
    <3>3. CASE input[i].act = "click"
      <4>1. pending = "button"
        BY <1>2, <1>10, <3>3 DEF Header, i
      <4>2. held' = held /\ countClick
        BY <2>1, <4>1 DEF Claimed
      <4>3. \A c : /\ input[i] # [act |-> "press", code |-> c]
                   /\ input[i] # [act |-> "release", code |-> c]
        BY <3>3
      <4>4. held' = HeldBy(read')
        BY <2>2, <2>3, <4>2, <4>3
      <4>5. ComboOf(i) = {}
        BY <3>3 DEF ComboOf
      <4> QED
        BY <3>3, <4>2, <4>4, <4>5 DEF countClick
    <3> QED
      BY <2>6, <3>1, <3>2, <3>3
  <2>9. HotkeysOf(lines) \o hotkeys' = TypedOf(RecordBy(read'))
    <3>1. CASE ComboOf(i) = {}
      BY <1>2, <2>5, <2>8, <3>1
    <3>2. CASE ComboOf(i) # {}
      <4>1. ComboOf(i) \in Combo
        BY <3>2 DEF ComboOf, Combo
      <4>2. HotkeysOf(lines) \in Seq(Combo)
        <5>1. PICK c : Run(c, Joining, <<>>, lines) /\ HotkeysOf(lines) = c[Len(lines)]
          BY <1>1, HotkeysRun
        <5> QED
          BY <1>1, <5>1, HotkeysTyped
      <4>3. HotkeysOf(lines) \o Append(hotkeys, ComboOf(i))
            = Append(HotkeysOf(lines) \o hotkeys, ComboOf(i))
        BY <1>1, <4>1, <4>2, ConcatAppend
      <4> QED
        BY <1>2, <2>5, <2>8, <3>2, <4>3
    <3> QED
      BY <3>1, <3>2
  <2>10. /\ Sum("keys", lines) + keys' = Cardinality(PressesBy(read'))
         /\ Sum("clicks", lines) + clicks' = Cardinality(ClicksBy(read'))
         /\ Sum("keys", lines) <= Cardinality(PressesBy(read'))
         /\ Sum("clicks", lines) <= Cardinality(ClicksBy(read'))
    <3>1. /\ Sum("keys", lines) + keys' = Cardinality(PressesBy(read'))
          /\ Sum("keys", lines) <= Cardinality(PressesBy(read'))
      <4>1. \/ keys' = keys + 1 /\ Cardinality(PressesBy(read')) = Cardinality(PressesBy(read)) + 1
            \/ keys' = keys /\ Cardinality(PressesBy(read')) = Cardinality(PressesBy(read))
        BY <2>5, <2>8
      <4>2. /\ Sum("keys", lines) \in Nat /\ keys \in Nat
            /\ Sum("keys", lines) + keys = Cardinality(PressesBy(read))
        BY <1>1, <1>2, <1>7
      <4> QED
        BY ONLY <4>1, <4>2
    <3>2. /\ Sum("clicks", lines) + clicks' = Cardinality(ClicksBy(read'))
          /\ Sum("clicks", lines) <= Cardinality(ClicksBy(read'))
      <4>1. \/ clicks' = clicks + 1 /\ Cardinality(ClicksBy(read')) = Cardinality(ClicksBy(read)) + 1
            \/ clicks' = clicks /\ Cardinality(ClicksBy(read')) = Cardinality(ClicksBy(read))
        BY <2>5, <2>8
      <4>2. /\ Sum("clicks", lines) \in Nat /\ clicks \in Nat
            /\ Sum("clicks", lines) + clicks = Cardinality(ClicksBy(read))
        BY <1>1, <1>2, <1>7
      <4> QED
        BY ONLY <4>1, <4>2
    <3> QED
      BY <3>1, <3>2
  <2>11. read' % 3 # 1
    BY <1>3, <1>6, <1>10
  <2> QED
    BY <1>2, <1>3, <2>1, <2>8, <2>9, <2>10, <2>11, InvAfter
<1> QED
  BY <1>9, <1>10

\* Steps that leave the counters and the lines alone, and at most stop the
\* listener or the stream.
LEMMA QuietTrack ==
  ASSUME TrackInv,
         UNCHANGED <<input, read, lines, counters>>,
         xinput' => xinput /\ UNCHANGED <<pending, held, stream, agent>>,
         stream' = "open" => stream = "open"
  PROVE  TrackInv'
BY InvAfter DEF TrackInv, ListenerOK, CountsOK, HotkeysOK, counters

\* A sample moves what the counters have into its line, all of it.
LEMMA sampleEndsTrack ==
  ASSUME TypeOK, TrackInv, sampleEnds
  PROVE  TrackInv'
<1>1. /\ lines \in Seq(Sample) /\ hotkeys \in Seq(Combo) /\ keys \in Nat /\ clicks \in Nat
      /\ lastWindow \in Window \cup {NoWindow} /\ input \in Inputs
  BY DEF TypeOK
<1>2. /\ UNCHANGED <<input, read, xinput, pending, held, stream, agent>>
      /\ keys' = 0 /\ clicks' = 0 /\ hotkeys' = <<>>
  BY DEF sampleEnds, ResetCounters, listener
<1>3. CASE stream = "open"
  <2>1. PICK ts \in 0..MaxTime, window \in Window \cup {NoWindow} :
               lines' = Append(lines, buildEvent(ts, window))
    BY <1>1, <1>3 DEF sampleEnds
  <2> DEFINE e == buildEvent(ts, window)
  <2>2. e \in Sample /\ e.keys = keys /\ e.clicks = clicks /\ e.hotkeys = hotkeys
    BY EventIsSample
  <2> HIDE DEF e
  <2>3. /\ Sum("keys", lines) \in Nat /\ Sum("clicks", lines) \in Nat
        /\ Sum("keys", Append(lines, e)) = Sum("keys", lines) + e["keys"]
        /\ Sum("clicks", Append(lines, e)) = Sum("clicks", lines) + e["clicks"]
    BY <1>1, <2>2, SumAppend
  <2>4. HotkeysOf(lines) \in Seq(Combo) /\ HotkeysOf(Append(lines, e)) = HotkeysOf(lines) \o hotkeys
    BY <1>1, <2>2, HotkeysAppend
  <2>5. HotkeysOf(Append(lines, e)) \o <<>> = HotkeysOf(lines) \o hotkeys
    <3>1. HotkeysOf(lines) \o hotkeys \in Seq(Combo)
      BY <1>1, <2>4, ConcatProperties
    <3> QED
      BY <2>4, <3>1, ConcatEmptySeq
  <2>6. lines' = Append(lines, e)
    BY <2>1 DEF e
  <2>7. /\ Sum("keys", lines) + keys = Cardinality(PressesBy(read))
        /\ Sum("clicks", lines) + clicks = Cardinality(ClicksBy(read))
        /\ HotkeysOf(lines) \o hotkeys = TypedOf(RecordBy(read))
    BY <1>3 DEF TrackInv, CountsOK, HotkeysOK
  <2>8. /\ Sum("keys", lines') + keys' = Cardinality(PressesBy(read'))
        /\ Sum("clicks", lines') + clicks' = Cardinality(ClicksBy(read'))
        /\ HotkeysOf(lines') \o hotkeys' = TypedOf(RecordBy(read'))
    BY <1>1, <1>2, <2>2, <2>3, <2>5, <2>6, <2>7
  <2>9. /\ Sum("keys", lines') <= Cardinality(PressesBy(read'))
        /\ Sum("clicks", lines') <= Cardinality(ClicksBy(read'))
    BY <1>1, <1>2, <2>2, <2>3, <2>6, <2>8
  <2> QED
    BY <1>2, <2>8, <2>9, InvAfter DEF TrackInv, ListenerOK
<1>4. CASE stream # "open"
  <2>1. lines' = lines
    BY <1>4 DEF sampleEnds
  <2> QED
    BY <1>2, <1>4, <2>1, InvAfter DEF TrackInv, ListenerOK, CountsOK
<1> QED
  BY <1>3, <1>4

\* What is lost with the process was not counted in another line.
LEMMA ProcessEndsTrack ==
  ASSUME TypeOK, TrackInv, NEW how, ProcessEnds(how)
  PROVE  TrackInv'
<1>1. lines \in Seq(Sample) /\ onDisk \in 0..Len(lines) /\ input \in Inputs
  BY DEF TypeOK
<1>2. /\ lines' = SubSeq(lines, 1, onDisk) /\ xinput' = FALSE /\ stream' = "null"
      /\ input' = input /\ read' = read
  BY DEF ProcessEnds
<1>3. /\ Sum("keys", lines') \in Nat /\ Sum("keys", lines') <= Sum("keys", lines)
      /\ Sum("clicks", lines') \in Nat /\ Sum("clicks", lines') <= Sum("clicks", lines)
  BY <1>1, <1>2, SumPrefix
<1>4. /\ Sum("keys", lines) \in Nat /\ Sum("clicks", lines) \in Nat
      /\ Sum("keys", lines) <= Cardinality(PressesBy(read))
      /\ Sum("clicks", lines) <= Cardinality(ClicksBy(read))
  <2>1. Len(lines) \in 0..Len(lines) /\ SubSeq(lines, 1, Len(lines)) = lines
    BY <1>1, SubSeqFull
  <2> QED
    BY <1>1, <2>1, SumPrefix DEF TrackInv, CountsOK
<1>5. Cardinality(PressesBy(read)) \in Nat /\ Cardinality(ClicksBy(read)) \in Nat
  BY <1>1, HeardFinite
<1>6. /\ Sum("keys", lines') <= Cardinality(PressesBy(read'))
      /\ Sum("clicks", lines') <= Cardinality(ClicksBy(read'))
  BY <1>2, <1>3, <1>4, <1>5
<1> QED
  BY <1>2, <1>6, InvAfter

LEMMA TrackInductive == TypeOK /\ TrackInv /\ [Next]_vars => TrackInv'
<1> SUFFICES ASSUME TypeOK, TrackInv, [Next]_vars
             PROVE  TrackInv'
  OBVIOUS
<1>1. CASE handleLine
  BY <1>1, handleLineTrack
<1>2. CASE xinputExits
  BY <1>2, QuietTrack DEF xinputExits, tracker
<1>3. CASE sampleBegins
  BY <1>3, QuietTrack DEF sampleBegins, listener
<1>4. CASE sampleEnds
  BY <1>4, sampleEndsTrack
<1>5. CASE sampleThrows
  BY <1>5, ProcessEndsTrack DEF sampleThrows
<1>6. CASE flush
  BY <1>6, QuietTrack DEF flush, listener, tracker
<1>7. CASE stop
  BY <1>7, QuietTrack DEF stop, StopListening
<1>8. CASE stopEnds
  <2>1. ~xinput
    BY <1>8 DEF stopEnds, TrackInv, ListenerOK
  <2> QED
    BY <1>8, <2>1, QuietTrack DEF stopEnds, listener
<1>9. CASE crash
  BY <1>9, ProcessEndsTrack DEF crash
<1>10. CASE UNCHANGED vars
  BY <1>10, QuietTrack DEF vars, listener, tracker
<1> QED
  BY <1>1, <1>2, <1>3, <1>4, <1>5, <1>6, <1>7, <1>8, <1>9, <1>10 DEF Next

LEMMA TrackInitial == Init => TrackInv
<1> SUFFICES ASSUME Init
             PROVE  TrackInv
  OBVIOUS
<1>1. /\ input \in Inputs /\ read = 0 /\ pending = "none" /\ held = {} /\ stream = "open"
      /\ agent = "up" /\ lines = <<>> /\ keys = 0 /\ clicks = 0 /\ hotkeys = <<>>
  BY DEF Init
<1>2. HeardBy(0) = {}
  BY <1>1, InputTyped DEF HeardBy
<1>3. PressesBy(0) = {} /\ ClicksBy(0) = {}
  BY <1>2 DEF PressesBy, ClicksBy
<1>4. NextEvent(0) = 1
  BY DEF NextEvent
<1>5. HeldBy(0) = {}
  BY <1>4 DEF HeldBy, DownAt
<1>6. RecordBy(0) \in Seq(Combo \cup {{}}) /\ \A k \in 1..Len(RecordBy(0)) : RecordBy(0)[k] = {}
  <2>1. RecordBy(0) = [k \in 1..Len(input) |-> {}]
    BY <1>1, <1>2, InputTyped DEF RecordBy
  <2> QED
    BY <1>1, <2>1, InputTyped, IsASeq
<1>7. TypedOf(RecordBy(0)) = <<>>
  BY <1>6, TypedNothing
<1>8. ListenerOK
  BY <1>1, <1>5 DEF ListenerOK
<1>9. CountsOK
  <2>1. Sum("keys", <<>>) = 0 /\ Sum("clicks", <<>>) = 0
    BY SumEmpty
  <2>2. Cardinality({}) = 0
    BY FS_EmptySet
  <2>3. /\ Sum("keys", lines) = 0 /\ Sum("clicks", lines) = 0
        /\ Cardinality(PressesBy(read)) = 0 /\ Cardinality(ClicksBy(read)) = 0
    BY <1>1, <1>3, <2>1, <2>2
  <2>4. keys = 0 /\ clicks = 0
    BY <1>1
  <2> QED
    BY ONLY <2>3, <2>4 DEF CountsOK
<1>10. HotkeysOK
  <2>1. <<>> \in Seq(Combo) /\ <<>> \o <<>> = <<>>
    BY EmptySeq, ConcatEmptySeq
  <2> QED
    BY <1>1, <1>7, <2>1, HotkeysEmpty DEF HotkeysOK
<1> QED
  BY <1>8, <1>9, <1>10 DEF TrackInv

LEMMA TrackAlways == Spec => []TrackInv
BY TrackInitial, TrackInductive, TypeCorrect, PTL DEF Spec

\* However samples overlap, every key press and click the listener was told of
\* is in exactly one line or still counted, and no line has more than was
\* pressed, a crash or a throwing tracker included.
THEOREM CountedOnceHolds == Spec => []CountedOnce
BY TrackAlways, TrackInvImplies, PTL

\* Until the recording ends, the hotkeys in the lines and in the counter are
\* the combinations typed, in this order, each with the modifiers held then.
THEOREM HotkeysAreTypedHolds == Spec => []HotkeysAreTyped
BY TrackAlways, TrackInvImplies, PTL

-----------------------------------------------------------------------------
\* What happens to a sum when one element changes, or comes in between

\* One step of a sum.
LEMMA SumSteps ==
  ASSUME NEW field, NEW E, HaveCount(field, E), NEW s \in Seq(E), NEW c,
         Run(c, Adding(field, E), 0, s), NEW k \in Nat, k + 1 <= Len(s)
  PROVE  /\ s[k + 1] \in E /\ Console!Finite(s[k + 1][field]) \in Nat
         /\ c[k] \in Nat
         /\ c[k + 1] = c[k] + Console!Finite(s[k + 1][field])
<1>1. k + 1 \in 1..Len(s) /\ k \in 0..Len(s) /\ (k + 1) - 1 = k
  OBVIOUS
<1>2. s[k + 1] \in E
  BY <1>1
<1>3. c[k] \in Nat
  BY <1>1, SumTyped
<1>4. c[k + 1] = Adding(field, E)[<<c[k], s[k + 1]>>]
  BY <1>1 DEF Run
<1> QED
  BY <1>2, <1>3, <1>4 DEF Adding, HaveCount

\* One element changes: the sums differ as it does.
LEMMA SumUpdate ==
  ASSUME NEW field, NEW E, HaveCount(field, E), NEW s \in Seq(E), NEW t \in Seq(E),
         Len(t) = Len(s), NEW n \in 1..Len(s), \A k \in 1..Len(s) : k # n => t[k] = s[k]
  PROVE  /\ Sum(field, s) \in Nat /\ Sum(field, t) \in Nat
         /\ Sum(field, t) + Console!Finite(s[n][field])
              = Sum(field, s) + Console!Finite(t[n][field])
<1>1. PICK c : Run(c, Adding(field, E), 0, s) /\ Sum(field, s) = c[Len(s)]
  BY SumRuns
<1>2. PICK d : Run(d, Adding(field, E), 0, t) /\ Sum(field, t) = d[Len(t)]
  BY SumRuns
<1> DEFINE old == Console!Finite(s[n][field])
           new == Console!Finite(t[n][field])
           T == {k \in Nat : k <= Len(s) => IF k < n THEN d[k] = c[k]
                                            ELSE d[k] + old = c[k] + new}
<1>3. n \in Nat \ {0} /\ n <= Len(s) /\ Len(s) \in Nat
  OBVIOUS
<1>4. old \in Nat /\ new \in Nat
  BY DEF HaveCount
<1>5. 0 \in T
  BY <1>1, <1>2, <1>3 DEF Run
<1>6. ASSUME NEW k \in T
      PROVE  k + 1 \in T
  <2> SUFFICES ASSUME k + 1 <= Len(s)
               PROVE  IF k + 1 < n THEN d[k + 1] = c[k + 1]
                      ELSE d[k + 1] + old = c[k + 1] + new
    OBVIOUS
  <2>1. k \in Nat /\ k <= Len(s) /\ k + 1 <= Len(t) /\ k + 1 \in 1..Len(s)
    OBVIOUS
  <2>2. IF k < n THEN d[k] = c[k] ELSE d[k] + old = c[k] + new
    BY <2>1
  <2>3. /\ Console!Finite(s[k + 1][field]) \in Nat /\ c[k] \in Nat
        /\ c[k + 1] = c[k] + Console!Finite(s[k + 1][field])
    BY <1>1, <2>1, SumSteps
  <2>4. /\ Console!Finite(t[k + 1][field]) \in Nat /\ d[k] \in Nat
        /\ d[k + 1] = d[k] + Console!Finite(t[k + 1][field])
    BY <1>2, <2>1, SumSteps
  <2> HIDE DEF T
  <2>5. CASE k + 1 = n
    <3>1. Console!Finite(s[k + 1][field]) = old /\ Console!Finite(t[k + 1][field]) = new
      BY <2>5
    <3> HIDE DEF old, new
    <3> QED
      BY <1>4, <2>1, <2>2, <2>3, <2>4, <2>5, <3>1
  <2>6. CASE k + 1 # n
    <3> DEFINE f == Console!Finite(s[k + 1][field])
    <3>1. Console!Finite(t[k + 1][field]) = f
      BY <2>1, <2>6
    <3>2. f \in Nat /\ c[k + 1] = c[k] + f /\ d[k + 1] = d[k] + f
      BY <2>3, <2>4, <3>1
    <3>3. k + 1 < n <=> k < n
      BY <1>3, <2>1, <2>6
    <3> HIDE DEF old, new, f
    <3>4. CASE k < n
      BY <2>2, <3>2, <3>3, <3>4
    <3>5. CASE ~(k < n)
      <4>1. d[k] + old = c[k] + new /\ c[k] \in Nat /\ d[k] \in Nat
        <5>1. d[k] + old = c[k] + new
          BY ONLY <2>2, <3>5
        <5> QED
          BY <2>3, <2>4, <5>1
      <4>2. PICK a, b, x, y, z \in Nat : /\ a = d[k] /\ b = c[k]
                                         /\ x = old /\ y = new /\ z = f
        BY <1>4, <3>2, <4>1
      <4>3. a + x = b + y
        BY ONLY <4>1, <4>2
      <4>4. (a + z) + x = (b + z) + y
        BY ONLY <4>3, a \in Nat, b \in Nat, x \in Nat, y \in Nat, z \in Nat
      <4>5. d[k + 1] + old = c[k + 1] + new
        BY ONLY <3>2, <4>2, <4>4
      <4>6. ~(k + 1 < n)
        BY ONLY <3>3, <3>5
      <4> QED
        BY ONLY <4>5, <4>6
    <3> QED
      BY <3>4, <3>5
  <2> QED
    BY <2>5, <2>6
<1> HIDE DEF T
<1>7. T = Nat
  BY <1>5, <1>6, Induction DEF T
<1>8. Len(s) \in T
  BY <1>3, <1>7
<1>9. Sum(field, s) \in Nat /\ Sum(field, t) \in Nat
  BY <1>1, <1>2, <1>3, SumTyped
<1> QED
  BY <1>1, <1>2, <1>3, <1>8, <1>9 DEF T

\* The sum of two sequences in one.
LEMMA SumConcat ==
  ASSUME NEW field, NEW E, HaveCount(field, E), NEW s \in Seq(E), NEW t \in Seq(E)
  PROVE  /\ Sum(field, s) \in Nat /\ Sum(field, t) \in Nat
         /\ Sum(field, s \o t) = Sum(field, s) + Sum(field, t)
<1> DEFINE u == s \o t
<1>1. /\ u \in Seq(E) /\ Len(u) = Len(s) + Len(t) /\ Len(s) \in Nat /\ Len(t) \in Nat
      /\ \A i \in 1..Len(s) : u[i] = s[i]
      /\ \A i \in 1..Len(t) : u[Len(s) + i] = t[i]
  BY ConcatProperties
<1> HIDE DEF u
<1>2. PICK c : Run(c, Adding(field, E), 0, s) /\ Sum(field, s) = c[Len(s)]
  BY SumRuns
<1>3. PICK d : Run(d, Adding(field, E), 0, t) /\ Sum(field, t) = d[Len(t)]
  BY SumRuns
<1>4. PICK e : Run(e, Adding(field, E), 0, u) /\ Sum(field, u) = e[Len(u)]
  BY <1>1, SumRuns
<1>5. e[Len(s)] = c[Len(s)]
  <2>1. Agree(s, u, Len(s))
    BY <1>1 DEF Agree
  <2>2. \A k \in 0..Len(s) : c[k] = e[k]
    BY ONLY <1>2, <1>4, <2>1, RunsAgree
  <2> QED
    BY <1>1, <2>2
<1>6. c[Len(s)] \in Nat /\ d[Len(t)] \in Nat
  BY <1>1, <1>2, <1>3, SumTyped
<1> DEFINE T == {k \in Nat : k <= Len(t) => e[Len(s) + k] = c[Len(s)] + d[k]}
<1>7. 0 \in T
  <2>1. d[0] = 0 /\ Len(s) + 0 = Len(s)
    BY <1>1, <1>3 DEF Run
  <2> QED
    BY <1>5, <1>6, <2>1
<1>8. ASSUME NEW k \in T
      PROVE  k + 1 \in T
  <2> SUFFICES ASSUME k + 1 <= Len(t)
               PROVE  e[Len(s) + (k + 1)] = c[Len(s)] + d[k + 1]
    OBVIOUS
  <2>1. /\ k \in Nat /\ k + 1 \in 1..Len(t) /\ Len(s) + k \in Nat
        /\ Len(s) + (k + 1) = (Len(s) + k) + 1 /\ (Len(s) + k) + 1 <= Len(u)
    BY <1>1
  <2>2. e[Len(s) + k] = c[Len(s)] + d[k]
    BY <2>1
  <2>3. u[(Len(s) + k) + 1] = t[k + 1]
    BY <1>1, <2>1
  <2>4. /\ Console!Finite(t[k + 1][field]) \in Nat /\ d[k] \in Nat
        /\ d[k + 1] = d[k] + Console!Finite(t[k + 1][field])
    BY <1>3, <2>1, SumSteps
  <2>5. e[(Len(s) + k) + 1] = e[Len(s) + k] + Console!Finite(u[(Len(s) + k) + 1][field])
    <3> DEFINE m == Len(s) + k
    <3>1. m \in Nat /\ m + 1 <= Len(u)
      BY <2>1
    <3>2. u \in Seq(E) /\ Run(e, Adding(field, E), 0, u) /\ HaveCount(field, E)
      BY <1>1, <1>4
    <3> HIDE DEF m, T
    <3>3. e[m + 1] = e[m] + Console!Finite(u[m + 1][field])
      BY ONLY <3>1, <3>2, SumSteps
    <3> QED
      BY <3>3 DEF m
  <2> HIDE DEF T
  <2> QED
    BY <1>6, <2>1, <2>2, <2>3, <2>4, <2>5
<1> HIDE DEF T
<1>9. T = Nat
  BY <1>7, <1>8, Induction DEF T
<1>10. Len(t) \in T /\ Len(t) <= Len(t)
  BY <1>1, <1>9
<1> QED
  BY <1>1, <1>2, <1>3, <1>4, <1>6, <1>10 DEF T, u

LEMMA SumOne ==
  ASSUME NEW field, NEW E, HaveCount(field, E), NEW x \in E
  PROVE  <<x>> \in Seq(E) /\ Sum(field, <<x>>) = Console!Finite(x[field])
<1>1. <<>> \in Seq(E) /\ Append(<<>>, x) = <<x>> /\ <<x>> \in Seq(E)
  BY EmptySeq
<1>2. Sum(field, Append(<<>>, x)) = Sum(field, <<>>) + Console!Finite(x[field])
  BY <1>1, SumAppends
<1>3. Sum(field, <<>>) = 0 /\ Console!Finite(x[field]) \in Nat
  BY SumEmpty DEF HaveCount
<1> QED
  BY <1>1, <1>2, <1>3

\* Nothing counted, whatever the length.
LEMMA SumZero ==
  ASSUME NEW field, NEW E, \A e \in E : Console!Finite(e[field]) = 0, NEW s \in Seq(E)
  PROVE  Sum(field, s) = 0
<1>1. HaveCount(field, E)
  BY DEF HaveCount
<1>2. PICK c : Run(c, Adding(field, E), 0, s) /\ Sum(field, s) = c[Len(s)]
  BY <1>1, SumRuns
<1>3. Operates(Adding(field, E), 0, {0}, E)
  BY DEF Operates, Adding
<1>4. \A k \in 0..Len(s) : c[k] \in {0}
  BY <1>2, <1>3, RunStays
<1>5. Len(s) \in 0..Len(s)
  OBVIOUS
<1> QED
  BY <1>2, <1>4, <1>5

-----------------------------------------------------------------------------
\* Insertion

\* The minimum of a set of numbers is in it, by well-foundedness.
LEMMA LeastIsMin ==
  ASSUME NEW S \in SUBSET Nat, S # {}
  PROVE  Console!Min(S) \in S /\ \A m \in S : Console!Min(S) <= m
<1>1. \E n \in S : \A m \in S : n <= m
  <2> DEFINE Less == {p \in Nat \X Nat : p[1] < p[2]}
  <2>1. IsWellFoundedOn(Less, Nat)
    BY NatLessThanWellFounded DEF OpToRel
  <2>2. PICK n \in S : \A m \in S : <<m, n>> \notin Less
    <3> HIDE DEF Less
    <3> QED
      BY <2>1, WFMin
  <2>3. n \in Nat /\ \A m \in S : m \in Nat /\ ~(m < n)
    <3>1. n \in Nat /\ \A m \in S : m \in Nat /\ <<m, n>> \in Nat \X Nat
      OBVIOUS
    <3> QED
      BY <2>2, <3>1
  <2>4. \A m \in S : n <= m
    <3> TAKE m \in S
    <3>1. m \in Nat /\ ~(m < n)
      BY <2>3
    <3> QED
      BY ONLY <2>3, <3>1
  <2> QED
    BY <2>4
<1> QED
  BY <1>1 DEF Console!Min

\* t is s with x inserted at n.
Inserted(t, s, n, x) ==
  /\ n \in 1..(Len(s) + 1)
  /\ Len(t) = Len(s) + 1
  /\ \A k \in 1..(n - 1) : t[k] = s[k]
  /\ t[n] = x
  /\ \A k \in n..Len(s) : t[k + 1] = s[k]

\* An insertion leaves the others as they are, in their order, and adds the
\* element to every sum.
LEMMA InsertInserts ==
  ASSUME NEW E, NEW s \in Seq(E), NEW x \in E, NEW later \in SUBSET DOMAIN s,
         NEW t, t = Console!Insert(s, x, later)
  PROVE  /\ t \in Seq(E)
         /\ \E n \in later \cup {Len(s) + 1} : /\ Inserted(t, s, n, x)
                                               /\ \A m \in later : n <= m
         /\ \A field : HaveCount(field, E)
              => /\ Sum(field, s) \in Nat
                 /\ Sum(field, t) = Sum(field, s) + Console!Finite(x[field])
<1> DEFINE S == later \cup {Len(s) + 1}
           n == Console!Min(S)
           a == SubSeq(s, 1, n - 1)
           b == SubSeq(s, n, Len(s))
<1>1. Len(s) \in Nat /\ DOMAIN s = 1..Len(s)
  OBVIOUS
<1>2. S \in SUBSET Nat /\ S # {}
  BY <1>1
<1>3. n \in S /\ \A m \in S : n <= m
  BY <1>2, LeastIsMin
<1>4. n \in 1..(Len(s) + 1) /\ n \in Nat
  BY <1>1, <1>3
<1> HIDE DEF n
<1>5. t = (a \o <<x>>) \o b
  BY DEF Console!Insert, Console!InsertAt, n
<1>6. /\ a \in Seq(E) /\ Len(a) = n - 1 /\ \A i \in 1..(n - 1) : a[i] = s[i]
  <2>1. \A i \in 1..(n - 1) : s[i] \in E
    BY <1>1, <1>4
  <2>2. n - 1 \in Int /\ 1 \in Int /\ (n - 1) - 1 + 1 = n - 1
    BY <1>4
  <2>3. /\ a \in Seq(E) /\ Len(a) = IF 1 <= n - 1 THEN (n - 1) - 1 + 1 ELSE 0
        /\ \A i \in 1..((n - 1) - 1 + 1) : a[i] = s[1 + i - 1]
    BY <2>1, <2>2, SubSeqProperties
  <2> QED
    BY <1>4, <2>2, <2>3
<1>7. /\ b \in Seq(E) /\ Len(b) = Len(s) - n + 1
      /\ \A i \in 1..(Len(s) - n + 1) : b[i] = s[n + i - 1]
  <2>1. \A i \in n..Len(s) : s[i] \in E
    BY <1>1, <1>4
  <2>2. n \in Int /\ Len(s) \in Int
    BY <1>1, <1>4
  <2>3. /\ b \in Seq(E) /\ Len(b) = IF n <= Len(s) THEN Len(s) - n + 1 ELSE 0
        /\ \A i \in 1..(Len(s) - n + 1) : b[i] = s[n + i - 1]
    BY <2>1, <2>2, SubSeqProperties
  <2> QED
    BY <1>1, <1>4, <2>3
<1>8. a \o b = s
  <2>1. /\ a \o b \in Seq(E) /\ Len(a \o b) = Len(a) + Len(b)
        /\ \A i \in 1..(Len(a) + Len(b)) :
             (a \o b)[i] = IF i <= Len(a) THEN a[i] ELSE b[i - Len(a)]
    BY <1>6, <1>7, ConcatProperties
  <2>2. Len(a) + Len(b) = Len(s)
    BY <1>1, <1>4, <1>6, <1>7
  <2> HIDE DEF a, b
  <2>3. ASSUME NEW i \in 1..Len(s)
        PROVE  (a \o b)[i] = s[i]
    <3>1. CASE i <= n - 1
      BY <1>4, <1>6, <2>1, <2>2, <3>1
    <3>2. CASE ~(i <= n - 1)
      <4>1. i - (n - 1) \in 1..(Len(s) - n + 1) /\ n + (i - (n - 1)) - 1 = i
        BY <1>1, <1>4, <3>2
      <4>2. b[i - (n - 1)] = s[i]
        BY <1>7, <4>1
      <4> QED
        BY <1>6, <2>1, <2>2, <3>2, <4>2
    <3> QED
      BY <3>1, <3>2
  <2> QED
    BY <2>1, <2>2, <2>3, SeqEqual
<1> HIDE DEF a, b
<1>9. <<x>> \in Seq(E) /\ Len(<<x>>) = 1 /\ <<x>>[1] = x
  OBVIOUS
<1> DEFINE ax == a \o <<x>>
<1>10. /\ ax \in Seq(E) /\ Len(ax) = n
       /\ \A i \in 1..(n - 1) : ax[i] = a[i]
       /\ ax[n] = x
  <2>1. ax \in Seq(E) /\ Len(ax) = (n - 1) + 1
        /\ \A i \in 1..((n - 1) + 1) : ax[i] = IF i <= n - 1 THEN a[i] ELSE <<x>>[i - (n - 1)]
    BY <1>6, <1>9, ConcatProperties
  <2>2. n \in 1..((n - 1) + 1) /\ ~(n <= n - 1) /\ n - (n - 1) = 1 /\ (n - 1) + 1 = n
    BY <1>4
  <2> HIDE DEF ax
  <2> QED
    BY <1>4, <1>9, <2>1, <2>2
<1> HIDE DEF ax
<1>11. /\ t \in Seq(E) /\ Len(t) = n + Len(b)
       /\ \A i \in 1..(n + Len(b)) : t[i] = IF i <= n THEN ax[i] ELSE b[i - n]
  <2>1. t = ax \o b
    BY <1>5 DEF ax
  <2>2. ax \in Seq(E) /\ b \in Seq(E) /\ Len(ax) = n
    BY <1>7, <1>10
  <2> QED
    BY ONLY <2>1, <2>2, ConcatProperties
<1>12. Inserted(t, s, n, x)
  <2>1. Len(t) = Len(s) + 1
    BY <1>1, <1>4, <1>7, <1>11
  <2>2. \A k \in 1..(n - 1) : t[k] = s[k]
    BY <1>1, <1>4, <1>6, <1>7, <1>10, <1>11
  <2>3. t[n] = x
    BY <1>1, <1>4, <1>7, <1>10, <1>11
  <2>4. ASSUME NEW k \in n..Len(s)
        PROVE  t[k + 1] = s[k]
    <3>1. /\ k + 1 \in 1..(n + Len(b)) /\ ~(k + 1 <= n) /\ (k + 1) - n \in 1..(Len(s) - n + 1)
          /\ n + ((k + 1) - n) - 1 = k
      BY <1>1, <1>4, <1>7
    <3> QED
      BY <1>7, <1>11, <3>1
  <2> QED
    BY <1>4, <2>1, <2>2, <2>3, <2>4 DEF Inserted
<1>13. ASSUME NEW field, HaveCount(field, E)
       PROVE  /\ Sum(field, s) \in Nat
              /\ Sum(field, t) = Sum(field, s) + Console!Finite(x[field])
  <2>1. /\ Sum(field, a) \in Nat /\ Sum(field, b) \in Nat
        /\ Sum(field, s) = Sum(field, a) + Sum(field, b)
    BY <1>6, <1>7, <1>8, <1>13, SumConcat
  <2>2. Sum(field, <<x>>) = Console!Finite(x[field]) /\ Console!Finite(x[field]) \in Nat
    BY <1>13, SumOne DEF HaveCount
  <2>3. Sum(field, ax) = Sum(field, a) + Sum(field, <<x>>)
    BY <1>6, <1>9, <1>13, SumConcat DEF ax
  <2>4. Sum(field, t) = Sum(field, ax) + Sum(field, b)
    <3>1. t = ax \o b
      BY <1>5 DEF ax
    <3> QED
      BY <1>7, <1>10, <1>13, <3>1, SumConcat
  <2> QED
    BY <2>1, <2>2, <2>3, <2>4
<1> QED
  BY <1>3, <1>11, <1>12, <1>13

-----------------------------------------------------------------------------
\* The folds of the timeline are runs

Parsing(L) == [p \in Seq(L \ {Torn}) \X L |->
                 IF p[2] = Torn THEN p[1] ELSE Append(p[1], p[2])]

LEMMA ParsedRun ==
  ASSUME NEW L, NEW s \in Seq(L)
  PROVE  \E c : Run(c, Parsing(L), <<>>, s) /\ Console!Parsed(s) = c[Len(s)]
<1> DEFINE G == Parsing(L)
           D == DOMAIN s
           F(j) == [t \in SUBSET D |->
                      IF t = {} THEN <<>>
                      ELSE (IF s[Max(t)] = Torn THEN j[t \ {Max(t)}]
                            ELSE Append(j[t \ {Max(t)}], s[Max(t)]))]
           i == CHOOSE j : j = F(j)
<1>1. Console!Parsed(s) = i[D]
  BY DEF Console!Parsed, Console!FoldLeft, Console!MapThenFoldSet, FoldLeft,
     MapThenFoldSet, Console!Max, Max
<1>2. \A a \in Seq(L \ {Torn}), x \in L :
        /\ G[<<a, x>>] = (IF x = Torn THEN a ELSE Append(a, x))
        /\ G[<<a, x>>] \in Seq(L \ {Torn})
  BY AppendProperties DEF Parsing
<1>3. <<>> \in Seq(L \ {Torn}) /\ Operates(G, <<>>, Seq(L \ {Torn}), L) /\ s \in Seq(L)
  BY <1>2, EmptySeq DEF Operates
<1> HIDE DEF G
<1>4. \E j : j = F(j)
  <2>1. PICK j : /\ Folding(j, G, <<>>, s, D)
                 /\ \A t \in SUBSET D : j[t] \in Seq(L \ {Torn})
    BY <1>3, FoldExists
  <2>2. ASSUME NEW t \in SUBSET D, t # {}
        PROVE  j[t] = (IF s[Max(t)] = Torn THEN j[t \ {Max(t)}]
                       ELSE Append(j[t \ {Max(t)}], s[Max(t)]))
    <3>1. Max(t) \in t /\ j[t] = G[<<j[t \ {Max(t)}], s[Max(t)]>>]
      BY <2>1, <2>2 DEF Folding
    <3>2. s[Max(t)] \in L /\ j[t \ {Max(t)}] \in Seq(L \ {Torn})
      BY <1>3, <2>1, <3>1
    <3> QED
      BY ONLY <1>2, <3>1, <3>2
  <2>3. j = [t \in SUBSET D |-> j[t]] /\ j[{}] = <<>>
    BY <2>1 DEF Folding
  <2>4. F(j) = [t \in SUBSET D |-> j[t]]
    BY <2>2, <2>3
  <2> QED
    BY <2>3, <2>4
<1>5. i = F(i)
  <2> HIDE DEF F
  <2> QED
    BY <1>4
<1> HIDE DEF i
<1>6. Computes(i, G, Seq(L \ {Torn}), <<>>, s)
  <2>1. ASSUME NEW t \in SUBSET D,
               t # {} /\ Max(t) \in t /\ i[t \ {Max(t)}] \in Seq(L \ {Torn})
        PROVE  i[t] = G[<<i[t \ {Max(t)}], s[Max(t)]>>]
    <3>1. i[t] = (IF s[Max(t)] = Torn THEN i[t \ {Max(t)}]
                  ELSE Append(i[t \ {Max(t)}], s[Max(t)]))
      BY <1>5, <2>1
    <3>2. s[Max(t)] \in L
      BY <1>3, <2>1
    <3> QED
      BY ONLY <1>2, <2>1, <3>1, <3>2
  <2>2. i[{}] = <<>>
    BY <1>5
  <2> QED
    BY <2>1, <2>2 DEF Computes
<1> DEFINE c == [k \in 0..Len(s) |-> i[1..k]]
<1>7. Run(c, G, <<>>, s)
  BY <1>3, <1>6, FoldRuns
<1>8. c[Len(s)] = i[D]
  BY <1>3
<1> QED
  BY <1>1, <1>7, <1>8 DEF G

Later(s, x) == {i \in DOMAIN s : s[i].ts > x.ts}
Sorting(E) == [p \in Seq(E) \X E |-> Console!Insert(p[1], p[2], Later(p[1], p[2]))]

LEMMA SortRun ==
  ASSUME NEW E, NEW s \in Seq(E)
  PROVE  \E c : Run(c, Sorting(E), <<>>, s) /\ Console!ByTime(s) = c[Len(s)]
<1> DEFINE G == Sorting(E)
           D == DOMAIN s
           F(j) == [t \in SUBSET D |->
                      IF t = {} THEN <<>>
                      ELSE Console!Insert(j[t \ {Max(t)}], s[Max(t)],
                                          Later(j[t \ {Max(t)}], s[Max(t)]))]
           i == CHOOSE j : j = F(j)
<1>1. Console!ByTime(s) = i[D]
  BY DEF Console!ByTime, Console!FoldLeft, Console!MapThenFoldSet, FoldLeft,
     MapThenFoldSet, Console!Max, Max, Later
<1>2. \A a \in Seq(E), x \in E :
        /\ G[<<a, x>>] = Console!Insert(a, x, Later(a, x))
        /\ G[<<a, x>>] \in Seq(E)
  <2> SUFFICES ASSUME NEW a \in Seq(E), NEW x \in E
               PROVE  /\ G[<<a, x>>] = Console!Insert(a, x, Later(a, x))
                      /\ G[<<a, x>>] \in Seq(E)
    OBVIOUS
  <2>1. Later(a, x) \in SUBSET DOMAIN a
    BY DEF Later
  <2>2. Console!Insert(a, x, Later(a, x)) \in Seq(E)
    BY <2>1, InsertInserts
  <2> QED
    BY <2>2 DEF Sorting
<1>3. <<>> \in Seq(E) /\ Operates(G, <<>>, Seq(E), E) /\ s \in Seq(E)
  BY <1>2, EmptySeq DEF Operates
<1> HIDE DEF G
<1>4. \E j : j = F(j)
  <2>1. PICK j : /\ Folding(j, G, <<>>, s, D)
                 /\ \A t \in SUBSET D : j[t] \in Seq(E)
    BY <1>3, FoldExists
  <2>2. ASSUME NEW t \in SUBSET D, t # {}
        PROVE  j[t] = Console!Insert(j[t \ {Max(t)}], s[Max(t)],
                                     Later(j[t \ {Max(t)}], s[Max(t)]))
    <3>1. Max(t) \in t /\ j[t] = G[<<j[t \ {Max(t)}], s[Max(t)]>>]
      BY <2>1, <2>2 DEF Folding
    <3>2. s[Max(t)] \in E /\ j[t \ {Max(t)}] \in Seq(E)
      BY <1>3, <2>1, <3>1
    <3> QED
      BY ONLY <1>2, <3>1, <3>2
  <2>3. j = [t \in SUBSET D |-> j[t]] /\ j[{}] = <<>>
    BY <2>1 DEF Folding
  <2>4. F(j) = [t \in SUBSET D |-> j[t]]
    BY <2>2, <2>3
  <2> QED
    BY <2>3, <2>4
<1>5. i = F(i)
  <2> HIDE DEF F
  <2> QED
    BY <1>4
<1> HIDE DEF i
<1>6. Computes(i, G, Seq(E), <<>>, s)
  <2>1. ASSUME NEW t \in SUBSET D,
               t # {} /\ Max(t) \in t /\ i[t \ {Max(t)}] \in Seq(E)
        PROVE  i[t] = G[<<i[t \ {Max(t)}], s[Max(t)]>>]
    <3>1. i[t] = Console!Insert(i[t \ {Max(t)}], s[Max(t)],
                                Later(i[t \ {Max(t)}], s[Max(t)]))
      BY <1>5, <2>1
    <3>2. s[Max(t)] \in E
      BY <1>3, <2>1
    <3> QED
      BY ONLY <1>2, <2>1, <3>1, <3>2
  <2>2. i[{}] = <<>>
    BY <1>5
  <2> QED
    BY <2>1, <2>2 DEF Computes
<1> DEFINE c == [k \in 0..Len(s) |-> i[1..k]]
<1>7. Run(c, G, <<>>, s)
  BY <1>3, <1>6, FoldRuns
<1>8. c[Len(s)] = i[D]
  BY <1>3
<1> QED
  BY <1>1, <1>7, <1>8 DEF G

Lower(s, x) == {n \in DOMAIN s : s[n].totalMs < x.totalMs}
Ranking(E) == [p \in Seq(E) \X E |-> Console!Insert(p[1], p[2], Lower(p[1], p[2]))]

LEMMA RankRun ==
  ASSUME NEW E, NEW s \in Seq(E)
  PROVE  \E c : Run(c, Ranking(E), <<>>, s) /\ Console!TopWindows(s) = c[Len(s)]
<1> DEFINE G == Ranking(E)
           D == DOMAIN s
           F(j) == [t \in SUBSET D |->
                      IF t = {} THEN <<>>
                      ELSE Console!Insert(j[t \ {Max(t)}], s[Max(t)],
                                          Lower(j[t \ {Max(t)}], s[Max(t)]))]
           i == CHOOSE j : j = F(j)
<1>1. Console!TopWindows(s) = i[D]
  BY DEF Console!TopWindows, Console!FoldLeft, Console!MapThenFoldSet, FoldLeft,
     MapThenFoldSet, Console!Max, Max, Lower
<1>2. \A a \in Seq(E), x \in E :
        /\ G[<<a, x>>] = Console!Insert(a, x, Lower(a, x))
        /\ G[<<a, x>>] \in Seq(E)
  <2> SUFFICES ASSUME NEW a \in Seq(E), NEW x \in E
               PROVE  /\ G[<<a, x>>] = Console!Insert(a, x, Lower(a, x))
                      /\ G[<<a, x>>] \in Seq(E)
    OBVIOUS
  <2>1. Lower(a, x) \in SUBSET DOMAIN a
    BY DEF Lower
  <2>2. Console!Insert(a, x, Lower(a, x)) \in Seq(E)
    BY <2>1, InsertInserts
  <2> QED
    BY <2>2 DEF Ranking
<1>3. <<>> \in Seq(E) /\ Operates(G, <<>>, Seq(E), E) /\ s \in Seq(E)
  BY <1>2, EmptySeq DEF Operates
<1> HIDE DEF G
<1>4. \E j : j = F(j)
  <2>1. PICK j : /\ Folding(j, G, <<>>, s, D)
                 /\ \A t \in SUBSET D : j[t] \in Seq(E)
    BY <1>3, FoldExists
  <2>2. ASSUME NEW t \in SUBSET D, t # {}
        PROVE  j[t] = Console!Insert(j[t \ {Max(t)}], s[Max(t)],
                                     Lower(j[t \ {Max(t)}], s[Max(t)]))
    <3>1. Max(t) \in t /\ j[t] = G[<<j[t \ {Max(t)}], s[Max(t)]>>]
      BY <2>1, <2>2 DEF Folding
    <3>2. s[Max(t)] \in E /\ j[t \ {Max(t)}] \in Seq(E)
      BY <1>3, <2>1, <3>1
    <3> QED
      BY ONLY <1>2, <3>1, <3>2
  <2>3. j = [t \in SUBSET D |-> j[t]] /\ j[{}] = <<>>
    BY <2>1 DEF Folding
  <2>4. F(j) = [t \in SUBSET D |-> j[t]]
    BY <2>2, <2>3
  <2> QED
    BY <2>3, <2>4
<1>5. i = F(i)
  <2> HIDE DEF F
  <2> QED
    BY <1>4
<1> HIDE DEF i
<1>6. Computes(i, G, Seq(E), <<>>, s)
  <2>1. ASSUME NEW t \in SUBSET D,
               t # {} /\ Max(t) \in t /\ i[t \ {Max(t)}] \in Seq(E)
        PROVE  i[t] = G[<<i[t \ {Max(t)}], s[Max(t)]>>]
    <3>1. i[t] = Console!Insert(i[t \ {Max(t)}], s[Max(t)],
                                Lower(i[t \ {Max(t)}], s[Max(t)]))
      BY <1>5, <2>1
    <3>2. s[Max(t)] \in E
      BY <1>3, <2>1
    <3> QED
      BY ONLY <1>2, <2>1, <3>1, <3>2
  <2>2. i[{}] = <<>>
    BY <1>5
  <2> QED
    BY <2>1, <2>2 DEF Computes
<1> DEFINE c == [k \in 0..Len(s) |-> i[1..k]]
<1>7. Run(c, G, <<>>, s)
  BY <1>3, <1>6, FoldRuns
<1>8. c[Len(s)] = i[D]
  BY <1>3
<1> QED
  BY <1>1, <1>7, <1>8 DEF G

-----------------------------------------------------------------------------
\* What parsing and sorting keep

\* Torn lines are gone.
LEMMA ParsedTyped ==
  ASSUME NEW L, NEW s \in Seq(L)
  PROVE  Console!Parsed(s) \in Seq(L \ {Torn})
<1>1. PICK c : Run(c, Parsing(L), <<>>, s) /\ Console!Parsed(s) = c[Len(s)]
  BY ParsedRun
<1>2. Operates(Parsing(L), <<>>, Seq(L \ {Torn}), L)
  BY AppendProperties, EmptySeq DEF Operates, Parsing
<1>3. \A k \in 0..Len(s) : c[k] \in Seq(L \ {Torn})
  BY <1>1, <1>2, RunStays
<1>4. Len(s) \in 0..Len(s)
  OBVIOUS
<1> QED
  BY <1>1, <1>3, <1>4

\* The elements of s, inserted one by one, and their sums.
Insertions(c, s, E) ==
  /\ c[0] = <<>>
  /\ \A k \in 1..Len(s) : /\ c[k - 1] \in Seq(E)
                          /\ \E later \in SUBSET DOMAIN c[k - 1] :
                               c[k] = Console!Insert(c[k - 1], s[k], later)

\* Inserting elements one by one keeps their sum.
LEMMA InsertionsSum ==
  ASSUME NEW E, NEW s \in Seq(E), NEW c, Insertions(c, s, E),
         NEW field, HaveCount(field, E)
  PROVE  Sum(field, c[Len(s)]) = Sum(field, s)
<1>1. PICK d : Run(d, Adding(field, E), 0, s) /\ Sum(field, s) = d[Len(s)]
  BY SumRuns
<1> DEFINE T == {k \in Nat : k <= Len(s) => Sum(field, c[k]) = d[k]}
<1>2. 0 \in T
  BY <1>1, SumEmpty DEF Run, Insertions
<1>3. ASSUME NEW k \in T
      PROVE  k + 1 \in T
  <2> SUFFICES ASSUME k + 1 <= Len(s)
               PROVE  Sum(field, c[k + 1]) = d[k + 1]
    OBVIOUS
  <2>1. k \in Nat /\ k + 1 \in 1..Len(s) /\ (k + 1) - 1 = k /\ s[k + 1] \in E
    OBVIOUS
  <2>2. Sum(field, c[k]) = d[k]
    BY <2>1
  <2> HIDE DEF T
  <2>3. c[k] \in Seq(E)
    BY <2>1 DEF Insertions
  <2>4. PICK later \in SUBSET DOMAIN c[k] : c[k + 1] = Console!Insert(c[k], s[k + 1], later)
    BY <2>1 DEF Insertions
  <2>5. Sum(field, c[k + 1]) = Sum(field, c[k]) + Console!Finite(s[k + 1][field])
    BY <2>1, <2>3, <2>4, InsertInserts
  <2>6. d[k + 1] = d[k] + Console!Finite(s[k + 1][field])
    BY <1>1, <2>1, SumSteps
  <2> QED
    BY <2>2, <2>5, <2>6
<1> HIDE DEF T
<1>4. T = Nat
  BY <1>2, <1>3, Induction DEF T
<1>5. Len(s) \in T
  BY <1>4
<1> QED
  BY <1>1, <1>5 DEF T

TimesOf(E) == \A e \in E : e.ts \in Int

Sorted(s) == \A i, j \in DOMAIN s : i < j => s[i].ts <= s[j].ts

\* A sample inserted before the first that is later keeps the order of times.
LEMMA InsertSorts ==
  ASSUME NEW E, TimesOf(E), NEW s \in Seq(E), NEW x \in E, Sorted(s)
  PROVE  Sorted(Console!Insert(s, x, Later(s, x)))
<1> DEFINE t == Console!Insert(s, x, Later(s, x))
<1>1. Later(s, x) \in SUBSET DOMAIN s
  BY DEF Later
<1>2. /\ t \in Seq(E)
      /\ \E n \in Later(s, x) \cup {Len(s) + 1} : /\ Inserted(t, s, n, x)
                                                  /\ \A m \in Later(s, x) : n <= m
  <2>1. s \in Seq(E) /\ x \in E /\ t = Console!Insert(s, x, Later(s, x))
    OBVIOUS
  <2> HIDE DEF t
  <2> QED
    BY ONLY <1>1, <2>1, InsertInserts
<1>3. PICK n \in Later(s, x) \cup {Len(s) + 1} : /\ Inserted(t, s, n, x)
                                                 /\ \A m \in Later(s, x) : n <= m
  BY <1>2
<1> HIDE DEF t
<1>4. Len(s) \in Nat /\ DOMAIN s = 1..Len(s) /\ n \in 1..(Len(s) + 1) /\ DOMAIN t = 1..(Len(s) + 1)
  BY <1>2, <1>3 DEF Inserted
<1>5. x.ts \in Int /\ \A i \in 1..Len(s) : s[i].ts \in Int
  BY <1>4 DEF TimesOf
<1>6. \A i \in 1..(n - 1) : s[i].ts <= x.ts
  <2> TAKE i \in 1..(n - 1)
  <2>1. i \in DOMAIN s /\ i < n
    BY <1>4
  <2>2. i \notin Later(s, x)
    BY <1>3, <1>4, <2>1
  <2> QED
    BY <1>4, <1>5, <2>1, <2>2 DEF Later
<1>7. \A i \in n..Len(s) : x.ts <= s[i].ts
  <2> TAKE i \in n..Len(s)
  <2>1. n \in Later(s, x) /\ n \in DOMAIN s /\ i \in DOMAIN s /\ n <= i
    BY <1>3, <1>4
  <2>2. x.ts < s[n].ts
    BY <1>4, <1>5, <2>1 DEF Later
  <2>3. s[n].ts <= s[i].ts
    BY <1>4, <1>5, <2>1 DEF Sorted
  <2> QED
    BY <1>4, <1>5, <2>1, <2>2, <2>3
<1>8. SUFFICES ASSUME NEW i \in 1..(Len(s) + 1), NEW j \in 1..(Len(s) + 1), i < j
               PROVE  t[i].ts <= t[j].ts
  BY <1>4 DEF Sorted, t
<1>9. /\ i < n => i \in 1..(n - 1) /\ i \in 1..Len(s) /\ t[i] = s[i]
      /\ j < n => j \in 1..(n - 1) /\ j \in 1..Len(s) /\ t[j] = s[j]
      /\ t[n] = x
      /\ i > n => i - 1 \in n..Len(s) /\ i - 1 \in 1..Len(s) /\ t[i] = s[i - 1]
      /\ j > n => j - 1 \in n..Len(s) /\ j - 1 \in 1..Len(s) /\ t[j] = s[j - 1]
  <2>1. \A k \in n..Len(s) : t[k + 1] = s[k]
    BY <1>3 DEF Inserted
  <2>2. \A k \in 1..(n - 1) : t[k] = s[k]
    BY <1>3 DEF Inserted
  <2>3. i > n => i - 1 \in n..Len(s) /\ (i - 1) + 1 = i
    BY <1>4
  <2>4. j > n => j - 1 \in n..Len(s) /\ (j - 1) + 1 = j
    BY <1>4
  <2>5. t[n] = x
    BY <1>3 DEF Inserted
  <2>6. /\ i > n => t[i] = s[i - 1] /\ i - 1 \in 1..Len(s)
        /\ j > n => t[j] = s[j - 1] /\ j - 1 \in 1..Len(s)
    BY <1>4, <2>1, <2>3, <2>4
  <2>7. /\ i < n => i \in 1..(n - 1) /\ i \in 1..Len(s) /\ t[i] = s[i]
        /\ j < n => j \in 1..(n - 1) /\ j \in 1..Len(s) /\ t[j] = s[j]
    BY <1>4, <2>2
  <2> QED
    BY <2>3, <2>4, <2>5, <2>6, <2>7
<1> HIDE DEF Later
<1>10. CASE j < n
  <2>1. i < n
    BY <1>4, <1>8, <1>10
  <2>2. t[i] = s[i] /\ t[j] = s[j] /\ i \in DOMAIN s /\ j \in DOMAIN s
    BY <1>4, <1>9, <1>10, <2>1
  <2>3. s[i].ts <= s[j].ts
    BY <1>8, <2>2 DEF Sorted
  <2> QED
    BY <2>2, <2>3
<1>11. CASE j = n
  <2>1. i < n
    BY <1>4, <1>8, <1>11
  <2>2. t[i] = s[i] /\ t[j] = x /\ i \in 1..(n - 1)
    BY <1>9, <1>11, <2>1
  <2>3. s[i].ts <= x.ts
    BY <1>6, <2>2
  <2> QED
    BY <2>2, <2>3
<1>12. CASE i = n
  <2>1. j > n
    BY <1>4, <1>8, <1>12
  <2>2. t[j] = s[j - 1] /\ t[i] = x /\ j - 1 \in n..Len(s)
    BY <1>9, <1>12, <2>1
  <2>3. x.ts <= s[j - 1].ts
    BY <1>7, <2>2
  <2> QED
    BY <2>2, <2>3
<1>13. CASE i < n /\ n < j
  <2>1. t[i] = s[i] /\ t[j] = s[j - 1] /\ i \in 1..(n - 1) /\ j - 1 \in n..Len(s)
    BY <1>4, <1>9, <1>13
  <2>2. s[i].ts <= x.ts
    BY <1>6, <2>1
  <2>3. x.ts <= s[j - 1].ts
    BY <1>7, <2>1
  <2>4. s[i].ts \in Int /\ s[j - 1].ts \in Int
    BY <1>4, <1>5, <2>1
  <2>5. s[i].ts <= s[j - 1].ts
    BY <1>5, <2>2, <2>3, <2>4
  <2> QED
    BY <2>1, <2>5
<1>14. CASE n < i
  <2>1. n < j
    BY <1>4, <1>8, <1>14
  <2>2. i - 1 \in DOMAIN s /\ j - 1 \in DOMAIN s /\ t[i] = s[i - 1] /\ t[j] = s[j - 1]
    BY <1>4, <1>9, <1>14, <2>1
  <2>3. i - 1 < j - 1
    BY <1>4, <1>8
  <2>4. s[i - 1].ts <= s[j - 1].ts
    BY <2>2, <2>3 DEF Sorted
  <2> QED
    BY <2>2, <2>4
<1> QED
  BY <1>4, <1>10, <1>11, <1>12, <1>13, <1>14

\* samples.sort: in the order of times, with the same counts.
LEMMA ByTimeSorts ==
  ASSUME NEW E, TimesOf(E), NEW s \in Seq(E)
  PROVE  /\ Console!ByTime(s) \in Seq(E)
         /\ Sorted(Console!ByTime(s))
         /\ \A field : HaveCount(field, E) => Sum(field, Console!ByTime(s)) = Sum(field, s)
<1>1. PICK c : Run(c, Sorting(E), <<>>, s) /\ Console!ByTime(s) = c[Len(s)]
  BY SortRun
<1> DEFINE A == {a \in Seq(E) : Sorted(a)}
<1>2. \A a \in Seq(E), x \in E : /\ Later(a, x) \in SUBSET DOMAIN a
                                 /\ Sorting(E)[<<a, x>>] = Console!Insert(a, x, Later(a, x))
  BY DEF Sorting, Later
<1>3. Operates(Sorting(E), <<>>, A, E)
  <2>1. <<>> \in A
    BY EmptySeq DEF Sorted
  <2>2. ASSUME NEW a \in A, NEW x \in E
        PROVE  Sorting(E)[<<a, x>>] \in A
    <3>1. a \in Seq(E) /\ Sorted(a)
      OBVIOUS
    <3>2. Sorted(Console!Insert(a, x, Later(a, x)))
      BY <3>1, InsertSorts
    <3>3. Console!Insert(a, x, Later(a, x)) \in Seq(E)
      BY <1>2, <3>1, InsertInserts
    <3> QED
      BY <1>2, <3>1, <3>2, <3>3
  <2> QED
    BY <2>1, <2>2 DEF Operates
<1>4. \A k \in 0..Len(s) : c[k] \in A
  BY <1>1, <1>3, RunStays
<1>5. Len(s) \in 0..Len(s) /\ \A k \in 1..Len(s) : k - 1 \in 0..Len(s) /\ s[k] \in E
  OBVIOUS
<1>6. Insertions(c, s, E)
  <2>1. c[0] = <<>>
    BY <1>1 DEF Run
  <2>2. ASSUME NEW k \in 1..Len(s)
        PROVE  /\ c[k - 1] \in Seq(E)
               /\ \E later \in SUBSET DOMAIN c[k - 1] :
                    c[k] = Console!Insert(c[k - 1], s[k], later)
    <3>1. c[k - 1] \in Seq(E) /\ s[k] \in E
      BY <1>4, <1>5
    <3>2. c[k] = Sorting(E)[<<c[k - 1], s[k]>>]
      BY <1>1 DEF Run
    <3> QED
      BY <1>2, <3>1, <3>2
  <2> QED
    BY <2>1, <2>2 DEF Insertions
<1>7. \A field : HaveCount(field, E) => Sum(field, c[Len(s)]) = Sum(field, s)
  BY <1>6, InsertionsSum
<1> QED
  BY <1>1, <1>4, <1>5, <1>7

\* The ranking of windows keeps their total.
LEMMA TopWindowsKeep ==
  ASSUME NEW E, NEW s \in Seq(E), NEW field, HaveCount(field, E)
  PROVE  Sum(field, Console!TopWindows(s)) = Sum(field, s)
<1>1. PICK c : Run(c, Ranking(E), <<>>, s) /\ Console!TopWindows(s) = c[Len(s)]
  BY RankRun
<1>2. \A a \in Seq(E), x \in E : /\ Lower(a, x) \in SUBSET DOMAIN a
                                 /\ Ranking(E)[<<a, x>>] = Console!Insert(a, x, Lower(a, x))
  BY DEF Ranking, Lower
<1>3. Operates(Ranking(E), <<>>, Seq(E), E)
  BY <1>2, InsertInserts, EmptySeq DEF Operates
<1>4. \A k \in 0..Len(s) : c[k] \in Seq(E)
  BY <1>1, <1>3, RunStays
<1>5. \A k \in 1..Len(s) : k - 1 \in 0..Len(s) /\ s[k] \in E
  OBVIOUS
<1>6. Insertions(c, s, E)
  <2>1. c[0] = <<>>
    BY <1>1 DEF Run
  <2>2. ASSUME NEW k \in 1..Len(s)
        PROVE  /\ c[k - 1] \in Seq(E)
               /\ \E later \in SUBSET DOMAIN c[k - 1] :
                    c[k] = Console!Insert(c[k - 1], s[k], later)
    <3>1. c[k - 1] \in Seq(E) /\ s[k] \in E
      BY <1>4, <1>5
    <3>2. c[k] = Ranking(E)[<<c[k - 1], s[k]>>]
      BY <1>1 DEF Run
    <3> QED
      BY <1>2, <3>1, <3>2
  <2> QED
    BY <2>1, <2>2 DEF Insertions
<1> QED
  BY <1>1, <1>6, InsertionsSum

LEMMA ParseSamplesKeeps ==
  ASSUME NEW E, TimesOf(E), NEW text \in Seq(E \cup {Torn})
  PROVE  Console!parseSamples(text) \in Seq(E)
<1>1. Console!Parsed(text) \in Seq((E \cup {Torn}) \ {Torn})
  BY ParsedTyped
<1>2. (E \cup {Torn}) \ {Torn} \subseteq E
  OBVIOUS
<1>3. Console!Parsed(text) \in Seq(E)
  BY <1>1, <1>2, SeqMonotonic
<1> QED
  BY <1>3, ByTimeSorts DEF Console!parseSamples

-----------------------------------------------------------------------------
\* What one turn of the timeline's loop does

\* Samples as an agent of any age stores them.  Who has typed a hotkey has
\* pressed a key.
Stored == {x \in [ts : 0..MaxTime, window : Window \cup {NoWindow},
                  keys : Nat \cup {Missing}, clicks : Nat \cup {Missing},
                  hotkeys : Seq(Combo)] :
             x.hotkeys # <<>> => Console!Finite(x.keys) > 0}

BucketSet(s, count) ==
  [startMs : {Console!Round((b - 1) * Console!Duration(s), count) : b \in 1..count},
   endMs : {Console!Round(b * Console!Duration(s), count) : b \in 1..count},
   keys : Nat, clicks : Nat, window : Window \cup {NoWindow}]

FocusSet == [window : Window, startMs : Nat, endMs : Nat]
TotalSet == [window : Window, totalMs : Nat]

\* The loop's variables.
Drawing(s, count) ==
  {d \in [buckets : Seq(BucketSet(s, count)), focus : Seq(FocusSet), totals : Seq(TotalSet),
          measured : BOOLEAN] :
     Len(d.buckets) = count}

\* The fields the sums are about are numbers, or read as such.
LEMMA StoredCounts ==
  /\ TimesOf(Stored)
  /\ \A x \in Stored : /\ x.ts \in Nat /\ x.window \in Window \cup {NoWindow}
                       /\ Console!Finite(x.keys) \in Nat /\ Console!Finite(x.clicks) \in Nat
  /\ \A field \in {"keys", "clicks"} : /\ HaveCount(field, Stored)
                                       /\ \A s, count : HaveCount(field, BucketSet(s, count))
  /\ HaveCount("totalMs", TotalSet)
<1>1. \A n \in Nat : Console!Finite(n) = n
  BY MissingAssumption DEF Console!Finite
<1>2. \A n \in Nat \cup {Missing} : Console!Finite(n) \in Nat
  BY DEF Console!Finite
<1>3. \A x \in Stored : /\ x.ts \in 0..MaxTime /\ x.window \in Window \cup {NoWindow}
                        /\ x["keys"] \in Nat \cup {Missing}
                        /\ x["clicks"] \in Nat \cup {Missing}
  BY DEF Stored
<1>4. \A s, count : \A b \in BucketSet(s, count) : b["keys"] \in Nat /\ b["clicks"] \in Nat
  BY DEF BucketSet
<1>5. \A w \in TotalSet : w["totalMs"] \in Nat
  BY DEF TotalSet
<1>6. \A x \in Stored : x.ts \in Nat
  BY <1>3, BoundsAssumption
<1>7. HaveCount("totalMs", TotalSet)
  BY <1>1, <1>5 DEF HaveCount
<1>8. ASSUME NEW field \in {"keys", "clicks"}
      PROVE  HaveCount(field, Stored) /\ \A s, count : HaveCount(field, BucketSet(s, count))
  BY <1>1, <1>2, <1>3, <1>4 DEF HaveCount
<1>9. \A x \in Stored : /\ x.ts \in Nat /\ x.window \in Window \cup {NoWindow}
                        /\ Console!Finite(x.keys) \in Nat /\ Console!Finite(x.clicks) \in Nat
  BY <1>2, <1>3, <1>6
<1>10. TimesOf(Stored)
  BY <1>6 DEF TimesOf
<1> QED
  BY ONLY <1>7, <1>8, <1>9, <1>10

LEMMA MaxOfTwo ==
  ASSUME NEW a \in Int, NEW b \in Int
  PROVE  Console!Max({a, b}) = IF a <= b THEN b ELSE a
BY DEF Console!Max

LEMMA MinOfTwo ==
  ASSUME NEW a \in Int, NEW b \in Int
  PROVE  Console!Min({a, b}) = IF a <= b THEN a ELSE b
BY DEF Console!Min

\* In sorted samples, offsets grow from 0 and stay within the duration.
LEMMA Offsets ==
  ASSUME NEW s \in Seq(Stored), Sorted(s), s # <<>>
  PROVE  /\ Console!Duration(s) \in Nat \ {0}
         /\ \A i \in 1..Len(s) : Console!Offset(s, i) \in Nat
         /\ \A i, j \in 1..Len(s) : i <= j => Console!Offset(s, i) <= Console!Offset(s, j)
         /\ \A i \in 2..Len(s) : /\ i \in 1..Len(s) /\ i - 1 \in 1..Len(s)
                                 /\ s[i].ts - s[i - 1].ts \in Nat
                                 /\ Console!Offset(s, i)
                                      = Console!Offset(s, i - 1) + (s[i].ts - s[i - 1].ts)
         /\ \A i \in 1..Len(s) : Console!Offset(s, i) <= Console!Duration(s)
<1>1. Len(s) \in Nat \ {0} /\ DOMAIN s = 1..Len(s) /\ 1 \in 1..Len(s) /\ Len(s) \in 1..Len(s)
  BY EmptySeq
<1>2. \A i \in 1..Len(s) : s[i].ts \in Nat
  BY <1>1, StoredCounts
<1>3. \A i, j \in 1..Len(s) : i <= j => s[i].ts <= s[j].ts
  <2> TAKE i, j \in 1..Len(s)
  <2> HAVE i <= j
  <2>1. CASE i = j
    BY <1>2, <2>1
  <2>2. CASE i # j
    BY <1>1, <2>2 DEF Sorted
  <2> QED
    BY <2>1, <2>2
<1>4. \A i \in 1..Len(s) : Console!Offset(s, i) = s[i].ts - s[1].ts
  BY DEF Console!Offset
<1>5. \A i \in 1..Len(s) : s[1].ts <= s[i].ts /\ s[i].ts <= s[Len(s)].ts
  BY <1>1, <1>3
<1>6. \A i \in 1..Len(s) : Console!Offset(s, i) \in Nat
  BY <1>1, <1>2, <1>4, <1>5
<1>7. \A i, j \in 1..Len(s) : i <= j => Console!Offset(s, i) <= Console!Offset(s, j)
  BY <1>1, <1>2, <1>3, <1>4
<1>8. \A i \in 2..Len(s) : /\ i \in 1..Len(s) /\ i - 1 \in 1..Len(s)
                           /\ s[i].ts - s[i - 1].ts \in Nat
                           /\ Console!Offset(s, i)
                                = Console!Offset(s, i - 1) + (s[i].ts - s[i - 1].ts)
  <2> TAKE i \in 2..Len(s)
  <2>1. i \in 1..Len(s) /\ i - 1 \in 1..Len(s) /\ i - 1 <= i
    BY <1>1
  <2>2. s[i].ts \in Nat /\ s[i - 1].ts \in Nat /\ s[1].ts \in Nat /\ s[i - 1].ts <= s[i].ts
    BY <1>1, <1>2, <1>3, <2>1
  <2>3. /\ Console!Offset(s, i) = s[i].ts - s[1].ts
        /\ Console!Offset(s, i - 1) = s[i - 1].ts - s[1].ts
    BY <1>4, <2>1
  <2> QED
    BY <2>1, <2>2, <2>3
<1> DEFINE last == s[Len(s)].ts - s[1].ts
<1>9. last \in Nat
  BY <1>1, <1>2, <1>5
<1>10. Console!Duration(s) = IF 1 <= last THEN last ELSE 1
  <2>1. Console!Duration(s) = Console!Max({1, last})
    BY DEF Console!Duration
  <2> HIDE DEF last
  <2> QED
    BY <1>9, <2>1, MaxOfTwo
<1>11. Console!Duration(s) \in Nat \ {0} /\ last <= Console!Duration(s)
  <2> HIDE DEF last
  <2> QED
    BY <1>9, <1>10
<1>12. \A i \in 1..Len(s) : Console!Offset(s, i) <= Console!Duration(s)
  <2> TAKE i \in 1..Len(s)
  <2>1. Console!Offset(s, Len(s)) = last /\ i <= Len(s)
    BY <1>1, <1>4
  <2>2. Console!Offset(s, i) <= Console!Offset(s, Len(s))
    BY <1>1, <1>7, <2>1
  <2> HIDE DEF last
  <2> QED
    BY <1>1, <1>6, <1>9, <1>11, <2>1, <2>2
<1> QED
  BY <1>6, <1>7, <1>8, <1>11, <1>12

\* The slot of a sample is a bucket there is.
LEMMA Slots ==
  ASSUME NEW s \in Seq(Stored), Sorted(s), s # <<>>, NEW count \in Nat \ {0},
         NEW i \in 1..Len(s)
  PROVE  Console!Slot(s, count, i) + 1 \in 1..count
<1> DEFINE offset == Console!Offset(s, i)
           duration == Console!Duration(s)
           q == (offset * count) \div duration
<1>1. offset \in Nat /\ duration \in Nat \ {0}
  BY Offsets
<1>2. Console!Slot(s, count, i) = Console!Min({count - 1, q})
  BY DEF Console!Slot
<1> HIDE DEF offset, duration
<1>3. offset * count \in Nat
  BY <1>1
<1>4. q \in Nat
  BY <1>1, <1>3
<1> HIDE DEF q
<1>5. Console!Min({count - 1, q}) = IF count - 1 <= q THEN count - 1 ELSE q
  BY <1>4, MinOfTwo
<1> QED
  BY <1>2, <1>4, <1>5

Fill(b, n, x) == [b EXCEPT ![n] = Console!Filled(@, x)]

\* A sample adds its counts to one bucket, once.
LEMMA Fills ==
  ASSUME NEW s, NEW count, NEW b \in Seq(BucketSet(s, count)), NEW n \in 1..Len(b),
         NEW x \in Stored
  PROVE  /\ Fill(b, n, x) \in Seq(BucketSet(s, count)) /\ Len(Fill(b, n, x)) = Len(b)
         /\ Sum("keys", b) \in Nat
         /\ Sum("keys", Fill(b, n, x)) = Sum("keys", b) + Console!Finite(x.keys)
         /\ Sum("clicks", b) \in Nat
         /\ Sum("clicks", Fill(b, n, x)) = Sum("clicks", b) + Console!Finite(x.clicks)
<1> DEFINE B == BucketSet(s, count)
           t == Fill(b, n, x)
           new == Console!Filled(b[n], x)
<1>1. b[n] \in B
  OBVIOUS
<1>2. /\ x.window \in Window \cup {NoWindow}
      /\ Console!Finite(x.keys) \in Nat /\ Console!Finite(x.clicks) \in Nat
  BY StoredCounts
<1>3. /\ new \in B
      /\ new.keys = b[n].keys + Console!Finite(x.keys)
      /\ new.clicks = b[n].clicks + Console!Finite(x.clicks)
      /\ b[n].keys \in Nat /\ b[n].clicks \in Nat
  <2> DEFINE w == IF b[n].window = NoWindow THEN x.window ELSE b[n].window
  <2>1. /\ b[n].keys \in Nat /\ b[n].clicks \in Nat /\ b[n].window \in Window \cup {NoWindow}
        /\ b[n] = [startMs |-> b[n].startMs, endMs |-> b[n].endMs, keys |-> b[n].keys,
                   clicks |-> b[n].clicks, window |-> b[n].window]
    BY <1>1 DEF BucketSet
  <2>2. new = [b[n] EXCEPT !.keys = b[n].keys + Console!Finite(x.keys),
                           !.clicks = b[n].clicks + Console!Finite(x.clicks),
                           !.window = w]
    BY <2>1 DEF Console!Filled
  <2>3. w \in Window \cup {NoWindow}
    BY <1>2, <2>1
  <2>4. /\ b[n].keys + Console!Finite(x.keys) \in Nat
        /\ b[n].clicks + Console!Finite(x.clicks) \in Nat
    BY <1>2, <2>1
  <2> HIDE DEF new, w
  <2>5. new \in B
    BY <1>1, <2>2, <2>3, <2>4 DEF BucketSet
  <2>6. /\ new.keys = b[n].keys + Console!Finite(x.keys)
        /\ new.clicks = b[n].clicks + Console!Finite(x.clicks)
    BY <2>1, <2>2
  <2> QED
    BY <2>1, <2>5, <2>6
<1>4. t = [b EXCEPT ![n] = new]
  BY DEF Fill
<1> HIDE DEF B, t, new
<1>5. t \in Seq(B) /\ Len(t) = Len(b) /\ \A j \in 1..Len(b) : t[j] = IF j = n THEN new ELSE b[j]
  BY <1>3, <1>4, ExceptSeq DEF B
<1>6. ASSUME NEW field \in {"keys", "clicks"}
      PROVE  /\ Sum(field, b) \in Nat /\ Sum(field, t) \in Nat
             /\ Sum(field, t) + b[n][field] = Sum(field, b) + new[field]
  <2>1. HaveCount(field, B)
    BY StoredCounts DEF B
  <2>2. /\ Sum(field, b) \in Nat /\ Sum(field, t) \in Nat
        /\ Sum(field, t) + Console!Finite(b[n][field])
             = Sum(field, b) + Console!Finite(t[n][field])
    BY <1>5, <2>1, SumUpdate DEF B
  <2>3. t[n] = new /\ b[n][field] \in Nat /\ new[field] \in Nat
    BY <1>2, <1>3, <1>5
  <2>4. Console!Finite(b[n][field]) = b[n][field] /\ Console!Finite(new[field]) = new[field]
    BY <2>3, MissingAssumption DEF Console!Finite
  <2> QED
    BY <2>2, <2>3, <2>4
<1>7. /\ Sum("keys", b) \in Nat /\ Sum("keys", t) \in Nat
      /\ Sum("keys", t) + b[n].keys = Sum("keys", b) + new.keys
  BY <1>6
<1>8. /\ Sum("clicks", b) \in Nat /\ Sum("clicks", t) \in Nat
      /\ Sum("clicks", t) + b[n].clicks = Sum("clicks", b) + new.clicks
  BY <1>6
<1>9. \A u, v, m, k, f : /\ u \in Nat /\ v \in Nat /\ m \in Nat /\ f \in Nat
                         /\ u + m = v + k /\ k = m + f
                         => u = v + f
  OBVIOUS
<1>10. Sum("keys", t) = Sum("keys", b) + Console!Finite(x.keys)
  BY ONLY <1>2, <1>3, <1>7, <1>9
<1>11. Sum("clicks", t) = Sum("clicks", b) + Console!Finite(x.clicks)
  BY ONLY <1>2, <1>3, <1>8, <1>9
<1> QED
  BY <1>5, <1>7, <1>8, <1>10, <1>11 DEF B, t

\* The time a window was held is added to one entry, once.
LEMMA Holds ==
  ASSUME NEW w \in Seq(TotalSet), NEW window \in Window, NEW ms \in Nat
  PROVE  /\ Console!Held(w, window, ms) \in Seq(TotalSet)
         /\ Sum("totalMs", w) \in Nat
         /\ Sum("totalMs", Console!Held(w, window, ms)) = Sum("totalMs", w) + ms
<1> DEFINE entries == {n \in DOMAIN w : w[n].window = window}
           new == [window |-> window, totalMs |-> ms]
<1>1. HaveCount("totalMs", TotalSet) /\ \A n \in Nat : Console!Finite(n) = n
  BY StoredCounts, MissingAssumption DEF Console!Finite
<1>2. CASE entries = {}
  <2>1. Console!Held(w, window, ms) = Append(w, new)
    BY <1>2 DEF Console!Held
  <2>2. new \in TotalSet /\ new["totalMs"] = ms
    BY DEF TotalSet
  <2> HIDE DEF new
  <2>3. Append(w, new) \in Seq(TotalSet)
    BY <2>2, AppendProperties
  <2>4. /\ Sum("totalMs", w) \in Nat
        /\ Sum("totalMs", Append(w, new)) = Sum("totalMs", w) + Console!Finite(new["totalMs"])
    BY <1>1, <2>2, SumAppends
  <2> QED
    BY <1>1, <2>1, <2>2, <2>3, <2>4
<1>3. CASE entries # {}
  <2> DEFINE m == Console!Min(entries)
             e == [w[m] EXCEPT !.totalMs = @ + ms]
             t == [w EXCEPT ![m] = e]
  <2>1. entries \in SUBSET Nat
    OBVIOUS
  <2>2. m \in entries
    BY <1>3, <2>1, LeastIsMin
  <2>3. m \in 1..Len(w)
    BY <2>2
  <2>4. Console!Held(w, window, ms) = t
    BY <1>3 DEF Console!Held
  <2> HIDE DEF m, entries
  <2>5. w[m] \in TotalSet
    BY <2>3
  <2>6. e \in TotalSet /\ w[m].totalMs \in Nat /\ e.totalMs = w[m].totalMs + ms
    BY <2>5 DEF TotalSet
  <2> HIDE DEF e
  <2>7. /\ t \in Seq(TotalSet) /\ Len(t) = Len(w)
        /\ \A j \in 1..Len(w) : t[j] = IF j = m THEN e ELSE w[j]
    BY <2>3, <2>6, ExceptSeq
  <2> HIDE DEF t
  <2>8. /\ Sum("totalMs", w) \in Nat /\ Sum("totalMs", t) \in Nat
        /\ Sum("totalMs", t) + Console!Finite(w[m]["totalMs"])
             = Sum("totalMs", w) + Console!Finite(t[m]["totalMs"])
    BY <1>1, <2>3, <2>7, SumUpdate
  <2>9. t[m] = e
    BY <2>3, <2>7
  <2>10. Console!Finite(w[m].totalMs) = w[m].totalMs /\ Console!Finite(e.totalMs) = e.totalMs
    BY <1>1, <2>6
  <2> QED
    BY <2>4, <2>6, <2>7, <2>8, <2>9, <2>10
<1> QED
  BY <1>2, <1>3

LEMMA Focuses ==
  ASSUME NEW f \in Seq(FocusSet), NEW window \in Window, NEW offset \in Nat
  PROVE  Console!Focused(f, window, offset) \in Seq(FocusSet)
<1> DEFINE new == [window |-> window, startMs |-> offset, endMs |-> offset]
           m == Len(f)
<1>1. CASE f # <<>> /\ Console!Last(f).window = window
  <2> DEFINE e == [f[m] EXCEPT !.endMs = offset]
  <2>1. m \in 1..Len(f)
    BY <1>1, EmptySeq
  <2>2. e \in FocusSet
    <3>1. f[m] \in FocusSet
      BY <2>1
    <3> QED
      BY <3>1 DEF FocusSet
  <2>3. Console!Focused(f, window, offset) = [f EXCEPT ![m] = e]
    BY <1>1 DEF Console!Focused
  <2> HIDE DEF e
  <2> QED
    BY <2>1, <2>2, <2>3, ExceptSeq
<1>2. CASE ~(f # <<>> /\ Console!Last(f).window = window)
  <2>1. Console!Focused(f, window, offset) = Append(f, new)
    BY <1>2 DEF Console!Focused
  <2>2. new \in FocusSet
    BY DEF FocusSet
  <2> HIDE DEF new
  <2> QED
    BY <2>1, <2>2, AppendProperties
<1> QED
  BY <1>1, <1>2

-----------------------------------------------------------------------------
\* The loop over the samples is a run along their indices

\* One turn of the loop.
LEMMA Draws ==
  ASSUME NEW s \in Seq(Stored), Sorted(s), s # <<>>, NEW count \in Nat \ {0},
         NEW d \in Drawing(s, count), NEW i \in 1..Len(s)
  PROVE  LET e == Console!Drawn(s, count, d, i)
         IN  /\ e \in Drawing(s, count)
             /\ Sum("keys", e.buckets) = Sum("keys", d.buckets) + Console!Finite(s[i].keys)
             /\ Sum("clicks", e.buckets)
                  = Sum("clicks", d.buckets) + Console!Finite(s[i].clicks)
             /\ e.measured = (d.measured \/ Console!Measured(s[i]))
             /\ e.focus = IF s[i].window = NoWindow THEN d.focus
                          ELSE Console!Focused(d.focus, s[i].window, Console!Offset(s, i))
             /\ Sum("totalMs", d.totals) \in Nat
             /\ Sum("totalMs", e.totals)
                  \in {Sum("totalMs", d.totals),
                       Sum("totalMs", d.totals) + IF i = 1 THEN 0 ELSE s[i].ts - s[i - 1].ts}
<1> DEFINE x == s[i]
           n == Console!Slot(s, count, i) + 1
           offset == Console!Offset(s, i)
           b == [d.buckets EXCEPT ![n] = Console!Filled(@, x)]
           f == IF x.window = NoWindow THEN d.focus
                ELSE Console!Focused(d.focus, x.window, offset)
           w == IF x.window = NoWindow \/ i = 1 THEN d.totals
                ELSE Console!Held(d.totals, x.window, x.ts - s[i - 1].ts)
           m == d.measured \/ Console!Measured(x)
<1>1. Console!Drawn(s, count, d, i) = [buckets |-> b, focus |-> f, totals |-> w, measured |-> m]
  BY DEF Console!Drawn
<1>2. /\ d.buckets \in Seq(BucketSet(s, count)) /\ d.focus \in Seq(FocusSet)
      /\ d.totals \in Seq(TotalSet) /\ d.measured \in BOOLEAN /\ Len(d.buckets) = count
  BY DEF Drawing
<1>3. x \in Stored /\ x.window \in Window \cup {NoWindow}
  BY StoredCounts
<1>4. n \in 1..Len(d.buckets)
  BY <1>2, Slots
<1>5. offset \in Nat
  BY Offsets
<1> HIDE DEF n, x, offset
<1>6. /\ b \in Seq(BucketSet(s, count)) /\ Len(b) = count
      /\ Sum("keys", b) = Sum("keys", d.buckets) + Console!Finite(x.keys)
      /\ Sum("clicks", b) = Sum("clicks", d.buckets) + Console!Finite(x.clicks)
  <2> DEFINE old == d.buckets
  <2>1. old \in Seq(BucketSet(s, count)) /\ n \in 1..Len(old) /\ Len(old) = count
    BY <1>2, <1>4
  <2>2. b = Fill(old, n, x)
    BY DEF Fill
  <2> HIDE DEF old, b
  <2>3. /\ Fill(old, n, x) \in Seq(BucketSet(s, count)) /\ Len(Fill(old, n, x)) = Len(old)
        /\ Sum("keys", Fill(old, n, x)) = Sum("keys", old) + Console!Finite(x.keys)
        /\ Sum("clicks", Fill(old, n, x)) = Sum("clicks", old) + Console!Finite(x.clicks)
    BY <1>3, <2>1, Fills
  <2> QED
    BY <2>1, <2>2, <2>3 DEF old
<1>7. f \in Seq(FocusSet)
  BY <1>2, <1>3, <1>5, Focuses
<1>8. Sum("totalMs", d.totals) \in Nat
  <2>1. HaveCount("totalMs", TotalSet)
    BY StoredCounts
  <2>2. Sum("totalMs", <<>>) = 0
    BY SumEmpty
  <2> QED
    BY <1>2, <2>1, SumConcat
<1>9. /\ w \in Seq(TotalSet)
      /\ Sum("totalMs", w)
           \in {Sum("totalMs", d.totals),
                Sum("totalMs", d.totals) + IF i = 1 THEN 0 ELSE x.ts - s[i - 1].ts}
  <2>1. CASE x.window = NoWindow \/ i = 1
    BY <1>2, <2>1
  <2>2. CASE ~(x.window = NoWindow \/ i = 1)
    <3>1. i \in 2..Len(s)
      BY <2>2
    <3>2. x.ts - s[i - 1].ts \in Nat
      BY <3>1, Offsets DEF x
    <3>3. x.window \in Window
      BY <1>3, <2>2
    <3>4. w = Console!Held(d.totals, x.window, x.ts - s[i - 1].ts)
      BY <2>2
    <3> HIDE DEF w
    <3> QED
      BY <1>2, <2>2, <3>2, <3>3, <3>4, Holds
  <2> QED
    BY <2>1, <2>2
<1>10. m \in BOOLEAN
  BY <1>2 DEF Console!Measured
<1> DEFINE e == [buckets |-> b, focus |-> f, totals |-> w, measured |-> m]
<1> HIDE DEF b, f, w, m
<1>11. e \in Drawing(s, count)
  BY <1>6, <1>7, <1>9, <1>10 DEF Drawing
<1>12. e.buckets = b /\ e.focus = f /\ e.totals = w /\ e.measured = m
  OBVIOUS
<1> HIDE DEF e
<1>13. e = Console!Drawn(s, count, d, i)
  BY <1>1 DEF e
<1> QED
  BY <1>6, <1>8, <1>9, <1>11, <1>12, <1>13 DEF x, f, m, offset

LoopStart(s, count) ==
  [buckets |-> Console!Buckets(s, count), focus |-> <<>>, totals |-> <<>>, measured |-> FALSE]

\* Before the first sample nothing is counted.
LEMMA LoopStarts ==
  ASSUME NEW s \in Seq(Stored), Sorted(s), s # <<>>, NEW count \in Nat \ {0}
  PROVE  /\ LoopStart(s, count) \in Drawing(s, count)
         /\ Sum("keys", LoopStart(s, count).buckets) = 0
         /\ Sum("clicks", LoopStart(s, count).buckets) = 0
<1> DEFINE b == Console!Buckets(s, count)
           B == BucketSet(s, count)
<1>1. ASSUME NEW k \in 1..count
      PROVE  b[k] \in B /\ b[k]["keys"] = 0 /\ b[k]["clicks"] = 0
  <2>1. b[k] = [startMs |-> Console!Round((k - 1) * Console!Duration(s), count),
                endMs   |-> Console!Round(k * Console!Duration(s), count),
                keys |-> 0, clicks |-> 0, window |-> NoWindow]
    BY DEF Console!Buckets
  <2> DEFINE start == Console!Round((k - 1) * Console!Duration(s), count)
             end == Console!Round(k * Console!Duration(s), count)
  <2>2. /\ start \in {Console!Round((h - 1) * Console!Duration(s), count) : h \in 1..count}
        /\ end \in {Console!Round(h * Console!Duration(s), count) : h \in 1..count}
    OBVIOUS
  <2> HIDE DEF start, end
  <2> QED
    BY <2>1, <2>2 DEF BucketSet, start, end
<1>2. DOMAIN b = 1..count /\ b = [k \in 1..count |-> b[k]]
  BY DEF Console!Buckets
<1> HIDE DEF b, B
<1>3. b \in Seq(B) /\ Len(b) = count
  BY <1>1, <1>2, IsASeq
<1>4. Sum("keys", b) = 0 /\ Sum("clicks", b) = 0
  <2> DEFINE Empty == {r \in B : r["keys"] = 0 /\ r["clicks"] = 0}
  <2>1. b \in Seq(Empty)
    BY <1>1, <1>2, IsASeq
  <2>2. Console!Finite(0) = 0
    BY DEF Console!Finite
  <2>3. /\ \A r \in Empty : Console!Finite(r["keys"]) = 0
        /\ \A r \in Empty : Console!Finite(r["clicks"]) = 0
    BY <2>2
  <2> HIDE DEF Empty
  <2> QED
    BY <2>1, <2>3, SumZero
<1>5. LoopStart(s, count).buckets = b
  BY DEF LoopStart, b
<1>6. LoopStart(s, count) \in Drawing(s, count)
  <2>1. LoopStart(s, count) = [buckets |-> b, focus |-> <<>>, totals |-> <<>>, measured |-> FALSE]
    BY DEF LoopStart, b
  <2>2. <<>> \in Seq(FocusSet) /\ <<>> \in Seq(TotalSet)
    BY EmptySeq
  <2> QED
    BY <1>3, <2>1, <2>2 DEF Drawing, B
<1> QED
  BY <1>4, <1>5, <1>6

Indices(s) == [n \in DOMAIN s |-> n]

Turning(s, count) == [p \in Drawing(s, count) \X (1..Len(s)) |->
                        Console!Drawn(s, count, p[1], p[2])]

LEMMA LoopRun ==
  ASSUME NEW s \in Seq(Stored), Sorted(s), s # <<>>, NEW count \in Nat \ {0}
  PROVE  \E c : /\ Run(c, Turning(s, count), LoopStart(s, count), Indices(s))
                /\ Console!Loop(s, count) = c[Len(Indices(s))]
<1> DEFINE G == Turning(s, count)
           D == DOMAIN Indices(s)
           F(j) == [t \in SUBSET D |->
                      IF t = {} THEN LoopStart(s, count)
                      ELSE Console!Drawn(s, count, j[t \ {Max(t)}], Indices(s)[Max(t)])]
           i == CHOOSE j : j = F(j)
<1>1. Console!Loop(s, count) = i[D]
  BY DEF Console!Loop, LoopStart, Indices, Console!FoldLeftDomain, FoldLeftDomain,
     Console!FoldLeft, Console!MapThenFoldSet, FoldLeft, MapThenFoldSet,
     Console!Max, Max
<1>2. \A a \in Drawing(s, count), x \in 1..Len(s) :
        /\ G[<<a, x>>] = Console!Drawn(s, count, a, x)
        /\ G[<<a, x>>] \in Drawing(s, count)
  BY Draws DEF Turning
<1>3. /\ LoopStart(s, count) \in Drawing(s, count)
      /\ Operates(G, LoopStart(s, count), Drawing(s, count), 1..Len(s))
      /\ Indices(s) \in Seq(1..Len(s))
  BY <1>2, LoopStarts DEF Operates, Indices
<1> HIDE DEF G
<1>4. \E j : j = F(j)
  <2>1. PICK j : /\ Folding(j, G, LoopStart(s, count), Indices(s), D)
                 /\ \A t \in SUBSET D : j[t] \in Drawing(s, count)
    BY <1>3, FoldExists
  <2>2. ASSUME NEW t \in SUBSET D, t # {}
        PROVE  j[t] = Console!Drawn(s, count, j[t \ {Max(t)}], Indices(s)[Max(t)])
    <3>1. Max(t) \in t /\ j[t] = G[<<j[t \ {Max(t)}], Indices(s)[Max(t)]>>]
      BY <2>1, <2>2 DEF Folding
    <3>2. Indices(s)[Max(t)] \in 1..Len(s) /\ j[t \ {Max(t)}] \in Drawing(s, count)
      BY <1>3, <2>1, <3>1
    <3> QED
      BY ONLY <1>2, <3>1, <3>2
  <2>3. j = [t \in SUBSET D |-> j[t]] /\ j[{}] = LoopStart(s, count)
    BY <2>1 DEF Folding
  <2>4. F(j) = [t \in SUBSET D |-> j[t]]
    BY <2>2, <2>3
  <2> QED
    BY <2>3, <2>4
<1>5. i = F(i)
  <2> HIDE DEF F
  <2> QED
    BY <1>4
<1> HIDE DEF i
<1>6. Computes(i, G, Drawing(s, count), LoopStart(s, count), Indices(s))
  <2>1. ASSUME NEW t \in SUBSET D,
               t # {} /\ Max(t) \in t /\ i[t \ {Max(t)}] \in Drawing(s, count)
        PROVE  i[t] = G[<<i[t \ {Max(t)}], Indices(s)[Max(t)]>>]
    <3>1. i[t] = Console!Drawn(s, count, i[t \ {Max(t)}], Indices(s)[Max(t)])
      BY <1>5, <2>1
    <3>2. Indices(s)[Max(t)] \in 1..Len(s)
      BY <1>3, <2>1
    <3> QED
      BY ONLY <1>2, <2>1, <3>1, <3>2
  <2>2. i[{}] = LoopStart(s, count)
    BY <1>5
  <2> QED
    BY <2>1, <2>2 DEF Computes
<1> DEFINE c == [k \in 0..Len(Indices(s)) |-> i[1..k]]
<1>7. Run(c, G, LoopStart(s, count), Indices(s))
  BY <1>3, <1>6, FoldRuns
<1>8. c[Len(Indices(s))] = i[D]
  BY <1>3
<1> QED
  BY <1>1, <1>7, <1>8 DEF G

-----------------------------------------------------------------------------
\* The files of two hosts

Files(E) == Seq(E \cup {Torn}) \cup {Absent}

Merging(E) == [p \in Seq(E) \X Files(E) |->
                 IF p[2] = Absent THEN p[1] ELSE p[1] \o Console!parseSamples(p[2])]

LEMMA MergeRun ==
  ASSUME NEW E, TimesOf(E), NEW s \in Seq(Files(E))
  PROVE  \E c : Run(c, Merging(E), <<>>, s) /\ Console!Merged(s) = c[Len(s)]
<1> DEFINE G == Merging(E)
           D == DOMAIN s
           F(j) == [t \in SUBSET D |->
                      IF t = {} THEN <<>>
                      ELSE (IF s[Max(t)] = Absent THEN j[t \ {Max(t)}]
                            ELSE j[t \ {Max(t)}] \o Console!parseSamples(s[Max(t)]))]
           i == CHOOSE j : j = F(j)
<1>1. Console!Merged(s) = i[D]
  BY DEF Console!Merged, Console!FoldLeft, Console!MapThenFoldSet, FoldLeft,
     MapThenFoldSet, Console!Max, Max
<1>2. \A a \in Seq(E), x \in Files(E) :
        /\ G[<<a, x>>] = (IF x = Absent THEN a ELSE a \o Console!parseSamples(x))
        /\ G[<<a, x>>] \in Seq(E)
  <2> SUFFICES ASSUME NEW a \in Seq(E), NEW x \in Files(E)
               PROVE  /\ G[<<a, x>>] = (IF x = Absent THEN a
                                        ELSE a \o Console!parseSamples(x))
                      /\ G[<<a, x>>] \in Seq(E)
    OBVIOUS
  <2>1. G[<<a, x>>] = (IF x = Absent THEN a ELSE a \o Console!parseSamples(x))
    BY DEF Merging
  <2>2. x # Absent => Console!parseSamples(x) \in Seq(E)
    BY ParseSamplesKeeps DEF Files
  <2> HIDE DEF G
  <2>3. x # Absent => a \o Console!parseSamples(x) \in Seq(E)
    BY <2>2, ConcatProperties
  <2> QED
    BY <2>1, <2>3
<1>3. <<>> \in Seq(E) /\ Operates(G, <<>>, Seq(E), Files(E)) /\ s \in Seq(Files(E))
  BY <1>2, EmptySeq DEF Operates
<1> HIDE DEF G
<1>4. \E j : j = F(j)
  <2>1. PICK j : /\ Folding(j, G, <<>>, s, D)
                 /\ \A t \in SUBSET D : j[t] \in Seq(E)
    BY <1>3, FoldExists
  <2>2. ASSUME NEW t \in SUBSET D, t # {}
        PROVE  j[t] = (IF s[Max(t)] = Absent THEN j[t \ {Max(t)}]
                       ELSE j[t \ {Max(t)}] \o Console!parseSamples(s[Max(t)]))
    <3>1. Max(t) \in t /\ j[t] = G[<<j[t \ {Max(t)}], s[Max(t)]>>]
      BY <2>1, <2>2 DEF Folding
    <3>2. s[Max(t)] \in Files(E) /\ j[t \ {Max(t)}] \in Seq(E)
      BY <1>3, <2>1, <3>1
    <3> QED
      BY ONLY <1>2, <3>1, <3>2
  <2>3. j = [t \in SUBSET D |-> j[t]] /\ j[{}] = <<>>
    BY <2>1 DEF Folding
  <2>4. F(j) = [t \in SUBSET D |-> j[t]]
    BY <2>2, <2>3
  <2> QED
    BY <2>3, <2>4
<1>5. i = F(i)
  <2> HIDE DEF F
  <2> QED
    BY <1>4
<1> HIDE DEF i
<1>6. Computes(i, G, Seq(E), <<>>, s)
  <2>1. ASSUME NEW t \in SUBSET D,
               t # {} /\ Max(t) \in t /\ i[t \ {Max(t)}] \in Seq(E)
        PROVE  i[t] = G[<<i[t \ {Max(t)}], s[Max(t)]>>]
    <3>1. i[t] = (IF s[Max(t)] = Absent THEN i[t \ {Max(t)}]
                  ELSE i[t \ {Max(t)}] \o Console!parseSamples(s[Max(t)]))
      BY <1>5, <2>1
    <3>2. s[Max(t)] \in Files(E)
      BY <1>3, <2>1
    <3> QED
      BY ONLY <1>2, <2>1, <3>1, <3>2
  <2>2. i[{}] = <<>>
    BY <1>5
  <2> QED
    BY <2>1, <2>2 DEF Computes
<1> DEFINE c == [k \in 0..Len(s) |-> i[1..k]]
<1>7. Run(c, G, <<>>, s)
  BY <1>3, <1>6, FoldRuns
<1>8. c[Len(s)] = i[D]
  BY <1>3
<1> QED
  BY <1>1, <1>7, <1>8 DEF G

\* A host without a file has no part in what is merged.
LEMMA MergedTwo ==
  ASSUME NEW E, TimesOf(E), NEW f \in Files(E), NEW g \in Seq(E \cup {Torn}), g # Absent
  PROVE  /\ Console!Merged(<<f, g>>) \in Seq(E)
         /\ Console!parseSamples(g) \in Seq(E)
         /\ f # Absent => Console!parseSamples(f) \in Seq(E)
         /\ Console!Merged(<<f, g>>)
              = (IF f = Absent THEN <<>> ELSE Console!parseSamples(f)) \o Console!parseSamples(g)
<1> DEFINE s == <<f, g>>
           first == IF f = Absent THEN <<>> ELSE Console!parseSamples(f)
<1>1. s \in Seq(Files(E)) /\ Len(s) = 2 /\ s[1] = f /\ s[2] = g
  BY DEF Files
<1>2. /\ Console!parseSamples(g) \in Seq(E)
      /\ f # Absent => Console!parseSamples(f) \in Seq(E)
  BY ParseSamplesKeeps DEF Files
<1>3. first \in Seq(E)
  BY <1>2, EmptySeq
<1> HIDE DEF s
<1>4. PICK c : Run(c, Merging(E), <<>>, s) /\ Console!Merged(s) = c[Len(s)]
  BY <1>1, MergeRun
<1>5. /\ c[0] = <<>> /\ c[1] = Merging(E)[<<c[0], f>>] /\ c[2] = Merging(E)[<<c[1], g>>]
  <2>1. 1 \in 1..Len(s) /\ 2 \in 1..Len(s) /\ 1 - 1 = 0 /\ 2 - 1 = 1
    BY <1>1
  <2> QED
    BY <1>1, <1>4, <2>1 DEF Run
<1>6. c[1] = first
  <2>1. <<>> \in Seq(E)
    BY EmptySeq
  <2>2. c[1] = IF f = Absent THEN <<>> ELSE <<>> \o Console!parseSamples(f)
    BY <1>5, <2>1 DEF Merging
  <2>3. f # Absent => <<>> \o Console!parseSamples(f) = Console!parseSamples(f)
    BY <1>2, ConcatEmptySeq
  <2> QED
    BY <2>2, <2>3
<1> HIDE DEF first
<1>7. c[2] = first \o Console!parseSamples(g)
  <2>1. g \in Files(E)
    BY DEF Files
  <2> QED
    BY <1>3, <1>5, <1>6, <2>1 DEF Merging
<1>8. first \o Console!parseSamples(g) \in Seq(E)
  BY <1>2, <1>3, ConcatProperties
<1> QED
  BY <1>1, <1>2, <1>4, <1>7, <1>8 DEF s, first

-----------------------------------------------------------------------------
\* What the loop has drawn after its k-th turn

\* The focus intervals follow one another up to an offset, neighbours have
\* different windows.
FocusUpTo(f, edge) ==
  /\ \A i \in 1..Len(f) : f[i].startMs <= f[i].endMs /\ f[i].endMs <= edge
  /\ \A i \in 1..(Len(f) - 1) : /\ f[i].endMs <= f[i + 1].startMs
                                /\ f[i].window # f[i + 1].window

\* The next sample continues the last interval or opens another.
LEMMA FocusGoesOn ==
  ASSUME NEW f \in Seq(FocusSet), NEW window \in Window, NEW edge \in Nat, NEW offset \in Nat,
         edge <= offset, FocusUpTo(f, edge)
  PROVE  FocusUpTo(Console!Focused(f, window, offset), offset)
<1> DEFINE m == Len(f)
           t == Console!Focused(f, window, offset)
<1>1. /\ m \in Nat
      /\ \A i \in 1..m : /\ f[i].startMs \in Nat /\ f[i].endMs \in Nat /\ f[i].window \in Window
                         /\ f[i].startMs <= f[i].endMs /\ f[i].endMs <= edge
      /\ \A i \in 1..(m - 1) : f[i].endMs <= f[i + 1].startMs /\ f[i].window # f[i + 1].window
  <2>1. \A i \in 1..m : f[i] \in FocusSet
    OBVIOUS
  <2>2. \A i \in 1..m : f[i].startMs \in Nat /\ f[i].endMs \in Nat /\ f[i].window \in Window
    BY <2>1 DEF FocusSet
  <2> QED
    BY <2>2 DEF FocusUpTo
<1>2. CASE f # <<>> /\ Console!Last(f).window = window
  <2> DEFINE e == [f[m] EXCEPT !.endMs = offset]
  <2>1. m \in 1..m /\ f[m] \in FocusSet
    BY <1>2, EmptySeq
  <2>2. e.startMs = f[m].startMs /\ e.endMs = offset /\ e.window = f[m].window
    BY <2>1 DEF FocusSet
  <2>3. t = [f EXCEPT ![m] = e]
    BY <1>2 DEF Console!Focused
  <2> HIDE DEF t, e
  <2>4. Len(t) = m /\ \A i \in 1..m : t[i] = IF i = m THEN e ELSE f[i]
    BY <2>1, <2>3
  <2> HIDE DEF m
  <2>5. ASSUME NEW i \in 1..m
        PROVE  t[i].startMs <= t[i].endMs /\ t[i].endMs <= offset
    <3>1. CASE i = m
      <4>1. t[i].startMs = f[m].startMs /\ t[i].endMs = offset
        BY <2>2, <2>4, <3>1
      <4>2. f[m].startMs \in Nat /\ f[m].endMs \in Nat /\ f[m].startMs <= edge
        BY <1>1, <2>1
      <4> QED
        BY <4>1, <4>2
    <3>2. CASE i # m
      <4>1. t[i] = f[i]
        BY <2>4, <3>2
      <4> QED
        BY <1>1, <4>1
    <3> QED
      BY <3>1, <3>2
  <2>6. ASSUME NEW i \in 1..(m - 1)
        PROVE  t[i].endMs <= t[i + 1].startMs /\ t[i].window # t[i + 1].window
    <3>1. i \in 1..m /\ i + 1 \in 1..m /\ i # m /\ t[i] = f[i]
      BY <1>1, <2>4
    <3>2. t[i + 1].startMs = f[i + 1].startMs /\ t[i + 1].window = f[i + 1].window
      BY <2>2, <2>4, <3>1
    <3> QED
      BY <1>1, <3>1, <3>2
  <2>7. FocusUpTo(t, offset)
    BY ONLY <2>4, <2>5, <2>6 DEF FocusUpTo
  <2> QED
    BY <2>7 DEF t
<1>3. CASE ~(f # <<>> /\ Console!Last(f).window = window)
  <2> DEFINE new == [window |-> window, startMs |-> offset, endMs |-> offset]
  <2>1. t = Append(f, new)
    BY <1>3 DEF Console!Focused
  <2>2. new.startMs = offset /\ new.endMs = offset /\ new.window = window
    OBVIOUS
  <2>3. m # 0 => f[m].window # window
    BY <1>3, EmptySeq DEF Console!Last
  <2> HIDE DEF t, new
  <2>4. Len(t) = m + 1 /\ t[m + 1] = new /\ \A i \in 1..m : t[i] = f[i]
    BY <2>1, AppendProperties
  <2> HIDE DEF m
  <2>5. ASSUME NEW i \in 1..(m + 1)
        PROVE  t[i].startMs <= t[i].endMs /\ t[i].endMs <= offset
    <3>1. CASE i = m + 1
      BY <2>2, <2>4, <3>1
    <3>2. CASE i # m + 1
      <4>1. i \in 1..m
        BY <1>1, <3>2
      <4> QED
        BY <1>1, <2>4, <4>1
    <3> QED
      BY <3>1, <3>2
  <2>6. ASSUME NEW i \in 1..m
        PROVE  t[i].endMs <= t[i + 1].startMs /\ t[i].window # t[i + 1].window
    <3>1. CASE i = m
      BY <1>1, <2>2, <2>3, <2>4, <3>1
    <3>2. CASE i # m
      <4>1. i \in 1..(m - 1) /\ i + 1 \in 1..m
        BY <1>1, <3>2
      <4> QED
        BY <1>1, <2>4, <4>1
    <3> QED
      BY <3>1, <3>2
  <2>7. 1..(Len(t) - 1) = 1..m
    BY <1>1, <2>4
  <2>8. FocusUpTo(t, offset)
    BY ONLY <2>4, <2>5, <2>6, <2>7 DEF FocusUpTo
  <2> QED
    BY <2>8 DEF t
<1> QED
  BY <1>2, <1>3

-----------------------------------------------------------------------------
\* What the loop has drawn

Edge(s, k) == IF k = 0 THEN 0 ELSE Console!Offset(s, k)

\* With n keys and m clicks behind, and the offset it has come to.
Told(s, count, d, n, m, edge) ==
  /\ d \in Drawing(s, count)
  /\ Sum("keys", d.buckets) = n
  /\ Sum("clicks", d.buckets) = m
  /\ d.measured <=> n + m > 0
  /\ FocusUpTo(d.focus, edge)
  /\ Sum("totalMs", d.totals) <= edge

\* One turn keeps what was told.
LEMMA Turns ==
  ASSUME NEW s \in Seq(Stored), Sorted(s), s # <<>>, NEW count \in Nat \ {0},
         NEW i \in 1..Len(s), NEW d, NEW n \in Nat, NEW m \in Nat,
         Told(s, count, d, n, m, Edge(s, i - 1))
  PROVE  Told(s, count, Console!Drawn(s, count, d, i), n + Console!Finite(s[i].keys),
              m + Console!Finite(s[i].clicks), Edge(s, i))
<1> DEFINE x == s[i]
           e == Console!Drawn(s, count, d, i)
           a == Console!Finite(x.keys)
           b == Console!Finite(x.clicks)
           old == Edge(s, i - 1)
           new == Edge(s, i)
<1>1. /\ d \in Drawing(s, count)
      /\ Sum("keys", d.buckets) = n /\ Sum("clicks", d.buckets) = m
      /\ d.measured <=> n + m > 0
      /\ FocusUpTo(d.focus, old)
      /\ Sum("totalMs", d.totals) <= old
  BY DEF Told
<1>2. /\ e \in Drawing(s, count)
      /\ Sum("keys", e.buckets) = Sum("keys", d.buckets) + a
      /\ Sum("clicks", e.buckets) = Sum("clicks", d.buckets) + b
      /\ e.measured = (d.measured \/ Console!Measured(x))
      /\ e.focus = IF x.window = NoWindow THEN d.focus
                   ELSE Console!Focused(d.focus, x.window, Console!Offset(s, i))
      /\ Sum("totalMs", d.totals) \in Nat
      /\ Sum("totalMs", e.totals)
           \in {Sum("totalMs", d.totals),
                Sum("totalMs", d.totals) + IF i = 1 THEN 0 ELSE s[i].ts - s[i - 1].ts}
  BY <1>1, Draws
<1>3. /\ x \in Stored /\ x.window \in Window \cup {NoWindow} /\ a \in Nat /\ b \in Nat
  BY StoredCounts
<1>4. /\ new = Console!Offset(s, i) /\ new \in Nat /\ old \in Nat
      /\ old + (IF i = 1 THEN 0 ELSE s[i].ts - s[i - 1].ts) = new
      /\ (IF i = 1 THEN 0 ELSE s[i].ts - s[i - 1].ts) \in Nat
  <2>1. new = Console!Offset(s, i) /\ Console!Offset(s, i) \in Nat
    BY Offsets DEF Edge
  <2>2. CASE i = 1
    <3>1. Console!Offset(s, 1) = 0
      BY <2>2, StoredCounts DEF Console!Offset
    <3> QED
      BY <2>1, <2>2, <3>1 DEF Edge
  <2>3. CASE i # 1
    <3>1. i \in 2..Len(s)
      BY <2>3
    <3>2. /\ s[i].ts - s[i - 1].ts \in Nat /\ i - 1 \in 1..Len(s)
          /\ Console!Offset(s, i) = Console!Offset(s, i - 1) + (s[i].ts - s[i - 1].ts)
      BY <3>1, Offsets
    <3>3. Console!Offset(s, i - 1) \in Nat /\ old = Console!Offset(s, i - 1)
      BY <3>1, <3>2, Offsets DEF Edge
    <3> QED
      BY <2>1, <2>3, <3>2, <3>3
  <2> QED
    BY <2>2, <2>3
<1> DEFINE gap == IF i = 1 THEN 0 ELSE s[i].ts - s[i - 1].ts
<1>5. e.measured <=> (n + a) + (m + b) > 0
  <2>1. Console!Measured(x) <=> (a > 0 \/ b > 0 \/ x.hotkeys # <<>>)
    BY DEF Console!Measured
  <2>2. x.hotkeys # <<>> => a > 0
    BY <1>3 DEF Stored
  <2> HIDE DEF a, b, e, x
  <2>3. Console!Measured(x) <=> a + b > 0
    BY <1>3, <2>1, <2>2
  <2>4. (n + a) + (m + b) > 0 <=> (n + m > 0 \/ a + b > 0)
    BY <1>3
  <2> QED
    BY <1>1, <1>2, <2>3, <2>4
<1> HIDE DEF gap
<1>6. Sum("totalMs", e.totals) <= new
  <2> DEFINE u == Sum("totalMs", d.totals)
             v == Sum("totalMs", e.totals)
  <2>1. u \in Nat /\ u <= old /\ v \in {u, u + gap}
    BY <1>1, <1>2 DEF gap
  <2>2. old + gap = new /\ gap \in Nat /\ old \in Nat /\ new \in Nat
    BY <1>4 DEF gap
  <2> HIDE DEF u, v, old, new
  <2>3. v <= new
    BY <2>1, <2>2
  <2> QED
    BY <2>3 DEF v
<1>7. FocusUpTo(e.focus, new)
  <2>1. d.focus \in Seq(FocusSet)
    BY <1>1 DEF Drawing
  <2>2. old \in Nat /\ new \in Nat /\ old <= new
    BY <1>4 DEF gap
  <2>3. CASE x.window = NoWindow
    <3>1. e.focus = d.focus
      BY <1>2, <2>3
    <3> DEFINE f == d.focus
    <3>2. f \in Seq(FocusSet) /\ FocusUpTo(f, old)
      BY <1>1, <2>1
    <3> HIDE DEF f, old, new
    <3>3. \A k \in 1..Len(f) : f[k].endMs \in Nat
      <4>1. \A k \in 1..Len(f) : f[k] \in FocusSet
        BY <3>2
      <4> QED
        BY <4>1 DEF FocusSet
    <3>4. FocusUpTo(f, new)
      BY <2>2, <3>2, <3>3 DEF FocusUpTo
    <3> QED
      BY <3>1, <3>4 DEF f
  <2>4. CASE x.window # NoWindow
    <3>1. x.window \in Window
      BY <1>3, <2>4
    <3>2. e.focus = Console!Focused(d.focus, x.window, new)
      BY <1>2, <1>4, <2>4
    <3> QED
      BY <1>1, <2>1, <2>2, <3>1, <3>2, FocusGoesOn
  <2> QED
    BY <2>3, <2>4
<1>8. Sum("keys", e.buckets) = n + a /\ Sum("clicks", e.buckets) = m + b
  BY <1>1, <1>2
<1> HIDE DEF e, a, b, new
<1>9. Told(s, count, e, n + a, m + b, new)
  BY <1>2, <1>5, <1>6, <1>7, <1>8 DEF Told
<1> QED
  BY <1>9 DEF e, a, b, new, x

\* So the loop has told it of all samples.
LEMMA LoopTells ==
  ASSUME NEW s \in Seq(Stored), Sorted(s), s # <<>>, NEW count \in Nat \ {0}
  PROVE  /\ Sum("keys", s) \in Nat /\ Sum("clicks", s) \in Nat
         /\ Told(s, count, Console!Loop(s, count), Sum("keys", s), Sum("clicks", s),
                 Console!Offset(s, Len(s)))
<1>1. HaveCount("keys", Stored) /\ HaveCount("clicks", Stored)
  BY StoredCounts
<1>2. PICK a : Run(a, Adding("keys", Stored), 0, s) /\ Sum("keys", s) = a[Len(s)]
  BY <1>1, SumRuns
<1>3. PICK b : Run(b, Adding("clicks", Stored), 0, s) /\ Sum("clicks", s) = b[Len(s)]
  BY <1>1, SumRuns
<1>4. PICK c : /\ Run(c, Turning(s, count), LoopStart(s, count), Indices(s))
               /\ Console!Loop(s, count) = c[Len(Indices(s))]
  BY LoopRun
<1>5. /\ Len(Indices(s)) = Len(s) /\ \A k \in 1..Len(s) : Indices(s)[k] = k
      /\ Len(s) \in Nat \ {0} /\ Len(s) \in 0..Len(s)
  BY EmptySeq DEF Indices
<1> DEFINE T == {k \in Nat : k <= Len(s) => Told(s, count, c[k], a[k], b[k], Edge(s, k))}
<1>6. 0 \in T
  <2> DEFINE d == LoopStart(s, count)
  <2>1. c[0] = d /\ a[0] = 0 /\ b[0] = 0 /\ Edge(s, 0) = 0
    BY <1>2, <1>3, <1>4 DEF Run, Edge
  <2>2. d \in Drawing(s, count) /\ Sum("keys", d.buckets) = 0 /\ Sum("clicks", d.buckets) = 0
    BY LoopStarts
  <2>3. d.focus = <<>> /\ d.totals = <<>> /\ d.measured = FALSE
    BY DEF LoopStart
  <2>4. FocusUpTo(<<>>, 0)
    BY DEF FocusUpTo
  <2>5. Sum("totalMs", <<>>) = 0
    BY SumEmpty
  <2> HIDE DEF d
  <2>6. Told(s, count, d, 0, 0, 0)
    BY <2>2, <2>3, <2>4, <2>5 DEF Told
  <2> QED
    BY <2>1, <2>6
<1>7. ASSUME NEW k \in T
      PROVE  k + 1 \in T
  <2> SUFFICES ASSUME k + 1 <= Len(s)
               PROVE  Told(s, count, c[k + 1], a[k + 1], b[k + 1], Edge(s, k + 1))
    OBVIOUS
  <2>1. k \in Nat /\ k + 1 \in 1..Len(s) /\ (k + 1) - 1 = k
    OBVIOUS
  <2>2. Told(s, count, c[k], a[k], b[k], Edge(s, k))
    BY <2>1
  <2> HIDE DEF T
  <2>3. a[k] \in Nat /\ a[k + 1] = a[k] + Console!Finite(s[k + 1]["keys"])
    BY <1>1, <1>2, <2>1, SumSteps
  <2>4. b[k] \in Nat /\ b[k + 1] = b[k] + Console!Finite(s[k + 1]["clicks"])
    BY <1>1, <1>3, <2>1, SumSteps
  <2>5. c[k + 1] = Turning(s, count)[<<c[k], k + 1>>]
    BY <1>4, <1>5, <2>1 DEF Run
  <2>6. c[k + 1] = Console!Drawn(s, count, c[k], k + 1)
    BY <2>1, <2>2, <2>5 DEF Turning, Told
  <2>7. Told(s, count, Console!Drawn(s, count, c[k], k + 1),
             a[k] + Console!Finite(s[k + 1].keys), b[k] + Console!Finite(s[k + 1].clicks),
             Edge(s, k + 1))
    BY <2>1, <2>2, <2>3, <2>4, Turns
  <2> QED
    BY <2>3, <2>4, <2>6, <2>7
<1> HIDE DEF T
<1>8. T = Nat
  BY <1>6, <1>7, Induction DEF T
<1>9. Told(s, count, c[Len(s)], a[Len(s)], b[Len(s)], Edge(s, Len(s)))
  <2>1. Len(s) \in T /\ Len(s) <= Len(s)
    BY <1>5, <1>8
  <2> QED
    BY <2>1 DEF T
<1>10. Edge(s, Len(s)) = Console!Offset(s, Len(s))
  BY <1>5 DEF Edge
<1>11. Sum("keys", s) \in Nat /\ Sum("clicks", s) \in Nat
  BY <1>1, <1>2, <1>3, <1>5, SumTyped
<1> QED
  BY <1>2, <1>3, <1>4, <1>5, <1>9, <1>10, <1>11

-----------------------------------------------------------------------------
\* The timeline of samples in the order of their times, and of two hosts' files

\* The timeline of a file has its counts, and its focus is in order.
LEMMA BuildTimelineTells ==
  ASSUME NEW s \in Seq(Stored), Sorted(s), NEW n \in Nat \ {0}
  PROVE  LET t == Console!buildTimeline(s, n)
         IN  /\ Sum("keys", t.buckets) = Sum("keys", s)
             /\ Sum("clicks", t.buckets) = Sum("clicks", s)
             /\ t.inputMeasured <=> Sum("keys", s) + Sum("clicks", s) > 0
             /\ t.focus \in Seq(FocusSet) /\ FocusUpTo(t.focus, t.durationMs)
             /\ Sum("totalMs", t.topWindows) <= t.durationMs
<1> DEFINE t == Console!buildTimeline(s, n)
<1>1. CASE s = <<>>
  <2>1. /\ t.buckets = <<>> /\ t.inputMeasured = FALSE /\ t.focus = <<>> /\ t.durationMs = 0
        /\ t.topWindows = <<>>
    BY <1>1 DEF Console!buildTimeline
  <2>2. Sum("keys", <<>>) = 0 /\ Sum("clicks", <<>>) = 0 /\ Sum("totalMs", <<>>) = 0
    BY SumEmpty
  <2>3. <<>> \in Seq(FocusSet) /\ FocusUpTo(<<>>, 0)
    BY EmptySeq DEF FocusUpTo
  <2> HIDE DEF t
  <2>4. /\ Sum("keys", t.buckets) = Sum("keys", s)
        /\ Sum("clicks", t.buckets) = Sum("clicks", s)
        /\ t.inputMeasured <=> Sum("keys", s) + Sum("clicks", s) > 0
        /\ t.focus \in Seq(FocusSet) /\ FocusUpTo(t.focus, t.durationMs)
        /\ Sum("totalMs", t.topWindows) <= t.durationMs
    BY <1>1, <2>1, <2>2, <2>3
  <2> QED
    BY <2>4 DEF t
<1>2. CASE s # <<>>
  <2> DEFINE d == Console!Loop(s, n)
             edge == Console!Offset(s, Len(s))
             duration == Console!Duration(s)
  <2>1. Console!Max({1, n}) = n
    BY MaxOfTwo
  <2>2. /\ t.buckets = d.buckets /\ t.inputMeasured = d.measured /\ t.focus = d.focus
        /\ t.durationMs = duration /\ t.topWindows = Console!TopWindows(d.totals)
    BY <1>2, <2>1 DEF Console!buildTimeline
  <2>3. Told(s, n, d, Sum("keys", s), Sum("clicks", s), edge)
    BY <1>2, LoopTells
  <2>4. edge \in Nat /\ duration \in Nat /\ edge <= duration
    <3>1. Len(s) \in 1..Len(s)
      BY <1>2, EmptySeq
    <3> QED
      BY <1>2, <3>1, Offsets
  <2> HIDE DEF t, d, edge, duration
  <2>5. d.focus \in Seq(FocusSet) /\ d.totals \in Seq(TotalSet)
    BY <2>3 DEF Told, Drawing
  <2>6. FocusUpTo(d.focus, duration)
    <3> DEFINE f == d.focus
    <3>1. f \in Seq(FocusSet) /\ FocusUpTo(f, edge)
      BY <2>3, <2>5 DEF Told
    <3> HIDE DEF f
    <3>2. \A k \in 1..Len(f) : f[k].endMs \in Nat
      <4>1. \A k \in 1..Len(f) : f[k] \in FocusSet
        BY <3>1
      <4> QED
        BY <4>1 DEF FocusSet
    <3>3. FocusUpTo(f, duration)
      BY <2>4, <3>1, <3>2 DEF FocusUpTo
    <3> QED
      BY <3>3 DEF f
  <2>7. Sum("totalMs", Console!TopWindows(d.totals)) <= duration
    <3>1. HaveCount("totalMs", TotalSet)
      BY StoredCounts
    <3>2. Sum("totalMs", Console!TopWindows(d.totals)) = Sum("totalMs", d.totals)
      BY <2>5, <3>1, TopWindowsKeep
    <3>3. Sum("totalMs", d.totals) \in Nat
      BY <2>5, <3>1, EmptySeq, SumConcat
    <3>4. Sum("totalMs", d.totals) <= edge
      BY <2>3 DEF Told
    <3> QED
      BY <2>4, <3>2, <3>3, <3>4
  <2>8. /\ Sum("keys", t.buckets) = Sum("keys", s)
        /\ Sum("clicks", t.buckets) = Sum("clicks", s)
        /\ t.inputMeasured <=> Sum("keys", s) + Sum("clicks", s) > 0
    BY <2>2, <2>3 DEF Told
  <2>9. /\ t.focus \in Seq(FocusSet) /\ FocusUpTo(t.focus, t.durationMs)
        /\ Sum("totalMs", t.topWindows) <= t.durationMs
    BY <2>2, <2>5, <2>6, <2>7
  <2> QED
    BY <2>8, <2>9 DEF t
<1> QED
  BY <1>1, <1>2

\* Samples of an agent that has no counts.
Blank == {x \in Stored : x.keys = Missing /\ x.clicks = Missing}

\* Whoever else takes part, the counts are those of this host's file.
LEMMA TimelineTells ==
  ASSUME NEW n \in Nat \ {0}, NEW g \in Seq(Stored \cup {Torn}), g # Absent,
         NEW f \in Seq(Blank \cup {Torn}) \cup {Absent}
  PROVE  LET t == Console!timeline(<<f, g>>, n)
             p == Console!parseSamples(g)
         IN  /\ Sum("keys", t.buckets) = Sum("keys", p)
             /\ Sum("clicks", t.buckets) = Sum("clicks", p)
             /\ t.inputMeasured <=> Sum("keys", p) + Sum("clicks", p) > 0
             /\ t.focus \in Seq(FocusSet) /\ FocusUpTo(t.focus, t.durationMs)
             /\ Sum("totalMs", t.topWindows) <= t.durationMs
<1> DEFINE merged == Console!Merged(<<f, g>>)
           s == Console!ByTime(merged)
           p == Console!parseSamples(g)
           q == IF f = Absent THEN <<>> ELSE Console!parseSamples(f)
<1>1. /\ TimesOf(Stored) /\ HaveCount("keys", Stored) /\ HaveCount("clicks", Stored)
  BY StoredCounts
<1>2. f \in Files(Stored)
  <2>1. Blank \cup {Torn} \subseteq Stored \cup {Torn}
    BY DEF Blank
  <2> QED
    BY <2>1, SeqMonotonic DEF Files
<1>3. merged \in Seq(Stored) /\ p \in Seq(Stored) /\ merged = q \o p
  BY <1>1, <1>2, MergedTwo
<1>4. q \in Seq(Blank)
  <2>1. TimesOf(Blank)
    BY <1>1 DEF TimesOf, Blank
  <2>2. f # Absent => Console!parseSamples(f) \in Seq(Blank)
    BY <2>1, ParseSamplesKeeps
  <2> QED
    BY <2>2, EmptySeq
<1> HIDE DEF q, p, merged
<1>5. Sum("keys", q) = 0 /\ Sum("clicks", q) = 0
  <2>1. /\ \A x \in Blank : Console!Finite(x["keys"]) = 0
        /\ \A x \in Blank : Console!Finite(x["clicks"]) = 0
    BY DEF Blank, Console!Finite
  <2> QED
    BY <1>4, <2>1, SumZero
<1>6. q \in Seq(Stored)
  <2>1. Blank \subseteq Stored
    BY DEF Blank
  <2> QED
    BY <1>4, <2>1, SeqMonotonic
<1>7. Sum("keys", merged) = Sum("keys", p) /\ Sum("clicks", merged) = Sum("clicks", p)
  <2>1. /\ Sum("keys", p) \in Nat /\ Sum("keys", q \o p) = Sum("keys", q) + Sum("keys", p)
        /\ Sum("clicks", p) \in Nat
        /\ Sum("clicks", q \o p) = Sum("clicks", q) + Sum("clicks", p)
    BY <1>1, <1>3, <1>6, SumConcat
  <2> QED
    BY <1>3, <1>5, <2>1
<1>8. /\ s \in Seq(Stored) /\ Sorted(s)
      /\ Sum("keys", s) = Sum("keys", merged) /\ Sum("clicks", s) = Sum("clicks", merged)
  BY <1>1, <1>3, ByTimeSorts
<1>9. Console!timeline(<<f, g>>, n) = Console!buildTimeline(s, n)
  <2>1. 2 \in DOMAIN <<f, g>> /\ <<f, g>>[2] = g
    OBVIOUS
  <2>2. ~(\A i \in DOMAIN <<f, g>> : <<f, g>>[i] = Absent)
    BY <2>1
  <2> QED
    BY <2>2 DEF Console!timeline, merged
<1> HIDE DEF s
<1> DEFINE t == Console!buildTimeline(s, n)
<1>10. /\ Sum("keys", t.buckets) = Sum("keys", s)
       /\ Sum("clicks", t.buckets) = Sum("clicks", s)
       /\ t.inputMeasured <=> Sum("keys", s) + Sum("clicks", s) > 0
       /\ t.focus \in Seq(FocusSet) /\ FocusUpTo(t.focus, t.durationMs)
       /\ Sum("totalMs", t.topWindows) <= t.durationMs
  BY <1>8, BuildTimelineTells
<1> HIDE DEF t
<1>11. /\ Sum("keys", t.buckets) = Sum("keys", p)
       /\ Sum("clicks", t.buckets) = Sum("clicks", p)
       /\ t.inputMeasured <=> Sum("keys", p) + Sum("clicks", p) > 0
  BY <1>7, <1>8, <1>10
<1>12. t = Console!timeline(<<f, g>>, n)
  BY <1>9 DEF t
<1> QED
  BY <1>10, <1>11, <1>12 DEF p

-----------------------------------------------------------------------------
\* Who has typed a hotkey has pressed a key, in the counters and in every line

HotkeysHaveKeys ==
  /\ hotkeys # <<>> => keys > 0
  /\ \A k \in 1..Len(lines) : lines[k].hotkeys # <<>> => lines[k].keys > 0

LEMMA HotkeysHaveKeysInitial == Init => HotkeysHaveKeys
<1> SUFFICES ASSUME Init
             PROVE  HotkeysHaveKeys
  OBVIOUS
<1>1. hotkeys = <<>> /\ lines = <<>>
  BY DEF Init
<1> QED
  BY <1>1 DEF HotkeysHaveKeys

LEMMA HotkeysHaveKeysInductive == TypeOK /\ HotkeysHaveKeys /\ [Next]_vars => HotkeysHaveKeys'
<1> SUFFICES ASSUME TypeOK, HotkeysHaveKeys, [Next]_vars
             PROVE  HotkeysHaveKeys'
  OBVIOUS
<1>1. /\ lines \in Seq(Sample) /\ Len(lines) \in Nat /\ keys \in Nat
      /\ onDisk \in 0..Len(lines) /\ lastWindow \in Window \cup {NoWindow}
  BY DEF TypeOK
<1>2. ASSUME UNCHANGED <<lines, counters>>
      PROVE  HotkeysHaveKeys'
  BY <1>2 DEF HotkeysHaveKeys, counters
<1>3. CASE handleLine
  <2>1. lines' = lines
    BY <1>3 DEF handleLine, tracker
  <2>2. UNCHANGED counters \/ UNCHANGED hotkeys \/ keys' = keys + 1
    BY <1>3 DEF handleLine, Claimed, Unclaimed, countKey, countClick
  <2>3. keys' = keys \/ keys' = keys + 1
    BY <1>3 DEF handleLine, Claimed, Unclaimed, countKey, countClick, counters
  <2>4. hotkeys' # <<>> => keys' > 0
    BY <1>1, <2>2, <2>3 DEF HotkeysHaveKeys, counters
  <2> QED
    BY <2>1, <2>4 DEF HotkeysHaveKeys
<1>4. CASE sampleEnds
  <2>1. hotkeys' = <<>>
    BY <1>4 DEF sampleEnds, ResetCounters
  <2>2. CASE lines' = lines
    BY <2>1, <2>2 DEF HotkeysHaveKeys
  <2>3. CASE \E ts \in 0..MaxTime, window \in Window \cup {NoWindow} :
               lines' = Append(lines, buildEvent(ts, window))
    <3>1. PICK ts \in 0..MaxTime, window \in Window \cup {NoWindow} :
                 lines' = Append(lines, buildEvent(ts, window))
      BY <2>3
    <3> DEFINE e == buildEvent(ts, window)
    <3>2. e \in Sample /\ (e.hotkeys # <<>> => e.keys > 0)
      BY EventIsSample DEF HotkeysHaveKeys
    <3> HIDE DEF e
    <3>3. /\ Len(lines') = Len(lines) + 1 /\ lines'[Len(lines) + 1] = e
          /\ \A k \in 1..Len(lines) : lines'[k] = lines[k]
      BY <1>1, <3>1, <3>2, AppendProperties DEF e
    <3>4. \A k \in 1..Len(lines') : k \in 1..Len(lines) \/ k = Len(lines) + 1
      BY <1>1, <3>3
    <3> QED
      BY <2>1, <3>2, <3>3, <3>4 DEF HotkeysHaveKeys
  <2> QED
    BY <1>1, <1>4, <2>2, <2>3 DEF sampleEnds
<1>5. ASSUME NEW how, ProcessEnds(how)
      PROVE  HotkeysHaveKeys'
  <2>1. hotkeys' = <<>> /\ lines' = SubSeq(lines, 1, onDisk)
    BY <1>5 DEF ProcessEnds, ResetCounters
  <2>2. /\ Len(SubSeq(lines, 1, onDisk)) = onDisk
        /\ \A k \in 1..onDisk : SubSeq(lines, 1, onDisk)[k] = lines[k]
    BY <1>1, SubSeqProperties
  <2>3. \A k \in 1..Len(lines') : k \in 1..Len(lines) /\ lines'[k] = lines[k]
    BY <1>1, <2>1, <2>2
  <2> QED
    BY <2>1, <2>3 DEF HotkeysHaveKeys
<1>6. CASE xinputExits \/ sampleBegins \/ flush \/ stop \/ stopEnds \/ UNCHANGED vars
  BY <1>2, <1>6 DEF xinputExits, sampleBegins, flush, stop, stopEnds, tracker, vars
<1>7. CASE sampleThrows \/ crash
  BY <1>5, <1>7 DEF sampleThrows, crash
<1> QED
  BY <1>3, <1>4, <1>6, <1>7 DEF Next

LEMMA HotkeysHaveKeysAlways == Spec => []HotkeysHaveKeys
BY HotkeysHaveKeysInitial, HotkeysHaveKeysInductive, TypeCorrect, PTL DEF Spec

\* The files of the session are what the timeline's lemmas are about.
LEMMA HostsTyped ==
  ASSUME TypeOK, HotkeysHaveKeys, NEW files \in Hosts
  PROVE  /\ eventsJsonl \in Seq(Stored \cup {Torn}) /\ eventsJsonl # Absent
         /\ \E f \in Seq(Blank \cup {Torn}) \cup {Absent} : files = <<f, eventsJsonl>>
<1> DEFINE ev == eventsJsonl
           disk == SubSeq(lines, 1, onDisk)
           rest == IF torn THEN <<Torn>> ELSE <<>>
<1>1. lines \in Seq(Sample) /\ Len(lines) \in Nat /\ onDisk \in 0..Len(lines)
  BY DEF TypeOK
<1>2. \A k \in 1..Len(lines) : lines[k] \in Stored \cap Sample
  <2> TAKE k \in 1..Len(lines)
  <2>1. lines[k] \in Sample
    BY <1>1
  <2>2. lines[k].hotkeys # <<>> => lines[k].keys > 0
    BY DEF HotkeysHaveKeys
  <2>3. lines[k].keys \in Nat
    BY <2>1 DEF Sample
  <2>4. Console!Finite(lines[k].keys) = lines[k].keys
    BY <2>3, MissingAssumption DEF Console!Finite
  <2>5. lines[k] \in [ts : 0..MaxTime, window : Window \cup {NoWindow},
                      keys : Nat \cup {Missing}, clicks : Nat \cup {Missing},
                      hotkeys : Seq(Combo)]
    BY <2>1 DEF Sample
  <2> QED
    BY <2>1, <2>2, <2>4, <2>5 DEF Stored
<1>3. disk \in Seq(Stored \cap Sample)
  <2>1. lines \in Seq(Stored \cap Sample)
    BY <1>1, <1>2
  <2> QED
    BY <1>1, <2>1, SubSeqProperties
<1> DEFINE L == (Stored \cap Sample) \cup {Torn}
<1>4. disk \in Seq(L)
  BY <1>3, SeqMonotonic
<1>5. rest \in Seq(L)
  <2>1. Torn \in L
    OBVIOUS
  <2> HIDE DEF L
  <2>2. <<Torn>> \in Seq(L) /\ <<>> \in Seq(L)
    BY <2>1, EmptySeq
  <2> QED
    BY <2>2
<1>6. ev = disk \o rest
  BY DEF eventsJsonl
<1> HIDE DEF disk, rest
<1>7. ev \in Seq(L)
  BY <1>4, <1>5, <1>6, ConcatProperties
<1> HIDE DEF ev
<1>8. ev \in Seq(Stored \cup {Torn}) /\ ev \in Seq(Sample \cup {Torn})
  BY <1>7, SeqMonotonic
<1>9. ev # Absent
  BY <1>8, AbsentAssumption
<1>10. Uncounted(ev) \in Seq(Blank \cup {Torn})
  <2> DEFINE u == Uncounted(ev)
  <2>1. Len(ev) \in Nat /\ DOMAIN ev = 1..Len(ev) /\ \A k \in 1..Len(ev) : ev[k] \in Stored \cup {Torn}
    BY <1>8
  <2>2. u = [k \in 1..Len(ev) |-> u[k]]
    BY <2>1 DEF Uncounted
  <2>3. ASSUME NEW k \in 1..Len(ev)
        PROVE  u[k] \in Blank \cup {Torn}
    <3>1. CASE ev[k] = Torn
      BY <2>1, <3>1 DEF Uncounted
    <3>2. CASE ev[k] # Torn
      <4> DEFINE x == ev[k]
                 y == [x EXCEPT !.keys = Missing, !.clicks = Missing, !.hotkeys = <<>>]
      <4>1. x \in Stored /\ u[k] = y
        BY <2>1, <3>2 DEF Uncounted
      <4> HIDE DEF x, u
      <4>2. x \in [ts : 0..MaxTime, window : Window \cup {NoWindow},
                   keys : Nat \cup {Missing}, clicks : Nat \cup {Missing},
                   hotkeys : Seq(Combo)]
        BY <4>1 DEF Stored
      <4>3. /\ y \in [ts : 0..MaxTime, window : Window \cup {NoWindow},
                      keys : Nat \cup {Missing}, clicks : Nat \cup {Missing},
                      hotkeys : Seq(Combo)]
            /\ y.keys = Missing /\ y.clicks = Missing /\ y.hotkeys = <<>>
        BY <4>2, EmptySeq
      <4> HIDE DEF y
      <4>4. y \in Blank
        BY <4>3 DEF Blank, Stored
      <4> QED
        BY <4>1, <4>4
    <3> QED
      BY <3>1, <3>2
  <2> HIDE DEF u
  <2>4. u \in Seq(Blank \cup {Torn})
    BY <2>1, <2>2, <2>3, IsASeq
  <2> QED
    BY <2>4 DEF u
<1>11. files = <<Absent, ev>> \/ files = <<Uncounted(ev), ev>>
  BY DEF Hosts, ev
<1> QED
  BY <1>8, <1>9, <1>10, <1>11 DEF ev

\* However the counts of the hosts are spread over time and buckets, what the
\* console draws has every count of every file once, and it says `measured'
\* exactly when there is one.
THEOREM TimelineKeepsCountsHolds == Spec => []TimelineKeepsCounts
<1>1. TypeOK /\ HotkeysHaveKeys => TimelineKeepsCounts
  <2> SUFFICES ASSUME TypeOK, HotkeysHaveKeys, NEW files \in Hosts
               PROVE  LET drawn == Console!timeline(files, BucketCount)
                          counted == Counted(Console!parseSamples(eventsJsonl))
                      IN  /\ Counted(drawn.buckets) = counted
                          /\ drawn.inputMeasured <=> counted.keys + counted.clicks > 0
    BY DEF TimelineKeepsCounts
  <2>1. eventsJsonl \in Seq(Stored \cup {Torn}) /\ eventsJsonl # Absent
    BY HostsTyped
  <2>2. PICK f \in Seq(Blank \cup {Torn}) \cup {Absent} : files = <<f, eventsJsonl>>
    BY HostsTyped
  <2> DEFINE drawn == Console!timeline(files, BucketCount)
             p == Console!parseSamples(eventsJsonl)
  <2>3. /\ Sum("keys", drawn.buckets) = Sum("keys", p)
        /\ Sum("clicks", drawn.buckets) = Sum("clicks", p)
        /\ drawn.inputMeasured <=> Sum("keys", p) + Sum("clicks", p) > 0
    BY <2>1, <2>2, BucketsAssumption, TimelineTells
  <2> HIDE DEF drawn, p
  <2>4. /\ Counted(drawn.buckets) = Counted(p)
        /\ Counted(p).keys = Sum("keys", p) /\ Counted(p).clicks = Sum("clicks", p)
    BY <2>3 DEF Counted
  <2> QED
    BY <2>3, <2>4 DEF drawn, p
<1> QED
  BY <1>1, TypeCorrect, HotkeysHaveKeysAlways, PTL

\* Although clocks are set back and files of two hosts are mixed, focus
\* intervals follow one another within the session, neighbours have different
\* windows, and the windows' times fit into it.
THEOREM FocusIsOrderedHolds == Spec => []FocusIsOrdered
<1>1. TypeOK /\ HotkeysHaveKeys => FocusIsOrdered
  <2> SUFFICES ASSUME TypeOK, HotkeysHaveKeys, NEW files \in Hosts
               PROVE  LET drawn == Console!timeline(files, 1)
                          focus == drawn.focus
                      IN  /\ \A i \in DOMAIN focus : /\ 0 <= focus[i].startMs
                                                     /\ focus[i].startMs <= focus[i].endMs
                                                     /\ focus[i].endMs <= drawn.durationMs
                          /\ \A i \in 1..(Len(focus) - 1) :
                               /\ focus[i].endMs <= focus[i + 1].startMs
                               /\ focus[i].window # focus[i + 1].window
                          /\ Sum("totalMs", drawn.topWindows) <= drawn.durationMs
    BY DEF FocusIsOrdered
  <2>1. eventsJsonl \in Seq(Stored \cup {Torn}) /\ eventsJsonl # Absent
    BY HostsTyped
  <2>2. PICK f \in Seq(Blank \cup {Torn}) \cup {Absent} : files = <<f, eventsJsonl>>
    BY HostsTyped
  <2> DEFINE drawn == Console!timeline(files, 1)
             focus == drawn.focus
  <2>3. /\ focus \in Seq(FocusSet) /\ FocusUpTo(focus, drawn.durationMs)
        /\ Sum("totalMs", drawn.topWindows) <= drawn.durationMs
    <3>1. 1 \in Nat \ {0}
      OBVIOUS
    <3> QED
      BY <2>1, <2>2, <3>1, TimelineTells
  <2> HIDE DEF drawn, focus
  <2>4. DOMAIN focus = 1..Len(focus) /\ \A i \in 1..Len(focus) : 0 <= focus[i].startMs
    <3>1. \A i \in 1..Len(focus) : focus[i] \in FocusSet
      BY <2>3
    <3> QED
      BY <2>3, <3>1 DEF FocusSet
  <2> QED
    BY <2>3, <2>4 DEF FocusUpTo, drawn, focus
<1> QED
  BY <1>1, TypeCorrect, HotkeysHaveKeysAlways, PTL
=============================================================================
