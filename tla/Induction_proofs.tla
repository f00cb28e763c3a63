-------------------------- MODULE Induction_proofs --------------------------
(***************************************************************************)
(* Induction over the natural numbers and over sequences, with a set in    *)
(* the place of a predicate, and with it what FlattenSeq and FoldLeft      *)
(* return.  Both, like every recursive function, are a CHOICE of a         *)
(* function that satisfies an equation, so that there is one has to be     *)
(* shown first.                                                            *)
(***************************************************************************)
EXTENDS Integers, SequencesExt, WellFoundedInduction, SequenceTheorems, TLAPS

\* The order of the naturals as a relation.
Less == {ss \in Nat \X Nat : ss[1] < ss[2]}

\* It is well-founded.
LEMMA LessIsWellFounded == IsWellFoundedOn(Less, Nat)
<1>1. OpToRel(<, Nat) = Less
  BY DEF OpToRel, Less
<1> QED BY <1>1, NatLessThanWellFounded

\* A set of naturals that is not empty has a least element.
LEMMA LeastNat ==
    ASSUME NEW T, T \subseteq Nat, T # {}
    PROVE  \E n \in T : \A m \in T : n <= m
<1>1. PICK n \in T : \A m \in T : ~ (<<m, n>> \in Less)
  BY LessIsWellFounded, WFMin
<1>2. ASSUME NEW m \in T, m < n
      PROVE  FALSE
  <2>1. <<m, n>> \in Nat \X Nat /\ <<m, n>>[1] < <<m, n>>[2]
    BY <1>2
  <2>2. <<m, n>> \in Less
    BY ONLY <2>1 DEF Less
  <2> QED BY <1>1, <2>2
<1> QED BY <1>2

-----------------------------------------------------------------------------
(* Sequences.                                                              *)

\* s is a sequence, of whatever elements.
IsSequence(s) == s \in Seq({s[i] : i \in DOMAIN s})

\* Every member of a Seq(X) is one.
LEMMA SequenceOf ==
    ASSUME NEW X, NEW s \in Seq(X)
    PROVE  IsSequence(s)
<1>1. Len(s) \in Nat /\ DOMAIN s = 1..Len(s) /\ s \in [1..Len(s) -> X]
  BY LenProperties
<1>2. s \in [1..Len(s) -> {s[i] : i \in DOMAIN s}]
  BY <1>1
<1> QED BY <1>1, <1>2, SeqDef DEF IsSequence

\* Short tuples are sequences.
LEMMA TuplesAreSequences ==
    ASSUME NEW a, NEW b
    PROVE  IsSequence(<< >>) /\ IsSequence(<<a>>) /\ IsSequence(<<a, b>>)
<1>1. << >> \in Seq({a, b}) /\ <<a>> \in Seq({a, b}) /\ <<a, b>> \in Seq({a, b})
  OBVIOUS
<1> QED BY <1>1, SequenceOf

\* A function on 1..n is one.
LEMMA FunctionIsSequence ==
    ASSUME NEW n \in Nat, NEW s, s = [i \in 1..n |-> s[i]]
    PROVE  IsSequence(s)
<1>1. s \in [1..n -> {s[i] : i \in DOMAIN s}]
  OBVIOUS
<1> QED BY <1>1, SeqDef DEF IsSequence

\* Concatenations of at most one element each.
LEMMA ShortConcats ==
    ASSUME NEW a, NEW b
    PROVE  /\ << >> \o << >> = << >> /\ <<a>> \o << >> = <<a>>
           /\ << >> \o <<b>> = <<b>> /\ <<a>> \o <<b>> = <<a, b>>
<1> DEFINE X == {a, b}
<1>1. << >> \in Seq(X) /\ <<a>> \in Seq(X) /\ <<b>> \in Seq(X) /\ <<a, b>> \in Seq(X)
  OBVIOUS
<1>2. /\ << >> \o << >> = << >> /\ <<a>> \o << >> = <<a>> /\ << >> \o <<b>> = <<b>>
  BY <1>1, ConcatEmptySeq
<1>3. /\ <<a>> \o <<b>> \in Seq(X) /\ Len(<<a>> \o <<b>>) = 2
      /\ (<<a>> \o <<b>>)[1] = a /\ (<<a>> \o <<b>>)[2] = b
  <2>1. Len(<<a>>) = 1 /\ Len(<<b>>) = 1
    OBVIOUS
  <2>2. /\ <<a>> \o <<b>> \in Seq(X) /\ Len(<<a>> \o <<b>>) = 2
        /\ \A i \in 1..2 : (<<a>> \o <<b>>)[i] = IF i <= 1 THEN <<a>>[i] ELSE <<b>>[i - 1]
    BY <1>1, <2>1, ConcatProperties
  <2> HIDE DEF X
  <2> QED BY <2>2
<1>4. <<a>> \o <<b>> = <<a, b>>
  <2>1. Len(<<a, b>>) = 2 /\ <<a, b>>[1] = a /\ <<a, b>>[2] = b
    OBVIOUS
  <2>2. \A i \in 1..2 : (<<a>> \o <<b>>)[i] = <<a, b>>[i]
    BY <1>3, <2>1
  <2> HIDE DEF X
  <2> QED BY <1>1, <1>3, <2>1, <2>2, SeqEqual
<1> QED BY <1>2, <1>4

\* Every element of a concatenation comes from one side, in its order.
LEMMA ConcatOfSequences ==
    ASSUME NEW s, IsSequence(s), NEW t, IsSequence(t)
    PROVE  /\ IsSequence(s \o t)
           /\ Len(s) \in Nat /\ DOMAIN s = 1..Len(s)
           /\ Len(t) \in Nat /\ DOMAIN t = 1..Len(t)
           /\ DOMAIN (s \o t) = 1..(Len(s) + Len(t))
           /\ \A i \in 1..(Len(s) + Len(t)) :
                 (s \o t)[i] = IF i <= Len(s) THEN s[i] ELSE t[i - Len(s)]
<1> DEFINE X == {s[i] : i \in DOMAIN s} \cup {t[i] : i \in DOMAIN t}
<1>1. s \in Seq(X) /\ t \in Seq(X)
  BY SeqMonotonic DEF IsSequence
<1> HIDE DEF X
<1>2. /\ s \o t \in Seq(X)
      /\ Len(s \o t) = Len(s) + Len(t)
      /\ \A i \in 1..(Len(s) + Len(t)) :
            (s \o t)[i] = IF i <= Len(s) THEN s[i] ELSE t[i - Len(s)]
  BY <1>1, ConcatProperties
<1>3. DOMAIN (s \o t) = 1..Len(s \o t) /\ IsSequence(s \o t)
  BY <1>2, LenProperties, SequenceOf
<1>4. Len(s) \in Nat /\ DOMAIN s = 1..Len(s) /\ Len(t) \in Nat /\ DOMAIN t = 1..Len(t)
  BY <1>1, LenProperties
<1> QED BY <1>2, <1>3, <1>4

\* Induction over sequences: of those in T, one is empty or one element longer than one
\* that is not in T.
LEMMA ShortestSeq ==
    ASSUME NEW X, NEW T, T \subseteq Seq(X), T # {}
    PROVE  \/ << >> \in T
           \/ \E s \in Seq(X), x \in X : s \notin T /\ Append(s, x) \in T
<1> DEFINE N == {n \in Nat : \E s \in T : Len(s) = n}
<1>1. PICK n \in N : \A m \in N : n <= m
  <2>1. N \subseteq Nat /\ N # {}
    OBVIOUS
  <2> HIDE DEF N
  <2> QED BY <2>1, LeastNat
<1>2. PICK t \in T : Len(t) = n
  OBVIOUS
<1>3. CASE t = << >>
  BY <1>2, <1>3
<1>4. CASE t # << >>
  <2>1. PICK s \in Seq(X), x \in X : t = Append(s, x)
    BY <1>2, <1>4, SequenceEmptyOrAppend
  <2>2. Len(s) \in Nat /\ n = Len(s) + 1
    BY <2>1, <1>2, AppendProperties
  <2>3. s \notin T
    <3>1. ASSUME s \in T PROVE FALSE
      <4>1. Len(s) \in N
        BY <3>1, <2>2
      <4> QED BY <1>1, <2>2, <4>1
    <3> QED BY <3>1
  <2> QED BY <1>2, <2>1, <2>3
<1> QED BY <1>3, <1>4

-----------------------------------------------------------------------------
(* FlattenSeq.                                                             *)

\* f lists what FlattenSeq has come to after 1 to n sequences.
Flattens(f, seqs, n) ==
    f = [i \in 1..n |-> IF i = 1 THEN seqs[i] ELSE f[i-1] \o seqs[i]]

\* There is one.
LEMMA FlattensExists ==
    ASSUME NEW seqs, NEW n \in Nat
    PROVE  \E f : Flattens(f, seqs, n)
<1> DEFINE T == {m \in Nat : ~ \E f : Flattens(f, seqs, m)}
<1>1. SUFFICES ASSUME T # {} PROVE FALSE
  OBVIOUS
<1>2. PICK m \in T : \A k \in T : m <= k
  <2>1. T \subseteq Nat
    OBVIOUS
  <2> HIDE DEF T
  <2> QED BY <1>1, <2>1, LeastNat
<1>3. m # 0
  <2>1. Flattens([i \in 1..0 |-> 0], seqs, 0)
    BY DEF Flattens
  <2> QED BY <2>1
<1>4. m \in Nat /\ m - 1 \in Nat /\ m - 1 \notin T
  BY <1>2, <1>3
<1>5. PICK f : Flattens(f, seqs, m - 1)
  BY <1>4
<1> DEFINE g == [i \in 1..m |-> IF i = 1 THEN seqs[i] ELSE f[i - 1] \o seqs[i]]
<1>6. \A i \in 1..(m - 1) : g[i] = f[i]
  <2>1. \A i \in 1..(m - 1) : f[i] = IF i = 1 THEN seqs[i] ELSE f[i - 1] \o seqs[i]
    BY <1>5 DEF Flattens
  <2> QED BY <2>1, <1>4
<1>7. Flattens(g, seqs, m)
  <2>1. \A i \in 1..m : i # 1 => g[i - 1] = f[i - 1]
    <3> HIDE DEF g
    <3> QED BY <1>6, <1>4
  <2> QED BY <2>1, <1>4 DEF Flattens
<1> QED BY <1>7, <1>2

\* FlattenSeq returns a sequence of what its sequences hold.
LEMMA FlattenSeqType ==
    ASSUME NEW X, NEW seqs \in Seq(Seq(X))
    PROVE  FlattenSeq(seqs) \in Seq(X)
<1> DEFINE n == Len(seqs)
           f == CHOOSE g : Flattens(g, seqs, n)
<1>1. CASE n = 0
  BY <1>1 DEF FlattenSeq
<1>2. CASE n # 0
  <2>1. n \in Nat \ {0} /\ \A i \in 1..n : seqs[i] \in Seq(X)
    BY <1>2
  <2>2. FlattenSeq(seqs) = f[n]
    BY <1>2 DEF FlattenSeq, Flattens
  <2>3. Flattens(f, seqs, n)
    BY <2>1, FlattensExists
  <2> HIDE DEF n, f
  <2>4. \A i \in 1..n : f[i] = IF i = 1 THEN seqs[i] ELSE f[i - 1] \o seqs[i]
    BY <2>3 DEF Flattens
  <2> DEFINE T == {i \in 1..n : f[i] \notin Seq(X)}
  <2>5. ASSUME T # {} PROVE FALSE
    <3>1. T \subseteq Nat
      BY <2>1
    <3>2. PICK i \in T : \A k \in T : i <= k
      <4> HIDE DEF T
      <4> QED BY <2>5, <3>1, LeastNat
    <3>3. i \in 1..n /\ i # 1
      BY <2>1, <2>4, <3>2
    <3>4. i - 1 \in 1..n /\ i - 1 \notin T
      BY <2>1, <3>2, <3>3
    <3>5. f[i - 1] \in Seq(X) /\ seqs[i] \in Seq(X) /\ f[i] = f[i - 1] \o seqs[i]
      BY <2>1, <2>4, <3>3, <3>4
    <3>6. f[i] \in Seq(X)
      BY <3>5
    <3> QED BY <3>2, <3>6
  <2> QED BY <2>1, <2>2, <2>5
<1> QED BY <1>1, <1>2

\* What FlattenSeq returns is the last of what it has come to.
LEMMA FlattenSeqIs ==
    ASSUME NEW seqs, Len(seqs) \in Nat \ {0}
    PROVE  \E f : Flattens(f, seqs, Len(seqs)) /\ FlattenSeq(seqs) = f[Len(seqs)]
<1> DEFINE n == Len(seqs)
           f == CHOOSE g : Flattens(g, seqs, n)
<1>1. FlattenSeq(seqs) = f[n]
  BY DEF FlattenSeq, Flattens
<1>2. Flattens(f, seqs, n)
  BY FlattensExists
<1> HIDE DEF f
<1> QED BY <1>1, <1>2

\* FlattenSeq, one sequence after the other.
LEMMA FlattenSeqAppend ==
    ASSUME NEW X, NEW seqs \in Seq(Seq(X)), NEW s \in Seq(X)
    PROVE  FlattenSeq(Append(seqs, s)) = FlattenSeq(seqs) \o s
<1> DEFINE n == Len(seqs)
           more == Append(seqs, s)
<1>1. /\ n \in Nat /\ Len(more) = n + 1 /\ more[n + 1] = s
      /\ \A i \in 1..n : more[i] = seqs[i]
  BY AppendProperties
<1>2. PICK g : Flattens(g, more, n + 1) /\ FlattenSeq(more) = g[n + 1]
  <2>1. Len(more) \in Nat \ {0} /\ Len(more) = n + 1
    BY <1>1
  <2> HIDE DEF more, n
  <2> QED BY <2>1, FlattenSeqIs
<1> HIDE DEF more, n
<1>3. \A i \in 1..(n + 1) : g[i] = IF i = 1 THEN more[i] ELSE g[i - 1] \o more[i]
  BY <1>2, <1>1 DEF Flattens
<1>4. CASE n = 0
  <2>1. seqs = << >> /\ FlattenSeq(seqs) = << >>
    BY <1>4, EmptySeq DEF n, FlattenSeq
  <2>2. << >> \o s = s
    BY ConcatEmptySeq
  <2>3. g[n + 1] = s
    BY <1>1, <1>3, <1>4
  <2> QED BY <1>2, <2>1, <2>2, <2>3 DEF more
<1>5. CASE n # 0
  <2>1. PICK f : Flattens(f, seqs, n) /\ FlattenSeq(seqs) = f[n]
    BY <1>1, <1>5, FlattenSeqIs DEF n
  <2>2. \A i \in 1..n : f[i] = IF i = 1 THEN seqs[i] ELSE f[i - 1] \o seqs[i]
    BY <2>1, <1>1 DEF Flattens
  <2> DEFINE T == {i \in 1..n : f[i] # g[i]}
  <2>3. ASSUME T # {} PROVE FALSE
    <3>1. T \subseteq Nat
      BY <1>1
    <3>2. PICK i \in T : \A k \in T : i <= k
      <4> HIDE DEF T
      <4> QED BY <2>3, <3>1, LeastNat
    <3>3. i \in 1..n /\ i # 1
      BY <1>1, <1>3, <2>2, <3>2
    <3>4. i - 1 \in 1..n /\ i - 1 \notin T
      BY <1>1, <3>2, <3>3
    <3>5. f[i - 1] = g[i - 1] /\ f[i] = f[i - 1] \o seqs[i]
      BY <1>1, <2>2, <3>3, <3>4
    <3>6. g[i] = g[i - 1] \o seqs[i]
      <4>1. i \in 1..(n + 1) /\ more[i] = seqs[i]
        BY <1>1, <3>3
      <4> HIDE DEF T
      <4> QED BY <4>1, <1>3, <3>3
    <3> QED BY <3>2, <3>5, <3>6
  <2>4. f[n] = g[n]
    <3>1. n \in Nat
      BY <1>1
    <3>2. n \in 1..n
      BY ONLY <1>5, <3>1
    <3> QED BY ONLY <2>3, <3>2
  <2>5. g[n + 1] = g[n] \o s
    <3>1. n + 1 \in 1..(n + 1) /\ n + 1 # 1 /\ (n + 1) - 1 = n
      <4>1. n \in Nat
        BY <1>1
      <4>2. n # 0
        BY <1>5
      <4> QED BY ONLY <4>1, <4>2
    <3>2. g[n + 1] = g[(n + 1) - 1] \o more[n + 1]
      BY <3>1, <1>3
    <3> QED BY ONLY <3>1, <3>2, <1>1
  <2> QED BY <1>2, <2>1, <2>4, <2>5 DEF more
<1> QED BY <1>4, <1>5

LEMMA FlattenSeqEmpty == FlattenSeq(<< >>) = << >>
BY DEF FlattenSeq

\* It is empty if and only if all of them are.
LEMMA FlattenSeqIsEmpty ==
    ASSUME NEW X, NEW seqs \in Seq(Seq(X))
    PROVE  FlattenSeq(seqs) = << >> <=> \A i \in DOMAIN seqs : seqs[i] = << >>
<1> DEFINE Fits(s) == FlattenSeq(s) = << >> <=> \A i \in DOMAIN s : s[i] = << >>
           T == {s \in Seq(Seq(X)) : ~Fits(s)}
<1>1. Fits(<< >>)
  BY FlattenSeqEmpty
<1>2. ASSUME NEW s \in Seq(Seq(X)), NEW x \in Seq(X), Fits(s)
      PROVE  Fits(Append(s, x))
  <2> DEFINE more == Append(s, x)
  <2>1. /\ Len(s) \in Nat /\ DOMAIN s = 1..Len(s) /\ DOMAIN more = 1..(Len(s) + 1)
        /\ more[Len(s) + 1] = x /\ \A i \in 1..Len(s) : more[i] = s[i]
    <3>1. more \in Seq(Seq(X)) /\ Len(more) = Len(s) + 1
      BY AppendProperties
    <3> QED BY <3>1, AppendProperties, LenProperties
  <2>2. FlattenSeq(more) = FlattenSeq(s) \o x /\ FlattenSeq(s) \in Seq(X)
    BY FlattenSeqAppend, FlattenSeqType
  <2>3. FlattenSeq(more) = << >> <=> FlattenSeq(s) = << >> /\ x = << >>
    BY <2>2, ConcatEqualIffEmpty
  <2> HIDE DEF more
  <2>4. (\A i \in DOMAIN more : more[i] = << >>) <=>
          (\A i \in DOMAIN s : s[i] = << >>) /\ x = << >>
    <3>1. \A i \in 1..(Len(s) + 1) : i \in 1..Len(s) \/ i = Len(s) + 1
      BY <2>1
    <3>2. Len(s) + 1 \in 1..(Len(s) + 1) /\ \A i \in 1..Len(s) : i \in 1..(Len(s) + 1)
      BY <2>1
    <3> QED BY <2>1, <3>1, <3>2
  <2>5. Fits(more)
    BY <1>2, <2>3, <2>4
  <2> QED BY <2>5 DEF more
<1>3. T = {}
  <2>1. T \subseteq Seq(Seq(X)) /\ << >> \notin T
    BY <1>1
  <2>2. \A s \in Seq(Seq(X)), x \in Seq(X) : s \notin T => Append(s, x) \notin T
    BY <1>2
  <2> HIDE DEF T
  <2> QED BY <2>1, <2>2, ShortestSeq
<1> QED BY <1>3

\* The length of a function on 1..n.
LEMMA FunctionLen ==
    ASSUME NEW X, NEW n \in Nat, NEW f \in [1..n -> X]
    PROVE  f \in Seq(X) /\ Len(f) = n
<1>1. f \in Seq(X)
  BY SeqDef
<1>2. DOMAIN f = 1..n /\ DOMAIN f = 1..Len(f) /\ Len(f) \in Nat
  BY <1>1, LenProperties
<1>3. 1..n = 1..Len(f)
  BY <1>2
<1>4. Len(f) = n
  BY ONLY <1>2, <1>3, n \in Nat
<1> QED BY <1>1, <1>4

\* t begins as s does, and has x more.
OneMore(X, s, x, t) ==
    /\ s \in Seq(X) /\ x \in X
    /\ DOMAIN t = 1..(Len(s) + 1) /\ t = [i \in DOMAIN t |-> t[i]]
    /\ \A i \in 1..Len(s) : t[i] = s[i]
    /\ t[Len(s) + 1] = x

LEMMA AppendIs ==
    ASSUME NEW X, NEW s, NEW x, NEW t, OneMore(X, s, x, t)
    PROVE  t = Append(s, x)
<1> DEFINE n == Len(s)
           more == Append(s, x)
<1>1. /\ n \in Nat /\ more \in Seq(X) /\ Len(more) = n + 1 /\ more[n + 1] = x
      /\ \A i \in 1..n : more[i] = s[i]
  <2>1. s \in Seq(X) /\ x \in X
    BY DEF OneMore
  <2> QED BY <2>1, AppendProperties
<1>2. DOMAIN more = 1..(n + 1) /\ more = [i \in DOMAIN more |-> more[i]]
  BY <1>1, LenProperties
<1>3. \A i \in 1..(n + 1) : t[i] = more[i]
  <2>1. \A i \in 1..(n + 1) : i \in 1..n \/ i = n + 1
    BY <1>1
  <2> HIDE DEF more
  <2> QED BY <1>1, <2>1 DEF OneMore
<1> HIDE DEF more
<1>4. DOMAIN t = 1..(n + 1) /\ t = [i \in DOMAIN t |-> t[i]]
  BY DEF OneMore
<1> HIDE DEF n
<1>5. t = more
  BY <1>2, <1>3, <1>4
<1> QED BY <1>5 DEF more

\* FlattenSeq of one sequence more.
LEMMA FlattenMore ==
    ASSUME NEW X, NEW f, NEW x, NEW g, OneMore(Seq(X), f, x, g)
    PROVE  FlattenSeq(g) = FlattenSeq(f) \o x
<1>1. g = Append(f, x)
  BY AppendIs
<1>2. f \in Seq(Seq(X)) /\ x \in Seq(X)
  BY DEF OneMore
<1> QED BY <1>1, <1>2, FlattenSeqAppend

-----------------------------------------------------------------------------
(* FoldLeft, which the library reduces to a fold over the sets of indices, *)
(* the greatest first: the steps it takes, one after the other.  A step is *)
(* a function here, because no prover takes a lemma about every operator;  *)
(* each fold of the model is brought into this form where it is used.      *)

\* The greatest of a set of which m is the greatest.
LEMMA MaxIs ==
    ASSUME NEW m \in Nat, NEW s \in SUBSET (1..m), m \in s
    PROVE  Max(s) = m
<1>1. m \in s /\ \A y \in s : m >= y
  OBVIOUS
<1>2. ASSUME NEW x \in s, \A y \in s : x >= y PROVE x = m
  <2>1. x >= m /\ m >= x /\ x \in Nat
    BY <1>1, <1>2
  <2> QED BY <2>1
<1> QED BY <1>1, <1>2 DEF Max

\* it folds any subset of 1..m, beginning with base and with the step H[i] for each i.
FoldsSets(it, base, H, m) ==
    it = [s \in SUBSET (1..m) |->
            IF s = {} THEN base ELSE H[Max(s)][it[s \ {Max(s)}]]]

\* There is one.
LEMMA FoldsSetsExists ==
    ASSUME NEW n \in Nat, NEW Acc, NEW base \in Acc, NEW H \in [1..n -> [Acc -> Acc]]
    PROVE  \E it \in [SUBSET (1..n) -> Acc] : FoldsSets(it, base, H, n)
<1> DEFINE T == {m \in 0..n : ~ \E it \in [SUBSET (1..m) -> Acc] : FoldsSets(it, base, H, m)}
<1>1. SUFFICES ASSUME T # {} PROVE FALSE
  <2>1. n \notin T
    <3> HIDE DEF T
    <3> QED BY <1>1
  <2>2. n \in 0..n
    OBVIOUS
  <2> QED BY <2>1, <2>2
<1>2. PICK m \in T : \A k \in T : m <= k
  <2>1. T \subseteq Nat
    OBVIOUS
  <2> HIDE DEF T
  <2> QED BY <1>1, <2>1, LeastNat
<1>3. m # 0
  <2> DEFINE it == [s \in SUBSET (1..0) |-> base]
  <2>1. it \in [SUBSET (1..0) -> Acc] /\ \A s \in SUBSET (1..0) : s = {}
    OBVIOUS
  <2>2. FoldsSets(it, base, H, 0)
    BY <2>1 DEF FoldsSets
  <2> QED BY <2>1, <2>2
<1>4. m \in 1..n /\ m - 1 \in 0..n /\ m - 1 \notin T
  <2>1. m \in 0..n
    OBVIOUS
  <2> HIDE DEF T
  <2> QED BY <2>1, <1>2, <1>3
<1>5. PICK it \in [SUBSET (1..(m - 1)) -> Acc] : FoldsSets(it, base, H, m - 1)
  BY <1>4
<1> DEFINE g == [s \in SUBSET (1..m) |->
                   IF m \in s THEN H[m][it[s \ {m}]] ELSE it[s]]
<1> HIDE DEF T
<1>6. ASSUME NEW s \in SUBSET (1..m) PROVE s \ {m} \in SUBSET (1..(m - 1))
  BY <1>4
<1>7. g \in [SUBSET (1..m) -> Acc]
  <2>1. ASSUME NEW s \in SUBSET (1..m) PROVE g[s] \in Acc
    <3>1. CASE m \in s
      <4>1. it[s \ {m}] \in Acc /\ H[m] \in [Acc -> Acc]
        BY <1>4, <1>6
      <4> QED BY <3>1, <4>1
    <3>2. CASE m \notin s
      <4>1. s \in SUBSET (1..(m - 1))
        BY <3>2, <1>6
      <4> QED BY <3>2, <4>1
    <3> QED BY <3>1, <3>2
  <2> QED BY <2>1
<1>8. \A s \in SUBSET (1..(m - 1)) : g[s] = it[s]
  BY <1>4
<1>9. ASSUME NEW s \in SUBSET (1..m)
      PROVE  g[s] = IF s = {} THEN base ELSE H[Max(s)][g[s \ {Max(s)}]]
  <2>1. CASE m \in s
    <3>1. Max(s) = m /\ s # {}
      BY <2>1, <1>4, MaxIs
    <3>2. g[s \ {m}] = it[s \ {m}] /\ g[s] = H[m][it[s \ {m}]]
      BY <2>1, <1>6, <1>8
    <3> QED BY <3>1, <3>2
  <2>2. CASE m \notin s
    <3>1. s \in SUBSET (1..(m - 1)) /\ s \ {Max(s)} \in SUBSET (1..(m - 1))
      BY <2>2, <1>6
    <3>2. it[s] = IF s = {} THEN base ELSE H[Max(s)][it[s \ {Max(s)}]]
      BY <3>1, <1>5 DEF FoldsSets
    <3>3. g[s] = it[s] /\ g[s \ {Max(s)}] = it[s \ {Max(s)}]
      BY <3>1, <1>8
    <3> QED BY <3>2, <3>3
  <2> QED BY <2>1, <2>2
<1>10. FoldsSets(g, base, H, m)
  <2>1. g = [s \in SUBSET (1..m) |-> g[s]]
    OBVIOUS
  <2> HIDE DEF g
  <2> QED BY <2>1, <1>9 DEF FoldsSets
<1> HIDE DEF g
<1> QED BY <1>2, <1>7, <1>10 DEF T

\* t lists what a fold with the steps H has come to after 0 to n of them.
Traces(t, base, H, n, Acc) ==
    /\ n \in Nat /\ base \in Acc /\ H \in [1..n -> [Acc -> Acc]]
    /\ t[0] = base
    /\ \A i \in 1..n : t[i - 1] \in Acc => t[i] = H[i][t[i - 1]]

\* There is only one, and it stays in Acc.
LEMMA TracesAgree ==
    ASSUME NEW n, NEW Acc, NEW base, NEW H,
           NEW t, NEW u, Traces(t, base, H, n, Acc), Traces(u, base, H, n, Acc)
    PROVE  t[n] \in Acc /\ t[n] = u[n]
<1>0. n \in Nat
  BY DEF Traces
<1> DEFINE T == {i \in 0..n : ~(t[i] \in Acc /\ t[i] = u[i])}
<1>1. SUFFICES ASSUME T # {} PROVE FALSE
  <2>1. n \in 0..n
    BY <1>0
  <2> QED BY <2>1
<1>2. PICK i \in T : \A k \in T : i <= k
  <2>1. T \subseteq Nat
    OBVIOUS
  <2> HIDE DEF T
  <2> QED BY <1>1, <2>1, LeastNat
<1>3. i # 0
  BY <1>2 DEF Traces
<1>4. i \in 1..n /\ i - 1 \in 0..n /\ i - 1 \notin T
  BY <1>0, <1>2, <1>3
<1>5. t[i - 1] \in Acc /\ t[i - 1] = u[i - 1]
  BY <1>4
<1>6. t[i] = H[i][t[i - 1]] /\ u[i] = H[i][u[i - 1]] /\ H[i] \in [Acc -> Acc]
  BY <1>4, <1>5 DEF Traces
<1> QED BY <1>2, <1>5, <1>6

\* With one step more it comes to that step's value.
StepsMore(H, K, n, m) == m = n + 1 /\ \A i \in 1..n : K[i] = H[i]

LEMMA TraceMore ==
    ASSUME NEW n, NEW m, NEW Acc, NEW base, NEW H, NEW K, NEW t, NEW u,
           Traces(t, base, H, n, Acc), Traces(u, base, K, m, Acc), StepsMore(H, K, n, m)
    PROVE  t[n] \in Acc /\ u[m] = K[m][t[n]]
<1>1. n \in Nat /\ m = n + 1
  BY DEF Traces, StepsMore
<1>2. \A i \in 1..m : u[i - 1] \in Acc => u[i] = K[i][u[i - 1]]
  BY DEF Traces
<1>3. Traces(u, base, H, n, Acc)
  <2>1. \A i \in 1..n : i \in 1..m /\ K[i] = H[i]
    BY <1>1 DEF StepsMore
  <2> QED BY <1>2, <2>1 DEF Traces
<1>4. t[n] \in Acc /\ t[n] = u[n]
  BY <1>3, TracesAgree
<1>5. m \in 1..m /\ m - 1 = n
  BY <1>1
<1> QED BY <1>2, <1>4, <1>5

\* A set of numbers that is not empty has a greatest, which Max returns.
LEMMA MaxIn ==
    ASSUME NEW n \in Nat, NEW s \in SUBSET (1..n), s # {}
    PROVE  Max(s) \in s
<1> DEFINE T == {n - x : x \in s}
<1>1. PICK k \in T : \A m \in T : k <= m
  <2>1. T \subseteq Nat
    OBVIOUS
  <2>2. T # {}
    <3>1. PICK x \in s : TRUE
      OBVIOUS
    <3>2. n - x \in T
      OBVIOUS
    <3> QED BY <3>2
  <2> HIDE DEF T
  <2> QED BY <2>1, <2>2, LeastNat
<1>2. PICK x \in s : k = n - x
  OBVIOUS
<1>3. \A y \in s : n - y \in T
  OBVIOUS
<1>4. ASSUME NEW y \in s PROVE x >= y
  <2>1. n - x <= n - y
    BY <1>1, <1>2, <1>3
  <2>2. x \in Nat /\ y \in Nat
    OBVIOUS
  <2> QED BY ONLY <2>1, <2>2, n \in Nat
<1> HIDE DEF T
<1> QED BY <1>4 DEF Max

\* c computes a fold on sets: the steps H, as long as the values stay in Acc.
FoldedOn(c, base, H, n, Acc) ==
    /\ n \in Nat /\ base \in Acc /\ H \in [1..n -> [Acc -> Acc]]
    /\ c[{}] = base
    /\ \A s \in SUBSET (1..n) :
          s # {} /\ c[s \ {Max(s)}] \in Acc => c[s] = H[Max(s)][c[s \ {Max(s)}]]

\* On the sets 1..k it is a trace.
LEMMA FoldTraces ==
    ASSUME NEW n, NEW Acc, NEW base, NEW H, NEW c, FoldedOn(c, base, H, n, Acc)
    PROVE  \E t : Traces(t, base, H, n, Acc) /\ t[n] = c[1..n]
<1> DEFINE t == [k \in 0..n |-> c[1..k]]
<1>0. n \in Nat
  BY DEF FoldedOn
<1>1. t[0] = base
  <2>1. 1..0 = {}
    OBVIOUS
  <2> QED BY <1>0, <2>1 DEF FoldedOn
<1>2. ASSUME NEW i \in 1..n, t[i - 1] \in Acc
      PROVE  t[i] = H[i][t[i - 1]]
  <2>1. (1..i) \in SUBSET (1..n) /\ i \in 1..i /\ (1..i) \ {i} = 1..(i - 1)
    BY <1>0
  <2>2. Max(1..i) = i
    <3>1. i \in Nat /\ (1..i) \in SUBSET (1..i)
      BY <1>0
    <3> QED BY <2>1, <3>1, MaxIs
  <2>3. t[i] = c[1..i] /\ t[i - 1] = c[1..(i - 1)]
    BY <1>0
  <2> HIDE DEF t
  <2>4. /\ (1..i) # {} /\ (1..i) \ {Max(1..i)} = 1..(i - 1)
        /\ c[(1..i) \ {Max(1..i)}] \in Acc
    BY <1>2, <2>1, <2>2, <2>3
  <2>5. \A s \in SUBSET (1..n) :
           s # {} /\ c[s \ {Max(s)}] \in Acc => c[s] = H[Max(s)][c[s \ {Max(s)}]]
    BY DEF FoldedOn
  <2>6. c[1..i] = H[Max(1..i)][c[(1..i) \ {Max(1..i)}]]
    BY ONLY <2>1, <2>4, <2>5
  <2> QED BY ONLY <2>2, <2>3, <2>4, <2>6
<1>3. t[n] = c[1..n]
  <2>1. n \in 0..n
    BY ONLY <1>0
  <2>2. \A k \in 0..n : t[k] = c[1..k]
    BY ONLY DEF t
  <2> HIDE DEF t
  <2> QED BY ONLY <2>1, <2>2
<1> HIDE DEF t
<1>4. Traces(t, base, H, n, Acc)
  BY <1>1, <1>2 DEF Traces, FoldedOn
<1> QED BY <1>3, <1>4
=============================================================================
