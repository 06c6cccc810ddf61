--------------------------- MODULE PlacementProofs ---------------------------
(***************************************************************************)
(* Proofs about Placement, for every set of configurations and trees.  The *)
(* rules across groups compare only what is configured; that they hold for *)
(* every group found later, too, rests on two prefixes of one path being   *)
(* comparable.  That names keep members and groups apart, whatever the     *)
(* templates, is proved by induction over the components of templates.     *)
(***************************************************************************)
EXTENDS Placement, FiniteSetTheorems, SequenceTheorems, WellFoundedInduction, TLAPS

(***************************************************************************)
(* Prefixes.                                                               *)
(***************************************************************************)

\* IsPrefix, position by position.
LEMMA PrefixByElements ==
    ASSUME NEW S, NEW p \in Seq(S), NEW q \in Seq(S)
    PROVE  IsPrefix(p, q) <=> Len(p) <= Len(q) /\ \A i \in 1..Len(p) : p[i] = q[i]
<1>1. ASSUME Len(p) <= Len(q)
      PROVE  SubSeq(p, 1, Len(p)) = SubSeq(q, 1, Len(p)) <=> \A i \in 1..Len(p) : p[i] = q[i]
  <2>1. /\ SubSeq(p, 1, Len(p)) \in Seq(S) /\ Len(SubSeq(p, 1, Len(p))) = Len(p)
        /\ SubSeq(q, 1, Len(p)) \in Seq(S) /\ Len(SubSeq(q, 1, Len(p))) = Len(p)
    BY <1>1
  <2>2. \A i \in 1..Len(p) : SubSeq(p, 1, Len(p))[i] = p[i] /\ SubSeq(q, 1, Len(p))[i] = q[i]
    BY <1>1
  <2> QED
    BY <2>1, <2>2
<1> QED
  BY <1>1 DEF IsPrefix

\* What starts with p \o x starts with p.
LEMMA PrefixOfFront ==
    ASSUME NEW S, NEW p \in Seq(S), NEW x \in Seq(S), NEW q \in Seq(S), IsPrefix(p \o x, q)
    PROVE  IsPrefix(p, q)
<1>1. p \o x \in Seq(S) /\ Len(p \o x) = Len(p) + Len(x) /\ \A i \in 1..Len(p) : (p \o x)[i] = p[i]
  OBVIOUS
<1>2. Len(p \o x) <= Len(q) /\ \A i \in 1..Len(p \o x) : (p \o x)[i] = q[i]
  BY <1>1, PrefixByElements
<1>3. Len(p) <= Len(q) /\ \A i \in 1..Len(p) : p[i] = q[i]
  BY <1>1, <1>2
<1> QED
  BY <1>3, PrefixByElements

\* Every path starts with itself and with each of its fronts.
LEMMA PrefixOfJoined ==
    ASSUME NEW S, NEW p \in Seq(S), NEW x \in Seq(S)
    PROVE  IsPrefix(p, p) /\ IsPrefix(p, p \o x)
<1>1. p \o x \in Seq(S) /\ Len(p \o x) = Len(p) + Len(x) /\ \A i \in 1..Len(p) : (p \o x)[i] = p[i]
  OBVIOUS
<1>2. IsPrefix(p, p)
  BY PrefixByElements
<1>3. Len(p) <= Len(p \o x) /\ \A i \in 1..Len(p) : p[i] = (p \o x)[i]
  BY <1>1
<1>4. IsPrefix(p, p \o x)
  BY <1>1, <1>3, PrefixByElements
<1> QED
  BY <1>2, <1>4

\* Two prefixes of one path are prefixes of each other, one way or the other.
LEMMA PrefixesComparable ==
    ASSUME NEW S, NEW p \in Seq(S), NEW q \in Seq(S), NEW r \in Seq(S),
           IsPrefix(p, r), IsPrefix(q, r)
    PROVE  IsPrefix(p, q) \/ IsPrefix(q, p)
<1>1. Len(p) <= Len(r) /\ \A i \in 1..Len(p) : p[i] = r[i]
  BY PrefixByElements
<1>2. Len(q) <= Len(r) /\ \A i \in 1..Len(q) : q[i] = r[i]
  BY PrefixByElements
<1>3. CASE Len(p) <= Len(q)
  <2>1. \A i \in 1..Len(p) : p[i] = q[i]
    BY <1>1, <1>2, <1>3
  <2> QED
    BY <2>1, <1>3, PrefixByElements
<1>4. CASE Len(q) <= Len(p)
  <2>1. \A i \in 1..Len(q) : q[i] = p[i]
    BY <1>1, <1>2, <1>4
  <2> QED
    BY <2>1, <1>4, PrefixByElements
<1> QED
  BY <1>3, <1>4

\* Of two different continuations of equal length neither path contains the other.
LEMMA SiblingsApart ==
    ASSUME NEW S, NEW p \in Seq(S), NEW x \in Seq(S), NEW y \in Seq(S),
           Len(x) = Len(y), IsPrefix(p \o x, p \o y)
    PROVE  x = y
<1>1. p \o x \in Seq(S) /\ Len(p \o x) = Len(p) + Len(x)
      /\ \A i \in 1..Len(x) : (p \o x)[Len(p) + i] = x[i]
  OBVIOUS
<1>2. p \o y \in Seq(S) /\ Len(p \o y) = Len(p) + Len(y)
      /\ \A i \in 1..Len(y) : (p \o y)[Len(p) + i] = y[i]
  OBVIOUS
<1>3. \A i \in 1..Len(p \o x) : (p \o x)[i] = (p \o y)[i]
  <2>1. ASSUME NEW a \in Seq(S), NEW b \in Seq(S), IsPrefix(a, b)
        PROVE  \A i \in 1..Len(a) : a[i] = b[i]
    BY <2>1, PrefixByElements
  <2>2. p \o x \in Seq(S) /\ p \o y \in Seq(S)
    BY <1>1, <1>2
  <2> QED
    BY <2>1, <2>2, Zenon
<1>4. \A i \in 1..Len(x) : x[i] = y[i]
  <2> TAKE i \in 1..Len(x)
  <2>1. Len(p) + i \in 1..Len(p \o x)
    BY <1>1
  <2> QED
    BY <2>1, <1>1, <1>2, <1>3
<1> QED
  BY <1>4

(***************************************************************************)
(* Induction.  The numbers, and so the sequences, that have a property are *)
(* a set: no operator is a parameter.                                      *)
(***************************************************************************)

\* Every set of naturals but the empty one has a smallest element.
LEMMA SmallestOf ==
    ASSUME NEW T, T \subseteq Nat, T # {}
    PROVE  \E n \in T : \A m \in T : n <= m
<1>1. IsWellFoundedOn(OpToRel(<, Nat), Nat)
  BY NatLessThanWellFounded
<1>2. PICK n \in T : \A m \in T : ~ (<<m, n>> \in OpToRel(<, Nat))
  BY <1>1, WFMin
<1>3. ASSUME NEW m \in T PROVE n <= m
  <2>1. m \in Nat /\ n \in Nat
    OBVIOUS
  <2>2. <<m, n>> \notin OpToRel(<, Nat)
    BY <1>2
  <2>3. ~(m < n)
    BY <2>1, <2>2 DEF OpToRel
  <2> QED
    BY <2>1, <2>3
<1> QED
  BY <1>3

\* So what a set of naturals contains at 0 and one after another is all of them.
LEMMA AllNaturals ==
    ASSUME NEW T, 0 \in T, \A n \in Nat : n \in T => n + 1 \in T
    PROVE  Nat \subseteq T
<1> DEFINE Rest == Nat \ T
<1> SUFFICES ASSUME Rest # {} PROVE FALSE
  OBVIOUS
<1>1. PICK n \in Rest : \A m \in Rest : n <= m
  BY SmallestOf
<1>2. n \in Nat /\ n # 0
  BY <1>1
<1>3. n - 1 \in Nat /\ n - 1 \notin Rest
  BY <1>1, <1>2
<1> QED
  BY <1>2, <1>3

\* A sequence is its front and its last element.
LEMMA FrontAndLast ==
    ASSUME NEW S, NEW n \in Nat, NEW s \in Seq(S), Len(s) = n + 1
    PROVE  LET front == SubSeq(s, 1, n)
           IN  /\ front \in Seq(S) /\ Len(front) = n /\ s[n + 1] \in S
               /\ s = Append(front, s[n + 1])
               /\ \A i \in 1..n : front[i] = s[i]
<1> DEFINE front == SubSeq(s, 1, n)
           t == Append(front, s[n + 1])
<1>1. front \in Seq(S) /\ Len(front) = n /\ s[n + 1] \in S /\ \A i \in 1..n : front[i] = s[i]
  OBVIOUS
<1>2. t \in Seq(S) /\ Len(t) = n + 1 /\ t[n + 1] = s[n + 1] /\ \A i \in 1..n : t[i] = s[i]
  BY <1>1
<1>3. \A i \in 1..Len(s) : s[i] = t[i]
  BY <1>2
<1> HIDE DEF t
<1>4. s = t
  BY <1>2, <1>3, SeqEqual
<1> QED
  BY <1>1, <1>4 DEF t

\* What contains the empty sequence, and with a sequence each that is one longer,
\* contains all of them.
LEMMA AllSequences ==
    ASSUME NEW S, NEW T, <<>> \in T, \A s \in Seq(S) : \A x \in S : s \in T => Append(s, x) \in T
    PROVE  Seq(S) \subseteq T
<1> DEFINE Lengths == {n \in Nat : \A s \in Seq(S) : Len(s) = n => s \in T}
<1>1. 0 \in Lengths
  BY EmptySeq
<1>2. ASSUME NEW n \in Nat, n \in Lengths PROVE n + 1 \in Lengths
  <2> SUFFICES ASSUME NEW s \in Seq(S), Len(s) = n + 1 PROVE s \in T
    OBVIOUS
  <2> DEFINE front == SubSeq(s, 1, n)
  <2>1. front \in Seq(S) /\ Len(front) = n /\ s[n + 1] \in S /\ s = Append(front, s[n + 1])
    BY FrontAndLast
  <2>2. front \in T
    BY <1>2, <2>1
  <2> HIDE DEF front
  <2> QED
    BY <2>1, <2>2
<1>3. Nat \subseteq Lengths
  <2> HIDE DEF Lengths
  <2> QED
    BY <1>1, <1>2, AllNaturals
<1> QED
  BY <1>3

(***************************************************************************)
(* FlattenSeq.                                                             *)
(***************************************************************************)

\* The function FlattenSeq is read off from.
Flattens(f, seqs, n) ==
    f = [i \in 1..n |-> IF i = 1 THEN seqs[i] ELSE f[i-1] \o seqs[i]]

\* There is one such function, as far as it goes ...
LEMMA FlattensUnique ==
    ASSUME NEW seqs, NEW n \in Nat, NEW m \in Nat, n <= m, NEW f, NEW g,
           Flattens(f, seqs, n), Flattens(g, seqs, m)
    PROVE  \A i \in 1..n : f[i] = g[i]
<1> DEFINE Same == {k \in Nat : k + 1 \in 1..n => f[k + 1] = g[k + 1]}
<1>1. 0 \in Same
  BY DEF Flattens
<1>2. ASSUME NEW k \in Nat, k \in Same PROVE k + 1 \in Same
  <2> SUFFICES ASSUME k + 2 \in 1..n PROVE f[k + 2] = g[k + 2]
    OBVIOUS
  <2>1. f[k + 1] = g[k + 1] /\ k + 2 \in 1..m /\ k + 2 # 1 /\ (k + 2) - 1 = k + 1
    BY <1>2
  <2>2. f[k + 2] = f[k + 1] \o seqs[k + 2]
    BY <2>1 DEF Flattens
  <2>3. g[k + 2] = g[k + 1] \o seqs[k + 2]
    BY <2>1 DEF Flattens
  <2> QED
    BY <2>1, <2>2, <2>3
<1>3. Nat \subseteq Same
  <2> HIDE DEF Same
  <2> QED
    BY <1>1, <1>2, AllNaturals
<1>4. ASSUME NEW i \in 1..n PROVE f[i] = g[i]
  <2>1. i - 1 \in Nat /\ (i - 1) + 1 = i
    OBVIOUS
  <2> QED
    BY <1>3, <2>1
<1> QED
  BY <1>4

\* ... there is one ...
LEMMA FlattensExists ==
    ASSUME NEW S, NEW seqs \in Seq(Seq(S))
    PROVE  \A n \in 0..Len(seqs) : \E f \in [1..n -> Seq(S)] : Flattens(f, seqs, n)
<1> DEFINE Some == {n \in Nat : n <= Len(seqs) => \E f \in [1..n -> Seq(S)] : Flattens(f, seqs, n)}
<1>1. 0 \in Some
  <2> DEFINE f == [i \in 1..0 |-> seqs[i]]
  <2>1. f \in [1..0 -> Seq(S)] /\ Flattens(f, seqs, 0)
    BY DEF Flattens
  <2> QED
    BY <2>1
<1>2. ASSUME NEW n \in Nat, n \in Some PROVE n + 1 \in Some
  <2> SUFFICES ASSUME n + 1 <= Len(seqs)
               PROVE  \E f \in [1..n + 1 -> Seq(S)] : Flattens(f, seqs, n + 1)
    OBVIOUS
  <2>1. PICK f \in [1..n -> Seq(S)] : Flattens(f, seqs, n)
    BY <1>2
  <2> DEFINE last == IF n = 0 THEN seqs[1] ELSE f[n] \o seqs[n + 1]
             g == [i \in 1..n + 1 |-> IF i = n + 1 THEN last ELSE f[i]]
  <2>2. \A i \in 1..n + 1 : seqs[i] \in Seq(S)
    OBVIOUS
  <2>3. last \in Seq(S)
    <3>1. CASE n = 0
      BY <2>2, <3>1
    <3>2. CASE n # 0
      <4>1. f[n] \in Seq(S) /\ seqs[n + 1] \in Seq(S)
        BY <2>2, <3>2
      <4> QED
        BY <3>2, <4>1
    <3> QED
      BY <3>1, <3>2
  <2> HIDE DEF last
  <2>4. g \in [1..n + 1 -> Seq(S)]
    BY <2>3
  <2>5. ASSUME NEW i \in 1..n + 1
        PROVE  g[i] = IF i = 1 THEN seqs[i] ELSE g[i-1] \o seqs[i]
    <3>1. CASE i = n + 1 /\ n = 0
      BY <3>1 DEF last
    <3>2. CASE i = n + 1 /\ n # 0
      <4>1. g[i] = f[n] \o seqs[i] /\ i # 1 /\ i - 1 = n
        <5>1. last = f[n] \o seqs[n + 1]
          BY <3>2 DEF last
        <5>2. g[i] = last
          BY <3>2
        <5> HIDE DEF g
        <5> QED
          BY <3>2, <5>1, <5>2
      <4>2. g[i - 1] = f[n]
        BY <3>2, <4>1
      <4> QED
        BY <4>1, <4>2
    <3>3. CASE i # n + 1
      <4>1. i \in 1..n /\ g[i] = f[i]
        BY <3>3
      <4>2. f[i] = IF i = 1 THEN seqs[i] ELSE f[i-1] \o seqs[i]
        BY <2>1, <4>1 DEF Flattens
      <4>3. i # 1 => g[i - 1] = f[i - 1]
        BY <4>1
      <4> QED
        BY <4>1, <4>2, <4>3
    <3> QED
      BY <3>1, <3>2, <3>3
  <2>6. Flattens(g, seqs, n + 1)
    <3> HIDE DEF g
    <3>1. g = [i \in 1..n + 1 |-> g[i]]
      BY <2>4
    <3> QED
      BY <2>5, <3>1 DEF Flattens
  <2> HIDE DEF g
  <2> QED
    BY <2>4, <2>6
<1>3. Nat \subseteq Some
  <2> HIDE DEF Some
  <2> QED
    BY <1>1, <1>2, AllNaturals
<1> QED
  BY <1>3

\* ... and FlattenSeq takes its last value.
LEMMA FlattenIs ==
    ASSUME NEW S, NEW seqs \in Seq(Seq(S)), Len(seqs) # 0
    PROVE  \E f \in [1..Len(seqs) -> Seq(S)] :
             Flattens(f, seqs, Len(seqs)) /\ FlattenSeq(seqs) = f[Len(seqs)]
<1> DEFINE n == Len(seqs)
           f == CHOOSE h : h = [i \in 1..n |-> IF i = 1 THEN seqs[i] ELSE h[i-1] \o seqs[i]]
<1>1. n \in Nat
  OBVIOUS
<1>2. FlattenSeq(seqs) = f[n]
  BY DEF FlattenSeq
<1>3. PICK g \in [1..n -> Seq(S)] : Flattens(g, seqs, n)
  <2>1. \A k \in 0..n : \E h \in [1..k -> Seq(S)] : Flattens(h, seqs, k)
    BY FlattensExists
  <2> HIDE DEF n
  <2>2. n \in 0..n
    BY <1>1
  <2> QED
    BY <2>1, <2>2
<1>4. f = [i \in 1..n |-> IF i = 1 THEN seqs[i] ELSE f[i-1] \o seqs[i]]
  <2> HIDE DEF n
  <2>1. \E h : h = [i \in 1..n |-> IF i = 1 THEN seqs[i] ELSE h[i-1] \o seqs[i]]
    BY <1>3 DEF Flattens
  <2> QED
    BY <2>1
<1>5. Flattens(f, seqs, n)
  <2> HIDE DEF f, n
  <2> QED
    BY <1>4 DEF Flattens
<1>6. \A i \in 1..n : f[i] = g[i]
  <2> HIDE DEF f, n
  <2> QED
    BY <1>1, <1>3, <1>5, FlattensUnique
<1>7. f \in [1..n -> Seq(S)]
  <2> HIDE DEF f, n
  <2>1. f = [i \in 1..n |-> f[i]]
    BY <1>5 DEF Flattens
  <2> QED
    BY <1>6, <2>1
<1> QED
  <2> HIDE DEF f
  <2> QED
    BY <1>2, <1>5, <1>7

\* Flattening what is one longer joins one more.
LEMMA FlattenAppend ==
    ASSUME NEW S
    PROVE  /\ FlattenSeq(<<>>) = <<>>
           /\ \A seqs \in Seq(Seq(S)) : FlattenSeq(seqs) \in Seq(S)
           /\ \A seqs \in Seq(Seq(S)), x \in Seq(S) :
                FlattenSeq(Append(seqs, x)) = FlattenSeq(seqs) \o x
<1>1. FlattenSeq(<<>>) = <<>>
  BY DEF FlattenSeq
<1>2. ASSUME NEW seqs \in Seq(Seq(S))
      PROVE  FlattenSeq(seqs) \in Seq(S)
  <2>1. CASE Len(seqs) = 0
    <3>1. seqs = <<>>
      BY <2>1
    <3>2. FlattenSeq(seqs) = <<>>
      BY <1>1, <3>1
    <3>3. <<>> \in Seq(S)
      OBVIOUS
    <3> QED
      BY <3>2, <3>3
  <2>2. CASE Len(seqs) # 0
    <3>1. PICK f \in [1..Len(seqs) -> Seq(S)] : FlattenSeq(seqs) = f[Len(seqs)]
      BY <2>2, FlattenIs
    <3>2. Len(seqs) \in 1..Len(seqs)
      BY <2>2
    <3> QED
      BY <3>1, <3>2
  <2> QED
    BY <2>1, <2>2
<1>3. ASSUME NEW seqs \in Seq(Seq(S)), NEW x \in Seq(S)
      PROVE  FlattenSeq(Append(seqs, x)) = FlattenSeq(seqs) \o x
  <2> DEFINE longer == Append(seqs, x)
             n == Len(seqs)
  <2>1. /\ longer \in Seq(Seq(S)) /\ Len(longer) = n + 1 /\ longer[n + 1] = x
        /\ \A i \in 1..n : longer[i] = seqs[i]
        /\ n \in Nat
    OBVIOUS
  <2> HIDE DEF longer
  <2>2. PICK g \in [1..n + 1 -> Seq(S)] :
          Flattens(g, longer, n + 1) /\ FlattenSeq(longer) = g[n + 1]
    <3>1. Len(longer) # 0
      BY <2>1
    <3> QED
      BY <2>1, <3>1, FlattenIs
  <2>3. CASE n = 0
    <3>1. seqs = <<>> /\ FlattenSeq(seqs) = <<>>
      BY <1>1, <2>3
    <3>2. g[1] = x
      BY <2>1, <2>2, <2>3 DEF Flattens
    <3> QED
      BY <2>2, <2>3, <3>1, <3>2, ConcatEmptySeq DEF longer
  <2>4. CASE n # 0
    <3>1. PICK f \in [1..n -> Seq(S)] : Flattens(f, seqs, n) /\ FlattenSeq(seqs) = f[n]
      BY <2>4, FlattenIs
    <3>2. Flattens(f, longer, n)
      BY <2>1, <3>1 DEF Flattens
    <3>3. f[n] = g[n]
      <4>1. \A i \in 1..n : f[i] = g[i]
        <5> HIDE DEF n
        <5>1. n \in Nat /\ n + 1 \in Nat /\ n <= n + 1
          BY <2>1
        <5> QED
          BY <5>1, <2>2, <3>2, FlattensUnique
      <4> QED
        BY <2>1, <2>4, <4>1
    <3>4. g[n + 1] = g[n] \o x
      <4>1. n + 1 \in 1..n + 1 /\ n + 1 # 1 /\ (n + 1) - 1 = n
        BY <2>1, <2>4
      <4>2. g[n + 1] = g[n] \o longer[n + 1]
        <5> HIDE DEF n
        <5> QED
          BY <2>2, <4>1 DEF Flattens
      <4> QED
        BY <2>1, <4>2
    <3> QED
      BY <2>2, <3>1, <3>3, <3>4 DEF longer
  <2> QED
    BY <2>3, <2>4
<1> QED
  BY <1>1, <1>2, <1>3

(***************************************************************************)
(* Templates filled in.                                                    *)
(***************************************************************************)

\* What a name and a component consist of.
Signs == STRING

\* The placeholders, one by one.
LEMMA LevelsAre ==
    /\ DOMAIN LevelPlaceholders = 1..2
    /\ LevelPlaceholders[1] = "{group}" /\ LevelPlaceholders[2] = "{subgroup}"
    /\ Range(LevelPlaceholders) = {"{group}", "{subgroup}"}
    /\ Placeholders = {"{name}", "{group}", "{subgroup}"}
<1>1. DOMAIN LevelPlaceholders = 1..2
  BY DEF LevelPlaceholders
<1>2. LevelPlaceholders[1] = "{group}" /\ LevelPlaceholders[2] = "{subgroup}"
  BY DEF LevelPlaceholders
<1>3. \A l : l \in 1..2 <=> l = 1 \/ l = 2
  OBVIOUS
<1>4. Range(LevelPlaceholders) = {"{group}", "{subgroup}"}
  <2>1. \A y : y \in Range(LevelPlaceholders) <=> \E l \in 1..2 : y = LevelPlaceholders[l]
    BY <1>1 DEF Range
  <2>2. \A y : y \in Range(LevelPlaceholders) <=> y = LevelPlaceholders[1] \/ y = LevelPlaceholders[2]
    BY <1>3, <2>1
  <2>3. \A y : y \in Range(LevelPlaceholders) <=> y = "{group}" \/ y = "{subgroup}"
    BY Zenon, <1>2, <2>2
  <2> QED
    BY Zenon, <2>3
<1> QED
  BY <1>1, <1>2, <1>4 DEF Placeholders

\* ... that is, of strings; what these are is not used.
LEMMA NamesAre == Names = Seq(Signs)
BY Zenon DEF Names, Signs

\* Append and concatenation, position by position.
LEMMA Positions ==
    ASSUME NEW S
    PROVE  /\ \A s \in Seq(S) : Len(s) \in Nat /\ DOMAIN s = 1..Len(s) /\ \A i \in 1..Len(s) : s[i] \in S
           /\ \A s \in Seq(S), x \in S :
                /\ Append(s, x) \in Seq(S) /\ Len(Append(s, x)) = Len(s) + 1
                /\ Append(s, x)[Len(s) + 1] = x
                /\ \A i \in 1..Len(s) : Append(s, x)[i] = s[i]
           /\ \A s, t \in Seq(S) :
                /\ s \o t \in Seq(S) /\ Len(s \o t) = Len(s) + Len(t)
                /\ \A i \in 1..Len(s) : (s \o t)[i] = s[i]
                /\ \A i \in 1..Len(t) : (s \o t)[Len(s) + i] = t[i]
<1>1. ASSUME NEW s \in Seq(S)
      PROVE  Len(s) \in Nat /\ DOMAIN s = 1..Len(s) /\ \A i \in 1..Len(s) : s[i] \in S
  OBVIOUS
<1>2. ASSUME NEW s \in Seq(S), NEW x \in S
      PROVE  /\ Append(s, x) \in Seq(S) /\ Len(Append(s, x)) = Len(s) + 1
             /\ Append(s, x)[Len(s) + 1] = x
             /\ \A i \in 1..Len(s) : Append(s, x)[i] = s[i]
  OBVIOUS
<1>3. ASSUME NEW s \in Seq(S), NEW t \in Seq(S)
      PROVE  /\ s \o t \in Seq(S) /\ Len(s \o t) = Len(s) + Len(t)
             /\ \A i \in 1..Len(s) : (s \o t)[i] = s[i]
             /\ \A i \in 1..Len(t) : (s \o t)[Len(s) + i] = t[i]
  OBVIOUS
<1> QED
  BY <1>1, <1>2, <1>3

\* What a character or token is replaced by, and a binding to names.
Piece(x, binding) == IF x \in DOMAIN binding THEN binding[x] ELSE <<x>>

Binds(binding) == \A x \in DOMAIN binding : binding[x] \in Names

\* What a longer name has in it.
LEMMA RangeGrows ==
    /\ Range(<<>>) = {}
    /\ \A s \in Names, x \in Signs : Range(Append(s, x)) = Range(s) \cup {x}
    /\ \A s, t \in Names : Range(s \o t) = Range(s) \cup Range(t)
<1>1. Range(<<>>) = {}
  BY DEF Range
<1>2. ASSUME NEW s \in Names, NEW x \in Signs PROVE Range(Append(s, x)) = Range(s) \cup {x}
  <2> DEFINE t == Append(s, x)
  <2>1. /\ s \in Seq(Signs) /\ Len(s) \in Nat /\ DOMAIN s = 1..Len(s)
        /\ DOMAIN t = 1..Len(s) + 1 /\ t[Len(s) + 1] = x /\ \A i \in 1..Len(s) : t[i] = s[i]
    <3>1. s \in Seq(Signs)
      BY NamesAre
    <3>2. t \in Seq(Signs) /\ Len(t) = Len(s) + 1
      BY <3>1, Positions
    <3>3. DOMAIN t = 1..Len(s) + 1
      BY <3>2, Positions
    <3> QED
      BY <3>1, <3>3, Positions
  <2> HIDE DEF t
  <2>2. \A y : y \in Range(t) <=> y \in Range(s) \/ y = x
    BY <2>1 DEF Range
  <2> QED
    BY <2>2 DEF t
<1>3. ASSUME NEW s \in Names, NEW t \in Names PROVE Range(s \o t) = Range(s) \cup Range(t)
  <2> DEFINE u == s \o t
  <2>1. /\ s \in Seq(Signs) /\ t \in Seq(Signs) /\ Len(s) \in Nat /\ Len(t) \in Nat
        /\ DOMAIN s = 1..Len(s) /\ DOMAIN t = 1..Len(t) /\ DOMAIN u = 1..Len(s) + Len(t)
        /\ \A i \in 1..Len(s) : u[i] = s[i]
        /\ \A i \in 1..Len(t) : u[Len(s) + i] = t[i]
    BY NamesAre
  <2> HIDE DEF u
  <2>2. ASSUME NEW y, y \in Range(u) PROVE y \in Range(s) \/ y \in Range(t)
    <3>1. PICK i \in 1..Len(s) + Len(t) : y = u[i]
      BY <2>1, <2>2 DEF Range
    <3>2. CASE i \in 1..Len(s)
      BY <2>1, <3>1, <3>2 DEF Range
    <3>3. CASE i \notin 1..Len(s)
      <4>1. i - Len(s) \in 1..Len(t) /\ Len(s) + (i - Len(s)) = i
        BY <2>1, <3>1, <3>3
      <4>2. y = t[i - Len(s)]
        BY <2>1, <3>1, <4>1
      <4> QED
        BY <2>1, <4>1, <4>2 DEF Range
    <3> QED
      BY <3>2, <3>3
  <2>3. ASSUME NEW y, y \in Range(s) PROVE y \in Range(u)
    <3>1. PICK i \in 1..Len(s) : y = s[i]
      BY <2>1, <2>3 DEF Range
    <3>2. i \in 1..Len(s) + Len(t) /\ y = u[i]
      BY <2>1, <3>1
    <3> QED
      BY <2>1, <3>2 DEF Range
  <2>4. ASSUME NEW y, y \in Range(t) PROVE y \in Range(u)
    <3>1. PICK i \in 1..Len(t) : y = t[i]
      BY <2>1, <2>4 DEF Range
    <3>2. Len(s) + i \in 1..Len(s) + Len(t) /\ y = u[Len(s) + i]
      BY <2>1, <3>1
    <3> QED
      BY <2>1, <3>2 DEF Range
  <2> QED
    BY <2>2, <2>3, <2>4 DEF u
<1> QED
  BY <1>1, <1>2, <1>3

\* Filling in goes token by token.
LEMMA FilledAppend ==
    ASSUME NEW b, Binds(b)
    PROVE  /\ Filled(<<>>, b) = <<>>
           /\ \A c \in Names : Filled(c, b) \in Names
           /\ \A c \in Names, x \in Signs : /\ Piece(x, b) \in Names
                                             /\ Filled(Append(c, x), b) = Filled(c, b) \o Piece(x, b)
<1> DEFINE pieces(c) == [j \in DOMAIN c |-> Piece(c[j], b)]
<1>1. \A c : Filled(c, b) = FlattenSeq(pieces(c))
  BY DEF Filled, Piece
<1>2. \A x \in Signs : Piece(x, b) \in Seq(Signs)
  <2> TAKE x \in Signs
  <2>1. x \in DOMAIN b => Piece(x, b) \in Seq(Signs)
    BY NamesAre DEF Piece, Binds
  <2>2. <<x>> \in Seq(Signs)
    OBVIOUS
  <2> QED
    BY <2>1, <2>2 DEF Piece
<1>3. ASSUME NEW c \in Names PROVE pieces(c) \in Seq(Seq(Signs)) /\ Len(pieces(c)) = Len(c)
  <2>1. c \in Seq(Signs) /\ DOMAIN c = 1..Len(c) /\ Len(c) \in Nat
    BY NamesAre
  <2>2. \A j \in 1..Len(c) : Piece(c[j], b) \in Seq(Signs)
    BY <1>2, <2>1, Positions
  <2>3. pieces(c) = [j \in 1..Len(c) |-> Piece(c[j], b)]
    BY <2>1
  <2> QED
    BY <2>1, <2>2, <2>3
<1>4. ASSUME NEW c \in Names, NEW x \in Signs
      PROVE  pieces(Append(c, x)) = Append(pieces(c), Piece(x, b))
  <2> DEFINE d == Append(c, x)
             p == pieces(c)
             y == Piece(x, b)
  <2>1. /\ c \in Seq(Signs) /\ Len(c) \in Nat /\ d \in Seq(Signs) /\ Len(d) = Len(c) + 1
        /\ DOMAIN c = 1..Len(c) /\ DOMAIN d = 1..Len(c) + 1
        /\ d[Len(c) + 1] = x /\ \A i \in 1..Len(c) : d[i] = c[i]
    <3>1. c \in Seq(Signs)
      BY NamesAre
    <3>2. d \in Seq(Signs) /\ Len(d) = Len(c) + 1
      BY <3>1, Positions
    <3>3. DOMAIN d = 1..Len(c) + 1
      BY <3>2, Positions
    <3> QED
      BY <3>1, <3>2, <3>3, Positions
  <2>2. d \in Names
    BY <2>1, NamesAre
  <2> HIDE DEF d
  <2>3. /\ pieces(d) \in Seq(Seq(Signs)) /\ Len(pieces(d)) = Len(c) + 1
        /\ p \in Seq(Seq(Signs)) /\ Len(p) = Len(c) /\ y \in Seq(Signs)
    BY <1>2, <1>3, <2>1, <2>2
  <2>4. pieces(d)[Len(c) + 1] = y /\ \A i \in 1..Len(c) : pieces(d)[i] = p[i]
    <3>1. Len(c) + 1 \in DOMAIN d /\ \A i \in 1..Len(c) : i \in DOMAIN d
      BY <2>1
    <3>2. pieces(d)[Len(c) + 1] = Piece(d[Len(c) + 1], b)
      BY <3>1
    <3>3. \A i \in 1..Len(c) : pieces(d)[i] = Piece(d[i], b) /\ p[i] = Piece(c[i], b)
      BY <2>1, <3>1
    <3> QED
      BY <2>1, <3>2, <3>3
  <2> DEFINE q == pieces(d)
  <2> HIDE DEF p, q, y
  <2>5. Append(p, y) \in Seq(Seq(Signs)) /\ Len(Append(p, y)) = Len(c) + 1
        /\ Append(p, y)[Len(c) + 1] = y /\ \A i \in 1..Len(c) : Append(p, y)[i] = p[i]
    BY <2>1, <2>3
  <2>6. q \in Seq(Seq(Signs)) /\ Len(q) = Len(c) + 1 /\ q[Len(c) + 1] = y
        /\ \A i \in 1..Len(c) : q[i] = p[i]
    BY <2>3, <2>4 DEF q
  <2>7. \A i \in 1..Len(q) : q[i] = Append(p, y)[i]
    <3> TAKE i \in 1..Len(q)
    <3>1. i \in 1..Len(c) \/ i = Len(c) + 1
      BY <2>1, <2>6
    <3> QED
      BY <2>5, <2>6, <3>1
  <2>8. q = Append(p, y)
    BY <2>5, <2>6, <2>7, SeqEqual
  <2> QED
    BY <2>8 DEF q, p, y, d
<1>5. pieces(<<>>) = <<>>
  OBVIOUS
<1>6. Filled(<<>>, b) = <<>>
  <2>1. FlattenSeq(<<>>) = <<>>
    BY FlattenAppend
  <2>2. Filled(<<>>, b) = FlattenSeq(pieces(<<>>))
    BY <1>1, NamesAre
  <2> QED
    BY <1>5, <2>1, <2>2
<1>7. ASSUME NEW c \in Names PROVE Filled(c, b) \in Names
  <2> HIDE DEF pieces
  <2>1. FlattenSeq(pieces(c)) \in Seq(Signs)
    BY <1>3, FlattenAppend
  <2> QED
    BY <1>1, <2>1, NamesAre
<1>8. ASSUME NEW c \in Names, NEW x \in Signs
      PROVE  Piece(x, b) \in Names /\ Filled(Append(c, x), b) = Filled(c, b) \o Piece(x, b)
  <2> HIDE DEF pieces
  <2>1. FlattenSeq(Append(pieces(c), Piece(x, b))) = FlattenSeq(pieces(c)) \o Piece(x, b)
    BY <1>2, <1>3, FlattenAppend
  <2> QED
    BY <1>1, <1>2, <1>4, <2>1, NamesAre
<1> QED
  BY <1>6, <1>7, <1>8

\* The same for names.
LEMMA NamePositions ==
    /\ <<>> \in Names /\ Len(<<>>) = 0
    /\ \A s \in Names : Len(s) \in Nat /\ DOMAIN s = 1..Len(s) /\ \A i \in 1..Len(s) : s[i] \in Signs
    /\ \A s \in Names, x \in Signs :
         /\ Append(s, x) \in Names /\ Len(Append(s, x)) = Len(s) + 1
         /\ Append(s, x)[Len(s) + 1] = x
         /\ \A i \in 1..Len(s) : Append(s, x)[i] = s[i]
    /\ \A s, t \in Names :
         /\ s \o t \in Names /\ Len(s \o t) = Len(s) + Len(t)
         /\ \A i \in 1..Len(s) : (s \o t)[i] = s[i]
         /\ \A i \in 1..Len(t) : (s \o t)[Len(s) + i] = t[i]
<1>1. <<>> \in Names /\ Len(<<>>) = 0
  BY NamesAre
<1> QED
  BY <1>1, NamesAre, Positions

\* Names are equal if they are so character by character.
LEMMA NamesEqual ==
    ASSUME NEW s \in Names, NEW t \in Names, Len(s) = Len(t), \A i \in 1..Len(s) : s[i] = t[i]
    PROVE  s = t
BY NamesAre, SeqEqual

\* What holds for names as they grow holds for all of them.
LEMMA AllNames ==
    ASSUME NEW T, <<>> \in T, \A c \in Names : \A x \in Signs : c \in T => Append(c, x) \in T
    PROVE  Names \subseteq T
BY NamesAre, AllSequences

\* Two names joined.
LEMMA JoinedNames ==
    ASSUME NEW s \in Names, NEW t \in Names
    PROVE  /\ s \o t \in Names /\ Len(s \o t) = Len(s) + Len(t)
           /\ \A i \in 1..Len(s) : (s \o t)[i] = s[i]
           /\ \A i \in 1..Len(t) : (s \o t)[Len(s) + i] = t[i]
BY NamePositions

LEMMA NamesAssociate == \A s, t, u \in Names : (s \o t) \o u = s \o (t \o u)
BY NamesAre, ConcatAssociative

\* Of two joined names that are equal, equally long ends are equal, and so are the rests.
JoinEqually(s, u, t, v) == s \o u = t \o v /\ Len(u) = Len(v)

LEMMA EndsEqual ==
    ASSUME NEW s \in Names, NEW t \in Names, NEW u \in Names, NEW v \in Names,
           JoinEqually(s, u, t, v)
    PROVE  s = t /\ u = v
<1> USE DEF JoinEqually
<1>1. Len(s) = Len(t) /\ Len(s) \in Nat /\ Len(u) \in Nat
  <2>1. Len(s \o u) = Len(s) + Len(u) /\ Len(t \o v) = Len(t) + Len(v)
    BY NamePositions
  <2>2. Len(s) \in Nat /\ Len(t) \in Nat /\ Len(u) \in Nat
    BY NamePositions
  <2> QED
    BY <2>1, <2>2
<1>2. \A i \in 1..Len(s) : s[i] = t[i]
  <2> TAKE i \in 1..Len(s)
  <2>1. (s \o u)[i] = s[i]
    BY JoinedNames
  <2>2. i \in 1..Len(t)
    BY <1>1
  <2>3. (t \o v)[i] = t[i]
    BY <2>2, JoinedNames
  <2> QED
    BY <2>1, <2>3
<1>3. \A i \in 1..Len(u) : u[i] = v[i]
  <2> TAKE i \in 1..Len(u)
  <2>1. (s \o u)[Len(s) + i] = u[i]
    BY JoinedNames
  <2>2. (t \o v)[Len(t) + i] = v[i]
    <3>1. \A j \in 1..Len(v) : (t \o v)[Len(t) + j] = v[j]
      BY JoinedNames
    <3>2. i \in 1..Len(v)
      OBVIOUS
    <3> QED
      BY <3>1, <3>2
  <2> QED
    BY <1>1, <2>1, <2>2
<1> QED
  BY <1>1, <1>2, <1>3, NamesEqual

\* A name of one character.
LEMMA OneSign ==
    \A x \in Signs : <<x>> \in Names /\ Len(<<x>>) = 1 /\ <<x>>[1] = x /\ Range(<<x>>) = {x}
                     /\ \A s \in Names : s \o <<x>> = Append(s, x)
<1> SUFFICES ASSUME NEW x \in Signs
             PROVE  /\ <<x>> \in Names /\ Len(<<x>>) = 1 /\ <<x>>[1] = x /\ Range(<<x>>) = {x}
                    /\ \A s \in Names : s \o <<x>> = Append(s, x)
  OBVIOUS
<1> DEFINE o == <<x>>
<1>1. o \in Seq(Signs) /\ Len(o) = 1 /\ o[1] = x /\ DOMAIN o = 1..1
  OBVIOUS
<1> HIDE DEF o
<1>2. o \in Names
  BY <1>1, NamesAre
<1>3. Range(o) = {x}
  BY <1>1 DEF Range
<1>4. ASSUME NEW s \in Names PROVE s \o o = Append(s, x)
  <2>1. /\ s \o o \in Names /\ Len(s \o o) = Len(s) + 1 /\ (s \o o)[Len(s) + 1] = x
        /\ \A i \in 1..Len(s) : (s \o o)[i] = s[i]
    <3>1. /\ s \o o \in Names /\ Len(s \o o) = Len(s) + 1
          /\ \A i \in 1..Len(s) : (s \o o)[i] = s[i]
      <4>1. s \o o \in Names /\ Len(s \o o) = Len(s) + Len(o)
        BY <1>2, NamePositions
      <4>2. \A i \in 1..Len(s) : (s \o o)[i] = s[i]
        BY <1>2, NamePositions
      <4> QED
        BY <1>1, <4>1, <4>2
    <3>2. 1 \in 1..Len(o)
      BY <1>1
    <3>3. (s \o o)[Len(s) + 1] = o[1]
      BY <1>2, <3>2, NamePositions
    <3> QED
      BY <1>1, <3>1, <3>3
  <2>2. /\ Append(s, x) \in Names /\ Len(Append(s, x)) = Len(s) + 1
        /\ Append(s, x)[Len(s) + 1] = x /\ \A i \in 1..Len(s) : Append(s, x)[i] = s[i]
    BY NamePositions
  <2>3. \A i \in 1..Len(s \o o) : (s \o o)[i] = Append(s, x)[i]
    <3> TAKE i \in 1..Len(s \o o)
    <3>1. Len(s) \in Nat
      BY NamePositions
    <3>2. i \in 1..Len(s) \/ i = Len(s) + 1
      BY <2>1, <3>1
    <3> QED
      BY <2>1, <2>2, <3>2
  <2> QED
    BY <2>1, <2>2, <2>3, NamesEqual
<1> QED
  BY <1>1, <1>2, <1>3, <1>4 DEF o

\* What is filled in is what was left and what the names bring.
LEMMA FilledRange ==
    ASSUME NEW b, Binds(b), NEW c \in Names
    PROVE  /\ Range(c) \ DOMAIN b \subseteq Range(Filled(c, b))
           /\ \A y \in Range(Filled(c, b)) :
                \/ y \in Range(c) \ DOMAIN b
                \/ \E x \in Range(c) \cap DOMAIN b : y \in Range(b[x])
<1> DEFINE Known(d) ==
      /\ Range(d) \ DOMAIN b \subseteq Range(Filled(d, b))
      /\ \A y \in Range(Filled(d, b)) :
           \/ y \in Range(d) \ DOMAIN b
           \/ \E x \in Range(d) \cap DOMAIN b : y \in Range(b[x])
           T == {d \in Names : Known(d)}
<1>1. <<>> \in T
  <2>1. Range(<<>>) = {} /\ Filled(<<>>, b) = <<>> /\ <<>> \in Names
    BY RangeGrows, FilledAppend, NamePositions
  <2> QED
    BY <2>1
<1>2. ASSUME NEW d \in Names, NEW x \in Signs, d \in T PROVE Append(d, x) \in T
  <2>1. /\ Range(Append(d, x)) = Range(d) \cup {x} /\ Append(d, x) \in Names
        /\ Filled(d, b) \in Names /\ Piece(x, b) \in Names
        /\ Filled(Append(d, x), b) = Filled(d, b) \o Piece(x, b)
    BY RangeGrows, FilledAppend, NamePositions
  <2>2. Range(Filled(Append(d, x), b)) = Range(Filled(d, b)) \cup Range(Piece(x, b))
    BY <2>1, RangeGrows
  <2>3. Range(Piece(x, b)) = IF x \in DOMAIN b THEN Range(b[x]) ELSE {x}
    BY OneSign DEF Piece
  <2>4. Known(d)
    BY <1>2
  <2>5. Known(Append(d, x))
    BY <2>1, <2>2, <2>3, <2>4
  <2> QED
    BY <2>1, <2>5
<1>3. c \in T
  <2> HIDE DEF T
  <2> QED
    BY <1>1, <1>2, AllNames
<1> QED
  BY <1>3

\* Where there is nothing to fill in nothing changes.
LEMMA FilledNothing ==
    ASSUME NEW b, Binds(b), NEW c \in Names, Range(c) \cap DOMAIN b = {}
    PROVE  Filled(c, b) = c
<1> DEFINE T == {d \in Names : Range(d) \cap DOMAIN b = {} => Filled(d, b) = d}
<1>1. <<>> \in T
  BY FilledAppend, NamePositions
<1>2. ASSUME NEW d \in Names, NEW x \in Signs, d \in T PROVE Append(d, x) \in T
  <2>1. /\ Range(Append(d, x)) = Range(d) \cup {x} /\ Append(d, x) \in Names
        /\ Filled(Append(d, x), b) = Filled(d, b) \o Piece(x, b)
    BY RangeGrows, FilledAppend, NamePositions
  <2>2. ASSUME Range(Append(d, x)) \cap DOMAIN b = {} PROVE Filled(Append(d, x), b) = Append(d, x)
    <3>1. Filled(d, b) = d /\ Piece(x, b) = <<x>>
      BY <1>2, <2>1, <2>2 DEF Piece
    <3> QED
      BY <2>1, <3>1, OneSign
  <2> QED
    BY <2>1, <2>2
<1>3. c \in T
  <2> HIDE DEF T
  <2> QED
    BY <1>1, <1>2, AllNames
<1> QED
  BY <1>3

\* Filling in what is joined joins what is filled in.
LEMMA FilledJoin ==
    ASSUME NEW b, Binds(b), NEW c \in Names, NEW d \in Names
    PROVE  Filled(c \o d, b) = Filled(c, b) \o Filled(d, b)
<1> DEFINE T == {e \in Names : Filled(c \o e, b) = Filled(c, b) \o Filled(e, b)}
<1>1. <<>> \in T
  <2>1. c \o <<>> = c /\ Filled(c, b) \o <<>> = Filled(c, b)
    BY FilledAppend, NamesAre, ConcatEmptySeq
  <2> QED
    BY <2>1, FilledAppend, NamePositions
<1>2. ASSUME NEW e \in Names, NEW x \in Signs, e \in T PROVE Append(e, x) \in T
  <2>1. /\ Append(e, x) \in Names /\ c \o e \in Names /\ <<x>> \in Names
        /\ Filled(c, b) \in Names /\ Filled(e, b) \in Names /\ Piece(x, b) \in Names
    BY FilledAppend, NamePositions, OneSign
  <2>2. c \o Append(e, x) = Append(c \o e, x)
    <3>1. c \o (e \o <<x>>) = (c \o e) \o <<x>>
      BY <2>1, NamesAre, ConcatAssociative
    <3> QED
      BY <2>1, <3>1, OneSign
  <2>3. Filled(Append(c \o e, x), b) = Filled(c \o e, b) \o Piece(x, b)
    BY <2>1, FilledAppend
  <2>4. Filled(Append(e, x), b) = Filled(e, b) \o Piece(x, b)
    BY FilledAppend
  <2>5. Filled(c \o e, b) = Filled(c, b) \o Filled(e, b)
    BY <1>2
  <2>6. (Filled(c, b) \o Filled(e, b)) \o Piece(x, b) = Filled(c, b) \o (Filled(e, b) \o Piece(x, b))
    <3> DEFINE u == Filled(c, b)
               v == Filled(e, b)
               w == Piece(x, b)
    <3>1. u \in Names /\ v \in Names /\ w \in Names
      BY <2>1
    <3> HIDE DEF u, v, w
    <3>2. (u \o v) \o w = u \o (v \o w)
      BY ONLY <3>1, NamesAssociate
    <3> QED
      BY <3>2 DEF u, v, w
  <2> QED
    BY <2>1, <2>2, <2>3, <2>4, <2>5, <2>6
<1>3. d \in T
  <2> HIDE DEF T
  <2> QED
    BY <1>1, <1>2, AllNames
<1> QED
  BY <1>3

\* Filling in first one half of the tokens and then the other is filling in all at
\* once, if what the first half brings has no token of the second.
InStages(b1, b2, all) ==
    /\ Binds(b1) /\ Binds(b2) /\ Binds(all)
    /\ DOMAIN all = DOMAIN b1 \cup DOMAIN b2 /\ DOMAIN b1 \cap DOMAIN b2 = {}
    /\ \A x \in DOMAIN b1 : all[x] = b1[x] /\ Range(b1[x]) \cap DOMAIN b2 = {}
    /\ \A x \in DOMAIN b2 : all[x] = b2[x]

LEMMA FilledTwice ==
    ASSUME NEW b1, NEW b2, NEW all, InStages(b1, b2, all), NEW c \in Names
    PROVE  Filled(Filled(c, b1), b2) = Filled(c, all)
<1>0. /\ Binds(b1) /\ Binds(b2) /\ Binds(all)
      /\ DOMAIN all = DOMAIN b1 \cup DOMAIN b2 /\ DOMAIN b1 \cap DOMAIN b2 = {}
      /\ \A x \in DOMAIN b1 : all[x] = b1[x] /\ Range(b1[x]) \cap DOMAIN b2 = {}
      /\ \A x \in DOMAIN b2 : all[x] = b2[x]
  BY DEF InStages
<1> DEFINE T == {e \in Names : Filled(Filled(e, b1), b2) = Filled(e, all)}
<1>1. <<>> \in T
  BY <1>0, FilledAppend, NamePositions
<1>2. ASSUME NEW e \in Names, NEW x \in Signs, e \in T PROVE Append(e, x) \in T
  <2>1. /\ Append(e, x) \in Names /\ Filled(e, b1) \in Names /\ Piece(x, b1) \in Names
        /\ Filled(Append(e, x), b1) = Filled(e, b1) \o Piece(x, b1)
        /\ Filled(Append(e, x), all) = Filled(e, all) \o Piece(x, all)
    BY <1>0, FilledAppend, NamePositions
  <2>2. Filled(Filled(e, b1) \o Piece(x, b1), b2)
          = Filled(Filled(e, b1), b2) \o Filled(Piece(x, b1), b2)
    BY <1>0, <2>1, FilledJoin
  <2>3. Filled(Piece(x, b1), b2) = Piece(x, all)
    <3>1. CASE x \in DOMAIN b1
      <4>1. Piece(x, b1) = b1[x] /\ Piece(x, all) = b1[x] /\ Range(b1[x]) \cap DOMAIN b2 = {}
        BY <1>0, <3>1 DEF Piece
      <4> QED
        BY <1>0, <2>1, <4>1, FilledNothing
    <3>2. CASE x \notin DOMAIN b1
      <4>1. Piece(x, b1) = <<x>> /\ Piece(x, all) = Piece(x, b2)
        BY <1>0, <3>2 DEF Piece
      <4>2. <<x>> = Append(<<>>, x)
        OBVIOUS
      <4>3. Filled(Append(<<>>, x), b2) = Filled(<<>>, b2) \o Piece(x, b2)
        BY <1>0, FilledAppend, NamePositions
      <4>4. Filled(<<>>, b2) = <<>> /\ Piece(x, b2) \in Names
        BY <1>0, FilledAppend
      <4>5. <<>> \o Piece(x, b2) = Piece(x, b2)
        BY <4>4, NamesAre, ConcatEmptySeq
      <4> QED
        BY <4>1, <4>2, <4>3, <4>4, <4>5
    <3> QED
      BY <3>1, <3>2
  <2>4. Filled(Filled(e, b1), b2) = Filled(e, all)
    BY <1>2
  <2> QED
    BY <2>1, <2>2, <2>3, <2>4
<1>3. c \in T
  <2> HIDE DEF T
  <2> QED
    BY <1>1, <1>2, AllNames
<1> QED
  BY <1>3

\* Longer names make longer components.
LEMMA FilledLonger ==
    ASSUME NEW b1, Binds(b1), NEW b2, Binds(b2), DOMAIN b1 = DOMAIN b2, NEW c \in Names,
           \A x \in Range(c) \cap DOMAIN b1 : Len(b1[x]) <= Len(b2[x])
    PROVE  Len(Filled(c, b1)) <= Len(Filled(c, b2))
<1> DEFINE T == {e \in Names : (\A x \in Range(e) \cap DOMAIN b1 : Len(b1[x]) <= Len(b2[x]))
                                 => Len(Filled(e, b1)) <= Len(Filled(e, b2))}
<1>1. <<>> \in T
  <2>1. Filled(<<>>, b1) = <<>> /\ Filled(<<>>, b2) = <<>> /\ <<>> \in Names /\ Len(<<>>) = 0
    BY FilledAppend, NamePositions
  <2> QED
    BY <2>1
<1>2. ASSUME NEW e \in Names, NEW x \in Signs, e \in T PROVE Append(e, x) \in T
  <2>1. Append(e, x) \in Names /\ Range(Append(e, x)) = Range(e) \cup {x}
    BY RangeGrows, NamePositions
  <2>2. ASSUME \A y \in Range(Append(e, x)) \cap DOMAIN b1 : Len(b1[y]) <= Len(b2[y])
        PROVE  Len(Filled(Append(e, x), b1)) <= Len(Filled(Append(e, x), b2))
    <3>1. Len(Filled(e, b1)) <= Len(Filled(e, b2))
      BY <1>2, <2>1, <2>2
    <3>2. Len(Piece(x, b1)) <= Len(Piece(x, b2))
      <4>1. CASE x \in DOMAIN b1
        BY <2>1, <2>2, <4>1 DEF Piece
      <4>2. CASE x \notin DOMAIN b1
        <5>1. Piece(x, b1) = <<x>> /\ Piece(x, b2) = <<x>> /\ Len(<<x>>) = 1
          BY <4>2, OneSign DEF Piece
        <5> QED
          BY <5>1
      <4> QED
        BY <4>1, <4>2
    <3>3. /\ Filled(e, b1) \in Names /\ Piece(x, b1) \in Names
          /\ Filled(e, b2) \in Names /\ Piece(x, b2) \in Names
          /\ Filled(Append(e, x), b1) = Filled(e, b1) \o Piece(x, b1)
          /\ Filled(Append(e, x), b2) = Filled(e, b2) \o Piece(x, b2)
      BY FilledAppend
    <3>4. /\ Len(Filled(Append(e, x), b1)) = Len(Filled(e, b1)) + Len(Piece(x, b1))
          /\ Len(Filled(Append(e, x), b2)) = Len(Filled(e, b2)) + Len(Piece(x, b2))
      BY <3>3, NamePositions
    <3>5. /\ Len(Filled(e, b1)) \in Nat /\ Len(Piece(x, b1)) \in Nat
          /\ Len(Filled(e, b2)) \in Nat /\ Len(Piece(x, b2)) \in Nat
      BY <3>3, NamePositions
    <3> QED
      BY <3>1, <3>2, <3>4, <3>5
  <2> QED
    BY <2>1, <2>2
<1>3. c \in T
  <2> HIDE DEF T
  <2> QED
    BY <1>1, <1>2, AllNames
<1> QED
  BY <1>3

\* A component tells what was filled in for its one kind of token.
FilledAlike(c, b1, b2, token) ==
    /\ c \in Names /\ Binds(b1) /\ Binds(b2) /\ DOMAIN b1 = DOMAIN b2
    /\ Range(c) \cap DOMAIN b1 = {token}
    /\ Filled(c, b1) = Filled(c, b2)

LEMMA FilledInjective ==
    ASSUME NEW c, NEW b1, NEW b2, NEW token, FilledAlike(c, b1, b2, token)
    PROVE  b1[token] = b2[token]
<1> USE DEF FilledAlike
<1> DEFINE Tells(e) ==
      (/\ Range(e) \cap DOMAIN b1 = {token} /\ Filled(e, b1) = Filled(e, b2))
        => b1[token] = b2[token]
           T == {e \in Names : Tells(e)}
<1>0. token \in DOMAIN b1 /\ b1[token] \in Names /\ b2[token] \in Names
  BY DEF Binds
<1>1. <<>> \in T
  BY RangeGrows, NamePositions
<1>2. ASSUME NEW e \in Names, NEW x \in Signs, e \in T PROVE Append(e, x) \in T
  <2>1. Append(e, x) \in Names /\ Range(Append(e, x)) = Range(e) \cup {x}
    BY RangeGrows, NamePositions
  <2>2. ASSUME Range(Append(e, x)) \cap DOMAIN b1 = {token},
               Filled(Append(e, x), b1) = Filled(Append(e, x), b2)
        PROVE  b1[token] = b2[token]
    <3>1. /\ Filled(e, b1) \in Names /\ Piece(x, b1) \in Names
          /\ Filled(e, b2) \in Names /\ Piece(x, b2) \in Names
          /\ Filled(e, b1) \o Piece(x, b1) = Filled(e, b2) \o Piece(x, b2)
      <4>1. /\ Filled(e, b1) \in Names /\ Piece(x, b1) \in Names
            /\ Filled(Append(e, x), b1) = Filled(e, b1) \o Piece(x, b1)
        BY FilledAppend
      <4>2. /\ Filled(e, b2) \in Names /\ Piece(x, b2) \in Names
            /\ Filled(Append(e, x), b2) = Filled(e, b2) \o Piece(x, b2)
        BY FilledAppend
      <4> QED
        BY <2>2, <4>1, <4>2
    <3>4. ASSUME Len(Piece(x, b1)) = Len(Piece(x, b2))
          PROVE  Filled(e, b1) = Filled(e, b2) /\ Piece(x, b1) = Piece(x, b2)
      <4> DEFINE s == Filled(e, b1)
                 t == Filled(e, b2)
                 u == Piece(x, b1)
                 v == Piece(x, b2)
      <4>1. /\ s \in Names /\ t \in Names /\ u \in Names /\ v \in Names
            /\ JoinEqually(s, u, t, v)
        BY <3>1, <3>4 DEF JoinEqually
      <4> HIDE DEF s, t, u, v
      <4>3. s = t /\ u = v
        BY <4>1, EndsEqual
      <4> QED
        BY <4>3 DEF s, t, u, v
    <3>2. CASE x \notin DOMAIN b1
      <4>1. Piece(x, b1) = Piece(x, b2)
        BY <3>2 DEF Piece
      <4>2. Len(Piece(x, b1)) = Len(Piece(x, b2))
        BY <4>1
      <4>5. Filled(e, b1) = Filled(e, b2)
        BY <3>4, <4>2
      <4>3. Range(e) \cap DOMAIN b1 = {token}
        BY <2>1, <2>2, <3>2
      <4> QED
        BY <1>2, <4>3, <4>5
    <3>3. CASE x \in DOMAIN b1
      <4>1. x = token /\ Piece(x, b1) = b1[token] /\ Piece(x, b2) = b2[token]
        BY <2>1, <2>2, <3>3 DEF Piece
      <4>2. /\ Len(Filled(e, b1)) \in Nat /\ Len(b1[token]) \in Nat
            /\ Len(Filled(e, b2)) \in Nat /\ Len(b2[token]) \in Nat
            /\ Len(Filled(e, b1)) + Len(b1[token]) = Len(Filled(e, b2)) + Len(b2[token])
        <5>1. /\ Len(Filled(e, b1) \o b1[token]) = Len(Filled(e, b1)) + Len(b1[token])
              /\ Len(Filled(e, b2) \o b2[token]) = Len(Filled(e, b2)) + Len(b2[token])
          BY <1>0, <3>1, NamePositions
        <5> QED
          BY <1>0, <3>1, <4>1, <5>1, NamePositions
      <4>3. \A y \in Range(e) \cap DOMAIN b1 : y = token
        BY <2>1, <2>2
      <4>4. Len(b1[token]) <= Len(b2[token]) => Len(Filled(e, b1)) <= Len(Filled(e, b2))
        BY <4>3, FilledLonger
      <4>5. Len(b2[token]) <= Len(b1[token]) => Len(Filled(e, b2)) <= Len(Filled(e, b1))
        BY <4>3, FilledLonger
      <4>6. Len(b1[token]) = Len(b2[token])
        BY <4>2, <4>4, <4>5
      <4>7. Len(Piece(x, b1)) = Len(Piece(x, b2))
        BY <4>1, <4>6
      <4>8. Piece(x, b1) = Piece(x, b2)
        BY <3>4, <4>7
      <4> QED
        BY <4>1, <4>8
    <3> QED
      BY <3>2, <3>3
  <2> QED
    BY <2>1, <2>2
<1>3. c \in T
  <2> HIDE DEF T
  <2> QED
    BY <1>1, <1>2, AllNames
<1> QED
  BY <1>3

\* Names that are filled in do not change how a component begins, but for the
\* beginning of a name: it gets no shorter, and its first two signs are those of
\* the component or the first of a name.
First(x, b) == IF x \in DOMAIN b THEN b[x][1] ELSE x

LEMMA FilledFront ==
    ASSUME NEW b, Binds(b), \A x \in DOMAIN b : b[x] # <<>>, NEW c \in Names
    PROVE  /\ Len(c) <= Len(Filled(c, b))
           /\ Len(c) >= 1 => Filled(c, b)[1] = First(c[1], b)
           /\ Len(c) >= 2 /\ c[1] \notin DOMAIN b => Filled(c, b)[2] = First(c[2], b)
<1> DEFINE Front2(e) ==
      /\ Len(e) <= Len(Filled(e, b))
      /\ Len(e) >= 1 => Filled(e, b)[1] = First(e[1], b)
      /\ Len(e) = 1 /\ e[1] \notin DOMAIN b => Len(Filled(e, b)) = 1
      /\ Len(e) >= 2 /\ e[1] \notin DOMAIN b => Filled(e, b)[2] = First(e[2], b)
           T == {e \in Names : Front2(e)}
<1>1. <<>> \in T
  <2>1. Filled(<<>>, b) = <<>> /\ <<>> \in Names /\ Len(<<>>) = 0
    BY FilledAppend, NamePositions
  <2> QED
    BY <2>1
<1>2. ASSUME NEW e \in Names, NEW x \in Signs, e \in T PROVE Append(e, x) \in T
  <2> DEFINE a == Append(e, x)
             f == Filled(e, b)
             p == Piece(x, b)
  <2>1. /\ a \in Names /\ Len(a) = Len(e) + 1 /\ a[Len(e) + 1] = x
        /\ \A i \in 1..Len(e) : a[i] = e[i]
        /\ Len(e) \in Nat
    BY NamePositions
  <2>2. f \in Names /\ p \in Names /\ Filled(a, b) = f \o p /\ Len(f) \in Nat /\ Len(p) \in Nat
    BY FilledAppend, NamePositions
  <2>3. Len(p) >= 1 /\ p[1] = First(x, b) /\ (x \notin DOMAIN b => Len(p) = 1)
    <3>1. CASE x \in DOMAIN b
      <4>1. p = b[x] /\ p # <<>>
        BY <3>1 DEF Piece
      <4>2. Len(p) # 0
        BY <2>2, <4>1, NamesAre, EmptySeq
      <4> QED
        BY <2>2, <3>1, <4>1, <4>2 DEF First
    <3>2. CASE x \notin DOMAIN b
      BY <3>2, OneSign DEF Piece, First
    <3> QED
      BY <3>1, <3>2
  <2>4. /\ Len(f \o p) = Len(f) + Len(p)
        /\ \A i \in 1..Len(f) : (f \o p)[i] = f[i]
        /\ (f \o p)[Len(f) + 1] = p[1]
    <3>1. /\ Len(f \o p) = Len(f) + Len(p)
          /\ \A i \in 1..Len(f) : (f \o p)[i] = f[i]
          /\ \A i \in 1..Len(p) : (f \o p)[Len(f) + i] = p[i]
      BY <2>2, NamePositions
    <3>2. 1 \in 1..Len(p)
      BY <2>2, <2>3
    <3> QED
      BY <3>1, <3>2
  <2>5. Front2(e)
    BY <1>2
  <2> HIDE DEF a, f, p
  <2>6. /\ Len(e) <= Len(f)
        /\ Len(e) >= 1 => f[1] = First(e[1], b)
        /\ Len(e) = 1 /\ e[1] \notin DOMAIN b => Len(f) = 1
        /\ Len(e) >= 2 /\ e[1] \notin DOMAIN b => f[2] = First(e[2], b)
    BY <2>5 DEF f
  <2>7. CASE Len(e) = 0
    <3>1. f = <<>> /\ Len(f) = 0
      <4>1. e = <<>>
        BY <2>7, NamesAre, EmptySeq
      <4> QED
        BY <4>1, FilledAppend, NamePositions DEF f
    <3>2. Len(a) = 1 /\ a[1] = x /\ Filled(a, b)[1] = p[1] /\ Len(Filled(a, b)) = Len(p)
      BY <2>1, <2>2, <2>4, <2>7, <3>1
    <3>3. Front2(a)
      BY <2>2, <2>3, <3>2
    <3> QED
      BY <2>1, <3>3 DEF a
  <2>8. CASE Len(e) >= 1
    <3>1. Len(a) >= 2 /\ a[1] = e[1] /\ Filled(a, b)[1] = f[1] /\ Len(a) <= Len(Filled(a, b))
      BY <2>1, <2>2, <2>3, <2>4, <2>6, <2>8
    <3>2. ASSUME a[1] \notin DOMAIN b PROVE Filled(a, b)[2] = First(a[2], b)
      <4>0. e[1] \notin DOMAIN b
        BY <3>1, <3>2
      <4>1. CASE Len(e) = 1
        <5>1. a[2] = x
          BY <2>1, <4>1
        <5>2. Len(f) = 1
          BY <2>6, <4>0, <4>1
        <5>3. (f \o p)[2] = p[1]
          <6>1. Len(f) + 1 = 2
            BY <5>2
          <6> QED
            BY <2>4, <6>1
        <5> QED
          BY <2>2, <2>3, <5>1, <5>3
      <4>2. CASE Len(e) >= 2
        <5>1. 2 \in 1..Len(e) /\ 2 \in 1..Len(f)
          BY <2>1, <2>2, <2>6, <4>2
        <5>2. a[2] = e[2]
          BY <2>1, <5>1
        <5>3. (f \o p)[2] = f[2]
          BY <2>4, <5>1
        <5> QED
          BY <2>2, <2>6, <4>0, <4>2, <5>2, <5>3
      <4> QED
        <5>1. Len(e) = 1 \/ Len(e) >= 2
          <6>1. \A n \in Nat : n >= 1 => n = 1 \/ n >= 2
            OBVIOUS
          <6> QED
            BY <2>1, <2>8, <6>1
        <5> QED
          BY <4>1, <4>2, <5>1
    <3>3. Front2(a)
      BY <2>1, <2>6, <2>8, <3>1, <3>2
    <3> QED
      BY <2>1, <3>3 DEF a
  <2> QED
    BY <2>1, <2>7, <2>8
<1>3. c \in T
  <2> HIDE DEF T
  <2> QED
    BY <1>1, <1>2, AllNames
<1> QED
  BY <1>3

\* So nothing that names a directory above comes of components that do not.
LEMMA PlainFilled ==
    ASSUME NEW b, Binds(b), \A x \in DOMAIN b : b[x] # <<>> /\ b[x][1] # ".",
           "." \notin DOMAIN b, NEW c \in Names, Plain(c)
    PROVE  Plain(Filled(c, b))
<1> DEFINE f == Filled(c, b)
<1>1. f \in Names /\ Len(f) \in Nat /\ Len(c) \in Nat
  BY FilledAppend, NamePositions
<1>2. /\ Len(c) <= Len(f)
      /\ Len(c) >= 1 => f[1] = First(c[1], b)
      /\ Len(c) >= 2 /\ c[1] \notin DOMAIN b => f[2] = First(c[2], b)
  BY FilledFront
<1> HIDE DEF f
<1>3. Len(c) # 0
  BY NamesAre, EmptySeq DEF Plain
<1>4. f # <<>>
  BY <1>1, <1>2, <1>3, NamePositions
<1>5. \A x : First(x, b) = "." => x = "."
  BY DEF First
<1>6. ASSUME f[1] = "." PROVE c[1] = "." /\ c[1] \notin DOMAIN b /\ Len(c) >= 2
  <2>1. c[1] = "."
    BY <1>1, <1>2, <1>3, <1>5, <1>6
  <2>2. ASSUME Len(c) = 1 PROVE FALSE
    <3>1. c = <<".">>
      BY <2>1, <2>2, NamesAre
    <3> QED
      BY <3>1 DEF Plain
  <2>3. Len(c) >= 2
    <3>1. \A n \in Nat : n # 0 /\ n # 1 => n >= 2
      OBVIOUS
    <3>2. Len(c) \in Nat /\ Len(c) # 0 /\ Len(c) # 1
      BY <1>1, <1>3, <2>2
    <3> QED
      BY <3>1, <3>2
  <2>4. c[1] \notin DOMAIN b
    BY <2>1
  <2> QED
    BY <2>1, <2>3, <2>4
<1>7. f # <<".">>
  <2>1. <<".">>[1] = "." /\ Len(<<".">>) = 1
    OBVIOUS
  <2> QED
    BY <1>1, <1>2, <1>6, <2>1
<1>8. f # <<".", ".">>
  <2> SUFFICES ASSUME f = <<".", ".">> PROVE FALSE
    OBVIOUS
  <2>1. f[1] = "." /\ f[2] = "." /\ Len(f) = 2
    OBVIOUS
  <2>2. Len(c) = 2 /\ c[1] = "." /\ c[2] = "."
    <3>1. c[1] = "." /\ c[1] \notin DOMAIN b /\ Len(c) >= 2
      BY <1>6, <2>1
    <3>2. f[2] = First(c[2], b)
      BY <1>2, <3>1
    <3>3. Len(c) = 2
      <4>1. \A n \in Nat : n <= 2 /\ n >= 2 => n = 2
        OBVIOUS
      <4>2. Len(c) <= 2 /\ Len(c) >= 2 /\ Len(c) \in Nat
        BY <1>1, <1>2, <2>1, <3>1
      <4> QED
        BY <4>1, <4>2
    <3>4. c[2] = "."
      BY <1>5, <2>1, <3>2
    <3> QED
      BY <3>1, <3>3, <3>4
  <2>3. c = <<".", ".">>
    BY <2>2, NamesAre
  <2> QED
    BY <2>3 DEF Plain
<1> QED
  BY <1>4, <1>7, <1>8 DEF Plain, f

(***************************************************************************)
(* PathLen.                                                                *)
(***************************************************************************)

\* What is empty flattens to nothing.
LEMMA FlattenEmpty ==
    ASSUME NEW S, NEW u \in Seq(Seq(S)), \A i \in DOMAIN u : u[i] = <<>>
    PROVE  FlattenSeq(u) = <<>>
<1> DEFINE T == {s \in Seq(Seq(S)) : (\A i \in 1..Len(s) : s[i] = <<>>) => FlattenSeq(s) = <<>>}
<1>1. <<>> \in T
  BY FlattenAppend
<1>2. ASSUME NEW s \in Seq(Seq(S)), NEW x \in Seq(S), s \in T PROVE Append(s, x) \in T
  <2> DEFINE t == Append(s, x)
  <2>1. /\ t \in Seq(Seq(S)) /\ Len(t) = Len(s) + 1 /\ t[Len(s) + 1] = x
        /\ \A i \in 1..Len(s) : t[i] = s[i]
        /\ Len(s) \in Nat
    OBVIOUS
  <2>2. FlattenSeq(t) = FlattenSeq(s) \o x
    BY FlattenAppend
  <2> HIDE DEF t
  <2>3. ASSUME \A i \in 1..Len(t) : t[i] = <<>> PROVE FlattenSeq(t) = <<>>
    <3>1. x = <<>>
      BY <2>1, <2>3
    <3>2. ASSUME NEW i \in 1..Len(s) PROVE s[i] = <<>>
      <4>1. i \in 1..Len(t) /\ t[i] = s[i]
        BY <2>1
      <4> QED
        BY <2>3, <4>1
    <3>3. FlattenSeq(s) = <<>>
      BY <1>2, <3>2
    <3>4. <<>> \o <<>> = <<>>
      BY ConcatEmptySeq, EmptySeq
    <3> QED
      BY <2>2, <3>1, <3>3, <3>4
  <2> QED
    BY <2>1, <2>3 DEF t
<1>3. u \in T
  <2> HIDE DEF T
  <2> QED
    BY <1>1, <1>2, AllSequences
<1>4. \A i \in 1..Len(u) : u[i] = <<>>
  OBVIOUS
<1> QED
  BY <1>3, <1>4

\* What is emptied at one place flattens to as much less.
EmptiedAt(v, u, x) == \A i \in 1..Len(u) : v[i] = IF i = x THEN <<>> ELSE u[i]

LEMMA FlattenLess ==
    ASSUME NEW S, NEW u \in Seq(Seq(S)), NEW v \in Seq(Seq(S)), Len(u) = Len(v),
           NEW x \in 1..Len(u), EmptiedAt(v, u, x)
    PROVE  Len(FlattenSeq(u)) = Len(FlattenSeq(v)) + Len(u[x])
<1> DEFINE Less(s, t, y) == Len(FlattenSeq(s)) = Len(FlattenSeq(t)) + Len(s[y])
           T == {n \in Nat : \A s, t \in Seq(Seq(S)) : Len(s) = n /\ Len(t) = n =>
                   \A y \in 1..n : EmptiedAt(t, s, y) => Less(s, t, y)}
<1>1. 0 \in T
  OBVIOUS
<1>2. ASSUME NEW n \in Nat, n \in T PROVE n + 1 \in T
  <2> SUFFICES ASSUME NEW s \in Seq(Seq(S)), NEW t \in Seq(Seq(S)), Len(s) = n + 1, Len(t) = n + 1,
                      NEW y \in 1..n + 1, EmptiedAt(t, s, y)
               PROVE  Less(s, t, y)
    OBVIOUS
  <2> DEFINE a == SubSeq(s, 1, n)
             b == SubSeq(t, 1, n)
  <2>1. /\ a \in Seq(Seq(S)) /\ Len(a) = n /\ s[n + 1] \in Seq(S) /\ s = Append(a, s[n + 1])
        /\ \A i \in 1..n : a[i] = s[i]
    BY FrontAndLast
  <2>2. /\ b \in Seq(Seq(S)) /\ Len(b) = n /\ t[n + 1] \in Seq(S) /\ t = Append(b, t[n + 1])
        /\ \A i \in 1..n : b[i] = t[i]
    BY FrontAndLast
  <2> HIDE DEF a, b
  <2>3. \A i \in 1..n + 1 : t[i] = IF i = y THEN <<>> ELSE s[i]
    BY DEF EmptiedAt
  <2>8. ASSUME NEW i \in 1..n PROVE b[i] = IF i = y THEN <<>> ELSE a[i]
    <3>1. i \in 1..n + 1
      OBVIOUS
    <3>2. b[i] = t[i] /\ a[i] = s[i]
      BY <2>1, <2>2
    <3>3. t[i] = IF i = y THEN <<>> ELSE s[i]
      BY <2>3, <3>1
    <3> QED
      BY ONLY <3>2, <3>3
  <2>4. /\ FlattenSeq(a) \in Seq(S) /\ FlattenSeq(b) \in Seq(S)
        /\ FlattenSeq(s) = FlattenSeq(a) \o s[n + 1] /\ FlattenSeq(t) = FlattenSeq(b) \o t[n + 1]
    <3>1. /\ \A r \in Seq(Seq(S)) : FlattenSeq(r) \in Seq(S)
          /\ \A r \in Seq(Seq(S)), z \in Seq(S) : FlattenSeq(Append(r, z)) = FlattenSeq(r) \o z
      BY FlattenAppend
    <3>2. FlattenSeq(a) \in Seq(S) /\ FlattenSeq(s) = FlattenSeq(a) \o s[n + 1]
      BY <2>1, <3>1
    <3>3. FlattenSeq(b) \in Seq(S) /\ FlattenSeq(t) = FlattenSeq(b) \o t[n + 1]
      BY <2>2, <3>1
    <3> QED
      BY <3>2, <3>3
  <2>5. /\ Len(FlattenSeq(s)) = Len(FlattenSeq(a)) + Len(s[n + 1])
        /\ Len(FlattenSeq(t)) = Len(FlattenSeq(b)) + Len(t[n + 1])
        /\ Len(FlattenSeq(a)) \in Nat /\ Len(FlattenSeq(b)) \in Nat
        /\ Len(s[n + 1]) \in Nat /\ Len(t[n + 1]) \in Nat
    BY <2>1, <2>2, <2>4, Positions
  <2>6. CASE y = n + 1
    <3>1. ASSUME NEW i \in 1..n PROVE a[i] = b[i]
      <4>1. i # y
        BY <2>6
      <4> QED
        BY <2>8, <4>1
    <3>2. a = b
      BY <2>1, <2>2, <3>1, SeqEqual
    <3>3. t[n + 1] = <<>> /\ Len(<<>>) = 0
      BY <2>3, <2>6
    <3>4. Len(t[n + 1]) = 0
      BY <3>3
    <3> QED
      BY <2>5, <2>6, <3>2, <3>4
  <2>7. CASE y # n + 1
    <3>1. y \in 1..n
      BY <2>7
    <3>2. EmptiedAt(b, a, y)
      BY <2>1, <2>8 DEF EmptiedAt
    <3>3. Less(a, b, y)
      BY <1>2, <2>1, <2>2, <3>1, <3>2
    <3>4. s[n + 1] = t[n + 1] /\ a[y] = s[y]
      <4>1. n + 1 \in 1..n + 1 /\ n + 1 # y
        BY <2>7
      <4>2. t[n + 1] = s[n + 1]
        BY <2>3, <4>1
      <4>3. a[y] = s[y]
        BY <2>1, <3>1
      <4> QED
        BY <4>2, <4>3
    <3>5. Len(s[y]) \in Nat
      BY <2>1, <3>1, Positions
    <3>6. Len(FlattenSeq(a)) = Len(FlattenSeq(b)) + Len(s[y]) /\ Len(s[n + 1]) = Len(t[n + 1])
      BY <3>3, <3>4
    <3> DEFINE la == Len(FlattenSeq(a))
               lb == Len(FlattenSeq(b))
               ls == Len(FlattenSeq(s))
               lt == Len(FlattenSeq(t))
               sy == Len(s[y])
               tn == Len(t[n + 1])
    <3>8. /\ ls = la + tn /\ lt = lb + tn /\ la = lb + sy
          /\ lb \in Nat /\ tn \in Nat /\ sy \in Nat
      BY <2>5, <3>5, <3>6
    <3>9. ls = lt + sy
      <4> HIDE DEF la, lb, ls, lt, sy, tn
      <4> QED
        BY <3>8
    <3> QED
      BY <3>9
  <2> QED
    BY <2>6, <2>7
<1>3. Nat \subseteq T
  <2> HIDE DEF T
  <2> QED
    BY <1>1, <1>2, AllNaturals
<1>4. Len(u) \in T
  BY <1>3, Positions
<1> QED
  BY <1>4

\* The function PathLen is read off from.
Weighs(f, p) ==
    f = [s \in SUBSET DOMAIN p |->
          IF s = {} THEN 0
          ELSE LET x == CHOOSE i \in s : TRUE IN f[s \ {x}] + Len(p[x]) + 1]

\* The components in s only, and what they weigh.
Masked(p, s) == [i \in DOMAIN p |-> IF i \in s THEN p[i] ELSE <<>>]
Weight(p, s) == Len(FlattenSeq(Masked(p, s))) + Cardinality(s)

LEMMA WeightLess ==
    ASSUME NEW p \in Seq(Names), NEW s \in SUBSET DOMAIN p
    PROVE  /\ IsFiniteSet(s) /\ Weight(p, s) \in Nat
           /\ s = {} => Weight(p, s) = 0
           /\ \A x \in s : Weight(p, s) = Weight(p, s \ {x}) + Len(p[x]) + 1
<1> DEFINE n == Len(p)
<1>1. /\ p \in Seq(Seq(Signs)) /\ n \in Nat /\ DOMAIN p = 1..n
      /\ \A i \in 1..n : p[i] \in Seq(Signs) /\ Len(p[i]) \in Nat
  <2>1. p \in Seq(Seq(Signs))
    BY NamesAre
  <2>2. n \in Nat /\ DOMAIN p = 1..n /\ \A i \in 1..n : p[i] \in Seq(Signs)
    BY <2>1
  <2> QED
    BY <2>1, <2>2, Positions
<1>2. ASSUME NEW r \in SUBSET (1..n)
      PROVE  /\ Masked(p, r) \in Seq(Seq(Signs)) /\ Len(Masked(p, r)) = n
             /\ \A i \in 1..n : Masked(p, r)[i] = IF i \in r THEN p[i] ELSE <<>>
             /\ Len(FlattenSeq(Masked(p, r))) \in Nat
             /\ IsFiniteSet(r) /\ Cardinality(r) \in Nat
  <2> DEFINE m == Masked(p, r)
  <2>1. m = [i \in 1..n |-> IF i \in r THEN p[i] ELSE <<>>]
    BY <1>1 DEF Masked
  <2>2. <<>> \in Seq(Signs)
    OBVIOUS
  <2>3. \A i \in 1..n : m[i] \in Seq(Signs) /\ m[i] = IF i \in r THEN p[i] ELSE <<>>
    BY <1>1, <2>1, <2>2
  <2>4. m \in [1..n -> Seq(Signs)]
    <3> HIDE DEF m
    <3> QED
      BY <2>1, <2>3
  <2>5. m \in Seq(Seq(Signs)) /\ Len(m) = n
    <3> HIDE DEF m, n
    <3> QED
      BY <1>1, <2>4
  <2>6. FlattenSeq(m) \in Seq(Signs)
    <3> HIDE DEF m
    <3> QED
      BY <2>5, FlattenAppend
  <2>7. IsFiniteSet(1..n)
    BY <1>1, FS_Interval
  <2>8. IsFiniteSet(r) /\ Cardinality(r) \in Nat
    BY <2>7, FS_Subset, FS_CardinalityType
  <2> HIDE DEF m, n
  <2>9. Len(FlattenSeq(m)) \in Nat
    BY <2>6, Positions
  <2> QED
    BY <2>3, <2>5, <2>8, <2>9 DEF m
<1> HIDE DEF n
<1>3. s \in SUBSET (1..n)
  BY <1>1
<1>4. ASSUME s = {} PROVE Weight(p, s) = 0
  <2>1. \A i \in DOMAIN Masked(p, s) : Masked(p, s)[i] = <<>>
    BY <1>4 DEF Masked
  <2>2. FlattenSeq(Masked(p, s)) = <<>>
    BY <1>2, <1>3, <2>1, FlattenEmpty
  <2>3. Cardinality(s) = 0
    BY <1>4, FS_EmptySet
  <2> QED
    BY <2>2, <2>3 DEF Weight
<1>5. ASSUME NEW x \in s PROVE Weight(p, s) = Weight(p, s \ {x}) + Len(p[x]) + 1
  <2> DEFINE u == Masked(p, s)
             r == s \ {x}
             v == Masked(p, r)
  <2>1. /\ u \in Seq(Seq(Signs)) /\ Len(u) = n /\ Len(FlattenSeq(u)) \in Nat
        /\ \A i \in 1..n : u[i] = IF i \in s THEN p[i] ELSE <<>>
    BY <1>2, <1>3
  <2>2. /\ v \in Seq(Seq(Signs)) /\ Len(v) = n /\ Len(FlattenSeq(v)) \in Nat
        /\ \A i \in 1..n : v[i] = IF i \in r THEN p[i] ELSE <<>>
        /\ Cardinality(r) \in Nat
    BY <1>2, <1>3
  <2>3. x \in 1..n
    BY <1>3
  <2> HIDE DEF u, v
  <2>4. EmptiedAt(v, u, x)
    BY <2>1, <2>2 DEF EmptiedAt
  <2>5. Len(FlattenSeq(u)) = Len(FlattenSeq(v)) + Len(u[x])
    <3>1. u \in Seq(Seq(Signs)) /\ v \in Seq(Seq(Signs)) /\ Len(u) = Len(v) /\ x \in 1..Len(u)
      BY <2>1, <2>2, <2>3
    <3> QED
      BY <2>4, <3>1, FlattenLess
  <2>6. u[x] = p[x] /\ Len(p[x]) \in Nat
    BY <1>1, <2>1, <2>3
  <2>7. Cardinality(r) = Cardinality(s) - 1 /\ Cardinality(s) \in Nat
    BY <1>2, <1>3, FS_RemoveElement
  <2> HIDE DEF r
  <2>8. Len(FlattenSeq(u)) + Cardinality(s) = Len(FlattenSeq(v)) + Cardinality(r) + Len(p[x]) + 1
    BY <2>1, <2>2, <2>5, <2>6, <2>7
  <2> QED
    BY <2>8 DEF Weight, u, v, r
<1>6. IsFiniteSet(s) /\ Weight(p, s) \in Nat
  <2>1. Len(FlattenSeq(Masked(p, s))) \in Nat /\ Cardinality(s) \in Nat /\ IsFiniteSet(s)
    BY <1>2, <1>3
  <2> QED
    BY <2>1 DEF Weight
<1> QED
  BY <1>4, <1>5, <1>6

\* PathLen is the length of the path's text: that of its components, and of what
\* separates them.
LEMMA PathLenIs ==
    ASSUME NEW p \in Seq(Names)
    PROVE  PathLen(p) = Len(FlattenSeq(p)) + Len(p) - 1
<1> DEFINE f == CHOOSE g : Weighs(g, p)
           W == [s \in SUBSET DOMAIN p |-> Weight(p, s)]
<1>1. PathLen(p) = f[DOMAIN p] - 1
  BY DEF PathLen, FoldSeq, FoldFunction, FoldFunctionOnSet, MapThenFoldSet, Weighs
<1>2. Weighs(W, p)
  <2>1. ASSUME NEW s \in SUBSET DOMAIN p, s # {}
        PROVE  W[s] = LET x == CHOOSE i \in s : TRUE IN W[s \ {x}] + Len(p[x]) + 1
    <3> DEFINE x == CHOOSE i \in s : TRUE
    <3>1. x \in s
      BY <2>1
    <3> HIDE DEF x
    <3>2. W[s] = Weight(p, s) /\ W[s \ {x}] = Weight(p, s \ {x})
      BY <3>1
    <3>3. Weight(p, s) = Weight(p, s \ {x}) + Len(p[x]) + 1
      BY <3>1, WeightLess
    <3> QED
      BY <3>2, <3>3 DEF x
  <2>2. W[{}] = 0
    BY WeightLess
  <2>3. W = [s \in SUBSET DOMAIN p |-> W[s]]
    OBVIOUS
  <2> HIDE DEF W
  <2> QED
    BY <2>1, <2>2, <2>3 DEF Weighs
<1>3. Weighs(f, p)
  <2> HIDE DEF W
  <2> QED
    BY <1>2
<1> HIDE DEF f, W
<1> DEFINE T == {n \in Nat : \A s \in SUBSET DOMAIN p : Cardinality(s) = n => f[s] = Weight(p, s)}
<1>4. 0 \in T
  <2> SUFFICES ASSUME NEW s \in SUBSET DOMAIN p, Cardinality(s) = 0 PROVE f[s] = Weight(p, s)
    OBVIOUS
  <2>1. s = {}
    BY WeightLess, FS_EmptySet
  <2>2. f[s] = 0
    BY <1>3, <2>1 DEF Weighs
  <2> QED
    BY <2>1, <2>2, WeightLess
<1>5. ASSUME NEW n \in Nat, n \in T PROVE n + 1 \in T
  <2> SUFFICES ASSUME NEW s \in SUBSET DOMAIN p, Cardinality(s) = n + 1 PROVE f[s] = Weight(p, s)
    OBVIOUS
  <2> DEFINE x == CHOOSE i \in s : TRUE
  <2>1. IsFiniteSet(s) /\ s # {}
    BY WeightLess, FS_EmptySet
  <2>2. x \in s
    BY <2>1
  <2>3. f[s] = f[s \ {x}] + Len(p[x]) + 1
    BY <1>3, <2>1 DEF Weighs
  <2> HIDE DEF x
  <2>4. Cardinality(s \ {x}) = n
    <3>1. Cardinality(s \ {x}) = Cardinality(s) - 1
      BY <2>1, <2>2, FS_RemoveElement
    <3> QED
      BY <3>1
  <2>5. f[s \ {x}] = Weight(p, s \ {x})
    BY <1>5, <2>4
  <2> QED
    BY <2>2, <2>3, <2>5, WeightLess
<1>6. Nat \subseteq T
  <2> HIDE DEF T
  <2> QED
    BY <1>4, <1>5, AllNaturals
<1>7. f[DOMAIN p] = Weight(p, DOMAIN p)
  <2>1. IsFiniteSet(DOMAIN p) /\ Cardinality(DOMAIN p) \in Nat
    BY WeightLess, FS_CardinalityType
  <2> QED
    BY <1>6, <2>1
<1>8. Weight(p, DOMAIN p) = Len(FlattenSeq(p)) + Len(p)
  <2>1. Masked(p, DOMAIN p) = p
    BY DEF Masked
  <2>2. DOMAIN p = 1..Len(p) /\ Len(p) \in Nat
    OBVIOUS
  <2>3. Cardinality(DOMAIN p) = Len(p)
    <3>1. Cardinality(1..Len(p)) = IF 1 > Len(p) THEN 0 ELSE Len(p) - 1 + 1
      BY <2>2, FS_Interval
    <3> QED
      BY <2>2, <3>1
  <2> QED
    BY <2>1, <2>3 DEF Weight
<1> QED
  BY <1>1, <1>7, <1>8

(***************************************************************************)
(* The invariant.                                                          *)
(***************************************************************************)

\* The paths below an area's membership directory that may be a group's.
PathsOf(area) == IF area.isSet THEN GroupPaths(area) ELSE {<<>>}

\* A group is what its area and its directory below it make of it.
OfItsArea(g) ==
    /\ g.id.area \in DOMAIN conf /\ g.id.path \in PathsOf(conf[g.id.area])
    /\ g = GroupConfig(g.id.area, g.id.path)

Chosen ==
    /\ conf \in Configs /\ tree \in Trees
    /\ pc \in {"load", "rejected", "discover", "observe", "done"}
    /\ pc \in {"discover", "observe", "done"} => Valid(conf)

NoneYet == pc \in {"load", "rejected", "discover"} => groups = {}

GroupsKnown == \A g \in groups : OfItsArea(g)

\* A mount is one of a group's, where the group's area wants it.
DesiredKnown ==
    \A d \in desired : \E g \in groups, name \in Files : d = DesiredMount(g, name)

NoneDesired == pc # "done" => desired = {}

NotesKnown == \A n \in notes : n.area \in DOMAIN conf

IInv == Chosen /\ NoneYet /\ GroupsKnown /\ DesiredKnown /\ NoneDesired /\ NotesKnown

\* A note names its area.
LEMMA NoteArea == \A area, path, reason : Note(area, path, reason).area = area
  BY DEF Note

\* Load, Discover and Observe preserve the invariant: what a group is made of
\* does not change once the configuration and the tree are chosen.
LEMMA Inductive == Spec => []IInv
<1>1. Init => IInv
  BY DEF Init, IInv, Chosen, NoneYet, GroupsKnown, DesiredKnown, NoneDesired, NotesKnown
<1>2. IInv /\ [Next]_vars => IInv'
  <2> SUFFICES ASSUME IInv, [Next]_vars PROVE IInv'
    OBVIOUS
  <2>1. conf' = conf /\ tree' = tree
    BY DEF Next, Load, Discover, Observe, vars
  <2>2. Dirs' = Dirs /\ Files' = Files
    BY <2>1 DEF Dirs, Files, Visible
  <2>3. \A g : OfItsArea(g)' <=> OfItsArea(g)
    BY <2>1, <2>2 DEF OfItsArea, GroupConfig, PathsOf, GroupPaths
  <2>4. CASE Load
    BY <2>1, <2>2, <2>3, <2>4
       DEF Load, IInv, Chosen, NoneYet, GroupsKnown, DesiredKnown, NoneDesired, NotesKnown
  <2>5. CASE Discover
    <3>1. Chosen' /\ NoneYet' /\ NoneDesired' /\ DesiredKnown'
      BY <2>1, <2>5 DEF Discover, IInv, Chosen, NoneYet, NoneDesired, DesiredKnown
    <3>2. ASSUME NEW g \in groups' PROVE OfItsArea(g)
      <4>1. PICK a \in DOMAIN conf : \E path \in PathsOf(conf[a]) : g = GroupConfig(a, path)
        BY <2>5 DEF Discover, PathsOf
      <4>2. PICK path \in PathsOf(conf[a]) : g = GroupConfig(a, path)
        BY <4>1
      <4>3. g.id = GroupId(a, path)
        BY <4>2 DEF GroupConfig
      <4>4. g.id.area = a /\ g.id.path = path
        BY <4>3 DEF GroupId
      <4> QED
        BY <4>2, <4>4 DEF OfItsArea
    <3>3. ASSUME NEW n \in notes' PROVE n.area \in DOMAIN conf
      <4>1. PICK a \in DOMAIN conf :
               n \in RejectedEntries(a) \/ \E path \in GroupPaths(conf[a]) : n = Note(a, path, "template")
        BY <2>5 DEF Discover
      <4>2. n \in RejectedEntries(a) => n.area = a
        <5> SUFFICES ASSUME n \in RejectedEntries(a) PROVE n.area = a
          OBVIOUS
        <5>1. PICK prefix \in PathsAbove(conf[a]), raw \in Visible(tree.levels) \ Dirs :
                 n = Note(a, prefix \o <<raw>>, "entry")
          BY SMT DEF RejectedEntries
        <5> QED
          BY <5>1, NoteArea
      <4> QED
        BY <4>1, <4>2, NoteArea
    <3> QED
      BY <3>1, <3>2, <3>3, <2>1, <2>3 DEF IInv, GroupsKnown, NotesKnown
  <2>6. CASE Observe
    <3>1. Chosen' /\ NoneYet' /\ NoneDesired' /\ GroupsKnown'
      BY <2>1, <2>3, <2>6 DEF Observe, IInv, Chosen, NoneYet, NoneDesired, GroupsKnown
    <3>2. DesiredKnown'
      BY <2>2, <2>6 DEF Observe, Members, DesiredKnown
    <3>3. \A g \in groups : g.id.area \in DOMAIN conf
      BY DEF IInv, GroupsKnown, OfItsArea
    <3>4. \A g \in groups, name \in Files : DesiredMount(g, name).group.area \in DOMAIN conf
      BY <3>3 DEF DesiredMount
    <3>5. ASSUME NEW n \in notes' PROVE n.area \in DOMAIN conf
      <4>1. CASE n \in notes
        BY <4>1 DEF IInv, NotesKnown
      <4>2. CASE n \in UnfitMembers
        <5>1. PICK m \in Members : n = Note(m.group.area, m.group.path \o <<m.name>>, MemberVerdict(m))
          BY <4>2 DEF UnfitMembers
        <5>2. m.group.area \in DOMAIN conf
          BY <3>4 DEF Members
        <5> QED
          BY <5>1, <5>2, NoteArea
      <4>3. CASE n \in RejectedFiles
        <5>1. PICK g \in groups, raw \in Visible(tree.members) \ Files :
                 n = Note(g.id.area, g.id.path \o <<raw>>, "entry")
          BY <4>3, SMT DEF RejectedFiles
        <5> QED
          BY <5>1, <3>3, NoteArea
      <4> QED
        BY <2>6, <4>1, <4>2, <4>3 DEF Observe
    <3> QED
      BY <3>1, <3>2, <3>5, <2>1 DEF IInv, NotesKnown
  <2>7. CASE UNCHANGED vars
    BY <2>1, <2>2, <2>3, <2>7
       DEF vars, IInv, Chosen, NoneYet, GroupsKnown, DesiredKnown, NoneDesired, NotesKnown
  <2> QED
    BY <2>4, <2>5, <2>6, <2>7 DEF Next
<1> QED
  BY <1>1, <1>2, PTL DEF Spec

(***************************************************************************)
(* What the invariant says of directories.                                 *)
(***************************************************************************)

\* Two paths one of which contains the other have fronts that do so, too.
LEMMA RootsOverlap ==
    ASSUME NEW S, NEW p \in Seq(S), NEW x \in Seq(S), NEW q \in Seq(S), NEW y \in Seq(S),
           Overlap(p \o x, q \o y)
    PROVE  Overlap(p, q)
<1>1. p \o x \in Seq(S) /\ q \o y \in Seq(S)
  OBVIOUS
<1>2. IsPrefix(p, p \o x) /\ IsPrefix(q, q \o y)
  BY PrefixOfJoined
<1>3. CASE IsPrefix(p \o x, q \o y)
  <2>1. IsPrefix(p, q \o y)
    BY <1>1, <1>3, PrefixOfFront
  <2> QED
    BY <1>1, <1>2, <2>1, PrefixesComparable DEF Overlap, AtOrBeneath
<1>4. CASE IsPrefix(q \o y, p \o x)
  <2>1. IsPrefix(q, p \o x)
    BY <1>1, <1>4, PrefixOfFront
  <2> QED
    BY <1>1, <1>2, <2>1, PrefixesComparable DEF Overlap, AtOrBeneath
<1> QED
  BY <1>3, <1>4 DEF Overlap, AtOrBeneath

\* What is known of a group's directory: its area's, and the path below it.
LEMMA GroupDirectory ==
    ASSUME IInv, NEW g \in groups
    PROVE  /\ g.id.area \in DOMAIN conf /\ CrossGroup(conf)
           /\ g = GroupConfig(g.id.area, g.id.path)
           /\ g.membership = conf[g.id.area].membership \o g.id.path
           /\ conf[g.id.area].membership \in Seq(Names) /\ conf[g.id.area].targetRoot \in Seq(Names)
           /\ conf[g.id.area].isSet \in BOOLEAN
           /\ g.id.path \in Seq(Names)
           /\ conf[g.id.area].isSet => Len(g.id.path) = Depth(conf[g.id.area])
           /\ ~conf[g.id.area].isSet => g.id.path = <<>>
<1>1. OfItsArea(g)
  BY DEF IInv, GroupsKnown
<1>2. CrossGroup(conf)
  BY DEF IInv, Chosen, NoneYet, Valid
<1>3. g.membership = conf[g.id.area].membership \o g.id.path
  <2>1. GroupConfig(g.id.area, g.id.path).membership = conf[g.id.area].membership \o g.id.path
    BY DEF GroupConfig
  <2> QED
    BY <1>1, <2>1 DEF OfItsArea
<1>4. /\ conf[g.id.area].isSet \in BOOLEAN
      /\ conf[g.id.area].membership \in Seq(Names) /\ conf[g.id.area].targetRoot \in Seq(Names)
  BY <1>1, PlacementAssumption DEF OfItsArea, IInv, Chosen, Paths
<1>5. Dirs \subseteq Names
  BY PlacementAssumption DEF Dirs, Visible, IInv, Chosen
<1>6. Depth(conf[g.id.area]) \in Nat
  BY DEF Depth
<1>7. CASE conf[g.id.area].isSet
  <2>1. g.id.path \in [1..Depth(conf[g.id.area]) -> Dirs]
    BY <1>1, <1>7 DEF OfItsArea, PathsOf, GroupPaths
  <2>2. g.id.path \in Seq(Names) /\ Len(g.id.path) = Depth(conf[g.id.area])
    BY <2>1, <1>5, <1>6
  <2> QED
    BY <2>2, <1>1, <1>2, <1>3, <1>4, <1>7 DEF OfItsArea
<1>8. CASE ~conf[g.id.area].isSet
  <2>1. g.id.path = <<>>
    BY <1>1, <1>8 DEF OfItsArea, PathsOf
  <2>2. g.id.path \in Seq(Names)
    BY <2>1
  <2> QED
    BY <2>1, <2>2, <1>1, <1>2, <1>3, <1>4, <1>8 DEF OfItsArea
<1> QED
  BY <1>7, <1>8

\* The rule across groups compares the roots of sets before any group is found
\* (config.rs:1039); it keeps the directories of all groups apart that are
\* found later: a membership file makes a member of one group.
THEOREM OneGroupPerDirectoryHolds == Spec => []OneGroupPerDirectory
<1>1. IInv => OneGroupPerDirectory
  <2> SUFFICES ASSUME IInv, NEW g \in groups, NEW h \in groups, g # h,
                      conf[g.id.area].isSet \/ conf[h.id.area].isSet,
                      Overlap(g.membership, h.membership)
               PROVE  FALSE
    BY DEF OneGroupPerDirectory
  <2> DEFINE m == conf[g.id.area].membership
             n == conf[h.id.area].membership
             x == g.id.path
             y == h.id.path
  <2>1. m \in Seq(Names) /\ n \in Seq(Names) /\ x \in Seq(Names) /\ y \in Seq(Names)
    BY GroupDirectory
  <2>2. Overlap(m \o x, n \o y)
    BY GroupDirectory
  <2>3. CASE g.id.area # h.id.area
    <3>1. Overlap(m, n)
      BY <2>1, <2>2, RootsOverlap
    <3>2. ~Overlap(m, n)
      BY <2>3, GroupDirectory DEF CrossGroup, Overlap
    <3> QED
      BY <3>1, <3>2
  <2>4. CASE g.id.area = h.id.area
    <3>1. Len(x) = Len(y)
      <4>1. conf[g.id.area].isSet /\ conf[h.id.area].isSet
        BY <2>4
      <4>2. Len(x) = Depth(conf[g.id.area]) /\ Len(y) = Depth(conf[h.id.area])
        BY <4>1, GroupDirectory
      <4> QED
        BY <4>2, <2>4
    <3>2. IsPrefix(m \o x, m \o y) \/ IsPrefix(m \o y, m \o x)
      BY <2>2, <2>4 DEF Overlap, AtOrBeneath
    <3>3. x = y
      BY <2>1, <3>1, <3>2, SiblingsApart
    <3> QED
      BY <2>4, <3>3, GroupDirectory
  <2> QED
    BY <2>3, <2>4
<1> QED
  BY <1>1, Inductive, PTL

\* No view is mounted on or above a group's membership directory, whatever the
\* templates and names make of it, unless the target root is configured inside
\* the root of the set (config.rs:1039 does not compare these).
THEOREM MembershipUncoveredHolds == Spec => []MembershipUncovered
<1>1. IInv => MembershipUncovered
  <2> SUFFICES ASSUME IInv, NEW g \in groups, NEW d \in desired, IsPrefix(Target(d), g.membership)
               PROVE  LET root == conf[g.id.area].membership
                      IN  conf[g.id.area].isSet /\ IsPrefix(root, d.targetRoot) /\ d.targetRoot # root
    BY DEF MembershipUncovered, AtOrBeneath
  <2> DEFINE root == conf[g.id.area].membership
             S == Names \cup {d.target[i] : i \in DOMAIN d.target}
  <2>1. PICK h \in groups, name \in Files : d = DesiredMount(h, name)
    BY DEF IInv, DesiredKnown
  <2>2. d.targetRoot = conf[h.id.area].targetRoot
    <3>1. h.targetRoot = conf[h.id.area].targetRoot
      <4>1. GroupConfig(h.id.area, h.id.path).targetRoot = conf[h.id.area].targetRoot
        BY DEF GroupConfig
      <4> QED
        BY <4>1, GroupDirectory
    <3> QED
      BY <2>1, <3>1 DEF DesiredMount
  <2>3. d.target \in Seq(S)
    <3>1. PICK k \in Nat : DOMAIN d.target = 1..k
      <4>1. h.target = BindLevels(conf[h.id.area].target, h.id.path)
        <5>1. GroupConfig(h.id.area, h.id.path).target = BindLevels(conf[h.id.area].target, h.id.path)
          BY DEF GroupConfig
        <5> QED
          BY <5>1, GroupDirectory
      <4>2. d.target = Interpolated(h.target, name)
        BY <2>1 DEF DesiredMount
      <4>3. conf[h.id.area].target \in Seq(Names)
        BY GroupDirectory, PlacementAssumption DEF IInv, Chosen, Paths
      <4>4. DOMAIN d.target = DOMAIN conf[h.id.area].target
        BY <4>1, <4>2 DEF Interpolated, BindLevels
      <4> QED
        BY <4>3, <4>4
    <3>2. d.target = [i \in 1..k |-> d.target[i]]
      BY <2>1, <3>1 DEF DesiredMount, Interpolated
    <3>3. \A i \in 1..k : d.target[i] \in S
      BY <3>1
    <3> HIDE DEF S
    <3> QED
      BY <3>2, <3>3
  <2>4. root \in Seq(S) /\ d.targetRoot \in Seq(S) /\ g.membership \in Seq(S) /\ g.id.path \in Seq(S)
        /\ g.membership = root \o g.id.path
    <3>1. root \in Seq(Names) /\ g.id.path \in Seq(Names) /\ g.membership = root \o g.id.path
      BY GroupDirectory
    <3>2. d.targetRoot \in Seq(Names)
      BY <2>2, GroupDirectory
    <3>3. Names \subseteq S
      OBVIOUS
    <3> HIDE DEF S, root
    <3> QED
      BY <3>1, <3>2, <3>3
  <2>5. IsPrefix(d.targetRoot, g.membership)
    <3> HIDE DEF S, root
    <3> QED
      BY <2>3, <2>4, PrefixOfFront DEF Target
  <2>6. IsPrefix(root, g.membership) /\ IsPrefix(root, root)
    <3> HIDE DEF S, root
    <3> QED
      BY <2>4, PrefixOfJoined
  <2>7. IsPrefix(root, d.targetRoot) \/ IsPrefix(d.targetRoot, root)
    <3> HIDE DEF S, root
    <3> QED
      BY <2>4, <2>5, <2>6, PrefixesComparable
  <2>8. ~IsPrefix(d.targetRoot, root)
    BY <2>2, GroupDirectory DEF CrossGroup, AtOrBeneath
  <2>9. conf[g.id.area].isSet
    <3>1. SUFFICES ASSUME ~conf[g.id.area].isSet PROVE FALSE
      BY GroupDirectory
    <3>2. g.id.path = <<>> /\ root \in Seq(Names)
      BY <3>1, GroupDirectory
    <3>3. g.membership = root
      <4> HIDE DEF root
      <4> QED
        BY <2>4, <3>2
    <3> QED
      BY <3>3, <2>5, <2>8
  <2> QED
    BY <2>6, <2>7, <2>8, <2>9
<1> QED
  BY <1>1, Inductive, PTL

\* Every group there is, every mount wanted and every note belongs to an area of
\* the configuration, and is named by valid names only.
THEOREM TypeCorrect == Spec => []TypeOK
<1>1. IInv => TypeOK
  <2> SUFFICES ASSUME IInv PROVE TypeOK
    OBVIOUS
  <2>1. ASSUME NEW g \in groups
        PROVE  g.id.area \in DOMAIN conf /\ \A l \in DOMAIN g.id.path : ValidName(g.id.path[l])
    <3>1. g.id.area \in DOMAIN conf /\ g.id.path \in PathsOf(conf[g.id.area])
      BY DEF IInv, GroupsKnown, OfItsArea
    <3>2. CASE conf[g.id.area].isSet
      BY <3>1, <3>2 DEF PathsOf, GroupPaths, Dirs
    <3>3. CASE ~conf[g.id.area].isSet
      BY <3>1, <3>3 DEF PathsOf
    <3> QED
      BY <3>1, <3>2, <3>3
  <2>2. ASSUME NEW d \in desired
        PROVE  ValidName(d.name) /\ \E g \in groups : g.id = d.group
    <3>1. PICK g \in groups, name \in Files : d = DesiredMount(g, name)
      BY DEF IInv, DesiredKnown
    <3> QED
      BY <3>1 DEF DesiredMount, Files
  <2> QED
    BY <2>1, <2>2 DEF IInv, Chosen, NotesKnown, TypeOK
<1> QED
  BY <1>1, Inductive, PTL

(***************************************************************************)
(* What is filled in.                                                      *)
(***************************************************************************)

\* Which token stands for which level.
LEMMA LevelBindingIs ==
    ASSUME NEW d \in 0..2, NEW path \in [1..d -> Names]
    PROVE  /\ DOMAIN LevelBinding(path) = {LevelPlaceholders[l] : l \in 1..d}
           /\ \A l \in 1..d : LevelBinding(path)[LevelPlaceholders[l]] = path[l]
           /\ Binds(LevelBinding(path))
           /\ DOMAIN LevelBinding(path) \subseteq {"{group}", "{subgroup}"}
<1>1. DOMAIN path = 1..d
  OBVIOUS
<1>2. DOMAIN LevelBinding(path) = {LevelPlaceholders[l] : l \in 1..d}
  BY <1>1 DEF LevelBinding
<1>3. \A k, l \in 1..d : LevelPlaceholders[k] = LevelPlaceholders[l] => k = l
  <2>1. \A k \in 1..d : k = 1 \/ k = 2
    OBVIOUS
  <2>2. LevelPlaceholders[1] # LevelPlaceholders[2]
    BY LevelsAre
  <2> QED
    BY <2>1, <2>2
<1>4. ASSUME NEW l \in 1..d PROVE LevelBinding(path)[LevelPlaceholders[l]] = path[l]
  <2> DEFINE k == CHOOSE j \in DOMAIN path : LevelPlaceholders[j] = LevelPlaceholders[l]
  <2>1. LevelBinding(path)[LevelPlaceholders[l]] = path[k]
    BY <1>1 DEF LevelBinding
  <2>2. k \in 1..d /\ LevelPlaceholders[k] = LevelPlaceholders[l]
    BY <1>1
  <2>3. k = l
    BY <1>3, <2>2
  <2> QED
    BY <2>1, <2>3
<1>5. Binds(LevelBinding(path))
  <2> SUFFICES ASSUME NEW x \in DOMAIN LevelBinding(path) PROVE LevelBinding(path)[x] \in Names
    BY DEF Binds
  <2>1. PICK l \in 1..d : x = LevelPlaceholders[l]
    BY <1>2
  <2> QED
    BY <1>4, <2>1
<1>6. DOMAIN LevelBinding(path) \subseteq {"{group}", "{subgroup}"}
  <2> SUFFICES ASSUME NEW x \in DOMAIN LevelBinding(path) PROVE x \in {"{group}", "{subgroup}"}
    OBVIOUS
  <2>1. PICK l \in 1..d : x = LevelPlaceholders[l]
    BY <1>2
  <2>2. l = 1 \/ l = 2
    OBVIOUS
  <2> QED
    BY <2>1, <2>2, LevelsAre
<1> QED
  BY <1>2, <1>4, <1>5, <1>6

\* The name stands for one token.
NameBinding(name) == [token \in {"{name}"} |-> name]

\* ... and for nothing else.
LEMMA NameBindingIs ==
    ASSUME NEW name \in Names
    PROVE  /\ DOMAIN NameBinding(name) = {"{name}"} /\ NameBinding(name)["{name}"] = name
           /\ Binds(NameBinding(name))
BY DEF NameBinding, Binds

\* A valid name is not empty, begins with no dot and has no placeholder.
LEMMA ValidNameIs ==
    ASSUME NEW name \in Names, ValidName(name)
    PROVE  /\ name # <<>> /\ name[1] # "." /\ Range(name) \cap Placeholders = {}
           /\ Len(name) <= MaxNameLen
<1>1. name # <<>> /\ name[1] # "." /\ Len(name) <= MaxNameLen
  BY DEF ValidName, Hidden
<1>2. Range(name) \subseteq NameChars
  BY DEF ValidName, Range
<1> QED
  BY <1>1, <1>2, NameCharsAssumption

(***************************************************************************)
(* What is known of areas and their templates.                             *)
(***************************************************************************)

\* How many levels a group of an area has.
DepthOf(area) == IF area.isSet THEN Depth(area) ELSE 0

\* What is known of an area and a path of names below its directory.
LEMMA AreaFacts ==
    ASSUME IInv, NEW a \in DOMAIN conf, NEW path \in PathsOf(conf[a]), Valid(conf)
    PROVE  /\ conf[a].isSet \in BOOLEAN
           /\ conf[a].source \in Seq(Names) /\ conf[a].target \in Seq(Names)
           /\ Parses(conf[a].source, conf[a].isSet) /\ Parses(conf[a].target, conf[a].isSet)
           /\ conf[a].isSet => LevelsNamed(conf[a])
           /\ DepthOf(conf[a]) \in 0..2 /\ path \in [1..DepthOf(conf[a]) -> Names]
           /\ \A l \in 1..DepthOf(conf[a]) : ValidName(path[l])
<1>1. /\ conf[a].isSet \in BOOLEAN
      /\ conf[a].source \in Seq(Names) /\ conf[a].target \in Seq(Names)
  BY PlacementAssumption DEF IInv, Chosen, Paths
<1>2. /\ Parses(conf[a].source, conf[a].isSet) /\ Parses(conf[a].target, conf[a].isSet)
      /\ conf[a].isSet => LevelsNamed(conf[a])
  BY DEF Valid
<1>3. Dirs \subseteq Names
  BY PlacementAssumption DEF Dirs, Visible, IInv, Chosen
<1>4. \A raw \in Dirs : ValidName(raw)
  BY DEF Dirs
<1>5. CASE conf[a].isSet
  <2>1. Depth(conf[a]) \in 1..2
    BY DEF Depth
  <2>2. path \in [1..Depth(conf[a]) -> Dirs]
    BY <1>5 DEF PathsOf, GroupPaths
  <2>3. path \in [1..Depth(conf[a]) -> Names] /\ \A l \in 1..Depth(conf[a]) : ValidName(path[l])
    BY <1>3, <1>4, <2>2
  <2> QED
    BY <1>1, <1>2, <1>5, <2>1, <2>3 DEF DepthOf
<1>6. CASE ~conf[a].isSet
  <2>1. path = <<>>
    BY <1>6 DEF PathsOf
  <2>2. path \in [1..0 -> Names] /\ \A l \in 1..0 : ValidName(path[l])
    BY <2>1
  <2> QED
    BY <1>1, <1>2, <1>6, <2>2 DEF DepthOf
<1> QED
  BY <1>5, <1>6

\* A component of a template that parses, with a path of levels filled in.
LEMMA ComponentFacts ==
    ASSUME NEW d \in 0..2, NEW path \in [1..d -> Names], \A l \in 1..d : ValidName(path[l]),
           NEW c \in Names, Plain(c)
    PROVE  LET bound == Filled(c, LevelBinding(path))
           IN  /\ bound \in Names /\ Plain(bound)
               /\ Range(c) \ DOMAIN LevelBinding(path) \subseteq Range(bound)
               /\ Range(bound) \cap Placeholders \subseteq Range(c) \ DOMAIN LevelBinding(path)
<1> DEFINE b == LevelBinding(path)
           bound == Filled(c, b)
<1>1. /\ Binds(b) /\ DOMAIN b = {LevelPlaceholders[l] : l \in 1..d}
      /\ DOMAIN b \subseteq {"{group}", "{subgroup}"}
      /\ \A l \in 1..d : b[LevelPlaceholders[l]] = path[l]
  BY LevelBindingIs
<1>2. ASSUME NEW x \in DOMAIN b
      PROVE  b[x] # <<>> /\ b[x][1] # "." /\ Range(b[x]) \cap Placeholders = {}
  <2>1. PICK l \in 1..d : x = LevelPlaceholders[l]
    BY <1>1
  <2>2. b[x] = path[l] /\ path[l] \in Names /\ ValidName(path[l])
    BY <1>1, <2>1
  <2> HIDE DEF b
  <2> QED
    BY <2>2, ValidNameIs
<1>3. "." \notin DOMAIN b
  BY <1>1
<1> HIDE DEF b
<1>4. bound \in Names /\ Plain(bound)
  BY <1>1, <1>2, <1>3, FilledAppend, PlainFilled
<1>5. /\ Range(c) \ DOMAIN b \subseteq Range(bound)
      /\ Range(bound) \cap Placeholders \subseteq Range(c) \ DOMAIN b
  <2>1. /\ Range(c) \ DOMAIN b \subseteq Range(Filled(c, b))
        /\ \A y \in Range(Filled(c, b)) :
             \/ y \in Range(c) \ DOMAIN b
             \/ \E x \in Range(c) \cap DOMAIN b : y \in Range(b[x])
    BY <1>1, FilledRange
  <2> QED
    BY <1>2, <2>1
<1> QED
  BY <1>4, <1>5 DEF b

\* ... and with a name.
LEMMA NamedPlain ==
    ASSUME NEW name \in Names, ValidName(name), NEW c \in Names, Plain(c)
    PROVE  Filled(c, NameBinding(name)) \in Names /\ Plain(Filled(c, NameBinding(name)))
<1> DEFINE n == NameBinding(name)
<1>1. /\ Binds(n) /\ "." \notin DOMAIN n
      /\ \A x \in DOMAIN n : n[x] # <<>> /\ n[x][1] # "."
  BY NameBindingIs, ValidNameIs
<1> HIDE DEF n
<1> QED
  BY <1>1, FilledAppend, PlainFilled DEF n

\* The templates of an area.
TemplatesOf(area) == {area.source, area.target}

\* ... of which each uses {name}, and no level the area does not have.
LEMMA TemplateFacts ==
    ASSUME IInv, Valid(conf), NEW a \in DOMAIN conf, NEW t \in TemplatesOf(conf[a])
    PROVE  /\ t \in Seq(Names) /\ DOMAIN t = 1..Len(t) /\ \A i \in DOMAIN t : t[i] \in Names /\ Plain(t[i])
           /\ Uses(t, "{name}")
           /\ \A l \in 1..2 : Uses(t, LevelPlaceholders[l]) => l \in 1..DepthOf(conf[a])
<1>1. t \in Seq(Names)
  BY PlacementAssumption DEF IInv, Chosen, Paths, TemplatesOf
<1>2. Parses(t, conf[a].isSet) /\ conf[a].isSet \in BOOLEAN
  BY PlacementAssumption DEF Valid, TemplatesOf, IInv, Chosen
<1>3. DOMAIN t = 1..Len(t) /\ \A i \in DOMAIN t : t[i] \in Names
  BY <1>1
<1>4. (\A i \in DOMAIN t : Plain(t[i])) /\ Uses(t, "{name}")
  BY <1>2 DEF Parses, GoodComponent
<1>5. ASSUME NEW l \in 1..2, Uses(t, LevelPlaceholders[l]) PROVE l \in 1..DepthOf(conf[a])
  <2>1. conf[a].isSet
    BY <1>2, <1>5, LevelsAre DEF Parses, NamesLevel
  <2>2. l = 1 \/ l = 2
    OBVIOUS
  <2>3. CASE l = 1
    BY <2>1, <2>3 DEF DepthOf, Depth
  <2>4. CASE l = 2
    <3>1. Uses(t, "{subgroup}")
      BY <1>5, <2>4, LevelsAre
    <3>2. TemplateDepth(t) = 2
      BY <3>1 DEF TemplateDepth
    <3>3. Depth(conf[a]) = 2
      BY <3>2 DEF Depth, TemplatesOf
    <3> QED
      BY <2>1, <2>4, <3>3 DEF DepthOf
  <2> QED
    BY <2>2, <2>3, <2>4
<1> QED
  BY <1>1, <1>3, <1>4, <1>5

\* Members have valid names.
LEMMA FilesAre ==
    ASSUME IInv
    PROVE  \A name \in Files : name \in Names /\ ValidName(name)
BY PlacementAssumption DEF Files, Visible, IInv, Chosen

\* A template with its levels filled in.
LEMMA BoundFacts ==
    ASSUME IInv, Valid(conf), NEW a \in DOMAIN conf, NEW path \in PathsOf(conf[a]),
           NEW t \in TemplatesOf(conf[a])
    PROVE  LET bound == BindLevels(t, path)
           IN  /\ DOMAIN bound = DOMAIN t /\ ~NamesLevel(bound)
               /\ \A i \in DOMAIN t : /\ bound[i] = Filled(t[i], LevelBinding(path))
                                      /\ bound[i] \in Names /\ Plain(bound[i])
                                      /\ Range(bound[i]) \cap Placeholders
                                           = (Range(t[i]) \cap Placeholders) \ DOMAIN LevelBinding(path)
<1> DEFINE bound == BindLevels(t, path)
           b == LevelBinding(path)
           d == DepthOf(conf[a])
<1>1. DOMAIN bound = DOMAIN t
  BY DEF BindLevels
<1>2. d \in 0..2 /\ path \in [1..d -> Names] /\ \A l \in 1..d : ValidName(path[l])
  BY AreaFacts
<1>3. ASSUME NEW i \in DOMAIN t
      PROVE  /\ bound[i] = Filled(t[i], b) /\ bound[i] \in Names /\ Plain(bound[i])
             /\ Range(bound[i]) \cap Placeholders = (Range(t[i]) \cap Placeholders) \ DOMAIN b
  <2>1. bound[i] = Filled(t[i], b)
    BY DEF BindLevels
  <2> DEFINE c == t[i]
             e == Filled(c, b)
  <2>2. c \in Names /\ Plain(c)
    BY TemplateFacts
  <2> HIDE DEF c, d
  <2>3. /\ e \in Names /\ Plain(e)
        /\ Range(c) \ DOMAIN b \subseteq Range(e)
        /\ Range(e) \cap Placeholders \subseteq Range(c) \ DOMAIN b
    BY <1>2, <2>2, ComponentFacts
  <2> HIDE DEF bound, b, e
  <2> QED
    BY <2>1, <2>3 DEF c, e
<1>4. ~NamesLevel(bound)
  <2> SUFFICES ASSUME NEW l \in 1..2, NEW i \in DOMAIN t, LevelPlaceholders[l] \in Range(bound[i])
               PROVE  FALSE
    <3> HIDE DEF bound
    <3> QED
      BY <1>1, LevelsAre DEF NamesLevel, Uses
  <2>1. LevelPlaceholders[l] \in Placeholders
    <3>1. l = 1 \/ l = 2
      OBVIOUS
    <3> QED
      BY <3>1, LevelsAre
  <2>2. LevelPlaceholders[l] \in Range(t[i]) /\ LevelPlaceholders[l] \notin DOMAIN b
    <3> HIDE DEF bound, b
    <3> QED
      BY <1>3, <2>1
  <2>3. l \in 1..d
    <3>1. Uses(t, LevelPlaceholders[l])
      BY <2>2 DEF Uses
    <3> HIDE DEF bound, b
    <3> QED
      BY <3>1, TemplateFacts
  <2>4. DOMAIN b = {LevelPlaceholders[k] : k \in 1..d}
    <3> HIDE DEF d
    <3> QED
      BY <1>2, LevelBindingIs
  <2> HIDE DEF b, d, bound
  <2> QED
    BY <2>2, <2>3, <2>4
<1> QED
  BY <1>1, <1>3, <1>4

\* ... and then with the name.
LEMMA PlacedFacts ==
    ASSUME IInv, Valid(conf), NEW a \in DOMAIN conf, NEW path \in PathsOf(conf[a]),
           NEW t \in TemplatesOf(conf[a]), NEW name \in Files
    PROVE  LET placed == Interpolated(BindLevels(t, path), name)
           IN  /\ DOMAIN placed = DOMAIN t
               /\ \A i \in DOMAIN t : /\ placed[i] = Filled(BindLevels(t, path)[i], NameBinding(name))
                                      /\ placed[i] \in Names /\ Plain(placed[i])
<1> DEFINE bound == BindLevels(t, path)
           placed == Interpolated(bound, name)
<1>1. DOMAIN placed = DOMAIN t
  BY DEF BindLevels, Interpolated
<1>2. ASSUME NEW i \in DOMAIN t
      PROVE  /\ placed[i] = Filled(bound[i], NameBinding(name))
             /\ placed[i] \in Names /\ Plain(placed[i])
  <2>1. placed[i] = Filled(bound[i], NameBinding(name))
    BY <1>1 DEF Interpolated, NameBinding
  <2> DEFINE c == bound[i]
  <2>2. c \in Names /\ Plain(c)
    BY BoundFacts
  <2>3. name \in Names /\ ValidName(name)
    BY FilesAre
  <2> HIDE DEF c
  <2>4. Filled(c, NameBinding(name)) \in Names /\ Plain(Filled(c, NameBinding(name)))
    BY <2>2, <2>3, NamedPlain
  <2> QED
    BY <2>1, <2>4 DEF c
<1> QED
  BY <1>1, <1>2

\* ... which is a path again, as long as the template.
LEMMA PlacedIsPath ==
    ASSUME IInv, Valid(conf), NEW a \in DOMAIN conf, NEW path \in PathsOf(conf[a]),
           NEW t \in TemplatesOf(conf[a]), NEW name \in Files
    PROVE  LET placed == Interpolated(BindLevels(t, path), name)
           IN  placed \in Seq(Names) /\ Len(placed) = Len(t)
<1> DEFINE placed == Interpolated(BindLevels(t, path), name)
<1>1. t \in Seq(Names)
  BY TemplateFacts
<1>2. PICK k \in Nat : DOMAIN t = 1..k /\ Len(t) = k
  BY <1>1
<1>3. DOMAIN placed = 1..k /\ \A i \in 1..k : placed[i] \in Names
  BY <1>2, PlacedFacts
<1>4. placed = [i \in DOMAIN placed |-> placed[i]]
  BY DEF Interpolated
<1> HIDE DEF placed
<1>5. placed \in [1..k -> Names]
  BY <1>3, <1>4
<1>6. placed \in Seq(Names) /\ Len(placed) = k
  BY <1>5
<1> QED
  BY <1>2, <1>6 DEF placed

\* The name can be told from a path it was filled in.
LEMMA NamesTold ==
    ASSUME IInv, Valid(conf), NEW a \in DOMAIN conf, NEW path \in PathsOf(conf[a]),
           NEW t \in TemplatesOf(conf[a]), NEW name \in Files, NEW other \in Files,
           Interpolated(BindLevels(t, path), name) = Interpolated(BindLevels(t, path), other)
    PROVE  name = other
<1>1. PICK i \in DOMAIN t : "{name}" \in Range(t[i])
  BY TemplateFacts DEF Uses
<1> DEFINE c == BindLevels(t, path)[i]
<1>2. c \in Names /\ "{name}" \in Range(c)
  <2>1. /\ c \in Names
        /\ Range(c) \cap Placeholders = (Range(t[i]) \cap Placeholders) \ DOMAIN LevelBinding(path)
    BY BoundFacts
  <2>2. "{name}" \in Placeholders /\ "{name}" \notin {"{group}", "{subgroup}"}
    BY LevelsAre
  <2>3. DOMAIN LevelBinding(path) \subseteq {"{group}", "{subgroup}"}
    <3>1. DepthOf(conf[a]) \in 0..2 /\ path \in [1..DepthOf(conf[a]) -> Names]
      BY AreaFacts
    <3> QED
      BY <3>1, LevelBindingIs
  <2> HIDE DEF c
  <2> QED
    BY <1>1, <2>1, <2>2, <2>3
<1>3. Filled(c, NameBinding(name)) = Filled(c, NameBinding(other))
  <2>1. /\ Interpolated(BindLevels(t, path), name)[i] = Filled(c, NameBinding(name))
        /\ Interpolated(BindLevels(t, path), other)[i] = Filled(c, NameBinding(other))
    BY PlacedFacts
  <2> QED
    BY <2>1
<1> DEFINE m == NameBinding(name)
           n == NameBinding(other)
<1>4. /\ Binds(m) /\ Binds(n) /\ DOMAIN m = {"{name}"} /\ DOMAIN n = {"{name}"}
      /\ m["{name}"] = name /\ n["{name}"] = other
  BY FilesAre, NameBindingIs
<1> HIDE DEF c, m, n
<1>5. Range(c) \cap DOMAIN m = {"{name}"}
  BY <1>2, <1>4
<1>6. Filled(c, m) = Filled(c, n)
  BY <1>3 DEF m, n
<1> DEFINE token == "{name}"
<1>7. FilledAlike(c, m, n, token)
  BY <1>2, <1>4, <1>5, <1>6 DEF FilledAlike
<1>8. m[token] = n[token]
  <2> HIDE DEF token
  <2> QED
    BY <1>7, FilledInjective
<1> QED
  BY <1>4, <1>8

\* A level's name can be told from a path it was filled in, if nothing else is
\* filled in where it is.
LEMMA LevelsTold ==
    ASSUME IInv, Valid(conf), NEW a \in DOMAIN conf, conf[a].isSet, Separate(conf[a].target),
           NEW path \in PathsOf(conf[a]), NEW other \in PathsOf(conf[a]),
           NEW name \in Files, NEW another \in Files,
           Interpolated(BindLevels(conf[a].target, path), name)
             = Interpolated(BindLevels(conf[a].target, other), another)
    PROVE  path = other
<1> DEFINE t == conf[a].target
           d == DepthOf(conf[a])
           b == LevelBinding(path)
           e == LevelBinding(other)
<1>1. /\ d \in 0..2 /\ path \in [1..d -> Names] /\ other \in [1..d -> Names]
      /\ d = Depth(conf[a]) /\ LevelsNamed(conf[a])
  BY AreaFacts DEF DepthOf
<1>2. /\ Binds(b) /\ Binds(e) /\ DOMAIN b = DOMAIN e
      /\ DOMAIN b = {LevelPlaceholders[l] : l \in 1..d}
      /\ DOMAIN b \subseteq {"{group}", "{subgroup}"}
      /\ \A l \in 1..d : b[LevelPlaceholders[l]] = path[l] /\ e[LevelPlaceholders[l]] = other[l]
  <2> HIDE DEF d
  <2>1. /\ Binds(b) /\ DOMAIN b = {LevelPlaceholders[l] : l \in 1..d}
        /\ DOMAIN b \subseteq {"{group}", "{subgroup}"}
        /\ \A l \in 1..d : b[LevelPlaceholders[l]] = path[l]
    BY <1>1, LevelBindingIs
  <2>2. /\ Binds(e) /\ DOMAIN e = {LevelPlaceholders[l] : l \in 1..d}
        /\ \A l \in 1..d : e[LevelPlaceholders[l]] = other[l]
    BY <1>1, LevelBindingIs
  <2> HIDE DEF b, e
  <2> QED
    BY ONLY <2>1, <2>2
<1>3. t \in TemplatesOf(conf[a])
  BY DEF TemplatesOf
<1>4. ASSUME NEW l \in 1..d PROVE path[l] = other[l]
  <2> DEFINE token == LevelPlaceholders[l]
  <2>1. PICK i \in DOMAIN t : token \in Range(t[i])
    BY <1>1 DEF LevelsNamed, Uses
  <2>2. token \in DOMAIN b /\ token \in Placeholders /\ "{name}" \in Placeholders /\ token # "{name}"
    <3>1. l \in 1..2
      BY <1>1
    <3>2. l = 1 \/ l = 2
      BY <3>1
    <3>3. token \in DOMAIN b
      <4> HIDE DEF b, d
      <4> QED
        BY <1>2
    <3> QED
      BY <3>2, <3>3, LevelsAre
  <2>3. Range(t[i]) \cap Placeholders = {token}
    <3> DEFINE s == Range(t[i]) \cap Placeholders
    <3>1. IsFiniteSet(s)
      <4>1. IsFiniteSet({"{name}"} \cup {"{group}", "{subgroup}"})
        <5>1. IsFiniteSet({"{group}", "{subgroup}"})
          <6>1. IsFiniteSet({"{group}"}) /\ IsFiniteSet({"{subgroup}"})
            BY FS_Singleton
          <6>2. IsFiniteSet({"{group}"} \cup {"{subgroup}"})
            BY <6>1, FS_Union
          <6>3. {"{group}"} \cup {"{subgroup}"} = {"{group}", "{subgroup}"}
            OBVIOUS
          <6> QED
            BY <6>2, <6>3
        <5>2. IsFiniteSet({"{name}"})
          BY FS_Singleton
        <5> QED
          BY <5>1, <5>2, FS_Union
      <4>2. s \in SUBSET ({"{name}"} \cup {"{group}", "{subgroup}"})
        BY LevelsAre
      <4> HIDE DEF s
      <4> QED
        BY <4>1, <4>2, FS_Subset
    <3>2. Cardinality(s) <= 1 /\ token \in s
      BY <2>1, <2>2 DEF Separate
    <3> HIDE DEF s, token
    <3>3. s = {token}
      <4>1. Cardinality(s) \in Nat /\ Cardinality(s) # 0
        BY <3>1, <3>2, FS_CardinalityType, FS_EmptySet
      <4>2. Cardinality(s) = 1
        BY <3>2, <4>1
      <4>3. PICK x : s = {x}
        BY <3>1, <4>2, FS_Singleton
      <4> QED
        BY <3>2, <4>3
    <3> QED
      BY <3>3 DEF s
  <2> DEFINE c == t[i]
             p == BindLevels(t, path)[i]
             q == BindLevels(t, other)[i]
  <2>4. /\ c \in Names /\ p = Filled(c, b) /\ q = Filled(c, e) /\ p \in Names /\ q \in Names
        /\ Interpolated(BindLevels(t, path), name)[i] = Filled(p, NameBinding(name))
        /\ Interpolated(BindLevels(t, other), another)[i] = Filled(q, NameBinding(another))
        /\ Range(p) \cap Placeholders = (Range(c) \cap Placeholders) \ DOMAIN b
        /\ Range(q) \cap Placeholders = (Range(c) \cap Placeholders) \ DOMAIN e
    <3> HIDE DEF t
    <3>1. c \in Names
      BY <1>3, TemplateFacts
    <3>2. p = Filled(c, b) /\ p \in Names /\ Range(p) \cap Placeholders = (Range(c) \cap Placeholders) \ DOMAIN b
      BY <1>3, BoundFacts
    <3>3. q = Filled(c, e) /\ q \in Names /\ Range(q) \cap Placeholders = (Range(c) \cap Placeholders) \ DOMAIN e
      BY <1>3, BoundFacts
    <3>4. Interpolated(BindLevels(t, path), name)[i] = Filled(p, NameBinding(name))
      BY <1>3, PlacedFacts
    <3>5. Interpolated(BindLevels(t, other), another)[i] = Filled(q, NameBinding(another))
      BY <1>3, PlacedFacts
    <3> HIDE DEF p, q, b, e, c
    <3> QED
      BY ONLY <3>1, <3>2, <3>3, <3>4, <3>5
  <2>5. Filled(p, NameBinding(name)) = Filled(q, NameBinding(another))
    BY <2>4
  <2>6. Binds(NameBinding(name)) /\ Binds(NameBinding(another))
        /\ DOMAIN NameBinding(name) = {"{name}"} /\ DOMAIN NameBinding(another) = {"{name}"}
    BY FilesAre, NameBindingIs
  <2> HIDE DEF p, q, b, e, c
  <2>7. Range(p) \cap {"{name}"} = {} /\ Range(q) \cap {"{name}"} = {}
    <3>1. Range(c) \cap Placeholders = {token}
      BY <2>3 DEF c
    <3>2. /\ Range(p) \cap Placeholders = {token} \ DOMAIN b
          /\ Range(q) \cap Placeholders = {token} \ DOMAIN b
      BY <1>2, <2>4, <3>1
    <3> HIDE DEF token
    <3>3. Range(p) \cap Placeholders = {} /\ Range(q) \cap Placeholders = {}
      BY <2>2, <3>2
    <3> QED
      BY <2>2, <3>3
  <2>8. p = q
    <3>1. Filled(p, NameBinding(name)) = p
      BY <2>4, <2>6, <2>7, FilledNothing
    <3>2. Filled(q, NameBinding(another)) = q
      BY <2>4, <2>6, <2>7, FilledNothing
    <3> QED
      BY <2>5, <3>1, <3>2
  <2>9. FilledAlike(c, b, e, token)
    <3>1. DOMAIN b \subseteq Placeholders
      BY <1>2, LevelsAre
    <3>2. Range(c) \cap DOMAIN b = {token}
      BY <2>2, <2>3, <3>1 DEF c
    <3>3. Filled(c, b) = Filled(c, e) /\ c \in Names
      BY <2>4, <2>8
    <3> HIDE DEF token
    <3> QED
      BY <1>2, <3>2, <3>3 DEF FilledAlike
  <2>10. b[token] = e[token]
    <3> HIDE DEF token
    <3> QED
      BY <2>9, FilledInjective
  <2> QED
    BY <1>2, <2>10
<1> QED
  BY <1>1, <1>4

(***************************************************************************)
(* The theorems.                                                           *)
(***************************************************************************)

\* Two paths of one length overlap only if they are the same.
LEMMA EqualLengthsApart ==
    ASSUME NEW p \in Seq(Names), NEW q \in Seq(Names), Len(p) = Len(q), Overlap(p, q)
    PROVE  p = q
<1>1. \A i \in 1..Len(p) : p[i] = q[i]
  <2>1. IsPrefix(p, q) => \A i \in 1..Len(p) : p[i] = q[i]
    BY PrefixByElements
  <2>2. IsPrefix(q, p) => \A i \in 1..Len(q) : q[i] = p[i]
    BY PrefixByElements
  <2> QED
    BY <2>1, <2>2 DEF Overlap, AtOrBeneath
<1> QED
  BY <1>1, SeqEqual

\* What is known of a wanted mount and of its group.
LEMMA MountFacts ==
    ASSUME IInv, NEW g \in groups
    PROVE  /\ Valid(conf) /\ g.id.area \in DOMAIN conf /\ g.id.path \in PathsOf(conf[g.id.area])
           /\ g = GroupConfig(g.id.area, g.id.path)
           /\ g.source = BindLevels(conf[g.id.area].source, g.id.path)
           /\ g.target = BindLevels(conf[g.id.area].target, g.id.path)
<1>1. OfItsArea(g)
  BY DEF IInv, GroupsKnown
<1>2. /\ GroupConfig(g.id.area, g.id.path).source = BindLevels(conf[g.id.area].source, g.id.path)
      /\ GroupConfig(g.id.area, g.id.path).target = BindLevels(conf[g.id.area].target, g.id.path)
  BY DEF GroupConfig
<1>3. Valid(conf)
  BY DEF IInv, Chosen, NoneYet
<1> QED
  BY <1>1, <1>2, <1>3 DEF OfItsArea

\* No member has a component that names a directory above.
LEMMA MembersPlain ==
    ASSUME IInv, NEW m \in Members
    PROVE  MemberVerdict(m) # "not_plain"
<1>1. PICK g \in groups, name \in Files : m = DesiredMount(g, name)
  BY DEF Members
<1>2. m.source = Interpolated(g.source, name) /\ m.target = Interpolated(g.target, name)
  BY <1>1 DEF DesiredMount
<1> DEFINE area == conf[g.id.area]
<1>3. area.source \in TemplatesOf(area) /\ area.target \in TemplatesOf(area)
  BY DEF TemplatesOf
<1>4. \A i \in DOMAIN m.source : Plain(m.source[i])
  BY <1>2, <1>3, MountFacts, PlacedFacts
<1>5. \A i \in DOMAIN m.target : Plain(m.target[i])
  BY <1>2, <1>3, MountFacts, PlacedFacts
<1>6. Verdict(m.source) # "not_plain" /\ Verdict(m.target) # "not_plain"
  BY <1>4, <1>5 DEF Verdict
<1> QED
  BY <1>6 DEF MemberVerdict

\* So no note says one has.
NotesPlain == \A n \in notes : n.reason # "not_plain"

\* Load, Discover and Observe preserve that.
LEMMA NotesArePlain == Spec => []NotesPlain
<1>1. Init => NotesPlain
  BY DEF Init, NotesPlain
<1>2. IInv /\ NotesPlain /\ [Next]_vars => NotesPlain'
  <2> SUFFICES ASSUME IInv, NotesPlain, [Next]_vars PROVE NotesPlain'
    OBVIOUS
  <2>0. \A area, path, reason : Note(area, path, reason).reason = reason
    BY DEF Note
  <2>1. CASE Load
    BY <2>1 DEF Load, NotesPlain
  <2>2. CASE Discover
    <3> SUFFICES ASSUME NEW n \in notes' PROVE n.reason # "not_plain"
      BY DEF NotesPlain
    <3>1. PICK a \in DOMAIN conf :
             n \in RejectedEntries(a) \/ \E path \in GroupPaths(conf[a]) : n = Note(a, path, "template")
      BY <2>2 DEF Discover
    <3>2. CASE n \in RejectedEntries(a)
      <4>1. PICK prefix \in PathsAbove(conf[a]), raw \in Visible(tree.levels) \ Dirs :
               n = Note(a, prefix \o <<raw>>, "entry")
        BY <3>2, SMT DEF RejectedEntries
      <4> QED
        BY <2>0, <4>1
    <3> QED
      BY <2>0, <3>1, <3>2
  <2>3. CASE Observe
    <3> SUFFICES ASSUME NEW n \in notes' PROVE n.reason # "not_plain"
      BY DEF NotesPlain
    <3>1. CASE n \in notes
      BY <3>1 DEF NotesPlain
    <3>2. CASE n \in UnfitMembers
      <4>1. PICK m \in Members : n = Note(m.group.area, m.group.path \o <<m.name>>, MemberVerdict(m))
        BY <3>2 DEF UnfitMembers
      <4> QED
        BY <2>0, <4>1, MembersPlain
    <3>3. CASE n \in RejectedFiles
      <4>1. PICK g \in groups, raw \in Visible(tree.members) \ Files :
               n = Note(g.id.area, g.id.path \o <<raw>>, "entry")
        BY <3>3, SMT DEF RejectedFiles
      <4> QED
        BY <2>0, <4>1
    <3> QED
      BY <2>3, <3>1, <3>2, <3>3 DEF Observe
  <2>4. CASE UNCHANGED vars
    BY <2>4 DEF vars, NotesPlain
  <2> QED
    BY <2>1, <2>2, <2>3, <2>4 DEF Next
<1> QED
  BY <1>1, <1>2, Inductive, PTL DEF Spec

\* Whatever levels and name are filled in, no component becomes "", "." or "..",
\* and none of a group's templates is left with a level (template.rs:175): a name
\* is not empty and has no dot in front, so that a component begins as its
\* template did or as a name does.
THEOREM NoTraversalHolds == Spec => []NoTraversal
<1>1. IInv /\ NotesPlain => NoTraversal
  <2> SUFFICES ASSUME IInv, NotesPlain, NEW g \in groups
               PROVE  ~NamesLevel(g.source) /\ ~NamesLevel(g.target)
    BY DEF NoTraversal, NotesPlain
  <2> QED
    BY MountFacts, BoundFacts DEF TemplatesOf
<1> QED
  BY <1>1, Inductive, NotesArePlain, PTL

\* Two members of a group have neither source nor view in common, and none inside
\* the other's: the paths are equally long, and from one where {name} is filled
\* in, however often, the name can be told (template.rs:158, 166).
THEOREM MembersApartHolds == Spec => []MembersApart
<1>1. IInv => MembersApart
  <2> SUFFICES ASSUME IInv, NEW d \in desired, NEW e \in desired, d.group = e.group, d # e
               PROVE  ~Overlap(d.target, e.target) /\ ~Overlap(d.source, e.source)
    BY DEF MembersApart
  <2>1. PICK g \in groups, name \in Files : d = DesiredMount(g, name)
    BY DEF IInv, DesiredKnown
  <2>2. PICK h \in groups, other \in Files : e = DesiredMount(h, other)
    BY DEF IInv, DesiredKnown
  <2>3. g = h
    <3>1. g.id = h.id
      BY <2>1, <2>2 DEF DesiredMount
    <3> QED
      BY <3>1, MountFacts
  <2>4. name # other
    BY <2>1, <2>2, <2>3
  <2>5. /\ d.source = Interpolated(g.source, name) /\ d.target = Interpolated(g.target, name)
        /\ e.source = Interpolated(g.source, other) /\ e.target = Interpolated(g.target, other)
    BY <2>1, <2>2, <2>3 DEF DesiredMount
  <2> DEFINE area == conf[g.id.area]
  <2>6. ASSUME NEW t \in TemplatesOf(area)
        PROVE  ~Overlap(Interpolated(BindLevels(t, g.id.path), name), Interpolated(BindLevels(t, g.id.path), other))
    <3> DEFINE p == Interpolated(BindLevels(t, g.id.path), name)
               q == Interpolated(BindLevels(t, g.id.path), other)
    <3>1. p \in Seq(Names) /\ q \in Seq(Names) /\ Len(p) = Len(q)
      BY MountFacts, PlacedIsPath
    <3>2. p # q
      BY <2>4, MountFacts, NamesTold
    <3> HIDE DEF p, q
    <3> QED
      BY <3>1, <3>2, EqualLengthsApart DEF p, q
  <2> QED
    BY <2>5, <2>6, MountFacts DEF TemplatesOf
<1> QED
  BY <1>1, Inductive, PTL

\* Two groups of a set share no view if no component of the target is put together
\* from two placeholders: the names of the level in which they differ can be told
\* from their views (config.rs:974, DESIGN.md:301, which leaves the condition out).
THEOREM ViewsApartHolds == Spec => []ViewsApart
<1>1. IInv => ViewsApart
  <2> SUFFICES ASSUME IInv, NEW d \in desired, NEW e \in desired,
                      d.group.area = e.group.area, d.group # e.group,
                      Separate(conf[d.group.area].target), Overlap(d.target, e.target)
               PROVE  FALSE
    BY DEF ViewsApart
  <2>1. PICK g \in groups, name \in Files : d = DesiredMount(g, name)
    BY DEF IInv, DesiredKnown
  <2>2. PICK h \in groups, other \in Files : e = DesiredMount(h, other)
    BY DEF IInv, DesiredKnown
  <2>3. d.group = g.id /\ e.group = h.id
    BY <2>1, <2>2 DEF DesiredMount
  <2> DEFINE a == g.id.area
             t == conf[a].target
             p == g.id.path
             q == h.id.path
  <2>4. /\ Valid(conf) /\ a \in DOMAIN conf /\ h.id.area = a /\ Separate(t)
        /\ p \in PathsOf(conf[a]) /\ q \in PathsOf(conf[a]) /\ t \in TemplatesOf(conf[a])
    BY <2>3, MountFacts DEF TemplatesOf
  <2>5. p # q
    <3>1. g.id = GroupId(a, p) /\ h.id = GroupId(a, q)
      <4>1. GroupConfig(a, p).id = GroupId(a, p) /\ GroupConfig(a, q).id = GroupId(a, q)
        BY DEF GroupConfig
      <4> QED
        BY <2>4, <4>1, MountFacts
    <3> QED
      BY <2>3, <3>1
  <2>6. conf[a].isSet
    BY <2>4, <2>5 DEF PathsOf
  <2>7. d.target = Interpolated(BindLevels(t, p), name) /\ e.target = Interpolated(BindLevels(t, q), other)
    BY <2>1, <2>2, <2>4, MountFacts DEF DesiredMount
  <2>8. d.target \in Seq(Names) /\ e.target \in Seq(Names) /\ Len(d.target) = Len(e.target)
    <3> HIDE DEF a, t, p, q
    <3> QED
      BY <2>4, <2>7, PlacedIsPath
  <2>9. d.target = e.target
    BY <2>8, EqualLengthsApart
  <2>10. Interpolated(BindLevels(t, p), name) = Interpolated(BindLevels(t, q), other)
    BY <2>7, <2>9
  <2> HIDE DEF a, p, q
  <2>11. p = q
    BY <2>4, <2>6, <2>10, LevelsTold
  <2> QED
    BY <2>5, <2>11
<1> QED
  BY <1>1, Inductive, PTL

(***************************************************************************)
(* Two stages and one.                                                     *)
(***************************************************************************)

\* A template with everything filled in at once, and whether a path fits.
AllBinding(path, name) ==
    [token \in {LevelPlaceholders[l] : l \in DOMAIN path} \cup {"{name}"} |->
        IF token = "{name}" THEN name ELSE LevelBinding(path)[token]]

AtOnce(t, path, name) == [i \in DOMAIN t |-> Filled(t[i], AllBinding(path, name))]

Fits(p) == /\ \A i \in DOMAIN p : Len(p[i]) <= MaxNameLen
           /\ Len(FlattenSeq(p)) + Len(p) - 1 <= MaxPathLen

\* Levels first and then the name makes the same path as everything at once: no
\* name brings a placeholder.
LEMMA PlacedAtOnce ==
    ASSUME IInv, Valid(conf), NEW a \in DOMAIN conf, NEW path \in PathsOf(conf[a]),
           NEW t \in TemplatesOf(conf[a]), NEW name \in Files
    PROVE  Interpolated(BindLevels(t, path), name) = AtOnce(t, path, name)
<1> DEFINE d == DepthOf(conf[a])
           b == LevelBinding(path)
           n == NameBinding(name)
           all == AllBinding(path, name)
<1>1. d \in 0..2 /\ path \in [1..d -> Names] /\ \A l \in 1..d : ValidName(path[l])
  BY AreaFacts
<1>2. name \in Names /\ ValidName(name)
  BY FilesAre
<1>3. /\ DOMAIN b = {LevelPlaceholders[l] : l \in 1..d} /\ Binds(b)
      /\ \A l \in 1..d : b[LevelPlaceholders[l]] = path[l]
      /\ DOMAIN b \subseteq {"{group}", "{subgroup}"}
  <2> HIDE DEF d
  <2> QED
    BY <1>1, LevelBindingIs
<1>4. DOMAIN n = {"{name}"} /\ n["{name}"] = name /\ Binds(n)
  BY <1>2, NameBindingIs
<1>5. /\ DOMAIN all = DOMAIN b \cup {"{name}"}
      /\ all["{name}"] = name /\ \A x \in DOMAIN b : all[x] = b[x]
  <2>1. DOMAIN path = 1..d
    BY <1>1
  <2>2. "{name}" \notin DOMAIN b
    BY <1>3
  <2> HIDE DEF b, d
  <2> QED
    BY <1>3, <2>1, <2>2 DEF AllBinding, b
<1>6. ASSUME NEW x \in DOMAIN b PROVE Range(b[x]) \cap DOMAIN n = {}
  <2>1. PICK l \in 1..d : x = LevelPlaceholders[l]
    BY <1>3
  <2>2. b[x] = path[l] /\ path[l] \in Names /\ ValidName(path[l])
    BY <1>1, <1>3, <2>1
  <2> HIDE DEF b, n, d
  <2>3. Range(b[x]) \cap Placeholders = {}
    BY <2>2, ValidNameIs
  <2> QED
    BY <1>4, <2>3, LevelsAre
<1> HIDE DEF b, n, all
<1>7. /\ DOMAIN all = DOMAIN b \cup DOMAIN n /\ DOMAIN b \cap DOMAIN n = {} /\ Binds(all)
      /\ \A x \in DOMAIN b : all[x] = b[x] /\ Range(b[x]) \cap DOMAIN n = {}
      /\ \A x \in DOMAIN n : all[x] = n[x]
  <2>1. "{name}" \notin DOMAIN b
    BY <1>3
  <2> QED
    BY <1>2, <1>3, <1>4, <1>5, <1>6, <2>1 DEF Binds
<1>8. ASSUME NEW c \in Names PROVE Filled(Filled(c, b), n) = Filled(c, all)
  <2>1. InStages(b, n, all)
    BY <1>3, <1>4, <1>7 DEF InStages
  <2> QED
    BY <2>1, FilledTwice
<1> DEFINE placed == Interpolated(BindLevels(t, path), name)
<1>9. DOMAIN placed = DOMAIN t /\ placed = [i \in DOMAIN placed |-> placed[i]]
  BY DEF Interpolated, BindLevels
<1>10. ASSUME NEW i \in DOMAIN t PROVE placed[i] = Filled(t[i], all)
  <2>1. placed[i] = Filled(BindLevels(t, path)[i], n)
    BY PlacedFacts DEF n
  <2>2. BindLevels(t, path)[i] = Filled(t[i], b)
    BY BoundFacts DEF b
  <2>3. t[i] \in Names
    BY TemplateFacts
  <2> QED
    BY <1>8, <2>1, <2>2, <2>3
<1> HIDE DEF placed
<1>11. placed = [i \in DOMAIN t |-> Filled(t[i], all)]
  BY <1>9, <1>10
<1> QED
  BY <1>11 DEF placed, all, AtOnce

\* The verdict on a path that was filled in.
LEMMA VerdictIs ==
    ASSUME IInv, Valid(conf), NEW a \in DOMAIN conf, NEW path \in PathsOf(conf[a]),
           NEW t \in TemplatesOf(conf[a]), NEW name \in Files
    PROVE  Verdict(Interpolated(BindLevels(t, path), name)) = "fits" <=> Fits(AtOnce(t, path, name))
<1> DEFINE p == Interpolated(BindLevels(t, path), name)
<1>1. p \in Seq(Names)
  BY PlacedIsPath
<1>2. \A i \in DOMAIN p : Plain(p[i]) /\ p[i] \in Names
  BY PlacedFacts
<1>3. p = AtOnce(t, path, name)
  BY PlacedAtOnce
<1> HIDE DEF p
<1>4. PathLen(p) = Len(FlattenSeq(p)) + Len(p) - 1
  BY <1>1, PathLenIs
<1>5. PathLen(p) > MaxPathLen <=> ~(Len(FlattenSeq(p)) + Len(p) - 1 <= MaxPathLen)
  BY <1>4, LimitsAssumption
<1>6. \A i \in DOMAIN p : TooLong(p[i]) <=> ~(Len(p[i]) <= MaxNameLen)
  <2> TAKE i \in DOMAIN p
  <2>1. Len(p[i]) \in Nat
    BY <1>2, NamePositions
  <2> QED
    BY <2>1, LimitsAssumption DEF TooLong
<1>7. Verdict(p) = "fits" <=> Fits(p)
  BY <1>2, <1>5, <1>6 DEF Verdict, Fits
<1> QED
  BY <1>3, <1>7 DEF p

\* What is too long before the name is filled in stays so.
LEMMA UnboundTooLong ==
    ASSUME IInv, Valid(conf), NEW a \in DOMAIN conf, NEW path \in PathsOf(conf[a]),
           NEW t \in TemplatesOf(conf[a]), NEW name \in Files, BindFails(t, path)
    PROVE  ~Fits(AtOnce(t, path, name))
<1>1. PICK i \in DOMAIN t : "{name}" \notin Range(t[i]) /\ TooLong(BindLevels(t, path)[i])
  BY DEF BindFails
<1> DEFINE c == BindLevels(t, path)[i]
           n == NameBinding(name)
<1>2. c \in Names /\ Range(c) \cap Placeholders \subseteq Range(t[i])
  BY BoundFacts
<1>3. Binds(n) /\ DOMAIN n = {"{name}"}
  BY FilesAre, NameBindingIs
<1>4. Interpolated(BindLevels(t, path), name)[i] = Filled(c, n)
  BY PlacedFacts
<1> HIDE DEF c, n
<1>5. Filled(c, n) = c
  <2>1. Range(c) \cap DOMAIN n = {}
    BY <1>1, <1>2, <1>3, LevelsAre
  <2> QED
    BY <1>2, <1>3, <2>1, FilledNothing
<1>6. AtOnce(t, path, name)[i] = c /\ i \in DOMAIN AtOnce(t, path, name)
  BY <1>4, <1>5, PlacedAtOnce DEF AtOnce
<1>7. ~(Len(c) <= MaxNameLen)
  <2>1. Len(c) \in Nat
    BY <1>2, NamePositions
  <2>2. TooLong(c)
    BY <1>1 DEF c
  <2> QED
    BY <2>1, <2>2, LimitsAssumption DEF TooLong
<1> QED
  BY <1>6, <1>7 DEF Fits

(***************************************************************************)
(* Nothing is left out.                                                    *)
(***************************************************************************)

\* A group for every path of an area, or a note.
AllFound ==
    pc \in {"observe", "done"} =>
        \A a \in DOMAIN conf : \A path \in PathsOf(conf[a]) :
            IF conf[a].isSet /\ ~Bindable(a, path)
            THEN Note(a, path, "template") \in notes /\ GroupConfig(a, path) \notin groups
            ELSE GroupConfig(a, path) \in groups

\* A mount for every member, or a note.
NoteOn(m) == Note(m.group.area, m.group.path \o <<m.name>>, MemberVerdict(m))

AllPlaced ==
    pc = "done" =>
        \A m \in Members : IF MemberVerdict(m) = "fits" THEN m \in desired
                           ELSE m \notin desired /\ NoteOn(m) \in notes

\* Load, Discover and Observe preserve both.
LEMMA NothingLeftOut == Spec => [](AllFound /\ AllPlaced)
<1>1. Init => AllFound /\ AllPlaced
  BY DEF Init, AllFound, AllPlaced
<1>2. IInv /\ AllFound /\ AllPlaced /\ [Next]_vars => AllFound' /\ AllPlaced'
  <2> SUFFICES ASSUME IInv, AllFound, AllPlaced, [Next]_vars PROVE AllFound' /\ AllPlaced'
    OBVIOUS
  <2>1. conf' = conf /\ tree' = tree
    BY DEF Next, Load, Discover, Observe, vars
  <2>2. Files' = Files /\ \A a : PathsOf(conf[a])' = PathsOf(conf[a])
    BY <2>1 DEF Files, Dirs, Visible, PathsOf, GroupPaths
  <2>3. \A a, path : GroupConfig(a, path)' = GroupConfig(a, path) /\ (Bindable(a, path)' <=> Bindable(a, path))
    BY <2>1 DEF GroupConfig, Bindable
  <2>4. CASE Load
    BY <2>4 DEF Load, AllFound, AllPlaced
  <2>5. CASE Discover
    <3>1. AllPlaced'
      BY <2>5 DEF Discover, AllPlaced
    <3>2. ASSUME NEW a \in DOMAIN conf, NEW path \in PathsOf(conf[a])
          PROVE  IF conf[a].isSet /\ ~Bindable(a, path)
                 THEN Note(a, path, "template") \in notes' /\ GroupConfig(a, path) \notin groups'
                 ELSE GroupConfig(a, path) \in groups'
      <4>0. \A b, other : GroupConfig(b, other).id.area = b /\ GroupConfig(b, other).id.path = other
        <5> SUFFICES ASSUME NEW b, NEW other
                     PROVE  GroupConfig(b, other).id.area = b /\ GroupConfig(b, other).id.path = other
          OBVIOUS
        <5>1. GroupConfig(b, other).id = GroupId(b, other)
          BY DEF GroupConfig
        <5>2. GroupId(b, other).area = b /\ GroupId(b, other).path = other
          BY DEF GroupId
        <5> QED
          BY <5>1, <5>2
      <4>1. CASE ~conf[a].isSet
        BY <2>5, <4>1 DEF Discover, PathsOf
      <4>2. CASE conf[a].isSet /\ Bindable(a, path)
        BY <2>5, <4>2 DEF Discover, PathsOf
      <4>3. CASE conf[a].isSet /\ ~Bindable(a, path)
        <5>1. Note(a, path, "template") \in notes'
          BY <2>5, <4>3 DEF Discover, PathsOf
        <5>2. ASSUME GroupConfig(a, path) \in groups' PROVE FALSE
          <6>0. PICK b \in DOMAIN conf : \E other \in PathsOf(conf[b]) :
                   GroupConfig(a, path) = GroupConfig(b, other) /\ (conf[b].isSet => Bindable(b, other))
            BY <2>5, <5>2 DEF Discover, PathsOf
          <6>1. PICK other \in PathsOf(conf[b]) :
                   GroupConfig(a, path) = GroupConfig(b, other) /\ (conf[b].isSet => Bindable(b, other))
            BY <6>0
          <6>2. a = b /\ path = other
            BY <4>0, <6>1
          <6> QED
            BY <4>3, <6>1, <6>2
        <5> QED
          BY <4>3, <5>1, <5>2
      <4> QED
        BY <4>1, <4>2, <4>3
    <3> QED
      BY <2>1, <2>2, <2>3, <3>1, <3>2 DEF AllFound
  <2>6. CASE Observe
    <3>1. groups' = groups /\ notes \subseteq notes' /\ pc = "observe"
      BY <2>6 DEF Observe
    <3>2. AllFound'
      BY <2>1, <2>2, <2>3, <3>1 DEF AllFound
    <3>3. Members' = Members /\ desired' = {m \in Members : MemberVerdict(m) = "fits"}
          /\ UnfitMembers \subseteq notes'
      BY <2>2, <2>6 DEF Observe, Members
    <3>4. AllPlaced'
      <4> SUFFICES ASSUME NEW m \in Members
                   PROVE  IF MemberVerdict(m) = "fits" THEN m \in desired'
                          ELSE m \notin desired' /\ NoteOn(m) \in notes'
        BY <3>3 DEF AllPlaced
      <4>1. CASE MemberVerdict(m) = "fits"
        BY <3>3, <4>1
      <4>2. CASE MemberVerdict(m) # "fits"
        <5>1. NoteOn(m) \in UnfitMembers
          BY <4>2 DEF UnfitMembers, NoteOn
        <5> QED
          BY <3>3, <4>2, <5>1
      <4> QED
        BY <4>1, <4>2
    <3> QED
      BY <3>2, <3>4
  <2>7. CASE UNCHANGED vars
    <3>1. Members' = Members
      BY <2>2, <2>7 DEF vars, Members
    <3> QED
      BY <2>1, <2>2, <2>3, <2>7, <3>1 DEF vars, AllFound, AllPlaced
  <2> QED
    BY <2>4, <2>5, <2>6, <2>7 DEF Next
<1> QED
  BY <1>1, <1>2, Inductive, PTL DEF Spec

\* Lengths checked in two stages and with a sum over the components turn away what
\* does not fit when everything is filled in at once, and nothing else; what is
\* turned away is noted (template.rs:172, 185, 255).
THEOREM LimitsExactHolds == Spec => []LimitsExact
<1>1. IInv /\ AllFound /\ AllPlaced => LimitsExact
  <2> SUFFICES ASSUME IInv, AllFound, AllPlaced, pc = "done",
                      NEW a \in DOMAIN conf, NEW name \in Files, NEW path \in PathsOf(conf[a])
               PROVE  LET wanted == \E d \in desired : d.group = GroupId(a, path) /\ d.name = name
                      IN  /\ wanted <=> /\ Fits(AtOnce(conf[a].source, path, name))
                                        /\ Fits(AtOnce(conf[a].target, path, name))
                          /\ wanted \/ \E n \in notes : n.area = a /\ n.path \in {path, path \o <<name>>}
    BY DEF LimitsExact, PathsOf, AtOnce, AllBinding, Fits
  <2> DEFINE g == GroupConfig(a, path)
             m == DesiredMount(g, name)
             wanted == \E d \in desired : d.group = GroupId(a, path) /\ d.name = name
             fits == /\ Fits(AtOnce(conf[a].source, path, name))
                     /\ Fits(AtOnce(conf[a].target, path, name))
             noted == \E n \in notes : n.area = a /\ n.path \in {path, path \o <<name>>}
  <2>1. Valid(conf)
    BY DEF IInv, Chosen
  <2>2. /\ conf[a].source \in TemplatesOf(conf[a]) /\ conf[a].target \in TemplatesOf(conf[a])
        /\ conf[a].isSet \in BOOLEAN
    BY <2>1, AreaFacts DEF TemplatesOf
  <2>3. /\ g.id = GroupId(a, path) /\ g.source = BindLevels(conf[a].source, path)
        /\ g.target = BindLevels(conf[a].target, path)
    BY DEF GroupConfig
  <2>4. GroupId(a, path).area = a /\ GroupId(a, path).path = path
    BY DEF GroupId
  <2>5. /\ m.group = GroupId(a, path) /\ m.name = name
        /\ m.source = Interpolated(BindLevels(conf[a].source, path), name)
        /\ m.target = Interpolated(BindLevels(conf[a].target, path), name)
    BY <2>3 DEF DesiredMount
  <2>6. MemberVerdict(m) = "fits" <=> fits
    <3>1. Verdict(m.source) = "fits" <=> Fits(AtOnce(conf[a].source, path, name))
      <4> HIDE DEF m
      <4> QED
        BY <2>1, <2>2, <2>5, VerdictIs
    <3>2. Verdict(m.target) = "fits" <=> Fits(AtOnce(conf[a].target, path, name))
      <4> HIDE DEF m
      <4> QED
        BY <2>1, <2>2, <2>5, VerdictIs
    <3> HIDE DEF m
    <3> QED
      BY <3>1, <3>2 DEF MemberVerdict
  <2>7. wanted => g \in groups /\ m \in desired
    <3> SUFFICES ASSUME NEW d \in desired, d.group = GroupId(a, path), d.name = name
                 PROVE  g \in groups /\ m \in desired
      OBVIOUS
    <3>1. PICK h \in groups, other \in Files : d = DesiredMount(h, other)
      BY DEF IInv, DesiredKnown
    <3>2. d.group = h.id /\ d.name = other
      BY <3>1 DEF DesiredMount
    <3>3. h = g
      BY <2>4, <3>2, MountFacts
    <3> QED
      BY <3>1, <3>2, <3>3
  <2>8. m \in desired => wanted
    BY <2>5
  <2> HIDE DEF m, g
  <2>9. CASE conf[a].isSet /\ ~Bindable(a, path)
    <3>1. Note(a, path, "template") \in notes /\ g \notin groups
      BY <2>9 DEF AllFound, g
    <3>2. Note(a, path, "template").area = a /\ Note(a, path, "template").path = path
      BY DEF Note
    <3>3. ~fits
      <4>1. BindFails(conf[a].source, path) \/ BindFails(conf[a].target, path)
        BY <2>9 DEF Bindable
      <4> QED
        BY <2>1, <2>2, <4>1, UnboundTooLong
    <3>4. noted
      BY <3>1, <3>2
    <3> QED
      BY <2>7, <3>1, <3>3, <3>4
  <2>10. CASE ~(conf[a].isSet /\ ~Bindable(a, path))
    <3>1. g \in groups
      BY <2>10 DEF AllFound, g
    <3>2. m \in Members
      BY <3>1 DEF Members, m
    <3>3. CASE fits
      <4>1. m \in desired
        BY <2>6, <3>2, <3>3 DEF AllPlaced
      <4> QED
        BY <2>8, <3>3, <4>1
    <3>4. CASE ~fits
      <4>1. m \notin desired /\ NoteOn(m) \in notes
        BY <2>6, <3>2, <3>4 DEF AllPlaced
      <4>2. NoteOn(m).area = a /\ NoteOn(m).path = path \o <<name>>
        BY <2>4, <2>5 DEF NoteOn, Note
      <4>3. noted
        BY <4>1, <4>2
      <4> QED
        BY <2>7, <3>4, <4>1, <4>3
    <3> QED
      BY <3>3, <3>4
  <2> QED
    BY <2>9, <2>10
<1> QED
  BY <1>1, Inductive, NothingLeftOut, PTL

=============================================================================
