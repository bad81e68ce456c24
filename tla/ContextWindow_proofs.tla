------------------------ MODULE ContextWindow_proofs ------------------------
(* Theorems about ContextWindow, for every value of its constants: requests   *)
(* that leave nothing out, checkpoints a Session accepts again, and an end to *)
(* asking for summaries.                                                      *)
EXTENDS ContextWindow, WellFoundedInduction, SequenceTheorems, FiniteSetTheorems, TLAPS

-----------------------------------------------------------------------------
(* Induction, for sets of naturals and sets of sequences *)

LEMMA Least ==
    ASSUME NEW T, T \subseteq Nat, T # {}
    PROVE  \E x \in T : \A y \in T : x <= y
<1> DEFINE R == {ss \in Nat \X Nat : ss[1] < ss[2]}
<1>1. IsWellFoundedOn(R, Nat)
  BY NatLessThanWellFounded DEF OpToRel
<1>2. \E x \in T : \A y \in T : ~(<<y, x>> \in R)
  <2> HIDE DEF R
  <2> QED BY <1>1, WFMin, Zenon
<1>3. ASSUME NEW x \in T, NEW y \in T, ~(<<y, x>> \in R) PROVE x <= y
  <2>1. <<y, x>> \in Nat \X Nat
    OBVIOUS
  <2>2. ~(y < x)
    BY <1>3, <2>1
  <2> QED BY <2>2
<1> QED BY <1>2, <1>3

LEMMA Induction ==
    ASSUME NEW n \in Nat, NEW T, T \subseteq 0..n,
           0 \in T, \A i \in 0..(n - 1) : i \in T => i + 1 \in T
    PROVE  T = 0..n
<1> SUFFICES ASSUME (0..n) \ T # {} PROVE FALSE
  OBVIOUS
<1> DEFINE Rest == (0..n) \ T
<1>1. Rest \subseteq Nat /\ Rest # {}
  OBVIOUS
<1> HIDE DEF Rest
<1>2. PICK x \in Rest : \A y \in Rest : x <= y
  BY <1>1, Least
<1> USE DEF Rest
<1>3. x # 0 /\ x - 1 \in 0..(n - 1)
  BY <1>2
<1>4. x - 1 \in T
  BY <1>2, <1>3
<1> QED BY <1>2, <1>3, <1>4

LEMMA Greatest ==
    ASSUME NEW n \in Nat, NEW T, T \subseteq 0..n, T # {}
    PROVE  Max(T) \in T /\ \A y \in T : y <= Max(T)
<1> DEFINE U == {u \in Nat : \A y \in T : u >= y}
<1>1. n \in U
  OBVIOUS
<1>2. PICK m \in U : \A u \in U : m <= u
  <2> HIDE DEF U
  <2>1. U \subseteq Nat BY DEF U
  <2> QED BY <1>1, <2>1, Least
<1>3. m \in T
  <2>1. SUFFICES ASSUME m \notin T PROVE FALSE
    OBVIOUS
  <2>2. PICK t \in T : TRUE
    OBVIOUS
  <2>3. \A y \in T : m - 1 >= y
    BY <2>1
  <2>4. m - 1 \in U
    BY <2>2, <2>3
  <2> QED BY <2>4, <1>2
<1>4. \E x \in T : \A y \in T : x >= y
  BY <1>3
<1> QED BY <1>4 DEF Max

(* What holds of the empty sequence and is handed on by Append holds of all. *)
LEMMA SeqInduction ==
    ASSUME NEW T, NEW P, <<>> \in P, \A s \in Seq(T), x \in T : s \in P => Append(s, x) \in P
    PROVE  Seq(T) \subseteq P
<1> SUFFICES ASSUME NEW s \in Seq(T) PROVE s \in P
  OBVIOUS
<1> DEFINE Reached == {n \in 0..Len(s) : SubSeq(s, 1, n) \in P}
<1>1. Len(s) \in Nat
  OBVIOUS
<1>2. 0 \in Reached
  <2>1. SubSeq(s, 1, 0) = <<>>
    BY SubSeqEmpty
  <2>2. SubSeq(s, 1, 0) \in P
    BY <2>1, Zenon
  <2> QED BY <1>1, <2>2
<1>3. ASSUME NEW n \in 0..(Len(s) - 1), n \in Reached PROVE n + 1 \in Reached
  <2>1. SubSeq(s, 1, n + 1) = Append(SubSeq(s, 1, n), s[n + 1])
    OBVIOUS
  <2>2. SubSeq(s, 1, n) \in Seq(T) /\ s[n + 1] \in T
    OBVIOUS
  <2>3. SubSeq(s, 1, n) \in P /\ n + 1 \in 0..Len(s)
    BY <1>3
  <2>4. Append(SubSeq(s, 1, n), s[n + 1]) \in P
    BY <2>2, <2>3
  <2> QED BY <2>1, <2>3, <2>4
<1>4. Reached = 0..Len(s)
  <2>1. Reached \subseteq 0..Len(s)
    OBVIOUS
  <2> HIDE DEF Reached
  <2> QED BY <1>1, <1>2, <1>3, <2>1, Induction
<1>5. SubSeq(s, 1, Len(s)) \in P
  BY <1>1, <1>4
<1> QED BY <1>5, SubSeqFull

-----------------------------------------------------------------------------
(* Among *)

AmongStep(s, set, f, n) ==
    IF n = 0 THEN <<>> ELSE IF s[n] \in set THEN Append(f[n - 1], s[n]) ELSE f[n - 1]

(* The function Among takes the last value of.                               *)
UpTo(s, set) == CHOOSE f : f = [n \in 0..Len(s) |-> AmongStep(s, set, f, n)]

LEMMA UpToDef ==
    ASSUME NEW s, Len(s) \in Nat, NEW set
    PROVE  UpTo(s, set) = [n \in 0..Len(s) |-> AmongStep(s, set, UpTo(s, set), n)]
<1> DEFINE Is(f, m) == f = [n \in 0..m |-> AmongStep(s, set, f, n)]
           T == {m \in 0..Len(s) : \E f : Is(f, m)}
<1>1. 0 \in T
  <2>1. Is([n \in 0..0 |-> <<>>], 0)
    BY DEF AmongStep
  <2> QED BY <2>1
<1>2. ASSUME NEW m \in 0..(Len(s) - 1), m \in T PROVE m + 1 \in T
  <2>1. PICK f : Is(f, m)
    BY <1>2
  <2> DEFINE g == [n \in 0..(m + 1) |-> IF n = m + 1 THEN AmongStep(s, set, f, n) ELSE f[n]]
  <2>2. \A n \in 0..(m + 1) : n # 0 => n - 1 \in 0..m /\ g[n - 1] = f[n - 1]
    OBVIOUS
  <2>3. \A n \in 0..(m + 1) : AmongStep(s, set, g, n) = AmongStep(s, set, f, n)
    BY <2>2 DEF AmongStep
  <2>4. \A n \in 0..m : f[n] = AmongStep(s, set, f, n)
    BY <2>1
  <2>5. \A n \in 0..(m + 1) : g[n] = AmongStep(s, set, f, n)
    BY <2>4
  <2>6. Is(g, m + 1)
    BY <2>3, <2>5
  <2>7. m + 1 \in 0..Len(s)
    OBVIOUS
  <2>8. \E h : Is(h, m + 1)
    <3> HIDE DEF Is, g
    <3> QED BY <2>6
  <2> QED BY <2>7, <2>8
<1>3. T = 0..Len(s)
  <2>1. T \subseteq 0..Len(s)
    OBVIOUS
  <2> HIDE DEF T
  <2> QED BY <1>1, <1>2, <2>1, Induction
<1>4. \E f : Is(f, Len(s))
  BY <1>3
<1> QED BY <1>4 DEF UpTo

LEMMA AmongDef ==
    ASSUME NEW s, Len(s) \in Nat, NEW set
    PROVE  /\ Among(s, set) = UpTo(s, set)[Len(s)]
           /\ \A n \in 0..Len(s) : UpTo(s, set)[n] = AmongStep(s, set, UpTo(s, set), n)
<1>1. Among(s, set) = UpTo(s, set)[Len(s)]
  BY DEF Among, UpTo, AmongStep
<1>2. \A n \in 0..Len(s) : UpTo(s, set)[n] = AmongStep(s, set, UpTo(s, set), n)
  BY UpToDef
<1> QED BY <1>1, <1>2

LEMMA AmongEmpty == \A set : Among(<<>>, set) = <<>>
<1> SUFFICES ASSUME NEW set PROVE Among(<<>>, set) = <<>>
  OBVIOUS
<1>1. Len(<<>>) = 0
  OBVIOUS
<1> QED BY <1>1, AmongDef DEF AmongStep

LEMMA AmongAppend ==
    ASSUME NEW T, NEW s \in Seq(T), NEW x \in T, NEW set
    PROVE  Among(Append(s, x), set) =
               IF x \in set THEN Append(Among(s, set), x) ELSE Among(s, set)
<1> DEFINE t == Append(s, x)
           Same == {n \in 0..Len(s) : UpTo(t, set)[n] = UpTo(s, set)[n]}
<1>1. /\ Len(s) \in Nat /\ Len(t) = Len(s) + 1
      /\ t[Len(s) + 1] = x /\ \A n \in 1..Len(s) : t[n] = s[n]
  OBVIOUS
<1> HIDE DEF t
<1>2. /\ \A n \in 0..Len(s) : UpTo(s, set)[n] = AmongStep(s, set, UpTo(s, set), n)
      /\ \A n \in 0..(Len(s) + 1) : UpTo(t, set)[n] = AmongStep(t, set, UpTo(t, set), n)
      /\ Among(s, set) = UpTo(s, set)[Len(s)] /\ Among(t, set) = UpTo(t, set)[Len(s) + 1]
  BY <1>1, AmongDef
<1>3. 0 \in Same
  BY <1>1, <1>2 DEF AmongStep
<1>4. ASSUME NEW n \in 0..(Len(s) - 1), n \in Same PROVE n + 1 \in Same
  <2>1. /\ n + 1 \in 0..Len(s) /\ n + 1 \in 0..(Len(s) + 1) /\ n + 1 # 0 /\ (n + 1) - 1 = n
        /\ t[n + 1] = s[n + 1]
    BY <1>1
  <2>2. AmongStep(t, set, UpTo(t, set), n + 1) = AmongStep(s, set, UpTo(s, set), n + 1)
    BY <1>4, <2>1 DEF AmongStep
  <2> QED BY <1>2, <2>1, <2>2
<1>5. Same = 0..Len(s)
  <2>1. Same \subseteq 0..Len(s)
    OBVIOUS
  <2> HIDE DEF Same
  <2> QED BY <1>1, <1>3, <1>4, <2>1, Induction
<1>6. UpTo(t, set)[Len(s)] = Among(s, set)
  BY <1>1, <1>2, <1>5
<1>7. /\ Len(s) + 1 \in 0..(Len(s) + 1) /\ Len(s) + 1 # 0 /\ (Len(s) + 1) - 1 = Len(s)
  BY <1>1
<1>8. Among(t, set) = AmongStep(t, set, UpTo(t, set), Len(s) + 1)
  BY <1>2, <1>7
<1>9. Among(t, set) = IF x \in set THEN Append(Among(s, set), x) ELSE Among(s, set)
  BY <1>1, <1>6, <1>7, <1>8 DEF AmongStep
<1> QED BY <1>9 DEF t

LEMMA AmongType ==
    ASSUME NEW T, NEW s \in Seq(T), NEW set
    PROVE  Among(s, set) \in Seq(T \cap set)
<1> DEFINE P == {r \in Seq(T) : Among(r, set) \in Seq(T \cap set)}
<1>1. <<>> \in P
  <2>1. <<>> \in Seq(T) /\ <<>> \in Seq(T \cap set)
    OBVIOUS
  <2>2. Among(<<>>, set) \in Seq(T \cap set)
    BY <2>1, AmongEmpty, Zenon
  <2> QED BY <2>1, <2>2, Zenon
<1>2. ASSUME NEW r \in Seq(T), NEW x \in T, r \in P PROVE Append(r, x) \in P
  <2>1. Among(r, set) \in Seq(T \cap set) /\ Append(r, x) \in Seq(T)
    BY <1>2
  <2>2. Among(Append(r, x), set) \in Seq(T \cap set)
    <3>1. Among(Append(r, x), set) =
              IF x \in set THEN Append(Among(r, set), x) ELSE Among(r, set)
      BY AmongAppend
    <3>2. x \in set => Append(Among(r, set), x) \in Seq(T \cap set)
      <4> DEFINE U == T \cap set
      <4>1. x \in set => x \in U
        OBVIOUS
      <4> HIDE DEF U
      <4>2. Among(r, set) \in Seq(U)
        BY <2>1 DEF U
      <4>3. x \in set => Append(Among(r, set), x) \in Seq(U)
        BY <4>1, <4>2
      <4> QED BY <4>3 DEF U
    <3> QED BY <2>1, <3>1, <3>2
  <2> QED BY <2>1, <2>2
<1>3. Seq(T) \subseteq P
  <2>1. \A r \in Seq(T), x \in T : r \in P => Append(r, x) \in P
    BY <1>2
  <2> HIDE DEF P
  <2> QED BY <1>1, <2>1, SeqInduction
<1> QED BY <1>3

LEMMA AmongConcat ==
    ASSUME NEW T, NEW s \in Seq(T), NEW t \in Seq(T), NEW set
    PROVE  Among(s \o t, set) = Among(s, set) \o Among(t, set)
<1> DEFINE P == {r \in Seq(T) : Among(s \o r, set) = Among(s, set) \o Among(r, set)}
<1>1. <<>> \in P
  <2>1. s \o <<>> = s /\ Among(s, set) \o <<>> = Among(s, set)
    <3>1. Among(s, set) \in Seq(T \cap set)
      BY AmongType
    <3> QED BY <3>1, ConcatEmptySeq
  <2>2. Among(s \o <<>>, set) = Among(s, set) \o Among(<<>>, set)
    BY <2>1, AmongEmpty, Zenon
  <2>3. <<>> \in Seq(T)
    OBVIOUS
  <2> QED BY <2>2, <2>3, Zenon
<1>2. ASSUME NEW r \in Seq(T), NEW x \in T, r \in P PROVE Append(r, x) \in P
  <2>1. s \o Append(r, x) = Append(s \o r, x) /\ s \o r \in Seq(T) /\ Append(r, x) \in Seq(T)
    OBVIOUS
  <2>2. Among(s, set) \in Seq(T) /\ Among(r, set) \in Seq(T)
    <3>1. T \cap set \subseteq T
      OBVIOUS
    <3> QED BY <3>1, AmongType, SeqMonotonic, Zenon
  <2>3. Among(s, set) \o Append(Among(r, set), x) = Append(Among(s, set) \o Among(r, set), x)
    BY <2>2
  <2>4. Among(s \o r, set) = Among(s, set) \o Among(r, set)
    BY <1>2
  <2>5. /\ Among(Append(r, x), set) = IF x \in set THEN Append(Among(r, set), x) ELSE Among(r, set)
        /\ Among(Append(s \o r, x), set) =
              IF x \in set THEN Append(Among(s \o r, set), x) ELSE Among(s \o r, set)
    BY <2>1, AmongAppend
  <2>6. Among(s \o Append(r, x), set) = Among(s, set) \o Among(Append(r, x), set)
    BY <2>1, <2>3, <2>4, <2>5
  <2> QED BY <2>1, <2>6
<1>3. Seq(T) \subseteq P
  <2>1. \A r \in Seq(T), x \in T : r \in P => Append(r, x) \in P
    BY <1>2
  <2> HIDE DEF P
  <2> QED BY <1>1, <2>1, SeqInduction
<1> QED BY <1>3

LEMMA AmongAll ==
    ASSUME NEW T, NEW set
    PROVE  /\ \A s \in Seq(T \cap set) : Among(s, set) = s
           /\ \A s \in Seq(T \ set) : Among(s, set) = <<>>
<1>1. Seq(T \cap set) \subseteq {s \in Seq(T \cap set) : Among(s, set) = s}
  <2> DEFINE P == {s \in Seq(T \cap set) : Among(s, set) = s}
  <2>1. <<>> \in P
    BY AmongEmpty
  <2>2. ASSUME NEW r \in Seq(T \cap set), NEW x \in T \cap set, r \in P PROVE Append(r, x) \in P
    BY <2>2, AmongAppend
  <2> HIDE DEF P
  <2>3. Seq(T \cap set) \subseteq P
    BY <2>1, <2>2, SeqInduction
  <2> QED BY <2>3 DEF P
<1>2. Seq(T \ set) \subseteq {s \in Seq(T \ set) : Among(s, set) = <<>>}
  <2> DEFINE P == {s \in Seq(T \ set) : Among(s, set) = <<>>}
  <2>1. <<>> \in P
    BY AmongEmpty
  <2>2. ASSUME NEW r \in Seq(T \ set), NEW x \in T \ set, r \in P PROVE Append(r, x) \in P
    BY <2>2, AmongAppend
  <2> HIDE DEF P
  <2>3. Seq(T \ set) \subseteq P
    BY <2>1, <2>2, SeqInduction
  <2> QED BY <2>3 DEF P
<1> QED BY <1>1, <1>2

(* Each entry that is taken stands behind as many others as in the whole.    *)
LEMMA AmongOrigin ==
    ASSUME NEW T, NEW s \in Seq(T), NEW set
    PROVE  \A i \in 1..Len(Among(s, set)) :
              \E k \in 1..Len(s) : /\ s[k] = Among(s, set)[i]
                                   /\ Len(Among(SubSeq(s, 1, k - 1), set)) = i - 1
<1> DEFINE Has(r, i, k) == /\ r[k] = Among(r, set)[i]
                           /\ Len(Among(SubSeq(r, 1, k - 1), set)) = i - 1
           Each(r) == \A i \in 1..Len(Among(r, set)) : \E k \in 1..Len(r) : Has(r, i, k)
           P == {r \in Seq(T) : Each(r)}
<1>1. <<>> \in P
  <2>1. Len(Among(<<>>, set)) = 0
    <3>1. Len(<<>>) = 0
      OBVIOUS
    <3> QED BY <3>1, AmongEmpty, Zenon
  <2>2. Each(<<>>)
    BY <2>1
  <2>3. <<>> \in Seq(T)
    OBVIOUS
  <2> HIDE DEF Each
  <2> QED BY <2>2, <2>3, Zenon
<1>2. ASSUME NEW r \in Seq(T), NEW x \in T, r \in P PROVE Append(r, x) \in P
  <2> DEFINE t == Append(r, x)
             old == Among(r, set)
             new == Among(t, set)
  <2>1. /\ t \in Seq(T) /\ Len(t) = Len(r) + 1 /\ Len(r) \in Nat
        /\ t[Len(r) + 1] = x /\ \A k \in 1..Len(r) : t[k] = r[k]
        /\ \A k \in 1..(Len(r) + 1) : SubSeq(t, 1, k - 1) = SubSeq(r, 1, k - 1)
        /\ SubSeq(t, 1, Len(r)) = r
    OBVIOUS
  <2>2. new = IF x \in set THEN Append(old, x) ELSE old
    BY AmongAppend
  <2>3. old \in Seq(T)
    <3>1. T \cap set \subseteq T
      OBVIOUS
    <3> QED BY <3>1, AmongType, SeqMonotonic, Zenon
  <2> HIDE DEF t, old, new
  <2>4. /\ Len(old) \in Nat
        /\ Len(new) = IF x \in set THEN Len(old) + 1 ELSE Len(old)
        /\ \A i \in 1..Len(old) : new[i] = old[i]
        /\ x \in set => new[Len(old) + 1] = x
    BY <2>2, <2>3
  <2>5. ASSUME NEW i \in 1..Len(old)
        PROVE  \E k \in 1..Len(t) : Has(t, i, k)
    <3>1. PICK k \in 1..Len(r) : Has(r, i, k)
      BY <1>2 DEF old
    <3>2. k \in 1..Len(t) /\ t[k] = r[k] /\ SubSeq(t, 1, k - 1) = SubSeq(r, 1, k - 1)
      BY <2>1
    <3>3. new[i] = old[i]
      BY <2>4
    <3>4. Has(t, i, k)
      BY <3>1, <3>2, <3>3 DEF old, new
    <3> HIDE DEF Has
    <3> QED BY <3>2, <3>4
  <2>6. ASSUME x \in set
        PROVE  \E k \in 1..Len(t) : Has(t, Len(old) + 1, k)
    <3>1. Len(r) + 1 \in 1..Len(t) /\ (Len(r) + 1) - 1 = Len(r) /\ (Len(old) + 1) - 1 = Len(old)
      BY <2>1, <2>4
    <3>2. Has(t, Len(old) + 1, Len(r) + 1)
      BY <2>1, <2>4, <2>6, <3>1 DEF old, new
    <3> HIDE DEF Has
    <3> QED BY <3>1, <3>2
  <2>7. Each(t)
    <3>1. \A i \in 1..Len(new) : i \in 1..Len(old) \/ (x \in set /\ i = Len(old) + 1)
      BY <2>4
    <3> HIDE DEF Has
    <3>2. \A i \in 1..Len(new) : \E k \in 1..Len(t) : Has(t, i, k)
      BY <2>5, <2>6, <3>1
    <3> QED BY <3>2 DEF new
  <2> HIDE DEF Each
  <2> QED BY <2>1, <2>7 DEF t
<1>3. Seq(T) \subseteq P
  <2>1. \A r \in Seq(T), x \in T : r \in P => Append(r, x) \in P
    BY <1>2
  <2> HIDE DEF P
  <2> QED BY <1>1, <2>1, SeqInduction
<1> QED BY <1>3

LEMMA ConcatFacts ==
    ASSUME NEW T, NEW s \in Seq(T), NEW t \in Seq(T)
    PROVE  /\ s \o t \in Seq(T) /\ Len(s \o t) = Len(s) + Len(t)
           /\ Len(s) \in Nat /\ Len(t) \in Nat
           /\ \A i \in 1..Len(s) : (s \o t)[i] = s[i]
           /\ \A i \in 1..Len(t) : (s \o t)[Len(s) + i] = t[i]
OBVIOUS

LEMMA FromConcat ==
    ASSUME NEW T, NEW s \in Seq(T), NEW t \in Seq(T)
    PROVE  From(s \o t, Len(s) + 1) = t /\ SubSeq(s \o t, 1, Len(s)) = s
BY DEF From

LEMMA Cut ==
    ASSUME NEW T, NEW s \in Seq(T), NEW n \in 0..Len(s)
    PROVE  /\ SubSeq(s, 1, n) \in Seq(T) /\ SubSeq(s, n + 1, Len(s)) \in Seq(T)
           /\ Len(SubSeq(s, 1, n)) = n
           /\ s = SubSeq(s, 1, n) \o SubSeq(s, n + 1, Len(s))
<1>1. Len(s) \in Nat /\ \A i \in 1..Len(s) : s[i] \in T
  OBVIOUS
<1>2. SubSeq(s, 1, n) \in Seq(T) /\ SubSeq(s, n + 1, Len(s)) \in Seq(T) /\ Len(SubSeq(s, 1, n)) = n
  BY <1>1, SubSeqProperties
<1>3. SubSeq(s, 1, n) \o SubSeq(s, n + 1, Len(s)) = s
  <2>1. 1 \in 1..(Len(s) + 1) /\ n \in (1 - 1)..Len(s) /\ Len(s) \in n..Len(s)
    BY <1>1
  <2> QED BY <2>1, ConcatAdjacentSubSeq, SubSeqFull
<1> QED BY <1>2, <1>3

-----------------------------------------------------------------------------
(* Branches *)

AllCheckpoints ==
    [id : Nat, kind : {"compaction"}, covered : Seq(Nat), kept : Nat, retained : Nat,
     previous : Nat, summary : Nat]
Entries == AllMessages \cup AllCheckpoints

Jobs ==
    [fixed : BOOLEAN, view : Seq(Entries), injected : Seq(AllMessages), prompt : Seq(AllMessages),
     start : Nat, asks : Nat, call : Nat]

Distinct(entries) == \A i, j \in DOMAIN entries : entries[i].id = entries[j].id => i = j

(* A branch a resume accepts: no id appears twice, and each checkpoint is    *)
(* valid on what was there before it.                                        *)
Valid(entries) ==
    /\ entries \in Seq(Entries)
    /\ \A i \in DOMAIN entries : entries[i].id # 0
    /\ Distinct(entries)
    /\ \A k \in DOMAIN entries :
          entries[k].kind = "compaction" => Accepts(SubSeq(entries, 1, k - 1), entries[k])

(* Such a branch, while n entries have been appended.                        *)
Logged(entries, n) == Valid(entries) /\ \A i \in DOMAIN entries : entries[i].id <= n

(* A prompt that is not on the branch, with an id appended before; or none.  *)
Unrecorded(prompt, entries, n) ==
    \/ prompt = <<>>
    \/ \E m \in 1..n : /\ prompt = <<UserMessage(m)>>
                       /\ \A i \in DOMAIN entries : entries[i].id # m

(* The branch and the one a build works from are valid; the prompt of a run  *)
(* has an id of its own and is on no branch until the first request is sent. *)
BranchInv ==
    /\ last \in Nat /\ Logged(branch, last)
    /\ phase \in {"idle", "due", "compacting", "sent", "tools"}
    /\ job \in Jobs
    /\ job.fixed => Valid(job.view)
    /\ phase = "compacting" => job.fixed
    /\ Unrecorded(job.prompt, branch, last)

(* What a build still has to record is what it has been given to inject.     *)
RequestInv ==
    /\ phase \in {"due", "compacting"} /\ ~moved =>
          branch \o job.prompt = View \o job.injected
    /\ RequestComplete

(* Every summary asked for has cost a turn between the first and the oldest  *)
(* that is still to be retained, and parts no call from its result among the *)
(* messages that are not covered yet.                                        *)
Spent(view, start) == {s \in Starts(Uncovered(view)) : 1 < s /\ s <= start}
AsksInv ==
    /\ phase = "due" => job.asks = 0
    /\ phase = "compacting" =>
          /\ job.start \in Starts(Uncovered(job.view))
          /\ 1 <= job.asks /\ job.asks <= Cardinality(Spent(job.view, job.start))
          /\ ~Splits(Uncovered(job.view), job.start - 1)

WindowInv == BranchInv /\ RequestInv /\ AsksInv

LEMMA EntryKinds ==
    ASSUME NEW e \in Entries
    PROVE  /\ e.id \in Nat
           /\ e \in AllMessages <=> e.kind # "compaction"
           /\ e \notin AllMessages => e \in AllCheckpoints
BY DEF Entries, AllMessages, AllCheckpoints

LEMMA MessagesFacts ==
    /\ \A s \in Seq(Entries) : Messages(s) \in Seq(AllMessages)
    /\ \A s, t \in Seq(Entries) : Messages(s \o t) = Messages(s) \o Messages(t)
    /\ \A s \in Seq(AllMessages) : Messages(s) = s /\ s \in Seq(Entries)
    /\ \A e \in AllCheckpoints : Messages(<<e>>) = <<>> /\ <<e>> \in Seq(Entries)
<1>1. Entries \cap AllMessages = AllMessages /\ AllMessages \subseteq Entries
  BY DEF Entries
<1>2. ASSUME NEW s \in Seq(Entries) PROVE Messages(s) \in Seq(AllMessages)
  BY <1>1, AmongType, Zenon DEF Messages
<1>3. ASSUME NEW s \in Seq(Entries), NEW t \in Seq(Entries)
      PROVE  Messages(s \o t) = Messages(s) \o Messages(t)
  BY AmongConcat DEF Messages
<1>4. ASSUME NEW s \in Seq(AllMessages) PROVE Messages(s) = s /\ s \in Seq(Entries)
  BY <1>1, AmongAll, SeqMonotonic, Zenon DEF Messages
<1>5. ASSUME NEW e \in AllCheckpoints PROVE Messages(<<e>>) = <<>> /\ <<e>> \in Seq(Entries)
  <2>1. e \in Entries /\ e \notin AllMessages
    BY DEF Entries, AllMessages, AllCheckpoints
  <2>2. e \in Entries \ AllMessages
    BY <2>1
  <2> HIDE DEF AllMessages
  <2>3. <<e>> \in Seq(Entries \ AllMessages) /\ <<e>> \in Seq(Entries)
    BY <2>1, <2>2
  <2> QED BY <2>3, AmongAll, Zenon DEF Messages
<1> QED BY <1>2, <1>3, <1>4, <1>5

LEMMA MessagesCut ==
    ASSUME NEW s \in Seq(Entries), NEW n \in 0..Len(s)
    PROVE  LET head == Messages(SubSeq(s, 1, n))
               rest == Messages(SubSeq(s, n + 1, Len(s)))
           IN  /\ head \in Seq(AllMessages) /\ rest \in Seq(AllMessages)
               /\ Messages(s) = head \o rest
               /\ rest = From(Messages(s), Len(head) + 1)
<1> DEFINE head == Messages(SubSeq(s, 1, n))
           rest == Messages(SubSeq(s, n + 1, Len(s)))
<1>1. /\ SubSeq(s, 1, n) \in Seq(Entries) /\ SubSeq(s, n + 1, Len(s)) \in Seq(Entries)
      /\ s = SubSeq(s, 1, n) \o SubSeq(s, n + 1, Len(s))
  BY Cut
<1>2. head \in Seq(AllMessages) /\ rest \in Seq(AllMessages) /\ Messages(s) = head \o rest
  BY <1>1, MessagesFacts, Zenon
<1>3. rest = From(Messages(s), Len(head) + 1)
  <2> HIDE DEF head, rest
  <2> QED BY <1>2, FromConcat
<1> QED BY <1>2, <1>3

LEMMA MessagesOrigin ==
    ASSUME NEW s \in Seq(Entries), NEW i \in 1..Len(Messages(s))
    PROVE  \E k \in 1..Len(s) : /\ s[k] = Messages(s)[i]
                                /\ Len(Messages(SubSeq(s, 1, k - 1))) = i - 1
BY AmongOrigin DEF Messages

LEMMA DistinctMessages ==
    ASSUME NEW s \in Seq(Entries), Distinct(s)
    PROVE  Distinct(Messages(s))
<1>1. Messages(s) \in Seq(AllMessages)
  BY MessagesFacts
<1> SUFFICES ASSUME NEW i \in 1..Len(Messages(s)), NEW j \in 1..Len(Messages(s)),
                    Messages(s)[i].id = Messages(s)[j].id
             PROVE  i = j
  BY <1>1 DEF Distinct
<1>2. PICK k \in 1..Len(s) : /\ s[k] = Messages(s)[i]
                             /\ Len(Messages(SubSeq(s, 1, k - 1))) = i - 1
  BY MessagesOrigin
<1>3. PICK m \in 1..Len(s) : /\ s[m] = Messages(s)[j]
                             /\ Len(Messages(SubSeq(s, 1, m - 1))) = j - 1
  BY MessagesOrigin
<1>4. k = m
  BY <1>2, <1>3 DEF Distinct
<1>5. i - 1 = j - 1 /\ Len(Messages(s)) \in Nat
  BY <1>1, <1>2, <1>3, <1>4
<1> QED BY <1>5

(* What a coverage covers, and what it leaves.                               *)
Covers(covered, messages) ==
    /\ covered \in Seq(Nat) /\ Len(covered) <= Len(messages)
    /\ \A i \in 1..Len(covered) : covered[i] = messages[i].id

LEMMA PrefixCovers ==
    ASSUME NEW messages \in Seq(AllMessages), NEW covered \in Seq(Nat),
           IsPrefix(covered, Ids(messages))
    PROVE  Covers(covered, messages)
<1>1. /\ Len(covered) \in Nat /\ Len(messages) \in Nat
      /\ \A i \in 1..Len(messages) : messages[i].id \in Nat
  <2>1. \A i \in 1..Len(messages) : messages[i] \in AllMessages
    OBVIOUS
  <2>2. \A e \in AllMessages : e.id \in Nat
    BY DEF AllMessages
  <2> QED BY <2>1, <2>2
<1>2. /\ Ids(messages) \in Seq(Nat) /\ Len(Ids(messages)) = Len(messages)
      /\ \A i \in 1..Len(messages) : Ids(messages)[i] = messages[i].id
  BY <1>1 DEF Ids
<1>3. /\ Len(covered) <= Len(messages)
      /\ SubSeq(covered, 1, Len(covered)) = SubSeq(Ids(messages), 1, Len(covered))
  BY <1>2 DEF IsPrefix
<1>4. ASSUME NEW i \in 1..Len(covered) PROVE covered[i] = messages[i].id
  <2>1. SubSeq(covered, 1, Len(covered))[i] = covered[i]
    BY <1>1
  <2>2. SubSeq(Ids(messages), 1, Len(covered))[i] = Ids(messages)[i]
    BY <1>1, <1>2, <1>3
  <2>3. i \in 1..Len(messages)
    BY <1>1, <1>3
  <2> QED BY <1>2, <1>3, <2>1, <2>2, <2>3
<1> QED BY <1>3, <1>4 DEF Covers

LEMMA UncoveredFrom ==
    ASSUME NEW messages \in Seq(AllMessages), Distinct(messages),
           NEW covered, Covers(covered, messages)
    PROVE  Among(messages, {e \in AllMessages : e.id \notin ToSet(covered)})
              = From(messages, Len(covered) + 1)
<1> DEFINE n == Len(covered)
           left == {e \in AllMessages : e.id \notin ToSet(covered)}
           head == SubSeq(messages, 1, n)
           rest == SubSeq(messages, n + 1, Len(messages))
<1>1. n \in 0..Len(messages) /\ Len(messages) \in Nat /\ DOMAIN covered = 1..n
  BY DEF Covers
<1>2. /\ head \in Seq(AllMessages) /\ rest \in Seq(AllMessages)
      /\ Len(head) = n /\ messages = head \o rest
  BY <1>1, Cut
<1>3. ToSet(covered) = {messages[i].id : i \in 1..n}
  BY <1>1 DEF ToSet, Covers
<1>4. head \in Seq(AllMessages \ left)
  <2>1. ASSUME NEW i \in 1..n PROVE messages[i] \in AllMessages \ left
    BY <1>1, <1>3
  <2> HIDE DEF left
  <2> QED BY <1>1, <2>1, SubSeqProperties
<1>5. rest \in Seq(AllMessages \cap left)
  <2>1. ASSUME NEW i \in (n + 1)..Len(messages) PROVE messages[i] \in AllMessages \cap left
    <3>1. i \in DOMAIN messages /\ \A j \in 1..n : j \in DOMAIN messages /\ i # j
      BY <1>1
    <3>2. messages[i] \in AllMessages /\ \A j \in 1..n : messages[i].id # messages[j].id
      BY <3>1 DEF Distinct
    <3> QED BY <1>3, <3>2
  <2> HIDE DEF left
  <2> QED BY <1>1, <2>1, SubSeqProperties
<1> HIDE DEF n, left, head, rest
<1>6. Among(messages, left) = Among(head, left) \o Among(rest, left)
  BY <1>2, AmongConcat
<1>7. Among(head, left) = <<>> /\ Among(rest, left) = rest
  BY <1>4, <1>5, AmongAll, Zenon
<1>8. <<>> \o rest = rest
  BY <1>2, ConcatEmptySeq
<1>9. Among(messages, left) = rest
  BY <1>6, <1>7, <1>8, Zenon
<1> QED BY <1>9 DEF left, rest, From, n

(* The latest checkpoint is the last one, and it was accepted.               *)
LEMMA LatestFacts ==
    ASSUME NEW s, Valid(s)
    PROVE  \/ /\ Latest(s) = NoCheckpoint /\ \A k \in DOMAIN s : s[k].kind # "compaction"
              /\ SelectLastInSeq(s, LAMBDA e : e.kind = "compaction") = 0
           \/ \E at \in DOMAIN s :
                 /\ SelectLastInSeq(s, LAMBDA e : e.kind = "compaction") = at
                 /\ Latest(s) = s[at] /\ s[at] \in AllCheckpoints
                 /\ Accepts(SubSeq(s, 1, at - 1), s[at])
<1> DEFINE I == {i \in 1..Len(s) : s[i].kind = "compaction"}
<1>1. /\ s \in Seq(Entries) /\ DOMAIN s = 1..Len(s) /\ Len(s) \in Nat
      /\ \A i \in DOMAIN s : s[i] \in Entries
  BY DEF Valid
<1>2. SelectLastInSeq(s, LAMBDA e : e.kind = "compaction") = IF I # {} THEN Max(I) ELSE 0
  BY DEF SelectLastInSeq
<1>3. CASE I = {}
  BY <1>1, <1>2, <1>3 DEF Latest
<1>4. CASE I # {}
  <2>1. I \subseteq 0..Len(s)
    OBVIOUS
  <2> HIDE DEF I
  <2>2. Max(I) \in I
    BY <1>1, <1>4, <2>1, Greatest
  <2> USE DEF I
  <2>3. Max(I) \in DOMAIN s /\ s[Max(I)].kind = "compaction" /\ Max(I) # 0
    BY <1>1, <2>2
  <2>4. s[Max(I)] \in AllCheckpoints
    BY <1>1, <2>3, EntryKinds
  <2>5. Accepts(SubSeq(s, 1, Max(I) - 1), s[Max(I)])
    BY <2>3 DEF Valid
  <2> HIDE DEF I
  <2>6. Latest(s) = s[Max(I)]
    BY <1>2, <1>4, <2>3 DEF Latest
  <2> QED BY <1>2, <1>4, <2>3, <2>4, <2>5, <2>6
<1> QED BY <1>3, <1>4

(* What a request shows is what its summary does not cover, and so is what a *)
(* next summary may cover: the two ways of the code to find it agree.        *)
LEMMA ViewFacts ==
    ASSUME NEW s, Valid(s)
    PROVE  LET covered == Latest(s).covered
               messages == Messages(s)
           IN  /\ messages \in Seq(AllMessages) /\ Distinct(messages)
               /\ Covers(covered, messages)
               /\ Shown(s) = From(messages, Len(covered) + 1)
               /\ Uncovered(s) = From(messages, Len(covered) + 1)
<1> DEFINE covered == Latest(s).covered
           messages == Messages(s)
           n == Len(covered)
           I == {i \in 1..Len(s) : s[i].id = Latest(s).kept}
           at == SelectLastInSeq(s, LAMBDA e : e.kind = "compaction")
           kept == SelectInSeq(s, LAMBDA e : e.id = Latest(s).kept)
<1>1. /\ s \in Seq(Entries) /\ Len(s) \in Nat /\ DOMAIN s = 1..Len(s) /\ Distinct(s)
      /\ \A i \in 1..Len(s) : s[i].id # 0
  BY DEF Valid
<1>2. messages \in Seq(AllMessages) /\ Distinct(messages)
  BY <1>1, MessagesFacts, DistinctMessages
<1>3. kept = IF I # {} THEN Min(I) ELSE 0
  BY DEF SelectInSeq
<1>4. Shown(s) = Messages(SubSeq(s, IF kept = 0 THEN at + 1 ELSE kept, Len(s)))
  BY DEF Shown
<1>5. Covers(covered, messages) /\ Shown(s) = From(messages, n + 1)
  <2>1. CASE /\ Latest(s) = NoCheckpoint
             /\ at = 0
    <3>1. covered = <<>> /\ Latest(s).kept = 0
      BY <2>1 DEF NoCheckpoint, Checkpoint
    <3>2. n = 0 /\ Covers(covered, messages)
      <4>1. Len(<<>>) = 0 /\ <<>> \in Seq(Nat)
        OBVIOUS
      <4>2. n = 0 /\ covered \in Seq(Nat)
        BY <3>1, <4>1, Zenon
      <4> HIDE DEF covered, messages
      <4>3. Len(messages) \in Nat
        BY <1>2
      <4> QED BY <4>2, <4>3 DEF Covers
    <3>3. I = {}
      BY <1>1, <3>1
    <3> HIDE DEF I, at, kept, messages, covered, n
    <3>4. Shown(s) = Messages(SubSeq(s, 1, Len(s)))
      BY <1>3, <1>4, <2>1, <3>3
    <3>5. Shown(s) = messages
      BY <1>1, <3>4, SubSeqFull DEF messages
    <3>6. From(messages, n + 1) = messages
      BY <1>2, <3>2, SubSeqFull DEF From
    <3> QED BY <3>2, <3>5, <3>6
  <2>2. CASE /\ at \in DOMAIN s /\ Latest(s) = s[at] /\ s[at] \in AllCheckpoints
             /\ Accepts(SubSeq(s, 1, at - 1), s[at])
    <3> DEFINE before == SubSeq(s, 1, at - 1)
               past == Messages(before)
    <3> HIDE DEF at, kept, I
    <3>1. at \in 1..Len(s) /\ at - 1 \in 0..Len(s) /\ before \in Seq(Entries) /\ Len(before) = at - 1
      BY <1>1, <2>2, Cut
    <3>2. past \in Seq(AllMessages)
      BY <3>1, MessagesFacts
    <3>3. covered \in Seq(Nat)
      BY <2>2 DEF AllCheckpoints
    <3>4. /\ IsPrefix(covered, Ids(past))
          /\ Latest(s).kept = IF n = Len(past) THEN 0 ELSE past[n + 1].id
      BY <2>2 DEF Accepts
    <3>5. Covers(covered, past)
      BY <3>2, <3>3, <3>4, PrefixCovers
    <3>6. PICK rest \in Seq(AllMessages) : messages = past \o rest
      BY <1>1, <3>1, MessagesCut
    <3>7. Covers(covered, messages)
      <4> HIDE DEF messages, covered, past
      <4> QED BY <3>2, <3>5, <3>6 DEF Covers
    <3>8. CASE n = Len(past)
      <4>1. Latest(s).kept = 0
        BY <3>4, <3>8
      <4>2. kept = 0
        BY <1>1, <1>3, <4>1 DEF I
      <4>3. SubSeq(s, 1, at) = before \o <<s[at]>>
        <5>1. 1 \in 1..Len(s) /\ at \in 1..Len(s) /\ 1 <= at
          BY <1>1, <3>1
        <5>2. SubSeq(s, 1, at) = SubSeq(s, 1, at - 1) \o <<s[at]>>
          BY <1>1, <5>1, SubSeqRecursiveSecond
        <5> QED BY <5>2
      <4>4. Messages(SubSeq(s, 1, at)) = past
        <5>1. Messages(before \o <<s[at]>>) = past \o <<>>
          BY <2>2, <3>1, MessagesFacts
        <5>2. past \o <<>> = past
          BY <3>2, ConcatEmptySeq
        <5> QED BY <4>3, <5>1, <5>2, Zenon
      <4>5. Messages(SubSeq(s, at + 1, Len(s))) = From(messages, Len(past) + 1)
        <5>1. at \in 0..Len(s)
          BY <3>1
        <5> QED BY <1>1, <4>4, <5>1, MessagesCut
      <4> QED BY <1>4, <3>7, <3>8, <4>2, <4>5
    <3>9. CASE n # Len(past)
      <4>1. n + 1 \in 1..Len(past) /\ n \in Nat
        <5> HIDE DEF covered, past
        <5>1. n \in Nat /\ Len(past) \in Nat /\ n <= Len(past)
          BY <3>2, <3>3, <3>5 DEF Covers
        <5> QED BY <3>9, <5>1
      <4>2. PICK k \in 1..Len(before) : /\ before[k] = past[n + 1]
                                        /\ Len(Messages(SubSeq(before, 1, k - 1))) = n
        <5>1. \E k \in 1..Len(before) : /\ before[k] = past[n + 1]
                                        /\ Len(Messages(SubSeq(before, 1, k - 1))) = (n + 1) - 1
          BY <3>1, <4>1, MessagesOrigin
        <5>2. (n + 1) - 1 = n
          BY <4>1
        <5> QED BY <5>1, <5>2
      <4>3. /\ k \in 1..Len(s) /\ k - 1 \in 0..Len(s) /\ (k - 1) + 1 = k
            /\ before[k] = s[k] /\ SubSeq(before, 1, k - 1) = SubSeq(s, 1, k - 1)
        <5>1. k \in 1..(at - 1) /\ at \in 1..Len(s) /\ Len(s) \in Nat
          BY <1>1, <3>1
        <5>2. before[k] = s[k] /\ SubSeq(before, 1, k - 1) = SubSeq(s, 1, k - 1)
          BY <1>1, <5>1
        <5> QED BY <5>1, <5>2
      <4>4. Latest(s).kept = s[k].id
        BY <3>4, <3>9, <4>2, <4>3
      <4>5. I = {k}
        BY <1>1, <4>3, <4>4 DEF I, Distinct
      <4>6. kept = k /\ kept # 0
        <5>1. Min({k}) = k
          BY <4>3 DEF Min
        <5>2. kept = k
          BY <1>3, <4>5, <5>1
        <5> QED BY <4>3, <5>2
      <4>7. Messages(SubSeq(s, (k - 1) + 1, Len(s))) =
               From(messages, Len(Messages(SubSeq(s, 1, k - 1))) + 1)
        BY <1>1, <4>3, MessagesCut
      <4> QED BY <1>4, <3>7, <4>2, <4>3, <4>6, <4>7
    <3> QED BY <3>8, <3>9
  <2> HIDE DEF at
  <2> QED BY <2>1, <2>2, LatestFacts DEF at
<1>6. Uncovered(s) = From(messages, n + 1)
  <2>1. Uncovered(s) = Among(messages, {e \in AllMessages : e.id \notin ToSet(covered)})
    BY DEF Uncovered
  <2> HIDE DEF messages, covered
  <2> QED BY <1>2, <1>5, <2>1, UncoveredFrom
<1> QED BY <1>2, <1>5, <1>6

LEMMA ValidPrefix ==
    ASSUME NEW s, Valid(s), NEW n \in 0..Len(s)
    PROVE  Valid(SubSeq(s, 1, n)) /\ \A i \in DOMAIN SubSeq(s, 1, n) : SubSeq(s, 1, n)[i] = s[i]
<1> DEFINE t == SubSeq(s, 1, n)
<1>1. s \in Seq(Entries) /\ Len(s) \in Nat /\ DOMAIN s = 1..Len(s)
  BY DEF Valid
<1>2. /\ t \in Seq(Entries) /\ DOMAIN t = 1..n /\ n <= Len(s)
      /\ \A i \in 1..n : t[i] = s[i]
      /\ \A k \in 1..n : SubSeq(t, 1, k - 1) = SubSeq(s, 1, k - 1)
  BY <1>1
<1>3. \A i \in 1..n : i \in DOMAIN s
  BY <1>1, <1>2
<1> HIDE DEF t
<1>4. Valid(t)
  <2>1. Distinct(t) /\ \A i \in DOMAIN t : t[i].id # 0
    BY <1>2, <1>3 DEF Valid, Distinct
  <2>2. \A k \in DOMAIN t : t[k].kind = "compaction" => Accepts(SubSeq(t, 1, k - 1), t[k])
    BY <1>2, <1>3 DEF Valid
  <2> QED BY <1>2, <2>1, <2>2 DEF Valid
<1> QED BY <1>2, <1>4 DEF t

LEMMA ValidAppend ==
    ASSUME NEW s, Valid(s), NEW x \in Entries, x.id # 0, \A i \in DOMAIN s : s[i].id # x.id,
           x.kind = "compaction" => Accepts(s, x)
    PROVE  /\ Valid(Append(s, x)) /\ Append(s, x) = s \o <<x>>
           /\ \A i \in DOMAIN Append(s, x) : Append(s, x)[i] \in {s[j] : j \in DOMAIN s} \cup {x}
<1> DEFINE t == Append(s, x)
<1>1. s \in Seq(Entries) /\ Len(s) \in Nat /\ DOMAIN s = 1..Len(s)
  BY DEF Valid
<1>2. /\ t \in Seq(Entries) /\ DOMAIN t = 1..(Len(s) + 1) /\ t = s \o <<x>>
      /\ t[Len(s) + 1] = x
      /\ \A i \in 1..Len(s) : t[i] = s[i]
      /\ \A k \in 1..(Len(s) + 1) : SubSeq(t, 1, k - 1) = SubSeq(s, 1, k - 1)
      /\ SubSeq(t, 1, Len(s)) = s
  BY <1>1
<1>3. \A i \in 1..(Len(s) + 1) : i \in DOMAIN s \/ i = Len(s) + 1
  BY <1>1
<1>4. (Len(s) + 1) - 1 = Len(s) /\ Len(s) + 1 \notin DOMAIN s
  BY <1>1
<1> HIDE DEF t
<1>5. Valid(t)
  <2>1. Distinct(t) /\ \A i \in DOMAIN t : t[i].id # 0
    BY <1>1, <1>2, <1>3, <1>4 DEF Valid, Distinct
  <2>2. \A k \in DOMAIN t : t[k].kind = "compaction" => Accepts(SubSeq(t, 1, k - 1), t[k])
    <3>1. ASSUME NEW k \in DOMAIN s, t[k].kind = "compaction"
          PROVE  Accepts(SubSeq(t, 1, k - 1), t[k])
      <4>1. t[k] = s[k] /\ SubSeq(t, 1, k - 1) = SubSeq(s, 1, k - 1)
        <5>1. k \in 1..(Len(s) + 1) /\ k \in 1..Len(s)
          BY <1>1
        <5> QED BY <1>2, <5>1
      <4>2. Accepts(SubSeq(s, 1, k - 1), s[k])
        BY <3>1, <4>1 DEF Valid
      <4> QED BY <4>1, <4>2
    <3>2. t[Len(s) + 1].kind = "compaction" => Accepts(SubSeq(t, 1, (Len(s) + 1) - 1), t[Len(s) + 1])
      BY <1>2, <1>4
    <3> QED BY <1>2, <1>3, <3>1, <3>2
  <2> QED BY <1>2, <2>1, <2>2 DEF Valid
<1>6. \A i \in DOMAIN t : t[i] \in {s[j] : j \in DOMAIN s} \cup {x}
  BY <1>1, <1>2, <1>3
<1> QED BY <1>2, <1>5, <1>6 DEF t


-----------------------------------------------------------------------------
(* Coverage *)

LEMMA IdsFacts ==
    /\ \A s \in Seq(AllMessages) : Ids(s) \in Seq(Nat) /\ Len(Ids(s)) = Len(s)
    /\ \A s, t \in Seq(AllMessages) : Ids(s \o t) = Ids(s) \o Ids(t)
<1>1. \A e \in AllMessages : e.id \in Nat
  BY DEF AllMessages
<1> HIDE DEF AllMessages
<1>2. ASSUME NEW s \in Seq(AllMessages)
      PROVE  /\ Ids(s) \in Seq(Nat) /\ Len(Ids(s)) = Len(s)
             /\ \A i \in 1..Len(s) : Ids(s)[i] = s[i].id
  BY <1>1 DEF Ids
<1>3. ASSUME NEW s \in Seq(AllMessages), NEW t \in Seq(AllMessages)
      PROVE  Ids(s \o t) = Ids(s) \o Ids(t)
  <2>1. /\ s \o t \in Seq(AllMessages) /\ Len(s \o t) = Len(s) + Len(t)
        /\ Len(s) \in Nat /\ Len(t) \in Nat
        /\ \A i \in 1..Len(s) : (s \o t)[i] = s[i]
        /\ \A i \in 1..Len(t) : (s \o t)[Len(s) + i] = t[i]
    BY ConcatFacts
  <2>2. /\ Ids(s \o t) \in Seq(Nat) /\ Len(Ids(s \o t)) = Len(s) + Len(t)
        /\ \A i \in 1..(Len(s) + Len(t)) : Ids(s \o t)[i] = (s \o t)[i].id
    BY <1>2, <2>1
  <2>3. /\ Ids(s) \in Seq(Nat) /\ Len(Ids(s)) = Len(s)
        /\ Ids(t) \in Seq(Nat) /\ Len(Ids(t)) = Len(t)
        /\ \A i \in 1..Len(s) : Ids(s)[i] = s[i].id
        /\ \A i \in 1..Len(t) : Ids(t)[i] = t[i].id
    BY <1>2
  <2>4. /\ Ids(s) \o Ids(t) \in Seq(Nat) /\ Len(Ids(s) \o Ids(t)) = Len(Ids(s)) + Len(Ids(t))
        /\ \A i \in 1..Len(Ids(s)) : (Ids(s) \o Ids(t))[i] = Ids(s)[i]
        /\ \A i \in 1..Len(Ids(t)) : (Ids(s) \o Ids(t))[Len(Ids(s)) + i] = Ids(t)[i]
    <3>1. Ids(s) \in Seq(Nat) /\ Ids(t) \in Seq(Nat)
      BY <2>3
    <3> DEFINE a == Ids(s)
               b == Ids(t)
    <3> HIDE DEF a, b
    <3>2. a \in Seq(Nat) /\ b \in Seq(Nat)
      BY <3>1 DEF a, b
    <3>3. /\ a \o b \in Seq(Nat) /\ Len(a \o b) = Len(a) + Len(b)
          /\ \A i \in 1..Len(a) : (a \o b)[i] = a[i]
          /\ \A i \in 1..Len(b) : (a \o b)[Len(a) + i] = b[i]
      BY <3>2, ConcatFacts
    <3> QED BY <3>3 DEF a, b
  <2>5. ASSUME NEW i \in 1..(Len(s) + Len(t))
        PROVE  Ids(s \o t)[i] = (Ids(s) \o Ids(t))[i]
    <3>1. CASE i \in 1..Len(s)
      <4>1. (Ids(s) \o Ids(t))[i] = s[i].id
        BY <2>3, <2>4, <3>1
      <4> QED BY <2>1, <2>2, <3>1, <4>1
    <3>2. CASE i \notin 1..Len(s)
      <4>1. PICK j \in 1..Len(t) : i = Len(s) + j
        <5>1. i - Len(s) \in 1..Len(t) /\ i = Len(s) + (i - Len(s))
          BY <2>1, <3>2
        <5> QED BY <5>1
      <4>2. (Ids(s) \o Ids(t))[i] = t[j].id
        BY <2>3, <2>4, <4>1
      <4> QED BY <2>1, <2>2, <4>1, <4>2
    <3> QED BY <3>1, <3>2
  <2>6. Len(Ids(s) \o Ids(t)) = Len(s) + Len(t)
    BY <2>3, <2>4
  <2> QED BY <2>2, <2>4, <2>5, <2>6, SeqEqual
<1> QED BY <1>2, <1>3

(* What is covered and what is left is everything.                           *)
LEMMA CoversAll ==
    ASSUME NEW messages \in Seq(AllMessages), NEW covered, Covers(covered, messages)
    PROVE  /\ From(messages, Len(covered) + 1) \in Seq(AllMessages)
           /\ covered \o Ids(From(messages, Len(covered) + 1)) = Ids(messages)
<1> DEFINE n == Len(covered)
           head == SubSeq(messages, 1, n)
           rest == SubSeq(messages, n + 1, Len(messages))
<1>1. n \in 0..Len(messages) /\ covered \in Seq(Nat)
  BY DEF Covers
<1>2. /\ head \in Seq(AllMessages) /\ rest \in Seq(AllMessages)
      /\ Len(head) = n /\ messages = head \o rest
  BY <1>1, Cut
<1>3. \A i \in 1..n : head[i] = messages[i]
  BY <1>1
<1>4. Ids(head) = covered
  <2>1. \A i \in 1..n : covered[i] = messages[i].id
    BY DEF Covers
  <2> HIDE DEF head
  <2>2. DOMAIN head = 1..n
    BY <1>2
  <2>3. Ids(head) = [i \in 1..n |-> messages[i].id]
    BY <1>3, <2>2 DEF Ids
  <2> QED BY <1>1, <2>1, <2>3
<1> HIDE DEF n, head, rest
<1>5. Ids(messages) = Ids(head) \o Ids(rest)
  BY <1>2, IdsFacts
<1> QED BY <1>2, <1>4, <1>5 DEF From, n, rest

(* A plan covers the messages it was made to cover.                          *)
LEMMA PlanFacts ==
    ASSUME NEW s, Valid(s), NEW id \in Nat, NEW n \in DOMAIN Messages(s), NEW summary \in Nat
    PROVE  /\ Plan(id, s, n, summary) \in AllCheckpoints
           /\ Plan(id, s, n, summary).id = id
           /\ Covers(Plan(id, s, n, summary).covered, Messages(s))
<1> DEFINE messages == Messages(s)
           plan == Plan(id, s, n, summary)
           head == SubSeq(messages, 1, n)
<1>1. messages \in Seq(AllMessages)
  BY ViewFacts
<1> HIDE DEF messages
<1>2. n \in 1..Len(messages) /\ n \in 0..Len(messages) /\ Len(messages) \in Nat
      /\ \A i \in 1..Len(messages) : messages[i] \in AllMessages
  BY <1>1 DEF messages
<1>3. head \in Seq(AllMessages) /\ Len(head) = n /\ \A i \in 1..n : head[i] = messages[i]
  BY <1>1, <1>2, Cut
<1> HIDE DEF head
<1>4. Ids(head) \in Seq(Nat) /\ Len(Ids(head)) = n
  BY <1>3, IdsFacts
<1>5. \A i \in 1..n : Ids(head)[i] = messages[i].id
  BY <1>2, <1>3 DEF Ids
<1>6. Covers(Ids(head), messages)
  BY <1>2, <1>4, <1>5 DEF Covers
<1>7. Latest(s).id \in Nat
  BY LatestFacts DEF AllCheckpoints, NoCheckpoint, Checkpoint
<1>8. (IF n = Len(messages) THEN 0 ELSE messages[n + 1].id) \in Nat
  <2>1. n # Len(messages) => n + 1 \in 1..Len(messages)
    BY <1>2
  <2> QED BY <1>2, <2>1 DEF AllMessages
<1>9. Len(messages) - n \in Nat
  BY <1>2
<1>10. plan = Checkpoint(id, Ids(head), IF n = Len(messages) THEN 0 ELSE messages[n + 1].id,
                         Len(messages) - n, Latest(s).id, summary)
  BY DEF Plan, messages, head
<1> HIDE DEF plan
<1>11. plan \in AllCheckpoints /\ plan.id = id /\ plan.covered = Ids(head)
  BY <1>4, <1>7, <1>8, <1>9, <1>10 DEF Checkpoint, AllCheckpoints
<1> QED BY <1>6, <1>11 DEF plan, messages

-----------------------------------------------------------------------------
(* Turns *)

LEMMA StartsFacts ==
    ASSUME NEW messages \in Seq(AllMessages)
    PROVE  /\ Starts(messages) \subseteq 1..(Len(messages) + 1)
           /\ Starts(messages) \subseteq Nat /\ IsFiniteSet(Starts(messages))
           /\ 1 \in Starts(messages) /\ Len(messages) + 1 \in Starts(messages)
<1>1. Len(messages) \in Nat /\ DOMAIN messages = 1..Len(messages)
  OBVIOUS
<1>2. Starts(messages) \subseteq 1..(Len(messages) + 1)
  BY <1>1 DEF Starts
<1>3. 1 \in Starts(messages) /\ Len(messages) + 1 \in Starts(messages)
  BY <1>1 DEF Starts
<1>4. IsFiniteSet(1..(Len(messages) + 1)) /\ 1..(Len(messages) + 1) \subseteq Nat
  BY <1>1, FS_Interval
<1> QED BY <1>2, <1>3, <1>4, FS_Subset

(* The selection is a turn, or none at all.                                  *)
LEMMA SelectedFacts ==
    ASSUME NEW messages \in Seq(AllMessages), NEW injected
    PROVE  Selected(messages, injected) \in Starts(messages)
<1> DEFINE Fit(t) == Fits(SummaryBudget, From(messages, t), injected)
           Good == {s \in Starts(messages) :
                      \A t \in Starts(messages) : t >= s /\ t \in DOMAIN messages => Fit(t)}
<1> HIDE DEF Fit
<1>1. /\ Starts(messages) \subseteq Nat /\ Len(messages) + 1 \in Starts(messages)
      /\ Len(messages) \in Nat /\ DOMAIN messages = 1..Len(messages)
  BY StartsFacts
<1>2. Len(messages) + 1 \in Good
  BY <1>1
<1>3. PICK s \in Good : \A r \in Good : s <= r
  <2>1. Good \subseteq Nat /\ Good # {}
    BY <1>1, <1>2
  <2> HIDE DEF Good
  <2> QED BY <2>1, Least
<1>4. ASSUME NEW r \in Starts(messages), r < s
      PROVE  \E t \in Starts(messages) : t >= r /\ t < s /\ ~Fit(t)
  <2>1. r \notin Good
    BY <1>1, <1>3, <1>4
  <2>2. PICK t \in Starts(messages) : t >= r /\ t \in DOMAIN messages /\ ~Fit(t)
    BY <2>1
  <2>3. t < s
    BY <1>1, <1>3, <2>2
  <2> QED BY <2>2, <2>3
<1>5. \E x \in Starts(messages) :
         /\ \A t \in Starts(messages) : t >= x /\ t \in DOMAIN messages => Fit(t)
         /\ \A r \in Starts(messages) :
               r < x => \E t \in Starts(messages) : t >= r /\ t < x /\ ~Fit(t)
  BY <1>3, <1>4
<1> QED BY <1>5 DEF Selected, Fit

(* Giving up the oldest retained turn leaves the next, or none.              *)
LEMMA NextFacts ==
    ASSUME NEW messages \in Seq(AllMessages), NEW s \in Starts(messages), s # Len(messages) + 1
    PROVE  NextStart(messages, s) \in Starts(messages) /\ NextStart(messages, s) > s
<1> DEFINE Later == {t \in Starts(messages) : t > s}
<1>1. /\ Starts(messages) \subseteq 1..(Len(messages) + 1) /\ Len(messages) \in Nat
      /\ Starts(messages) \subseteq Nat /\ Len(messages) + 1 \in Starts(messages)
  BY StartsFacts
<1>2. Len(messages) + 1 \in Later /\ Later \subseteq Nat
  BY <1>1
<1>3. PICK t \in Later : \A r \in Later : t <= r
  <2> HIDE DEF Later
  <2> QED BY <1>2, Least
<1>4. \E x \in Starts(messages) : x > s /\ \A r \in Starts(messages) : r > s => x <= r
  BY <1>3
<1> QED BY <1>4 DEF NextStart

(* Each further turn given up is one more that was spent.                    *)
LEMMA SpentFacts ==
    ASSUME NEW view, Uncovered(view) \in Seq(AllMessages)
    PROVE  /\ \A s \in Starts(Uncovered(view)) :
                 /\ Cardinality(Spent(view, s)) \in Nat
                 /\ Cardinality(Spent(view, s)) < Cardinality(Starts(Uncovered(view)))
                 /\ s # 1 => Cardinality(Spent(view, s)) >= 1
           /\ \A s, t \in Starts(Uncovered(view)) :
                 s < t => Cardinality(Spent(view, s)) + 1 <= Cardinality(Spent(view, t))
<1> DEFINE All == Starts(Uncovered(view))
<1>1. All \subseteq Nat /\ All \subseteq 1..(Len(Uncovered(view)) + 1) /\ IsFiniteSet(All) /\ 1 \in All
  BY StartsFacts
<1> HIDE DEF All
<1>2. \A s : Spent(view, s) = {r \in All : 1 < r /\ r <= s}
  BY DEF Spent, All
<1>3. ASSUME NEW s \in All, NEW t \in All, s < t
      PROVE  Cardinality(Spent(view, s)) + 1 <= Cardinality(Spent(view, t))
  <2>1. IsFiniteSet(Spent(view, s)) /\ IsFiniteSet(Spent(view, t))
    BY <1>1, <1>2, FS_Subset
  <2>2. t \notin Spent(view, s) /\ Spent(view, s) \cup {t} \subseteq Spent(view, t)
    <3>1. s \in Nat /\ t \in Nat /\ s >= 1
      BY <1>1
    <3>2. \A r \in All : r <= s => r <= t
      BY <1>1, <1>3, <3>1
    <3>3. 1 < t /\ t <= t /\ ~(t <= s)
      BY <1>3, <3>1
    <3> QED BY <1>2, <3>2, <3>3
  <2>3. Cardinality(Spent(view, s) \cup {t}) = Cardinality(Spent(view, s)) + 1
    BY <2>1, <2>2, FS_AddElement
  <2> QED BY <2>1, <2>2, <2>3, FS_Subset
<1>4. ASSUME NEW s \in All
      PROVE  /\ Cardinality(Spent(view, s)) \in Nat
             /\ Cardinality(Spent(view, s)) < Cardinality(All)
  <2>1. Spent(view, s) \subseteq All \ {1}
    BY <1>1, <1>2
  <2>2. IsFiniteSet(All \ {1}) /\ Cardinality(All \ {1}) = Cardinality(All) - 1
    BY <1>1, FS_RemoveElement
  <2>3. IsFiniteSet(Spent(view, s)) /\ Cardinality(Spent(view, s)) <= Cardinality(All \ {1})
    BY <2>1, <2>2, FS_Subset
  <2>4. Cardinality(Spent(view, s)) \in Nat /\ Cardinality(All) \in Nat
    BY <1>1, <2>3, FS_CardinalityType
  <2> QED BY <2>2, <2>3, <2>4
<1>5. ASSUME NEW s \in All, s # 1
      PROVE  Cardinality(Spent(view, s)) >= 1
  <2>1. s \in Spent(view, s)
    BY <1>1, <1>2, <1>5
  <2>2. IsFiniteSet(Spent(view, s))
    BY <1>1, <1>2, FS_Subset
  <2>3. Cardinality(Spent(view, s)) # 0
    BY <2>1, <2>2, FS_EmptySet
  <2>4. Cardinality(Spent(view, s)) \in Nat
    BY <1>4
  <2> QED BY <2>3, <2>4
<1> QED BY <1>3, <1>4, <1>5 DEF All

-----------------------------------------------------------------------------
(* Entries that are recorded *)

LEMMA RecordEntry ==
    ASSUME NEW n \in Nat, NEW s, Logged(s, n), NEW x \in Entries, x.id = n + 1,
           x.kind = "compaction" => Accepts(s, x)
    PROVE  Logged(Append(s, x), n + 1) /\ Append(s, x) = s \o <<x>>
<1>1. /\ Valid(s) /\ \A i \in DOMAIN s : s[i] \in Entries /\ s[i].id <= n /\ s[i].id # x.id
      /\ x.id # 0
  <2>1. Valid(s) /\ \A i \in DOMAIN s : s[i] \in Entries /\ s[i].id <= n
    BY DEF Logged, Valid
  <2>2. \A i \in DOMAIN s : s[i].id \in Nat
    BY <2>1, EntryKinds
  <2> QED BY <2>1, <2>2
<1>2. /\ Valid(Append(s, x)) /\ Append(s, x) = s \o <<x>>
      /\ \A i \in DOMAIN Append(s, x) : Append(s, x)[i] \in {s[j] : j \in DOMAIN s} \cup {x}
  BY <1>1, ValidAppend
<1> DEFINE t == Append(s, x)
<1> HIDE DEF t
<1>3. \A i \in DOMAIN t : t[i].id <= n + 1
  <2>1. \A j \in DOMAIN s : s[j].id <= n + 1
    BY <1>1, EntryKinds
  <2>2. x.id <= n + 1
    OBVIOUS
  <2>3. \A i \in DOMAIN t : t[i] \in {s[j] : j \in DOMAIN s} \cup {x}
    BY <1>2 DEF t
  <2> QED BY <2>1, <2>2, <2>3
<1> QED BY <1>2, <1>3 DEF Logged, t

LEMMA MessageFacts ==
    ASSUME NEW id \in Nat, NEW kind \in {"user", "assistant", "tool"}, NEW call \in Nat,
           NEW big \in BOOLEAN
    PROVE  /\ Message(id, kind, call, big) \in AllMessages
           /\ Message(id, kind, call, big) \in Entries
           /\ Message(id, kind, call, big).id = id
           /\ Message(id, kind, call, big).kind # "compaction"
BY DEF Message, AllMessages, Entries

LEMMA UserFacts ==
    ASSUME NEW id \in Nat
    PROVE  /\ UserMessage(id) \in AllMessages /\ UserMessage(id) \in Entries
           /\ UserMessage(id).id = id /\ UserMessage(id).kind # "compaction"
           /\ <<UserMessage(id)>> \in Seq(AllMessages)
           /\ <<UserMessage(id)>> # <<>> /\ Len(<<UserMessage(id)>>) = 1
<1>1. UserMessage(id) \in AllMessages /\ UserMessage(id) \in Entries
      /\ UserMessage(id).id = id /\ UserMessage(id).kind # "compaction"
  BY MessageFacts DEF UserMessage
<1> HIDE DEF AllMessages
<1> QED BY <1>1

LEMMA RecordMessage ==
    ASSUME NEW n \in Nat, NEW s, Logged(s, n), NEW kind \in {"user", "assistant", "tool"},
           NEW call \in Nat, NEW big \in BOOLEAN
    PROVE  /\ Logged(Append(s, Message(n + 1, kind, call, big)), n + 1)
           /\ Append(s, Message(n + 1, kind, call, big)) = s \o <<Message(n + 1, kind, call, big)>>
<1>1. n + 1 \in Nat
  OBVIOUS
<1> QED BY <1>1, MessageFacts, RecordEntry

(* What is recorded when a request is sent: the plan, if there is one, and   *)
(* the prompt, if this is the first request of the run.                      *)
Recordable(plan, s, n, k) ==
    \/ plan = <<>> /\ k = n
    \/ /\ k = n + 1
       /\ \E final \in AllCheckpoints : plan = <<final>> /\ final.id = n + 1 /\ Accepts(s, final)

LEMMA RecordPlanAndPrompt ==
    ASSUME NEW n \in Nat, NEW s, Logged(s, n), NEW k \in Nat,
           NEW plan, Recordable(plan, s, n, k), NEW prompt, Unrecorded(prompt, s, n)
    PROVE  /\ Logged(s \o plan \o prompt, k)
           /\ Messages(s \o plan \o prompt) = Messages(s \o prompt)
<1>1. s \in Seq(Entries) /\ Valid(s) /\ \A i \in DOMAIN s : s[i] \in Entries /\ s[i].id \in Nat
  BY EntryKinds DEF Logged, Valid
<1>2. /\ plan \in Seq(Entries) /\ Messages(plan) = <<>>
      /\ Logged(s \o plan, k)
      /\ \A m \in 1..n : (\A i \in DOMAIN s : s[i].id # m)
                            => \A i \in DOMAIN (s \o plan) : (s \o plan)[i].id # m
  <2>1. CASE plan = <<>> /\ k = n
    <3>1. <<>> \in Seq(AllMessages) /\ <<>> \in Seq(Entries)
      OBVIOUS
    <3>2. Messages(<<>>) = <<>>
      BY <3>1, MessagesFacts
    <3>3. s \o <<>> = s
      BY <1>1, ConcatEmptySeq
    <3>4. s \o plan = s
      BY <2>1, <3>3
    <3> QED BY <2>1, <3>1, <3>2, <3>4, Zenon
  <2>2. CASE /\ k = n + 1
             /\ \E final \in AllCheckpoints :
                   plan = <<final>> /\ final.id = n + 1 /\ Accepts(s, final)
    <3>1. PICK final \in AllCheckpoints : plan = <<final>> /\ final.id = n + 1 /\ Accepts(s, final)
      BY <2>2
    <3>2. final \in Entries
      BY DEF Entries
    <3>3. Logged(Append(s, final), n + 1) /\ Append(s, final) = s \o plan
      BY <3>1, <3>2, RecordEntry
    <3>4. plan \in Seq(Entries) /\ Messages(plan) = <<>>
      BY <3>1, MessagesFacts
    <3>5. \A i \in DOMAIN Append(s, final) :
             Append(s, final)[i] \in {s[j] : j \in DOMAIN s} \cup {final}
      <4> HIDE DEF AllCheckpoints, Entries
      <4> QED BY <1>1
    <3>6. \A m \in 1..n : m # final.id
      BY <3>1
    <3>7. \A m \in 1..n : (\A i \in DOMAIN s : s[i].id # m)
                            => \A i \in DOMAIN (s \o plan) : (s \o plan)[i].id # m
      BY <3>3, <3>5, <3>6
    <3> QED BY <2>2, <3>3, <3>4, <3>7
  <2> QED BY <2>1, <2>2 DEF Recordable
<1>3. s \o plan \in Seq(Entries) /\ Messages(s \o plan) = Messages(s)
  <2>1. Messages(s \o plan) = Messages(s) \o <<>> /\ Messages(s) \in Seq(AllMessages)
    <3>1. Messages(s \o plan) = Messages(s) \o Messages(plan) /\ Messages(s) \in Seq(AllMessages)
      BY <1>1, <1>2, MessagesFacts, Zenon
    <3> QED BY <1>2, <3>1
  <2>2. Messages(s) \o <<>> = Messages(s)
    BY <2>1, ConcatEmptySeq
  <2> QED BY <1>1, <1>2, <2>1, <2>2, ConcatProperties
<1> DEFINE r == s \o plan
<1> HIDE DEF r
<1>4. CASE prompt = <<>>
  <2>1. s \o <<>> = s /\ r \o <<>> = r
    BY <1>1, <1>3, ConcatEmptySeq DEF r
  <2>2. s \o prompt = s /\ r \o prompt = r
    BY <1>4, <2>1
  <2> QED BY <1>2, <1>3, <2>2 DEF r
<1>5. CASE \E m \in 1..n : prompt = <<UserMessage(m)>> /\ \A i \in DOMAIN s : s[i].id # m
  <2>1. PICK m \in 1..n : prompt = <<UserMessage(m)>> /\ \A i \in DOMAIN s : s[i].id # m
    BY <1>5
  <2>2. m \in Nat /\ m # 0 /\ m <= n /\ UserMessage(m) \in Entries /\ UserMessage(m).id = m
        /\ UserMessage(m).kind # "compaction" /\ prompt \in Seq(AllMessages)
    BY <2>1, UserFacts
  <2>3. Valid(r) /\ \A i \in DOMAIN r : r[i].id # m /\ r[i].id <= k
    BY <1>2, <2>1 DEF Logged, r
  <2>4. /\ Valid(Append(r, UserMessage(m))) /\ Append(r, UserMessage(m)) = r \o prompt
        /\ \A i \in DOMAIN Append(r, UserMessage(m)) :
              Append(r, UserMessage(m))[i] \in {r[j] : j \in DOMAIN r} \cup {UserMessage(m)}
    BY <2>1, <2>2, <2>3, ValidAppend
  <2>5. m <= k
    BY <2>2 DEF Recordable
  <2>6. \A i \in DOMAIN (r \o prompt) : (r \o prompt)[i].id <= k
    BY <2>2, <2>3, <2>4, <2>5
  <2>7. Logged(r \o prompt, k)
    BY <2>4, <2>6 DEF Logged
  <2>8. prompt \in Seq(Entries)
    BY <2>2, MessagesFacts
  <2>9. Messages(r \o prompt) = Messages(s \o prompt)
    <3>1. r \in Seq(Entries) /\ Messages(r) = Messages(s)
      BY <1>3 DEF r
    <3>2. /\ Messages(r \o prompt) = Messages(r) \o Messages(prompt)
          /\ Messages(s \o prompt) = Messages(s) \o Messages(prompt)
      BY <1>1, <2>8, <3>1, MessagesFacts, Zenon
    <3> QED BY <3>1, <3>2
  <2> QED BY <2>7, <2>9 DEF r
<1> QED BY <1>4, <1>5 DEF Unrecorded

-----------------------------------------------------------------------------
(* Steps *)

LEMMA NoJobFacts ==
    /\ NoJob \in Jobs /\ <<>> \in Seq(Entries) /\ <<>> \in Seq(AllMessages)
    /\ NoJob.prompt = <<>> /\ NoJob.injected = <<>> /\ NoJob.view = <<>>
    /\ NoJob.fixed = FALSE /\ NoJob.asks = 0 /\ NoJob.call = 0
<1>1. <<>> \in Seq(Entries) /\ <<>> \in Seq(AllMessages)
  BY EmptySeq
<1>2. /\ NoJob.prompt = <<>> /\ NoJob.injected = <<>> /\ NoJob.view = <<>>
      /\ NoJob.fixed = FALSE /\ NoJob.asks = 0 /\ NoJob.call = 0
  BY DEF NoJob
<1>3. NoJob \in Jobs
  BY <1>1, Zenon DEF NoJob, Jobs
<1> QED BY <1>1, <1>2, <1>3

LEMMA NothingToBuild ==
    ASSUME last' \in Nat, Logged(branch', last'), phase' \in {"idle", "tools"},
           NEW c \in Nat, job' = [NoJob EXCEPT !.call = c]
    PROVE  WindowInv'
<1>1. job' \in Jobs /\ job'.fixed = FALSE /\ job'.prompt = <<>>
  BY NoJobFacts DEF Jobs
<1>3. BranchInv'
  BY <1>1, Zenon DEF BranchInv, Unrecorded
<1>4. RequestInv' /\ AsksInv'
  BY DEF RequestInv, RequestComplete, AsksInv
<1> QED BY <1>3, <1>4 DEF WindowInv

LEMMA EndedRun ==
    ASSUME BranchInv, NEW how, EndRun(how), UNCHANGED <<branch, last>>
    PROVE  WindowInv'
<1>1. job' = [NoJob EXCEPT !.call = 0] /\ phase' = "idle"
  BY DEF EndRun, NoJob
<1>2. last' \in Nat /\ Logged(branch', last')
  BY DEF BranchInv
<1> QED BY <1>1, <1>2, NothingToBuild

LEMMA Injected ==
    ASSUME NEW entries, NEW n \in Nat, Logged(entries, n), NEW users, Inject(entries, users),
           \/ users = <<>> /\ last' = n
           \/ users = <<UserMessage(n + 1)>> /\ last' = n + 1
    PROVE  WindowInv'
<1>1. /\ users \in Seq(AllMessages) /\ last' \in Nat /\ Logged(branch', last')
      /\ users = <<>> => entries = branch'
  <2>1. entries \in Seq(Entries)
    BY DEF Logged, Valid
  <2>2. CASE users = <<>> /\ last' = n
    <3>1. entries \o <<>> = entries /\ <<>> \in Seq(AllMessages)
      BY <2>1, ConcatEmptySeq, EmptySeq
    <3>2. branch' = entries
      BY <2>2, <3>1 DEF Inject
    <3> QED BY <2>2, <3>1, <3>2, Zenon
  <2>3. CASE users = <<UserMessage(n + 1)>> /\ last' = n + 1
    <3>1. Logged(entries \o users, n + 1) /\ n + 1 \in Nat
      <4>1. /\ n + 1 \in Nat /\ UserMessage(n + 1) \in Entries /\ UserMessage(n + 1).id = n + 1
            /\ UserMessage(n + 1).kind # "compaction"
        BY UserFacts
      <4> QED BY <2>3, <4>1, RecordEntry
    <3>2. users \in Seq(AllMessages) /\ users # <<>>
      BY <2>3, <3>1, UserFacts
    <3> QED BY <2>3, <3>1, <3>2 DEF Inject
  <2> QED BY <2>2, <2>3
<1>2. /\ branch' = entries \o users /\ phase' = "due"
      /\ job' = [NoJob EXCEPT !.fixed = (users # <<>>),
                              !.view = IF users = <<>> THEN <<>> ELSE entries,
                              !.injected = users]
  BY DEF Inject
<1>3. /\ job' \in Jobs /\ job'.fixed = (users # <<>>) /\ job'.injected = users
      /\ job'.prompt = <<>> /\ job'.asks = 0
      /\ users # <<>> => job'.view = entries
  <2>1. entries \in Seq(Entries) /\ (users # <<>>) \in BOOLEAN
    BY DEF Logged, Valid
  <2> QED BY <1>1, <1>2, <2>1, NoJobFacts DEF Jobs
<1>5. job'.fixed => Valid(job'.view)
  BY <1>3 DEF Logged
<1>6. BranchInv'
  BY <1>1, <1>2, <1>3, <1>5 DEF BranchInv, Unrecorded
<1>7. branch' \o job'.prompt = View' \o job'.injected
  <2>1. branch' \o <<>> = branch' /\ branch' \in Seq(Entries)
    BY <1>1, ConcatEmptySeq DEF Logged, Valid
  <2>2. CASE users = <<>>
    <3>1. View' = branch'
      BY <1>3, <2>2 DEF View
    <3> QED BY <1>3, <2>2, <3>1
  <2>3. CASE users # <<>>
    <3>1. View' = entries
      BY <1>3, <2>3 DEF View
    <3> QED BY <1>2, <1>3, <2>1, <3>1
  <2> QED BY <2>2, <2>3
<1>8. RequestInv' /\ AsksInv'
  BY <1>2, <1>3, <1>7 DEF RequestInv, RequestComplete, AsksInv
<1> QED BY <1>6, <1>8 DEF WindowInv

LEMMA ViewIsValid ==
    ASSUME BranchInv
    PROVE  Valid(View)
BY DEF BranchInv, View, Logged

LEMMA UncoveredType ==
    ASSUME NEW s, Valid(s)
    PROVE  Uncovered(s) \in Seq(AllMessages)
BY ViewFacts, CoversAll

LEMMA Asked ==
    ASSUME WindowInv, phase \in {"due", "compacting"}, NEW view, view = View,
           NEW start \in Starts(Uncovered(view)),
           job.asks + 1 <= Cardinality(Spent(view, start)),
           AskEngine(view, start), UNCHANGED <<branch, last, request, moved, moves>>
    PROVE  WindowInv'
<1>1. Valid(view) /\ view \in Seq(Entries)
  BY ViewIsValid DEF WindowInv, Valid
<1>2. CASE Splits(Uncovered(view), start - 1)
  <2>1. EndRun("safe_cut_unavailable")
    BY <1>2 DEF AskEngine
  <2> QED BY <2>1, EndedRun DEF WindowInv
<1>3. CASE ~Splits(Uncovered(view), start - 1)
  <2>1. /\ phase' = "compacting"
        /\ job' = [job EXCEPT !.fixed = TRUE, !.view = view, !.start = start, !.asks = @ + 1]
    BY <1>3 DEF AskEngine
  <2>2. start \in Nat
    <3>1. Uncovered(view) \in Seq(AllMessages)
      BY <1>1, UncoveredType
    <3> QED BY <3>1, StartsFacts
  <2>3. job \in Jobs
    BY DEF WindowInv, BranchInv
  <2>4. /\ job' \in Jobs /\ job'.fixed = TRUE /\ job'.view = view /\ job'.start = start
        /\ job'.asks = job.asks + 1 /\ job'.injected = job.injected /\ job'.prompt = job.prompt
    <3>1. /\ job'.fixed = TRUE /\ job'.view = view /\ job'.start = start
          /\ job'.asks = job.asks + 1 /\ job'.injected = job.injected /\ job'.prompt = job.prompt
      BY <2>1, <2>3 DEF Jobs
    <3>2. job.asks + 1 \in Nat
      BY <2>3 DEF Jobs
    <3>3. job' \in Jobs
      BY <1>1, <2>1, <2>2, <2>3, <3>2 DEF Jobs
    <3> QED BY <3>1, <3>3
  <2>5. BranchInv'
    BY <1>1, <2>1, <2>4 DEF WindowInv, BranchInv
  <2>6. RequestInv'
    <3>1. View' = View
      BY <2>4 DEF View
    <3>2. ~moved => branch \o job.prompt = View \o job.injected
      BY DEF WindowInv, RequestInv
    <3> QED BY <2>1, <2>4, <3>1, <3>2 DEF RequestInv, RequestComplete
  <2>7. AsksInv'
    <3>1. 1 <= job'.asks
      BY <2>3, <2>4 DEF Jobs
    <3>2. Uncovered(job'.view) = Uncovered(view) /\ Spent(job'.view, job'.start) = Spent(view, start)
      BY <2>4
    <3> QED BY <1>3, <2>1, <2>4, <3>1, <3>2 DEF AsksInv
  <2> QED BY <2>5, <2>6, <2>7 DEF WindowInv
<1> QED BY <1>2, <1>3

(* A request whose summary and messages are the whole of what the build saw. *)
LEMMA Sent ==
    ASSUME WindowInv, phase \in {"due", "compacting"},
           NEW covered \in Seq(Nat), NEW tail \in Seq(AllMessages),
           covered \o Ids(tail) = Ids(Messages(View)),
           NEW plan, Recordable(plan, branch, last, last'),
           Send(covered, tail, plan)
    PROVE  WindowInv'
<1>1. /\ last \in Nat /\ Logged(branch, last) /\ job \in Jobs
      /\ job.injected \in Seq(AllMessages) /\ job.prompt \in Seq(AllMessages)
      /\ Unrecorded(job.prompt, branch, last)
  BY DEF WindowInv, BranchInv, Jobs
<1>2. /\ request' = [covered |-> covered, tail |-> Ids(tail), injected |-> Ids(job.injected)]
      /\ branch' = branch \o plan \o job.prompt
      /\ phase' = "sent" /\ job' = NoJob /\ moved' = moved
  BY DEF Send
<1>3. last' \in Nat
  BY <1>1 DEF Recordable
<1>4. Logged(branch', last') /\ Messages(branch') = Messages(branch \o job.prompt)
  <2>1. /\ Logged(branch \o plan \o job.prompt, last')
        /\ Messages(branch \o plan \o job.prompt) = Messages(branch \o job.prompt)
    <3> DEFINE n == last
               s == branch
               k == last'
               prompt == job.prompt
    <3>1. n \in Nat /\ k \in Nat /\ Logged(s, n) /\ Recordable(plan, s, n, k)
          /\ Unrecorded(prompt, s, n)
      BY <1>1, <1>3
    <3> HIDE DEF n, s, k, prompt
    <3>2. /\ Logged(s \o plan \o prompt, k)
          /\ Messages(s \o plan \o prompt) = Messages(s \o prompt)
      BY <3>1, RecordPlanAndPrompt
    <3> QED BY <3>2 DEF n, s, k, prompt
  <2> QED BY <1>2, <2>1
<1>5. BranchInv'
  BY <1>2, <1>3, <1>4, NoJobFacts DEF BranchInv, Unrecorded
<1>6. AsksInv'
  BY <1>2 DEF AsksInv
<1>7. ASSUME ~moved
      PROVE  covered \o Ids(tail) \o Ids(job.injected) = Ids(Messages(branch'))
  <2>1. branch \o job.prompt = View \o job.injected
    BY <1>7 DEF WindowInv, RequestInv
  <2>2. View \in Seq(Entries) /\ job.injected \in Seq(Entries)
        /\ Messages(job.injected) = job.injected
    BY <1>1, ViewIsValid, MessagesFacts DEF WindowInv, Valid
  <2>3. Messages(View \o job.injected) = Messages(View) \o Messages(job.injected)
        /\ Messages(View) \in Seq(AllMessages)
    BY <2>2, MessagesFacts, Zenon
  <2>4. Ids(Messages(View) \o job.injected) = Ids(Messages(View)) \o Ids(job.injected)
    BY <1>1, <2>3, IdsFacts, Zenon
  <2> QED BY <1>4, <2>1, <2>2, <2>3, <2>4
<1>8. RequestInv'
  <2>1. /\ request'.covered = covered /\ request'.tail = Ids(tail)
        /\ request'.injected = Ids(job.injected)
    BY <1>2
  <2> QED BY <1>2, <1>7, <2>1 DEF RequestInv, RequestComplete
<1> QED BY <1>5, <1>6, <1>8 DEF WindowInv

-----------------------------------------------------------------------------
(* Actions *)

LEMMA InitKeeps ==
    ASSUME Init
    PROVE  WindowInv
<1>1. Valid(<<>>) /\ DOMAIN <<>> = {}
  <2>1. <<>> \in Seq(Entries) /\ DOMAIN <<>> = {}
    BY EmptySeq
  <2> QED BY <2>1 DEF Valid, Distinct
<1>2. Logged(branch, last) /\ last \in Nat
  BY <1>1 DEF Init, Logged
<1>3. BranchInv
  BY <1>2, NoJobFacts DEF Init, BranchInv, Unrecorded
<1>4. RequestInv /\ AsksInv
  BY DEF Init, RequestInv, RequestComplete, AsksInv
<1> QED BY <1>3, <1>4 DEF WindowInv

LEMMA StartRunKeeps ==
    ASSUME WindowInv, StartRun
    PROVE  WindowInv'
<1>1. /\ last \in Nat /\ Logged(branch, last) /\ last' = last + 1 /\ branch' = branch
      /\ phase' = "due"
      /\ job' = [NoJob EXCEPT !.injected = <<UserMessage(last')>>,
                              !.prompt = <<UserMessage(last')>>]
  BY DEF WindowInv, BranchInv, StartRun
<1>2. /\ last' \in Nat /\ last' \in 1..last' /\ \A n \in Nat : n <= last => n <= last' /\ n # last'
      /\ <<UserMessage(last')>> \in Seq(AllMessages)
  <2>1. /\ last' \in Nat /\ last' \in 1..last'
        /\ \A n \in Nat : n <= last => n <= last' /\ n # last'
    BY <1>1
  <2> QED BY <2>1, UserFacts
<1>3. /\ job' \in Jobs /\ job'.fixed = FALSE /\ job'.asks = 0
      /\ job'.prompt = <<UserMessage(last')>> /\ job'.injected = <<UserMessage(last')>>
  BY <1>1, <1>2, NoJobFacts DEF Jobs
<1>4. \A i \in DOMAIN branch : branch[i].id \in Nat /\ branch[i].id <= last
  BY <1>1, EntryKinds DEF Logged, Valid
<1>5. Logged(branch', last')
  BY <1>1, <1>2, <1>4 DEF Logged
<1>6. Unrecorded(job'.prompt, branch', last')
  BY <1>1, <1>2, <1>3, <1>4 DEF Unrecorded
<1>7. BranchInv'
  BY <1>1, <1>2, <1>3, <1>5, <1>6 DEF BranchInv
<1>8. branch' \o job'.prompt = View' \o job'.injected
  BY <1>1, <1>3 DEF View
<1>9. RequestInv' /\ AsksInv'
  BY <1>1, <1>3, <1>8 DEF RequestInv, RequestComplete, AsksInv
<1> QED BY <1>7, <1>9 DEF WindowInv

LEMMA BuildContextKeeps ==
    ASSUME WindowInv, BuildContext
    PROVE  WindowInv'
<1> DEFINE view == View
           uncovered == Uncovered(view)
           start == Selected(uncovered, job.injected)
<1>1. phase = "due" /\ BranchInv /\ job.asks = 0
  BY DEF BuildContext, WindowInv, AsksInv
<1>2. Valid(view)
  BY <1>1, ViewIsValid
<1>3. CASE Fits(Latest(view).summary, Shown(view), job.injected)
  <2>1. Send(Latest(view).covered, Shown(view), <<>>) /\ last' = last
    BY <1>3 DEF BuildContext
  <2> HIDE DEF view
  <2>2. /\ Covers(Latest(view).covered, Messages(view)) /\ Messages(view) \in Seq(AllMessages)
        /\ Shown(view) = From(Messages(view), Len(Latest(view).covered) + 1)
    BY <1>2, ViewFacts
  <2>3. /\ Shown(view) \in Seq(AllMessages) /\ Latest(view).covered \in Seq(Nat)
        /\ Latest(view).covered \o Ids(Shown(view)) = Ids(Messages(view))
    BY <2>2, CoversAll DEF Covers
  <2>4. Recordable(<<>>, branch, last, last')
    BY <2>1 DEF Recordable
  <2> QED BY <1>1, <2>1, <2>3, <2>4, Sent DEF view
<1>4. CASE ~Fits(Latest(view).summary, Shown(view), job.injected)
  <2>1. /\ UNCHANGED <<branch, last, request, moved, moves>>
        /\ IF uncovered = <<>> \/ start = 1 THEN EndRun("budget_exceeded") ELSE AskEngine(view, start)
    BY <1>4 DEF BuildContext
  <2>2. CASE uncovered = <<>> \/ start = 1
    BY <1>1, <2>1, <2>2, EndedRun
  <2>3. CASE ~(uncovered = <<>> \/ start = 1)
    <3>1. AskEngine(view, start) /\ start # 1
      BY <2>1, <2>3
    <3> HIDE DEF view
    <3>2. uncovered \in Seq(AllMessages)
      BY <1>2, UncoveredType
    <3>3. start \in Starts(uncovered)
      BY <3>2, SelectedFacts
    <3> HIDE DEF start
    <3>4. Cardinality(Spent(view, start)) >= 1
      BY <3>1, <3>2, <3>3, SpentFacts
    <3>5. job.asks + 1 <= Cardinality(Spent(view, start))
      <4>1. Cardinality(Spent(view, start)) \in Nat
        BY <3>2, <3>3, SpentFacts
      <4> QED BY <1>1, <3>4, <4>1
    <3> QED BY <1>1, <2>1, <3>1, <3>3, <3>5, Asked DEF view
  <2> QED BY <2>2, <2>3
<1> QED BY <1>3, <1>4

LEMMA CommitKeeps ==
    ASSUME WindowInv, phase = "compacting", NEW plan, plan.summary \in Nat, Commit(plan)
    PROVE  WindowInv'
<1>1. BranchInv /\ job.fixed /\ Valid(job.view) /\ View = job.view /\ last \in Nat
  BY DEF WindowInv, BranchInv, View
<1>2. ASSUME NEW how, EndRun(how), UNCHANGED <<branch, last, request, moved, moves>>
      PROVE  WindowInv'
  BY <1>1, <1>2, EndedRun
<1>3. ASSUME NEW final \in Transformed(plan), SessionAccepts(final),
             Send(final.covered, Retained(final), <<final>>), last' = last + 1
      PROVE  WindowInv'
  <2>1. PICK n \in DOMAIN Messages(job.view) : final = Plan(last + 1, job.view, n, plan.summary)
    BY DEF Transformed
  <2>2. /\ final \in AllCheckpoints /\ final.id = last + 1
        /\ Covers(final.covered, Messages(job.view))
    <3>1. last + 1 \in Nat
      BY <1>1
    <3> QED BY <1>1, <2>1, <3>1, PlanFacts
  <2>3. Messages(job.view) \in Seq(AllMessages)
    BY <1>1, ViewFacts
  <2>4. /\ Retained(final) \in Seq(AllMessages) /\ final.covered \in Seq(Nat)
        /\ final.covered \o Ids(Retained(final)) = Ids(Messages(View))
    BY <1>1, <2>2, <2>3, CoversAll DEF Retained, Covers
  <2>5. Recordable(<<final>>, branch, last, last')
    BY <1>3, <2>2 DEF Recordable, SessionAccepts
  <2> QED BY <1>3, <2>4, <2>5, Sent
<1> QED BY <1>2, <1>3 DEF Commit

LEMMA EngineAnswersKeeps ==
    ASSUME WindowInv, EngineAnswers
    PROVE  WindowInv'
<1>1. /\ phase = "compacting" /\ BranchInv /\ job.fixed /\ Valid(job.view) /\ View = job.view
      /\ job \in Jobs /\ last \in Nat
  BY DEF EngineAnswers, WindowInv, BranchInv, View
<1>2. PICK summary \in Summaries :
         LET uncovered == Uncovered(job.view)
             n == Len(Latest(job.view).covered) + job.start - 1
         IN  IF Fits(summary, From(uncovered, job.start), job.injected)
             THEN last < MaxEntries /\ Commit(Plan(last + 1, job.view, n, summary))
             ELSE /\ IF job.start = Len(uncovered) + 1
                     THEN EndRun("budget_exceeded")
                     ELSE AskEngine(job.view, NextStart(uncovered, job.start))
                  /\ UNCHANGED <<branch, last, request, moved, moves>>
  BY DEF EngineAnswers
<1> DEFINE uncovered == Uncovered(job.view)
           plan == Plan(last + 1, job.view, Len(Latest(job.view).covered) + job.start - 1, summary)
           next == NextStart(uncovered, job.start)
<1>3. CASE Fits(summary, From(uncovered, job.start), job.injected)
  <2>1. Commit(plan)
    BY <1>2, <1>3
  <2>2. plan.summary \in Nat
    BY WindowAssumption DEF Plan, Checkpoint
  <2> HIDE DEF plan
  <2> QED BY <1>1, <2>1, <2>2, CommitKeeps
<1>4. CASE ~Fits(summary, From(uncovered, job.start), job.injected)
  <2>1. /\ UNCHANGED <<branch, last, request, moved, moves>>
        /\ IF job.start = Len(uncovered) + 1 THEN EndRun("budget_exceeded")
                                             ELSE AskEngine(job.view, next)
    BY <1>2, <1>4
  <2>2. CASE job.start = Len(uncovered) + 1
    BY <1>1, <2>1, <2>2, EndedRun
  <2>3. CASE job.start # Len(uncovered) + 1
    <3>1. AskEngine(job.view, next)
      BY <2>1, <2>3
    <3>2. /\ uncovered \in Seq(AllMessages) /\ job.start \in Starts(uncovered)
          /\ job.asks \in Nat /\ job.asks <= Cardinality(Spent(job.view, job.start))
      BY <1>1, UncoveredType DEF WindowInv, AsksInv, Jobs
    <3>3. next \in Starts(uncovered) /\ job.start < next
      <4>1. next \in Starts(uncovered) /\ next > job.start
        BY <2>3, <3>2, NextFacts
      <4>2. job.start \in Nat /\ next \in Nat
        BY <3>2, <4>1, StartsFacts
      <4> QED BY <4>1, <4>2
    <3> HIDE DEF next
    <3>4. job.asks + 1 <= Cardinality(Spent(job.view, next))
      <4>1. /\ Cardinality(Spent(job.view, job.start)) \in Nat
            /\ Cardinality(Spent(job.view, next)) \in Nat
            /\ Cardinality(Spent(job.view, job.start)) + 1 <= Cardinality(Spent(job.view, next))
        BY <3>2, <3>3, SpentFacts
      <4> QED BY <3>2, <4>1
    <3> QED BY <1>1, <2>1, <3>1, <3>3, <3>4, Asked
  <2> QED BY <2>2, <2>3
<1> QED BY <1>3, <1>4

LEMMA AnswersKeep ==
    ASSUME WindowInv, AnswerText \/ AnswerCall
    PROVE  WindowInv'
<1>1. last \in Nat /\ Logged(branch, last) /\ last + 1 \in Nat
  BY DEF WindowInv, BranchInv
<1>2. \A c \in Nat : Logged(Append(branch, Message(last + 1, "assistant", c, FALSE)), last + 1)
  BY <1>1, RecordMessage
<1>3. CASE AnswerCall
  <2>1. PICK c \in CallIds : /\ branch' = Append(branch, Message(last + 1, "assistant", c, FALSE))
                             /\ job' = [NoJob EXCEPT !.call = c]
    BY <1>3 DEF AnswerCall
  <2>2. c \in Nat /\ last' = last + 1 /\ phase' = "tools"
    BY <1>3, WindowAssumption DEF AnswerCall
  <2> QED BY <1>1, <1>2, <2>1, <2>2, NothingToBuild
<1>4. CASE AnswerText
  <2> DEFINE answered == Append(branch, Message(last + 1, "assistant", 0, FALSE))
  <2>1. Logged(answered, last + 1)
    BY <1>2
  <2>2. CASE branch' = answered /\ last' = last + 1 /\ EndRun("success")
    <3>1. job' = [NoJob EXCEPT !.call = 0] /\ phase' = "idle"
      BY <2>2 DEF EndRun, NoJob
    <3> QED BY <1>1, <2>1, <2>2, <3>1, NothingToBuild
  <2>3. CASE Inject(answered, <<UserMessage(last + 2)>>) /\ last' = last + 2
    <3>1. (last + 1) + 1 = last + 2
      BY <1>1
    <3> HIDE DEF answered
    <3> QED BY <1>1, <2>1, <2>3, <3>1, Injected
  <2> QED BY <1>4, <2>2, <2>3 DEF AnswerText
<1> QED BY <1>3, <1>4

LEMMA BatchEndsKeeps ==
    ASSUME WindowInv, BatchEnds
    PROVE  WindowInv'
<1>1. last \in Nat /\ Logged(branch, last) /\ last + 1 \in Nat /\ job.call \in Nat
      /\ (last + 1) + 1 = last + 2
  BY DEF WindowInv, BranchInv, Jobs
<1>2. PICK big \in BOOLEAN, users \in {<<>>, <<UserMessage(last + 2)>>} :
         /\ Inject(Append(branch, Message(last + 1, "tool", job.call, big)), users)
         /\ last' = last + 1 + Len(users)
  BY DEF BatchEnds
<1> DEFINE entries == Append(branch, Message(last + 1, "tool", job.call, big))
<1>3. Logged(entries, last + 1)
  BY <1>1, RecordMessage
<1>4. \/ users = <<>> /\ last' = last + 1
      \/ users = <<UserMessage((last + 1) + 1)>> /\ last' = (last + 1) + 1
  <2>1. CASE users = <<>>
    BY <1>1, <1>2, <2>1
  <2>2. CASE users = <<UserMessage(last + 2)>>
    <3>1. Len(users) = 1
      BY <2>2
    <3> QED BY <1>1, <1>2, <2>2, <3>1
  <2> QED BY <2>1, <2>2
<1> HIDE DEF entries
<1>5. Inject(entries, users)
  BY <1>2 DEF entries
<1> QED BY <1>1, <1>3, <1>4, <1>5, Injected

(* Whoever moves the branch leaves a build what it works from.               *)
LEMMA OthersKeep ==
    ASSUME WindowInv, Fork \/ OtherRun
    PROVE  WindowInv'
<1>1. /\ last \in Nat /\ Logged(branch, last) /\ Valid(branch)
      /\ Unrecorded(job.prompt, branch, last)
  BY DEF WindowInv, BranchInv, Logged
<1>2. moved' = TRUE /\ UNCHANGED <<phase, job, request, outcome>>
  BY DEF Fork, OtherRun
<1>3. last' \in Nat /\ Logged(branch', last') /\ Unrecorded(job.prompt, branch', last')
  <2>1. CASE Fork
    <3>1. PICK n \in 1..Len(branch) - 1 : branch' = SubSeq(branch, 1, n)
      BY <2>1 DEF Fork
    <3>2. n \in 0..Len(branch) /\ last' = last
      BY <1>1, <2>1, <3>1 DEF Fork, Valid
    <3>3. /\ Valid(branch') /\ DOMAIN branch' \subseteq DOMAIN branch
          /\ \A i \in DOMAIN branch' : branch'[i] = branch[i]
      <4>1. /\ Valid(SubSeq(branch, 1, n))
            /\ \A i \in DOMAIN SubSeq(branch, 1, n) : SubSeq(branch, 1, n)[i] = branch[i]
        BY <1>1, <3>2, ValidPrefix
      <4>2. branch \in Seq(Entries)
        BY <1>1 DEF Valid
      <4>3. DOMAIN SubSeq(branch, 1, n) \subseteq DOMAIN branch
        BY <3>2, <4>2
      <4> QED BY <3>1, <4>1, <4>3
    <3> QED BY <1>1, <3>2, <3>3 DEF Logged, Unrecorded
  <2>2. CASE OtherRun
    <3>1. branch' = Append(branch, UserMessage(last + 1)) /\ last' = last + 1 /\ last' \in Nat
      BY <1>1, <2>2 DEF OtherRun
    <3>2. Logged(branch', last')
      BY <1>1, <3>1, RecordMessage DEF UserMessage
    <3>3. \A i \in DOMAIN branch' :
             branch'[i] \in {branch[j] : j \in DOMAIN branch} \cup {UserMessage(last + 1)}
      <4>1. branch \in Seq(Entries)
        BY <1>1 DEF Valid
      <4> QED BY <3>1, <4>1
    <3>4. UserMessage(last + 1).id = last + 1
      BY <3>1, UserFacts
    <3>5. \A m \in 1..last : m \in 1..last' /\ m # last + 1
      BY <1>1, <3>1
    <3> QED BY <1>1, <3>1, <3>2, <3>3, <3>4, <3>5 DEF Unrecorded
  <2> QED BY <2>1, <2>2
<1>4. BranchInv'
  BY <1>2, <1>3 DEF WindowInv, BranchInv
<1>5. RequestInv'
  BY <1>2 DEF RequestInv, RequestComplete
<1>6. AsksInv'
  BY <1>2 DEF WindowInv, AsksInv, Spent
<1> QED BY <1>4, <1>5, <1>6 DEF WindowInv

LEMMA WindowStep ==
    ASSUME WindowInv, [Next]_vars
    PROVE  WindowInv'
<1>1. CASE StartRun
  BY <1>1, StartRunKeeps
<1>2. CASE BuildContext
  BY <1>2, BuildContextKeeps
<1>3. CASE EngineAnswers
  BY <1>3, EngineAnswersKeeps
<1>4. CASE EngineFails \/ Stop
  BY <1>4, EndedRun DEF WindowInv, EngineFails, Stop
<1>5. CASE AnswerText \/ AnswerCall
  BY <1>5, AnswersKeep
<1>6. CASE BatchEnds
  BY <1>6, BatchEndsKeeps
<1>7. CASE Fork \/ OtherRun
  BY <1>7, OthersKeep
<1>8. CASE UNCHANGED vars
  BY <1>8 DEF vars, WindowInv, BranchInv, RequestInv, RequestComplete, AsksInv, View, Spent
<1> QED BY <1>1, <1>2, <1>3, <1>4, <1>5, <1>6, <1>7, <1>8 DEF Next, Run

THEOREM WindowInvariant == Spec => []WindowInv
<1>1. Init => WindowInv
  BY InitKeeps
<1>2. WindowInv /\ [Next]_vars => WindowInv'
  BY WindowStep
<1> QED BY <1>1, <1>2, PTL DEF Spec

-----------------------------------------------------------------------------
(* Theorems *)

(* Whatever the sizes and however often the branch is compacted: unless      *)
(* someone else moves the branch, a request of the ContextPipeline stands    *)
(* for every message of the branch it was built from, once and in order.     *)
THEOREM RequestsAreComplete == Spec => []RequestComplete
<1>1. WindowInv => RequestComplete
  BY DEF WindowInv, RequestInv
<1> QED BY <1>1, WindowInvariant, PTL

(* Whoever forks or appends while a summary is written, every checkpoint on  *)
(* the branch is one that a Session accepts after the entries before it.     *)
THEOREM CheckpointsAreReplayed == Spec => []CheckpointsReplay
<1>1. ASSUME WindowInv, NEW k \in DOMAIN branch, branch[k].kind = "compaction"
      PROVE  Accepts(SubSeq(branch, 1, k - 1), branch[k])
  BY <1>1 DEF WindowInv, BranchInv, Logged, Valid
<1>2. WindowInv => CheckpointsReplay
  BY <1>1 DEF CheckpointsReplay, Accepts
<1> QED BY <1>2, WindowInvariant, PTL

(* However long the summaries an engine returns, a build asks for fewer than *)
(* there are turns it may cover: the loop around the engine comes to an end. *)
THEOREM SummariesAreBounded == Spec => []SummariesBounded
<1>1. ASSUME WindowInv, phase = "compacting"
      PROVE  job.asks < Cardinality(Starts(Uncovered(job.view)))
  <2>1. /\ Valid(job.view) /\ job \in Jobs /\ job.start \in Starts(Uncovered(job.view))
        /\ job.asks <= Cardinality(Spent(job.view, job.start))
    BY <1>1 DEF WindowInv, BranchInv, AsksInv
  <2>2. job.asks \in Nat
    BY <2>1 DEF Jobs
  <2>3. Uncovered(job.view) \in Seq(AllMessages)
    BY <2>1, UncoveredType
  <2>4. /\ Cardinality(Spent(job.view, job.start)) \in Nat
        /\ Cardinality(Spent(job.view, job.start)) < Cardinality(Starts(Uncovered(job.view)))
    BY <2>1, <2>3, SpentFacts
  <2>5. Cardinality(Starts(Uncovered(job.view))) \in Nat
    BY <2>3, StartsFacts, FS_CardinalityType
  <2> QED BY <2>1, <2>2, <2>4, <2>5
<1>2. WindowInv => SummariesBounded
  BY <1>1 DEF SummariesBounded
<1> QED BY <1>2, WindowInvariant, PTL

-----------------------------------------------------------------------------
(* Why the Session refuses a plan *)

LEMMA PrefixByEntries ==
    ASSUME NEW a \in Seq(Nat), NEW b \in Seq(Nat), Len(a) <= Len(b),
           \A i \in 1..Len(a) : a[i] = b[i]
    PROVE  IsPrefix(a, b)
<1>1. /\ Len(a) \in Nat /\ Len(b) \in Nat
      /\ SubSeq(a, 1, Len(a)) \in Seq(Nat) /\ Len(SubSeq(a, 1, Len(a))) = Len(a)
      /\ SubSeq(b, 1, Len(a)) \in Seq(Nat) /\ Len(SubSeq(b, 1, Len(a))) = Len(a)
  BY Cut
<1>2. \A i \in 1..Len(a) : SubSeq(a, 1, Len(a))[i] = SubSeq(b, 1, Len(a))[i]
  BY <1>1
<1>3. SubSeq(a, 1, Len(a)) = SubSeq(b, 1, Len(a))
  BY <1>1, <1>2, SeqEqual
<1> QED BY <1>3 DEF IsPrefix

(* A plan that covers more than is covered, and parts no call from its       *)
(* result, is accepted on the branch it was made from.                       *)
LEMMA PlanAccepted ==
    ASSUME NEW s, Valid(s), NEW id \in Nat, NEW summary \in Nat, NEW n \in DOMAIN Messages(s),
           n > Len(Latest(s).covered), ~Splits(Messages(s), n)
    PROVE  Accepts(s, Plan(id, s, n, summary))
<1> DEFINE messages == Messages(s)
           before == Latest(s).covered
           plan == Plan(id, s, n, summary)
           covered == plan.covered
           head == SubSeq(messages, 1, n)
<1>1. messages \in Seq(AllMessages) /\ Covers(before, messages)
  BY ViewFacts
<1>2. n \in 1..Len(messages) /\ n \in 0..Len(messages) /\ Len(messages) \in Nat /\ n \in Nat
  BY <1>1
<1>3. /\ plan = Checkpoint(id, Ids(head), IF n = Len(messages) THEN 0 ELSE messages[n + 1].id,
                           Len(messages) - n, Latest(s).id, summary)
      /\ covered = Ids(head)
  BY DEF Plan, Checkpoint
<1>4. Covers(covered, messages)
  BY PlanFacts
<1> HIDE DEF messages, before, plan, covered, head
<1>5. Len(covered) = n
  <2>1. head \in Seq(AllMessages) /\ Len(head) = n
    BY <1>1, <1>2, Cut DEF head
  <2> QED BY <1>3, <2>1, IdsFacts
<1>6. /\ Ids(messages) \in Seq(Nat) /\ Len(Ids(messages)) = Len(messages)
      /\ \A i \in 1..Len(messages) : Ids(messages)[i] = messages[i].id
  BY <1>1, IdsFacts DEF Ids
<1>7. /\ before \in Seq(Nat) /\ covered \in Seq(Nat)
      /\ Len(before) \in Nat /\ Len(before) < n
  BY <1>1, <1>4 DEF Covers, before
<1>8. IsPrefix(covered, Ids(messages))
  <2>1. Len(covered) <= Len(Ids(messages))
    BY <1>2, <1>5, <1>6
  <2>2. ASSUME NEW i \in 1..Len(covered) PROVE covered[i] = Ids(messages)[i]
    <3>1. i \in 1..Len(messages)
      BY <1>2, <1>5
    <3> QED BY <1>4, <1>6, <3>1 DEF Covers
  <2> QED BY <1>6, <1>7, <2>1, <2>2, PrefixByEntries
<1>9. IsStrictPrefix(before, covered)
  <2>1. before # covered
    BY <1>5, <1>7
  <2>2. Len(before) <= Len(covered)
    BY <1>2, <1>5, <1>7
  <2>3. ASSUME NEW i \in 1..Len(before) PROVE before[i] = covered[i]
    <3>1. i \in 1..Len(covered)
      BY <1>2, <1>5, <1>7
    <3> QED BY <1>1, <1>4, <3>1 DEF Covers
  <2>4. IsPrefix(before, covered)
    BY <1>7, <2>2, <2>3, PrefixByEntries
  <2> QED BY <2>1, <2>4 DEF IsStrictPrefix
<1>10. /\ plan.kept = (IF n = Len(messages) THEN 0 ELSE messages[n + 1].id)
       /\ plan.retained = Len(messages) - n /\ plan.previous = Latest(s).id
  BY <1>3 DEF Checkpoint
<1> QED
  BY <1>5, <1>8, <1>9, <1>10 DEF Accepts, messages, before, covered, plan

(* How many messages the plan at hand covers. *)
PlannedCut == Len(Latest(job.view).covered) + job.start - 1

(* Finding 5 and what else there is: the Session refuses the pipeline's own  *)
(* plan only if somebody moved the branch, or messages were injected after   *)
(* the branch was read, or the provider gave an id to two calls, one that is *)
(* covered already and one that is retained.                                 *)
RefusalsExplained ==
    [][outcome # outcome' /\ outcome' = "kernel_exception" =>
         \/ moved
         \/ job.injected # job.prompt
         \/ /\ Splits(Messages(branch), PlannedCut)
            /\ ~Splits(Uncovered(branch), job.start - 1)]_vars

LEMMA OnlyRefusals ==
    ASSUME [Next]_vars, outcome # outcome', outcome' = "kernel_exception"
    PROVE  /\ phase = "compacting"
           /\ \E summary \in Summaries :
                 ~SessionAccepts(Plan(last + 1, job.view, PlannedCut, summary))
<1>1. ~(UNCHANGED outcome)
  OBVIOUS
<1>2. \A how : EndRun(how) => how = "kernel_exception"
  BY DEF EndRun
<1>3. \A covered, tail, plan : ~Send(covered, tail, plan)
  BY <1>1 DEF Send
<1>4. ~(\E view, start : AskEngine(view, start))
  BY <1>1, <1>2 DEF AskEngine
<1>5. EngineAnswers
  BY <1>1, <1>2, <1>3, <1>4
     DEF Next, Run, vars, StartRun, BuildContext, EngineFails, AnswerText, AnswerCall, BatchEnds,
         Stop, Fork, OtherRun
<1>6. \A plan : Commit(plan) => ~SessionAccepts(plan)
  BY <1>2, <1>3 DEF Commit
<1>7. \E summary \in Summaries : Commit(Plan(last + 1, job.view, PlannedCut, summary))
  BY <1>2, <1>4, <1>5 DEF EngineAnswers, PlannedCut
<1> QED BY <1>5, <1>6, <1>7 DEF EngineAnswers

THEOREM RefusalsAreExplained == Spec => RefusalsExplained
<1>1. ASSUME WindowInv, [Next]_vars, outcome # outcome', outcome' = "kernel_exception",
             ~moved, job.injected = job.prompt
      PROVE  /\ Splits(Messages(branch), PlannedCut)
             /\ ~Splits(Uncovered(branch), job.start - 1)
  <2>1. /\ phase = "compacting"
        /\ \E summary \in Summaries :
              ~SessionAccepts(Plan(last + 1, job.view, PlannedCut, summary))
    BY <1>1, OnlyRefusals
  <2>2. /\ job \in Jobs /\ last \in Nat /\ Valid(branch) /\ View = job.view
        /\ branch \o job.prompt = job.view \o job.injected
    BY <1>1, <2>1 DEF WindowInv, BranchInv, RequestInv, Logged, View
  <2>3. branch = job.view
    <3>1. /\ branch \in Seq(Entries) /\ job.view \in Seq(Entries)
          /\ job.prompt \in Seq(Entries)
      BY <2>2, MessagesFacts DEF Valid, Jobs
    <3> QED BY <1>1, <2>2, <3>1, ConcatSimplifications
  <2>4. ~Splits(Uncovered(branch), job.start - 1)
    BY <1>1, <2>1, <2>3 DEF WindowInv, AsksInv
  <2>5. PlannedCut \in DOMAIN Messages(branch) /\ PlannedCut > Len(Latest(branch).covered)
    <3> DEFINE messages == Messages(branch)
               covered == Latest(branch).covered
               uncovered == Uncovered(branch)
    <3>1. /\ messages \in Seq(AllMessages) /\ Covers(covered, messages)
          /\ uncovered = From(messages, Len(covered) + 1)
      BY <2>2, ViewFacts
    <3>2. /\ job.start \in Starts(uncovered) /\ job.asks \in Nat
          /\ 1 <= job.asks /\ job.asks <= Cardinality(Spent(branch, job.start))
      BY <1>1, <2>1, <2>2, <2>3 DEF WindowInv, AsksInv, Jobs
    <3> HIDE DEF messages, covered, uncovered
    <3>3. Len(covered) \in 0..Len(messages) /\ Len(messages) \in Nat
      BY <3>1 DEF Covers
    <3>4. uncovered \in Seq(AllMessages) /\ Len(uncovered) = Len(messages) - Len(covered)
      <4>1. /\ SubSeq(messages, Len(covered) + 1, Len(messages)) \in Seq(AllMessages)
            /\ SubSeq(messages, 1, Len(covered)) \in Seq(AllMessages)
            /\ Len(SubSeq(messages, 1, Len(covered))) = Len(covered)
            /\ messages = SubSeq(messages, 1, Len(covered))
                             \o SubSeq(messages, Len(covered) + 1, Len(messages))
        BY <3>1, <3>3, Cut
      <4>2. uncovered = SubSeq(messages, Len(covered) + 1, Len(messages))
        BY <3>1 DEF From
      <4>3. Len(messages) = Len(SubSeq(messages, 1, Len(covered))) + Len(uncovered)
        BY <4>1, <4>2, ConcatFacts
      <4>4. Len(messages) = Len(covered) + Len(uncovered)
        BY <4>1, <4>3
      <4>5. uncovered \in Seq(AllMessages)
        BY <4>1, <4>2
      <4>6. Len(uncovered) \in Nat /\ Len(covered) \in Nat
        BY <3>3, <4>5
      <4>7. Len(uncovered) = Len(messages) - Len(covered)
        BY <3>3, <4>4, <4>6
      <4> QED BY <4>5, <4>7
    <3>5. job.start \in 1..(Len(uncovered) + 1)
      BY <3>2, <3>4, StartsFacts
    <3>6. job.start # 1
      <4>1. SUFFICES ASSUME job.start = 1 PROVE FALSE
        OBVIOUS
      <4>2. Starts(uncovered) \subseteq Nat
        BY <3>4, StartsFacts
      <4>3. Spent(branch, 1) = {}
        BY <4>2 DEF Spent, uncovered
      <4>4. Cardinality(Spent(branch, job.start)) = 0
        BY <4>1, <4>3, FS_EmptySet
      <4> QED BY <3>2, <4>4
    <3>7. /\ Len(covered) + job.start - 1 \in 1..Len(messages)
          /\ Len(covered) + job.start - 1 > Len(covered)
      BY <3>3, <3>4, <3>5, <3>6
    <3>8. PlannedCut = Len(covered) + job.start - 1
      BY <2>3 DEF PlannedCut, covered
    <3>9. DOMAIN messages = 1..Len(messages)
      BY <3>1
    <3> QED BY <3>7, <3>8, <3>9 DEF messages, covered
  <2>6. Splits(Messages(branch), PlannedCut)
    <3>1. PICK summary \in Summaries :
             ~SessionAccepts(Plan(last + 1, job.view, PlannedCut, summary))
      BY <2>1
    <3>2. last + 1 \in Nat /\ summary \in Nat
      BY <2>2, WindowAssumption
    <3>3. ~Accepts(branch, Plan(last + 1, branch, PlannedCut, summary))
      BY <2>3, <3>1 DEF SessionAccepts
    <3> QED BY <2>2, <2>5, <3>2, <3>3, PlanAccepted
  <2> QED BY <2>4, <2>6
<1>2. ASSUME WindowInv, [Next]_vars
      PROVE  outcome # outcome' /\ outcome' = "kernel_exception" =>
                \/ moved
                \/ job.injected # job.prompt
                \/ /\ Splits(Messages(branch), PlannedCut)
                   /\ ~Splits(Uncovered(branch), job.start - 1)
  BY <1>1, <1>2
<1> QED BY <1>2, WindowInvariant, PTL DEF Spec, RefusalsExplained
=============================================================================
