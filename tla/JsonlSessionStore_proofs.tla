---------------------- MODULE JsonlSessionStore_proofs ----------------------
EXTENDS JsonlSessionStore, WellFoundedInduction, SequenceTheorems, TLAPS

(* A nonempty set of naturals has a least member: induction, for sets.       *)
LEMMA Least ==
    ASSUME NEW T, T \subseteq Nat, T # {}
    PROVE  \E x \in T : \A y \in T : x <= y
<1> DEFINE R == {ss \in Nat \X Nat : ss[1] < ss[2]}
<1>1. IsWellFoundedOn(R, Nat)
  BY NatLessThanWellFounded DEF OpToRel
<1>2. \E x \in T : \A y \in T : ~(<<y, x>> \in R)
  <2> HIDE DEF R
  <2> QED BY <1>1, WFMin, Zenon
<1>3. ASSUME NEW x \in T, NEW y \in T, ~(<<y, x>> \in R) PROVE x <= y
  <2>1. <<y, x>> \in Nat \X Nat
    OBVIOUS
  <2>2. ~(y < x)
    BY <1>3, <2>1
  <2> QED BY <2>2
<1> QED BY <1>2, <1>3

(* So a property of 0 that each number hands to the next holds of all.       *)
LEMMA Induction ==
    ASSUME NEW n \in Nat, NEW T, T \subseteq 0..n,
           0 \in T, \A i \in 0..(n - 1) : i \in T => i + 1 \in T
    PROVE  T = 0..n
<1> SUFFICES ASSUME (0..n) \ T # {} PROVE FALSE
  OBVIOUS
<1> DEFINE Rest == (0..n) \ T
<1>0. Rest \subseteq Nat
  OBVIOUS
<1>1. PICK x \in Rest : \A y \in Rest : x <= y
  <2> HIDE DEF Rest
  <2>1. Rest # {}
    BY DEF Rest
  <2> QED BY <1>0, <2>1, Least
<1>2. x # 0 /\ x - 1 \in 0..(n - 1)
  OBVIOUS
<1>3. x - 1 \in T
  BY <1>1, <1>2
<1> QED BY <1>2, <1>3

LEMMA Greatest ==
    ASSUME NEW n \in Nat, NEW T, T \subseteq 0..n, T # {}
    PROVE  Max(T) \in T /\ \A y \in T : y <= Max(T)
<1> DEFINE U == {u \in Nat : \A y \in T : u >= y}
<1>1. n \in U
  OBVIOUS
<1>2. PICK m \in U : \A u \in U : m <= u
  <2> HIDE DEF U
  <2>1. U \subseteq Nat BY DEF U
  <2> QED BY <1>1, <2>1, Least
<1>3. m \in T
  <2>1. SUFFICES ASSUME m \notin T PROVE FALSE
    OBVIOUS
  <2>2. PICK t \in T : TRUE
    OBVIOUS
  <2>3. \A y \in T : m - 1 >= y
    BY <2>1
  <2>4. m - 1 \in U
    BY <2>2, <2>3
  <2> QED BY <2>4, <1>2
<1>4. \E x \in T : \A y \in T : x >= y
  BY <1>3
<1> QED BY <1>4 DEF Max

-----------------------------------------------------------------------------
(* What a load exposes, line by line *)

ExposedStep(lines, found, n) ==
    IF n = 0 THEN <<>>
    ELSE IF EndsBatch(lines, n) THEN Append(found[n - 1], lines[n].content)
    ELSE found[n - 1]

LEMMA ExposedDef ==
    ASSUME NEW lines, Len(lines) \in Nat
    PROVE  Exposed(lines) = [n \in 0..Len(lines) |-> ExposedStep(lines, Exposed(lines), n)]
<1> DEFINE Is(f, m) == f = [n \in 0..m |-> ExposedStep(lines, f, n)]
           T == {m \in 0..Len(lines) : \E f : Is(f, m)}
<1>1. 0 \in T
  <2>1. Is([n \in 0..0 |-> <<>>], 0)
    BY DEF ExposedStep
  <2> QED BY <2>1
<1>2. ASSUME NEW m \in 0..(Len(lines) - 1), m \in T PROVE m + 1 \in T
  <2>1. PICK f : Is(f, m)
    BY <1>2
  <2> DEFINE g == [n \in 0..(m + 1) |-> IF n = m + 1 THEN ExposedStep(lines, f, n) ELSE f[n]]
  <2>2. \A n \in 0..(m + 1) : n # 0 => n - 1 \in 0..m /\ g[n - 1] = f[n - 1]
    OBVIOUS
  <2>3. \A n \in 0..(m + 1) : ExposedStep(lines, g, n) = ExposedStep(lines, f, n)
    BY <2>2 DEF ExposedStep
  <2>4. \A n \in 0..m : f[n] = ExposedStep(lines, f, n)
    BY <2>1
  <2>5. \A n \in 0..(m + 1) : g[n] = ExposedStep(lines, f, n)
    BY <2>4
  <2>6. Is(g, m + 1)
    BY <2>3, <2>5
  <2>7. m + 1 \in 0..Len(lines)
    OBVIOUS
  <2>8. \E h : Is(h, m + 1)
    <3> HIDE DEF Is, g
    <3> QED BY <2>6
  <2> QED BY <2>7, <2>8
<1>3. T = 0..Len(lines)
  <2> HIDE DEF T
  <2>1. T \subseteq 0..Len(lines) BY DEF T
  <2> QED BY <1>1, <1>2, <2>1, Induction
<1>4. \E f : Is(f, Len(lines))
  BY <1>3
<1>5. Exposed(lines) = CHOOSE f : Is(f, Len(lines))
  BY DEF Exposed, ExposedStep
<1> QED BY <1>4, <1>5

-----------------------------------------------------------------------------
(* Lines that agree up to a point *)

Lines(R) == [type : {"record", "begin", "commit", "torn"}, content : Seq(R)]

(* What a load accepts, of every line: torn at the end only, frames in pairs.*)
Sane(lines) ==
    \A n \in DOMAIN lines :
        /\ lines[n].type = "torn" => n = Len(lines)
        /\ lines[n].type = "begin" => ~InBatch(lines, n)
        /\ lines[n].type = "commit" => Fits(lines, n)

(* Where more can be written: behind whole lines, outside of a batch.        *)
Clean(lines) ==
    /\ Sane(lines) /\ ~InBatch(lines, Len(lines) + 1)
    /\ \A n \in DOMAIN lines : lines[n].type # "torn"

Agree(a, b, k) == k <= Len(a) /\ k <= Len(b) /\ \A i \in 1..k : a[i] = b[i]

LEMMA AgreeFrames ==
    ASSUME NEW L, NEW a \in Seq(L), NEW b \in Seq(L), NEW k \in Nat, Agree(a, b, k),
           NEW n \in 1..(k + 1)
    PROVE  OpenFrames(a, n) = OpenFrames(b, n) /\ (InBatch(a, n) <=> InBatch(b, n))
<1>1. \A m \in 1..(n - 1) : a[m] = b[m]
  BY DEF Agree
<1>2. ASSUME NEW f \in 1..(n - 1)
      PROVE  f \in OpenFrames(a, n) <=> f \in OpenFrames(b, n)
  <2>1. \A m \in (f + 1)..(n - 1) : a[m] = b[m]
    BY <1>1
  <2> QED BY <1>1, <2>1 DEF OpenFrames
<1>3. OpenFrames(a, n) \subseteq 1..(n - 1) /\ OpenFrames(b, n) \subseteq 1..(n - 1)
  BY DEF OpenFrames
<1>4. OpenFrames(a, n) = OpenFrames(b, n)
  BY <1>2, <1>3
<1> QED BY <1>4 DEF InBatch

LEMMA AgreeFits ==
    ASSUME NEW L, NEW a \in Seq(L), NEW b \in Seq(L), NEW k \in Nat, Agree(a, b, k),
           NEW n \in 1..k
    PROVE  Fits(a, n) <=> Fits(b, n)
<1>1. OpenFrames(a, n) = OpenFrames(b, n) /\ OpenFrames(a, n) \subseteq 1..(n - 1)
  BY AgreeFrames DEF OpenFrames
<1>2. a[n] = b[n]
  BY DEF Agree
<1>3. ASSUME NEW f \in 1..(n - 1)
      PROVE  /\ a[f] = b[f]
             /\ \A m \in 1..(n - f - 1) : a[f + m] = b[f + m]
  BY DEF Agree
<1> DEFINE Closes(s, f) ==
              /\ s[f].content = s[n].content
              /\ Len(s[n].content) = n - f - 1
              /\ \A m \in 1..(n - f - 1) : s[f + m].content = <<s[n].content[m]>>
<1>4. ASSUME NEW f \in OpenFrames(a, n)
      PROVE  Closes(a, f) <=> Closes(b, f)
  <2>1. f \in 1..(n - 1)
    BY <1>1
  <2>2. a[f] = b[f] /\ \A m \in 1..(n - f - 1) : a[f + m] = b[f + m]
    BY <1>3, <2>1
  <2> QED BY <1>2, <2>2
<1>5. Fits(a, n) <=> \E f \in OpenFrames(a, n) : Closes(a, f)
  BY DEF Fits
<1>6. Fits(b, n) <=> \E f \in OpenFrames(b, n) : Closes(b, f)
  BY DEF Fits
<1> HIDE DEF Closes
<1> QED BY <1>1, <1>4, <1>5, <1>6

Ends(lines, n) ==
    \/ lines[n].type = "commit"
    \/ lines[n].type = "record" /\ ~InBatch(lines, n)

LEMMA EndsMeaning ==
    ASSUME NEW L, NEW lines \in Seq(L), Sane(lines), NEW n \in DOMAIN lines
    PROVE  EndsBatch(lines, n) <=> Ends(lines, n)
<1>1. DOMAIN lines = 1..Len(lines) /\ Len(lines) \in Nat
  OBVIOUS
<1>2. Stops(lines) \subseteq {Len(lines)} /\ \A m \in Stops(lines) : lines[m].type = "torn"
  BY DEF Stops, Sane
<1>3. lines[n].type # "torn" => \A stop \in Stops(lines) : n < stop
  BY <1>1, <1>2
<1>4. lines[n].type # "torn" => n \in Read(lines)
  BY <1>3 DEF Read
<1> QED BY <1>4 DEF EndsBatch, Ends

(* A load refuses nothing that is sane.                                      *)
LEMMA SaneAccepted ==
    ASSUME NEW L, NEW lines \in Seq(L), Sane(lines)
    PROVE  ~Corrupt(lines)
<1>1. DOMAIN lines = 1..Len(lines) /\ Len(lines) \in Nat
  OBVIOUS
<1>2. ASSUME NEW n \in Read(lines) PROVE n \in DOMAIN lines /\ lines[n].type # "torn"
  <2>1. n \in DOMAIN lines /\ n \notin Stops(lines)
    BY <1>1 DEF Read, Stops
  <2> QED BY <2>1 DEF Stops, Sane
<1> QED BY <1>2 DEF Corrupt, Sane

LEMMA AgreeEnds ==
    ASSUME NEW L, NEW a \in Seq(L), NEW b \in Seq(L), Sane(a), Sane(b),
           NEW k \in Nat, Agree(a, b, k), NEW n \in 1..k
    PROVE  EndsBatch(a, n) <=> EndsBatch(b, n)
<1>1. n \in DOMAIN a /\ n \in DOMAIN b /\ a[n] = b[n]
  BY DEF Agree
<1>2. InBatch(a, n) <=> InBatch(b, n)
  BY AgreeFrames
<1> QED BY <1>1, <1>2, EndsMeaning DEF Ends

LEMMA AgreeExposed ==
    ASSUME NEW L, NEW a \in Seq(L), NEW b \in Seq(L), Sane(a), Sane(b),
           NEW k \in Nat, Agree(a, b, k)
    PROVE  \A n \in 0..k : Exposed(a)[n] = Exposed(b)[n]
<1> DEFINE T == {n \in 0..k : Exposed(a)[n] = Exposed(b)[n]}
<1>1. /\ Exposed(a) = [n \in 0..Len(a) |-> ExposedStep(a, Exposed(a), n)]
      /\ Exposed(b) = [n \in 0..Len(b) |-> ExposedStep(b, Exposed(b), n)]
      /\ k <= Len(a) /\ k <= Len(b) /\ Len(a) \in Nat /\ Len(b) \in Nat
  BY ExposedDef DEF Agree
<1>2. 0 \in T
  BY <1>1 DEF ExposedStep
<1>3. ASSUME NEW n \in 0..(k - 1), n \in T PROVE n + 1 \in T
  <2>1. a[n + 1] = b[n + 1] /\ (EndsBatch(a, n + 1) <=> EndsBatch(b, n + 1))
    BY AgreeEnds DEF Agree
  <2>2. ExposedStep(a, Exposed(a), n + 1) = ExposedStep(b, Exposed(b), n + 1)
    BY <1>3, <2>1 DEF ExposedStep
  <2>3. n + 1 \in 0..k /\ n + 1 \in 0..Len(a) /\ n + 1 \in 0..Len(b)
    BY <1>1
  <2>4. Exposed(a)[n + 1] = Exposed(b)[n + 1]
    BY <1>1, <2>2, <2>3
  <2> QED BY <2>3, <2>4
<1>4. T = 0..k
  <2> HIDE DEF T
  <2>1. T \subseteq 0..k BY DEF T
  <2> QED BY <1>2, <1>3, <2>1, Induction
<1> QED BY <1>4

-----------------------------------------------------------------------------
(* What is exposed as more lines are read *)

LEMMA ExposedNext ==
    ASSUME NEW R, NEW lines \in Seq(Lines(R))
    PROVE  /\ Exposed(lines)[0] = <<>>
           /\ \A n \in 0..(Len(lines) - 1) :
                 /\ n + 1 \in DOMAIN lines /\ n + 1 \in 0..Len(lines) /\ n \in 0..Len(lines)
                 /\ lines[n + 1].content \in Seq(R)
                 /\ ~EndsBatch(lines, n + 1) => Exposed(lines)[n + 1] = Exposed(lines)[n]
                 /\ EndsBatch(lines, n + 1) =>
                       Exposed(lines)[n + 1] = Append(Exposed(lines)[n], lines[n + 1].content)
<1>1. /\ Exposed(lines) = [n \in 0..Len(lines) |-> ExposedStep(lines, Exposed(lines), n)]
      /\ Len(lines) \in Nat /\ DOMAIN lines = 1..Len(lines)
      /\ \A n \in DOMAIN lines : lines[n] \in Lines(R)
  BY ExposedDef
<1>2. Exposed(lines)[0] = <<>>
  BY <1>1 DEF ExposedStep
<1>3. ASSUME NEW n \in 1..Len(lines)
      PROVE  /\ ~EndsBatch(lines, n) => Exposed(lines)[n] = Exposed(lines)[n - 1]
             /\ EndsBatch(lines, n) =>
                   Exposed(lines)[n] = Append(Exposed(lines)[n - 1], lines[n].content)
             /\ lines[n].content \in Seq(R)
  <2>1. n \in 0..Len(lines) /\ n # 0
    OBVIOUS
  <2>2. Exposed(lines)[n] = ExposedStep(lines, Exposed(lines), n)
    BY <1>1, <2>1
  <2> QED BY <1>1, <2>1, <2>2 DEF ExposedStep, Lines
<1>4. ASSUME NEW n \in 0..(Len(lines) - 1)
      PROVE  /\ n + 1 \in DOMAIN lines /\ n + 1 \in 0..Len(lines) /\ n \in 0..Len(lines)
             /\ lines[n + 1].content \in Seq(R)
             /\ ~EndsBatch(lines, n + 1) => Exposed(lines)[n + 1] = Exposed(lines)[n]
             /\ EndsBatch(lines, n + 1) =>
                   Exposed(lines)[n + 1] = Append(Exposed(lines)[n], lines[n + 1].content)
  <2>1. PICK m \in Nat : m = n + 1
    OBVIOUS
  <2>2. m \in 1..Len(lines) /\ m \in 0..Len(lines) /\ n \in 0..Len(lines) /\ m - 1 = n
    BY <1>1, <2>1
  <2>3. /\ ~EndsBatch(lines, m) => Exposed(lines)[m] = Exposed(lines)[n]
        /\ EndsBatch(lines, m) =>
              Exposed(lines)[m] = Append(Exposed(lines)[n], lines[m].content)
        /\ lines[m].content \in Seq(R)
    BY <1>3, <2>2
  <2> QED BY <1>1, <2>1, <2>2, <2>3
<1> QED BY <1>2, <1>4

LEMMA ExposedType ==
    ASSUME NEW R, NEW lines \in Seq(Lines(R))
    PROVE  \A n \in 0..Len(lines) : Exposed(lines)[n] \in Seq(Seq(R))
<1> DEFINE T == {n \in 0..Len(lines) : Exposed(lines)[n] \in Seq(Seq(R))}
<1>0. Len(lines) \in Nat
  OBVIOUS
<1>1. 0 \in T
  <2>1. Exposed(lines)[0] = <<>>
    BY ExposedNext
  <2>2. \A S : <<>> \in Seq(S)
    OBVIOUS
  <2>3. Exposed(lines)[0] \in Seq(Seq(R))
    BY <2>1, <2>2
  <2> QED BY <1>0, <2>3
<1>2. ASSUME NEW n \in 0..(Len(lines) - 1), n \in T PROVE n + 1 \in T
  <2>1. /\ n + 1 \in 0..Len(lines) /\ lines[n + 1].content \in Seq(R)
        /\ \/ Exposed(lines)[n + 1] = Exposed(lines)[n]
           \/ Exposed(lines)[n + 1] = Append(Exposed(lines)[n], lines[n + 1].content)
    BY ExposedNext
  <2>2. Exposed(lines)[n] \in Seq(Seq(R))
    BY <1>2
  <2>3. Exposed(lines)[n + 1] \in Seq(Seq(R))
    <3> DEFINE S == Seq(R)
    <3>1. \A s \in Seq(S) : \A e \in S : Append(s, e) \in Seq(S)
      OBVIOUS
    <3> HIDE DEF S
    <3>2. Exposed(lines)[n] \in Seq(S) /\ lines[n + 1].content \in S
      BY <2>1, <2>2 DEF S
    <3>3. Exposed(lines)[n + 1] \in Seq(S)
      BY <2>1, <3>1, <3>2
    <3> QED BY <3>3 DEF S
  <2> QED BY <2>1, <2>3
<1>3. T = 0..Len(lines)
  <2> HIDE DEF T
  <2>1. T \subseteq 0..Len(lines) BY DEF T
  <2> QED BY <1>0, <1>1, <1>2, <2>1, Induction
<1> QED BY <1>3

(* Lines that end no batch add nothing to what a load finds.                 *)
LEMMA ExposedQuiet ==
    ASSUME NEW R, NEW lines \in Seq(Lines(R)), NEW j \in 0..Len(lines), NEW k \in j..Len(lines),
           \A n \in (j + 1)..k : ~EndsBatch(lines, n)
    PROVE  Exposed(lines)[k] = Exposed(lines)[j]
<1> DEFINE T == {n \in 0..k : n >= j => Exposed(lines)[n] = Exposed(lines)[j]}
<1>0. k \in Nat /\ 0..k \subseteq 0..Len(lines)
  OBVIOUS
<1>1. 0 \in T
  OBVIOUS
<1>2. ASSUME NEW n \in 0..(k - 1), n \in T PROVE n + 1 \in T
  <2>1. n + 1 \in 0..k /\ n \in 0..(Len(lines) - 1)
    BY <1>0
  <2>2. CASE n + 1 <= j
    BY <2>1, <2>2
  <2>3. CASE n >= j
    <3>1. n + 1 \in (j + 1)..k
      BY <2>3
    <3> QED BY <1>2, <2>1, <2>3, <3>1, ExposedNext
  <2> QED BY <2>2, <2>3
<1>3. T = 0..k
  <2> HIDE DEF T
  <2>1. T \subseteq 0..k BY DEF T
  <2> QED BY <1>0, <1>1, <1>2, <2>1, Induction
<1>4. k \in T /\ k >= j
  BY <1>0, <1>3
<1> QED BY <1>4

Begins(s, t) == Len(s) <= Len(t) /\ s = SubSeq(t, 1, Len(s))

LEMMA BeginsAppend ==
    ASSUME NEW S, NEW s \in Seq(S), NEW t \in Seq(S), NEW e \in S, Begins(s, t)
    PROVE  Begins(s, Append(t, e))
<1> QED BY DEF Begins

LEMMA BeginsItself ==
    ASSUME NEW S, NEW s \in Seq(S)
    PROVE  Begins(s, s)
<1> QED BY DEF Begins

(* What a load has found stays, whatever it reads then.                      *)
LEMMA ExposedGrows ==
    ASSUME NEW R, NEW lines \in Seq(Lines(R)), NEW j \in 0..Len(lines), NEW k \in j..Len(lines)
    PROVE  Begins(Exposed(lines)[j], Exposed(lines)[k])
<1> DEFINE T == {n \in 0..k : n >= j => Begins(Exposed(lines)[j], Exposed(lines)[n])}
<1>0. k \in Nat /\ 0..k \subseteq 0..Len(lines)
  OBVIOUS
<1>1. ASSUME NEW n \in 0..Len(lines) PROVE Exposed(lines)[n] \in Seq(Seq(R))
  BY ExposedType
<1>2. j \in T
  BY <1>1, BeginsItself
<1>3. 0 \in T
  BY <1>2
<1>4. ASSUME NEW n \in 0..(k - 1), n \in T PROVE n + 1 \in T
  <2>1. n + 1 \in 0..k /\ n \in 0..(Len(lines) - 1) /\ n + 1 \in 0..Len(lines)
    BY <1>0
  <2>2. CASE n + 1 < j
    BY <2>1, <2>2
  <2>3. CASE n + 1 = j
    BY <1>2, <2>3
  <2>4. CASE n >= j
    <3>1. Begins(Exposed(lines)[j], Exposed(lines)[n])
      BY <1>4, <2>4
    <3>2. CASE EndsBatch(lines, n + 1)
      <4>1. /\ Exposed(lines)[n + 1] = Append(Exposed(lines)[n], lines[n + 1].content)
            /\ lines[n + 1].content \in Seq(R)
            /\ Exposed(lines)[n] \in Seq(Seq(R)) /\ Exposed(lines)[j] \in Seq(Seq(R))
        BY <1>1, <2>1, <3>2, ExposedNext
      <4>2. Begins(Exposed(lines)[j], Exposed(lines)[n + 1])
        BY <3>1, <4>1, BeginsAppend
      <4> QED BY <2>1, <4>2
    <3>3. CASE ~EndsBatch(lines, n + 1)
      BY <2>1, <3>1, <3>3, ExposedNext
    <3> QED BY <3>2, <3>3
  <2> QED BY <2>2, <2>3, <2>4
<1>5. T = 0..k
  <2> HIDE DEF T
  <2>1. T \subseteq 0..k BY DEF T
  <2> QED BY <1>0, <1>3, <1>4, <2>1, Induction
<1>6. k \in T /\ k >= j
  BY <1>0, <1>5
<1> QED BY <1>6

-----------------------------------------------------------------------------
(* Cutting and extending a file *)

LEMMA PrefixSane ==
    ASSUME NEW R, NEW lines \in Seq(Lines(R)), Sane(lines), NEW k \in 0..Len(lines)
    PROVE  /\ SubSeq(lines, 1, k) \in Seq(Lines(R))
           /\ Len(SubSeq(lines, 1, k)) = k
           /\ Agree(SubSeq(lines, 1, k), lines, k)
           /\ Sane(SubSeq(lines, 1, k))
           /\ Visible(SubSeq(lines, 1, k)) = Exposed(lines)[k]
<1> DEFINE kept == SubSeq(lines, 1, k)
<1>1. /\ kept \in Seq(Lines(R)) /\ Len(kept) = k /\ DOMAIN kept = 1..k /\ k \in Nat
      /\ \A n \in 1..k : n \in DOMAIN lines /\ kept[n] = lines[n]
      /\ DOMAIN lines = 1..Len(lines) /\ Len(lines) \in Nat
  OBVIOUS
<1> HIDE DEF kept
<1>2. Agree(kept, lines, k)
  BY <1>1 DEF Agree
<1>3. ASSUME NEW n \in 1..k
      PROVE  (InBatch(kept, n) <=> InBatch(lines, n)) /\ (Fits(kept, n) <=> Fits(lines, n))
  <2>1. n \in 1..(k + 1)
    BY <1>1
  <2> QED BY <1>1, <1>2, <2>1, AgreeFrames, AgreeFits
<1>4. Sane(kept)
  BY <1>1, <1>3 DEF Sane
<1>5. Exposed(kept)[k] = Exposed(lines)[k]
  BY <1>1, <1>2, <1>4, AgreeExposed
<1> QED BY <1>1, <1>2, <1>4, <1>5 DEF kept, Visible

(* A torn line behind whole ones is nothing to a load.                       *)
LEMMA TornSane ==
    ASSUME NEW R, NEW lines \in Seq(Lines(R)), Sane(lines),
           \A n \in DOMAIN lines : lines[n].type # "torn"
    PROVE  /\ Append(lines, Torn) \in Seq(Lines(R))
           /\ Len(Append(lines, Torn)) = Len(lines) + 1
           /\ Agree(Append(lines, Torn), lines, Len(lines))
           /\ Sane(Append(lines, Torn))
           /\ Visible(Append(lines, Torn)) = Visible(lines)
<1> DEFINE more == Append(lines, Torn)
           k == Len(lines)
<1>0. Torn \in Lines(R) /\ Torn.type = "torn"
  BY DEF Torn, Lines
<1>1. /\ more \in Seq(Lines(R)) /\ Len(more) = k + 1 /\ DOMAIN more = 1..(k + 1) /\ k \in Nat
      /\ \A n \in 1..k : n \in DOMAIN lines /\ more[n] = lines[n]
      /\ more[k + 1] = Torn /\ DOMAIN lines = 1..k
  BY <1>0
<1> HIDE DEF more
<1>2. Agree(more, lines, k)
  BY <1>1 DEF Agree, k
<1>3. ASSUME NEW n \in 1..k
      PROVE  (InBatch(more, n) <=> InBatch(lines, n)) /\ (Fits(more, n) <=> Fits(lines, n))
  <2>1. n \in 1..(k + 1)
    BY <1>1
  <2> QED BY <1>1, <1>2, <2>1, AgreeFrames, AgreeFits DEF k
<1>4. Sane(more)
  BY <1>0, <1>1, <1>3 DEF Sane, k
<1>5. Exposed(more)[k] = Exposed(lines)[k]
  BY <1>1, <1>2, <1>4, AgreeExposed DEF k
<1>6. ~EndsBatch(more, k + 1)
  BY <1>0, <1>1 DEF EndsBatch
<1>7. Exposed(more)[k + 1] = Exposed(more)[k]
  <2>1. k \in 0..(Len(more) - 1)
    BY <1>1
  <2> QED BY <1>1, <1>6, <2>1, ExposedNext
<1> QED BY <1>1, <1>2, <1>4, <1>5, <1>7 DEF more, Visible, k

(* What is left of a file that is cut behind its first lines.                *)
Cuts(lines, from) ==
    {SubSeq(lines, 1, k) : k \in from..Len(lines)}
        \cup {Append(SubSeq(lines, 1, k), Torn) : k \in from..(Len(lines) - 1)}

LEMMA CutSane ==
    ASSUME NEW R, NEW lines \in Seq(Lines(R)), Sane(lines), NEW from \in 0..Len(lines),
           NEW cut \in Cuts(lines, from)
    PROVE  /\ cut \in Seq(Lines(R)) /\ Sane(cut)
           /\ \E k \in from..Len(lines) :
                 /\ k <= Len(cut) /\ Agree(cut, lines, k)
                 /\ Visible(cut) = Exposed(lines)[k]
<1>1. CASE cut \in {SubSeq(lines, 1, k) : k \in from..Len(lines)}
  <2>1. PICK k \in from..Len(lines) : cut = SubSeq(lines, 1, k)
    BY <1>1
  <2>2. k \in 0..Len(lines)
    OBVIOUS
  <2> QED BY <2>1, <2>2, PrefixSane
<1>2. CASE cut \in {Append(SubSeq(lines, 1, k), Torn) : k \in from..(Len(lines) - 1)}
  <2>1. PICK k \in from..(Len(lines) - 1) : cut = Append(SubSeq(lines, 1, k), Torn)
    BY <1>2
  <2>2. k \in 0..Len(lines) /\ k \in from..Len(lines) /\ k < Len(lines) /\ k \in Nat
    OBVIOUS
  <2> DEFINE kept == SubSeq(lines, 1, k)
  <2>3. /\ kept \in Seq(Lines(R)) /\ Len(kept) = k /\ Agree(kept, lines, k) /\ Sane(kept)
        /\ Visible(kept) = Exposed(lines)[k]
    BY <2>2, PrefixSane
  <2> HIDE DEF kept
  <2>4. ASSUME NEW n \in DOMAIN kept PROVE kept[n].type # "torn"
    BY <2>2, <2>3 DEF Agree, Sane
  <2>5. /\ Append(kept, Torn) \in Seq(Lines(R)) /\ Len(Append(kept, Torn)) = k + 1
        /\ Agree(Append(kept, Torn), kept, k) /\ Sane(Append(kept, Torn))
        /\ Visible(Append(kept, Torn)) = Visible(kept)
    BY <2>3, <2>4, TornSane
  <2>6. cut = Append(kept, Torn)
    BY <2>1 DEF kept
  <2>7. Agree(cut, lines, k) /\ k <= Len(cut)
    BY <2>2, <2>3, <2>5, <2>6 DEF Agree
  <2> QED BY <2>2, <2>3, <2>5, <2>6, <2>7
<1> QED BY <1>1, <1>2 DEF Cuts

LEMMA PartsAreCuts ==
    ASSUME NEW R, NEW a \in Seq(Lines(R)), NEW b \in Seq(Lines(R)), NEW part \in Parts(b)
    PROVE  a \o part \in Cuts(a \o b, Len(a))
<1> DEFINE L == Lines(R)
<1>0. Torn \in L
  BY DEF Torn, Lines
<1> HIDE DEF L
<1>1. ASSUME NEW n \in 0..Len(b)
      PROVE  /\ SubSeq(b, 1, n) \in Seq(L)
             /\ a \o SubSeq(b, 1, n) = SubSeq(a \o b, 1, Len(a) + n)
             /\ Len(a) + n \in Len(a)..Len(a \o b)
             /\ n < Len(b) => Len(a) + n \in Len(a)..(Len(a \o b) - 1)
  <2>1. a \in Seq(L) /\ b \in Seq(L)
    BY DEF L
  <2>2. /\ SubSeq(b, 1, n) \in Seq(L) /\ Len(SubSeq(b, 1, n)) = n
        /\ \A i \in 1..n : SubSeq(b, 1, n)[i] = b[i]
        /\ Len(a) \in Nat /\ Len(b) \in Nat
    BY <2>1
  <2>3. /\ a \o b \in Seq(L) /\ Len(a \o b) = Len(a) + Len(b)
        /\ \A i \in 1..(Len(a) + Len(b)) :
              (a \o b)[i] = IF i <= Len(a) THEN a[i] ELSE b[i - Len(a)]
    BY <2>1, ConcatProperties
  <2>4. /\ a \o SubSeq(b, 1, n) \in Seq(L) /\ Len(a \o SubSeq(b, 1, n)) = Len(a) + n
        /\ \A i \in 1..(Len(a) + n) :
              (a \o SubSeq(b, 1, n))[i] = IF i <= Len(a) THEN a[i] ELSE SubSeq(b, 1, n)[i - Len(a)]
    BY <2>1, <2>2, ConcatProperties
  <2>5. /\ SubSeq(a \o b, 1, Len(a) + n) \in Seq(L)
        /\ Len(SubSeq(a \o b, 1, Len(a) + n)) = Len(a) + n
        /\ \A i \in 1..(Len(a) + n) : SubSeq(a \o b, 1, Len(a) + n)[i] = (a \o b)[i]
    BY <2>2, <2>3
  <2>6. ASSUME NEW i \in 1..(Len(a) + n)
        PROVE  (a \o SubSeq(b, 1, n))[i] = SubSeq(a \o b, 1, Len(a) + n)[i]
    <3>1. i > Len(a) => i - Len(a) \in 1..n
      BY <2>2
    <3>2. i \in 1..(Len(a) + Len(b))
      BY <2>2
    <3> QED BY <2>2, <2>3, <2>4, <2>5, <3>1, <3>2
  <2>7. a \o SubSeq(b, 1, n) = SubSeq(a \o b, 1, Len(a) + n)
    BY <2>4, <2>5, <2>6, SeqEqual
  <2> QED BY <2>2, <2>3, <2>7
<1>2. CASE part \in {SubSeq(b, 1, n) : n \in 0..Len(b)}
  BY <1>1, <1>2 DEF Cuts
<1>3. CASE part \in {Append(SubSeq(b, 1, n), Torn) : n \in 0..(Len(b) - 1)}
  <2>1. PICK n \in 0..(Len(b) - 1) : part = Append(SubSeq(b, 1, n), Torn)
    BY <1>3
  <2>2. n \in 0..Len(b) /\ n < Len(b)
    OBVIOUS
  <2>3. a \in Seq(L)
    BY DEF L
  <2>4. a \o Append(SubSeq(b, 1, n), Torn) = Append(a \o SubSeq(b, 1, n), Torn)
    BY <1>0, <1>1, <2>2, <2>3, AppendIsConcat, ConcatAssociative
  <2> QED BY <1>1, <2>1, <2>2, <2>4 DEF Cuts
<1> QED BY <1>2, <1>3 DEF Parts

LEMMA RemainsAreCuts ==
    ASSUME NEW R, NEW lines \in Seq(Lines(R)), NEW n \in 0..Len(lines),
           NEW left \in Remains(lines, n)
    PROVE  left \in Cuts(lines, n)
<1> DEFINE L == Lines(R)
           a == SubSeq(lines, 1, n)
           b == SubSeq(lines, n + 1, Len(lines))
<1>1. PICK part \in Parts(b) : left = a \o part
  BY DEF Remains
<1>2. a \in Seq(L) /\ b \in Seq(L) /\ Len(a) = n
  <2> HIDE DEF L
  <2>1. lines \in Seq(L) BY DEF L
  <2> QED BY <2>1
<1>3. a \o b = lines
  <2> HIDE DEF L
  <2>1. lines \in Seq(L) /\ Len(lines) \in Nat
    BY DEF L
  <2>2. 1 \in 1..(Len(lines) + 1) /\ n \in (1 - 1)..Len(lines) /\ Len(lines) \in n..Len(lines)
    BY <2>1
  <2>3. a \o b = SubSeq(lines, 1, Len(lines))
    BY <2>1, <2>2, ConcatAdjacentSubSeq
  <2> QED BY <2>1, <2>3, SubSeqFull
<1> HIDE DEF a, b
<1> QED BY <1>1, <1>2, <1>3, PartsAreCuts

-----------------------------------------------------------------------------
(* Where a batch ends *)

LEMMA SafeIsClean ==
    ASSUME NEW R, NEW lines \in Seq(Lines(R)), Sane(lines)
    PROVE  /\ SafeLength(lines) \in 0..Len(lines)
           /\ Clean(SubSeq(lines, 1, SafeLength(lines)))
           /\ Visible(SubSeq(lines, 1, SafeLength(lines))) = Visible(lines)
<1> DEFINE ends == {n \in DOMAIN lines : EndsBatch(lines, n)} \cup {0}
           safe == SafeLength(lines)
           kept == SubSeq(lines, 1, safe)
<1>1. Len(lines) \in Nat /\ DOMAIN lines = 1..Len(lines)
  OBVIOUS
<1>2. safe \in ends /\ \A n \in ends : n <= safe
  <2>1. ends \subseteq 0..Len(lines) /\ ends # {}
    BY <1>1
  <2>2. safe = Max(ends)
    BY DEF SafeLength
  <2> HIDE DEF ends, safe
  <2> QED BY <1>1, <2>1, <2>2, Greatest
<1> HIDE DEF safe
<1>3. safe \in 0..Len(lines) /\ safe \in Nat
  BY <1>1, <1>2
<1>4. /\ kept \in Seq(Lines(R)) /\ Len(kept) = safe /\ Agree(kept, lines, safe) /\ Sane(kept)
      /\ Visible(kept) = Exposed(lines)[safe]
  BY <1>3, PrefixSane
<1> HIDE DEF kept
<1>5. Exposed(lines)[Len(lines)] = Exposed(lines)[safe]
  <2>1. ASSUME NEW n \in (safe + 1)..Len(lines) PROVE ~EndsBatch(lines, n)
    BY <1>1, <1>2, <1>3
  <2>2. Len(lines) \in safe..Len(lines)
    BY <1>1, <1>3
  <2> QED BY <1>3, <2>1, <2>2, ExposedQuiet
<1>6. CASE safe = 0
  <2>1. OpenFrames(kept, Len(kept) + 1) = {} /\ DOMAIN kept = {}
    BY <1>4, <1>6 DEF OpenFrames
  <2> QED BY <1>3, <1>4, <1>5, <2>1 DEF Clean, InBatch, Visible, safe, kept
<1>7. CASE safe # 0
  <2>1. safe \in DOMAIN lines /\ Ends(lines, safe) /\ kept[safe] = lines[safe] /\ safe \in 1..safe
    BY <1>1, <1>2, <1>3, <1>4, <1>7, EndsMeaning DEF Agree
  <2>2. ASSUME NEW f \in OpenFrames(kept, safe + 1) PROVE FALSE
    <3>1. /\ f \in 1..safe /\ kept[f].type = "begin"
          /\ \A m \in (f + 1)..safe : kept[m].type # "commit"
      BY <1>3 DEF OpenFrames
    <3>2. f # safe /\ kept[safe].type # "commit"
      BY <1>3, <2>1, <3>1 DEF Ends
    <3>3. f \in 1..(safe - 1) /\ \A m \in (f + 1)..(safe - 1) : m \in (f + 1)..safe
      BY <1>3, <3>1, <3>2
    <3>4. f \in OpenFrames(kept, safe)
      BY <3>1, <3>3 DEF OpenFrames
    <3>5. safe \in 1..(safe + 1)
      BY <1>3, <1>7
    <3>6. f \in OpenFrames(lines, safe)
      BY <1>3, <1>4, <3>4, <3>5, AgreeFrames
    <3> QED BY <2>1, <3>2, <3>6 DEF Ends, InBatch
  <2>3. ASSUME NEW n \in DOMAIN kept PROVE kept[n].type # "torn"
    <3>1. n \in 1..safe /\ kept[n] = lines[n] /\ n \in DOMAIN lines
      BY <1>1, <1>3, <1>4 DEF Agree
    <3>2. lines[n].type = "torn" => n = Len(lines) /\ n = safe
      BY <1>1, <1>3, <3>1 DEF Sane
    <3> QED BY <2>1, <3>1, <3>2 DEF Ends
  <2>4. OpenFrames(kept, Len(kept) + 1) = {}
    BY <1>4, <2>2
  <2> QED BY <1>3, <1>4, <1>5, <2>3, <2>4 DEF Clean, InBatch, Visible, safe, kept
<1> QED BY <1>6, <1>7

-----------------------------------------------------------------------------
(* Writing a batch *)

(* The lines append and append_many make of their records.                   *)
Carries(lines, records) ==
    \/ lines = <<Line(records[1])>> /\ Len(records) = 1
    \/ lines = Framed(records) /\ records # <<>>

LEMMA Concat ==
    ASSUME NEW S, NEW a \in Seq(S), NEW b \in Seq(S), NEW m \in Nat, NEW n \in Nat,
           Len(a) = m, Len(b) = n
    PROVE  /\ a \o b \in Seq(S) /\ Len(a \o b) = m + n
           /\ \A i \in 1..m : (a \o b)[i] = a[i]
           /\ \A i \in 1..n : (a \o b)[m + i] = b[i]
<1>1. /\ a \o b \in Seq(S) /\ Len(a \o b) = m + n
      /\ \A i \in 1..(m + n) : (a \o b)[i] = IF i <= m THEN a[i] ELSE b[i - m]
  BY ConcatProperties
<1>2. ASSUME NEW i \in 1..m PROVE (a \o b)[i] = a[i]
  BY <1>1
<1>3. ASSUME NEW i \in 1..n PROVE (a \o b)[m + i] = b[i]
  <2>1. PICK j \in Nat : j = m + i
    OBVIOUS
  <2>2. j \in 1..(m + n) /\ ~(j <= m) /\ j - m = i
    BY <2>1
  <2> QED BY <1>1, <2>1, <2>2
<1> QED BY <1>1, <1>2, <1>3

LEMMA ConcatLines ==
    ASSUME NEW S, NEW a \in Seq(S), NEW b \in Seq(S)
    PROVE  /\ a \o b \in Seq(S) /\ Len(a \o b) = Len(a) + Len(b)
           /\ \A i \in 1..Len(a) : (a \o b)[i] = a[i]
           /\ \A i \in 1..Len(b) : (a \o b)[Len(a) + i] = b[i]
<1>1. Len(a) \in Nat /\ Len(b) \in Nat
  OBVIOUS
<1> QED BY <1>1, Concat

LEMMA FramedLines ==
    ASSUME NEW R, NEW records \in Seq(R)
    PROVE  /\ Framed(records) \in Seq(Lines(R))
           /\ Len(Framed(records)) = Len(records) + 2
           /\ Framed(records)[1] = Frame("begin", records)
           /\ Framed(records)[Len(records) + 2] = Frame("commit", records)
           /\ \A n \in 1..Len(records) : Framed(records)[n + 1] = Line(records[n])
<1> DEFINE L == Lines(R)
           inner == [n \in DOMAIN records |-> Line(records[n])]
           begin == <<Frame("begin", records)>>
           commit == <<Frame("commit", records)>>
           len == Len(records)
<1>1. len \in Nat /\ DOMAIN records = 1..len /\ \A n \in 1..len : records[n] \in R
  OBVIOUS
<1>2. /\ Frame("begin", records) \in L /\ Frame("commit", records) \in L
      /\ \A n \in 1..len : Line(records[n]) \in L
  <2>1. \A r \in R : <<r>> \in Seq(R)
    OBVIOUS
  <2> QED BY <1>1, <2>1 DEF Frame, Line, Lines
<1> HIDE DEF L, len
<1>3. inner \in Seq(L) /\ Len(inner) = len /\ \A n \in 1..len : inner[n] = Line(records[n])
  BY <1>1, <1>2
<1>4. begin \in Seq(L) /\ Len(begin) = 1 /\ begin[1] = Frame("begin", records)
  BY <1>2
<1>5. commit \in Seq(L) /\ Len(commit) = 1 /\ commit[1] = Frame("commit", records)
  BY <1>2
<1> HIDE DEF inner, begin, commit
<1>6. /\ begin \o inner \in Seq(L) /\ Len(begin \o inner) = 1 + len
      /\ (begin \o inner)[1] = begin[1]
      /\ \A i \in 1..len : (begin \o inner)[1 + i] = inner[i]
  <2>1. begin \in Seq(L) /\ inner \in Seq(L) /\ Len(begin) \in Nat /\ Len(inner) \in Nat
    BY <1>3, <1>4
  <2>2. /\ begin \o inner \in Seq(L) /\ Len(begin \o inner) = Len(begin) + Len(inner)
        /\ \A i \in 1..Len(begin) : (begin \o inner)[i] = begin[i]
        /\ \A i \in 1..Len(inner) : (begin \o inner)[Len(begin) + i] = inner[i]
    BY <2>1, ConcatLines
  <2>3. Len(begin) = 1 /\ Len(inner) = len /\ 1 \in 1..1
    BY <1>3, <1>4
  <2> QED BY <2>2, <2>3, Zenon
<1>7. /\ (begin \o inner) \o commit \in Seq(L) /\ Len((begin \o inner) \o commit) = (1 + len) + 1
      /\ \A i \in 1..(1 + len) : ((begin \o inner) \o commit)[i] = (begin \o inner)[i]
      /\ \A i \in 1..1 : ((begin \o inner) \o commit)[(1 + len) + i] = commit[i]
  <2> DEFINE front == begin \o inner
  <2> HIDE DEF front
  <2>1. front \in Seq(L) /\ commit \in Seq(L)
    BY <1>5, <1>6 DEF front
  <2>2. Len(front) = 1 + len /\ Len(commit) = 1
    BY <1>5, <1>6 DEF front
  <2>3. /\ front \o commit \in Seq(L) /\ Len(front \o commit) = Len(front) + Len(commit)
        /\ \A i \in 1..Len(front) : (front \o commit)[i] = front[i]
        /\ \A i \in 1..Len(commit) : (front \o commit)[Len(front) + i] = commit[i]
    BY <2>1, ConcatLines
  <2>4. /\ front \o commit \in Seq(L) /\ Len(front \o commit) = (1 + len) + 1
        /\ \A i \in 1..(1 + len) : (front \o commit)[i] = front[i]
        /\ \A i \in 1..1 : (front \o commit)[(1 + len) + i] = commit[i]
    BY <2>2, <2>3, Zenon
  <2> QED BY <2>4 DEF front
<1>8. Framed(records) = (begin \o inner) \o commit
  BY DEF Framed, begin, inner, commit
<1> DEFINE whole == (begin \o inner) \o commit
<1>9. whole[1] = Frame("begin", records)
  BY <1>1, <1>4, <1>6, <1>7
<1>10. whole[len + 2] = Frame("commit", records)
  <2>1. 1 \in 1..1 /\ (1 + len) + 1 = len + 2
    BY <1>1
  <2> QED BY <1>5, <1>7, <2>1
<1>11. ASSUME NEW n \in 1..len PROVE whole[n + 1] = Line(records[n])
  <2>1. n + 1 \in 1..(1 + len) /\ 1 + n = n + 1
    BY <1>1
  <2> QED BY <1>3, <1>6, <1>7, <2>1
<1>12. (1 + len) + 1 = len + 2
  BY <1>1
<1> QED BY <1>7, <1>8, <1>9, <1>10, <1>11, <1>12 DEF L, len

(* Behind whole lines a batch is exposed by its last line, and no sooner.    *)
LEMMA BatchIsWhole ==
    ASSUME NEW R, NEW lines \in Seq(Lines(R)), Clean(lines),
           NEW records \in Seq(R), NEW more, Carries(more, records)
    PROVE  LET whole == lines \o more
           IN  /\ more \in Seq(Lines(R)) /\ more # <<>>
               /\ whole \in Seq(Lines(R)) /\ Len(whole) = Len(lines) + Len(more)
               /\ Agree(whole, lines, Len(lines)) /\ Sane(whole)
               /\ \A k \in Len(lines)..(Len(whole) - 1) : Exposed(whole)[k] = Visible(lines)
               /\ Visible(whole) = Append(Visible(lines), records)
               /\ SubSeq(whole, 1, Len(lines)) = lines
<1> DEFINE whole == lines \o more
           from == Len(lines)
           len == Len(records)
           L == Lines(R)
<1>1. /\ from \in Nat /\ DOMAIN lines = 1..from /\ len \in Nat /\ DOMAIN records = 1..len
      /\ lines \in Seq(L)
  OBVIOUS
<1>2. /\ more \in Seq(L) /\ Len(more) \in Nat /\ Len(more) >= 1
      /\ \/ Len(more) = 1 /\ more[1].type = "record" /\ more[1].content = records
         \/ /\ Len(more) = len + 2 /\ len # 0
            /\ more[1].type = "begin" /\ more[1].content = records
            /\ more[len + 2].type = "commit" /\ more[len + 2].content = records
            /\ \A n \in 1..len : /\ more[n + 1].type = "record"
                                 /\ more[n + 1].content = <<records[n]>>
  <2>1. CASE more = <<Line(records[1])>> /\ len = 1
    <3>0. 1 \in 1..Len(records) /\ Len(records) = 1
      BY <2>1
    <3>1. records[1] \in R /\ records = <<records[1]>>
      <4>1. records[1] \in R /\ Len(records) = 1
        BY <3>0, ElementOfSeq
      <4>2. <<records[1]>> \in Seq(R) /\ Len(<<records[1]>>) = 1 /\ <<records[1]>>[1] = records[1]
        BY <4>1
      <4> QED BY <4>1, <4>2, SeqEqual
    <3>2. Line(records[1]) \in L
      BY <3>1 DEF Line, Lines
    <3> HIDE DEF L
    <3>3. more \in Seq(L) /\ Len(more) = 1 /\ more[1] = Line(records[1])
      BY <2>1, <3>2
    <3> QED BY <3>1, <3>3 DEF Line
  <2>2. CASE more = Framed(records) /\ records # <<>>
    <3>1. len # 0
      BY <2>2
    <3>2. more \in Seq(L) /\ Len(more) = len + 2
      BY <2>2, FramedLines
    <3>3. /\ more[1].type = "begin" /\ more[1].content = records
          /\ more[len + 2].type = "commit" /\ more[len + 2].content = records
          /\ \A n \in 1..len : /\ more[n + 1].type = "record"
                               /\ more[n + 1].content = <<records[n]>>
      <4>1. /\ more[1] = Frame("begin", records)
            /\ more[len + 2] = Frame("commit", records)
            /\ \A n \in 1..len : more[n + 1] = Line(records[n])
        BY <2>2, FramedLines
      <4>2. /\ more[1].type = "begin" /\ more[1].content = records
            /\ more[len + 2].type = "commit" /\ more[len + 2].content = records
        <5> HIDE DEF len
        <5> QED BY <4>1 DEF Frame
      <4>3. ASSUME NEW n \in 1..len
            PROVE  more[n + 1].type = "record" /\ more[n + 1].content = <<records[n]>>
        <5>1. more[n + 1] = Line(records[n])
          BY <4>1
        <5> HIDE DEF len
        <5> QED BY <5>1 DEF Line
      <4> QED BY <4>2, <4>3
    <3>4. Len(more) \in Nat /\ Len(more) >= 1
      BY <1>1, <3>2
    <3> QED BY <3>1, <3>2, <3>3, <3>4
  <2> QED BY <2>1, <2>2 DEF Carries
<1> HIDE DEF L
<1>3. /\ whole \in Seq(L) /\ Len(whole) = from + Len(more)
      /\ DOMAIN whole = 1..(from + Len(more))
      /\ \A i \in 1..from : whole[i] = lines[i]
      /\ \A i \in 1..Len(more) : whole[from + i] = more[i]
  <2>1. /\ whole \in Seq(L) /\ Len(whole) = from + Len(more)
        /\ \A i \in 1..from : whole[i] = lines[i]
        /\ \A i \in 1..Len(more) : whole[from + i] = more[i]
    BY <1>1, <1>2, Concat
  <2> QED BY <2>1
<1>4. SubSeq(whole, 1, from) = lines
  <2>1. /\ SubSeq(whole, 1, from) \in Seq(L) /\ Len(SubSeq(whole, 1, from)) = from
        /\ \A i \in 1..from : SubSeq(whole, 1, from)[i] = whole[i]
    <3> HIDE DEF whole, from
    <3>1. from <= Len(whole) BY <1>1, <1>2, <1>3
    <3> QED BY <1>1, <1>3, <3>1
  <2> QED BY <1>1, <1>3, <2>1, SeqEqual
<1> HIDE DEF whole
<1>5. Agree(whole, lines, from)
  BY <1>1, <1>2, <1>3 DEF Agree
<1>6. ASSUME NEW n \in 1..from
      PROVE  /\ InBatch(whole, n) <=> InBatch(lines, n)
             /\ Fits(whole, n) <=> Fits(lines, n)
  <2>1. n \in 1..(from + 1)
    BY <1>1
  <2> QED BY <1>1, <1>3, <1>5, <2>1, AgreeFrames, AgreeFits
<1>7. ~InBatch(whole, from + 1)
  <2>1. from + 1 \in 1..(from + 1)
    BY <1>1
  <2> QED BY <1>1, <1>3, <1>5, <2>1, AgreeFrames DEF Clean
<1>8. /\ Sane(whole) /\ EndsBatch(whole, Len(whole)) /\ whole[Len(whole)].content = records
      /\ \A n \in (from + 1)..(Len(whole) - 1) : ~EndsBatch(whole, n)
  <2>1. CASE Len(more) = 1 /\ more[1].type = "record" /\ more[1].content = records
    <3>1. Len(whole) = from + 1 /\ whole[from + 1] = more[1]
      BY <1>2, <1>3, <2>1
    <3>2. Sane(whole)
      BY <1>1, <1>3, <1>6, <2>1, <3>1 DEF Sane, Clean
    <3>3. Ends(whole, from + 1) /\ from + 1 \in DOMAIN whole
      BY <1>1, <1>3, <1>7, <2>1, <3>1 DEF Ends
    <3>4. EndsBatch(whole, from + 1)
      BY <1>3, <3>2, <3>3, EndsMeaning
    <3> QED BY <1>1, <2>1, <3>1, <3>2, <3>4
  <2>2. CASE /\ Len(more) = len + 2 /\ len # 0
             /\ more[1].type = "begin" /\ more[1].content = records
             /\ more[len + 2].type = "commit" /\ more[len + 2].content = records
             /\ \A n \in 1..len : /\ more[n + 1].type = "record"
                                  /\ more[n + 1].content = <<records[n]>>
    <3>1. /\ Len(whole) = from + len + 2
          /\ whole[from + 1].type = "begin" /\ whole[from + 1].content = records
          /\ whole[from + len + 2].type = "commit" /\ whole[from + len + 2].content = records
      <4>1. 1 \in 1..Len(more) /\ len + 2 \in 1..Len(more) /\ from + (len + 2) = from + len + 2
        BY <1>1, <2>2
      <4> QED BY <1>3, <2>2, <4>1
    <3>2. ASSUME NEW n \in 1..len
          PROVE  /\ whole[from + 1 + n].type = "record"
                 /\ whole[from + 1 + n].content = <<records[n]>>
      <4>1. n + 1 \in 1..Len(more) /\ from + (n + 1) = from + 1 + n
        BY <1>1, <2>2
      <4> QED BY <1>3, <2>2, <4>1
    <3>3. ASSUME NEW m \in (from + 2)..(from + len + 1) PROVE whole[m].type = "record"
      <4>1. m - (from + 1) \in 1..len /\ from + 1 + (m - (from + 1)) = m
        BY <1>1
      <4> QED BY <3>2, <4>1
    <3>4. ASSUME NEW n \in (from + 2)..(from + len + 2) PROVE from + 1 \in OpenFrames(whole, n)
      <4>1. from + 1 \in 1..(n - 1)
        BY <1>1
      <4>2. ASSUME NEW m \in (from + 1 + 1)..(n - 1) PROVE whole[m].type # "commit"
        <5>1. m \in (from + 2)..(from + len + 1)
          BY <1>1
        <5> QED BY <3>3, <5>1
      <4> QED BY <3>1, <4>1, <4>2 DEF OpenFrames
    <3>5. Fits(whole, from + len + 2)
      <4>1. from + 1 \in OpenFrames(whole, from + len + 2)
        BY <1>1, <3>4
      <4>2. (from + len + 2) - (from + 1) - 1 = len
        BY <1>1
      <4>3. PICK n \in Nat : n = from + len + 2
        BY <1>1
      <4>4. PICK f \in Nat : f = from + 1
        BY <1>1
      <4>5. f \in OpenFrames(whole, n) /\ n - f - 1 = len
        BY <4>1, <4>2, <4>3, <4>4
      <4>6. whole[f].content = records /\ whole[n].content = records
        BY <3>1, <4>3, <4>4
      <4>7. \A m \in 1..len : whole[f + m].content = <<records[m]>>
        BY <3>2, <4>4
      <4>8. Fits(whole, n)
        BY <4>5, <4>6, <4>7 DEF Fits
      <4> QED BY <4>3, <4>8
    <3>6. ASSUME NEW n \in DOMAIN whole
          PROVE  \/ n \in 1..from /\ whole[n] = lines[n]
                 \/ n = from + 1
                 \/ n \in (from + 2)..(from + len + 1)
                 \/ n = from + len + 2
      <4>1. n \in 1..(from + len + 2)
        BY <1>1, <1>3, <3>1
      <4> QED BY <1>1, <1>3, <4>1
    <3>7. Sane(whole)
      BY <1>1, <1>6, <1>7, <3>1, <3>3, <3>5, <3>6 DEF Sane, Clean
    <3>8. ASSUME NEW n \in (from + 1)..(Len(whole) - 1) PROVE ~EndsBatch(whole, n)
      <4>1. n \in DOMAIN whole /\ (n = from + 1 \/ n \in (from + 2)..(from + len + 1))
        BY <1>1, <1>3, <3>1
      <4>2. CASE n = from + 1
        BY <1>3, <3>1, <3>7, <4>1, <4>2, EndsMeaning DEF Ends
      <4>3. CASE n \in (from + 2)..(from + len + 1)
        <5>1. n \in (from + 2)..(from + len + 2)
          BY <1>1, <4>3
        <5>2. InBatch(whole, n) /\ whole[n].type = "record"
          BY <3>3, <3>4, <4>3, <5>1 DEF InBatch
        <5> QED BY <1>3, <3>7, <4>1, <5>2, EndsMeaning DEF Ends
      <4> QED BY <4>1, <4>2, <4>3
    <3>9. EndsBatch(whole, Len(whole))
      <4>1. Len(whole) \in DOMAIN whole
        BY <1>1, <1>2, <1>3
      <4> QED BY <1>3, <3>1, <3>7, <4>1, EndsMeaning DEF Ends
    <3> QED BY <3>1, <3>7, <3>8, <3>9
  <2> QED BY <1>2, <2>1, <2>2
<1>9. Exposed(whole)[from] = Visible(lines)
  <2>1. Exposed(whole)[from] = Exposed(lines)[from]
    <3>1. from \in 0..from /\ Sane(lines)
      BY <1>1 DEF Clean
    <3> QED BY <1>1, <1>3, <1>5, <1>8, <3>1, AgreeExposed
  <2> QED BY <2>1 DEF Visible
<1>10. ASSUME NEW k \in from..(Len(whole) - 1) PROVE Exposed(whole)[k] = Visible(lines)
  <2>1. /\ from \in 0..Len(whole) /\ k \in from..Len(whole)
        /\ \A n \in (from + 1)..k : n \in (from + 1)..(Len(whole) - 1)
    BY <1>1, <1>2, <1>3
  <2>2. whole \in Seq(Lines(R))
    BY <1>3 DEF L
  <2> QED BY <1>8, <1>9, <2>1, <2>2, ExposedQuiet
<1>11. Visible(whole) = Append(Visible(lines), records)
  <2>1. PICK k \in Nat : k + 1 = Len(whole) /\ k \in from..(Len(whole) - 1) /\ k \in 0..(Len(whole) - 1)
    <3>0. Len(whole) \in Nat /\ Len(whole) >= 1
      BY <1>1, <1>2, <1>3
    <3>1. PICK k \in Nat : k = Len(whole) - 1
      BY <3>0
    <3>2. k + 1 = Len(whole) /\ k \in from..(Len(whole) - 1) /\ k \in 0..(Len(whole) - 1)
      BY <1>1, <1>2, <1>3, <3>1
    <3> QED BY <3>2
  <2>2. whole \in Seq(Lines(R))
    BY <1>3 DEF L
  <2>3. Exposed(whole)[k + 1] = Append(Exposed(whole)[k], whole[k + 1].content)
    BY <1>8, <2>1, <2>2, ExposedNext
  <2> QED BY <1>8, <1>10, <2>1, <2>3 DEF Visible
<1>12. more # <<>>
  BY <1>2
<1> QED BY <1>2, <1>3, <1>4, <1>5, <1>8, <1>10, <1>11, <1>12 DEF L, whole
=============================================================================
