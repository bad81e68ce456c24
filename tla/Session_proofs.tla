--------------------------- MODULE Session_proofs ---------------------------
(* Theorems about Session, for every value of its constants: the files its   *)
(* store leaves are accepted, and the store keeps its promise.               *)
EXTENDS Session, JsonlSessionStore_proofs

-----------------------------------------------------------------------------
(* What is recorded *)

EntryType == [id : 0..MaxEntries, parent : 0..MaxEntries, kind : Kinds \cup {"none"},
              covers : 0..MaxEntries]
RecordType == [seq : Nat, kind : {"entry", "active_leaf", "closed", "resumed"},
               entry : EntryType, leaf : 0..MaxEntries]

IsSession(s) ==
    /\ s \in [entries : {s.entries}, leaf : 0..MaxEntries, next : Nat, closed : BOOLEAN]
    /\ DOMAIN s.entries \subseteq 0..MaxEntries

LEMMA NoSessionIs == IsSession(NoSession)
<1>1. DOMAIN <<>> \subseteq 0..MaxEntries
  OBVIOUS
<1> QED BY <1>1, SessionAssumption DEF IsSession, NoSession

(* What a record says, whether it is replayed or applied.                    *)
LEMMA AppliedIs ==
    ASSUME NEW s, IsSession(s), NEW record \in RecordType
    PROVE  IsSession(Applied(s, record)) /\ Applied(s, record).next = s.next + 1
<1> DEFINE counted == [s EXCEPT !.next = @ + 1]
<1>1. /\ counted \in [entries : {s.entries}, leaf : 0..MaxEntries, next : Nat, closed : BOOLEAN]
      /\ counted.next = s.next + 1
  BY DEF IsSession
<1>2. CASE record.kind = "entry"
  <2>1. Applied(s, record) = [counted EXCEPT !.entries = WithEntry(@, record.entry),
                                             !.leaf = record.entry.id]
    BY <1>2 DEF Applied
  <2>2. record.entry.id \in 0..MaxEntries
    BY DEF RecordType, EntryType
  <2>3. DOMAIN WithEntry(s.entries, record.entry) \subseteq 0..MaxEntries
    BY <2>2 DEF WithEntry, IsSession
  <2> QED BY <1>1, <2>1, <2>2, <2>3 DEF IsSession
<1>3. CASE record.kind = "active_leaf"
  <2>1. Applied(s, record) = [counted EXCEPT !.leaf = record.leaf]
    BY <1>3 DEF Applied
  <2> QED BY <1>1, <2>1 DEF IsSession, RecordType
<1>4. CASE record.kind = "closed"
  <2>1. Applied(s, record) = [counted EXCEPT !.closed = TRUE]
    BY <1>4 DEF Applied
  <2> QED BY <1>1, <2>1 DEF IsSession
<1>5. CASE record.kind = "resumed"
  <2>1. Applied(s, record) = [counted EXCEPT !.closed = FALSE]
    BY <1>5 DEF Applied
  <2> QED BY <1>1, <2>1 DEF IsSession
<1> QED BY <1>2, <1>3, <1>4, <1>5 DEF RecordType

(* A replay either refuses a record or does what the call did.               *)
LEMMA ReplayedIs ==
    ASSUME NEW s, IsSession(s) \/ s = Refused, NEW record \in RecordType
    PROVE  \/ ReplayRecord(s, record) = Refused
           \/ IsSession(s) /\ ReplayRecord(s, record) = Applied(s, record)
<1> DEFINE counted == [s EXCEPT !.next = @ + 1]
           legal == /\ s # Refused /\ record.seq = s.next
                    /\ \/ record.kind = "entry" /\ ~s.closed /\ LegalEntry(s, record.entry)
                       \/ record.kind = "active_leaf" /\ ~s.closed /\ record.leaf \in DOMAIN s.entries
                       \/ record.kind = "closed" /\ ~s.closed
                       \/ record.kind = "resumed" /\ s.closed
<1>1. CASE ~legal
  <2>1. ReplayRecord(s, record) = Refused
    BY <1>1, Zenon DEF ReplayRecord
  <2> QED BY <2>1
<1>2. CASE legal
  <2>1. CASE record.kind = "entry"
    BY <1>2, <2>1, Zenon DEF ReplayRecord, Applied
  <2>2. CASE record.kind = "active_leaf"
    BY <1>2, <2>2, Zenon DEF ReplayRecord, Applied
  <2>3. CASE record.kind = "closed"
    BY <1>2, <2>3, Zenon DEF ReplayRecord, Applied
  <2>4. CASE record.kind = "resumed"
    BY <1>2, <2>4, Zenon DEF ReplayRecord, Applied
  <2> QED BY <1>2, <2>1, <2>2, <2>3, <2>4, Zenon
<1> QED BY <1>1, <1>2

-----------------------------------------------------------------------------
(* Replaying records one by one *)

ReplayStep(records, f, n) ==
    IF n = 0 THEN NewSession ELSE ReplayRecord(f[n - 1], records[n])

Replays(records) ==
    CHOOSE f : f = [n \in 0..Len(records) |-> ReplayStep(records, f, n)]

LEMMA NewSessionIs == IsSession(NewSession) /\ NewSession.next = 1
<1>1. DOMAIN <<>> \subseteq 0..MaxEntries
  OBVIOUS
<1> QED BY <1>1, SessionAssumption DEF IsSession, NewSession

LEMMA ReplayIs ==
    ASSUME NEW records
    PROVE  Replay(records) = Replays(records)[Len(records)]
<1> QED BY Zenon DEF Replay, Replays, ReplayStep

LEMMA ReplaysDef ==
    ASSUME NEW records, Len(records) \in Nat
    PROVE  Replays(records) = [n \in 0..Len(records) |-> ReplayStep(records, Replays(records), n)]
<1> DEFINE Is(f, m) == f = [n \in 0..m |-> ReplayStep(records, f, n)]
           T == {m \in 0..Len(records) : \E f : Is(f, m)}
<1>1. 0 \in T
  <2>1. Is([n \in 0..0 |-> NewSession], 0)
    BY DEF ReplayStep
  <2> QED BY <2>1
<1>2. ASSUME NEW m \in 0..(Len(records) - 1), m \in T PROVE m + 1 \in T
  <2>1. PICK f : Is(f, m)
    BY <1>2
  <2> DEFINE g == [n \in 0..(m + 1) |-> IF n = m + 1 THEN ReplayStep(records, f, n) ELSE f[n]]
  <2>2. \A n \in 0..(m + 1) : n # 0 => n - 1 \in 0..m /\ g[n - 1] = f[n - 1]
    OBVIOUS
  <2>3. \A n \in 0..(m + 1) : ReplayStep(records, g, n) = ReplayStep(records, f, n)
    BY <2>2 DEF ReplayStep
  <2>4. \A n \in 0..m : f[n] = ReplayStep(records, f, n)
    BY <2>1
  <2>5. \A n \in 0..(m + 1) : g[n] = ReplayStep(records, f, n)
    BY <2>4
  <2>6. Is(g, m + 1)
    BY <2>3, <2>5
  <2>7. m + 1 \in 0..Len(records)
    OBVIOUS
  <2>8. \E h : Is(h, m + 1)
    <3> HIDE DEF Is, g
    <3> QED BY <2>6
  <2> QED BY <2>7, <2>8
<1>3. T = 0..Len(records)
  <2> HIDE DEF T
  <2>1. T \subseteq 0..Len(records) BY DEF T
  <2> QED BY <1>1, <1>2, <2>1, Induction
<1>4. \E f : Is(f, Len(records))
  BY <1>3
<1>5. Replays(records) = CHOOSE f : Is(f, Len(records))
  BY DEF Replays
<1> QED BY <1>4, <1>5

LEMMA ReplayNothing == Replay(<<>>) = NewSession
<1>1. Len(<<>>) = 0 /\ 0 \in 0..0 /\ 0 \in Nat
  OBVIOUS
<1>2. Replays(<<>>) = [n \in 0..0 |-> ReplayStep(<<>>, Replays(<<>>), n)]
  BY <1>1, ReplaysDef
<1>3. Replays(<<>>)[0] = NewSession
  BY <1>1, <1>2 DEF ReplayStep
<1> QED BY <1>1, <1>3, ReplayIs

(* To replay one record more is to replay it on what came before.            *)
LEMMA ReplayOneMore ==
    ASSUME NEW R, NEW records \in Seq(R), NEW record \in R
    PROVE  Replay(Append(records, record)) = ReplayRecord(Replay(records), record)
<1> DEFINE more == Append(records, record)
           k == Len(records)
           T == {n \in 0..k : Replays(more)[n] = Replays(records)[n]}
<1>1. /\ k \in Nat /\ Len(more) = k + 1 /\ k + 1 \in 0..(k + 1) /\ 0..k \subseteq 0..(k + 1)
      /\ \A n \in 1..k : more[n] = records[n]
      /\ more[k + 1] = record
  OBVIOUS
<1> HIDE DEF more, k
<1>2. /\ Replays(more) = [n \in 0..(k + 1) |-> ReplayStep(more, Replays(more), n)]
      /\ Replays(records) = [n \in 0..k |-> ReplayStep(records, Replays(records), n)]
  <2>1. Len(more) \in Nat /\ Len(records) \in Nat /\ Len(records) = k
    BY <1>1 DEF k
  <2> QED BY <1>1, <2>1, ReplaysDef
<1>3. /\ \A n \in 0..(k + 1) : Replays(more)[n] = ReplayStep(more, Replays(more), n)
      /\ \A n \in 0..k : Replays(records)[n] = ReplayStep(records, Replays(records), n)
  BY <1>2
<1>4. 0 \in T
  <2>1. 0 \in 0..k /\ 0 \in 0..(k + 1)
    BY <1>1
  <2> QED BY <1>3, <2>1 DEF ReplayStep
<1>5. ASSUME NEW n \in 0..(k - 1), n \in T PROVE n + 1 \in T
  <2>1. PICK m \in Nat : m = n + 1
    BY <1>1
  <2>2. m \in 0..k /\ m \in 0..(k + 1) /\ m \in 1..k /\ m # 0 /\ m - 1 = n
    BY <1>1, <2>1
  <2>3. Replays(more)[n] = Replays(records)[n] /\ more[m] = records[m]
    BY <1>1, <1>5, <2>2
  <2>4. Replays(more)[m] = Replays(records)[m]
    BY <1>3, <2>2, <2>3 DEF ReplayStep
  <2> QED BY <2>1, <2>2, <2>4
<1>6. T = 0..k
  <2> HIDE DEF T
  <2>1. T \subseteq 0..k BY DEF T
  <2> QED BY <1>1, <1>4, <1>5, <2>1, Induction
<1>7. Replays(more)[k] = Replays(records)[k]
  <2>1. k \in 0..k
    BY <1>1
  <2> QED BY <1>6, <2>1
<1>8. Replays(more)[k + 1] = ReplayRecord(Replays(more)[k], record)
  <2>1. PICK m \in Nat : m = k + 1
    BY <1>1
  <2>2. m \in 0..(k + 1) /\ m # 0 /\ m - 1 = k /\ more[m] = record
    BY <1>1, <2>1
  <2>3. Replays(more)[m] = ReplayRecord(Replays(more)[k], record)
    BY <1>3, <2>2 DEF ReplayStep
  <2> QED BY <2>1, <2>3
<1>9. Replay(more) = Replays(more)[k + 1] /\ Replay(records) = Replays(records)[k]
  BY <1>1, ReplayIs DEF k
<1> QED BY <1>7, <1>8, <1>9 DEF more

(* A replay counts its records, or refuses one.                              *)
LEMMA ReplayCounts ==
    ASSUME NEW records \in Seq(RecordType)
    PROVE  \/ Replay(records) = Refused
           \/ IsSession(Replay(records)) /\ Replay(records).next = Len(records) + 1
<1> DEFINE s == Replays(records)
           k == Len(records)
           Counted(n) == s[n] = Refused \/ (IsSession(s[n]) /\ s[n].next = n + 1)
           T == {n \in 0..k : Counted(n)}
<1>1. /\ k \in Nat /\ s = [n \in 0..k |-> ReplayStep(records, s, n)]
      /\ \A n \in 1..k : records[n] \in RecordType
  BY ReplaysDef
<1> HIDE DEF s, k
<1>2. \A n \in 0..k : s[n] = ReplayStep(records, s, n)
  BY <1>1
<1>3. 0 \in T
  <2>1. 0 \in 0..k /\ 0 + 1 = 1
    BY <1>1
  <2>2. s[0] = NewSession
    BY <1>2, <2>1 DEF ReplayStep
  <2> QED BY <2>1, <2>2, NewSessionIs
<1>4. ASSUME NEW n \in 0..(k - 1), n \in T PROVE n + 1 \in T
  <2>1. PICK m \in Nat : m = n + 1
    BY <1>1
  <2>2. m \in 0..k /\ m \in 1..k /\ m # 0 /\ m - 1 = n /\ Counted(n)
    BY <1>1, <1>4, <2>1
  <2>3. s[m] = ReplayRecord(s[n], records[m])
    BY <1>2, <2>2 DEF ReplayStep
  <2>4. \/ s[m] = Refused
        \/ IsSession(s[n]) /\ s[m] = Applied(s[n], records[m])
    BY <1>1, <2>2, <2>3, ReplayedIs
  <2>5. CASE IsSession(s[n]) /\ s[m] = Applied(s[n], records[m])
    <3>1. CASE s[n] = Refused
      <4>1. Refused.leaf = -1
        BY DEF Refused, NoSession
      <4>2. Refused.leaf \in 0..MaxEntries
        BY <2>5, <3>1 DEF IsSession
      <4> QED BY <4>1, <4>2, SessionAssumption
    <3>2. CASE s[n].next = n + 1
      <4>1. IsSession(s[m]) /\ s[m].next = s[n].next + 1
        BY <1>1, <2>2, <2>5, AppliedIs
      <4>2. s[m].next = m + 1
        BY <2>1, <3>2, <4>1
      <4>3. Counted(m)
        BY <4>1, <4>2
      <4> QED BY <2>1, <2>2, <4>3
    <3> QED BY <2>2, <3>1, <3>2
  <2>6. CASE s[m] = Refused
    BY <2>1, <2>2, <2>6
  <2> QED BY <2>4, <2>5, <2>6
<1>5. T = 0..k
  <2> HIDE DEF T
  <2>1. T \subseteq 0..k BY DEF T
  <2> QED BY <1>1, <1>3, <1>4, <2>1, Induction
<1>6. Counted(k)
  <2>1. k \in 0..k
    BY <1>1
  <2> QED BY <1>5, <2>1
<1>7. Replay(records) = s[k]
  BY ReplayIs DEF s, k
<1> QED BY <1>6, <1>7 DEF k

-----------------------------------------------------------------------------
(* The records of the batches of a log *)

FlatStep(seqs, f, n) == IF n = 1 THEN seqs[n] ELSE f[n - 1] \o seqs[n]

Flats(seqs) == CHOOSE f : f = [n \in 1..Len(seqs) |-> FlatStep(seqs, f, n)]

LEMMA FlattenIs ==
    ASSUME NEW seqs
    PROVE  FlattenSeq(seqs) = IF Len(seqs) = 0 THEN seqs ELSE Flats(seqs)[Len(seqs)]
<1> QED BY Zenon DEF FlattenSeq, Flats, FlatStep

LEMMA FlatsDef ==
    ASSUME NEW seqs, Len(seqs) \in Nat
    PROVE  Flats(seqs) = [n \in 1..Len(seqs) |-> FlatStep(seqs, Flats(seqs), n)]
<1> DEFINE Is(f, m) == f = [n \in 1..m |-> FlatStep(seqs, f, n)]
           T == {m \in 0..Len(seqs) : \E f : Is(f, m)}
<1>1. 0 \in T
  <2>1. Is([n \in 1..0 |-> <<>>], 0)
    OBVIOUS
  <2>2. \E h : Is(h, 0)
    <3> HIDE DEF Is
    <3> QED BY <2>1
  <2>3. 0 \in 0..Len(seqs)
    OBVIOUS
  <2> HIDE DEF Is
  <2> QED BY <2>2, <2>3
<1>2. ASSUME NEW m \in 0..(Len(seqs) - 1), m \in T PROVE m + 1 \in T
  <2>1. PICK f : Is(f, m)
    BY <1>2
  <2> DEFINE g == [n \in 1..(m + 1) |-> IF n = m + 1 THEN FlatStep(seqs, f, n) ELSE f[n]]
  <2>2. \A n \in 1..(m + 1) : n # 1 => n - 1 \in 1..m /\ g[n - 1] = f[n - 1]
    OBVIOUS
  <2>3. \A n \in 1..(m + 1) : FlatStep(seqs, g, n) = FlatStep(seqs, f, n)
    BY <2>2 DEF FlatStep
  <2>4. \A n \in 1..m : f[n] = FlatStep(seqs, f, n)
    BY <2>1
  <2>5. \A n \in 1..(m + 1) : g[n] = FlatStep(seqs, f, n)
    BY <2>4
  <2>6. Is(g, m + 1)
    BY <2>3, <2>5
  <2>7. m + 1 \in 0..Len(seqs)
    OBVIOUS
  <2>8. \E h : Is(h, m + 1)
    <3> HIDE DEF Is, g
    <3> QED BY <2>6
  <2> QED BY <2>7, <2>8
<1>3. T = 0..Len(seqs)
  <2> HIDE DEF T
  <2>1. T \subseteq 0..Len(seqs) BY DEF T
  <2> QED BY <1>1, <1>2, <2>1, Induction
<1>4. \E f : Is(f, Len(seqs))
  BY <1>3
<1>5. Flats(seqs) = CHOOSE f : Is(f, Len(seqs))
  BY DEF Flats
<1> QED BY <1>4, <1>5

LEMMA FlattenNothing == FlattenSeq(<<>>) = <<>>
<1>1. Len(<<>>) = 0
  OBVIOUS
<1> QED BY <1>1, FlattenIs

LEMMA FlatsType ==
    ASSUME NEW R, NEW seqs \in Seq(Seq(R))
    PROVE  \A n \in 1..Len(seqs) : Flats(seqs)[n] \in Seq(R)
<1> DEFINE k == Len(seqs)
           S == Seq(R)
           f == Flats(seqs)
           T == {n \in 0..k : n = 0 \/ f[n] \in S}
<1>1. k \in Nat /\ \A n \in 1..k : seqs[n] \in S
  <2>1. seqs \in Seq(S)
    OBVIOUS
  <2> HIDE DEF S
  <2> QED BY <2>1
<1>2. \A a, b \in S : a \o b \in S
  OBVIOUS
<1>3. f = [n \in 1..k |-> FlatStep(seqs, f, n)]
  BY <1>1, FlatsDef
<1> HIDE DEF k, f, S
<1>4. 0 \in T
  BY <1>1
<1>5. ASSUME NEW n \in 0..(k - 1), n \in T PROVE n + 1 \in T
  <2>1. PICK m \in Nat : m = n + 1
    BY <1>1
  <2>2. m \in 0..k /\ m \in 1..k /\ m - 1 = n /\ (m # 1 => n # 0)
    BY <1>1, <2>1
  <2>3. f[m] = FlatStep(seqs, f, m)
    BY <1>3, <2>2
  <2>4. CASE m = 1
    <3>1. f[m] = seqs[m]
      BY <2>3, <2>4 DEF FlatStep
    <3>2. f[m] \in S
      BY <1>1, <2>2, <3>1
    <3> QED BY <2>1, <2>2, <3>2
  <2>5. CASE m # 1
    <3>1. f[m] = f[n] \o seqs[m]
      BY <2>2, <2>3, <2>5 DEF FlatStep
    <3>2. f[n] \in S /\ seqs[m] \in S
      BY <1>1, <1>5, <2>2, <2>5
    <3>3. f[m] \in S
      BY <1>2, <3>1, <3>2
    <3> QED BY <2>1, <2>2, <3>3
  <2> QED BY <2>4, <2>5
<1>6. T = 0..k
  <2> HIDE DEF T
  <2>1. T \subseteq 0..k BY DEF T
  <2> QED BY <1>1, <1>4, <1>5, <2>1, Induction
<1>7. ASSUME NEW n \in 1..k PROVE f[n] \in S
  <2>1. n \in 0..k /\ n # 0
    BY <1>1
  <2> QED BY <1>6, <2>1
<1> QED BY <1>7 DEF k, f, S

LEMMA FlattenType ==
    ASSUME NEW R, NEW seqs \in Seq(Seq(R))
    PROVE  FlattenSeq(seqs) \in Seq(R)
<1>1. Len(seqs) \in Nat
  <2> DEFINE S == Seq(R)
  <2>1. seqs \in Seq(S)
    OBVIOUS
  <2> HIDE DEF S
  <2> QED BY <2>1
<1>2. CASE Len(seqs) = 0
  <2> DEFINE S == Seq(R)
  <2>1. seqs \in Seq(S)
    OBVIOUS
  <2>2. seqs = <<>>
    <3> HIDE DEF S
    <3> QED BY <1>2, <2>1
  <2>3. \A U : <<>> \in Seq(U)
    OBVIOUS
  <2> QED BY <2>2, <2>3, FlattenNothing
<1>3. CASE Len(seqs) # 0
  <2>1. Len(seqs) \in 1..Len(seqs)
    BY <1>1, <1>3
  <2>2. FlattenSeq(seqs) = Flats(seqs)[Len(seqs)]
    BY <1>3, FlattenIs
  <2> QED BY <2>1, <2>2, FlatsType
<1> QED BY <1>2, <1>3

LEMMA FlattenOneMore ==
    ASSUME NEW R, NEW seqs \in Seq(Seq(R)), NEW e \in Seq(R)
    PROVE  FlattenSeq(Append(seqs, e)) = FlattenSeq(seqs) \o e
<1> DEFINE more == Append(seqs, e)
           k == Len(seqs)
           S == Seq(R)
           T == {n \in 0..k : n = 0 \/ Flats(more)[n] = Flats(seqs)[n]}
<1>1. /\ k \in Nat /\ Len(more) = k + 1 /\ \A n \in 1..k : more[n] = seqs[n]
      /\ more[k + 1] = e
  <2>1. seqs \in Seq(S) /\ e \in S
    OBVIOUS
  <2> HIDE DEF S
  <2> QED BY <2>1
<1> HIDE DEF more, k, S
<1>2. /\ Flats(more) = [n \in 1..(k + 1) |-> FlatStep(more, Flats(more), n)]
      /\ Flats(seqs) = [n \in 1..k |-> FlatStep(seqs, Flats(seqs), n)]
  <2>1. Len(more) \in Nat /\ Len(seqs) \in Nat /\ Len(seqs) = k
    BY <1>1 DEF k
  <2> QED BY <1>1, <2>1, FlatsDef
<1>3. /\ \A n \in 1..(k + 1) : Flats(more)[n] = FlatStep(more, Flats(more), n)
      /\ \A n \in 1..k : Flats(seqs)[n] = FlatStep(seqs, Flats(seqs), n)
  BY <1>2
<1>4. 0 \in T
  BY <1>1
<1>5. ASSUME NEW n \in 0..(k - 1), n \in T PROVE n + 1 \in T
  <2>1. PICK m \in Nat : m = n + 1
    BY <1>1
  <2>2. m \in 0..k /\ m \in 1..(k + 1) /\ m \in 1..k /\ m - 1 = n /\ (m # 1 => n # 0)
    BY <1>1, <2>1
  <2>3. (m # 1 => Flats(more)[n] = Flats(seqs)[n]) /\ more[m] = seqs[m]
    BY <1>1, <1>5, <2>2
  <2>4. Flats(more)[m] = Flats(seqs)[m]
    BY <1>3, <2>2, <2>3 DEF FlatStep
  <2> QED BY <2>1, <2>2, <2>4
<1>6. T = 0..k
  <2> HIDE DEF T
  <2>1. T \subseteq 0..k BY DEF T
  <2> QED BY <1>1, <1>4, <1>5, <2>1, Induction
<1>7. FlattenSeq(more) = Flats(more)[k + 1]
  BY <1>1, FlattenIs
<1>8. CASE k = 0
  <2>1. Flats(more)[k + 1] = e
    <3>1. k + 1 \in 1..(k + 1) /\ k + 1 = 1
      BY <1>1, <1>8
    <3> QED BY <1>1, <1>3, <3>1 DEF FlatStep
  <2>2. FlattenSeq(seqs) = <<>>
    <3>1. seqs \in Seq(S) /\ Len(seqs) = 0
      BY <1>8 DEF S, k
    <3>2. seqs = <<>>
      BY <3>1
    <3> QED BY <3>2, FlattenNothing
  <2>3. <<>> \o e = e
    BY ConcatEmptySeq
  <2> QED BY <1>7, <2>1, <2>2, <2>3 DEF more
<1>9. CASE k # 0
  <2>1. Flats(more)[k + 1] = Flats(more)[k] \o e
    <3>1. PICK m \in Nat : m = k + 1
      BY <1>1
    <3>2. m \in 1..(k + 1) /\ m # 1 /\ m - 1 = k
      BY <1>1, <1>9, <3>1
    <3>3. more[m] = e
      BY <1>1, <3>1
    <3>4. Flats(more)[m] = Flats(more)[k] \o e
      BY <1>3, <3>2, <3>3 DEF FlatStep
    <3> QED BY <3>1, <3>4
  <2>2. Flats(more)[k] = Flats(seqs)[k]
    <3>1. k \in 0..k
      BY <1>1
    <3> QED BY <1>6, <1>9, <3>1
  <2>3. FlattenSeq(seqs) = Flats(seqs)[k]
    BY <1>9, FlattenIs DEF k
  <2> QED BY <1>7, <2>1, <2>2, <2>3 DEF more
<1> QED BY <1>8, <1>9

-----------------------------------------------------------------------------
(* Types, and what a call is *)

Writing == {"write", "sync", "rollback"}
Busy == {"repair"} \cup Writing
Over == {"returned", "raised", "unsure"}

StoreType ==
    /\ file \in Seq(Lines(RecordType)) /\ durable \in 0..Len(file) /\ size \in Nat
    /\ phase \in {"idle"} \cup Busy \cup Over

TypeInv ==
    /\ StoreType
    /\ mem = [h \in Handles |-> mem[h]] /\ \A h \in Handles : IsSession(mem[h])
    /\ phase # "idle" =>
          /\ call.handle \in Handles /\ IsSession(call.from)
          /\ call.records \in Seq(RecordType) /\ Len(call.records) \in 1..2

LEMMA LogType ==
    ASSUME TypeInv
    PROVE  Visible(file) \in Seq(Seq(RecordType)) /\ Log \in Seq(RecordType)
<1>1. file \in Seq(Lines(RecordType)) /\ Len(file) \in 0..Len(file)
  BY DEF TypeInv, StoreType
<1>2. Visible(file) \in Seq(Seq(RecordType))
  BY <1>1, ExposedType DEF Visible
<1> QED BY <1>2, FlattenType DEF Log

LEMMA FreshIdIs ==
    ASSUME TypeInv
    PROVE  FreshId \in Nat /\ FreshId >= 1 /\ \A m \in Known : m < FreshId
<1>1. ASSUME NEW line \in ToSet(file), NEW record \in ToSet(line.content)
      PROVE  record.entry.id \in 0..MaxEntries
  <2>1. line \in Lines(RecordType)
    BY DEF TypeInv, StoreType, ToSet
  <2>2. line.content \in Seq(RecordType)
    BY <2>1 DEF Lines
  <2>3. record \in RecordType
    BY <2>2 DEF ToSet
  <2> QED BY <2>3 DEF RecordType, EntryType
<1>2. ASSUME NEW h \in Handles PROVE DOMAIN mem[h].entries \subseteq 0..MaxEntries
  BY DEF TypeInv, StoreType, IsSession
<1>3. Known \subseteq 0..MaxEntries
  BY <1>1, <1>2 DEF Known
<1> DEFINE K == Known \cup {0}
<1>4. K \subseteq 0..MaxEntries /\ K # {} /\ MaxEntries \in Nat
  BY <1>3, SessionAssumption
<1>5. Max(K) \in K /\ \A m \in K : m <= Max(K)
  <2> HIDE DEF K
  <2> QED BY <1>4, Greatest
<1> DEFINE n == CHOOSE n \in Known \cup {0} : \A m \in Known : m <= n
<1>6. n \in Known \cup {0} /\ \A m \in Known : m <= n
  <2>1. \E x \in Known \cup {0} : \A m \in Known : m <= x
    BY <1>5
  <2> QED BY <2>1
<1>7. FreshId = 1 + n
  BY DEF FreshId
<1> HIDE DEF n
<1>8. n \in Nat
  BY <1>4, <1>6
<1> QED BY <1>3, <1>6, <1>7, <1>8

Calls(h) ==
    Create(h) \/ Resume(h) \/ RecordMessage(h) \/ AppendCustomMany(h)
        \/ RecordCompaction(h) \/ Fork(h) \/ Close(h)

(* What any call hands to the store.                                         *)
Hands(h, session, records) ==
    /\ phase = "idle" /\ phase' = "repair"
    /\ UNCHANGED <<file, durable, size, mem, doubted>>
    /\ call' = [handle |-> h, records |-> records, from |-> session]
    /\ spoilt' = (spoilt \/ (h \in doubted /\ session = mem[h]))
    /\ Carries(payload', records)

LEMMA OneHands ==
    ASSUME NEW h, NEW session, NEW kind, NEW entry, NEW leaf, One(h, session, kind, entry, leaf)
    PROVE  Hands(h, session, <<Record(session.next, kind, entry, leaf)>>)
<1> DEFINE record == Record(session.next, kind, entry, leaf)
<1> HIDE DEF record
<1>1. Call(h, session, <<record>>, <<Line(record)>>)
  BY DEF One, record
<1>2. Carries(<<Line(record)>>, <<record>>)
  BY DEF Carries
<1> QED BY <1>1, <1>2 DEF Call, StartAppend, Hands, record

-----------------------------------------------------------------------------
(* What a store may have written, call by call *)

Whole == Stored \o payload

StoreInv ==
    /\ Sane(file)
    /\ phase \in Busy => call.records # <<>> /\ Carries(payload, call.records)
    /\ phase \in Writing =>
          /\ size <= Len(file) /\ durable <= size /\ Clean(SubSeq(file, 1, size))
          /\ file \in Cuts(Whole, size)
    /\ phase = "write" => size = Len(file)
    /\ phase = "sync" => file = Whole

(* The batches of before the call, and how many of them nothing takes away.  *)
Shown == Visible(Stored)
Safe == Len(Visible(SubSeq(file, 1, durable)))

LEMMA StoredIs ==
    ASSUME TypeInv, StoreInv
    PROVE  /\ phase \in Writing => Stored = SubSeq(file, 1, size)
           /\ phase \notin Writing => Stored = file
           /\ Stored \in Seq(Lines(RecordType)) /\ Sane(Stored)
           /\ durable <= Len(Stored) /\ Len(Stored) \in Nat /\ Agree(Stored, file, Len(Stored))
           /\ Shown \in Seq(Seq(RecordType))
<1>1. file \in Seq(Lines(RecordType)) /\ Sane(file) /\ Len(file) \in Nat /\ durable \in 0..Len(file)
  BY DEF TypeInv, StoreType, StoreInv
<1>2. CASE phase \in Writing
  <2>1. Stored = SubSeq(file, 1, size)
    BY <1>2 DEF Stored, Writing
  <2>2. size \in 0..Len(file) /\ durable <= size
    BY <1>1, <1>2 DEF StoreInv, TypeInv, StoreType
  <2>3. /\ Stored \in Seq(Lines(RecordType)) /\ Len(Stored) = size /\ Agree(Stored, file, size)
        /\ Sane(Stored)
    BY <1>1, <2>1, <2>2, PrefixSane
  <2>4. Shown \in Seq(Seq(RecordType))
    <3>1. Len(Stored) \in 0..Len(Stored)
      BY <1>1, <2>2, <2>3
    <3> QED BY <2>3, <3>1, ExposedType DEF Shown, Visible
  <2> QED BY <1>1, <1>2, <2>1, <2>2, <2>3, <2>4
<1>3. CASE phase \notin Writing
  <2>1. Stored = file
    BY <1>3 DEF Stored, Writing
  <2>2. Agree(file, file, Len(file))
    BY <1>1 DEF Agree
  <2>3. Shown \in Seq(Seq(RecordType))
    <3>1. Len(file) \in 0..Len(file)
      BY <1>1
    <3> QED BY <1>1, <2>1, <3>1, ExposedType DEF Shown, Visible
  <2> QED BY <1>1, <1>3, <2>1, <2>2, <2>3
<1> QED BY <1>2, <1>3

LEMMA WholeIs ==
    ASSUME TypeInv, StoreInv, phase \in Writing
    PROVE  /\ Stored = SubSeq(file, 1, size) /\ Len(Stored) = size
           /\ payload \in Seq(Lines(RecordType)) /\ payload # <<>>
           /\ Whole \in Seq(Lines(RecordType)) /\ Len(Whole) = size + Len(payload)
           /\ Sane(Whole) /\ Agree(Whole, Stored, size) /\ Len(payload) >= 1
           /\ size \in 0..Len(Whole) /\ Len(payload) \in Nat
           /\ \A k \in size..(Len(Whole) - 1) : Exposed(Whole)[k] = Shown
           /\ Visible(Whole) = Append(Shown, call.records)
           /\ SubSeq(Whole, 1, size) = Stored
<1>1. /\ Stored = SubSeq(file, 1, size) /\ Stored \in Seq(Lines(RecordType)) /\ Sane(Stored)
      /\ Len(Stored) \in Nat
  BY StoredIs
<1>2. Len(Stored) = size
  <2>1. size \in 0..Len(file) /\ file \in Seq(Lines(RecordType)) /\ Sane(file)
    BY DEF StoreInv, TypeInv, StoreType
  <2> QED BY <1>1, <2>1, PrefixSane
<1>3. Clean(Stored) /\ call.records \in Seq(RecordType) /\ Carries(payload, call.records)
  BY <1>1 DEF StoreInv, TypeInv, StoreType, Writing, Busy
<1> DEFINE before == Stored
           records == call.records
           W == before \o payload
<1>3a. /\ before \in Seq(Lines(RecordType)) /\ Clean(before)
       /\ records \in Seq(RecordType) /\ Carries(payload, records)
  BY <1>1, <1>3
<1>4. /\ payload \in Seq(Lines(RecordType)) /\ payload # <<>>
      /\ Whole \in Seq(Lines(RecordType)) /\ Len(Whole) = Len(Stored) + Len(payload)
      /\ Agree(Whole, Stored, Len(Stored)) /\ Sane(Whole)
      /\ \A k \in Len(Stored)..(Len(Whole) - 1) : Exposed(Whole)[k] = Visible(Stored)
      /\ Visible(Whole) = Append(Visible(Stored), call.records)
      /\ SubSeq(Whole, 1, Len(Stored)) = Stored
  <2> HIDE DEF before, records
  <2>1. /\ payload \in Seq(Lines(RecordType)) /\ payload # <<>>
        /\ W \in Seq(Lines(RecordType)) /\ Len(W) = Len(before) + Len(payload)
        /\ Agree(W, before, Len(before)) /\ Sane(W)
        /\ \A k \in Len(before)..(Len(W) - 1) : Exposed(W)[k] = Visible(before)
        /\ Visible(W) = Append(Visible(before), records)
        /\ SubSeq(W, 1, Len(before)) = before
    BY <1>3a, BatchIsWhole, Zenon
  <2>2. Whole = W
    BY DEF Whole, before
  <2> HIDE DEF W
  <2> QED BY <2>1, <2>2, Zenon DEF before, records
<1>5. Len(payload) \in Nat /\ Len(payload) >= 1
  BY <1>4
<1>6. size \in 0..Len(Whole)
  BY <1>1, <1>2, <1>4, <1>5
<1> QED BY <1>1, <1>2, <1>4, <1>5, <1>6 DEF Shown

(* However a write is cut off, its batch is there whole or not at all.       *)
LEMMA CutShows ==
    ASSUME TypeInv, StoreInv, phase \in Writing, NEW cut \in Cuts(Whole, size)
    PROVE  /\ cut \in Seq(Lines(RecordType)) /\ Sane(cut)
           /\ size <= Len(cut) /\ Agree(cut, Stored, size)
           /\ Visible(cut) \in {Shown, Append(Shown, call.records)}
<1>1. /\ Whole \in Seq(Lines(RecordType)) /\ Sane(Whole) /\ size \in 0..Len(Whole)
      /\ Len(Stored) = size /\ Agree(Whole, Stored, size)
      /\ \A k \in size..(Len(Whole) - 1) : Exposed(Whole)[k] = Shown
      /\ Visible(Whole) = Append(Shown, call.records)
  BY WholeIs
<1>2. cut \in Seq(Lines(RecordType)) /\ Sane(cut)
  BY <1>1, CutSane
<1>3. PICK k \in size..Len(Whole) : /\ k <= Len(cut) /\ Agree(cut, Whole, k)
                                   /\ Visible(cut) = Exposed(Whole)[k]
  BY <1>1, CutSane
<1>4. size <= Len(cut) /\ Agree(cut, Stored, size)
  <2>1. Len(cut) \in Nat /\ Len(Whole) \in Nat
    BY <1>1, <1>2
  <2> QED BY <1>1, <1>3, <2>1 DEF Agree
<1>5. Visible(cut) \in {Shown, Append(Shown, call.records)}
  <2>1. CASE k = Len(Whole)
    BY <1>1, <1>3, <2>1 DEF Visible
  <2>2. CASE k # Len(Whole)
    <3>1. k \in size..(Len(Whole) - 1)
      BY <1>1, <2>2
    <3> QED BY <1>1, <1>3, <3>1
  <2> QED BY <2>1, <2>2
<1> QED BY <1>2, <1>4, <1>5

(* What is safe depends on the lines that are.                               *)
LEMMA AgreeSafe ==
    ASSUME NEW a \in Seq(Lines(RecordType)), NEW b \in Seq(Lines(RecordType)), Sane(a), Sane(b),
           NEW k \in Nat, Agree(a, b, k), NEW n \in 0..k
    PROVE  /\ Visible(SubSeq(a, 1, n)) = Visible(SubSeq(b, 1, n))
           /\ Visible(SubSeq(a, 1, n)) = Exposed(a)[n]
<1>1. n \in 0..Len(a) /\ n \in 0..Len(b)
  BY DEF Agree
<1> QED BY <1>1, PrefixSane, AgreeExposed

(* ... and no more is than what is shown.                                    *)
LEMMA SafeIsShown ==
    ASSUME NEW a \in Seq(Lines(RecordType)), Sane(a), NEW n \in 0..Len(a), NEW m \in n..Len(a)
    PROVE  /\ Visible(SubSeq(a, 1, n)) \in Seq(Seq(RecordType))
           /\ Begins(Visible(SubSeq(a, 1, n)), Visible(SubSeq(a, 1, m)))
           /\ Begins(Visible(SubSeq(a, 1, n)), Visible(a))
<1>1. m \in 0..Len(a) /\ Len(a) \in n..Len(a) /\ Len(a) \in 0..Len(a)
  OBVIOUS
<1>2. /\ Visible(SubSeq(a, 1, n)) = Exposed(a)[n] /\ Visible(SubSeq(a, 1, m)) = Exposed(a)[m]
      /\ Visible(a) = Exposed(a)[Len(a)]
  BY <1>1, PrefixSane DEF Visible
<1> QED BY <1>1, <1>2, ExposedType, ExposedGrows

-----------------------------------------------------------------------------
(* Each effect of an append *)

(* The call goes on, returns, raises, or ends in doubt.                      *)
Settles == phase' \in Busy /\ Shown' = Shown /\ Safe' \in Safe..Len(Shown)
Returns ==
    /\ phase' = "returned"
    /\ Shown' = Append(Shown, call.records) /\ Safe' = Len(Shown')
Raises == phase' = "raised" /\ Shown' = Shown /\ Safe' \in Safe..Len(Shown)
Doubts ==
    /\ phase' = "unsure"
    /\ Shown' \in {Shown, Append(Shown, call.records)} /\ Safe' = Safe

Effect == StoreType' /\ StoreInv' /\ (Settles \/ Returns \/ Raises \/ Doubts)

LEMMA SafeAtMost ==
    ASSUME TypeInv, StoreInv
    PROVE  /\ Safe \in Nat /\ Len(Shown) \in Nat /\ Safe <= Len(Shown)
           /\ Safe \in Safe..Len(Shown) /\ Len(Shown) \in Safe..Len(Shown)
           /\ Visible(SubSeq(file, 1, durable)) \in Seq(Seq(RecordType))
           /\ Begins(Visible(SubSeq(file, 1, durable)), Shown)
<1>1. /\ file \in Seq(Lines(RecordType)) /\ Sane(file) /\ durable \in Nat
      /\ Stored \in Seq(Lines(RecordType)) /\ Sane(Stored) /\ durable \in 0..Len(Stored)
      /\ Len(Stored) \in Nat /\ Agree(Stored, file, Len(Stored)) /\ Shown \in Seq(Seq(RecordType))
  BY StoredIs DEF TypeInv, StoreType, StoreInv
<1>2. Visible(SubSeq(file, 1, durable)) = Visible(SubSeq(Stored, 1, durable))
  BY <1>1, AgreeSafe
<1>3. /\ Visible(SubSeq(Stored, 1, durable)) \in Seq(Seq(RecordType))
      /\ Begins(Visible(SubSeq(Stored, 1, durable)), Visible(Stored))
  BY <1>1, SafeIsShown
<1> DEFINE S == Seq(RecordType)
           kept == Visible(SubSeq(file, 1, durable))
<1>4. kept \in Seq(S) /\ Shown \in Seq(S) /\ Begins(kept, Shown) /\ Safe = Len(kept)
  BY <1>1, <1>2, <1>3 DEF Shown, Safe
<1>5. Len(kept) \in Nat /\ Len(Shown) \in Nat
  <2> HIDE DEF S, kept
  <2> QED BY <1>4
<1>6. Len(kept) <= Len(Shown)
  BY <1>4 DEF Begins
<1> HIDE DEF kept
<1>7. Safe \in Safe..Len(Shown) /\ Len(Shown) \in Safe..Len(Shown)
  BY <1>4, <1>5, <1>6
<1> QED BY <1>4, <1>5, <1>6, <1>7 DEF kept

LEMMA RepairEffect ==
    ASSUME TypeInv, StoreInv, RepairTail, UNCHANGED call
    PROVE  Effect
<1> DEFINE safe == SafeLength(file)
           kept == SubSeq(file, 1, safe)
<1>1. /\ file \in Seq(Lines(RecordType)) /\ Sane(file) /\ Len(file) \in Nat
      /\ durable \in 0..Len(file) /\ phase = "repair" /\ payload' = payload /\ size \in Nat
      /\ ~Corrupt(file) /\ Stored = file
  <2>1. file \in Seq(Lines(RecordType)) /\ Sane(file)
    BY DEF TypeInv, StoreType, StoreInv
  <2>2. ~Corrupt(file)
    BY <2>1, SaneAccepted
  <2> QED BY <2>1, <2>2 DEF TypeInv, StoreType, StoreInv, RepairTail, Stored
<1>2. /\ safe \in 0..Len(file) /\ Clean(kept) /\ Visible(kept) = Visible(file)
  BY <1>1, SafeIsClean
<1>3. /\ kept \in Seq(Lines(RecordType)) /\ Len(kept) = safe /\ Agree(kept, file, safe)
      /\ Sane(kept)
  BY <1>1, <1>2, PrefixSane
<1>4. SubSeq(kept, 1, safe) = kept
  BY <1>3
<1>5. /\ call.records \in Seq(RecordType) /\ call.records # <<>> /\ Carries(payload, call.records)
  BY <1>1 DEF TypeInv, StoreInv, Busy
<1> HIDE DEF safe, kept
<1>6. \/ /\ file' = kept /\ durable' = (IF safe < Len(file) THEN safe ELSE durable)
         /\ size' = safe /\ phase' = "write"
      \/ /\ safe < Len(file) /\ file' \in {file, kept}
         /\ durable' = (IF durable < Len(file') THEN durable ELSE Len(file'))
         /\ phase' = "raised" /\ size' = size
  BY <1>1 DEF RepairTail, safe, kept
<1>7. /\ durable' \in 0..Len(file') /\ file' \in {file, kept}
      /\ durable' = durable \/ (durable' = Len(file') /\ file' = kept)
  BY <1>1, <1>2, <1>3, <1>6
<1>8. file' \in Seq(Lines(RecordType)) /\ Sane(file') /\ Visible(file') = Visible(file)
  BY <1>1, <1>2, <1>3, <1>6
<1>9. Safe' \in Safe..Len(Shown) /\ Shown = Visible(file)
  <2>1. Shown = Visible(file) /\ Safe = Len(Visible(SubSeq(file, 1, durable)))
    BY <1>1 DEF Shown, Safe
  <2>2. /\ Visible(SubSeq(file, 1, durable)) \in Seq(Seq(RecordType))
        /\ Begins(Visible(SubSeq(file, 1, durable)), Visible(file))
    BY <1>1, SafeIsShown
  <2>3. Safe \in Nat /\ Safe <= Len(Shown) /\ Len(Shown) \in Nat
    <3>1. Shown \in Seq(Seq(RecordType))
      BY StoredIs
    <3>2. Len(Shown) \in Nat /\ Len(Visible(SubSeq(file, 1, durable))) \in Nat
      BY <2>2, <3>1
    <3> QED BY <2>1, <2>2, <3>2 DEF Begins
  <2>4. Safe' = Len(Visible(SubSeq(file', 1, durable')))
    BY DEF Safe
  <2>5. CASE durable' = durable
    <3>1. CASE file' = file
      BY <2>1, <2>3, <2>4, <2>5, <3>1
    <3>2. CASE file' = kept
      <4>1. durable \in 0..safe /\ safe \in Nat
        BY <1>2, <1>3, <1>7, <2>5, <3>2
      <4>2. Visible(SubSeq(kept, 1, durable)) = Visible(SubSeq(file, 1, durable))
        BY <1>1, <1>3, <4>1, AgreeSafe
      <4> QED BY <2>1, <2>3, <2>4, <2>5, <3>2, <4>2
    <3> QED BY <1>7, <3>1, <3>2
  <2>6. CASE durable' = Len(file') /\ file' = kept
    <3>1. SubSeq(file', 1, durable') = kept
      BY <1>3, <1>4, <2>6
    <3>2. Safe' = Len(Shown)
      BY <1>2, <2>1, <2>4, <3>1 DEF kept
    <3>3. Len(Shown) \in Safe..Len(Shown)
      BY <2>3
    <3> QED BY <2>1, <3>2, <3>3
  <2> QED BY <1>7, <2>1, <2>5, <2>6
<1>10. CASE phase' = "raised"
  <2>1. StoreType'
    BY <1>1, <1>6, <1>7, <1>8, <1>10 DEF StoreType, Over
  <2>2. StoreInv'
    BY <1>8, <1>10 DEF StoreInv, Busy, Writing
  <2>3. Stored' = file'
    BY <1>10 DEF Stored
  <2>4. Shown' = Shown
    BY <1>8, <1>9, <2>3 DEF Shown
  <2> QED BY <1>9, <1>10, <2>1, <2>2, <2>4 DEF Effect, Raises
<1>11. CASE phase' = "write"
  <2>1. file' = kept /\ size' = safe
    BY <1>6, <1>11
  <2>2. Stored' = kept
    BY <1>4, <1>11, <2>1 DEF Stored
  <2>3. Shown' = Shown
    BY <1>8, <1>9, <2>1, <2>2 DEF Shown
  <2>4. StoreType'
    BY <1>2, <1>7, <1>8, <1>11, <2>1 DEF StoreType, Busy, Writing
  <2>5. Whole' = kept \o payload
    BY <1>1, <2>2 DEF Whole
  <2>6. kept \in Cuts(kept \o payload, safe)
    <3> DEFINE W == kept \o payload
               records == call.records
    <3>0. records \in Seq(RecordType) /\ Carries(payload, records) /\ Clean(kept)
      BY <1>2, <1>5 DEF kept
    <3> HIDE DEF records
    <3>1. /\ payload \in Seq(Lines(RecordType)) /\ payload # <<>>
          /\ W \in Seq(Lines(RecordType)) /\ Len(W) = Len(kept) + Len(payload)
          /\ Agree(W, kept, Len(kept)) /\ Sane(W)
          /\ \A k \in Len(kept)..(Len(W) - 1) : Exposed(W)[k] = Visible(kept)
          /\ Visible(W) = Append(Visible(kept), records)
          /\ SubSeq(W, 1, Len(kept)) = kept
      BY <1>3, <3>0, BatchIsWhole, Zenon
    <3>2. safe \in safe..Len(W)
      BY <1>2, <1>3, <3>1
    <3> HIDE DEF W
    <3>3. kept \in Cuts(W, safe)
      BY <1>3, <3>1, <3>2 DEF Cuts
    <3> QED BY <3>3 DEF W
  <2>7. StoreInv'
    <3>1. Clean(kept)
      BY <1>2 DEF kept
    <3>2. durable' <= size' /\ size' = Len(file')
      BY <1>3, <1>7, <2>1
    <3>3. SubSeq(file', 1, size') = kept
      BY <1>4, <2>1
    <3>4. size' \in Nat /\ size' <= Len(file')
      BY <1>2, <3>2, <2>1
    <3> QED BY <1>1, <1>5, <1>8, <1>11, <2>1, <2>5, <2>6, <3>1, <3>2, <3>3, <3>4 DEF StoreInv
  <2> QED BY <1>9, <1>11, <2>3, <2>4, <2>7 DEF Effect, Settles, Busy, Writing
<1> QED BY <1>6, <1>10, <1>11

(* Whatever of its lines a call leaves, what was there before is untouched.  *)
LEMMA CutStays ==
    ASSUME TypeInv, StoreInv, phase \in Writing, file' \in Cuts(Whole, size),
           UNCHANGED <<durable, payload, size, call>>
    PROVE  /\ file' \in Seq(Lines(RecordType)) /\ Sane(file') /\ durable' \in 0..Len(file')
           /\ SubSeq(file', 1, size) = Stored /\ size <= Len(file') /\ Safe' = Safe
           /\ Visible(file') \in {Shown, Append(Shown, call.records)}
<1> DEFINE cut == file'
<1>1. cut \in Cuts(Whole, size)
  OBVIOUS
<1>2. /\ Stored \in Seq(Lines(RecordType)) /\ Sane(Stored) /\ Len(Stored) = size
      /\ durable \in 0..size /\ size \in Nat /\ Agree(Stored, file, size)
      /\ file \in Seq(Lines(RecordType)) /\ Sane(file)
  BY StoredIs, WholeIs DEF TypeInv, StoreType, StoreInv
<1> HIDE DEF cut
<1>3. /\ cut \in Seq(Lines(RecordType)) /\ Sane(cut) /\ size <= Len(cut)
      /\ Agree(cut, Stored, size) /\ Visible(cut) \in {Shown, Append(Shown, call.records)}
  BY <1>1, CutShows
<1>4. SubSeq(cut, 1, size) = Stored
  BY <1>2, <1>3 DEF Agree
<1>5. Visible(SubSeq(cut, 1, durable)) = Visible(SubSeq(file, 1, durable))
  <2>1. Visible(SubSeq(cut, 1, durable)) = Visible(SubSeq(Stored, 1, durable))
    BY <1>2, <1>3, AgreeSafe
  <2>2. Visible(SubSeq(Stored, 1, durable)) = Visible(SubSeq(file, 1, durable))
    BY <1>2, AgreeSafe
  <2> QED BY <2>1, <2>2
<1>6. Safe' = Safe
  BY <1>5 DEF Safe, cut
<1>7. durable \in 0..Len(cut)
  BY <1>2, <1>3
<1> QED BY <1>3, <1>4, <1>6, <1>7 DEF cut

LEMMA WrittenIsCut ==
    ASSUME TypeInv, StoreInv, phase = "write"
    PROVE  /\ file \o payload = Whole /\ Whole \in Cuts(Whole, size)
           /\ \A part \in Parts(payload) : file \o part \in Cuts(Whole, size)
<1>1. phase \in Writing
  BY DEF Writing
<1>2. /\ file \in Seq(Lines(RecordType)) /\ payload \in Seq(Lines(RecordType)) /\ size = Len(file)
      /\ Whole \in Seq(Lines(RecordType)) /\ size \in 0..Len(Whole)
      /\ Stored = SubSeq(file, 1, size)
  BY <1>1, WholeIs DEF TypeInv, StoreType, StoreInv
<1>3. Stored = file
  BY <1>2
<1>4. Whole = file \o payload
  BY <1>3 DEF Whole
<1>5. \A part \in Parts(payload) : file \o part \in Cuts(Whole, size)
  BY <1>2, <1>4, PartsAreCuts
<1>6. Whole \in Cuts(Whole, size)
  <2>1. SubSeq(Whole, 1, Len(Whole)) = Whole /\ Len(Whole) \in size..Len(Whole)
    BY <1>2
  <2> HIDE DEF Whole
  <2> QED BY <2>1 DEF Cuts
<1> QED BY <1>4, <1>5, <1>6

LEMMA StoredIsCut ==
    ASSUME TypeInv, StoreInv, phase \in Writing
    PROVE  /\ SubSeq(file, 1, size) = Stored /\ Stored \in Cuts(Whole, size)
<1>1. /\ SubSeq(Whole, 1, size) = Stored /\ Len(Whole) \in Nat /\ size \in 0..Len(Whole)
      /\ Stored = SubSeq(file, 1, size)
  BY WholeIs
<1>2. size \in size..Len(Whole)
  BY <1>1
<1> HIDE DEF Whole
<1> QED BY <1>1, <1>2 DEF Cuts

LEMMA WriteEffect ==
    ASSUME TypeInv, StoreInv, WritePayload, UNCHANGED call
    PROVE  Effect
<1>1. /\ phase = "write" /\ UNCHANGED <<durable, payload, size, call>> /\ phase \in Writing
      /\ \/ file' = file \o payload /\ phase' = "sync"
         \/ file' \in {file \o part : part \in Parts(payload)} /\ phase' = "rollback"
  BY DEF WritePayload, Writing
<1>2. file' \in Cuts(Whole, size)
  <2> HIDE DEF Whole
  <2> QED BY <1>1, WrittenIsCut
<1>3. /\ file' \in Seq(Lines(RecordType)) /\ Sane(file') /\ durable' \in 0..Len(file')
      /\ SubSeq(file', 1, size) = Stored /\ size <= Len(file') /\ Safe' = Safe
  BY <1>1, <1>2, CutStays
<1>4. Stored' = Stored
  BY <1>1, <1>3 DEF Stored
<1>5. Whole' = Whole /\ Shown' = Shown
  BY <1>1, <1>4 DEF Whole, Shown
<1>6. StoreType'
  BY <1>1, <1>3 DEF TypeInv, StoreType, Writing, Busy
<1>7. StoreInv'
  <2>1. /\ call'.records # <<>> /\ Carries(payload', call'.records)
        /\ durable' <= size' /\ Clean(SubSeq(file', 1, size'))
    <3>1. SubSeq(file', 1, size') = SubSeq(file, 1, size)
      BY <1>1, <1>3, StoredIs
    <3> QED BY <1>1, <3>1 DEF StoreInv, Busy
  <2>2. phase' = "sync" => file' = Whole'
    BY <1>1, <1>5, WrittenIsCut
  <2>3. file' \in Cuts(Whole', size')
    BY <1>1, <1>2, <1>5
  <2> QED BY <1>1, <1>3, <2>1, <2>2, <2>3 DEF StoreInv
<1>8. Safe' \in Safe..Len(Shown)
  BY <1>3, SafeAtMost
<1> QED BY <1>1, <1>5, <1>6, <1>7, <1>8 DEF Effect, Settles, Busy, Writing

LEMMA SyncEffect ==
    ASSUME TypeInv, StoreInv, SyncPayload, UNCHANGED call
    PROVE  Effect
<1>1. /\ phase = "sync" /\ UNCHANGED <<file, payload, size, call>> /\ phase \in Writing
      /\ \/ phase' = "returned" /\ durable' = Len(file)
         \/ phase' = "rollback" /\ UNCHANGED durable
  BY DEF SyncPayload, Writing
<1>2. /\ file = Whole /\ Sane(file) /\ file \in Seq(Lines(RecordType)) /\ Len(file) \in Nat
      /\ Visible(Whole) = Append(Shown, call.records)
  BY <1>1, WholeIs DEF StoreInv, TypeInv, StoreType
<1>3. CASE phase' = "returned"
  <2>1. Stored' = file /\ durable' = Len(file)
    BY <1>1, <1>3 DEF Stored
  <2>2. Shown' = Append(Shown, call.records)
    BY <1>1, <1>2, <2>1 DEF Shown
  <2>3. SubSeq(file', 1, durable') = file
    BY <1>1, <1>2, <2>1
  <2>4. Safe' = Len(Shown')
    BY <2>1, <2>3 DEF Safe, Shown
  <2>5. StoreType'
    BY <1>1, <1>2, <1>3, <2>1 DEF TypeInv, StoreType, Over
  <2>6. StoreInv'
    BY <1>1, <1>2, <1>3 DEF StoreInv, Busy, Writing
  <2> QED BY <1>3, <2>2, <2>4, <2>5, <2>6 DEF Effect, Returns
<1>4. CASE phase' = "rollback"
  <2>1. durable' = durable /\ file' = file
    BY <1>1, <1>4
  <2>2. Stored' = Stored
    BY <1>1, <1>4 DEF Stored
  <2>3. Whole' = Whole /\ Shown' = Shown /\ Safe' = Safe
    BY <1>1, <2>1, <2>2 DEF Whole, Shown, Safe
  <2>4. StoreType'
    BY <1>1, <1>4, <2>1 DEF TypeInv, StoreType, Busy, Writing
  <2>5. StoreInv'
    BY <1>1, <1>4, <2>1, <2>3 DEF StoreInv, Busy, Writing
  <2>6. Safe' \in Safe..Len(Shown)
    BY <2>3, SafeAtMost
  <2> QED BY <1>4, <2>3, <2>4, <2>5, <2>6 DEF Effect, Settles, Busy, Writing
<1> QED BY <1>1, <1>3, <1>4

LEMMA CutDoubts ==
    ASSUME TypeInv, StoreInv, phase \in Writing, file' \in Cuts(Whole, size),
           UNCHANGED <<durable, payload, size, call>>, phase' = "unsure"
    PROVE  Effect
<1>1. /\ file' \in Seq(Lines(RecordType)) /\ Sane(file') /\ durable' \in 0..Len(file')
      /\ Safe' = Safe /\ Visible(file') \in {Shown, Append(Shown, call.records)}
  BY CutStays
<1>2. Stored' = file'
  BY DEF Stored
<1>3. Shown' \in {Shown, Append(Shown, call.records)}
  BY <1>1, <1>2 DEF Shown
<1>4. StoreType'
  BY <1>1 DEF TypeInv, StoreType, Over
<1>5. StoreInv'
  BY <1>1 DEF StoreInv, Busy, Writing
<1> QED BY <1>1, <1>3, <1>4, <1>5 DEF Effect, Doubts

LEMMA RollBackEffect ==
    ASSUME TypeInv, StoreInv, RollBack, UNCHANGED call
    PROVE  Effect
<1>1. /\ phase = "rollback" /\ UNCHANGED <<payload, size, call>> /\ phase \in Writing
      /\ \/ file' = SubSeq(file, 1, size) /\ durable' = size /\ phase' = "raised"
         \/ file' \in {file, SubSeq(file, 1, size)} /\ phase' = "unsure" /\ UNCHANGED durable
  BY DEF RollBack, Writing
<1>2. /\ SubSeq(file, 1, size) = Stored /\ Stored \in Cuts(Whole, size) /\ file \in Cuts(Whole, size)
      /\ Len(Stored) = size /\ Stored \in Seq(Lines(RecordType)) /\ Sane(Stored)
      /\ size \in Nat
  BY <1>1, StoredIsCut, StoredIs, WholeIs DEF StoreInv, TypeInv, StoreType
<1>3. CASE phase' = "raised"
  <2>1. file' = Stored /\ durable' = size
    BY <1>1, <1>2, <1>3
  <2>2. Stored' = Stored
    BY <1>3, <2>1 DEF Stored
  <2>3. Shown' = Shown
    BY <2>2 DEF Shown
  <2>4. SubSeq(file', 1, durable') = Stored
    BY <1>2, <2>1
  <2>5. Safe' = Len(Shown)
    BY <2>4 DEF Safe, Shown
  <2>6. StoreType'
    BY <1>1, <1>2, <1>3, <2>1 DEF TypeInv, StoreType, Over
  <2>7. StoreInv'
    BY <1>2, <1>3, <2>1 DEF StoreInv, Busy, Writing
  <2>8. Safe' \in Safe..Len(Shown)
    BY <2>5, SafeAtMost
  <2> QED BY <1>3, <2>3, <2>6, <2>7, <2>8 DEF Effect, Raises
<1>4. CASE phase' = "unsure"
  <2>1. file' \in Cuts(Whole, size) /\ UNCHANGED <<durable, payload, size, call>>
    <3> HIDE DEF Whole
    <3> QED BY <1>1, <1>2, <1>4
  <2> QED BY <1>1, <1>4, <2>1, CutDoubts
<1> QED BY <1>1, <1>3, <1>4

LEMMA InterruptEffect ==
    ASSUME TypeInv, StoreInv, Interrupt, UNCHANGED call
    PROVE  Effect
<1>1. /\ phase' = "unsure" /\ UNCHANGED <<durable, payload, size, call>>
      /\ \/ phase = "repair" /\ UNCHANGED file
         \/ phase = "write" /\ file' \in {file \o part : part \in Parts(payload)}
         \/ phase = "sync" /\ UNCHANGED file
         \/ phase = "rollback" /\ file' \in {file, SubSeq(file, 1, size)}
  BY DEF Interrupt
<1>2. CASE phase = "repair"
  <2>1. file' = file
    BY <1>1, <1>2
  <2>2. Stored = file /\ Stored' = file
    BY <1>1, <1>2, <2>1 DEF Stored
  <2>3. Shown' = Shown /\ Safe' = Safe
    BY <1>1, <2>1, <2>2 DEF Shown, Safe
  <2>4. StoreType'
    BY <1>1, <2>1 DEF TypeInv, StoreType, Over
  <2>5. StoreInv'
    BY <1>1, <2>1 DEF StoreInv, Busy, Writing
  <2> QED BY <1>1, <2>3, <2>4, <2>5 DEF Effect, Doubts
<1>3. CASE phase \in Writing
  <2>1. file \in Cuts(Whole, size)
    BY <1>3 DEF StoreInv
  <2>2. file' \in Cuts(Whole, size)
    <3> HIDE DEF Whole
    <3> QED BY <1>1, <1>3, <2>1, WrittenIsCut, StoredIsCut
  <2> QED BY <1>1, <1>3, <2>2, CutDoubts
<1> QED BY <1>1, <1>2, <1>3 DEF Writing

LEMMA StepEffect ==
    ASSUME TypeInv, StoreInv, StoreStep, UNCHANGED call
    PROVE  Effect
<1> QED BY RepairEffect, WriteEffect, SyncEffect, RollBackEffect, InterruptEffect DEF StoreStep

-----------------------------------------------------------------------------
(* A crash *)

(* What a crash leaves begins with what is safe, and begins what was known.  *)
Remain ==
    LET known == IF phase \in Busy THEN Append(Shown, call.records) ELSE Shown
    IN  /\ Shown' = SubSeq(known, 1, Len(Shown')) /\ Len(Shown') \in Safe..Len(known)
        /\ Safe' \in Safe..Len(Shown')

LEMMA BeginsTrans ==
    ASSUME NEW S, NEW r \in Seq(S), NEW s \in Seq(S), NEW t \in Seq(S), Begins(r, s), Begins(s, t)
    PROVE  Begins(r, t)
<1>1. Len(r) \in Nat /\ Len(s) \in Nat /\ Len(t) \in Nat /\ Len(r) <= Len(s) /\ Len(s) <= Len(t)
  BY DEF Begins
<1>2. /\ r = SubSeq(s, 1, Len(r)) /\ s = SubSeq(t, 1, Len(s))
  BY DEF Begins
<1>3. \A i \in 1..Len(s) : s[i] = t[i]
  BY <1>1, <1>2
<1>4. \A i \in 1..Len(r) : r[i] = s[i]
  BY <1>1, <1>2
<1>5. r = SubSeq(t, 1, Len(r))
  BY <1>1, <1>3, <1>4
<1> QED BY <1>1, <1>5 DEF Begins

(* A cut of a file of which the lines up to n are safe.                      *)
LEMMA CutBegins ==
    ASSUME NEW lines \in Seq(Lines(RecordType)), Sane(lines), NEW n \in 0..Len(lines),
           NEW cut \in Cuts(lines, n)
    PROVE  /\ cut \in Seq(Lines(RecordType)) /\ Sane(cut) /\ n \in 0..Len(cut)
           /\ Visible(SubSeq(cut, 1, n)) = Visible(SubSeq(lines, 1, n))
           /\ Visible(cut) \in Seq(Seq(RecordType)) /\ Begins(Visible(cut), Visible(lines))
           /\ Begins(Visible(SubSeq(cut, 1, n)), Visible(cut))
<1>1. cut \in Seq(Lines(RecordType)) /\ Sane(cut) /\ Len(cut) \in Nat /\ Len(lines) \in Nat
  BY CutSane
<1>2. PICK k \in n..Len(lines) : /\ k <= Len(cut) /\ Agree(cut, lines, k)
                                 /\ Visible(cut) = Exposed(lines)[k]
  BY CutSane
<1>3. k \in 0..Len(lines) /\ n \in 0..k /\ k \in Nat /\ n \in 0..Len(cut) /\ Len(lines) \in k..Len(lines)
  BY <1>1, <1>2
<1>4. Visible(SubSeq(cut, 1, n)) = Visible(SubSeq(lines, 1, n))
  BY <1>1, <1>2, <1>3, AgreeSafe
<1>5. Exposed(lines)[k] \in Seq(Seq(RecordType)) /\ Begins(Exposed(lines)[k], Exposed(lines)[Len(lines)])
  BY <1>3, ExposedType, ExposedGrows
<1>6. Len(cut) \in n..Len(cut)
  BY <1>1, <1>3
<1>7. Begins(Visible(SubSeq(cut, 1, n)), Visible(cut))
  BY <1>1, <1>3, <1>6, SafeIsShown
<1> QED BY <1>1, <1>2, <1>3, <1>4, <1>5, <1>7 DEF Visible

LEMMA CrashEffect ==
    ASSUME TypeInv, StoreInv, StoreCrash
    PROVE  StoreType' /\ StoreInv' /\ Remain
<1> DEFINE written == IF phase = "write" THEN file \o payload ELSE file
           left == file'
           S == Seq(RecordType)
           known == IF phase \in Busy THEN Append(Shown, call.records) ELSE Shown
           safe == Visible(SubSeq(file, 1, durable))
<1>1. /\ left \in Remains(written, durable) /\ durable' \in {durable, Len(left)} /\ size' = 0
      /\ phase' = "idle"
  BY DEF StoreCrash
<1>2. /\ file \in Seq(Lines(RecordType)) /\ Sane(file) /\ durable \in 0..Len(file) /\ Len(file) \in Nat
      /\ Shown \in Seq(S) /\ durable \in Nat
  BY StoredIs DEF TypeInv, StoreType, StoreInv
<1>3. phase \in Busy => call.records \in S
  BY DEF TypeInv, Busy, Writing
<1>4. known \in Seq(S) /\ (\A s \in Seq(S) : Begins(s, Shown) => Begins(s, known))
  <2>1. CASE phase \in Busy
    <3> HIDE DEF S
    <3> QED BY <1>2, <1>3, <2>1, BeginsAppend
  <2> QED BY <1>2, <2>1
<1>5. /\ written \in Seq(Lines(RecordType)) /\ Sane(written) /\ durable \in 0..Len(written)
      /\ Visible(SubSeq(written, 1, durable)) = safe
      /\ Visible(written) \in Seq(S) /\ Begins(Visible(written), known)
  <2>1. CASE phase = "write"
    <3>0. phase \in Writing /\ phase \in Busy
      BY <2>1 DEF Writing, Busy
    <3>1. /\ written = Whole /\ Sane(Whole) /\ Whole \in Seq(Lines(RecordType))
          /\ Len(Whole) = size + Len(payload) /\ Len(payload) \in Nat
          /\ Agree(Whole, Stored, size) /\ Visible(Whole) = Append(Shown, call.records)
      BY <2>1, <3>0, WrittenIsCut, WholeIs
    <3>2. /\ durable <= size /\ size \in Nat /\ Stored \in Seq(Lines(RecordType)) /\ Sane(Stored)
          /\ Stored = SubSeq(file, 1, size) /\ size = Len(file)
      BY <2>1, <3>0, StoredIs DEF StoreInv, TypeInv, StoreType
    <3>3. Stored = file /\ durable \in 0..size
      BY <1>2, <3>2
    <3>4. Visible(SubSeq(Whole, 1, durable)) = safe
      <4> HIDE DEF Whole
      <4> QED BY <3>1, <3>2, <3>3, AgreeSafe
    <3>5. Visible(Whole) = known
      BY <3>0, <3>1
    <3>6. durable \in 0..Len(Whole)
      BY <3>1, <3>2, <3>3
    <3>7. Begins(known, known)
      <4> HIDE DEF known, S
      <4> QED BY <1>4, BeginsItself
    <3> HIDE DEF Whole, safe, known
    <3> QED BY <1>4, <3>1, <3>4, <3>5, <3>6, <3>7
  <2>2. CASE phase \in Writing /\ phase # "write"
    <3>1. /\ file \in Cuts(Whole, size) /\ written = file /\ phase \in Busy
      BY <2>2 DEF StoreInv, Busy
    <3>2. Visible(file) \in {Shown, Append(Shown, call.records)}
      BY <2>2, <3>1, CutShows
    <3>3. Visible(file) \in Seq(S)
      <4> HIDE DEF S
      <4> QED BY <1>2, <1>3, <3>1, <3>2
    <3>4. Begins(Shown, Shown) /\ Begins(known, known)
      <4> HIDE DEF known, S
      <4> QED BY <1>2, <1>4, BeginsItself
    <3>5. Begins(Visible(file), known)
      BY <1>2, <1>4, <3>1, <3>2, <3>4
    <3> QED BY <1>2, <3>1, <3>3, <3>5
  <2>3. CASE phase \notin Writing
    <3>1. Stored = file /\ written = file
      BY <2>3, StoredIs DEF Writing
    <3>2. Begins(Shown, Shown)
      <4> HIDE DEF S
      <4> QED BY <1>2, BeginsItself
    <3>3. Begins(Visible(file), known) /\ Visible(file) \in Seq(S)
      BY <1>2, <1>4, <3>1, <3>2 DEF Shown
    <3> QED BY <1>2, <3>1, <3>3
  <2> QED BY <2>1, <2>2, <2>3
<1> HIDE DEF written, known, left
<1>6. left \in Cuts(written, durable)
  BY <1>1, <1>5, RemainsAreCuts
<1>7. /\ left \in Seq(Lines(RecordType)) /\ Sane(left) /\ durable \in 0..Len(left)
      /\ Visible(SubSeq(left, 1, durable)) = safe
      /\ Visible(left) \in Seq(S) /\ Begins(Visible(left), Visible(written))
      /\ Begins(safe, Visible(left))
  BY <1>5, <1>6, CutBegins
<1>8. Begins(Visible(left), known)
  <2> HIDE DEF S
  <2> QED BY <1>4, <1>5, <1>7, BeginsTrans
<1>9. Stored' = left
  BY <1>1 DEF Stored, left
<1>10. Shown' = Visible(left)
  BY <1>9 DEF Shown
<1>11. Safe = Len(safe) /\ Safe \in Nat
  BY SafeAtMost DEF Safe
<1>12. Len(Visible(left)) \in Nat /\ Len(known) \in Nat
  <2> HIDE DEF S
  <2> QED BY <1>4, <1>7
<1>13. Safe' \in Safe..Len(Shown')
  <2>1. Safe' = Len(Visible(SubSeq(left, 1, durable')))
    BY DEF Safe, left
  <2>2. CASE durable' = durable
    <3>1. Safe' = Safe
      BY <1>7, <1>11, <2>1, <2>2
    <3> QED BY <1>7, <1>10, <1>11, <1>12, <3>1 DEF Begins
  <2>3. CASE durable' = Len(left)
    <3>1. SubSeq(left, 1, Len(left)) = left
      BY <1>7
    <3>2. Safe' = Len(Shown')
      BY <1>10, <2>1, <2>3, <3>1
    <3> QED BY <1>7, <1>10, <1>11, <1>12, <3>2 DEF Begins
  <2> QED BY <1>1, <2>2, <2>3
<1>14. Remain
  <2>1. Shown' = SubSeq(known, 1, Len(Shown')) /\ Len(Shown') \in Safe..Len(known)
    BY <1>7, <1>8, <1>10, <1>11, <1>12 DEF Begins
  <2> QED BY <1>13, <2>1 DEF Remain, known
<1>15. StoreType'
  <2>1. durable' \in 0..Len(left)
    BY <1>1, <1>7
  <2> QED BY <1>1, <1>7, <2>1 DEF StoreType, left
<1>16. StoreInv'
  BY <1>1, <1>7 DEF StoreInv, Busy, Writing, left
<1> QED BY <1>14, <1>15, <1>16

-----------------------------------------------------------------------------
(* What the calls of a handle hand to the store *)

(* A session with a tree, its leaf in it.                                    *)
Good(s) == IsSession(s) /\ s.leaf \in DOMAIN s.entries

(* A record a replay takes as the call meant it.                             *)
Adds(s, record) ==
    /\ ReplayRecord(s, record) = Applied(s, record)
    /\ Good(Applied(s, record))

LEMMA NotRefused ==
    ASSUME NEW s, IsSession(s)
    PROVE  s # Refused
<1>1. Refused.leaf = -1
  BY DEF Refused, NoSession
<1> QED BY <1>1, SessionAssumption DEF IsSession

LEMMA AddsEntry ==
    ASSUME NEW s, IsSession(s), ~s.closed, NEW entry \in EntryType, LegalEntry(s, entry)
    PROVE  /\ Record(s.next, "entry", entry, 0) \in RecordType
           /\ Adds(s, Record(s.next, "entry", entry, 0))
           /\ Applied(s, Record(s.next, "entry", entry, 0)).entries = WithEntry(s.entries, entry)
           /\ Applied(s, Record(s.next, "entry", entry, 0)).leaf = entry.id
           /\ ~Applied(s, Record(s.next, "entry", entry, 0)).closed
           /\ Applied(s, Record(s.next, "entry", entry, 0)).next = s.next + 1
<1> DEFINE record == Record(s.next, "entry", entry, 0)
           after == Applied(s, record)
           counted == [s EXCEPT !.next = @ + 1]
<1>1. /\ record \in RecordType /\ record.kind = "entry" /\ record.seq = s.next
      /\ record.entry = entry
  BY SessionAssumption DEF Record, RecordType, IsSession
<1>2. s # Refused
  BY NotRefused
<1> HIDE DEF record
<1>3. ReplayRecord(s, record) = after
  BY <1>1, <1>2, Zenon DEF ReplayRecord, Applied
<1>4. IsSession(after) /\ after.next = s.next + 1
  BY <1>1, AppliedIs
<1>5. after = [counted EXCEPT !.entries = WithEntry(@, record.entry), !.leaf = record.entry.id]
  BY <1>1 DEF Applied
<1>6. after.entries = WithEntry(s.entries, entry) /\ after.leaf = entry.id /\ ~after.closed
  BY <1>1, <1>5 DEF IsSession
<1>7. entry.id \in DOMAIN WithEntry(s.entries, entry)
  BY DEF WithEntry
<1> QED BY <1>1, <1>3, <1>4, <1>6, <1>7 DEF Adds, Good, record

LEMMA AddsLeaf ==
    ASSUME NEW s, IsSession(s), ~s.closed, NEW id \in DOMAIN s.entries
    PROVE  /\ Record(s.next, "active_leaf", NoEntry, id) \in RecordType
           /\ Adds(s, Record(s.next, "active_leaf", NoEntry, id))
<1> DEFINE record == Record(s.next, "active_leaf", NoEntry, id)
           after == Applied(s, record)
           counted == [s EXCEPT !.next = @ + 1]
<1>1. /\ record \in RecordType /\ record.kind = "active_leaf" /\ record.seq = s.next
      /\ record.leaf = id
  BY SessionAssumption DEF Record, RecordType, IsSession, NoEntry, Entry, EntryType
<1>2. s # Refused
  BY NotRefused
<1> HIDE DEF record
<1>3. ReplayRecord(s, record) = after
  BY <1>1, <1>2, Zenon DEF ReplayRecord, Applied
<1>4. IsSession(after)
  BY <1>1, AppliedIs
<1>5. after = [counted EXCEPT !.leaf = record.leaf]
  BY <1>1 DEF Applied
<1>6. after.entries = s.entries /\ after.leaf = id
  BY <1>1, <1>5 DEF IsSession
<1> QED BY <1>1, <1>3, <1>4, <1>6 DEF Adds, Good, record

LEMMA AddsClose ==
    ASSUME NEW s, Good(s), NEW kind \in {"closed", "resumed"}, s.closed = (kind = "resumed")
    PROVE  /\ Record(s.next, kind, NoEntry, 0) \in RecordType
           /\ Adds(s, Record(s.next, kind, NoEntry, 0))
<1> DEFINE record == Record(s.next, kind, NoEntry, 0)
           after == Applied(s, record)
           counted == [s EXCEPT !.next = @ + 1]
<1>1. record \in RecordType /\ record.kind = kind /\ record.seq = s.next
  BY SessionAssumption DEF Record, RecordType, Good, IsSession, NoEntry, Entry, EntryType
<1>2. s # Refused /\ IsSession(s)
  BY NotRefused DEF Good
<1> HIDE DEF record
<1>3. ReplayRecord(s, record) = after
  <2>1. CASE kind = "closed"
    <3>1. ~s.closed
      BY <2>1
    <3> QED BY <1>1, <1>2, <2>1, <3>1, Zenon DEF ReplayRecord, Applied
  <2>2. CASE kind = "resumed"
    <3>1. s.closed
      BY <2>2
    <3> QED BY <1>1, <1>2, <2>2, <3>1, Zenon DEF ReplayRecord, Applied
  <2> QED BY <2>1, <2>2
<1>4. IsSession(after)
  BY <1>1, <1>2, AppliedIs
<1>5. \/ after = [counted EXCEPT !.closed = TRUE]
      \/ after = [counted EXCEPT !.closed = FALSE]
  BY <1>1 DEF Applied
<1>6. after.entries = s.entries /\ after.leaf = s.leaf
  BY <1>2, <1>5 DEF IsSession
<1> QED BY <1>1, <1>3, <1>4, <1>6 DEF Adds, Good, record

(* What one or two records make of a handle.                                 *)
LEMMA AppliedOne ==
    ASSUME NEW s, NEW r
    PROVE  AppliedAll(s, <<r>>) = Applied(s, r)
<1> DEFINE records == <<r>>
           Step(f, n) == IF n = 0 THEN s ELSE Applied(f[n - 1], records[n])
           g == [n \in 0..1 |-> IF n = 0 THEN s ELSE Applied(s, r)]
           f0 == CHOOSE f : f = [n \in 0..1 |-> Step(f, n)]
<1>1. g = [n \in 0..1 |-> Step(g, n)]
  OBVIOUS
<1>2. f0 = [n \in 0..1 |-> Step(f0, n)]
  <2>1. \E f : f = [n \in 0..1 |-> Step(f, n)]
    <3> HIDE DEF g, Step
    <3> QED BY <1>1
  <2> HIDE DEF Step
  <2> QED BY <2>1
<1>3. f0[0] = s /\ f0[1] = Applied(f0[0], r)
  <2> HIDE DEF f0
  <2> QED BY <1>2
<1>4. AppliedAll(s, records) = f0[1]
  <2>1. Len(records) = 1
    OBVIOUS
  <2> HIDE DEF records
  <2> QED BY <2>1, Zenon DEF AppliedAll, records
<1> QED BY <1>3, <1>4

LEMMA AppliedTwo ==
    ASSUME NEW s, NEW q, NEW r
    PROVE  AppliedAll(s, <<q, r>>) = Applied(Applied(s, q), r)
<1> DEFINE records == <<q, r>>
           Step(f, n) == IF n = 0 THEN s ELSE Applied(f[n - 1], records[n])
           g == [n \in 0..2 |-> IF n = 0 THEN s
                                ELSE IF n = 1 THEN Applied(s, q) ELSE Applied(Applied(s, q), r)]
           f0 == CHOOSE f : f = [n \in 0..2 |-> Step(f, n)]
<1>1. g = [n \in 0..2 |-> Step(g, n)]
  OBVIOUS
<1>2. f0 = [n \in 0..2 |-> Step(f0, n)]
  <2>1. \E f : f = [n \in 0..2 |-> Step(f, n)]
    <3> HIDE DEF g, Step
    <3> QED BY <1>1
  <2> HIDE DEF Step
  <2> QED BY <2>1
<1>3. f0[0] = s /\ f0[1] = Applied(f0[0], q) /\ f0[2] = Applied(f0[1], r)
  <2> HIDE DEF f0
  <2> QED BY <1>2
<1>4. AppliedAll(s, records) = f0[2]
  <2>1. Len(records) = 2
    OBVIOUS
  <2> HIDE DEF records
  <2> QED BY <2>1, Zenon DEF AppliedAll, records
<1> QED BY <1>3, <1>4

(* Records of a legal call, seen from the session it starts from.            *)
Accepted(s, records) ==
    \/ \E r \in RecordType : records = <<r>> /\ Adds(s, r)
    \/ \E q, r \in RecordType :
          records = <<q, r>> /\ Adds(s, q) /\ Adds(Applied(s, q), r)

LEMMA ShortRecords ==
    ASSUME NEW records \in Seq(RecordType), Len(records) \in 1..2
    PROVE  \/ \E r \in RecordType : records = <<r>>
           \/ \E q, r \in RecordType : records = <<q, r>>
<1> DEFINE R == RecordType
<1>1. records \in Seq(R)
  OBVIOUS
<1> HIDE DEF R
<1>2. CASE Len(records) = 1
  <2>1. records[1] \in R /\ records = <<records[1]>>
    BY <1>1, <1>2
  <2> QED BY <2>1 DEF R
<1>3. CASE Len(records) = 2
  <2>1. records[1] \in R /\ records[2] \in R /\ records = <<records[1], records[2]>>
    BY <1>1, <1>3
  <2> QED BY <2>1 DEF R
<1>4. Len(records) = 1 \/ Len(records) = 2
  OBVIOUS
<1> QED BY <1>2, <1>3, <1>4

LEMMA AppliedType ==
    ASSUME NEW s, IsSession(s), NEW records \in Seq(RecordType), Len(records) \in 1..2
    PROVE  IsSession(AppliedAll(s, records))
<1>1. CASE \E r \in RecordType : records = <<r>>
  <2>1. PICK r \in RecordType : records = <<r>>
    BY <1>1
  <2>2. IsSession(Applied(s, r))
    BY AppliedIs
  <2> QED BY <2>1, <2>2, AppliedOne
<1>2. CASE \E q, r \in RecordType : records = <<q, r>>
  <2>1. PICK q \in RecordType, r \in RecordType : records = <<q, r>>
    BY <1>2
  <2>2. IsSession(Applied(Applied(s, q), r))
    BY AppliedIs
  <2> QED BY <2>1, <2>2, AppliedTwo
<1> QED BY <1>1, <1>2, ShortRecords

(* Where a call starts from: what its handle holds, a new Session where      *)
(* nothing is stored, or the replay of a closed one.                         *)
Starts(h, s) ==
    \/ ~mem[h].closed /\ s = mem[h]
    \/ mem[h].closed /\ Log = <<>> /\ s = NewSession
    \/ mem[h].closed /\ Log # <<>> /\ s = Replay(Log) /\ s.closed

Legal(h, s, records) ==
    /\ Hands(h, s, records) /\ Starts(h, s)
    /\ IsSession(s) /\ records \in Seq(RecordType) /\ Len(records) \in 1..2
    /\ (mem[h].closed /\ s = NewSession) \/ Good(s) => Accepted(s, records)

LEMMA OneLegal ==
    ASSUME NEW h \in Handles, NEW s, NEW kind, NEW entry, NEW leaf,
           One(h, s, kind, entry, leaf), Starts(h, s), IsSession(s),
           Record(s.next, kind, entry, leaf) \in RecordType,
           (mem[h].closed /\ s = NewSession) \/ Good(s) =>
               Adds(s, Record(s.next, kind, entry, leaf))
    PROVE  Legal(h, s, <<Record(s.next, kind, entry, leaf)>>)
<1> DEFINE r == Record(s.next, kind, entry, leaf)
           records == <<r>>
<1>1. Hands(h, s, records)
  BY OneHands
<1>2. r \in RecordType
  OBVIOUS
<1>3. (mem[h].closed /\ s = NewSession) \/ Good(s) => Adds(s, r)
  OBVIOUS
<1> HIDE DEF r
<1>4. records \in Seq(RecordType) /\ Len(records) \in 1..2
  <2> DEFINE R == RecordType
  <2>1. r \in R
    BY <1>2
  <2> HIDE DEF R
  <2>2. records \in Seq(R) /\ Len(records) = 1
    BY <2>1
  <2> QED BY <2>2 DEF R
<1>5. (mem[h].closed /\ s = NewSession) \/ Good(s) => Accepted(s, records)
  BY <1>2, <1>3 DEF Accepted
<1> QED BY <1>1, <1>4, <1>5 DEF Legal, r

LEMMA FreshIn ==
    ASSUME TypeInv, NEW h \in Handles, FreshId <= MaxEntries
    PROVE  /\ FreshId \in 0..MaxEntries /\ FreshId \in Nat /\ FreshId \notin DOMAIN mem[h].entries
           /\ \A id \in DOMAIN mem[h].entries : id < FreshId
<1>1. FreshId \in Nat /\ FreshId >= 1 /\ \A m \in Known : m < FreshId
  BY FreshIdIs
<1>2. DOMAIN mem[h].entries \subseteq Known
  BY DEF Known
<1>3. FreshId \in 0..MaxEntries
  BY <1>1, SessionAssumption
<1> QED BY <1>1, <1>2, <1>3

LEMMA NoEntryType == NoEntry \in EntryType
<1> QED BY SessionAssumption DEF NoEntry, Entry, EntryType

LEMMA CreateLegal ==
    ASSUME TypeInv, NEW h \in Handles, Create(h)
    PROVE  \E s, records : Legal(h, s, records)
<1> DEFINE entry == Entry(FreshId, 0, "configuration", 0)
<1>1. /\ One(h, NewSession, "entry", entry, 0) /\ mem[h].closed /\ Log = <<>>
      /\ FreshId <= MaxEntries
  BY DEF Create
<1>2. entry \in EntryType
  BY <1>1, FreshIn, SessionAssumption DEF EntryType, Entry, Kinds
<1>3. LegalEntry(NewSession, entry)
  <2>1. NewSession.entries = <<>> /\ DOMAIN <<>> = {}
    BY DEF NewSession
  <2> QED BY <2>1, Zenon DEF LegalEntry, Entry
<1>4. IsSession(NewSession) /\ ~NewSession.closed
  BY NewSessionIs DEF NewSession
<1>5. Starts(h, NewSession)
  BY <1>1 DEF Starts
<1> HIDE DEF entry
<1>6. /\ Record(NewSession.next, "entry", entry, 0) \in RecordType
      /\ Adds(NewSession, Record(NewSession.next, "entry", entry, 0))
  BY <1>2, <1>3, <1>4, AddsEntry
<1>7. Legal(h, NewSession, <<Record(NewSession.next, "entry", entry, 0)>>)
  BY <1>1, <1>4, <1>5, <1>6, OneLegal
<1> QED BY <1>7

LEMMA ResumeLegal ==
    ASSUME TypeInv, NEW h \in Handles, Resume(h)
    PROVE  \E s, records : Legal(h, s, records)
<1> DEFINE s == Replay(Log)
<1>1. /\ One(h, s, "resumed", NoEntry, 0) /\ mem[h].closed /\ Log # <<>>
      /\ s # Refused /\ s.closed
  BY DEF Resume
<1>2. IsSession(s)
  BY <1>1, LogType, ReplayCounts
<1>3. Starts(h, s)
  BY <1>1 DEF Starts
<1> HIDE DEF s
<1>4. s # NewSession /\ s.closed = TRUE
  BY <1>1, <1>2 DEF IsSession, NewSession
<1>5. Record(s.next, "resumed", NoEntry, 0) \in RecordType
  BY <1>2, NoEntryType, SessionAssumption DEF Record, RecordType, IsSession
<1>6. Good(s) => Adds(s, Record(s.next, "resumed", NoEntry, 0))
  BY <1>4, AddsClose
<1>7. Legal(h, s, <<Record(s.next, "resumed", NoEntry, 0)>>)
  BY <1>1, <1>2, <1>3, <1>4, <1>5, <1>6, OneLegal
<1> QED BY <1>7

(* An entry under the leaf of an open handle.                                *)
LEMMA EntryLegal ==
    ASSUME TypeInv, NEW h \in Handles, ~mem[h].closed, FreshId <= MaxEntries,
           NEW kind \in Kinds, NEW covers \in 0..MaxEntries,
           kind = "compaction" => LegalCoverage(BranchTo(mem[h].entries, mem[h].leaf), covers)
    PROVE  LET entry == Entry(FreshId, mem[h].leaf, kind, covers)
           IN  /\ entry \in EntryType /\ entry.id = FreshId
               /\ Good(mem[h]) => LegalEntry(mem[h], entry)
<1> DEFINE s == mem[h]
           entry == Entry(FreshId, s.leaf, kind, covers)
<1>1. IsSession(s)
  BY DEF TypeInv
<1>2. /\ entry.id = FreshId /\ entry.parent = s.leaf /\ entry.kind = kind /\ entry.covers = covers
  BY DEF Entry
<1>3. entry \in EntryType
  <2>1. FreshId \in 0..MaxEntries
    BY FreshIn
  <2> QED BY <1>1, <2>1 DEF Entry, EntryType, IsSession
<1>4. FreshId \notin DOMAIN s.entries
  BY FreshIn
<1> HIDE DEF entry
<1>5. ASSUME s.leaf \in DOMAIN s.entries PROVE LegalEntry(s, entry)
  <2>1. s.entries # <<>>
    <3>1. DOMAIN <<>> = {}
      OBVIOUS
    <3> QED BY <1>5, <3>1
  <2> QED BY <1>2, <1>4, <1>5, <2>1, Zenon DEF LegalEntry
<1> QED BY <1>2, <1>3, <1>5 DEF Good, entry

LEMMA RecordTypeIs ==
    ASSUME NEW s, IsSession(s), NEW entry \in EntryType
    PROVE  Record(s.next, "entry", entry, 0) \in RecordType
<1> QED BY SessionAssumption DEF Record, RecordType, IsSession

LEMMA OpenIs ==
    ASSUME TypeInv, NEW h \in Handles, ~mem[h].closed
    PROVE  IsSession(mem[h]) /\ Starts(h, mem[h])
<1> QED BY DEF TypeInv, Starts

LEMMA RecordMessageLegal ==
    ASSUME TypeInv, NEW h \in Handles, RecordMessage(h)
    PROVE  \E s, records : Legal(h, s, records)
<1> DEFINE s == mem[h]
           entry == Entry(FreshId, s.leaf, "message", 0)
<1>1. One(h, s, "entry", entry, 0) /\ ~s.closed /\ FreshId <= MaxEntries
  BY DEF RecordMessage
<1>2. entry \in EntryType /\ (Good(s) => LegalEntry(s, entry))
  <2>1. "message" \in Kinds /\ 0 \in 0..MaxEntries /\ "message" # "compaction"
    BY SessionAssumption DEF Kinds
  <2> QED BY <1>1, <2>1, EntryLegal
<1>3. IsSession(s) /\ Starts(h, s)
  BY <1>1, OpenIs
<1> HIDE DEF entry
<1>4. Record(s.next, "entry", entry, 0) \in RecordType
  BY <1>2, <1>3, RecordTypeIs
<1>5. Good(s) => Adds(s, Record(s.next, "entry", entry, 0))
  BY <1>1, <1>2, <1>3, AddsEntry
<1>6. Legal(h, s, <<Record(s.next, "entry", entry, 0)>>)
  BY <1>1, <1>3, <1>4, <1>5, OneLegal
<1> QED BY <1>6

LEMMA RecordCompactionLegal ==
    ASSUME TypeInv, NEW h \in Handles, RecordCompaction(h)
    PROVE  \E s, records : Legal(h, s, records)
<1> DEFINE s == mem[h]
<1>1. PICK covers \in 1..MaxEntries :
          /\ LegalCoverage(BranchTo(s.entries, s.leaf), covers)
          /\ One(h, s, "entry", Entry(FreshId, s.leaf, "compaction", covers), 0)
  BY DEF RecordCompaction
<1> DEFINE entry == Entry(FreshId, s.leaf, "compaction", covers)
<1>2. ~s.closed /\ FreshId <= MaxEntries
  BY DEF RecordCompaction
<1>3. entry \in EntryType /\ (Good(s) => LegalEntry(s, entry))
  <2>1. "compaction" \in Kinds /\ covers \in 0..MaxEntries
    BY SessionAssumption DEF Kinds
  <2> QED BY <1>1, <1>2, <2>1, EntryLegal
<1>4. IsSession(s) /\ Starts(h, s)
  BY <1>2, OpenIs
<1>5. One(h, s, "entry", entry, 0)
  BY <1>1
<1> HIDE DEF entry
<1>6. Record(s.next, "entry", entry, 0) \in RecordType
  BY <1>3, <1>4, RecordTypeIs
<1>7. Good(s) => Adds(s, Record(s.next, "entry", entry, 0))
  BY <1>2, <1>3, <1>4, AddsEntry
<1>8. Legal(h, s, <<Record(s.next, "entry", entry, 0)>>)
  BY <1>2, <1>4, <1>5, <1>6, <1>7, OneLegal
<1> QED BY <1>8

LEMMA ForkLegal ==
    ASSUME TypeInv, NEW h \in Handles, Fork(h)
    PROVE  \E s, records : Legal(h, s, records)
<1> DEFINE s == mem[h]
<1>1. PICK id \in DOMAIN s.entries : One(h, s, "active_leaf", NoEntry, id)
  BY DEF Fork
<1>2. ~s.closed
  BY DEF Fork
<1>3. IsSession(s) /\ Starts(h, s)
  BY <1>2, OpenIs
<1>4. /\ Record(s.next, "active_leaf", NoEntry, id) \in RecordType
      /\ Adds(s, Record(s.next, "active_leaf", NoEntry, id))
  BY <1>2, <1>3, AddsLeaf
<1>5. Legal(h, s, <<Record(s.next, "active_leaf", NoEntry, id)>>)
  BY <1>1, <1>3, <1>4, OneLegal
<1> QED BY <1>5

LEMMA CloseLegal ==
    ASSUME TypeInv, NEW h \in Handles, Close(h)
    PROVE  \E s, records : Legal(h, s, records)
<1> DEFINE s == mem[h]
<1>1. One(h, s, "closed", NoEntry, 0) /\ ~s.closed
  BY DEF Close
<1>2. IsSession(s) /\ Starts(h, s)
  BY <1>1, OpenIs
<1>3. Record(s.next, "closed", NoEntry, 0) \in RecordType
  BY <1>2, NoEntryType, SessionAssumption DEF Record, RecordType, IsSession
<1>4. Good(s) => Adds(s, Record(s.next, "closed", NoEntry, 0))
  <2>1. s.closed = FALSE
    BY <1>1, <1>2 DEF IsSession
  <2>2. s.closed = ("closed" = "resumed")
    BY <2>1
  <2> QED BY <2>2, AddsClose
<1>5. Legal(h, s, <<Record(s.next, "closed", NoEntry, 0)>>)
  BY <1>1, <1>2, <1>3, <1>4, OneLegal
<1> QED BY <1>5

LEMMA AppendCustomManyLegal ==
    ASSUME TypeInv, NEW h \in Handles, AppendCustomMany(h)
    PROVE  \E s, records : Legal(h, s, records)
<1> DEFINE s == mem[h]
           id == FreshId
           first == Entry(id, s.leaf, "custom", 0)
           second == Entry(id + 1, id, "custom", 0)
           q == Record(s.next, "entry", first, 0)
           r == Record(s.next + 1, "entry", second, 0)
           records == <<q, r>>
<1>1. /\ Call(h, s, records, Framed(records)) /\ ~s.closed /\ id + 1 <= MaxEntries
  BY DEF AppendCustomMany
<1>2. id \in Nat /\ id + 1 \in 0..MaxEntries /\ id <= MaxEntries
  BY <1>1, FreshIdIs, SessionAssumption
<1>3. /\ id \in 0..MaxEntries /\ id \notin DOMAIN s.entries
      /\ id + 1 \notin DOMAIN s.entries /\ id + 1 # id
  BY <1>2, FreshIn
<1>4. IsSession(s) /\ Starts(h, s)
  BY <1>1, OpenIs
<1>5. first \in EntryType /\ (Good(s) => LegalEntry(s, first)) /\ first.id = id
  <2>1. "custom" \in Kinds /\ 0 \in 0..MaxEntries /\ "custom" # "compaction"
    BY SessionAssumption DEF Kinds
  <2> QED BY <1>1, <1>2, <2>1, EntryLegal
<1> HIDE DEF id
<1>6. second \in EntryType /\ second.id = id + 1 /\ second.parent = id /\ second.kind = "custom"
  BY <1>2, <1>3, SessionAssumption DEF Entry, EntryType, Kinds
<1> HIDE DEF first, second
<1>7. q \in RecordType /\ r \in RecordType
  BY <1>4, <1>5, <1>6, SessionAssumption DEF Record, RecordType, IsSession
<1>8. ASSUME Good(s) PROVE Adds(s, q) /\ Adds(Applied(s, q), r)
  <2> DEFINE after == Applied(s, q)
  <2>1. /\ Adds(s, q) /\ after.entries = WithEntry(s.entries, first) /\ after.leaf = id
        /\ ~after.closed /\ after.next = s.next + 1
    BY <1>1, <1>4, <1>5, <1>8, AddsEntry
  <2>2. IsSession(after)
    BY <2>1 DEF Adds, Good
  <2>3. DOMAIN after.entries = DOMAIN s.entries \cup {id}
    BY <1>5, <2>1 DEF WithEntry
  <2> HIDE DEF after, q
  <2>4. LegalEntry(after, second)
    <3>1. id \in DOMAIN after.entries /\ id + 1 \notin DOMAIN after.entries
      BY <1>3, <2>3
    <3>2. after.entries # <<>>
      <4>1. DOMAIN <<>> = {}
        OBVIOUS
      <4> QED BY <3>1, <4>1
    <3> QED BY <1>6, <3>1, <3>2, Zenon DEF LegalEntry
  <2>5. Adds(after, Record(after.next, "entry", second, 0))
    BY <1>6, <2>1, <2>2, <2>4, AddsEntry
  <2> QED BY <2>1, <2>5 DEF after
<1>9. Hands(h, s, records)
  <2> HIDE DEF q, r
  <2>1. records # <<>>
    OBVIOUS
  <2> HIDE DEF records
  <2>2. Carries(Framed(records), records)
    BY <2>1 DEF Carries
  <2> QED BY <1>1, <2>2 DEF Call, StartAppend, Hands
<1> HIDE DEF q, r
<1>10. records \in Seq(RecordType) /\ Len(records) \in 1..2
  <2> DEFINE R == RecordType
  <2>1. q \in R /\ r \in R
    BY <1>7
  <2> HIDE DEF R
  <2>2. records \in Seq(R) /\ Len(records) = 2
    BY <2>1
  <2> QED BY <2>2 DEF R
<1>11. Good(s) => Accepted(s, records)
  BY <1>7, <1>8 DEF Accepted
<1>12. Legal(h, s, records)
  BY <1>1, <1>4, <1>9, <1>10, <1>11 DEF Legal
<1> QED BY <1>12

LEMMA CallLegal ==
    ASSUME TypeInv, NEW h \in Handles, Calls(h)
    PROVE  \E s, records : Legal(h, s, records)
<1> QED BY CreateLegal, ResumeLegal, RecordMessageLegal, AppendCustomManyLegal,
           RecordCompactionLegal, ForkLegal, CloseLegal DEF Calls

-----------------------------------------------------------------------------
(* The store keeps its promise, whatever is called and whatever fails        *)

LEMMA InitInv ==
    ASSUME Init
    PROVE  TypeInv /\ StoreInv /\ Shown = <<>> /\ Safe = 0 /\ call = NoCall /\ phase = "idle"
<1>1. /\ file = <<>> /\ durable = 0 /\ size = 0 /\ phase = "idle"
      /\ mem = [h \in Handles |-> NoSession] /\ call = NoCall
  BY DEF Init, StoreInit
<1>2. file \in Seq(Lines(RecordType)) /\ Len(file) = 0 /\ DOMAIN file = {}
  <2> DEFINE L == Lines(RecordType)
  <2> HIDE DEF L
  <2>1. file \in Seq(L) /\ Len(file) = 0 /\ DOMAIN file = {}
    BY <1>1
  <2> QED BY <2>1 DEF L
<1>3. TypeInv
  BY <1>1, <1>2, NoSessionIs DEF TypeInv, StoreType
<1>4. StoreInv
  BY <1>1, <1>2 DEF StoreInv, Sane, Busy, Writing
<1>5. Visible(<<>>) = <<>>
  <2>1. Exposed(file)[0] = <<>>
    BY <1>2, ExposedNext
  <2> QED BY <1>1, <1>2, <2>1 DEF Visible
<1>6. Stored = <<>> /\ SubSeq(file, 1, durable) = <<>>
  BY <1>1 DEF Stored
<1>7. Shown = <<>> /\ Safe = 0
  <2>1. Len(<<>>) = 0
    OBVIOUS
  <2> QED BY <1>5, <1>6, <2>1 DEF Shown, Safe
<1> QED BY <1>1, <1>3, <1>4, <1>7

LEMMA CallEffect ==
    ASSUME TypeInv, StoreInv, NEW h \in Handles, NEW s, NEW records, Legal(h, s, records)
    PROVE  /\ TypeInv' /\ StoreInv' /\ Shown' = Shown /\ Safe' = Safe
           /\ phase = "idle" /\ phase' = "repair" /\ call'.records # <<>>
<1>1. /\ phase = "idle" /\ phase' = "repair" /\ UNCHANGED <<file, durable, size, mem>>
      /\ call' = [handle |-> h, records |-> records, from |-> s] /\ Carries(payload', records)
      /\ IsSession(s) /\ records \in Seq(RecordType) /\ Len(records) \in 1..2
  BY DEF Legal, Hands
<1>2. call'.handle = h /\ call'.records = records /\ call'.from = s
  BY <1>1
<1>3. records # <<>>
  <2>1. Len(<<>>) = 0 /\ 0 \notin 1..2
    OBVIOUS
  <2>2. Len(records) \in 1..2
    BY <1>1
  <2> QED BY <2>1, <2>2, Zenon
<1>4. Stored = file /\ Stored' = file
  BY <1>1 DEF Stored
<1>5. Shown' = Shown /\ Safe' = Safe
  BY <1>1, <1>4 DEF Shown, Safe
<1>6. StoreType' /\ (mem = [g \in Handles |-> mem[g]])' /\ \A g \in Handles : IsSession(mem'[g])
  BY <1>1 DEF TypeInv, StoreType, Busy
<1>7. TypeInv'
  <2>1. phase' # "idle" => /\ call'.handle \in Handles /\ IsSession(call'.from)
                          /\ call'.records \in Seq(RecordType) /\ Len(call'.records) \in 1..2
    BY <1>1, <1>2
  <2> HIDE DEF StoreType, IsSession
  <2> QED BY <1>6, <2>1 DEF TypeInv
<1>8. StoreInv'
  BY <1>1, <1>2, <1>3 DEF StoreInv, Busy, Writing
<1> QED BY <1>1, <1>2, <1>3, <1>5, <1>7, <1>8

LEMMA BusyStep ==
    ASSUME TypeInv, StoreStep
    PROVE  phase \in Busy
<1> QED BY DEF StoreStep, RepairTail, WritePayload, SyncPayload, RollBack, Interrupt, Busy, Writing

LEMMA StepTypes ==
    ASSUME TypeInv, StoreInv, StoreStep, UNCHANGED <<mem, call>>
    PROVE  TypeInv' /\ StoreInv' /\ phase \in Busy
<1>1. Effect /\ phase \in Busy
  BY StepEffect, BusyStep
<1>2. phase # "idle"
  BY <1>1 DEF Busy, Writing
<1>3. TypeInv'
  <2>1. StoreType'
    BY <1>1 DEF Effect
  <2> QED BY <1>2, <2>1 DEF TypeInv
<1> QED BY <1>1, <1>3 DEF Effect

LEMMA EndEffect ==
    ASSUME TypeInv, StoreInv, EndCall
    PROVE  /\ TypeInv' /\ StoreInv' /\ Shown' = Shown /\ Safe' = Safe
           /\ phase \in Over /\ phase' = "idle" /\ call' = NoCall
<1>1. /\ phase' = "idle" /\ UNCHANGED <<file, durable, size>> /\ phase \in Over /\ call' = NoCall
      /\ \/ mem' = [mem EXCEPT ![call.handle] = AppliedAll(call.from, call.records)]
         \/ mem' = mem
  BY DEF EndCall, EndAppend, Returned, Raised, Over
<1>2. Stored = file /\ Stored' = file
  BY <1>1 DEF Stored, Over
<1>3. Shown' = Shown /\ Safe' = Safe
  BY <1>1, <1>2 DEF Shown, Safe
<1>4. IsSession(AppliedAll(call.from, call.records)) /\ call.handle \in Handles
  BY <1>1, AppliedType DEF TypeInv, Over
<1>5. (mem = [g \in Handles |-> mem[g]])' /\ \A g \in Handles : IsSession(mem'[g])
  <2> HIDE DEF IsSession
  <2>1. mem = [g \in Handles |-> mem[g]] /\ \A g \in Handles : IsSession(mem[g])
    BY DEF TypeInv
  <2>2. CASE mem' = mem
    BY <2>1, <2>2
  <2>3. CASE mem' = [mem EXCEPT ![call.handle] = AppliedAll(call.from, call.records)]
    <3> DEFINE new == AppliedAll(call.from, call.records)
    <3> HIDE DEF new
    <3>1. IsSession(new)
      BY <1>4 DEF new
    <3>2. mem' = [mem EXCEPT ![call.handle] = new]
      BY <2>3 DEF new
    <3>3. \A g \in Handles : mem'[g] = IF g = call.handle THEN new ELSE mem[g]
      BY <2>1, <3>2
    <3>4. mem' = [g \in Handles |-> mem'[g]]
      BY <2>1, <3>2
    <3> QED BY <2>1, <3>1, <3>3, <3>4
  <2> QED BY <1>1, <2>2, <2>3
<1>6. StoreType'
  BY <1>1 DEF TypeInv, StoreType
<1>7. TypeInv'
  BY <1>1, <1>5, <1>6 DEF TypeInv
<1>8. StoreInv'
  BY <1>1 DEF StoreInv, Busy, Writing
<1> QED BY <1>1, <1>3, <1>7, <1>8

LEMMA CrashTypes ==
    ASSUME TypeInv, StoreInv, Crash
    PROVE  /\ TypeInv' /\ StoreInv' /\ Remain /\ phase' = "idle" /\ call' = NoCall
           /\ mem' = [h \in Handles |-> NoSession] /\ doubted' = {}
<1>1. /\ StoreCrash /\ mem' = [h \in Handles |-> NoSession] /\ call' = NoCall /\ phase' = "idle"
      /\ doubted' = {}
  BY DEF Crash, StoreCrash
<1>2. StoreType' /\ StoreInv' /\ Remain
  BY <1>1, CrashEffect
<1>3. TypeInv'
  BY <1>1, <1>2, NoSessionIs DEF TypeInv
<1> QED BY <1>1, <1>2, <1>3

LEMMA NextInv ==
    ASSUME TypeInv, StoreInv, [Next]_vars
    PROVE  TypeInv' /\ StoreInv'
<1>1. CASE \E h \in Handles : Calls(h)
  BY <1>1, CallLegal, CallEffect
<1>2. CASE StoreStep /\ UNCHANGED <<mem, call, doubted, spoilt>>
  BY <1>2, StepTypes
<1>3. CASE EndCall
  BY <1>3, EndEffect
<1>4. CASE Crash
  BY <1>4, CrashTypes
<1>5. CASE UNCHANGED vars
  <2>1. UNCHANGED <<file, durable, phase, payload, size, mem, call>>
    BY <1>5 DEF vars, storeVars
  <2> QED BY <2>1 DEF TypeInv, StoreType, StoreInv, Whole, Stored
<1> QED BY <1>1, <1>2, <1>3, <1>4, <1>5 DEF Next, Calls

(* The types of a Session and its store, and what the store may have written *)
(* call by call, hold in every state.                                        *)
THEOREM TypeCorrect == Spec => [](TypeInv /\ StoreInv)
<1>1. Init => TypeInv /\ StoreInv
  BY InitInv
<1>2. TypeInv /\ StoreInv /\ [Next]_vars => TypeInv' /\ StoreInv'
  BY NextInv
<1> QED BY <1>1, <1>2, PTL DEF Spec

(* Whatever an append, an interrupt or a crash leaves of its lines, the file *)
(* is never one the scan refuses as corrupt.                                 *)
THEOREM AlwaysLoads == Spec => []LoadsAccepted
<1>1. TypeInv /\ StoreInv => LoadsAccepted
  BY SaneAccepted DEF TypeInv, StoreType, StoreInv, LoadsAccepted
<1> QED BY <1>1, TypeCorrect, PTL

Fate == IF InProgress THEN "running" ELSE phase

LEMMA FateIs ==
    /\ phase \in Busy <=> InProgress
    /\ phase \in Busy => Fate = "running"
    /\ phase \notin Busy => Fate = phase
<1> QED BY DEF InProgress, Fate, Busy, Writing

(* Every step of the store is one of its promise, or nothing a load can tell.*)
LEMMA NextPromise ==
    ASSUME TypeInv, StoreInv, [Next]_vars
    PROVE  [Promise!Next]_(Promise!storeVars)
<1>0. /\ Visible(Stored) = Shown /\ (Visible(Stored))' = Shown'
      /\ Len(Visible(SubSeq(file, 1, durable))) = Safe
      /\ (Len(Visible(SubSeq(file, 1, durable))))' = Safe'
      /\ (IF InProgress THEN "running" ELSE phase) = Fate
      /\ (IF InProgress THEN "running" ELSE phase)' = Fate'
  BY DEF Shown, Safe, Fate
<1>1. ASSUME NEW h \in Handles, Calls(h) PROVE Promise!Start
  <2>1. PICK s, records : Legal(h, s, records)
    BY <1>1, CallLegal
  <2>2. /\ Shown' = Shown /\ Safe' = Safe /\ phase = "idle" /\ phase' = "repair"
        /\ call'.records # <<>>
    BY <2>1, CallEffect
  <2>3. Fate = "idle" /\ Fate' = "running"
    BY <2>2 DEF Fate, InProgress
  <2> QED BY <1>0, <2>2, <2>3 DEF Promise!Start
<1>2. ASSUME StoreStep, UNCHANGED <<mem, call, doubted, spoilt>>
      PROVE  Promise!Settle \/ Promise!Return \/ Promise!Raise \/ Promise!Doubt
  <2>1. Effect /\ phase \in Busy /\ call' = call
    BY <1>2, StepEffect, BusyStep
  <2>2. Fate = "running"
    BY <2>1, FateIs
  <2>3. CASE Settles
    <3>1. Fate' = "running"
      BY <2>3 DEF Settles, Fate, InProgress, Busy, Writing
    <3> QED BY <1>0, <2>1, <2>2, <2>3, <3>1 DEF Settles, Promise!Settle
  <2>4. CASE Returns
    <3>1. Fate' = "returned"
      BY <2>4 DEF Returns, Fate, InProgress
    <3> QED BY <1>0, <2>1, <2>2, <2>4, <3>1 DEF Returns, Promise!Return
  <2>5. CASE Raises
    <3>1. Fate' = "raised"
      BY <2>5 DEF Raises, Fate, InProgress
    <3> QED BY <1>0, <2>1, <2>2, <2>5, <3>1 DEF Raises, Promise!Raise
  <2>6. CASE Doubts
    <3>1. Fate' = "unsure"
      BY <2>6 DEF Doubts, Fate, InProgress
    <3> QED BY <1>0, <2>1, <2>2, <2>6, <3>1 DEF Doubts, Promise!Doubt
  <2> QED BY <2>1, <2>3, <2>4, <2>5, <2>6 DEF Effect
<1>3. ASSUME EndCall PROVE Promise!Finish
  <2>1. /\ Shown' = Shown /\ Safe' = Safe /\ phase \in Over /\ phase' = "idle" /\ call' = NoCall
    BY <1>3, EndEffect
  <2>2. Fate \in Over /\ Fate' = "idle" /\ call'.records = <<>>
    BY <2>1 DEF Fate, InProgress, Over, NoCall
  <2> QED BY <1>0, <2>1, <2>2 DEF Promise!Finish, Over
<1>4. ASSUME Crash PROVE Promise!Crash
  <2>1. Remain /\ phase' = "idle" /\ call' = NoCall
    BY <1>4, CrashTypes
  <2>2. Fate' = "idle" /\ call'.records = <<>>
    BY <2>1 DEF Fate, InProgress, NoCall
  <2>3. Fate = "running" <=> phase \in Busy
    BY DEF TypeInv, StoreType, Fate, InProgress, Busy, Writing, Over
  <2> QED BY <1>0, <2>1, <2>2, <2>3 DEF Remain, Promise!Crash
<1>5. CASE UNCHANGED vars
  <2>1. UNCHANGED <<file, durable, phase, payload, size, mem, call>>
    BY <1>5 DEF vars, storeVars
  <2>2. Shown' = Shown /\ Safe' = Safe /\ Fate' = Fate /\ (call.records)' = call.records
    BY <2>1 DEF Shown, Stored, Safe, Fate, InProgress
  <2> QED BY <1>0, <2>2 DEF Promise!storeVars
<1> QED BY <1>1, <1>2, <1>3, <1>4, <1>5 DEF Next, Calls, Promise!Next

(* The store implements its promise: what a call returned stays, what it     *)
(* raised is not there, and a batch is there whole or not at all.            *)
THEOREM KeepsPromise == Spec => StorePromise
<1>1. Init => Promise!Init
  <2> SUFFICES ASSUME Init PROVE Promise!Init
    OBVIOUS
  <2>1. Shown = <<>> /\ Safe = 0 /\ call = NoCall /\ phase = "idle"
    BY InitInv
  <2>2. /\ Visible(Stored) = <<>> /\ Len(Visible(SubSeq(file, 1, durable))) = 0
        /\ call.records = <<>> /\ (IF InProgress THEN "running" ELSE phase) = "idle"
    BY <2>1 DEF Shown, Safe, NoCall, InProgress
  <2> QED BY <2>2 DEF Promise!Init
<1>2. TypeInv /\ StoreInv /\ [Next]_vars => [Promise!Next]_(Promise!storeVars)
  BY NextPromise
<1> QED BY <1>1, <1>2, TypeCorrect, PTL DEF Spec, StorePromise, Promise!Spec

-----------------------------------------------------------------------------
(* What the handles know of the log *)

(* The Session a load makes of the batches of a log.                         *)
At(batches) == Replay(FlattenSeq(batches))

(* Wherever a log is cut between its batches, a Session comes of it.         *)
GoodLog(batches) == \A n \in 1..Len(batches) : Good(At(SubSeq(batches, 1, n)))

Knowing == {h \in Handles \ doubted : ~mem[h].closed}

LogInv == GoodLog(Shown)

(* The one open handle, if there is one, is where the log is; a call is of   *)
(* that handle, or there is none and it opens one.                           *)
HandleInv ==
    /\ \A g, h \in Knowing : g = h
    /\ phase \notin {"returned", "unsure"} => \A h \in Knowing : mem[h] = At(Shown) /\ Shown # <<>>
    /\ phase # "idle" => \A h \in Knowing : h = call.handle

CallInv ==
    /\ phase # "idle" => Accepted(call.from, call.records)
    /\ phase \in Busy => call.from = At(Shown)
    /\ phase = "returned" => At(Shown) = AppliedAll(call.from, call.records) /\ Shown # <<>>

MemInv == ~spoilt => LogInv /\ HandleInv /\ CallInv

LEMMA AtNothing == At(<<>>) = NewSession
<1> QED BY FlattenNothing, ReplayNothing DEF At

LEMMA AtNext ==
    ASSUME NEW batches \in Seq(Seq(RecordType)), NEW records \in Seq(RecordType),
           Accepted(At(batches), records)
    PROVE  /\ At(Append(batches, records)) = AppliedAll(At(batches), records)
           /\ Good(At(Append(batches, records)))
<1> DEFINE flat == FlattenSeq(batches)
           R == RecordType
<1>1. flat \in Seq(R)
  BY FlattenType
<1>2. At(Append(batches, records)) = Replay(flat \o records) /\ At(batches) = Replay(flat)
  BY FlattenOneMore DEF At
<1> HIDE DEF flat
<1>3. CASE \E r \in RecordType : records = <<r>> /\ Adds(At(batches), r)
  <2>1. PICK r \in RecordType : records = <<r>> /\ Adds(At(batches), r)
    BY <1>3
  <2>2. flat \o <<r>> = Append(flat, r)
    <3>1. r \in R
      OBVIOUS
    <3> HIDE DEF R
    <3> QED BY <1>1, <3>1
  <2>3. Replay(flat \o records) = ReplayRecord(At(batches), r)
    BY <1>1, <1>2, <2>1, <2>2, ReplayOneMore
  <2>4. Replay(flat \o records) = Applied(At(batches), r) /\ Good(Applied(At(batches), r))
    BY <2>1, <2>3 DEF Adds
  <2> QED BY <1>2, <2>1, <2>4, AppliedOne
<1>4. CASE \E q, r \in RecordType :
              records = <<q, r>> /\ Adds(At(batches), q) /\ Adds(Applied(At(batches), q), r)
  <2>1. PICK q \in RecordType, r \in RecordType :
            records = <<q, r>> /\ Adds(At(batches), q) /\ Adds(Applied(At(batches), q), r)
    BY <1>4
  <2>2. flat \o <<q, r>> = Append(Append(flat, q), r) /\ Append(flat, q) \in Seq(R)
    <3>1. q \in R /\ r \in R
      OBVIOUS
    <3> HIDE DEF R
    <3> QED BY <1>1, <3>1
  <2>3. Replay(Append(flat, q)) = ReplayRecord(At(batches), q)
    BY <1>1, <1>2, ReplayOneMore
  <2>4. Replay(Append(flat, q)) = Applied(At(batches), q)
    BY <2>1, <2>3 DEF Adds
  <2>5. Replay(flat \o records) = ReplayRecord(Applied(At(batches), q), r)
    BY <2>1, <2>2, <2>4, ReplayOneMore
  <2>6. /\ Replay(flat \o records) = Applied(Applied(At(batches), q), r)
        /\ Good(Applied(Applied(At(batches), q), r))
    BY <2>1, <2>5 DEF Adds
  <2> QED BY <1>2, <2>1, <2>6, AppliedTwo
<1> QED BY <1>3, <1>4 DEF Accepted

LEMMA GoodLogPrefix ==
    ASSUME NEW S, NEW t \in Seq(S), NEW k \in 0..Len(t), GoodLog(t)
    PROVE  GoodLog(SubSeq(t, 1, k))
<1> DEFINE s == SubSeq(t, 1, k)
<1>1. Len(s) = k /\ k \in Nat /\ Len(t) \in Nat
  OBVIOUS
<1>2. ASSUME NEW n \in 1..k PROVE SubSeq(s, 1, n) = SubSeq(t, 1, n) /\ n \in 1..Len(t)
  BY <1>1
<1> HIDE DEF s
<1> QED BY <1>1, <1>2 DEF GoodLog, s

LEMMA GoodLogNext ==
    ASSUME NEW S, NEW s \in Seq(S), NEW e \in S, GoodLog(s), Good(At(Append(s, e)))
    PROVE  GoodLog(Append(s, e))
<1> DEFINE t == Append(s, e)
<1>1. Len(t) = Len(s) + 1 /\ Len(s) \in Nat /\ SubSeq(t, 1, Len(t)) = t
  OBVIOUS
<1>2. ASSUME NEW n \in 1..Len(t), n # Len(t)
      PROVE SubSeq(t, 1, n) = SubSeq(s, 1, n) /\ n \in 1..Len(s)
  BY <1>1, <1>2
<1>3. Good(At(t))
  OBVIOUS
<1> HIDE DEF t
<1> QED BY <1>1, <1>2, <1>3 DEF GoodLog, t

LEMMA GoodLogAll ==
    ASSUME NEW S, NEW s \in Seq(S), GoodLog(s), s # <<>>
    PROVE  Good(At(s))
<1>1. Len(s) \in 1..Len(s) /\ SubSeq(s, 1, Len(s)) = s
  OBVIOUS
<1> QED BY <1>1 DEF GoodLog

LEMMA NewIsNotGood == ~Good(NewSession)
<1>1. DOMAIN <<>> = {}
  OBVIOUS
<1> QED BY <1>1 DEF Good, NewSession

(* The log of a call that is begun, returned or in doubt.                    *)
LEMMA BatchGood ==
    ASSUME TypeInv, StoreInv, MemInv, ~spoilt, phase \in Busy
    PROVE  /\ At(Append(Shown, call.records)) = AppliedAll(call.from, call.records)
           /\ GoodLog(Append(Shown, call.records)) /\ Append(Shown, call.records) # <<>>
<1> DEFINE records == call.records
           S == Seq(RecordType)
<1>1. /\ GoodLog(Shown) /\ call.from = At(Shown) /\ Accepted(call.from, records)
      /\ records \in Seq(RecordType) /\ Shown \in Seq(Seq(RecordType))
  BY StoredIs DEF MemInv, LogInv, CallInv, TypeInv, Busy, Writing
<1> HIDE DEF records
<1>2. /\ At(Append(Shown, records)) = AppliedAll(At(Shown), records)
      /\ Good(At(Append(Shown, records)))
  BY <1>1, AtNext
<1>3. GoodLog(Append(Shown, records)) /\ Append(Shown, records) # <<>>
  <2>1. records \in S /\ Shown \in Seq(S)
    BY <1>1
  <2> HIDE DEF S, Shown
  <2> QED BY <1>1, <1>2, <2>1, GoodLogNext
<1> QED BY <1>1, <1>2, <1>3 DEF records

LEMMA LogIsShown ==
    ASSUME TypeInv, StoreInv, phase \in {"idle"} \cup Over
    PROVE  Visible(file) = Shown /\ Replay(Log) = At(Shown) /\ Log = FlattenSeq(Shown)
<1>1. Stored = file
  BY DEF Stored, Over
<1> QED BY <1>1 DEF Shown, Log, At

LEMMA CallMem ==
    ASSUME TypeInv, StoreInv, MemInv, NEW h \in Handles, NEW s, NEW records, Legal(h, s, records)
    PROVE  MemInv'
<1> SUFFICES ASSUME ~spoilt' PROVE LogInv' /\ HandleInv' /\ CallInv'
  BY DEF MemInv
<1>1. /\ phase = "idle" /\ phase' = "repair" /\ mem' = mem /\ doubted' = doubted
      /\ call' = [handle |-> h, records |-> records, from |-> s]
      /\ ~spoilt /\ ~(h \in doubted /\ s = mem[h]) /\ Starts(h, s)
      /\ (mem[h].closed /\ s = NewSession) \/ Good(s) => Accepted(s, records)
  BY DEF Legal, Hands
<1>2. call'.handle = h /\ call'.records = records /\ call'.from = s
  BY <1>1
<1>3. Shown' = Shown /\ Shown \in Seq(Seq(RecordType))
  BY CallEffect, StoredIs
<1>4. /\ GoodLog(Shown) /\ (\A f, g \in Knowing : f = g)
      /\ (\A g \in Knowing : mem[g] = At(Shown) /\ Shown # <<>>)
  BY <1>1 DEF MemInv, LogInv, HandleInv
<1>5. Shown # <<>> => Good(At(Shown))
  <2> DEFINE S == Seq(RecordType)
  <2>1. Shown \in Seq(S)
    BY <1>3
  <2> HIDE DEF S, Shown
  <2> QED BY <1>4, <2>1, GoodLogAll
<1>6. Replay(Log) = At(Shown) /\ (Log # <<>> => Shown # <<>>)
  BY <1>1, LogIsShown, FlattenNothing
<1>7. Knowing' = Knowing
  BY <1>1 DEF Knowing
<1>8. Accepted(s, records) /\ s = At(Shown) /\ \A g \in Knowing : g = h
  <2>1. CASE ~mem[h].closed /\ s = mem[h]
    <3>1. h \in Knowing
      BY <1>1, <2>1 DEF Knowing
    <3>2. s = At(Shown) /\ Good(s)
      BY <1>4, <1>5, <2>1, <3>1
    <3> QED BY <1>1, <1>4, <3>1, <3>2
  <2>2. CASE mem[h].closed /\ Log = <<>> /\ s = NewSession
    <3>1. At(Shown) = NewSession
      BY <1>6, <2>2, ReplayNothing
    <3>2. Shown = <<>>
      BY <1>5, <3>1, NewIsNotGood
    <3> QED BY <1>1, <1>4, <2>2, <3>1, <3>2
  <2>3. CASE mem[h].closed /\ Log # <<>> /\ s = Replay(Log) /\ s.closed
    <3>1. s = At(Shown) /\ Good(s)
      BY <1>5, <1>6, <2>3
    <3>2. Knowing = {}
      <4> SUFFICES ASSUME NEW g \in Knowing PROVE FALSE
        OBVIOUS
      <4>1. mem[g] = s
        BY <1>4, <3>1
      <4>2. ~mem[g].closed
        BY DEF Knowing
      <4> QED BY <2>3, <4>1, <4>2
    <3> QED BY <1>1, <3>1, <3>2
  <2> QED BY <1>1, <2>1, <2>2, <2>3 DEF Starts
<1>9. LogInv'
  BY <1>3, <1>4 DEF LogInv
<1>10. HandleInv'
  <2>1. \A g \in Knowing' : mem'[g] = At(Shown') /\ Shown' # <<>>
    BY <1>1, <1>3, <1>4, <1>7
  <2>2. \A g \in Knowing' : g = call'.handle
    BY <1>2, <1>7, <1>8
  <2>3. \A f, g \in Knowing' : f = g
    BY <1>4, <1>7
  <2> QED BY <1>1, <2>1, <2>2, <2>3 DEF HandleInv
<1>11. CallInv'
  <2>1. Accepted(call'.from, call'.records)
    BY <1>2, <1>8
  <2>2. call'.from = At(Shown')
    BY <1>2, <1>3, <1>8
  <2> QED BY <1>1, <2>1, <2>2 DEF CallInv
<1> QED BY <1>9, <1>10, <1>11

LEMMA StepMem ==
    ASSUME TypeInv, StoreInv, MemInv, StoreStep, UNCHANGED <<mem, call, doubted, spoilt>>
    PROVE  MemInv'
<1> SUFFICES ASSUME ~spoilt' PROVE LogInv' /\ HandleInv' /\ CallInv'
  BY DEF MemInv
<1>1. Effect /\ phase \in Busy /\ ~spoilt /\ UNCHANGED <<mem, call, doubted>>
  BY StepEffect, BusyStep
<1>2. phase # "idle" /\ phase \notin {"returned", "unsure"}
  BY <1>1 DEF Busy, Writing
<1>3. /\ GoodLog(Shown) /\ (\A f, g \in Knowing : f = g)
      /\ (\A g \in Knowing : mem[g] = At(Shown) /\ Shown # <<>> /\ g = call.handle)
      /\ Accepted(call.from, call.records) /\ call.from = At(Shown)
  BY <1>1, <1>2 DEF MemInv, LogInv, HandleInv, CallInv
<1>4. /\ At(Append(Shown, call.records)) = AppliedAll(call.from, call.records)
      /\ GoodLog(Append(Shown, call.records)) /\ Append(Shown, call.records) # <<>>
  BY <1>1, BatchGood
<1>5. Knowing' = Knowing /\ phase' # "idle"
  BY <1>1 DEF Knowing, Effect, Settles, Returns, Raises, Doubts, Busy, Writing
<1>6. Accepted((call.from)', (call.records)')
  BY <1>1, <1>3
<1>7. CASE Settles \/ Raises
  <2>1. Shown' = Shown /\ phase' # "returned"
    BY <1>7 DEF Settles, Raises, Busy, Writing
  <2>2. LogInv'
    BY <1>3, <2>1 DEF LogInv
  <2>3. HandleInv'
    BY <1>1, <1>3, <1>5, <2>1 DEF HandleInv
  <2>4. CallInv'
    BY <1>1, <1>3, <1>6, <2>1 DEF CallInv
  <2> QED BY <2>2, <2>3, <2>4
<1>8. CASE Returns
  <2>1. Shown' = Append(Shown, call.records) /\ phase' = "returned"
    BY <1>8 DEF Returns
  <2>2. LogInv'
    BY <1>4, <2>1 DEF LogInv
  <2>3. HandleInv'
    BY <1>1, <1>3, <1>5, <2>1 DEF HandleInv
  <2>4. CallInv'
    BY <1>1, <1>4, <1>6, <2>1 DEF CallInv, Busy, Writing
  <2> QED BY <2>2, <2>3, <2>4
<1>9. CASE Doubts
  <2>1. Shown' \in {Shown, Append(Shown, call.records)} /\ phase' = "unsure"
    BY <1>9 DEF Doubts
  <2>2. LogInv'
    BY <1>3, <1>4, <2>1 DEF LogInv
  <2>3. HandleInv'
    BY <1>1, <1>3, <1>5, <2>1 DEF HandleInv
  <2>4. CallInv'
    BY <1>6, <2>1 DEF CallInv, Busy, Writing
  <2> QED BY <2>2, <2>3, <2>4
<1> QED BY <1>1, <1>7, <1>8, <1>9 DEF Effect

LEMMA EndMem ==
    ASSUME TypeInv, StoreInv, MemInv, EndCall
    PROVE  MemInv'
<1> SUFFICES ASSUME ~spoilt' PROVE LogInv' /\ HandleInv' /\ CallInv'
  BY DEF MemInv
<1>1. /\ Shown' = Shown /\ phase \in Over /\ phase' = "idle" /\ ~spoilt
      /\ Returned \/ Raised
  BY EndEffect DEF EndCall
<1>2. /\ GoodLog(Shown) /\ (\A f, g \in Knowing : f = g) /\ (\A g \in Knowing : g = call.handle)
      /\ (phase = "raised" => \A g \in Knowing : mem[g] = At(Shown) /\ Shown # <<>>)
      /\ (phase = "returned" => At(Shown) = AppliedAll(call.from, call.records) /\ Shown # <<>>)
  BY <1>1 DEF MemInv, LogInv, HandleInv, CallInv, Over
<1>3. LogInv' /\ CallInv'
  BY <1>1, <1>2 DEF LogInv, CallInv, Busy, Writing
<1>4. CASE Returned
  <2> DEFINE new == AppliedAll(call.from, call.records)
  <2> HIDE DEF new
  <2>1. /\ phase = "returned" /\ mem' = [mem EXCEPT ![call.handle] = new]
        /\ doubted' = doubted \ {call.handle} /\ At(Shown) = new /\ Shown # <<>>
    BY <1>2, <1>4 DEF Returned, new
  <2>2. call.handle \in Handles /\ mem = [h \in Handles |-> mem[h]]
    BY <1>1 DEF TypeInv, Over
  <2>3. \A g \in Handles : mem'[g] = IF g = call.handle THEN new ELSE mem[g]
    BY <2>1, <2>2
  <2>4. ASSUME NEW g \in Knowing' PROVE g = call.handle /\ mem'[g] = At(Shown)
    <3>1. g \in Handles /\ g \notin doubted' /\ ~mem'[g].closed
      BY <2>4 DEF Knowing
    <3>2. ASSUME g # call.handle PROVE FALSE
      <4>1. g \in Knowing
        BY <2>1, <2>3, <3>1, <3>2 DEF Knowing
      <4> QED BY <1>2, <3>2, <4>1
    <3> QED BY <2>1, <2>2, <2>3, <3>2
  <2>5. HandleInv'
    BY <1>1, <2>1, <2>4 DEF HandleInv
  <2> QED BY <1>3, <2>5
<1>5. CASE Raised /\ phase = "raised"
  <2>1. Knowing' = Knowing /\ mem' = mem
    BY <1>5 DEF Raised, Knowing
  <2>2. HandleInv'
    BY <1>1, <1>2, <1>5, <2>1 DEF HandleInv
  <2> QED BY <1>3, <2>2
<1>6. CASE Raised /\ phase = "unsure"
  <2>1. mem' = mem /\ doubted' = doubted \cup {call.handle}
    BY <1>6 DEF Raised
  <2>2. Knowing' = {}
    BY <1>2, <2>1 DEF Knowing
  <2>3. HandleInv'
    BY <2>2 DEF HandleInv
  <2> QED BY <1>3, <2>3
<1> QED BY <1>1, <1>4, <1>5, <1>6 DEF Raised

LEMMA CrashMem ==
    ASSUME TypeInv, StoreInv, MemInv, Crash
    PROVE  MemInv'
<1> SUFFICES ASSUME ~spoilt' PROVE LogInv' /\ HandleInv' /\ CallInv'
  BY DEF MemInv
<1> DEFINE known == IF phase \in Busy THEN Append(Shown, call.records) ELSE Shown
           S == Seq(RecordType)
<1>1. /\ Remain /\ phase' = "idle" /\ mem' = [h \in Handles |-> NoSession] /\ ~spoilt
  BY CrashTypes DEF Crash
<1>2. GoodLog(known)
  BY <1>1, BatchGood DEF MemInv, LogInv
<1>3. known \in Seq(S)
  <2>1. Shown \in Seq(S) /\ (phase \in Busy => call.records \in S)
    BY StoredIs DEF TypeInv, Busy, Writing
  <2> HIDE DEF S, Shown
  <2> QED BY <2>1
<1>4. LogInv'
  <2>1. Shown' = SubSeq(known, 1, Len(Shown')) /\ Len(Shown') \in Safe..Len(known) /\ Safe \in Nat
    BY <1>1, SafeAtMost DEF Remain
  <2> DEFINE k == Len(Shown')
             now == Shown'
  <2> HIDE DEF S, known, k
  <2>2. k \in 0..Len(known)
    BY <2>1 DEF k
  <2>3. GoodLog(SubSeq(known, 1, k))
    BY <1>2, <1>3, <2>2, GoodLogPrefix
  <2>4. now = SubSeq(known, 1, k)
    BY <2>1 DEF k
  <2>5. GoodLog(now)
    <3> HIDE DEF now
    <3> QED BY <2>3, <2>4
  <2> QED BY <2>5 DEF LogInv
<1>5. Knowing' = {}
  BY <1>1 DEF Knowing, NoSession
<1>6. HandleInv'
  BY <1>1, <1>5 DEF HandleInv
<1>7. CallInv'
  BY <1>1 DEF CallInv, Busy, Writing
<1> QED BY <1>4, <1>6, <1>7

LEMMA NextMem ==
    ASSUME TypeInv, StoreInv, MemInv, [Next]_vars
    PROVE  MemInv'
<1>1. CASE \E h \in Handles : Calls(h)
  BY <1>1, CallLegal, CallMem
<1>2. CASE StoreStep /\ UNCHANGED <<mem, call, doubted, spoilt>>
  BY <1>2, StepMem
<1>3. CASE EndCall
  BY <1>3, EndMem
<1>4. CASE Crash
  BY <1>4, CrashMem
<1>5. CASE UNCHANGED vars
  <2>1. UNCHANGED <<file, durable, phase, payload, size, mem, call, doubted, spoilt>>
    BY <1>5 DEF vars, storeVars
  <2>2. Shown' = Shown /\ Knowing' = Knowing /\ (call.from)' = call.from
        /\ (call.records)' = call.records
    BY <2>1 DEF Shown, Stored, Knowing
  <2> QED BY <2>1, <2>2 DEF MemInv, LogInv, HandleInv, CallInv
<1> QED BY <1>1, <1>2, <1>3, <1>4, <1>5 DEF Next, Calls

LEMMA InitMem ==
    ASSUME Init
    PROVE  MemInv
<1>1. Shown = <<>> /\ phase = "idle" /\ mem = [h \in Handles |-> NoSession]
  BY InitInv DEF Init
<1>2. Len(<<>>) = 0
  OBVIOUS
<1>3. LogInv
  <2>1. 1..0 = {}
    OBVIOUS
  <2> QED BY <1>1, <1>2, <2>1 DEF LogInv, GoodLog
<1>4. Knowing = {}
  BY <1>1 DEF Knowing, NoSession
<1>5. HandleInv /\ CallInv
  BY <1>1, <1>4 DEF HandleInv, CallInv, Busy, Writing
<1> QED BY <1>3, <1>5 DEF MemInv

(* What the handles know of the log, and the log of itself.                  *)
THEOREM MemCorrect == Spec => []MemInv
<1>1. Init => MemInv
  BY InitMem
<1>2. TypeInv /\ StoreInv /\ MemInv /\ [Next]_vars => MemInv'
  BY NextMem
<1> QED BY <1>1, <1>2, TypeCorrect, PTL DEF Spec

(* As long as no handle goes on after an append of unknown outcome, every    *)
(* log a crash or a fault leaves replays, in the middle of a call too.       *)
THEOREM AlwaysRecoverable == Spec => []Recoverable
<1>1. TypeInv /\ StoreInv /\ MemInv => Recoverable
  <2> SUFFICES ASSUME TypeInv, StoreInv, MemInv, ~spoilt, Log # <<>>
               PROVE  Replay(Log) # Refused
    BY DEF Recoverable
  <2> DEFINE found == Visible(file)
             S == Seq(RecordType)
  <2>1. GoodLog(found)
    <3>1. CASE phase \in Writing
      <4>1. file \in Cuts(Whole, size) /\ phase \in Busy
        BY <3>1 DEF StoreInv, Busy
      <4>2. found \in {Shown, Append(Shown, call.records)}
        BY <3>1, <4>1, CutShows
      <4> QED BY <4>1, <4>2, BatchGood DEF MemInv, LogInv
    <3>2. CASE phase \notin Writing
      <4>1. found = Shown
        BY <3>2, StoredIs DEF Shown
      <4> QED BY <4>1 DEF MemInv, LogInv
    <3> QED BY <3>1, <3>2
  <2>2. found \in Seq(S) /\ found # <<>>
    BY LogType, FlattenNothing DEF Log
  <2>3. Good(At(found))
    <3> HIDE DEF S, found
    <3> QED BY <2>1, <2>2, GoodLogAll
  <2> QED BY <2>3, NotRefused DEF Good, At, Log
<1> QED BY <1>1, TypeCorrect, MemCorrect, PTL

(* An open handle that knows what it stored is where a replay of the log     *)
(* would be: its tree, its active leaf and its next sequence number.         *)
THEOREM AlwaysFollowsLog == Spec => []HandleFollowsLog
<1>1. TypeInv /\ StoreInv /\ MemInv => HandleFollowsLog
  BY LogIsShown DEF HandleFollowsLog, MemInv, HandleInv, Knowing
<1> QED BY <1>1, TypeCorrect, MemCorrect, PTL

(* The close record is a lock: at most one handle that knows what it stored  *)
(* is open.                                                                  *)
THEOREM AlwaysSingleWriter == Spec => []SingleWriter
<1>1. MemInv => SingleWriter
  BY DEF SingleWriter, MemInv, HandleInv, Knowing
<1> QED BY <1>1, MemCorrect, PTL
=============================================================================
