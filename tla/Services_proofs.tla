--------------------------- MODULE Services_proofs ---------------------------
(* Theorems about the authorities that keep the platform's information and     *)
(* evidence: data, for any records, values, files, migrations and depth of     *)
(* nesting; then, as parts of Services, configuration, notifications,          *)
(* versions, certification and health, for any values of their constants.      *)
EXTENDS Services, TLAPS, SequenceTheorems, FiniteSetTheorems, WellFoundedInduction

-----------------------------------------------------------------------------
(* The contents, and what holds of them wherever one is kept: in the open      *)
(* database, in a savepoint, in a file.                                        *)

Distinct(x) == \A i, j \in Ids : i # j /\ x.rows[i] # Nothing => x.rows[j] = Nothing \/ x.rows[j].value # x.rows[i].value
Fine == {x \in Content : Distinct(x)}
MarkT == [name : Nat, saved : Fine]
Conn == [content : Fine, marks : Seq(MarkT)]

(* SQLite's stack while d transactions are open: the k-th mark is the last of  *)
(* its name and of the smaller ones; savepoints that a ROLLBACK TO left on the *)
(* stack may follow it.                                                        *)
Top(c, n, k) ==
  /\ k \in DOMAIN c.marks /\ c.marks[k].name = n
  /\ \A j \in DOMAIN c.marks : j > k => c.marks[j].name > n
Stack(c, d) ==
  /\ c \in Conn
  /\ d = 0 => c.marks = <<>>
  /\ \A n \in 0..(d - 1) : \E k \in DOMAIN c.marks : Top(c, n, k)
  /\ \A k \in DOMAIN c.marks : c.marks[k].name <= d /\ (c.marks[k].name = 0 => k = 1)
  /\ \A j, k \in DOMAIN c.marks : j < k => c.marks[j].name <= c.marks[k].name

\* What the database held when the transaction begun at depth n began.
Start(c, n) == c.marks[Nearest(c, n)].saved
SameStarts(c, e, d) == \A n \in 0..(d - 1) : Start(c, n) = Start(e, n)

LEMMA MarksType ==
  ASSUME NEW c \in Conn
  PROVE  /\ c.content \in Fine /\ c.marks \in Seq(MarkT) /\ Len(c.marks) \in Nat /\ DOMAIN c.marks = 1..Len(c.marks)
         /\ \A k \in DOMAIN c.marks : c.marks[k] \in MarkT /\ c.marks[k].name \in Nat /\ c.marks[k].saved \in Fine
  <1>1. c.content \in Fine /\ c.marks \in Seq(MarkT)
    BY DEF Conn
  <1>2. Len(c.marks) \in Nat /\ DOMAIN c.marks = 1..Len(c.marks)
    BY <1>1, LenProperties
  <1>3. \A k \in DOMAIN c.marks : c.marks[k] \in MarkT
    BY <1>1, <1>2, ElementOfSeq
  <1> QED
    BY <1>1, <1>2, <1>3 DEF MarkT

\* The last mark of a name is the nearest.
LEMMA NearestIsTop ==
  ASSUME NEW c \in Conn, NEW n \in Nat, NEW k \in DOMAIN c.marks, Top(c, n, k)
  PROVE  Nearest(c, n) = k
  <1> DEFINE S == {j \in DOMAIN c.marks : c.marks[j].name = n}
  <1>1. k \in S /\ \A j \in S : j \in Nat /\ k >= j
    BY MarksType DEF Top
  <1>2. \A x \in S : (\A y \in S : x >= y) => x = k
    BY <1>1
  <1> HIDE DEF S
  <1>3. Max(S) = k
    BY <1>1, <1>2 DEF Max
  <1> QED
    BY <1>3 DEF Nearest, S

LEMMA StackTop ==
  ASSUME NEW c, NEW d \in Nat, Stack(c, d), NEW n \in 0..(d - 1)
  PROVE  /\ Top(c, n, Nearest(c, n)) /\ Nearest(c, n) \in DOMAIN c.marks
         /\ Start(c, n) \in Fine
  <1>1. PICK k \in DOMAIN c.marks : Top(c, n, k)
    BY DEF Stack
  <1>2. Nearest(c, n) = k
    BY <1>1, NearestIsTop DEF Stack
  <1> QED
    BY <1>1, <1>2, MarksType DEF Stack, Start

\* What keeps the last marks keeps the starts.
LEMMA TopsKeepStarts ==
  ASSUME NEW c, NEW e \in Conn, NEW d \in Nat, Stack(c, d),
         \A n \in 0..(d - 1), k \in DOMAIN c.marks :
           Top(c, n, k) => k \in DOMAIN e.marks /\ Top(e, n, k) /\ e.marks[k] = c.marks[k]
  PROVE  SameStarts(c, e, d)
  <1> SUFFICES ASSUME NEW n \in 0..(d - 1) PROVE Start(c, n) = Start(e, n)
    BY DEF SameStarts
  <1>1. PICK k \in DOMAIN c.marks : Top(c, n, k)
    BY DEF Stack
  <1>2. Nearest(c, n) = k /\ Nearest(e, n) = k
    BY <1>1, NearestIsTop DEF Stack
  <1> QED
    BY <1>1, <1>2 DEF Start

-----------------------------------------------------------------------------
(* The statements. *)

LEMMA WithContent ==
  ASSUME NEW c, NEW d \in Nat, Stack(c, d), NEW x \in Fine, NEW e, e = [c EXCEPT !.content = x]
  PROVE  Stack(e, d) /\ e.content = x /\ e.marks = c.marks /\ SameStarts(c, e, d)
  <1>1. e \in Conn /\ e.marks = c.marks /\ e.content = x
    BY DEF Stack, Conn
  <1>2. \A n, k : Top(c, n, k) <=> Top(e, n, k)
    BY <1>1 DEF Top
  <1>3. Stack(e, d)
    BY <1>1, <1>2 DEF Stack
  <1> QED
    BY <1>1, <1>2, <1>3, TopsKeepStarts

LEMMA EnterStack ==
  ASSUME NEW c, NEW d \in Nat, Stack(c, d), NEW e, e = Enter(c, d)
  PROVE  Stack(e, d + 1) /\ e.content = c.content /\ SameStarts(c, e, d) /\ Start(e, d) = c.content
  <1> DEFINE m == Mark(c, d)
  <1>1. m \in MarkT /\ m.name = d /\ m.saved = c.content
    BY MarksType DEF Mark, MarkT, Stack
  <1>2. c \in Conn /\ c.marks \in Seq(MarkT) /\ c.content \in Fine
    BY MarksType DEF Stack
  <1> PICK a : a = Append(c.marks, m)
    OBVIOUS
  <1>a. a \in Seq(MarkT)
    BY <1>1, <1>2, AppendProperties
  <1>3. e.marks = a /\ e.content = c.content /\ e \in Conn
    <2>1. CASE d = 0
      <3>1. e = [c EXCEPT !.marks = <<m>>] /\ c.marks = <<>>
        BY <2>1 DEF Enter, Begin, Stack
      <3>2. <<m>> = Append(c.marks, m)
        BY <3>1
      <3> QED
        BY <1>2, <1>a, <3>1, <3>2 DEF Conn
    <2>2. CASE d # 0
      <3>1. e = [c EXCEPT !.marks = a]
        BY <2>2 DEF Enter, Savepoint
      <3> QED
        BY <1>2, <1>a, <3>1 DEF Conn
    <2> QED
      BY <2>1, <2>2
  <1> HIDE DEF m
  <1> PICK l \in Nat : l = Len(c.marks) /\ DOMAIN c.marks = 1..l
    BY <1>2, LenProperties
  <1>4. /\ DOMAIN e.marks = 1..(l + 1) /\ e.marks[l + 1] = m
        /\ \A k \in 1..l : e.marks[k] = c.marks[k]
    BY <1>1, <1>2, <1>3, <1>a, AppendProperties, LenProperties
  <1>5. \A k \in 1..l : c.marks[k].name \in Nat /\ c.marks[k].name <= d /\ (c.marks[k].name = 0 => k = 1)
    BY MarksType DEF Stack
  <1>6. \A n \in 0..(d - 1), k \in DOMAIN c.marks : Top(c, n, k) => k \in DOMAIN e.marks /\ Top(e, n, k) /\ e.marks[k] = c.marks[k]
    <2> SUFFICES ASSUME NEW n \in 0..(d - 1), NEW k \in 1..l, Top(c, n, k)
                 PROVE  k \in 1..(l + 1) /\ Top(e, n, k) /\ e.marks[k] = c.marks[k]
      BY <1>4
    <2>1. \A j \in 1..(l + 1) : j > k => e.marks[j].name > n
      <3> SUFFICES ASSUME NEW j \in 1..(l + 1), j > k PROVE e.marks[j].name > n
        OBVIOUS
      <3>1. CASE j = l + 1
        BY <1>1, <1>4, <3>1
      <3>2. CASE j # l + 1
        <4>1. j \in 1..l
          BY <3>2
        <4>2. c.marks[j].name > n
          BY <4>1 DEF Top
        <4> QED
          BY <1>4, <4>1, <4>2
      <3> QED
        BY <3>1, <3>2
    <2> QED
      BY <1>4, <2>1 DEF Top
  <1>7. Top(e, d, l + 1)
    BY <1>1, <1>4 DEF Top
  <1>8. Stack(e, d + 1)
    <2>1. \A n \in 0..d : \E k \in DOMAIN e.marks : Top(e, n, k)
      <3> TAKE n \in 0..d
      <3>1. CASE n = d
        BY <1>4, <1>7, <3>1
      <3>2. CASE n # d
        BY <1>6, <3>2 DEF Stack
      <3> QED
        BY <3>1, <3>2
    <2>2. d = 0 => l = 0
      BY EmptySeq DEF Stack
    <2>3. \A k \in 1..(l + 1) : e.marks[k].name <= d + 1 /\ (e.marks[k].name = 0 => k = 1)
      BY <1>1, <1>4, <1>5, <2>2
    <2>4. \A j, k \in 1..(l + 1) : j < k => e.marks[j].name <= e.marks[k].name
      <3> SUFFICES ASSUME NEW j \in 1..(l + 1), NEW k \in 1..(l + 1), j < k
                   PROVE  e.marks[j].name <= e.marks[k].name
        OBVIOUS
      <3>1. CASE k = l + 1
        BY <1>1, <1>4, <1>5, <3>1
      <3>2. CASE k # l + 1
        <4>1. j \in 1..l /\ k \in 1..l
          BY <3>2
        <4>2. c.marks[j].name <= c.marks[k].name
          BY <4>1 DEF Stack
        <4> QED
          BY <1>4, <4>1, <4>2
      <3> QED
        BY <3>1, <3>2
    <2>5. (d + 1) - 1 = d /\ d + 1 # 0
      OBVIOUS
    <2> QED
      BY <1>3, <1>4, <2>1, <2>3, <2>4, <2>5 DEF Stack
  <1>9. Start(e, d) = c.content
    BY <1>1, <1>3, <1>4, <1>7, NearestIsTop DEF Start
  <1> QED
    BY <1>3, <1>6, <1>8, <1>9, TopsKeepStarts

\* What is left when a transaction at depth d ends: the marks up to its own, with
\* or without it.
LEMMA CutStack ==
  ASSUME NEW c, NEW d \in Nat \ {0}, Stack(c, d + 1), NEW k \in DOMAIN c.marks, Top(c, d, k),
         NEW m \in {k - 1, k}, NEW x \in Fine, NEW e, e = [content |-> x, marks |-> SubSeq(c.marks, 1, m)]
  PROVE  Stack(e, d) /\ SameStarts(c, e, d)
  <1>1. c \in Conn /\ c.marks \in Seq(MarkT)
    BY MarksType DEF Stack
  <1> PICK l \in Nat : l = Len(c.marks) /\ DOMAIN c.marks = 1..l
    BY <1>1, LenProperties
  <1>2. m \in 0..l /\ k \in 1..l /\ m <= k
    OBVIOUS
  <1> PICK s : s = SubSeq(c.marks, 1, m)
    OBVIOUS
  <1>3. s \in Seq(MarkT) /\ DOMAIN s = 1..m /\ \A j \in 1..m : s[j] = c.marks[j]
    <2>1. \A j \in 1..m : c.marks[j] \in MarkT
      BY <1>1, <1>2, ElementOfSeq
    <2>2. s \in Seq(MarkT) /\ Len(s) = (IF 1 <= m THEN m - 1 + 1 ELSE 0) /\ \A j \in 1..(m - 1 + 1) : s[j] = c.marks[1 + j - 1]
      BY <1>2, <2>1, SubSeqProperties
    <2> QED
      BY <1>2, <2>2, LenProperties
  <1>4. e \in Conn /\ e.marks = s
    BY <1>3 DEF Conn
  <1>5. \A j \in 1..l : c.marks[j].name \in Nat
    BY <1>1, MarksType
  <1>6. \A j \in 1..m : c.marks[j].name <= d /\ (c.marks[j].name = 0 => j = 1)
    <2> SUFFICES ASSUME NEW j \in 1..m PROVE c.marks[j].name <= d /\ (c.marks[j].name = 0 => j = 1)
      OBVIOUS
    <2>1. j \in 1..l /\ j <= k
      BY <1>2
    <2>2. c.marks[k].name = d
      BY DEF Top
    <2>3. j < k => c.marks[j].name <= c.marks[k].name
      BY <2>1 DEF Stack
    <2>4. c.marks[j].name = 0 => j = 1
      BY <2>1 DEF Stack
    <2> QED
      BY <2>1, <2>2, <2>3, <2>4
  <1>7. \A i, j \in 1..m : i < j => c.marks[i].name <= c.marks[j].name
    <2> SUFFICES ASSUME NEW i \in 1..m, NEW j \in 1..m, i < j PROVE c.marks[i].name <= c.marks[j].name
      OBVIOUS
    <2>1. i \in 1..l /\ j \in 1..l
      BY <1>2
    <2> QED
      BY <2>1 DEF Stack
  <1>8. \A n \in 0..(d - 1), j \in 1..l : Top(c, n, j) => j \in 1..m /\ Top(e, n, j) /\ e.marks[j] = c.marks[j]
    <2> SUFFICES ASSUME NEW n \in 0..(d - 1), NEW j \in 1..l, Top(c, n, j)
                 PROVE  j \in 1..m /\ Top(e, n, j) /\ e.marks[j] = c.marks[j]
      OBVIOUS
    <2>1. c.marks[j].name = n /\ c.marks[k].name = d /\ n < d
      BY DEF Top
    <2>2. j < k
      <3>1. k < j => c.marks[k].name <= c.marks[j].name
        BY <1>2 DEF Stack
      <3> QED
        BY <1>2, <2>1, <3>1
    <2>3. j \in 1..m
      BY <1>2, <2>2
    <2>4. \A i \in 1..m : i > j => e.marks[i].name > n
      <3> SUFFICES ASSUME NEW i \in 1..m, i > j PROVE e.marks[i].name > n
        OBVIOUS
      <3>1. i \in 1..l
        BY <1>2
      <3>2. c.marks[i].name > n
        BY <3>1 DEF Top
      <3> QED
        BY <1>3, <1>4, <3>2
    <2> QED
      BY <1>3, <1>4, <2>1, <2>3, <2>4 DEF Top
  <1>9. Stack(e, d)
    <2>1. \A n \in 0..(d - 1) : \E j \in 1..m : Top(e, n, j)
      <3> TAKE n \in 0..(d - 1)
      <3>1. n \in 0..((d + 1) - 1)
        OBVIOUS
      <3>2. PICK j \in DOMAIN c.marks : Top(c, n, j)
        BY <3>1 DEF Stack
      <3> QED
        BY <1>8, <3>2
    <2>2. \A j \in 1..m : e.marks[j].name <= d /\ (e.marks[j].name = 0 => j = 1)
      BY <1>3, <1>4, <1>6
    <2>3. \A i, j \in 1..m : i < j => e.marks[i].name <= e.marks[j].name
      BY <1>3, <1>4, <1>7
    <2> QED
      BY <1>3, <1>4, <2>1, <2>2, <2>3 DEF Stack
  <1>10. SameStarts(c, e, d)
    <2> SUFFICES ASSUME NEW n \in 0..(d - 1) PROVE Start(c, n) = Start(e, n)
      BY DEF SameStarts
    <2>1. n \in 0..((d + 1) - 1) /\ n \in Nat
      OBVIOUS
    <2>2. PICK j \in DOMAIN c.marks : Top(c, n, j)
      BY <2>1 DEF Stack
    <2>3. Nearest(c, n) = j /\ Nearest(e, n) = j
      BY <1>1, <1>3, <1>4, <1>8, <2>1, <2>2, NearestIsTop
    <2> QED
      BY <1>8, <2>2, <2>3 DEF Start
  <1> QED
    BY <1>9, <1>10

LEMMA LeaveStack ==
  ASSUME NEW c, NEW d \in Nat, Stack(c, d + 1), NEW e, e = Leave(c, d)
  PROVE  Stack(e, d) /\ e.content = c.content /\ SameStarts(c, e, d)
  <1>1. c \in Conn /\ c.content \in Fine
    BY MarksType DEF Stack
  <1>2. CASE d = 0
    <2>1. e = [c EXCEPT !.marks = <<>>]
      BY <1>2 DEF Leave, Commit
    <2>2. e \in Conn /\ e.marks = <<>> /\ e.content = c.content
      BY <1>1, <2>1, EmptySeq DEF Conn
    <2>3. DOMAIN e.marks = {}
      BY <2>2
    <2>4. Stack(e, d)
      BY <1>2, <2>2, <2>3 DEF Stack
    <2> QED
      BY <1>2, <2>2, <2>4 DEF SameStarts
  <1>3. CASE d # 0
    <2> PICK k : k = Nearest(c, d)
      OBVIOUS
    <2>1. k \in DOMAIN c.marks /\ Top(c, d, k)
      BY StackTop
    <2> PICK s : s = SubSeq(c.marks, 1, k - 1)
      OBVIOUS
    <2>2. e = [c EXCEPT !.marks = s]
      BY <1>3 DEF Leave, Release
    <2>3. e = [content |-> c.content, marks |-> s]
      BY <1>1, <2>2 DEF Conn
    <2>4. Stack(e, d) /\ SameStarts(c, e, d)
      BY <1>1, <1>3, <2>1, <2>3, CutStack
    <2> QED
      BY <2>3, <2>4
  <1> QED
    BY <1>2, <1>3

LEMMA AbortStack ==
  ASSUME NEW c, NEW d \in Nat, Stack(c, d + 1), NEW e, e = Abort(c, d)
  PROVE  Stack(e, d) /\ e.content = Start(c, d) /\ SameStarts(c, e, d)
  <1> PICK k : k = Nearest(c, d)
    OBVIOUS
  <1>1. k \in DOMAIN c.marks /\ Top(c, d, k) /\ Start(c, d) \in Fine /\ Start(c, d) = c.marks[k].saved
    BY StackTop DEF Start
  <1>2. CASE d = 0
    <2>1. k = 1
      BY <1>1, <1>2 DEF Stack, Top
    <2>2. e = [content |-> c.marks[1].saved, marks |-> <<>>]
      BY <1>2 DEF Abort, Rollback
    <2>3. e \in Conn /\ e.marks = <<>> /\ e.content = Start(c, d)
      BY <1>1, <2>1, <2>2, EmptySeq DEF Conn
    <2>4. DOMAIN e.marks = {}
      BY <2>3
    <2>5. Stack(e, d)
      BY <1>2, <2>3, <2>4 DEF Stack
    <2> QED
      BY <1>2, <2>3, <2>5 DEF SameStarts
  <1>3. CASE d # 0
    <2>1. e = [content |-> Start(c, d), marks |-> SubSeq(c.marks, 1, k)]
      BY <1>3 DEF Abort, RollbackTo, Start
    <2>2. Stack(e, d) /\ SameStarts(c, e, d)
      BY <1>1, <1>3, <2>1, CutStack
    <2> QED
      BY <2>1, <2>2
  <1> QED
    BY <1>2, <1>3

\* A whole transaction inside a call, that ended well or threw.
LEMMA RanStack ==
  ASSUME depth \in Nat, NEW c, Stack(c, depth), NEW x \in Fine, NEW e, e = Ran(c, x)
  PROVE  Stack(e, depth) /\ e.content = x /\ SameStarts(c, e, depth)
  <1> PICK d \in Nat : d = depth
    OBVIOUS
  <1> PICK f : f = Enter(c, d)
    OBVIOUS
  <1> PICK g : g = [f EXCEPT !.content = x]
    OBVIOUS
  <1>1. Stack(f, d + 1) /\ SameStarts(c, f, d)
    BY EnterStack
  <1>2. Stack(g, d + 1) /\ g.content = x /\ SameStarts(f, g, d + 1)
    BY <1>1, WithContent
  <1>3. e = Leave(g, d)
    BY DEF Ran
  <1>4. Stack(e, d) /\ e.content = g.content /\ SameStarts(g, e, d)
    BY <1>2, <1>3, LeaveStack
  <1>5. SameStarts(c, e, d)
    BY <1>1, <1>2, <1>4 DEF SameStarts
  <1> QED
    BY <1>2, <1>4, <1>5

LEMMA ThrewStack ==
  ASSUME depth \in Nat, NEW c, Stack(c, depth), NEW e, e = Threw(c)
  PROVE  Stack(e, depth) /\ e.content = c.content /\ SameStarts(c, e, depth)
  <1> PICK d \in Nat : d = depth
    OBVIOUS
  <1> PICK f : f = Enter(c, d)
    OBVIOUS
  <1>1. Stack(f, d + 1) /\ SameStarts(c, f, d) /\ Start(f, d) = c.content
    BY EnterStack
  <1>2. e = Abort(f, d)
    BY DEF Threw
  <1>3. Stack(e, d) /\ e.content = Start(f, d) /\ SameStarts(f, e, d)
    BY <1>1, <1>2, AbortStack
  <1>4. SameStarts(c, e, d)
    BY <1>1, <1>3 DEF SameStarts
  <1> QED
    BY <1>1, <1>3, <1>4

-----------------------------------------------------------------------------
(* The contents that calls write. *)

LEMMA FineType ==
  ASSUME NEW x \in Fine
  PROVE  /\ x \in Content /\ Distinct(x) /\ x.rows \in [Ids -> Row \cup {Nothing}] /\ x.audit \in [Ids -> Seq(Entry)]
         /\ \A i \in Ids : x.rows[i] # Nothing => x.rows[i] \in Row /\ x.rows[i].value \in Values
                                               /\ x.rows[i].version \in Nat /\ x.rows[i].revision \in Nat
  BY DEF Fine, Content, Row

\* An audit entry.
LEMMA WithEntry ==
  ASSUME NEW x \in Fine, NEW i \in Ids, NEW o \in Entry
  PROVE  [x EXCEPT !.audit[i] = Append(@, o)] \in Fine
  <1> DEFINE s == Append(x.audit[i], o)
             y == [x EXCEPT !.audit[i] = s]
  <1>1. s \in Seq(Entry)
    BY FineType, AppendProperties
  <1> HIDE DEF s
  <1>2. y.rows = x.rows /\ y.audit = [x.audit EXCEPT ![i] = s] /\ y \in Content
    BY <1>1 DEF Fine, Content
  <1> HIDE DEF y
  <1>3. y \in Fine
    BY <1>2 DEF Fine, Distinct
  <1> QED
    BY <1>3 DEF y, s

\* A record that is new or changed, and whose value no other has.
LEMMA WithRow ==
  ASSUME NEW x \in Fine, NEW i \in Ids, NEW row \in Row \cup {Nothing},
         row # Nothing => \A j \in Ids \ {i} : x.rows[j] # Nothing => x.rows[j].value # row.value
  PROVE  [x EXCEPT !.rows[i] = row] \in Fine
  <1> DEFINE y == [x EXCEPT !.rows[i] = row]
  <1>1. y.rows = [x.rows EXCEPT ![i] = row] /\ y \in Content
    BY DEF Fine, Content
  <1>2. y.rows[i] = row /\ \A j \in Ids \ {i} : y.rows[j] = x.rows[j]
    BY <1>1, FineType
  <1> HIDE DEF y
  <1>3. Distinct(y)
    BY <1>2, FineType DEF Distinct
  <1>4. y \in Fine
    BY <1>1, <1>3 DEF Fine
  <1> QED
    BY <1>4 DEF y

\* Removed records, and what the audit trail says of them.
LEMMA WithoutRows ==
  ASSUME NEW x \in Fine, NEW S \in SUBSET Ids, NEW y \in Content,
         y.rows = [i \in Ids |-> IF i \in S THEN Nothing ELSE x.rows[i]]
  PROVE  y \in Fine
  BY FineType DEF Fine, Distinct

-----------------------------------------------------------------------------
(* The inductive invariant: the k-th transaction(fn) running began at depth    *)
(* k - 1, SQLite's stack has a mark for each, and everything kept is fine.     *)

IInv ==
  /\ frames \in Seq(Nat) /\ \A k \in DOMAIN frames : frames[k] = k - 1
  /\ depth = Len(frames) \/ (depth = -1 /\ frames = <<>>)
  /\ Stack(conn, Len(frames))
  /\ live \in Paths /\ files \in [Paths -> Fine \cup {Nothing}]
  /\ live # Main => files[Main] # Nothing

Starts == [k \in DOMAIN frames |-> conn.marks[Nearest(conn, frames[k])].saved]
Others == {files[p] : p \in Paths} \ {Nothing}

LEMMA IInvType ==
  ASSUME IInv
  PROVE  /\ Len(frames) \in Nat /\ DOMAIN frames = 1..Len(frames)
         /\ conn \in Conn /\ conn.content \in Fine /\ Rows = conn.content.rows
         /\ Ready => depth \in Nat /\ depth = Len(frames) /\ Stack(conn, depth)
         /\ Others \subseteq Content
         /\ Starts = [k \in 1..Len(frames) |-> Start(conn, k - 1)]
  <1>1. Len(frames) \in Nat /\ DOMAIN frames = 1..Len(frames)
    BY LenProperties DEF IInv
  <1>2. conn \in Conn /\ conn.content \in Fine
    BY MarksType DEF IInv, Stack
  <1>3. Ready => depth \in Nat /\ depth = Len(frames) /\ Stack(conn, depth)
    BY <1>1 DEF IInv, Ready
  <1>4. Others \subseteq Content
    BY DEF IInv, Others, Fine
  <1>5. Starts = [k \in 1..Len(frames) |-> Start(conn, k - 1)]
    BY <1>1 DEF IInv, Starts, Start
  <1> QED
    BY <1>1, <1>2, <1>3, <1>4, <1>5 DEF Rows

\* A step that works on the contents, within the transactions that are open.
Works ==
  /\ UNCHANGED <<frames, live, files>>
  /\ depth' = depth \/ (depth' = -1 /\ frames = <<>>)
  /\ Stack(conn', Len(frames)) /\ SameStarts(conn, conn', Len(frames))

LEMMA WorksKeep ==
  ASSUME IInv, Works
  PROVE  IInv' /\ Starts' = Starts /\ conn'.content \in Content
  <1>1. IInv'
    BY DEF IInv, Works
  <1>2. Starts' = Starts
    <2>1. Starts = [k \in 1..Len(frames) |-> Start(conn, k - 1)]
      BY IInvType
    <2>2. DOMAIN frames' = 1..Len(frames) /\ \A k \in 1..Len(frames) : frames'[k] = k - 1
      BY IInvType DEF Works, IInv
    <2>3. Starts' = [k \in 1..Len(frames) |-> Start(conn', k - 1)]
      BY <2>2 DEF Starts, Start, Nearest
    <2>4. \A k \in 1..Len(frames) : Start(conn, k - 1) = Start(conn', k - 1)
      BY IInvType DEF Works, SameStarts
    <2> QED
      BY <2>1, <2>3, <2>4
  <1>3. conn'.content \in Content
    BY MarksType, FineType DEF Works, Stack
  <1> QED
    BY <1>1, <1>2, <1>3

LEMMA SettleWorks ==
  ASSUME IInv, Ready, NEW done, Stack(done, depth), SameStarts(conn, done, depth), NEW i \in Ids,
         NEW o \in Entry, NEW accepted \in BOOLEAN, Settle(done, i, o, accepted)
  PROVE  Works
  <1>1. depth \in Nat /\ depth = Len(frames) /\ UNCHANGED <<depth, frames, live, files>>
    BY IInvType DEF Settle
  <1>2. done.content \in Fine
    BY MarksType DEF Stack
  <1>3. Stack(conn', depth) /\ SameStarts(done, conn', depth)
    <2>1. CASE auditOpen
      <3> PICK entry \in Entry : entry = IF accepted THEN o ELSE "failure"
        BY DEF Entry
      <3> PICK x : x = [done.content EXCEPT !.audit[i] = Append(@, entry)]
        OBVIOUS
      <3>1. conn' = Ran(done, x)
        BY <2>1 DEF Settle
      <3>2. x \in Fine
        BY <1>2, WithEntry
      <3> QED
        BY <1>1, <3>1, <3>2, RanStack
    <2>2. CASE ~auditOpen
      <3> PICK e : e = Threw(done)
        OBVIOUS
      <3>1. Stack(e, depth) /\ SameStarts(done, e, depth)
        BY <1>1, ThrewStack
      <3>2. conn' = e \/ conn' = Threw(e)
        BY <2>2 DEF Settle
      <3>3. CASE conn' = e
        BY <3>1, <3>3
      <3>4. CASE conn' = Threw(e)
        <4>1. Stack(conn', depth) /\ SameStarts(e, conn', depth)
          BY <1>1, <3>1, <3>4, ThrewStack
        <4> QED
          BY <3>1, <4>1 DEF SameStarts
      <3> QED
        BY <3>2, <3>3, <3>4
    <2> QED
      BY <2>1, <2>2
  <1>4. SameStarts(conn, conn', depth)
    BY <1>3 DEF SameStarts
  <1> QED
    BY <1>1, <1>3, <1>4 DEF Works

\* A call's own transaction: a record put or removed, or nothing.
LEMMA PutStack ==
  ASSUME IInv, Ready, NEW i \in Ids, NEW row \in Row \cup {Nothing}, row = Nothing \/ IsUnique(i, row.value),
         NEW e, e = Put(i, row)
  PROVE  /\ Stack(e, depth) /\ SameStarts(conn, e, depth)
         /\ e.content.audit = conn.content.audit /\ e.content.rows[i] = row
         /\ \A j \in Ids \ {i} : e.content.rows[j] = Rows[j]
  <1> PICK x : x = [conn.content EXCEPT !.rows[i] = row]
    OBVIOUS
  <1>1. x \in Fine
    BY IInvType, WithRow DEF IsUnique
  <1>2. e = Ran(conn, x)
    BY DEF Put
  <1>3. Stack(e, depth) /\ SameStarts(conn, e, depth) /\ e.content = x
    BY <1>1, <1>2, IInvType, RanStack
  <1>4. conn.content.rows \in [Ids -> Row \cup {Nothing}] /\ Rows = conn.content.rows
    BY IInvType, FineType
  <1>5. x.rows = [conn.content.rows EXCEPT ![i] = row] /\ x.audit = conn.content.audit
    BY IInvType DEF Fine, Content
  <1>6. x.rows[i] = row /\ \A j \in Ids \ {i} : x.rows[j] = Rows[j]
    BY <1>4, <1>5
  <1> QED
    BY <1>3, <1>5, <1>6

LEMMA CreateWorks ==
  ASSUME IInv, NEW i \in Ids, NEW v \in Values \cup {Invalid}, Create(i, v)
  PROVE  Works
  <1> PICK accepted \in BOOLEAN : accepted = (IsValid(v) /\ IsUnique(i, v) /\ Rows[i] = Nothing)
    OBVIOUS
  <1> PICK row : row = [value |-> v, version |-> SchemaVersion, revision |-> 1]
    OBVIOUS
  <1> PICK done : done = IF accepted THEN Put(i, row) ELSE Threw(conn)
    OBVIOUS
  <1>1. Ready /\ Settle(done, i, "create", accepted) /\ "create" \in Entry
    BY DEF Create, Entry
  <1>2. Stack(done, depth) /\ SameStarts(conn, done, depth)
    <2>1. CASE accepted
      <3>1. row \in Row /\ IsUnique(i, row.value)
        BY <2>1, DataAssumption DEF IsValid, Row
      <3>2. done = Put(i, row)
        BY <2>1
      <3> QED
        BY <1>1, <3>1, <3>2, PutStack
    <2>2. CASE ~accepted
      <3>1. done = Threw(conn)
        BY <2>2
      <3> QED
        BY <1>1, <3>1, IInvType, ThrewStack
    <2> QED
      BY <2>1, <2>2
  <1> QED
    BY <1>1, <1>2, SettleWorks

LEMMA UpdateWorks ==
  ASSUME IInv, NEW i \in Ids, NEW v \in Values \cup {Invalid}, NEW n \in 0..MaxRevision, Update(i, v, n)
  PROVE  Works
  <1>1. Ready /\ "update" \in Entry
    BY DEF Update, Entry
  <1>2. CASE Rows[i] = Nothing
    <2>1. Settle(conn, i, "update", FALSE)
      BY <1>2 DEF Update
    <2>2. Stack(conn, depth) /\ SameStarts(conn, conn, depth)
      BY <1>1, IInvType DEF SameStarts
    <2> QED
      BY <1>1, <2>1, <2>2, SettleWorks
  <1>3. CASE Rows[i] # Nothing
    <2> PICK accepted \in BOOLEAN : accepted = (IsValid(v) /\ IsUnique(i, v) /\ n \in {0, Rows[i].revision})
      OBVIOUS
    <2> PICK row : row = [value |-> v, version |-> SchemaVersion, revision |-> Rows[i].revision + 1]
      OBVIOUS
    <2> PICK done : done = IF accepted THEN Put(i, row) ELSE Threw(conn)
      OBVIOUS
    <2>1. Settle(done, i, "update", accepted)
      BY <1>3 DEF Update
    <2>2. Stack(done, depth) /\ SameStarts(conn, done, depth)
      <3>1. CASE accepted
        <4>1. Rows[i].revision \in Nat
          BY <1>3, IInvType, FineType
        <4>2. row \in Row /\ IsUnique(i, row.value)
          <5>1. IsValid(v) /\ IsUnique(i, v)
            BY <3>1
          <5>2. v \in Values
            BY <5>1 DEF IsValid
          <5>3. SchemaVersion \in Nat /\ Rows[i].revision + 1 \in Nat /\ row.value = v
            BY <4>1, DataAssumption
          <5> QED
            BY <5>1, <5>2, <5>3 DEF Row
        <4>3. done = Put(i, row)
          BY <3>1
        <4> QED
          BY <1>1, <4>2, <4>3, PutStack
      <3>2. CASE ~accepted
        <4>1. done = Threw(conn)
          BY <3>2
        <4> QED
          BY <1>1, <4>1, IInvType, ThrewStack
      <3> QED
        BY <3>1, <3>2
    <2> QED
      BY <1>1, <2>1, <2>2, SettleWorks
  <1> QED
    BY <1>2, <1>3

LEMMA DeleteWorks ==
  ASSUME IInv, NEW i \in Ids, Delete(i)
  PROVE  Works
  <1> PICK accepted \in BOOLEAN : accepted = (Rows[i] # Nothing)
    OBVIOUS
  <1> PICK done : done = IF Rows[i] = Nothing THEN conn ELSE Put(i, Nothing)
    OBVIOUS
  <1>1. Ready /\ Settle(done, i, "delete", accepted) /\ "delete" \in Entry
    BY DEF Delete, Entry
  <1>2. Stack(done, depth) /\ SameStarts(conn, done, depth)
    <2>1. CASE done = conn
      BY <1>1, <2>1, IInvType DEF SameStarts
    <2>2. CASE done = Put(i, Nothing)
      BY <1>1, <2>2, PutStack
    <2> QED
      BY <2>1, <2>2
  <1> QED
    BY <1>1, <1>2, SettleWorks

LEMMA PurgeWorks ==
  ASSUME IInv, NEW S \in SUBSET Ids, Purge(S)
  PROVE  Works
  <1>1. Ready /\ depth \in Nat /\ depth = Len(frames) /\ Stack(conn, depth) /\ UNCHANGED <<depth, frames, live, files>>
    BY IInvType DEF Purge
  <1>2. conn.content \in Fine
    BY IInvType
  <1>3. Stack(conn', depth) /\ SameStarts(conn, conn', depth)
    <2>1. CASE auditOpen
      <3> PICK audit : audit = [i \in Ids |-> IF i \in S THEN Append(conn.content.audit[i], "purge") ELSE conn.content.audit[i]]
        OBVIOUS
      <3> PICK rows : rows = [i \in Ids |-> IF i \in S THEN Nothing ELSE conn.content.rows[i]]
        OBVIOUS
      <3> PICK y : y = [conn.content EXCEPT !.rows = rows, !.audit = audit]
        OBVIOUS
      <3>1. conn' = Ran(conn, y)
        BY <2>1 DEF Purge
      <3>2. audit \in [Ids -> Seq(Entry)]
        <4>1. \A i \in Ids : Append(conn.content.audit[i], "purge") \in Seq(Entry) /\ conn.content.audit[i] \in Seq(Entry)
          BY <1>2, FineType, AppendProperties DEF Entry
        <4> QED
          BY <4>1
      <3>3. rows \in [Ids -> Row \cup {Nothing}]
        BY <1>2, FineType
      <3>4. y \in Content /\ y.rows = rows
        BY <1>2, <3>2, <3>3 DEF Fine, Content
      <3>5. y \in Fine
        BY <1>2, <3>4, WithoutRows
      <3> QED
        BY <1>1, <3>1, <3>5, RanStack
    <2>2. CASE ~auditOpen
      <3> PICK i \in S : conn' = Threw(Put(i, Nothing))
        BY <2>2 DEF Purge
      <3> PICK e : e = Put(i, Nothing)
        OBVIOUS
      <3>1. Stack(e, depth) /\ SameStarts(conn, e, depth)
        BY <1>1, PutStack
      <3>2. Stack(conn', depth) /\ SameStarts(e, conn', depth)
        BY <1>1, <3>1, ThrewStack
      <3> QED
        BY <3>1, <3>2 DEF SameStarts
    <2> QED
      BY <2>1, <2>2
  <1> QED
    BY <1>1, <1>3 DEF Works

LEMMA GetWorks ==
  ASSUME IInv, NEW i \in Ids, Get(i)
  PROVE  Works
  <1> PICK row : row = Rows[i]
    OBVIOUS
  <1> PICK v : v = Migrated[row.version]
    OBVIOUS
  <1> PICK new : new = [row EXCEPT !.version = v]
    OBVIOUS
  <1> PICK x : x = [conn.content EXCEPT !.rows[i] = new]
    OBVIOUS
  <1>1. /\ conn.content \in Fine /\ Rows = conn.content.rows
        /\ row \in Row /\ row = conn.content.rows[i] /\ row # Nothing /\ v \in Nat
    BY IInvType, FineType, DataAssumption DEF Get
  <1>2. new \in Row /\ new.value = row.value
    BY <1>1 DEF Row
  <1>3. x \in Fine
    <2>1. \A j \in Ids \ {i} : conn.content.rows[j] # Nothing => conn.content.rows[j].value # new.value
      BY <1>1, <1>2, FineType DEF Distinct
    <2> QED
      BY <1>1, <1>2, <2>1, WithRow
  <1>4. conn' = [conn EXCEPT !.content = x]
    BY <1>1 DEF Get
  <1>5. Stack(conn', Len(frames)) /\ SameStarts(conn, conn', Len(frames))
    BY <1>3, <1>4, IInvType, WithContent DEF IInv
  <1> QED
    BY <1>5 DEF Works, Get

LEMMA AuditCommitWorks ==
  ASSUME IInv, NEW i \in Ids, AuditCommitThrows(i)
  PROVE  Works
  <1>1. Ready /\ depth = 0 /\ conn' = Put(i, Nothing) /\ depth' = -1 /\ UNCHANGED <<frames, live, files>>
    BY DEF AuditCommitThrows
  <1>2. Stack(conn', depth) /\ SameStarts(conn, conn', depth)
    BY <1>1, PutStack
  <1>3. Len(frames) = 0 /\ frames = <<>>
    <2>1. Len(frames) = 0
      BY <1>1, IInvType
    <2> QED
      BY <2>1, EmptySeq DEF IInv
  <1> QED
    BY <1>1, <1>2, <1>3 DEF Works

-----------------------------------------------------------------------------
(* The refinement: what a step does to the database and to the starts of the   *)
(* transactions that are open is what nested transactions may do.              *)

Turns ==
  \/ Starts' = Append(Starts, conn.content) /\ conn'.content = conn.content
  \/ Starts # <<>> /\ Starts' = Front(Starts) /\ conn'.content = conn.content
  \/ Starts # <<>> /\ Starts' = Front(Starts) /\ conn'.content = Last(Starts)
  \/ /\ Starts' = <<>>
     /\ conn'.content \in {IF Starts = <<>> THEN conn.content ELSE Head(Starts)} \cup Others
Implements == Others' \subseteq Content /\ ((conn'.content \in Content /\ Starts' = Starts) \/ Turns)

LEMMA StartsType ==
  ASSUME IInv
  PROVE  /\ Starts \in Seq(Fine) /\ Len(Starts) = Len(frames)
         /\ \A k \in 1..Len(frames) : Starts[k] = Start(conn, k - 1)
         /\ Starts = <<>> <=> Len(frames) = 0
         /\ frames = <<>> <=> Len(frames) = 0
  <1> PICK n \in Nat : n = Len(frames)
    BY IInvType
  <1>1. Starts = [k \in 1..n |-> Start(conn, k - 1)]
    BY IInvType
  <1>2. \A k \in 1..n : Start(conn, k - 1) \in Fine
    BY StackTop DEF IInv
  <1>3. Starts \in [1..n -> Fine]
    BY <1>1, <1>2
  <1>4. Starts \in Seq(Fine) /\ Len(Starts) = n
    <2>1. Starts \in Seq(Fine)
      BY <1>3, SeqDef
    <2>2. DOMAIN Starts = 1..n /\ DOMAIN Starts = 1..Len(Starts) /\ Len(Starts) \in Nat
      BY <1>3, <2>1, LenProperties
    <2> QED
      BY <2>1, <2>2
  <1>5. \A k \in 1..n : Starts[k] = Start(conn, k - 1)
    BY <1>1
  <1> QED
    BY <1>4, <1>5, EmptySeq DEF IInv

LEMMA WorksImplements ==
  ASSUME IInv, Works
  PROVE  IInv' /\ Implements
  <1>1. IInv' /\ Starts' = Starts /\ conn'.content \in Content
    BY WorksKeep
  <1>2. Others' \subseteq Content
    BY <1>1 DEF IInv, Others, Fine
  <1> QED
    BY <1>1, <1>2 DEF Implements

LEMMA BeginKeeps ==
  ASSUME IInv, BeginTransaction
  PROVE  IInv' /\ Implements /\ Turns
  <1> PICK n \in Nat : n = Len(frames)
    BY IInvType
  <1>1. depth = n /\ Stack(conn, n) /\ conn' = Enter(conn, n) /\ frames' = Append(frames, n) /\ depth' = n + 1
        /\ UNCHANGED <<live, files>>
    BY IInvType DEF BeginTransaction
  <1>2. /\ frames' \in Seq(Nat) /\ Len(frames') = n + 1 /\ DOMAIN frames' = 1..(n + 1)
        /\ \A k \in 1..(n + 1) : frames'[k] = k - 1
    <2>1. frames \in Seq(Nat) /\ \A k \in 1..n : frames[k] = k - 1
      BY IInvType DEF IInv
    <2>2. /\ frames' \in Seq(Nat) /\ Len(frames') = n + 1 /\ DOMAIN frames' = 1..(n + 1)
          /\ frames'[n + 1] = n /\ \A k \in 1..n : frames'[k] = frames[k]
      BY <1>1, <2>1, AppendProperties, LenProperties
    <2> QED
      BY <2>1, <2>2
  <1>3. /\ Stack(conn', n + 1) /\ conn'.content = conn.content
        /\ SameStarts(conn, conn', n) /\ Start(conn', n) = conn.content
    BY <1>1, EnterStack
  <1>4. IInv'
    BY <1>1, <1>2, <1>3 DEF IInv
  <1>5. Starts' = Append(Starts, conn.content)
    <2>1. Starts' = [k \in 1..(n + 1) |-> Start(conn', k - 1)]
      BY <1>2 DEF Starts, Start, Nearest
    <2>2. Starts \in Seq(Fine) /\ Len(Starts) = n /\ \A k \in 1..n : Starts[k] = Start(conn, k - 1)
      BY StartsType
    <2> PICK a : a = Append(Starts, conn.content)
      OBVIOUS
    <2>3. /\ DOMAIN a = 1..(n + 1) /\ a[n + 1] = conn.content /\ a \in Seq(Fine) /\ Len(a) = n + 1
          /\ \A k \in 1..n : a[k] = Starts[k]
      BY <2>2, IInvType, AppendProperties, LenProperties
    <2>4. \A k \in 1..(n + 1) : a[k] = Start(conn', k - 1)
      <3> SUFFICES ASSUME NEW k \in 1..(n + 1) PROVE a[k] = Start(conn', k - 1)
        OBVIOUS
      <3>1. CASE k = n + 1
        BY <1>3, <2>3, <3>1
      <3>2. CASE k # n + 1
        BY <1>3, <2>2, <2>3, <3>2 DEF SameStarts
      <3> QED
        BY <3>1, <3>2
    <2>5. a \in [1..(n + 1) -> Fine]
      BY <2>3, LenProperties
    <2> QED
      BY <2>1, <2>4, <2>5
  <1>6. Others' \subseteq Content
    BY <1>4 DEF IInv, Others, Fine
  <1> QED
    BY <1>3, <1>4, <1>5, <1>6 DEF Implements, Turns

LEMMA EndKeeps ==
  ASSUME IInv, ReturnTransaction \/ ThrowTransaction
  PROVE  IInv' /\ Implements /\ Turns
  <1> PICK n \in Nat : n = Len(frames)
    BY IInvType
  <1>1. frames # <<>> /\ n # 0 /\ n - 1 \in Nat /\ (n - 1) + 1 = n
    BY StartsType DEF ReturnTransaction, ThrowTransaction
  <1>2. frames \in Seq(Nat) /\ (\A k \in 1..n : frames[k] = k - 1) /\ Last(frames) = n - 1 /\ depth = n
    <2>1. frames \in Seq(Nat) /\ (\A k \in DOMAIN frames : frames[k] = k - 1) /\ DOMAIN frames = 1..n
      BY IInvType DEF IInv
    <2>2. depth = n
      BY <1>1 DEF IInv
    <2>3. Last(frames) = frames[n]
      BY DEF Last
    <2> QED
      BY <1>1, <2>1, <2>2, <2>3
  <1> PICK f : f = Front(frames)
    OBVIOUS
  <1>3. f \in Seq(Nat) /\ Len(f) = n - 1 /\ DOMAIN f = 1..(n - 1) /\ \A k \in 1..(n - 1) : f[k] = k - 1
    <2>1. \A k \in 1..(n - 1) : frames[k] \in Nat /\ frames[k] = k - 1
      BY <1>1, <1>2
    <2>2. /\ f \in Seq(Nat) /\ Len(f) = (IF 1 <= n - 1 THEN (n - 1) - 1 + 1 ELSE 0)
          /\ \A k \in 1..((n - 1) - 1 + 1) : f[k] = frames[1 + k - 1]
      BY <1>1, <2>1, SubSeqProperties DEF Front
    <2> QED
      BY <1>1, <2>1, <2>2, LenProperties
  <1>4. frames' = f /\ depth' = n - 1 /\ UNCHANGED <<live, files>>
    BY <1>2 DEF ReturnTransaction, ThrowTransaction, Ended
  <1>5. /\ Stack(conn', n - 1) /\ SameStarts(conn, conn', n - 1)
        /\ conn'.content \in {conn.content, Start(conn, n - 1)}
    <2>1. Stack(conn, (n - 1) + 1)
      BY <1>1 DEF IInv
    <2>2. CASE ReturnTransaction
      <3>1. conn' = Leave(conn, n - 1)
        BY <1>2, <2>2 DEF ReturnTransaction, Ended
      <3> QED
        BY <1>1, <2>1, <3>1, LeaveStack
    <2>3. CASE ThrowTransaction
      <3>1. conn' = Abort(conn, n - 1)
        BY <1>2, <2>3 DEF ThrowTransaction, Ended
      <3> QED
        BY <1>1, <2>1, <3>1, AbortStack
    <2> QED
      BY <2>2, <2>3
  <1>6. IInv'
    BY <1>1, <1>3, <1>4, <1>5 DEF IInv
  <1>7. /\ Starts \in Seq(Fine) /\ Len(Starts) = n /\ Starts # <<>>
        /\ \A k \in 1..n : Starts[k] = Start(conn, k - 1)
    BY <1>1, StartsType
  <1>8. Last(Starts) = Start(conn, n - 1)
    BY <1>1, <1>7 DEF Last
  <1>9. Starts' = Front(Starts)
    <2>1. Starts' = [k \in 1..(n - 1) |-> Start(conn', k - 1)]
      BY <1>3, <1>4 DEF Starts, Start, Nearest
    <2> PICK a : a = Front(Starts)
      OBVIOUS
    <2>2. \A k \in 1..(n - 1) : Starts[k] \in Fine
      BY <1>7, ElementOfSeq
    <2>3. /\ a \in Seq(Fine) /\ Len(a) = (IF 1 <= n - 1 THEN (n - 1) - 1 + 1 ELSE 0)
          /\ \A k \in 1..((n - 1) - 1 + 1) : a[k] = Starts[1 + k - 1]
      BY <1>1, <1>7, <2>2, SubSeqProperties DEF Front
    <2>4. Len(a) = n - 1 /\ a \in [1..(n - 1) -> Fine]
      BY <1>1, <2>3, LenProperties
    <2>5. \A k \in 1..(n - 1) : a[k] = Start(conn', k - 1)
      BY <1>1, <1>5, <1>7, <2>3 DEF SameStarts
    <2> QED
      BY <2>1, <2>4, <2>5
  <1>10. Others' \subseteq Content
    BY <1>6 DEF IInv, Others, Fine
  <1> QED
    BY <1>5, <1>6, <1>7, <1>8, <1>9, <1>10 DEF Implements, Turns

\* No transaction is left and the database is as given.
LEMMA AfreshKeeps ==
  ASSUME IInv, NEW x \in Fine, conn' = [content |-> x, marks |-> <<>>], frames' = <<>>, depth' \in {0, -1},
         live' \in Paths, files' \in [Paths -> Fine \cup {Nothing}], live' # Main => files'[Main] # Nothing
  PROVE  IInv' /\ Starts' = <<>> /\ conn'.content = x /\ Others' \subseteq Content
  <1>1. frames' \in Seq(Nat) /\ Len(frames') = 0 /\ DOMAIN frames' = {}
    BY EmptySeq
  <1>2. conn' \in Conn /\ DOMAIN conn'.marks = {} /\ conn'.marks = <<>> /\ conn'.content = x
    BY EmptySeq DEF Conn
  <1>3. Stack(conn', 0)
    BY <1>2 DEF Stack
  <1>4. IInv'
    BY <1>1, <1>3 DEF IInv
  <1>5. Starts' = <<>>
    BY <1>1 DEF Starts
  <1>6. Others' \subseteq Content
    BY DEF Others, Fine
  <1> QED
    BY <1>2, <1>4, <1>5, <1>6

LEMMA CommitThrowsKeeps ==
  ASSUME IInv, CommitThrows
  PROVE  IInv' /\ Implements /\ ((conn' = conn /\ frames' = frames) \/ Turns)
  <1>1. UNCHANGED <<live, files>> /\ frames' = <<>> /\ depth' = -1 /\ Len(frames) \in {0, 1}
    BY DEF CommitThrows
  <1>2. CASE frames = <<>>
    <2>1. conn' = conn
      BY <1>2 DEF CommitThrows
    <2>2. Works
      BY <1>1, <1>2, <2>1 DEF Works, IInv, SameStarts
    <2> QED
      BY <1>1, <1>2, <2>1, <2>2, WorksImplements
  <1>3. CASE frames # <<>>
    <2>1. Len(frames) = 1
      BY <1>1, <1>3, StartsType
    <2>2. conn' = Abort(conn, 0) /\ conn' = [content |-> conn.marks[1].saved, marks |-> <<>>]
      BY <1>3 DEF CommitThrows, Abort, Rollback
    <2>3. Stack(conn, 0 + 1)
      BY <2>1 DEF IInv
    <2>4. conn'.content = Start(conn, 0) /\ Start(conn, 0) \in Fine
      BY <2>2, <2>3, AbortStack, StackTop
    <2>5. IInv' /\ Starts' = <<>> /\ Others' \subseteq Content
      BY <1>1, <2>2, <2>4, AfreshKeeps DEF IInv
    <2>6. Starts # <<>> /\ Starts[1] = Start(conn, 0)
      BY <2>1, StartsType
    <2>7. Head(Starts) = Start(conn, 0)
      BY <2>6
    <2> QED
      BY <2>4, <2>5, <2>6, <2>7 DEF Implements, Turns
  <1> QED
    BY <1>2, <1>3

\* What survives the end of the process is what the outermost transaction began with.
LEMMA DurableIsHead ==
  ASSUME IInv
  PROVE  Durable \in Fine /\ Durable = IF Starts = <<>> THEN conn.content ELSE Head(Starts)
  <1>1. CASE Len(frames) = 0
    <2>1. conn.marks = <<>> /\ Starts = <<>>
      BY <1>1, StartsType DEF IInv, Stack
    <2> QED
      BY <2>1, IInvType DEF Durable
  <1>2. CASE Len(frames) # 0
    <2>1. 0 \in 0..(Len(frames) - 1) /\ Len(frames) \in Nat
      BY <1>2, IInvType
    <2> PICK k : k = Nearest(conn, 0)
      OBVIOUS
    <2>2. Top(conn, 0, k) /\ k \in DOMAIN conn.marks /\ Start(conn, 0) \in Fine
      BY <2>1, StackTop DEF IInv
    <2>3. k = 1
      BY <2>2 DEF IInv, Stack, Top
    <2>4. conn.marks # <<>> /\ conn.marks[1].saved = Start(conn, 0)
      BY <2>2, <2>3 DEF Start
    <2>5. Starts # <<>> /\ Starts[1] = Start(conn, 0)
      BY <1>2, <2>1, StartsType
    <2>6. Head(Starts) = Start(conn, 0)
      BY <2>5
    <2> QED
      BY <2>2, <2>4, <2>5, <2>6 DEF Durable
  <1> QED
    BY <1>1, <1>2

LEMMA BackupKeeps ==
  ASSUME IInv, NEW p \in Paths, Backup(p)
  PROVE  IInv' /\ Implements
  <1>1. UNCHANGED <<conn, depth, frames, live>> /\ files' = [files EXCEPT ![p] = conn.content]
    BY DEF Backup
  <1>2. files' \in [Paths -> Fine \cup {Nothing}] /\ (live # Main => files'[Main] # Nothing)
    <2>1. conn.content \in Fine /\ conn.content # Nothing
      BY IInvType, FineType, DataAssumption
    <2> QED
      BY <1>1, <2>1, DataAssumption DEF IInv
  <1>3. IInv'
    BY <1>1, <1>2 DEF IInv
  <1>4. Starts' = Starts /\ conn'.content \in Content
    BY <1>1, IInvType, FineType DEF Starts, Nearest
  <1>5. Others' \subseteq Content
    BY <1>3 DEF IInv, Others, Fine
  <1> QED
    BY <1>3, <1>4, <1>5 DEF Implements

LEMMA RestoreKeeps ==
  ASSUME IInv, NEW p \in Paths, Restore(p)
  PROVE  IInv' /\ Implements /\ Turns
  <1> PICK x : x = Held(p)
    OBVIOUS
  <1>1. /\ frames = <<>> /\ frames' = <<>> /\ live' = p /\ depth' = 0
        /\ conn' = [content |-> x, marks |-> <<>>]
        /\ files' = [files EXCEPT ![live] = conn.content, ![p] = Nothing]
    BY DEF Restore
  <1>2. conn.content \in Fine /\ conn.content # Nothing /\ live \in Paths
    BY IInvType, FineType, DataAssumption DEF IInv
  <1>3. x \in Fine /\ x \in {conn.content} \cup Others
    <2>1. x # Nothing
      BY DEF Restore
    <2>2. x = conn.content \/ x = files[p]
      BY DEF Held
    <2>3. files[p] \in Fine \cup {Nothing}
      BY DEF IInv
    <2> QED
      BY <1>2, <2>1, <2>2, <2>3 DEF Others
  <1>4. files' \in [Paths -> Fine \cup {Nothing}] /\ (live' # Main => files'[Main] # Nothing)
    <2> DEFINE g == [files EXCEPT ![live] = conn.content]
    <2>1. g \in [Paths -> Fine \cup {Nothing}] /\ g[live] # Nothing /\ (live # Main => g[Main] = files[Main])
      BY <1>2, DataAssumption DEF IInv
    <2>2. files' = [g EXCEPT ![p] = Nothing]
      BY <1>1
    <2> HIDE DEF g
    <2>3. p # Main => files'[Main] = g[Main]
      BY <2>1, <2>2, DataAssumption
    <2> QED
      BY <1>1, <2>1, <2>2, <2>3 DEF IInv
  <1>5. IInv' /\ Starts' = <<>> /\ conn'.content = x /\ Others' \subseteq Content
    BY <1>1, <1>3, <1>4, AfreshKeeps
  <1>6. Starts = <<>>
    BY <1>1, StartsType
  <1> QED
    BY <1>3, <1>5, <1>6 DEF Implements, Turns

LEMMA RestartKeeps ==
  ASSUME IInv, Restart
  PROVE  IInv' /\ Implements /\ Turns
  <1> PICK x : x = IF live = Main THEN Durable ELSE files[Main]
    OBVIOUS
  <1>1. /\ frames' = <<>> /\ live' = Main /\ depth' = 0
        /\ conn' = [content |-> x, marks |-> <<>>]
        /\ files' = [files EXCEPT ![live] = Durable, ![Main] = Nothing]
    BY DEF Restart
  <1>2. Durable \in Fine /\ Main \in Paths
    BY DurableIsHead, DataAssumption
  <1>3. x \in Fine /\ x \in {Durable} \cup Others
    <2>1. CASE live = Main
      BY <1>2, <2>1
    <2>2. CASE live # Main
      BY <1>2, <2>2 DEF IInv, Others
    <2> QED
      BY <2>1, <2>2
  <1>4. files' \in [Paths -> Fine \cup {Nothing}]
    <2>1. [files EXCEPT ![live] = Durable] \in [Paths -> Fine \cup {Nothing}]
      BY <1>2 DEF IInv
    <2> QED
      BY <1>1, <2>1
  <1>5. IInv' /\ Starts' = <<>> /\ conn'.content = x /\ Others' \subseteq Content
    BY <1>1, <1>2, <1>3, <1>4, AfreshKeeps
  <1> QED
    BY <1>3, <1>5, DurableIsHead DEF Implements, Turns

-----------------------------------------------------------------------------
LEMMA InitHolds == Init => IInv
  <1> SUFFICES ASSUME Init PROVE IInv
    OBVIOUS
  <1>1. Empty \in Content /\ Empty.rows = [i \in Ids |-> Nothing] /\ Empty.audit = [i \in Ids |-> <<>>]
    BY EmptySeq DEF Empty, Content
  <1>2. Empty \in Fine
    BY <1>1 DEF Fine, Distinct
  <1>3. ASSUME NEW i \in Ids, NEW v \in Values
        PROVE  Inherited(i, v) \in Fine
    <2> PICK row : row = [value |-> v, version |-> SchemaVersion - 1, revision |-> 1]
      OBVIOUS
    <2> PICK s : s = <<"create">>
      OBVIOUS
    <2>1. row \in Row
      BY DataAssumption DEF Row
    <2>2. s \in Seq(Entry)
      BY DEF Entry
    <2>3. Inherited(i, v).rows = [Empty.rows EXCEPT ![i] = row] /\ Inherited(i, v) \in Content
      BY <1>1, <2>1, <2>2 DEF Inherited, Content
    <2>4. \A j \in Ids \ {i} : Inherited(i, v).rows[j] = Nothing
      BY <1>1, <2>3
    <2> QED
      BY <2>3, <2>4 DEF Fine, Distinct
  <1>4. PICK x \in Fine : conn = [content |-> x, marks |-> <<>>]
    BY <1>2, <1>3 DEF Init
  <1>5. conn \in Conn /\ conn.marks = <<>> /\ DOMAIN conn.marks = {}
    BY <1>4, EmptySeq DEF Conn
  <1>6. frames = <<>> /\ Len(frames) = 0 /\ DOMAIN frames = {} /\ frames \in Seq(Nat)
    BY EmptySeq DEF Init
  <1>7. Stack(conn, Len(frames))
    BY <1>5, <1>6 DEF Stack
  <1> QED
    BY <1>6, <1>7, DataAssumption DEF Init, IInv

LEMMA StepHolds == IInv /\ [Next]_vars => IInv' /\ (Implements \/ UNCHANGED vars)
  <1> SUFFICES ASSUME IInv, [Next]_vars PROVE IInv' /\ (Implements \/ UNCHANGED vars)
    OBVIOUS
  <1>1. ASSUME NEW i \in Ids, NEW v \in Values \cup {Invalid}, Create(i, v) \/ \E n \in 0..MaxRevision : Update(i, v, n)
        PROVE  IInv' /\ Implements
    BY <1>1, CreateWorks, UpdateWorks, WorksImplements
  <1>2. ASSUME NEW i \in Ids, Delete(i) \/ Get(i) \/ AuditCommitThrows(i)
        PROVE  IInv' /\ Implements
    BY <1>2, DeleteWorks, GetWorks, AuditCommitWorks, WorksImplements
  <1>3. ASSUME NEW S \in SUBSET Ids, Purge(S)
        PROVE  IInv' /\ Implements
    BY <1>3, PurgeWorks, WorksImplements
  <1>4. ASSUME BeginTransaction \/ ReturnTransaction \/ ThrowTransaction \/ CommitThrows
        PROVE  IInv' /\ Implements
    BY <1>4, BeginKeeps, EndKeeps, CommitThrowsKeeps
  <1>5. ASSUME NEW p \in Paths, Backup(p) \/ Restore(p)
        PROVE  IInv' /\ Implements
    BY <1>5, BackupKeeps, RestoreKeeps
  <1>6. CASE Restart
    BY <1>6, RestartKeeps
  <1>7. CASE UNCHANGED vars
    BY <1>7 DEF vars, IInv, Stack, Top
  <1> QED
    BY <1>1, <1>2, <1>3, <1>4, <1>5, <1>6, <1>7 DEF Next

\* A value of the unique field belongs to one record, through nested rollbacks,
\* migrations, purges, backups, restores and restarts (DataAuthority.ts,
\* assertUnique()).
THEOREM UniqueEverywhere == Spec => []UniqueHolds
  <1>1. IInv => UniqueHolds
    BY IInvType, FineType DEF UniqueHolds, Distinct
  <1>2. IInv /\ [Next]_vars => IInv'
    BY StepHolds
  <1> QED
    BY <1>1, <1>2, InitHolds, PTL DEF Spec

\* The savepoints implement nested transactions: each ends by keeping or undoing
\* its own work and nothing else (transactionManager.ts runInTransaction()).
THEOREM SavepointsNest == Spec => KeepsNesting
  <1>1. Init => Nested!Init
    <2> SUFFICES ASSUME Init PROVE Nested!Init
      OBVIOUS
    <2>1. IInv /\ frames = <<>>
      <3>1. IInv
        BY InitHolds
      <3>2. frames = <<>>
        BY Zenon DEF Init
      <3> QED
        BY <3>1, <3>2
    <2>2. conn.content \in Content /\ Others \subseteq Content
      BY <2>1, IInvType, FineType
    <2>3. Starts = <<>>
      BY <2>1, StartsType
    <2> QED
      BY <2>2, <2>3 DEF Nested!Init, Starts, Others
  <1>2. IInv /\ [Next]_vars => [Nested!Next]_(Nested!vars)
    <2> SUFFICES ASSUME IInv, [Next]_vars PROVE [Nested!Next]_(Nested!vars)
      OBVIOUS
    <2>1. CASE Implements
      <3>1. Others' \subseteq Content
        BY <2>1 DEF Implements
      <3>2. CASE conn'.content \in Content /\ Starts' = Starts
        <4>1. Nested!Write
          BY <3>2 DEF Starts, Nested!Write
        <4> QED
          BY <3>1, <4>1 DEF Nested!Next, Others
      <3>3. CASE Starts' = Append(Starts, conn.content) /\ conn'.content = conn.content
        <4>1. Nested!Start
          BY <3>3 DEF Starts, Nested!Start
        <4> QED
          BY <3>1, <4>1 DEF Nested!Next, Others
      <3>4. CASE Starts # <<>> /\ Starts' = Front(Starts) /\ conn'.content = conn.content
        <4>1. Nested!Commit
          BY <3>4 DEF Starts, Nested!Commit, Front, Nested!Front
        <4> QED
          BY <3>1, <4>1 DEF Nested!Next, Others
      <3>5. CASE Starts # <<>> /\ Starts' = Front(Starts) /\ conn'.content = Last(Starts)
        <4>1. Nested!Fail
          BY <3>5 DEF Starts, Nested!Fail, Front, Nested!Front, Last, Nested!Last
        <4> QED
          BY <3>1, <4>1 DEF Nested!Next, Others
      <3>6. CASE /\ Starts' = <<>>
                 /\ conn'.content \in {IF Starts = <<>> THEN conn.content ELSE Head(Starts)} \cup Others
        <4>1. Nested!Crash
          BY <3>6 DEF Starts, Others, Nested!Crash
        <4> QED
          BY <3>1, <4>1 DEF Nested!Next, Others
      <3> QED
        BY <2>1, <3>2, <3>3, <3>4, <3>5, <3>6 DEF Implements, Turns
    <2>2. CASE UNCHANGED vars
      BY <2>2 DEF vars, Nested!vars, Nearest
    <2> QED
      BY <2>1, <2>2, StepHolds
  <1>3. IInv /\ [Next]_vars => IInv'
    BY StepHolds
  <1> QED
    BY <1>1, <1>2, <1>3, InitHolds, PTL DEF Spec, KeepsNesting, Nested!Spec


-----------------------------------------------------------------------------
(* The audit trail.  What a log tells of a record is told by its last success, *)
(* and what was written since the last creation.                               *)

Done(log) == {k \in DOMAIN log : log[k] # "failure"}
Births(log) == {k \in Done(log) : log[k] = "create"}
Since(log) == {k \in Done(log) : k > Max(Births(log))}

LEMMA ExplainsIs ==
  ASSUME NEW log, NEW row
  PROVE  Explains(log, row) <=>
           IF Done(log) = {} \/ log[Max(Done(log))] \in {"delete", "purge"}
           THEN row = Nothing
           ELSE row # Nothing /\ Births(log) # {} /\ row.revision = 1 + Cardinality(Since(log))
  BY DEF Explains, Since, Births, Done

LEMMA MaxIs ==
  ASSUME NEW S \in SUBSET Nat, NEW k \in S, \A j \in S : j <= k
  PROVE  Max(S) = k
  <1>1. k \in S /\ \A y \in S : k >= y
    OBVIOUS
  <1>2. \A x \in S : (\A y \in S : x >= y) => x = k
    OBVIOUS
  <1> QED
    BY <1>1, <1>2 DEF Max

\* A set of places of a log has a last one.
LEMMA LastPlace ==
  ASSUME NEW n \in Nat, NEW S \in SUBSET (1..n), S # {}
  PROVE  Max(S) \in S /\ \A j \in S : j <= Max(S)
  <1> DEFINE T == {n - j : j \in S}
  <1>1. T \in SUBSET Nat /\ T # {} /\ \A j \in S : j \in 1..n /\ n - j \in T
    <2>1. \A j \in S : j \in 1..n /\ n - j \in Nat
      OBVIOUS
    <2> QED
      BY <2>1
  <1>2. \A t \in T : \E j \in S : t = n - j
    OBVIOUS
  <1> HIDE DEF T
  <1>3. PICK m \in T : \A t \in T : ~(<<t, m>> \in OpToRel(<, Nat))
    BY <1>1, NatLessThanWellFounded, WFMin
  <1>4. \A t \in T : ~(t < m) /\ t \in Nat /\ m \in Nat
    BY <1>1, <1>3 DEF OpToRel
  <1>5. PICK k \in S : m = n - k
    BY <1>2
  <1>6. \A j \in S : j <= k
    BY <1>1, <1>4, <1>5
  <1> QED
    BY <1>1, <1>6, MaxIs

LEMMA LogType ==
  ASSUME NEW log \in Seq(Entry)
  PROVE  /\ Len(log) \in Nat /\ DOMAIN log = 1..Len(log)
         /\ Done(log) \in SUBSET (1..Len(log)) /\ Births(log) \in SUBSET Done(log)
         /\ Since(log) \in SUBSET (1..Len(log)) /\ IsFiniteSet(Since(log)) /\ Cardinality(Since(log)) \in Nat
  <1>1. Len(log) \in Nat /\ DOMAIN log = 1..Len(log)
    BY LenProperties
  <1>2. Since(log) \in SUBSET (1..Len(log))
    BY <1>1 DEF Since, Done
  <1>3. IsFiniteSet(Since(log))
    <2>1. IsFiniteSet(1..Len(log))
      BY <1>1, FS_Interval
    <2> QED
      BY <1>2, <2>1, FS_Subset
  <1> QED
    BY <1>1, <1>2, <1>3, FS_CardinalityType DEF Done, Births

\* What Append leaves: log has n entries and new one more, o.
AppendedTo(log, o, n, new) ==
  /\ new \in Seq(Entry) /\ n \in Nat /\ Len(new) = n + 1 /\ DOMAIN new = 1..(n + 1) /\ new[n + 1] = o
  /\ \A k \in 1..n : new[k] = log[k]
  /\ Done(new) = IF o = "failure" THEN Done(log) ELSE Done(log) \cup {n + 1}
  /\ Births(new) = IF o = "create" THEN Births(log) \cup {n + 1} ELSE Births(log)
  /\ Done(new) \in SUBSET (1..(n + 1)) /\ Done(log) \in SUBSET (1..n)

LEMMA Appended ==
  ASSUME NEW log \in Seq(Entry), NEW o \in Entry
  PROVE  AppendedTo(log, o, Len(log), Append(log, o))
  <1> DEFINE n == Len(log)
             new == Append(log, o)
  <1> SUFFICES AppendedTo(log, o, n, new)
    OBVIOUS
  <1>1. /\ new \in Seq(Entry) /\ n \in Nat /\ Len(new) = n + 1 /\ DOMAIN new = 1..(n + 1) /\ new[n + 1] = o
        /\ \A k \in 1..n : new[k] = log[k]
    BY AppendProperties, LenProperties
  <1> HIDE DEF new
  <1>2. Done(log) \in SUBSET (1..n) /\ Done(new) \in SUBSET (1..(n + 1)) /\ Births(log) \in SUBSET Done(log)
    BY <1>1, LogType
  <1>3. \A k : k \in Done(new) <=> k \in 1..(n + 1) /\ new[k] # "failure"
    BY <1>1 DEF Done
  <1>4. \A k : k \in Done(log) <=> k \in 1..n /\ log[k] # "failure"
    BY LogType DEF Done
  <1>5. \A k : k \in 1..(n + 1) <=> k \in 1..n \/ k = n + 1
    BY <1>1
  <1>6. Done(new) = IF o = "failure" THEN Done(log) ELSE Done(log) \cup {n + 1}
    BY <1>1, <1>3, <1>4, <1>5
  <1>7. Births(new) = IF o = "create" THEN Births(log) \cup {n + 1} ELSE Births(log)
    <2>1. \A k : k \in Births(new) <=> k \in Done(new) /\ new[k] = "create"
      BY DEF Births
    <2>2. \A k : k \in Births(log) <=> k \in Done(log) /\ log[k] = "create"
      BY DEF Births
    <2>3. n + 1 \notin 1..n
      BY <1>1
    <2> QED
      BY <1>1, <1>2, <1>6, <2>1, <2>2, <2>3
  <1> QED
    BY <1>1, <1>2, <1>6, <1>7 DEF AppendedTo

\* A failure tells nothing new.
LEMMA FailureTells ==
  ASSUME NEW log \in Seq(Entry), NEW row, Explains(log, row)
  PROVE  Explains(Append(log, "failure"), row)
  <1> PICK n : n = Len(log)
    OBVIOUS
  <1> PICK new : new = Append(log, "failure")
    OBVIOUS
  <1>a. "failure" \in Entry
    BY DEF Entry
  <1>b. AppendedTo(log, "failure", n, new)
    BY <1>a, Appended
  <1>1. /\ Done(new) = Done(log) /\ Births(new) = Births(log)
        /\ n \in Nat /\ Done(log) \in SUBSET (1..n) /\ \A k \in 1..n : new[k] = log[k]
    BY <1>b DEF AppendedTo
  <1>2. Done(log) # {} => new[Max(Done(log))] = log[Max(Done(log))]
    BY <1>1, LastPlace
  <1>3. Since(new) = Since(log)
    BY <1>1 DEF Since
  <1> QED
    BY <1>1, <1>2, <1>3, ExplainsIs

\* Any other entry is the last success.
LEMMA SuccessIsLast ==
  ASSUME NEW log \in Seq(Entry), NEW o \in Entry \ {"failure"}, NEW new, new = Append(log, o)
  PROVE  Done(new) # {} /\ new[Max(Done(new))] = o /\ Max(Done(new)) = Len(log) + 1
  <1> PICK n : n = Len(log)
    OBVIOUS
  <1>a. AppendedTo(log, o, n, new)
    BY Appended
  <1>1. /\ Done(new) = Done(log) \cup {n + 1} /\ n \in Nat /\ Done(log) \in SUBSET (1..n) /\ new[n + 1] = o
    BY <1>a DEF AppendedTo
  <1>2. Done(new) \in SUBSET Nat /\ n + 1 \in Done(new) /\ \A j \in Done(new) : j <= n + 1
    BY <1>1
  <1>3. Max(Done(new)) = n + 1
    BY <1>2, MaxIs
  <1> QED
    BY <1>1, <1>3

LEMMA RemovalTells ==
  ASSUME NEW log \in Seq(Entry), NEW o \in {"delete", "purge"}
  PROVE  Explains(Append(log, o), Nothing)
  <1> PICK new : new = Append(log, o)
    OBVIOUS
  <1>1. o \in Entry \ {"failure"}
    BY DEF Entry
  <1>2. new[Max(Done(new))] = o
    BY <1>1, SuccessIsLast
  <1> QED
    BY <1>2, ExplainsIs

LEMMA CreationTells ==
  ASSUME NEW log \in Seq(Entry), NEW row, row # Nothing, row.revision = 1
  PROVE  Explains(Append(log, "create"), row)
  <1> PICK n : n = Len(log)
    OBVIOUS
  <1> PICK new : new = Append(log, "create")
    OBVIOUS
  <1>1. "create" \in Entry \ {"failure"}
    BY DEF Entry
  <1>a. AppendedTo(log, "create", n, new)
    BY <1>1, Appended
  <1>2. Done(new) # {} /\ new[Max(Done(new))] = "create"
    BY <1>1, SuccessIsLast
  <1>3. /\ Births(new) = Births(log) \cup {n + 1} /\ n \in Nat /\ Done(new) \in SUBSET (1..(n + 1))
        /\ Births(log) \in SUBSET Done(log) /\ Done(log) \in SUBSET (1..n)
    BY <1>1, <1>a, LogType DEF AppendedTo
  <1>4. Max(Births(new)) = n + 1
    <2>1. Births(new) \in SUBSET Nat /\ n + 1 \in Births(new) /\ \A j \in Births(new) : j <= n + 1
      BY <1>3
    <2> QED
      BY <2>1, MaxIs
  <1>5. Since(new) = {}
    BY <1>3, <1>4 DEF Since
  <1>6. row.revision = 1 + Cardinality(Since(new))
    <2>1. Cardinality(Since(new)) = 0
      BY <1>5, FS_EmptySet
    <2> QED
      BY <2>1
  <1>7. Births(new) # {}
    BY <1>3
  <1> QED
    BY <1>2, <1>6, <1>7, ExplainsIs

LEMMA UpdateTells ==
  ASSUME NEW log \in Seq(Entry), NEW row, row # Nothing, Explains(log, row),
         NEW changed, changed # Nothing, changed.revision = row.revision + 1
  PROVE  Explains(Append(log, "update"), changed)
  <1> PICK n : n = Len(log)
    OBVIOUS
  <1> PICK new : new = Append(log, "update")
    OBVIOUS
  <1>1. "update" \in Entry \ {"failure"} /\ "update" # "create"
    BY DEF Entry
  <1>a. AppendedTo(log, "update", n, new)
    BY <1>1, Appended
  <1>2. Done(new) # {} /\ new[Max(Done(new))] = "update"
    BY <1>1, SuccessIsLast
  <1>3. /\ Births(new) = Births(log) /\ Done(new) = Done(log) \cup {n + 1} /\ n \in Nat
        /\ Births(log) \in SUBSET (1..n) /\ Done(log) \in SUBSET (1..n)
    BY <1>1, <1>a, LogType DEF AppendedTo
  <1>4. Births(log) # {} /\ row.revision = 1 + Cardinality(Since(log))
    BY ExplainsIs
  <1>5. Max(Births(log)) \in 1..n
    BY <1>3, <1>4, LastPlace
  <1>6. Since(new) = Since(log) \cup {n + 1} /\ n + 1 \notin Since(log)
    <2>1. n + 1 > Max(Births(log)) /\ n + 1 \notin 1..n
      BY <1>3, <1>5
    <2> QED
      BY <1>3, <2>1 DEF Since
  <1>7. Cardinality(Since(new)) = Cardinality(Since(log)) + 1 /\ Cardinality(Since(log)) \in Nat
    BY <1>6, LogType, FS_AddElement
  <1>8. changed.revision = 1 + Cardinality(Since(new))
    BY <1>4, <1>7
  <1> QED
    BY <1>1, <1>2, <1>3, <1>4, <1>8, ExplainsIs

\* Nothing but the revision is told.
LEMMA SameTells ==
  ASSUME NEW log, NEW row, row # Nothing, Explains(log, row),
         NEW changed, changed # Nothing, changed.revision = row.revision
  PROVE  Explains(log, changed)
  BY ExplainsIs


-----------------------------------------------------------------------------
(* The invariant: the records a content does not leave to a failed call are    *)
(* explained by its own entries, wherever the content is kept, so that an end, *)
(* a rollback, a restore or a restart brings no other back.                    *)

Fits(x, U) == \A j \in Ids \ U : Explains(x.audit[j], x.rows[j])
Kept == {conn.content} \cup {Starts[k] : k \in DOMAIN Starts} \cup Others
AllFit == \A x \in Kept : Fits(x, unaudited)

\* A record and its log change together, or the record is a failed call's.
LEMMA ChangeFits ==
  ASSUME NEW x, NEW y, NEW U, NEW W, U \subseteq W, Fits(x, U), NEW i \in Ids,
         \A j \in Ids \ {i} : y.audit[j] = x.audit[j] /\ y.rows[j] = x.rows[j],
         i \notin W => Explains(y.audit[i], y.rows[i])
  PROVE  Fits(y, W)
  BY DEF Fits

\* What a step that keeps the transactions' starts has to show.
Tells == unaudited \subseteq unaudited' /\ Fits(conn'.content, unaudited')

LEMMA WorksFit ==
  ASSUME IInv, AllFit, Works, Tells
  PROVE  AllFit'
  <1>1. Starts' = Starts /\ Others' = Others /\ frames' = frames
    BY WorksKeep DEF Works, Others
  <1>2. \A x \in Kept : Fits(x, unaudited')
    BY DEF AllFit, Tells, Fits
  <1>3. \A x \in Kept' : x \in Kept \/ x = conn'.content
    BY <1>1 DEF Kept
  <1>4. \A x \in Kept' : Fits(x, unaudited')
    BY <1>2, <1>3 DEF Tells
  <1> QED
    BY <1>4 DEF AllFit, Fits

LEMMA SettleTells ==
  ASSUME IInv, AllFit, Ready, NEW done, Stack(done, depth), NEW i \in Ids,
         NEW o \in Entry \ {"failure"}, NEW accepted \in BOOLEAN, Settle(done, i, o, accepted),
         done.content.audit = conn.content.audit,
         \A j \in Ids \ {i} : done.content.rows[j] = Rows[j],
         ~accepted => done.content = conn.content,
         accepted /\ i \notin unaudited => Explains(Append(conn.content.audit[i], o), done.content.rows[i])
  PROVE  Tells
  <1>1. depth \in Nat /\ done.content \in Fine /\ conn.content \in Fine /\ Rows = conn.content.rows
    BY IInvType, MarksType DEF Stack
  <1>2. Fits(conn.content, unaudited)
    BY DEF AllFit, Kept
  <1>3. CASE auditOpen
    <2> PICK entry \in Entry : entry = IF accepted THEN o ELSE "failure"
      BY DEF Entry
    <2> PICK log : log = Append(conn.content.audit[i], entry)
      OBVIOUS
    <2> PICK x : x = [done.content EXCEPT !.audit[i] = Append(@, entry)]
      OBVIOUS
    <2>1. conn' = Ran(done, x) /\ unaudited' = unaudited
      BY <1>3 DEF Settle
    <2>2. x \in Fine
      BY <1>1, WithEntry
    <2>3. conn'.content = x
      BY <1>1, <2>1, <2>2, RanStack
    <2>4. x.rows = done.content.rows /\ x.audit[i] = log /\ \A j \in Ids \ {i} : x.audit[j] = conn.content.audit[j]
      <3>1. done.content.audit \in [Ids -> Seq(Entry)]
        BY <1>1, FineType
      <3>2. x.rows = done.content.rows /\ x.audit = [done.content.audit EXCEPT ![i] = Append(@, entry)]
        BY <1>1 DEF Fine, Content
      <3> QED
        BY <3>1, <3>2
    <2>5. i \notin unaudited => Explains(log, x.rows[i])
      <3>1. CASE accepted
        BY <2>4, <3>1
      <3>2. CASE ~accepted
        <4>1. entry = "failure" /\ x.rows[i] = conn.content.rows[i] /\ conn.content.audit[i] \in Seq(Entry)
          BY <1>1, <2>4, <3>2, FineType
        <4>2. i \notin unaudited => Explains(conn.content.audit[i], conn.content.rows[i])
          BY <1>2 DEF Fits
        <4> QED
          BY <4>1, <4>2, FailureTells
      <3> QED
        BY <3>1, <3>2
    <2>a. \A j \in Ids \ {i} : x.audit[j] = conn.content.audit[j] /\ x.rows[j] = conn.content.rows[j]
      BY <1>1, <2>4
    <2>b. i \notin unaudited => Explains(x.audit[i], x.rows[i])
      BY <2>4, <2>5
    <2>6. Fits(x, unaudited)
      BY <1>2, <2>a, <2>b DEF Fits
    <2> QED
      BY <2>1, <2>3, <2>6 DEF Tells
  <1>4. CASE ~auditOpen
    <2> PICK e : e = Threw(done)
      OBVIOUS
    <2>1. Stack(e, depth) /\ e.content = done.content
      BY <1>1, ThrewStack
    <2>2. /\ conn' = e \/ conn' = Threw(e)
          /\ unaudited' = IF accepted THEN unaudited \cup {i} ELSE unaudited
      BY <1>4 DEF Settle
    <2>3. conn'.content = done.content
      BY <1>1, <2>1, <2>2, ThrewStack
    <2>4. Fits(done.content, unaudited')
      <3>1. CASE accepted
        BY <1>1, <1>2, <2>2, <3>1, ChangeFits
      <3>2. CASE ~accepted
        BY <1>2, <2>2, <3>2
      <3> QED
        BY <3>1, <3>2
    <2> QED
      BY <2>2, <2>3, <2>4 DEF Tells
  <1> QED
    BY <1>3, <1>4

LEMMA CreateTells ==
  ASSUME IInv, AllFit, NEW i \in Ids, NEW v \in Values \cup {Invalid}, Create(i, v)
  PROVE  Tells
  <1> PICK accepted \in BOOLEAN : accepted = (IsValid(v) /\ IsUnique(i, v) /\ Rows[i] = Nothing)
    OBVIOUS
  <1> PICK row : row = [value |-> v, version |-> SchemaVersion, revision |-> 1]
    OBVIOUS
  <1> PICK done : done = IF accepted THEN Put(i, row) ELSE Threw(conn)
    OBVIOUS
  <1>1. Ready /\ Settle(done, i, "create", accepted) /\ "create" \in Entry \ {"failure"}
    BY DEF Create, Entry
  <1>2. depth \in Nat /\ Stack(conn, depth) /\ conn.content \in Fine /\ Rows = conn.content.rows
    BY <1>1, IInvType
  <1>3. CASE accepted
    <2>1. row \in Row /\ IsUnique(i, row.value) /\ row # Nothing /\ row.revision = 1
      <3>1. row \in Row /\ IsUnique(i, row.value) /\ row.revision = 1
        BY <1>3, DataAssumption DEF IsValid, Row
      <3> QED
        BY <3>1, DataAssumption
    <2>2. done = Put(i, row)
      BY <1>3
    <2>3. /\ Stack(done, depth) /\ done.content.audit = conn.content.audit /\ done.content.rows[i] = row
          /\ \A j \in Ids \ {i} : done.content.rows[j] = Rows[j]
      BY <1>1, <2>1, <2>2, PutStack
    <2>5. Explains(Append(conn.content.audit[i], "create"), row)
      BY <1>2, <2>1, FineType, CreationTells
    <2> QED
      BY <1>1, <1>3, <2>3, <2>5, SettleTells
  <1>4. CASE ~accepted
    <2>1. done = Threw(conn)
      BY <1>4
    <2>2. Stack(done, depth) /\ done.content = conn.content
      BY <1>2, <2>1, ThrewStack
    <2> QED
      BY <1>1, <1>2, <1>4, <2>2, SettleTells
  <1> QED
    BY <1>3, <1>4

LEMMA UpdateTellsIt ==
  ASSUME IInv, AllFit, NEW i \in Ids, NEW v \in Values \cup {Invalid}, NEW n \in 0..MaxRevision, Update(i, v, n)
  PROVE  Tells
  <1>1. Ready /\ "update" \in Entry \ {"failure"}
    BY DEF Update, Entry
  <1>2. depth \in Nat /\ Stack(conn, depth) /\ conn.content \in Fine /\ Rows = conn.content.rows
    BY <1>1, IInvType
  <1>3. CASE Rows[i] = Nothing
    <2>1. Settle(conn, i, "update", FALSE)
      BY <1>3 DEF Update
    <2> QED
      BY <1>1, <1>2, <2>1, SettleTells
  <1>4. CASE Rows[i] # Nothing
    <2> PICK accepted \in BOOLEAN : accepted = (IsValid(v) /\ IsUnique(i, v) /\ n \in {0, Rows[i].revision})
      OBVIOUS
    <2> PICK row : row = [value |-> v, version |-> SchemaVersion, revision |-> Rows[i].revision + 1]
      OBVIOUS
    <2> PICK done : done = IF accepted THEN Put(i, row) ELSE Threw(conn)
      OBVIOUS
    <2>1. Settle(done, i, "update", accepted)
      BY <1>4 DEF Update
    <2>2. CASE accepted
      <3>1. Rows[i].revision \in Nat
        BY <1>4, IInvType, FineType
      <3>2. row \in Row /\ IsUnique(i, row.value) /\ row # Nothing
        <4>1. IsValid(v) /\ IsUnique(i, v)
          BY <2>2
        <4>2. v \in Values
          BY <4>1 DEF IsValid
        <4>3. SchemaVersion \in Nat /\ Rows[i].revision + 1 \in Nat /\ row.value = v
          BY <3>1, DataAssumption
        <4>4. row \in Row
          BY <4>2, <4>3 DEF Row
        <4> QED
          BY <4>1, <4>3, <4>4, DataAssumption
      <3>3. done = Put(i, row)
        BY <2>2
      <3>4. /\ Stack(done, depth) /\ done.content.audit = conn.content.audit /\ done.content.rows[i] = row
            /\ \A j \in Ids \ {i} : done.content.rows[j] = Rows[j]
        BY <1>1, <3>2, <3>3, PutStack
      <3>6. i \notin unaudited => Explains(Append(conn.content.audit[i], "update"), row)
        <4>1. i \notin unaudited => Explains(conn.content.audit[i], Rows[i])
          BY <1>2 DEF AllFit, Kept, Fits
        <4>2. conn.content.audit[i] \in Seq(Entry) /\ row.revision = Rows[i].revision + 1
          BY <1>2, FineType
        <4> QED
          BY <1>4, <3>2, <4>1, <4>2, UpdateTells
      <3> QED
        BY <1>1, <2>1, <2>2, <3>4, <3>6, SettleTells
    <2>3. CASE ~accepted
      <3>1. done = Threw(conn)
        BY <2>3
      <3>2. Stack(done, depth) /\ done.content = conn.content
        BY <1>2, <3>1, ThrewStack
      <3> QED
        BY <1>1, <1>2, <2>1, <2>3, <3>2, SettleTells
    <2> QED
      BY <2>2, <2>3
  <1> QED
    BY <1>3, <1>4

LEMMA DeleteTells ==
  ASSUME IInv, AllFit, NEW i \in Ids, Delete(i)
  PROVE  Tells
  <1> PICK accepted \in BOOLEAN : accepted = (Rows[i] # Nothing)
    OBVIOUS
  <1> PICK done : done = IF Rows[i] = Nothing THEN conn ELSE Put(i, Nothing)
    OBVIOUS
  <1>1. Ready /\ Settle(done, i, "delete", accepted) /\ "delete" \in Entry \ {"failure"}
    BY DEF Delete, Entry
  <1>2. depth \in Nat /\ Stack(conn, depth) /\ conn.content \in Fine /\ Rows = conn.content.rows
    BY <1>1, IInvType
  <1>3. CASE ~accepted
    <2>1. done = conn
      BY <1>3
    <2> QED
      BY <1>1, <1>2, <1>3, <2>1, SettleTells
  <1>4. CASE accepted
    <2>1. done = Put(i, Nothing)
      BY <1>4
    <2>2. /\ Stack(done, depth) /\ done.content.audit = conn.content.audit /\ done.content.rows[i] = Nothing
          /\ \A j \in Ids \ {i} : done.content.rows[j] = Rows[j]
      BY <1>1, <2>1, PutStack
    <2>3. Explains(Append(conn.content.audit[i], "delete"), Nothing)
      BY <1>2, FineType, RemovalTells
    <2> QED
      BY <1>1, <1>4, <2>2, <2>3, SettleTells
  <1> QED
    BY <1>3, <1>4

\* The call that removed it told its caller that it failed.
LEMMA LostTells ==
  ASSUME IInv, AllFit, Ready, NEW i \in Ids, unaudited' = unaudited \cup {i},
         conn'.content.audit = conn.content.audit,
         \A j \in Ids \ {i} : conn'.content.rows[j] = Rows[j]
  PROVE  Tells
  <1>1. Fits(conn.content, unaudited) /\ Rows = conn.content.rows
    BY IInvType DEF AllFit, Kept
  <1>2. Fits(conn'.content, unaudited')
    BY <1>1, ChangeFits
  <1> QED
    BY <1>2 DEF Tells

LEMMA PurgeTells ==
  ASSUME IInv, AllFit, NEW S \in SUBSET Ids, Purge(S)
  PROVE  Tells
  <1>1. Ready /\ depth \in Nat /\ Stack(conn, depth) /\ conn.content \in Fine /\ Rows = conn.content.rows
    BY IInvType DEF Purge
  <1>2. CASE auditOpen
    <2> PICK audit : audit = [i \in Ids |-> IF i \in S THEN Append(conn.content.audit[i], "purge") ELSE conn.content.audit[i]]
      OBVIOUS
    <2> PICK rows : rows = [i \in Ids |-> IF i \in S THEN Nothing ELSE conn.content.rows[i]]
      OBVIOUS
    <2> PICK y : y = [conn.content EXCEPT !.rows = rows, !.audit = audit]
      OBVIOUS
    <2>1. conn' = Ran(conn, y) /\ unaudited' = unaudited
      BY <1>2 DEF Purge
    <2>2. audit \in [Ids -> Seq(Entry)]
      <3>1. \A i \in Ids : Append(conn.content.audit[i], "purge") \in Seq(Entry) /\ conn.content.audit[i] \in Seq(Entry)
        BY <1>1, FineType, AppendProperties DEF Entry
      <3> QED
        BY <3>1
    <2>3. rows \in [Ids -> Row \cup {Nothing}]
      BY <1>1, FineType
    <2>4. y \in Content /\ y.rows = rows /\ y.audit = audit
      BY <1>1, <2>2, <2>3 DEF Fine, Content
    <2>5. y \in Fine
      BY <1>1, <2>4, WithoutRows
    <2>6. conn'.content = y
      BY <1>1, <2>1, <2>5, RanStack
    <2>7. Fits(y, unaudited)
      <3> SUFFICES ASSUME NEW j \in Ids \ unaudited PROVE Explains(audit[j], rows[j])
        BY <2>4 DEF Fits
      <3>1. Explains(conn.content.audit[j], conn.content.rows[j]) /\ conn.content.audit[j] \in Seq(Entry)
        BY <1>1, FineType DEF AllFit, Kept, Fits
      <3>2. CASE j \in S
        <4>1. audit[j] = Append(conn.content.audit[j], "purge") /\ rows[j] = Nothing
          BY <3>2
        <4> QED
          BY <3>1, <4>1, RemovalTells
      <3>3. CASE j \notin S
        BY <3>1, <3>3
      <3> QED
        BY <3>2, <3>3
    <2> QED
      BY <2>1, <2>6, <2>7 DEF Tells
  <1>3. CASE ~auditOpen
    <2> PICK i \in S : conn' = Threw(Put(i, Nothing)) /\ unaudited' = unaudited \cup {i}
      BY <1>3 DEF Purge
    <2> PICK e : e = Put(i, Nothing)
      OBVIOUS
    <2>1. /\ Stack(e, depth) /\ e.content.audit = conn.content.audit
          /\ \A j \in Ids \ {i} : e.content.rows[j] = Rows[j]
      BY <1>1, PutStack
    <2>2. conn'.content = e.content
      BY <1>1, <2>1, ThrewStack
    <2> QED
      BY <1>1, <2>1, <2>2, LostTells
  <1> QED
    BY <1>2, <1>3


LEMMA GetTells ==
  ASSUME IInv, AllFit, NEW i \in Ids, Get(i)
  PROVE  Tells
  <1> PICK row : row = Rows[i]
    OBVIOUS
  <1> PICK v : v = Migrated[row.version]
    OBVIOUS
  <1> PICK new : new = [row EXCEPT !.version = v]
    OBVIOUS
  <1> PICK x : x = [conn.content EXCEPT !.rows[i] = new]
    OBVIOUS
  <1>1. /\ conn.content \in Fine /\ Rows = conn.content.rows /\ Rows \in [Ids -> Row \cup {Nothing}]
        /\ row \in Row /\ row # Nothing /\ v \in Nat
    BY IInvType, FineType, DataAssumption DEF Get
  <1>2. new \in Row /\ new.revision = row.revision
    BY <1>1 DEF Row
  <1>3. new # Nothing
    BY <1>2, DataAssumption
  <1>4. conn' = [conn EXCEPT !.content = x] /\ unaudited' = unaudited
    BY <1>1 DEF Get
  <1>5. conn'.content = x
    BY <1>4, IInvType DEF Conn
  <1>6. x.rows = [Rows EXCEPT ![i] = new] /\ x.audit = conn.content.audit
    BY <1>1 DEF Fine, Content
  <1>7. x.rows[i] = new /\ \A j \in Ids \ {i} : x.rows[j] = Rows[j]
    BY <1>1, <1>6
  <1>8. Fits(conn.content, unaudited)
    BY DEF AllFit, Kept
  <1>9. i \notin unaudited => Explains(x.audit[i], x.rows[i])
    <2>1. i \notin unaudited => Explains(conn.content.audit[i], row)
      BY <1>1, <1>8 DEF Fits
    <2> QED
      <3>1. i \notin unaudited => Explains(conn.content.audit[i], new)
        BY <1>1, <1>2, <1>3, <2>1, SameTells
      <3> QED
        BY <1>6, <1>7, <3>1
  <1>10. Fits(x, unaudited)
    BY <1>1, <1>6, <1>7, <1>8, <1>9 DEF Fits
  <1> QED
    BY <1>4, <1>5, <1>10 DEF Tells

LEMMA AuditCommitTells ==
  ASSUME IInv, AllFit, NEW i \in Ids, AuditCommitThrows(i)
  PROVE  Tells
  <1>1. Ready /\ conn' = Put(i, Nothing) /\ unaudited' = unaudited \cup {i}
    BY DEF AuditCommitThrows
  <1>2. conn'.content.audit = conn.content.audit /\ \A j \in Ids \ {i} : conn'.content.rows[j] = Rows[j]
    BY <1>1, PutStack
  <1> QED
    BY <1>1, <1>2, LostTells


\* The steps that bring back what was kept, and only that.
LEMMA StartsKept ==
  ASSUME IInv
  PROVE  /\ Starts \in Seq(Fine) /\ Len(Starts) \in Nat /\ DOMAIN Starts = 1..Len(Starts)
         /\ \A k \in 1..Len(Starts) : Starts[k] \in Kept
         /\ Starts # <<>> => Len(Starts) # 0
         /\ conn.content \in Kept /\ Others \subseteq Kept
  <1>1. Starts \in Seq(Fine)
    BY StartsType
  <1>2. Len(Starts) \in Nat /\ DOMAIN Starts = 1..Len(Starts) /\ (Starts # <<>> => Len(Starts) # 0)
    BY <1>1, LenProperties, EmptySeq
  <1> QED
    BY <1>1, <1>2 DEF Kept

LEMMA TurnsKept ==
  ASSUME IInv, Turns
  PROVE  conn'.content \in Kept /\ \A k \in DOMAIN Starts' : Starts'[k] \in Kept
  <1> PICK s : s = Starts
    OBVIOUS
  <1> PICK t : t = Starts'
    OBVIOUS
  <1> PICK n \in Nat : n = Len(s) /\ DOMAIN s = 1..n
    BY StartsKept
  <1>1. /\ s \in Seq(Fine) /\ (\A k \in 1..n : s[k] \in Kept) /\ (s # <<>> => n # 0)
        /\ conn.content \in Kept /\ conn.content \in Fine /\ Others \subseteq Kept
    BY StartsKept, IInvType
  <1>2. CASE t = Append(s, conn.content) /\ conn'.content = conn.content
    <2>1. DOMAIN t = 1..(n + 1) /\ t[n + 1] = conn.content /\ \A k \in 1..n : t[k] = s[k]
      BY <1>1, <1>2, AppendProperties, LenProperties
    <2>2. \A k \in 1..(n + 1) : k \in 1..n \/ k = n + 1
      OBVIOUS
    <2> QED
      BY <1>1, <1>2, <2>1, <2>2
  <1>3. CASE s # <<>> /\ t = Front(s) /\ conn'.content \in {conn.content, Last(s)}
    <2>1. n # 0 /\ n - 1 \in Nat /\ \A k \in 1..(n - 1) : k \in 1..n /\ s[k] \in Fine
      BY <1>1, <1>3, ElementOfSeq
    <2>2. /\ t \in Seq(Fine) /\ Len(t) = (IF 1 <= n - 1 THEN (n - 1) - 1 + 1 ELSE 0)
          /\ \A k \in 1..((n - 1) - 1 + 1) : t[k] = s[1 + k - 1]
      BY <1>1, <1>3, <2>1, SubSeqProperties DEF Front
    <2>3. DOMAIN t = 1..(n - 1) /\ \A k \in 1..(n - 1) : t[k] = s[k]
      BY <2>1, <2>2, LenProperties
    <2>4. Last(s) \in Kept
      BY <1>1, <2>1 DEF Last
    <2> QED
      BY <1>1, <1>3, <2>1, <2>3, <2>4
  <1>4. CASE t = <<>> /\ conn'.content \in {IF s = <<>> THEN conn.content ELSE Head(s)} \cup Others
    <2>1. DOMAIN t = {}
      BY <1>4
    <2>2. s # <<>> => Head(s) \in Kept
      BY <1>1, HeadTailProperties
    <2> QED
      BY <1>1, <1>4, <2>1, <2>2
  <1> QED
    BY <1>2, <1>3, <1>4 DEF Turns

LEMMA KeptFit ==
  ASSUME IInv, AllFit, unaudited' = unaudited, Others' \subseteq Kept,
         conn'.content \in Kept, \A k \in DOMAIN Starts' : Starts'[k] \in Kept
  PROVE  AllFit'
  <1>1. Kept' \subseteq Kept
    BY DEF Kept
  <1> QED
    BY <1>1 DEF AllFit, Fits

LEMMA SameKept ==
  ASSUME IInv, conn' = conn, frames' = frames
  PROVE  conn'.content \in Kept /\ \A k \in DOMAIN Starts' : Starts'[k] \in Kept
  <1>1. Starts' = Starts
    BY DEF Starts, Nearest
  <1> QED
    BY <1>1, StartsKept

LEMMA OthersKept ==
  ASSUME IInv, AllFit
  PROVE  /\ files' = files => Others' \subseteq Kept
         /\ \A p \in Paths : Backup(p) \/ Restore(p) => Others' \subseteq Kept
         /\ Restart => Others' \subseteq Kept
  <1>1. files' = files => Others' \subseteq Kept
    BY StartsKept DEF Others
  <1>2. \A p \in Paths : Backup(p) \/ Restore(p) => Others' \subseteq Kept
    <2> TAKE p \in Paths
    <2>1. files \in [Paths -> Fine \cup {Nothing}]
      BY DEF IInv
    <2>2. Backup(p) \/ Restore(p) => \A q \in Paths : files'[q] \in {files[q], conn.content, Nothing}
      BY <2>1 DEF Backup, Restore
    <2> QED
      BY <2>2, StartsKept DEF Others
  <1>3. Restart => Others' \subseteq Kept
    <2>1. files \in [Paths -> Fine \cup {Nothing}]
      BY DEF IInv
    <2>2. Restart => \A q \in Paths : files'[q] \in {files[q], Durable, Nothing}
      BY <2>1 DEF Restart
    <2>3. Durable \in Kept
      <3>1. Starts # <<>> => Head(Starts) \in Kept
        BY StartsKept
      <3> QED
        BY <3>1, DurableIsHead, StartsKept
    <2> QED
      BY <2>2, <2>3, StartsKept DEF Others
  <1> QED
    BY <1>1, <1>2, <1>3

LEMMA InitFits == Init => AllFit
  <1> SUFFICES ASSUME Init PROVE AllFit
    OBVIOUS
  <1>1. Starts = <<>> /\ Others = {} /\ unaudited = {}
    BY DEF Init, Starts, Others
  <1>2. Fits(Empty, {})
    <2>1. Explains(<<>>, Nothing)
      BY DEF Explains
    <2> QED
      BY <2>1 DEF Fits, Empty
  <1>3. ASSUME NEW i \in Ids, NEW v \in Values
        PROVE  Fits(Inherited(i, v), {})
    <2> PICK row : row = [value |-> v, version |-> SchemaVersion - 1, revision |-> 1]
      OBVIOUS
    <2> PICK x : x = Inherited(i, v)
      OBVIOUS
    <2>1. row \in Row /\ row # Nothing /\ row.revision = 1
      <3>1. row \in Row /\ row.revision = 1
        BY DataAssumption DEF Row
      <3> QED
        BY <3>1, DataAssumption
    <2>2. Explains(Append(<<>>, "create"), row)
      <3>1. <<>> \in Seq(Entry)
        BY EmptySeq
      <3> QED
        BY <2>1, <3>1, CreationTells
    <2>3. Append(<<>>, "create") = <<"create">>
      OBVIOUS
    <2>4. Explains(<<"create">>, row)
      BY <2>2, <2>3
    <2>5. x.rows[i] = row /\ x.audit[i] = <<"create">>
      BY DEF Inherited, Empty
    <2>6. \A j \in Ids \ {i} : x.rows[j] = Empty.rows[j] /\ x.audit[j] = Empty.audit[j]
      BY DEF Inherited, Empty
    <2> QED
      BY <1>2, <2>4, <2>5, <2>6 DEF Fits
  <1>4. Fits(conn.content, {})
    BY <1>2, <1>3 DEF Init
  <1>5. Kept = {conn.content}
    BY <1>1 DEF Kept
  <1> QED
    BY <1>1, <1>4, <1>5 DEF AllFit

LEMMA StepFits == IInv /\ AllFit /\ [Next]_vars => AllFit'
  <1> SUFFICES ASSUME IInv, AllFit, [Next]_vars PROVE AllFit'
    OBVIOUS
  <1>1. ASSUME NEW i \in Ids, NEW v \in Values \cup {Invalid}, Create(i, v) \/ \E n \in 0..MaxRevision : Update(i, v, n)
        PROVE  AllFit'
    BY <1>1, CreateWorks, UpdateWorks, CreateTells, UpdateTellsIt, WorksFit
  <1>2. ASSUME NEW i \in Ids, Delete(i) \/ Get(i) \/ AuditCommitThrows(i)
        PROVE  AllFit'
    BY <1>2, DeleteWorks, GetWorks, AuditCommitWorks, DeleteTells, GetTells, AuditCommitTells, WorksFit
  <1>3. ASSUME NEW S \in SUBSET Ids, Purge(S)
        PROVE  AllFit'
    BY <1>3, PurgeWorks, PurgeTells, WorksFit
  <1>4. CASE BeginTransaction \/ ReturnTransaction \/ ThrowTransaction
    <2>1. Turns
      BY <1>4, BeginKeeps, EndKeeps
    <2>2. unaudited' = unaudited /\ files' = files
      BY <1>4 DEF BeginTransaction, ReturnTransaction, ThrowTransaction, Ended
    <2> QED
      BY <2>1, <2>2, TurnsKept, OthersKept, KeptFit
  <1>5. CASE CommitThrows
    <2>1. (conn' = conn /\ frames' = frames) \/ Turns
      BY <1>5, CommitThrowsKeeps
    <2>2. unaudited' = unaudited /\ files' = files
      BY <1>5 DEF CommitThrows
    <2> QED
      BY <2>1, <2>2, TurnsKept, SameKept, OthersKept, KeptFit
  <1>6. ASSUME NEW p \in Paths, Backup(p)
        PROVE  AllFit'
    <2>1. conn' = conn /\ frames' = frames /\ unaudited' = unaudited
      BY <1>6 DEF Backup
    <2> QED
      BY <1>6, <2>1, SameKept, OthersKept, KeptFit
  <1>7. ASSUME NEW p \in Paths, Restore(p)
        PROVE  AllFit'
    <2>1. Turns /\ unaudited' = unaudited
      BY <1>7, RestoreKeeps DEF Restore
    <2> QED
      BY <1>7, <2>1, TurnsKept, OthersKept, KeptFit
  <1>8. CASE Restart
    <2>1. Turns /\ unaudited' = unaudited
      BY <1>8, RestartKeeps DEF Restart
    <2> QED
      BY <1>8, <2>1, TurnsKept, OthersKept, KeptFit
  <1>9. CASE UNCHANGED vars
    <2>1. conn' = conn /\ frames' = frames /\ unaudited' = unaudited /\ files' = files
      BY <1>9 DEF vars
    <2> QED
      BY <2>1, SameKept, OthersKept, KeptFit
  <1> QED
    BY <1>1, <1>2, <1>3, <1>4, <1>5, <1>6, <1>7, <1>8, <1>9 DEF Next

\* The audit trail tells of every record whether it exists and at which revision,
\* through rollbacks, migrations, purges, restores and restarts, but for the
\* records a call changed and told its caller it failed (DataAuthority.ts,
\* audit() after each write, in a transaction of its own).
THEOREM AuditTellsAll == Spec => []AuditExplains
  <1>1. IInv /\ AllFit => AuditExplains
    BY IInvType DEF AllFit, Kept, Fits, AuditExplains
  <1>2. IInv /\ [Next]_vars => IInv'
    BY StepHolds
  <1> QED
    BY <1>1, <1>2, InitHolds, InitFits, StepFits, PTL DEF Spec

-----------------------------------------------------------------------------
(* Numbers that the sections below keep needing.                               *)

LEMMA Least ==
  ASSUME NEW X \in SUBSET Nat, X # {}
  PROVE  \E m \in X : \A n \in X : m <= n
  <1>1. PICK m \in X : \A n \in X : ~(<<n, m>> \in OpToRel(<, Nat))
    BY NatLessThanWellFounded, WFMin
  <1>2. \A n \in X : ~(n < m)
    BY <1>1 DEF OpToRel
  <1> QED
    BY <1>2

LEMMA Greatest ==
  ASSUME NEW n \in Nat, NEW S \in SUBSET (0..n), S # {}
  PROVE  \E m \in S : \A k \in S : k <= m
  <1> DEFINE T == {x \in 0..n : n - x \in S}
  <1>1. T \in SUBSET Nat
    OBVIOUS
  <1>2. PICK k : k \in S
    OBVIOUS
  <1>3. k \in 0..n
    BY <1>2
  <1>4. n - k \in T
    BY <1>2, <1>3
  <1>5. PICK m \in T : \A x \in T : m <= x
    BY <1>1, <1>4, Least
  <1>6. \A y \in S : n - y \in T
    OBVIOUS
  <1> QED
    BY <1>5, <1>6

LEMMA LeastIs ==
  ASSUME NEW S \in SUBSET Nat, S # {}
  PROVE  C!Min(S) \in S
  BY Least DEF C!Min

-----------------------------------------------------------------------------
(* Configuration.  The history and the provenance have the shape their use     *)
(* needs, and what the run checks is inductive with it.                        *)

IsProvenance(p) == p = Nothing \/ \E v, s, n : p = [value |-> v, source |-> s, version |-> n]

AreProvenances(f) == f = [k \in C!AllKeys |-> f[k]] /\ \A k \in C!AllKeys : IsProvenance(f[k])

LEMMA ProvenanceIs == \A v, s, n : IsProvenance([value |-> v, source |-> s, version |-> n])
  BY DEF IsProvenance

LEMMA ProvenanceParts ==
  ASSUME NEW v, NEW s, NEW n, NEW p, p = [value |-> v, source |-> s, version |-> n]
  PROVE  p.value = v /\ p.version = n
  OBVIOUS

ExplainedBy(p, k, x, shots) ==
  p # Nothing =>
    /\ p.value \in {x} \cup (IF k \in Masked THEN {Redacted} ELSE {})
    /\ \E n \in DOMAIN shots : shots[n].version = p.version /\ k \in DOMAIN shots[n].values /\ shots[n].values[k] = x

ConfigurationShape ==
  /\ history \in Seq(C!Snapshot) /\ index \in 0..Len(history) /\ version \in Nat
  /\ saved \in C!Snapshot \cup {Nothing} /\ registry \subseteq C!AllKeys
  /\ AreProvenances(provenance)

ConfigurationInv == ConfigurationShape /\ C!FallbackIsServed /\ C!ProvenanceExplains

LEMMA ExplainsAll ==
  C!ProvenanceExplains <=>
    (index # 0 /\ ~reverted =>
      \A k \in DOMAIN history[index].values : ExplainedBy(provenance[k], k, history[index].values[k], history))
  BY DEF C!ProvenanceExplains, C!Current, ExplainedBy

LEMMA ConfigurationStarts == C!Init => ConfigurationInv
  BY DEF C!Init, C!Started, ConfigurationInv, ConfigurationShape, C!FallbackIsServed, C!ProvenanceExplains, IsProvenance,
         AreProvenances, C!AllKeys

\* What passes the validation is a snapshot.
LEMMA ValidIsSnapshot ==
  ASSUME C!ConfigurationAssumption, registry \subseteq C!AllKeys, version \in Nat,
         NEW S, NEW f, f = [k \in S |-> f[k]], C!Valid(f)
  PROVE  [version |-> version + 1, values |-> f] \in C!Snapshot
  <1>1. S = DOMAIN f /\ S \subseteq registry
    BY DEF C!Valid
  <1>2. \A k \in S : f[k] \in Settings
    BY <1>1 DEF C!Valid, C!ConfigurationAssumption
  <1>3. f \in [S -> Settings] /\ S \in SUBSET C!AllKeys
    BY <1>1, <1>2
  <1> QED
    BY <1>3 DEF C!Snapshot

\* The history with one more, and which one is served.
LEMMA Activated ==
  ASSUME history \in Seq(C!Snapshot), NEW s \in C!Snapshot, C!Activate(s)
  PROVE  /\ history' \in Seq(C!Snapshot) /\ Len(history') = Len(history) + 1
         /\ index' \in 1..Len(history') /\ index' # 0 /\ history'[index'] = s
         /\ DOMAIN history = 1..Len(history) /\ DOMAIN history' = 1..Len(history')
         /\ \A n \in DOMAIN history : n \in DOMAIN history' /\ history'[n] = history[n]
  BY DEF C!Activate

\* An explanation outlives another snapshot.
LEMMA ExplanationStays ==
  ASSUME NEW p, NEW k, NEW x, NEW h, NEW g, ExplainedBy(p, k, x, h),
         \A n \in DOMAIN h : n \in DOMAIN g /\ g[n] = h[n]
  PROVE  ExplainedBy(p, k, x, g)
  BY DEF ExplainedBy

LEMMA LoadExplains ==
  ASSUME C!ConfigurationAssumption, ConfigurationInv, C!Load
  PROVE  ConfigurationInv'
  <1>1. PICK values : values = C!Migrate([k \in registry |-> C!Resolved(k)])
    OBVIOUS
  <1>2. PICK s : s = [version |-> version + 1, values |-> values]
    OBVIOUS
  <1>3. /\ C!Valid(values) /\ version' = version + 1 /\ C!Activate(s) /\ lastValid' = s
        /\ provenance' = [k \in C!AllKeys |-> IF k \in registry THEN C!Loaded(k, values) ELSE provenance[k]]
        /\ UNCHANGED <<registry, saved>>
    BY <1>1, <1>2 DEF C!Load
  <1>4. values = [k \in registry |-> values[k]]
    BY <1>1 DEF C!Migrate
  <1>5. s \in C!Snapshot
    BY <1>2, <1>3, <1>4, ValidIsSnapshot DEF ConfigurationInv, ConfigurationShape
  <1>6. /\ history' \in Seq(C!Snapshot) /\ index' \in 1..Len(history') /\ index' # 0 /\ history'[index'] = s
        /\ DOMAIN history' = 1..Len(history')
    BY <1>3, <1>5, Activated DEF ConfigurationInv, ConfigurationShape
  <1>7. \A k \in registry : provenance'[k] = [value |-> values[k], source |-> C!SourceOf(k), version |-> version + 1]
    BY <1>3 DEF C!Loaded, ConfigurationInv, ConfigurationShape
  <1>8. ConfigurationShape'
    <2>1. \A k \in C!AllKeys : IsProvenance(provenance'[k])
      <3> TAKE k \in C!AllKeys
      <3>1. CASE k \in registry
        BY <1>7, <3>1, ProvenanceIs
      <3>2. CASE k \notin registry
        BY <1>3, <3>2 DEF ConfigurationInv, ConfigurationShape, AreProvenances
      <3> QED
        BY <3>1, <3>2
    <2>2. provenance' = [k \in C!AllKeys |-> provenance'[k]]
      BY <1>3
    <2>3. version' \in Nat /\ saved' \in C!Snapshot \cup {Nothing} /\ registry' \subseteq C!AllKeys
      BY <1>3 DEF ConfigurationInv, ConfigurationShape, C!Snapshot, C!AllKeys
    <2>4. index' \in 0..Len(history') /\ history' \in Seq(C!Snapshot)
      BY <1>6
    <2> QED
      BY <2>1, <2>2, <2>3, <2>4 DEF ConfigurationShape, AreProvenances, C!Snapshot, C!AllKeys
  <1>9. C!FallbackIsServed'
    BY <1>3, <1>6 DEF C!FallbackIsServed, C!Current
  <1>10. C!ProvenanceExplains'
    <2>1. ASSUME NEW k \in registry
          PROVE  ExplainedBy(provenance'[k], k, values[k], history')
      <3>1. s.version = version + 1 /\ s.values = values /\ k \in DOMAIN values
        BY <1>2, <1>4
      <3>2. provenance'[k].value = values[k] /\ provenance'[k].version = version + 1
        <4>1. PICK x, o, n, p : /\ x = values[k] /\ n = version + 1 /\ p = provenance'[k]
                                /\ p = [value |-> x, source |-> o, version |-> n]
          BY <1>7
        <4>2. p.value = x /\ p.version = n
          BY <4>1, ProvenanceParts
        <4> QED
          BY <4>1, <4>2
      <3> QED
        BY <1>6, <3>1, <3>2 DEF ExplainedBy
    <2> QED
      BY <1>2, <1>4, <1>6, <2>1 DEF C!ProvenanceExplains, C!Current, ExplainedBy
  <1> QED
    BY <1>8, <1>9, <1>10 DEF ConfigurationInv

LEMMA UpdateExplains ==
  ASSUME C!ConfigurationAssumption, ConfigurationInv, NEW k \in C!AllKeys, NEW v \in Settings, C!RequestUpdate(k, v)
  PROVE  ConfigurationInv'
  <1>1. PICK now : now = history[index]
    OBVIOUS
  <1>2. PICK f : f = [l \in DOMAIN now.values \cup {k} |-> IF l = k THEN v ELSE now.values[l]]
    OBVIOUS
  <1>3. PICK s : s = [version |-> version + 1, values |-> f]
    OBVIOUS
  <1>4. /\ C!Valid(f) /\ index # 0 /\ version' = version + 1 /\ C!Activate(s) /\ lastValid' = s
        /\ provenance' = IF provenance[k] = Nothing THEN provenance
                         ELSE [provenance EXCEPT ![k].value = IF k \in Masked THEN Redacted ELSE v,
                                                 ![k].version = version + 1]
        /\ UNCHANGED <<registry, saved, reverted>>
    BY <1>1, <1>2, <1>3 DEF C!RequestUpdate, C!Current
  <1>5. s \in C!Snapshot
    BY <1>2, <1>3, <1>4, ValidIsSnapshot DEF ConfigurationInv, ConfigurationShape
  <1>6. /\ history' \in Seq(C!Snapshot) /\ index' \in 1..Len(history') /\ index' # 0 /\ history'[index'] = s
        /\ DOMAIN history' = 1..Len(history')
        /\ \A n \in DOMAIN history : n \in DOMAIN history' /\ history'[n] = history[n]
    BY <1>4, <1>5, Activated DEF ConfigurationInv, ConfigurationShape
  <1>7. PICK x : x = IF k \in Masked THEN Redacted ELSE v
    OBVIOUS
  <1>8. /\ \A l \in C!AllKeys : l # k => provenance'[l] = provenance[l]
        /\ provenance' = [l \in C!AllKeys |-> provenance'[l]]
        /\ \/ provenance'[k] = Nothing
           \/ \E o : provenance'[k] = [value |-> x, source |-> o, version |-> version + 1]
    <2>1. CASE provenance[k] = Nothing
      BY <1>4, <2>1 DEF ConfigurationInv, ConfigurationShape, AreProvenances
    <2>2. CASE provenance[k] # Nothing
      <3>1. PICK w, o, n : provenance[k] = [value |-> w, source |-> o, version |-> n]
        BY <2>2 DEF ConfigurationInv, ConfigurationShape, AreProvenances, IsProvenance
      <3>2. provenance' = [provenance EXCEPT ![k] = [[@ EXCEPT !.value = x] EXCEPT !.version = version + 1]]
        BY <1>4, <1>7, <2>2 DEF ConfigurationInv, ConfigurationShape, AreProvenances
      <3>3. [[provenance[k] EXCEPT !.value = x] EXCEPT !.version = version + 1]
              = [value |-> x, source |-> o, version |-> version + 1]
        <4>1. PICK p, m : m = version + 1 /\ p = provenance[k] /\ p = [value |-> w, source |-> o, version |-> n]
          BY <3>1
        <4>2. [[p EXCEPT !.value = x] EXCEPT !.version = m] = [value |-> x, source |-> o, version |-> m]
          <5>1. [p EXCEPT !.value = x] = [value |-> x, source |-> o, version |-> n]
            BY <4>1
          <5>2. [[value |-> x, source |-> o, version |-> n] EXCEPT !.version = m] = [value |-> x, source |-> o, version |-> m]
            OBVIOUS
          <5> QED
            BY <5>1, <5>2
        <4> QED
          BY <4>1, <4>2
      <3> QED
        BY <3>2, <3>3 DEF ConfigurationInv, ConfigurationShape, AreProvenances
    <2> QED
      BY <2>1, <2>2
  <1>9. ConfigurationShape'
    <2>1. AreProvenances(provenance')
      <3>1. \A l \in C!AllKeys : IsProvenance(provenance'[l])
        <4>1. IsProvenance(provenance'[k])
          BY <1>8, ProvenanceIs DEF IsProvenance
        <4> QED
          BY <1>8, <4>1 DEF ConfigurationInv, ConfigurationShape, AreProvenances
      <3> QED
        BY <1>8, <3>1 DEF AreProvenances
    <2>2. index' \in 0..Len(history') /\ history' \in Seq(C!Snapshot)
      BY <1>6
    <2> QED
      BY <1>4, <2>1, <2>2 DEF ConfigurationInv, ConfigurationShape, C!Snapshot, C!AllKeys
  <1>10. C!FallbackIsServed'
    BY <1>4, <1>6 DEF C!FallbackIsServed, C!Current
  <1>11. C!ProvenanceExplains'
    <2> SUFFICES ASSUME ~reverted', NEW l \in DOMAIN f PROVE ExplainedBy(provenance'[l], l, f[l], history')
      BY <1>3, <1>6 DEF C!ProvenanceExplains, C!Current, ExplainedBy
    <2>1. CASE l = k
      <3>1. f[k] = v /\ k \in DOMAIN f
        BY <1>2
      <3> QED
        BY <1>3, <1>6, <1>7, <1>8, <2>1, <3>1 DEF ExplainedBy
    <2>2. CASE l # k
      <3>1. l \in DOMAIN now.values /\ f[l] = now.values[l]
        BY <1>2, <2>2
      <3>2. ExplainedBy(provenance[l], l, f[l], history)
        BY <1>1, <1>4, <3>1, ExplainsAll DEF ConfigurationInv
      <3>3. l \in C!AllKeys
        BY <1>4 DEF C!Valid, ConfigurationInv, ConfigurationShape
      <3> QED
        BY <1>6, <1>8, <2>2, <3>2, <3>3, ExplanationStays
    <2> QED
      BY <2>1, <2>2
  <1> QED
    BY <1>9, <1>10, <1>11 DEF ConfigurationInv

LEMMA ConfigurationKeeps ==
  ASSUME C!ConfigurationAssumption, ConfigurationInv, C!Next
  PROVE  ConfigurationInv'
  <1>1. CASE C!Load
    BY <1>1, LoadExplains
  <1>2. ASSUME NEW k \in C!AllKeys, NEW v \in Settings, C!RequestUpdate(k, v)
        PROVE  ConfigurationInv'
    BY <1>2, UpdateExplains
  <1>3. ASSUME NEW v, C!Rollback(v)
        PROVE  ConfigurationInv'
    <2> DEFINE found == {n \in DOMAIN history : history[n].version = v}
    <2>1. found \in SUBSET Nat /\ found # {} /\ DOMAIN history = 1..Len(history)
      BY <1>3 DEF C!Rollback, ConfigurationInv, ConfigurationShape
    <2>2. C!Min(found) \in found
      BY <2>1, LeastIs
    <2>3. /\ index' = C!Min(found) /\ lastValid' = history[C!Min(found)] /\ reverted' = TRUE
          /\ UNCHANGED <<registry, history, version, provenance, saved>>
      BY <1>3 DEF C!Rollback
    <2>4. index' \in 1..Len(history')
      BY <2>1, <2>2, <2>3
    <2> HIDE DEF found
    <2>5. ConfigurationShape'
      BY <2>3, <2>4 DEF ConfigurationInv, ConfigurationShape, C!Snapshot, C!AllKeys
    <2> QED
      BY <2>3, <2>5 DEF ConfigurationInv, C!FallbackIsServed, C!ProvenanceExplains, C!Current
  <1>4. CASE C!ActivateRestored
    <2>1. saved \in C!Snapshot /\ C!Activate(saved)
      BY <1>4 DEF C!ActivateRestored, ConfigurationInv, ConfigurationShape
    <2>2. history' \in Seq(C!Snapshot) /\ index' \in 1..Len(history')
      BY <2>1, Activated DEF ConfigurationInv, ConfigurationShape
    <2>3. reverted' = TRUE /\ restored' = TRUE /\ UNCHANGED <<registry, version, provenance, saved>>
      BY <1>4 DEF C!ActivateRestored
    <2>4. ConfigurationShape'
      BY <2>2, <2>3 DEF ConfigurationInv, ConfigurationShape, C!Snapshot, C!AllKeys
    <2> QED
      BY <2>3, <2>4 DEF ConfigurationInv, C!FallbackIsServed, C!ProvenanceExplains
  <1>5. CASE C!Backup
    <2>1. saved' = history[index] /\ index # 0
          /\ UNCHANGED <<registry, history, index, version, lastValid, provenance, reverted, restored>>
      BY <1>5 DEF C!Backup, C!Current
    <2>2. saved' \in C!Snapshot
      BY <2>1 DEF ConfigurationInv, ConfigurationShape
    <2> QED
      BY <2>1, <2>2 DEF ConfigurationInv, ConfigurationShape, C!Snapshot, C!AllKeys, C!FallbackIsServed, C!ProvenanceExplains, C!Current
  <1>6. CASE C!Restart
    <2>1. registry' = Keys /\ history' = <<>> /\ index' = 0 /\ version' = 0 /\ saved' = saved
          /\ provenance' = [k \in C!AllKeys |-> Nothing]
      BY <1>6 DEF C!Restart, C!Started
    <2> QED
      BY <2>1 DEF ConfigurationInv, ConfigurationShape, C!FallbackIsServed, C!ProvenanceExplains, IsProvenance, AreProvenances, C!AllKeys
  <1>7. ASSUME NEW k \in PluginKeys, C!RegisterPlugin(k)
        PROVE  ConfigurationInv'
    BY <1>7 DEF C!RegisterPlugin, ConfigurationInv, ConfigurationShape, C!AllKeys, C!FallbackIsServed,
                C!ProvenanceExplains, C!Current
  <1>8. ASSUME UNCHANGED <<registry, history, index, version, lastValid, provenance, saved, reverted, restored>>
        PROVE  ConfigurationInv'
    BY <1>8 DEF ConfigurationInv, ConfigurationShape, C!Snapshot, C!AllKeys, C!FallbackIsServed, C!ProvenanceExplains, C!Current
  <1>9. ASSUME NEW c, C!RegisterChecker(c)
        PROVE  ConfigurationInv'
    BY <1>8, <1>9 DEF C!RegisterChecker
  <1>10. ASSUME NEW s, NEW k, NEW v, C!Supply(s, k, v)
        PROVE  ConfigurationInv'
    BY <1>8, <1>10 DEF C!Supply
  <1>11. CASE C!Garble
    BY <1>8, <1>11 DEF C!Garble
  <1> QED
    BY <1>1, <1>2, <1>3, <1>4, <1>5, <1>6, <1>7, <1>9, <1>10, <1>11 DEF C!Next

\* What is served when a load is rejected is the last that was valid, and the provenance
\* explains the values of the active snapshot: for any keys, values, rules, migrations and
\* number of loads.
THEOREM FallbackIsExplained == ServicesSpec => []ServedIsExplained
  <1> DEFINE Inv == focus = "configuration" => ConfigurationInv
  <1>1. ServicesInit => Inv
    BY ConfigurationStarts DEF ServicesInit
  <1>2. Inv /\ [ServicesNext]_servicesVars => Inv'
    <2> SUFFICES ASSUME Inv, [ServicesNext]_servicesVars, focus' = "configuration" PROVE ConfigurationInv'
      OBVIOUS
    <2>1. CASE ServicesNext
      <3>1. focus = "configuration" /\ C!Next
        BY <2>1 DEF ServicesNext
      <3> QED
        BY <3>1, ConfigurationKeeps, ServicesAssumption
    <2>2. CASE UNCHANGED servicesVars
      <3>1. focus = "configuration"
        BY <2>2 DEF servicesVars
      <3> QED
        BY <2>2, <3>1 DEF servicesVars, configurationVars, ConfigurationInv, ConfigurationShape, C!Snapshot, C!AllKeys,
           C!FallbackIsServed, C!ProvenanceExplains, C!Current
    <2> QED
      BY <2>1, <2>2
  <1>3. Inv => ServedIsExplained
    BY DEF ServedIsExplained, ConfigurationInv
  <1> QED
    BY <1>1, <1>2, <1>3, PTL DEF ServicesSpec

-----------------------------------------------------------------------------
(* Notifications.  What a record holds is what was answered to the calls that  *)
(* settled, whatever order they settle in, since each reads the record again.  *)

Attempts == Seq(N!Attempt)
Positive(a) == \E k \in DOMAIN a : a[k].success

\* A record r with what was answered for it, a; a call under way.
AttemptsIn(r, a) ==
  /\ a \in Attempts
  /\ IF r = Nothing THEN a = <<>>
     ELSE r \in N!NotificationRecord /\ r.deliveries = a /\ (r.status = "delivered" => Positive(a))
CallOf(n, l, g, t, a) == [of |-> n, level |-> l, given |-> g, todo |-> t, attempts |-> a]
IsCall(c) ==
  \E n \in Notifications, t \in Seq(STRING), a \in Attempts : \E l, g :
    c = CallOf(n, l, g, t, a)

NotificationInv ==
  /\ records = [n \in Notifications |-> records[n]] /\ answered = [n \in Notifications |-> answered[n]]
  /\ due \in [Notifications -> Nat]
  /\ \A n \in Notifications : AttemptsIn(records[n], answered[n])
  /\ \A c \in deliveries : IsCall(c) /\ c.todo # <<>> /\ records[c.of] # Nothing

LEMMA NotificationStarts == N!Init => NotificationInv
  BY DEF N!Init, NotificationInv, AttemptsIn, Attempts

LEMMA CallParts ==
  ASSUME NEW c, IsCall(c)
  PROVE  c.of \in Notifications /\ c.todo \in Seq(STRING) /\ c.attempts \in Attempts
  BY DEF IsCall, CallOf

LEMMA CallIs ==
  ASSUME NEW n \in Notifications, NEW l, NEW g, NEW t \in Seq(STRING), NEW a \in Attempts,
         NEW c, c = CallOf(n, l, g, t, a)
  PROVE  IsCall(c)
  BY DEF IsCall

LEMMA JoinedPositive ==
  ASSUME NEW a \in Attempts, NEW b \in Attempts, Positive(a) \/ Positive(b)
  PROVE  Positive(a \o b)
  <1>1. CASE Positive(a)
    <2>1. PICK k \in DOMAIN a : a[k].success
      BY <1>1 DEF Positive
    <2>2. k \in DOMAIN (a \o b) /\ (a \o b)[k] = a[k]
      BY DEF Attempts
    <2> QED
      BY <2>1, <2>2 DEF Positive
  <1>2. CASE Positive(b)
    <2>1. PICK k \in DOMAIN b : b[k].success
      BY <1>2 DEF Positive
    <2>2. k + Len(a) \in DOMAIN (a \o b) /\ (a \o b)[k + Len(a)] = b[k]
      BY DEF Attempts
    <2> QED
      BY <2>1, <2>2 DEF Positive
  <1> QED
    BY <1>1, <1>2

\* A record that changes by its deliveries and its status, or its status and its level.
Resettled(r, d, x, q) == q = [[r EXCEPT !.deliveries = d] EXCEPT !.status = x]
Changed(r, x, l, q) == q = [[r EXCEPT !.status = x] EXCEPT !.level = l]

LEMMA RecordSettles ==
  ASSUME NEW r \in N!NotificationRecord, NEW d \in Attempts, NEW x \in N!Statuses,
         NEW q, Resettled(r, d, x, q)
  PROVE  q \in N!NotificationRecord /\ q.deliveries = d /\ q.status = x
  BY DEF N!NotificationRecord, Attempts, Resettled

LEMMA RecordChanges ==
  ASSUME NEW r \in N!NotificationRecord, NEW x \in N!Statuses, NEW l \in Nat,
         NEW q, Changed(r, x, l, q)
  PROVE  q \in N!NotificationRecord /\ q.deliveries = r.deliveries /\ q.status = x /\ q.level = l /\ q.type = r.type
  BY DEF N!NotificationRecord, Changed

LEMMA SettledKept ==
  ASSUME N!NotificationAssumption, NEW r, NEW a, r # Nothing, AttemptsIn(r, a), NEW c, IsCall(c)
  PROVE  N!Settled(c, r) # Nothing /\ AttemptsIn(N!Settled(c, r), a \o c.attempts)
  <1>1. /\ a \in Attempts /\ r \in N!NotificationRecord /\ r.deliveries = a /\ c.attempts \in Attempts
        /\ a \o c.attempts \in Attempts
    BY CallParts DEF AttemptsIn, Attempts
  <1>2. PICK d : d = a \o c.attempts
    OBVIOUS
  <1>3. PICK x : x = IF N!Succeeded(c) THEN "delivered" ELSE "failed"
    OBVIOUS
  <1>4. x \in N!Statuses
    BY <1>3 DEF N!Statuses
  <1>5. PICK q : Resettled(r, d, x, q)
    BY DEF Resettled
  <1>6. N!Settled(c, r) = q
    BY <1>1, <1>2, <1>3, <1>5 DEF N!Settled, Resettled
  <1>7. q \in N!NotificationRecord /\ q.deliveries = d /\ q.status = x
    <2>1. r \in N!NotificationRecord /\ d \in Attempts
      BY <1>1, <1>2
    <2> QED
      BY <1>4, <1>5, <2>1, RecordSettles
  <1>8. x = "delivered" => Positive(d)
    BY <1>1, <1>2, <1>3, JoinedPositive DEF N!Succeeded, Positive
  <1>9. q # Nothing
    BY <1>7 DEF N!NotificationAssumption
  <1> QED
    BY <1>1, <1>2, <1>6, <1>7, <1>8, <1>9 DEF AttemptsIn

\* Channels without a registration are skipped.
LEMMA SkippedIs ==
  ASSUME NEW t \in Seq(STRING)
  PROVE  N!Unregistered(t) \in 0..Len(t)
  <1> DEFINE ks == {k \in DOMAIN t : t[k] \in Channels}
  <1>1. ks \in SUBSET Nat /\ \A k \in ks : k \in 1..Len(t)
    OBVIOUS
  <1>2. CASE ks = {}
    BY <1>2 DEF N!Unregistered
  <1>3. CASE ks # {}
    <2>1. PICK m \in ks : \A n \in ks : m <= n
      BY <1>1, <1>3, Least
    <2>2. N!Min(ks) \in ks
      BY <2>1 DEF N!Min
    <2> QED
      BY <1>1, <1>3, <2>2 DEF N!Unregistered
  <1> QED
    BY <1>2, <1>3

LEMMA AwaitingIs ==
  ASSUME NEW n \in Notifications, NEW l, NEW g, NEW t \in Seq(STRING), NEW a \in Attempts,
         NEW c, c = CallOf(n, l, g, t, a)
  PROVE  IsCall(N!Awaiting(c)) /\ N!Awaiting(c).of = n
  <1>1. PICK skipped : skipped = N!Unregistered(t) /\ skipped \in 0..Len(t)
    BY SkippedIs
  <1>2. PICK u : u = SubSeq(t, skipped + 1, Len(t)) /\ u \in Seq(STRING)
    <2>1. skipped + 1 \in Int /\ Len(t) \in Int /\ \A i \in (skipped + 1)..Len(t) : t[i] \in STRING
      BY <1>1
    <2> QED
      BY <2>1, SubSeqProperties
  <1>3. PICK f : f = [k \in 1..skipped |-> [channel |-> t[k], success |-> FALSE]]
    OBVIOUS
  <1>4. f \in Attempts
    <2>1. \A k \in 1..skipped : t[k] \in STRING
      BY <1>1
    <2>2. \A k \in 1..skipped : f[k] \in N!Attempt
      BY <1>3, <2>1 DEF N!Attempt
    <2>3. skipped \in Nat /\ f = [k \in 1..skipped |-> f[k]]
      BY <1>1, <1>3
    <2>4. f \in [1..skipped -> N!Attempt]
      BY <2>2, <2>3
    <2> QED
      BY <2>3, <2>4, SeqDef DEF Attempts
  <1>5. PICK b : b = a \o f /\ b \in Attempts
    BY <1>4, ConcatProperties DEF Attempts
  <1>6. N!Awaiting(c) = [[c EXCEPT !.todo = u] EXCEPT !.attempts = b]
    BY <1>1, <1>2, <1>3, <1>5 DEF N!Awaiting, CallOf
  <1>7. [c EXCEPT !.todo = u] = CallOf(n, l, g, u, a)
    BY DEF CallOf
  <1>8. [CallOf(n, l, g, u, a) EXCEPT !.attempts = b]
          = CallOf(n, l, g, u, b)
    BY DEF CallOf
  <1>9. N!Awaiting(c) = CallOf(n, l, g, u, b)
    BY <1>6, <1>7, <1>8
  <1>10. N!Awaiting(c).of = n
    BY <1>9 DEF CallOf
  <1>11. u \in Seq(STRING) /\ b \in Attempts
    BY <1>2, <1>5
  <1> QED
    BY <1>9, <1>10, <1>11, CallIs

LEMMA StartedIs ==
  ASSUME NEW n \in Notifications, NEW r, NEW t \in Seq(STRING)
  PROVE  IsCall(N!Started(n, r, t)) /\ N!Started(n, r, t).of = n
  <1>1. PICK l, a : l = r.level /\ a = <<>>
    OBVIOUS
  <1>2. a \in Attempts
    BY <1>1 DEF Attempts
  <1>3. PICK c : c = CallOf(n, l, r, t, a)
    OBVIOUS
  <1>4. N!Started(n, r, t) = N!Awaiting(c)
    BY <1>1, <1>3 DEF N!Started, CallOf
  <1> QED
    BY <1>2, <1>3, <1>4, AwaitingIs

\* Calls that begin, for records that are there.
LEMMA LaunchKeeps ==
  ASSUME N!NotificationAssumption, NotificationInv, NEW launched, NEW recs, NEW c, N!Launch(launched, recs, c),
         \A l \in launched : IsCall(l) /\ recs[l.of] # Nothing,
         \A n \in Notifications : AttemptsIn(recs[n], answered[n]),
         \A n \in Notifications : records[n] # Nothing => recs[n] # Nothing,
         due' \in [Notifications -> Nat]
  PROVE  NotificationInv'
  <1> DEFINE waiting == {l \in launched : l.todo # <<>>}
             over == launched \ waiting
             settles(n) == \E l \in over : l.of = n
             its(n) == CHOOSE l \in over : l.of = n
  <1>1. /\ deliveries' = deliveries \cup waiting
        /\ records' = [n \in Notifications |-> IF settles(n) THEN N!Settled(its(n), recs[n]) ELSE recs[n]]
        /\ answered' = [n \in Notifications |-> IF settles(n) THEN answered[n] \o its(n).attempts ELSE answered[n]]
    BY DEF N!Launch
  <1>2. \A n \in Notifications : settles(n) => its(n) \in launched /\ its(n).of = n
    OBVIOUS
  <1>3. \A l \in waiting : l \in launched /\ l.todo # <<>>
    OBVIOUS
  <1> HIDE DEF waiting, settles, its
  <1>4. ASSUME NEW n \in Notifications
        PROVE  AttemptsIn(records'[n], answered'[n]) /\ (recs[n] # Nothing => records'[n] # Nothing)
    <2>1. CASE settles(n)
      <3>1. IsCall(its(n)) /\ recs[n] # Nothing
        BY <1>2, <2>1
      <3> QED
        BY <1>1, <2>1, <3>1, SettledKept
    <2>2. CASE ~settles(n)
      BY <1>1, <2>2
    <2> QED
      BY <2>1, <2>2
  <1>5. ASSUME NEW l \in deliveries'
        PROVE  IsCall(l) /\ l.todo # <<>> /\ records'[l.of] # Nothing
    <2>1. CASE l \in deliveries
      BY <1>4, <2>1, CallParts DEF NotificationInv
    <2>2. CASE l \in waiting
      BY <1>3, <1>4, <2>2, CallParts
    <2> QED
      BY <1>1, <2>1, <2>2
  <1>6. records' = [n \in Notifications |-> records'[n]] /\ answered' = [n \in Notifications |-> answered'[n]]
    BY <1>1
  <1> QED
    BY <1>4, <1>5, <1>6 DEF NotificationInv

\* A record that is made.
LEMMA RecordIsMade ==
  ASSUME N!NotificationAssumption, NotificationInv, NEW n \in Notifications, records[n] = Nothing,
         NEW t \in DOMAIN NoticeTypes \cup {"digest"}, NEW x \in N!Statuses, x # "delivered",
         NEW r, r = [type |-> t, status |-> x, level |-> 0, deliveries |-> <<>>]
  PROVE  r # Nothing /\ AttemptsIn(r, answered[n])
  <1>1. r \in N!NotificationRecord
    BY DEF N!NotificationRecord
  <1>2. r.deliveries = <<>> /\ r.status = x
    OBVIOUS
  <1>3. answered[n] = <<>>
    BY DEF NotificationInv, AttemptsIn
  <1>4. <<>> \in Attempts
    BY DEF Attempts
  <1>5. r # Nothing
    BY <1>1 DEF N!NotificationAssumption
  <1> QED
    BY <1>1, <1>2, <1>3, <1>4, <1>5 DEF AttemptsIn

\* A record that is there or is made, and a call that begins for it.
LEMMA LaunchOneKeeps ==
  ASSUME N!NotificationAssumption, NotificationInv, NEW n \in Notifications, records[n] = Nothing,
         NEW t \in DOMAIN NoticeTypes \cup {"digest"}, NEW todo \in Seq(STRING), NEW c,
         NEW r, r = [type |-> t, status |-> "queued", level |-> 0, deliveries |-> <<>>],
         N!Launch({N!Started(n, r, todo)}, [records EXCEPT ![n] = r], c), UNCHANGED due
  PROVE  NotificationInv'
  <1>1. r # Nothing /\ AttemptsIn(r, answered[n])
    <2>1. PICK x : x = "queued"
      OBVIOUS
    <2>2. x \in N!Statuses /\ x # "delivered"
      BY <2>1 DEF N!Statuses
    <2>3. r = [type |-> t, status |-> x, level |-> 0, deliveries |-> <<>>]
      BY <2>1
    <2> QED
      BY <2>2, <2>3, RecordIsMade
  <1>2. PICK recs : recs = [records EXCEPT ![n] = r]
    OBVIOUS
  <1>3. \A m \in Notifications : recs[m] = IF m = n THEN r ELSE records[m]
    BY <1>2 DEF NotificationInv
  <1>4. \A m \in Notifications : AttemptsIn(recs[m], answered[m]) /\ (records[m] # Nothing => recs[m] # Nothing)
    BY <1>1, <1>3 DEF NotificationInv
  <1>5. PICK l : l = N!Started(n, r, todo) /\ IsCall(l) /\ l.of = n
    BY StartedIs
  <1>6. \A k \in {l} : IsCall(k) /\ recs[k.of] # Nothing
    BY <1>1, <1>3, <1>5
  <1>7. N!Launch({l}, recs, c) /\ due' \in [Notifications -> Nat]
    BY <1>2, <1>5 DEF NotificationInv
  <1> QED
    BY <1>4, <1>6, <1>7, LaunchKeeps

LEMMA AnswerKeeps ==
  ASSUME N!NotificationAssumption, NotificationInv, NEW call \in deliveries, NEW success \in BOOLEAN, N!Answers(call, success)
  PROVE  NotificationInv'
  <1>1. IsCall(call) /\ call.todo # <<>> /\ records[call.of] # Nothing
    BY DEF NotificationInv
  <1>2. PICK n \in Notifications, t \in Seq(STRING), a \in Attempts : \E l, g : call = CallOf(n, l, g, t, a)
    BY <1>1 DEF IsCall
  <1>2a. PICK l, g : call = CallOf(n, l, g, t, a)
    BY <1>2
  <1>3. t # <<>> /\ records[n] # Nothing /\ call.of = n /\ call.todo = t /\ call.attempts = a
    BY <1>1, <1>2a DEF CallOf
  <1>4. Head(t) \in STRING /\ Tail(t) \in Seq(STRING)
    BY <1>3, HeadTailProperties
  <1>5. PICK e : e = [channel |-> Head(t), success |-> success] /\ e \in N!Attempt
    <2>1. PICK h : h = Head(t) /\ h \in STRING
      BY <1>4
    <2>2. [channel |-> h, success |-> success] \in N!Attempt
      BY <2>1 DEF N!Attempt
    <2> QED
      BY <2>1, <2>2
  <1>6. PICK b : b = Append(a, e) /\ b \in Attempts
    BY <1>5, AppendProperties DEF Attempts
  <1>7. PICK u : u = Tail(t) /\ u \in Seq(STRING)
    BY <1>4
  <1>8. PICK turned, next : /\ turned = CallOf(n, l, g, u, b)
                            /\ next = N!Awaiting(turned)
    OBVIOUS
  <1>9. [[call EXCEPT !.todo = u] EXCEPT !.attempts = b] = CallOf(n, l, g, u, b)
    <2>1. [call EXCEPT !.todo = u] = CallOf(n, l, g, u, a)
      BY <1>2a DEF CallOf
    <2>2. [CallOf(n, l, g, u, a) EXCEPT !.attempts = b]
            = CallOf(n, l, g, u, b)
      BY DEF CallOf
    <2> QED
      BY <2>1, <2>2
  <1>10. [call EXCEPT !.todo = Tail(@), !.attempts = Append(@, [channel |-> Head(call.todo), success |-> success])]
           = [[call EXCEPT !.todo = u] EXCEPT !.attempts = b]
    BY <1>2a, <1>3, <1>5, <1>6, <1>7 DEF CallOf
  <1>11. IsCall(next) /\ next.of = n
    <2>1. n \in Notifications /\ u \in Seq(STRING) /\ b \in Attempts /\ turned = CallOf(n, l, g, u, b)
      BY <1>2, <1>6, <1>7, <1>8
    <2>2. IsCall(N!Awaiting(turned)) /\ N!Awaiting(turned).of = n
      BY <2>1, AwaitingIs
    <2> QED
      BY <1>8, <2>2
  <1>12. /\ IF next.todo # <<>>
             THEN /\ deliveries' = (deliveries \ {call}) \cup {next}
                  /\ UNCHANGED <<records, answered>>
             ELSE /\ deliveries' = deliveries \ {call}
                  /\ records' = [records EXCEPT ![n] = N!Settled(next, records[n])]
                  /\ answered' = [answered EXCEPT ![n] = @ \o next.attempts]
         /\ due' = due
    BY <1>3, <1>8, <1>9, <1>10 DEF N!Answers
  <1>13. CASE next.todo # <<>>
    BY <1>3, <1>11, <1>12, <1>13 DEF NotificationInv
  <1>14. CASE next.todo = <<>>
    <2>1. PICK r : r = N!Settled(next, records[n])
      OBVIOUS
    <2>2. PICK d : d = answered[n] \o next.attempts
      OBVIOUS
    <2>3. r # Nothing /\ AttemptsIn(r, d)
      BY <1>3, <1>11, <2>1, <2>2, SettledKept DEF NotificationInv
    <2>4. /\ \A m \in Notifications : records'[m] = IF m = n THEN r ELSE records[m]
          /\ \A m \in Notifications : answered'[m] = IF m = n THEN d ELSE answered[m]
          /\ records' = [m \in Notifications |-> records'[m]] /\ answered' = [m \in Notifications |-> answered'[m]]
      BY <1>12, <1>14, <2>1, <2>2 DEF NotificationInv
    <2>5. \A c \in deliveries' : IsCall(c) /\ c.todo # <<>> /\ records'[c.of] # Nothing
      BY <1>12, <1>14, <2>3, <2>4, CallParts DEF NotificationInv
    <2>6. \A m \in Notifications : AttemptsIn(records'[m], answered'[m])
      BY <2>3, <2>4 DEF NotificationInv
    <2> QED
      BY <1>12, <2>4, <2>5, <2>6 DEF NotificationInv
  <1> QED
    BY <1>13, <1>14

LEMMA EscalationKeeps ==
  ASSUME N!NotificationAssumption, NotificationInv, N!CheckEscalations
  PROVE  NotificationInv'
  <1> DEFINE now == {n \in Notifications : N!Escalates(n)}
  <1>1. PICK raised : raised = [n \in Notifications |->
            IF n \in now THEN [records[n] EXCEPT !.status = "escalated", !.level = @ + 1] ELSE records[n]]
    OBVIOUS
  <1>2. PICK launched, c :
          /\ launched = {N!Started(n, raised[n], N!StepChannels(raised[n])) : n \in {m \in now : N!Dispatches(raised[m])}}
          /\ N!Launch(launched, raised, c) /\ due' = due
    BY <1>1 DEF N!CheckEscalations
  <1>3. ASSUME NEW n \in now
        PROVE  /\ raised[n] # Nothing /\ AttemptsIn(raised[n], answered[n])
               /\ N!StepChannels(raised[n]) \in Seq(STRING)
    <2>1. PICK r : r = records[n]
      OBVIOUS
    <2>2. n \in Notifications /\ r # Nothing /\ r.level < N!Min({Len(N!Steps(n)), due[n]})
      BY <2>1 DEF N!Escalates, N!DueStep
    <2>3. r \in N!NotificationRecord /\ AttemptsIn(r, answered[n]) /\ r.deliveries = answered[n] /\ due[n] \in Nat
      BY <2>1, <2>2 DEF NotificationInv, AttemptsIn
    <2>4. r.level \in Nat /\ r.type \in DOMAIN NoticeTypes \cup {"digest"}
      BY <2>3 DEF N!NotificationRecord
    <2>5. PICK x, l : x = "escalated" /\ l = r.level + 1
      OBVIOUS
    <2>6. x \in N!Statuses /\ l \in Nat /\ x # "delivered"
      BY <2>4, <2>5 DEF N!Statuses
    <2>7. PICK q : Changed(r, x, l, q)
      BY DEF Changed
    <2>8. raised[n] = q
      BY <1>1, <2>1, <2>2, <2>3, <2>5, <2>7 DEF Changed, N!NotificationRecord
    <2>9. q \in N!NotificationRecord /\ q.deliveries = r.deliveries /\ q.status = x /\ q.level = l /\ q.type = r.type
      BY <2>3, <2>6, <2>7, RecordChanges
    <2>10. q # Nothing /\ AttemptsIn(q, answered[n])
      BY <2>2, <2>3, <2>6, <2>9 DEF AttemptsIn, N!NotificationAssumption
    <2>11. N!StepChannels(q) \in Seq(STRING)
      <3>1. N!Steps(n) = IF r.type \in DOMAIN NoticeTypes THEN NoticeTypes[r.type].steps ELSE <<>>
        BY <2>1 DEF N!Steps
      <3>2. Len(N!Steps(n)) \in Nat
        BY <3>1 DEF N!NotificationAssumption
      <3>3. N!Min({Len(N!Steps(n)), due[n]}) <= Len(N!Steps(n))
        <4>1. PICK m : m = Len(N!Steps(n)) /\ m \in Nat
          BY <3>2
        <4>2. PICK k : k = due[n] /\ k \in Nat
          BY <2>3
        <4>3. PICK e \in {m, k} : e <= m /\ e <= k
          BY <4>1, <4>2
        <4>4. N!Min({m, k}) \in {m, k} /\ N!Min({m, k}) <= m
          BY <4>1, <4>2, <4>3 DEF N!Min
        <4> QED
          BY <4>1, <4>2, <4>4
      <3>4. N!Min({Len(N!Steps(n)), due[n]}) \in Nat
        <4>1. PICK m : m = Len(N!Steps(n)) /\ m \in Nat
          BY <3>2
        <4>2. PICK k : k = due[n] /\ k \in Nat
          BY <2>3
        <4>3. PICK e \in {m, k} : e <= m /\ e <= k
          BY <4>1, <4>2
        <4>4. N!Min({m, k}) \in {m, k}
          BY <4>1, <4>2, <4>3 DEF N!Min
        <4> QED
          BY <4>1, <4>2, <4>4
      <3>5. l \in 1..Len(N!Steps(n))
        BY <2>2, <2>4, <2>5, <3>2, <3>3, <3>4
      <3>6. r.type \in DOMAIN NoticeTypes /\ N!Steps(n) = NoticeTypes[r.type].steps
        BY <3>1, <3>5
      <3>7. PICK step : step = NoticeTypes[q.type].steps[q.level]
        OBVIOUS
      <3>8. step \in [retry : BOOLEAN, channels : Seq(STRING)]
        <4>1. NoticeTypes[r.type].steps \in Seq([retry : BOOLEAN, channels : Seq(STRING)])
          BY <3>6 DEF N!NotificationAssumption
        <4> QED
          BY <2>9, <3>5, <3>6, <3>7, <4>1, ElementOfSeq
      <3>9. step.channels \in Seq(STRING)
        BY <3>8
      <3>10. q.deliveries \in Attempts
        BY <2>9 DEF N!NotificationRecord, Attempts
      <3>11. q.deliveries # <<>> => <<N!Last(q.deliveries).channel>> \in Seq(STRING)
        <4> SUFFICES ASSUME q.deliveries # <<>> PROVE <<N!Last(q.deliveries).channel>> \in Seq(STRING)
          OBVIOUS
        <4>1. PICK d : d = q.deliveries /\ d \in Attempts /\ d # <<>>
          BY <3>10
        <4>2. Len(d) \in 1..Len(d) /\ d[Len(d)] \in N!Attempt
          BY <4>1 DEF Attempts
        <4>3. N!Last(d).channel \in STRING
          BY <4>2 DEF N!Last, N!Attempt
        <4> QED
          BY <4>1, <4>3
      <3>12. N!StepChannels(q) = IF ~step.retry THEN step.channels
                                 ELSE IF q.deliveries = <<>> THEN <<>> ELSE <<N!Last(q.deliveries).channel>>
        BY <3>7 DEF N!StepChannels
      <3>13. <<>> \in Seq(STRING)
        OBVIOUS
      <3> QED
        BY <3>9, <3>11, <3>12, <3>13
    <2> QED
      BY <2>8, <2>10, <2>11
  <1>4. \A n \in Notifications : n \notin now => raised[n] = records[n]
    BY <1>1
  <1>5. \A n \in Notifications : AttemptsIn(raised[n], answered[n]) /\ (records[n] # Nothing => raised[n] # Nothing)
    BY <1>3, <1>4 DEF NotificationInv
  <1>6. ASSUME NEW l \in launched
        PROVE  IsCall(l) /\ raised[l.of] # Nothing
    <2>1. PICK n \in now : l = N!Started(n, raised[n], N!StepChannels(raised[n]))
      BY <1>2
    <2>2. n \in Notifications
      BY <2>1
    <2> HIDE DEF now
    <2>3. IsCall(l) /\ l.of = n
      BY <1>3, <2>1, <2>2, StartedIs
    <2> QED
      BY <1>3, <2>1, <2>3
  <1>7. due' \in [Notifications -> Nat]
    BY <1>2 DEF NotificationInv
  <1> QED
    BY <1>2, <1>5, <1>6, <1>7, LaunchKeeps

LEMMA NotificationKeeps ==
  ASSUME N!NotificationAssumption, NotificationInv, N!Next
  PROVE  NotificationInv'
  <1>1. ASSUME NEW n \in Notifications, NEW t \in DOMAIN NoticeTypes, NEW quiet \in BOOLEAN, N!Request(n, t, quiet)
        PROVE  NotificationInv'
    <2>1. PICK r : r = [type |-> t, status |-> "queued", level |-> 0, deliveries |-> <<>>]
      OBVIOUS
    <2>2. records[n] = Nothing /\ due' = due
      BY <1>1 DEF N!Request
    <2>3. CASE quiet \/ N!Duplicate(n, t)
      <3>1. PICK x : x = "suppressed"
        OBVIOUS
      <3>2. PICK s : s = [type |-> t, status |-> x, level |-> 0, deliveries |-> <<>>]
        OBVIOUS
      <3>3. x \in N!Statuses /\ x # "delivered"
        BY <3>1 DEF N!Statuses
      <3>4. s # Nothing /\ AttemptsIn(s, answered[n])
        BY <2>2, <3>2, <3>3, RecordIsMade
      <3>5. records' = [records EXCEPT ![n] = s] /\ UNCHANGED <<deliveries, answered>>
        <4>1. [[type |-> t, status |-> "queued", level |-> 0, deliveries |-> <<>>] EXCEPT !.status = "suppressed"] = s
          BY <3>1, <3>2
        <4> QED
          BY <1>1, <2>3, <4>1 DEF N!Request
      <3>6. /\ \A m \in Notifications : records'[m] = IF m = n THEN s ELSE records[m]
            /\ records' = [m \in Notifications |-> records'[m]]
        BY <3>5 DEF NotificationInv
      <3>7. \A m \in Notifications : AttemptsIn(records'[m], answered'[m])
        BY <3>4, <3>5, <3>6 DEF NotificationInv
      <3>8. \A c \in deliveries' : IsCall(c) /\ c.todo # <<>> /\ records'[c.of] # Nothing
        BY <3>4, <3>5, <3>6, CallParts DEF NotificationInv
      <3> QED
        BY <2>2, <3>5, <3>6, <3>7, <3>8 DEF NotificationInv
    <2>4. CASE ~(quiet \/ N!Duplicate(n, t))
      <3>1. PICK todo, c : todo = NoticeTypes[t].channels /\ N!Launch({N!Started(n, r, todo)}, [records EXCEPT ![n] = r], c)
        BY <1>1, <2>1, <2>4 DEF N!Request
      <3>2. todo \in Seq(STRING) /\ t \in DOMAIN NoticeTypes \cup {"digest"}
        BY <3>1 DEF N!NotificationAssumption
      <3> QED
        BY <2>1, <2>2, <3>1, <3>2, LaunchOneKeeps
    <2> QED
      BY <2>3, <2>4
  <1>2. ASSUME NEW n \in Notifications, N!GenerateDigest(n)
        PROVE  NotificationInv'
    <2>1. PICK t : t = "digest"
      OBVIOUS
    <2>2. PICK r : r = [type |-> t, status |-> "queued", level |-> 0, deliveries |-> <<>>]
      OBVIOUS
    <2>3. PICK c : records[n] = Nothing /\ due' = due /\ N!Launch({N!Started(n, r, Digest)}, [records EXCEPT ![n] = r], c)
      BY <1>2, <2>1, <2>2 DEF N!GenerateDigest
    <2>4. Digest \in Seq(STRING) /\ t \in DOMAIN NoticeTypes \cup {"digest"}
      BY <2>1 DEF N!NotificationAssumption
    <2> QED
      BY <2>2, <2>3, <2>4, LaunchOneKeeps
  <1>3. ASSUME NEW n \in Notifications, N!Acknowledge(n)
        PROVE  NotificationInv'
    <2>1. PICK r : r = records[n] /\ r # Nothing /\ AttemptsIn(r, answered[n])
      BY <1>3 DEF N!Acknowledge, NotificationInv
    <2>2. r \in N!NotificationRecord /\ r.deliveries = answered[n] /\ answered[n] \in Attempts
      BY <2>1 DEF AttemptsIn
    <2>3. PICK x, l : x = "acknowledged" /\ l = r.level
      OBVIOUS
    <2>4. x \in N!Statuses /\ l \in Nat /\ x # "delivered"
      BY <2>2, <2>3 DEF N!Statuses, N!NotificationRecord
    <2>5. PICK q : Changed(r, x, l, q)
      BY DEF Changed
    <2>6. q \in N!NotificationRecord /\ q.deliveries = r.deliveries /\ q.status = x
      BY <2>2, <2>4, <2>5, RecordChanges
    <2>7. q = [r EXCEPT !.status = x]
      BY <2>2, <2>3, <2>5 DEF Changed, N!NotificationRecord
    <2>8. q # Nothing /\ AttemptsIn(q, answered[n])
      BY <2>2, <2>4, <2>6 DEF AttemptsIn, N!NotificationAssumption
    <2>9. records' = [records EXCEPT ![n] = q] /\ UNCHANGED <<deliveries, due, answered>>
      BY <1>3, <2>1, <2>3, <2>7 DEF N!Acknowledge
    <2>10. /\ \A m \in Notifications : records'[m] = IF m = n THEN q ELSE records[m]
           /\ records' = [m \in Notifications |-> records'[m]]
      BY <2>9 DEF NotificationInv
    <2>11. \A m \in Notifications : AttemptsIn(records'[m], answered'[m])
      BY <2>8, <2>9, <2>10 DEF NotificationInv
    <2>12. \A c \in deliveries' : IsCall(c) /\ c.todo # <<>> /\ records'[c.of] # Nothing
      BY <2>8, <2>9, <2>10, CallParts DEF NotificationInv
    <2> QED
      BY <2>9, <2>10, <2>11, <2>12 DEF NotificationInv
  <1>4. ASSUME NEW n \in Notifications, N!StepComesDue(n)
        PROVE  NotificationInv'
    <2>1. due' = [due EXCEPT ![n] = @ + 1] /\ UNCHANGED <<records, deliveries, answered>>
      BY <1>4 DEF N!StepComesDue
    <2>2. due' \in [Notifications -> Nat]
      BY <2>1 DEF NotificationInv
    <2> QED
      BY <2>1, <2>2 DEF NotificationInv
  <1>5. ASSUME NEW n \in Notifications, N!WindowPasses(n)
        PROVE  NotificationInv'
    BY <1>5 DEF N!WindowPasses, NotificationInv
  <1>6. CASE N!CheckEscalations
    BY <1>6, EscalationKeeps
  <1>7. ASSUME NEW call \in deliveries, N!Throws(call)
        PROVE  NotificationInv'
    BY <1>7 DEF N!Throws, NotificationInv
  <1>8. ASSUME NEW call \in deliveries, NEW success \in BOOLEAN, N!Answers(call, success)
        PROVE  NotificationInv'
    BY <1>8, AnswerKeeps
  <1> QED
    BY <1>1, <1>2, <1>3, <1>4, <1>5, <1>6, <1>7, <1>8 DEF N!Next

\* No attempt of a delivery is lost, however the deliveries of a notification overlap, and one
\* that is delivered was answered with a success: for any notifications, types, channels and
\* escalation steps.
THEOREM NoAttemptIsLost == ServicesSpec => []AttemptsKept
  <1> DEFINE Inv == focus = "notification" => NotificationInv
  <1>1. ServicesInit => Inv
    BY NotificationStarts DEF ServicesInit
  <1>2. Inv /\ [ServicesNext]_servicesVars => Inv'
    <2> SUFFICES ASSUME Inv, [ServicesNext]_servicesVars, focus' = "notification" PROVE NotificationInv'
      OBVIOUS
    <2>1. CASE ServicesNext
      <3>1. focus = "notification" /\ N!Next
        BY <2>1 DEF ServicesNext
      <3> QED
        BY <3>1, NotificationKeeps, ServicesAssumption
    <2>2. CASE UNCHANGED servicesVars
      BY <2>2 DEF servicesVars, notificationVars, NotificationInv
    <2> QED
      BY <2>1, <2>2
  <1>3. Inv => AttemptsKept
    BY DEF AttemptsKept, NotificationInv, N!AttemptsKept, AttemptsIn, Positive
  <1> QED
    BY <1>1, <1>2, <1>3, PTL DEF ServicesSpec

-----------------------------------------------------------------------------
(* Versions and migrations.  A call is under way in three statuses only, so    *)
(* what it writes back is current, and the counters are those of the records.  *)

Pending == {"compatibility-verified", "executed", "rollback"}

Gated(r, recorded) ==
  (\E k \in DOMAIN r.steps : r.steps[k] = "compatibility-verified") =>
    \E k \in DOMAIN recorded : recorded[k] = [change |-> r.change, compatible |-> TRUE]
Certified(v) == v.status \in {"certified", "released", "supported", "deprecated", "retired"} => v.certification = "certified"

EndedAs(s, all) == {m \in Migrations : all[m] # Nothing /\ all[m].status = s}
CountOf(s, all) == Cardinality(EndedAs(s, all))
Tallied(t, all) ==
  t = [migrated |-> CountOf("certified", all), rolledBack |-> CountOf("rolled-back", all),
       notRolledBack |-> CountOf("failed", all), unmigrated |-> CountOf("rolled-back", all) + CountOf("failed", all)]

MigrationsInv(all, recorded) ==
  /\ all = [m \in Migrations |-> all[m]]
  /\ \A m \in Migrations : all[m] # Nothing => all[m] \in V!MigrationRecord /\ Gated(all[m], recorded)
CallsInv(under, all) ==
  /\ \A c \in under : c.of \in Migrations /\ all[c.of] # Nothing /\ all[c.of] = c.record /\ c.record.status \in Pending
  /\ \A c, d \in under : c.of = d.of => c = d

VersionsInv ==
  /\ relationships \in Seq(V!CompatibilityRelationship)
  /\ MigrationsInv(migrations, relationships) /\ CallsInv(executions, migrations) /\ Tallied(tally, migrations)
  /\ versions = [v \in Artifacts |-> versions[v]]
  /\ \A v \in Artifacts : versions[v] # Nothing => versions[v] \in V!VersionRecord /\ Certified(versions[v])

LEMMA VersionsStart == V!VersionGovernanceAssumption /\ V!Init => VersionsInv
  <1> SUFFICES ASSUME V!Init PROVE VersionsInv
    OBVIOUS
  <1>1. \A s : EndedAs(s, migrations) = {}
    BY DEF V!Init, EndedAs
  <1>2. Tallied(tally, migrations)
    <2>1. \A s : CountOf(s, migrations) = 0
      BY <1>1, FS_EmptySet DEF CountOf
    <2>2. tally = [migrated |-> 0, rolledBack |-> 0, notRolledBack |-> 0, unmigrated |-> 0 + 0]
      BY DEF V!Init
    <2> QED
      BY <2>1, <2>2 DEF Tallied
  <1> QED
    BY <1>2 DEF V!Init, VersionsInv, MigrationsInv, CallsInv

LEMMA EndedFinite ==
  ASSUME V!VersionGovernanceAssumption, NEW all, NEW s
  PROVE  IsFiniteSet(EndedAs(s, all))
  <1>1. IsFiniteSet(Migrations)
    BY SMT DEF V!VersionGovernanceAssumption, V!IsFiniteSet, IsFiniteSet
  <1>2. EndedAs(s, all) \in SUBSET Migrations
    BY DEF EndedAs
  <1> QED
    BY <1>1, <1>2, FS_Subset

\* The counts, for a record that is not and does not come to an end, and for one that does.
LEMMA CountStays ==
  ASSUME V!VersionGovernanceAssumption, NEW all, NEW one, NEW m \in Migrations, NEW r, r # Nothing,
         \A n \in Migrations : one[n] = IF n = m THEN r ELSE all[n],
         NEW s, all[m] # Nothing => all[m].status # s, r.status # s
  PROVE  CountOf(s, one) = CountOf(s, all)
  <1>1. EndedAs(s, one) = EndedAs(s, all)
    BY DEF EndedAs
  <1> QED
    BY <1>1 DEF CountOf

LEMMA CountRises ==
  ASSUME V!VersionGovernanceAssumption, NEW all, NEW one, NEW m \in Migrations, NEW r, r # Nothing,
         \A n \in Migrations : one[n] = IF n = m THEN r ELSE all[n],
         NEW s, all[m] # Nothing => all[m].status # s, r.status = s
  PROVE  CountOf(s, one) = CountOf(s, all) + 1
  <1>1. EndedAs(s, one) = EndedAs(s, all) \cup {m} /\ m \notin EndedAs(s, all)
    BY DEF EndedAs
  <1>2. IsFiniteSet(EndedAs(s, all))
    BY EndedFinite
  <1> QED
    BY <1>1, <1>2, FS_AddElement DEF CountOf

LEMMA CountIs ==
  ASSUME V!VersionGovernanceAssumption, NEW all, NEW s
  PROVE  CountOf(s, all) \in Nat
  BY EndedFinite, FS_CardinalityType DEF CountOf

Recorded(change, recorded) == \E k \in DOMAIN recorded : recorded[k] = [change |-> change, compatible |-> TRUE]

LEMMA SteppedIs ==
  ASSUME NEW r \in V!MigrationRecord, NEW x \in V!MigrationStatuses, NEW recorded, Gated(r, recorded),
         x = "compatibility-verified" => Recorded(r.change, recorded), NEW q, q = V!Stepped(r, x)
  PROVE  q \in V!MigrationRecord /\ q.status = x /\ q.change = r.change /\ Gated(q, recorded)
  <1>1. r.steps \in Seq(V!MigrationStatuses) /\ r.change \in Changes
    BY DEF V!MigrationRecord
  <1>2. PICK st : st = Append(r.steps, x)
    OBVIOUS
  <1>3. st \in Seq(V!MigrationStatuses) /\ \A k \in DOMAIN st : (k \in DOMAIN r.steps /\ st[k] = r.steps[k]) \/ st[k] = x
    <2>1. PICK s : s = r.steps /\ s \in Seq(V!MigrationStatuses)
      BY <1>1
    <2> QED
      BY <1>2, <2>1
  <1>4. q = [[r EXCEPT !.status = x] EXCEPT !.steps = st]
    BY <1>2 DEF V!Stepped, V!MigrationRecord
  <1>5. q = [change |-> r.change, status |-> x, steps |-> st]
    BY <1>4 DEF V!MigrationRecord
  <1>6. q \in V!MigrationRecord /\ q.status = x /\ q.change = r.change /\ q.steps = st
    BY <1>1, <1>3, <1>5 DEF V!MigrationRecord
  <1> QED
    BY <1>3, <1>6 DEF Gated, Recorded

LEMMA CompatibleIsRecorded ==
  ASSUME relationships \in Seq(V!CompatibilityRelationship), NEW change, V!Compatible(change)
  PROVE  Recorded(change, relationships)
  <1> DEFINE ks == {k \in DOMAIN relationships : relationships[k].change = change}
  <1>1. ks # {} /\ relationships[V!Max(ks)].compatible
    BY DEF V!Compatible, V!Concerning
  <1>2. DOMAIN relationships = 1..Len(relationships) /\ Len(relationships) \in Nat
    OBVIOUS
  <1>3. ks \in SUBSET (0..Len(relationships))
    BY <1>2
  <1>4. PICK m \in ks : \A k \in ks : k <= m
    BY <1>1, <1>2, <1>3, Greatest
  <1>5. V!Max(ks) \in ks
    BY <1>4 DEF V!Max
  <1>6. PICK k \in DOMAIN relationships : relationships[k].change = change /\ relationships[k].compatible
    BY <1>1, <1>5
  <1>7. relationships[k] \in V!CompatibilityRelationship
    BY <1>2, <1>6
  <1>8. relationships[k] = [change |-> change, compatible |-> TRUE]
    <2>1. PICK r : r = relationships[k]
      OBVIOUS
    <2>2. r \in [change : Changes, compatible : BOOLEAN] /\ r.change = change /\ r.compatible
      BY <1>6, <1>7, <2>1 DEF V!CompatibilityRelationship
    <2>3. r = [change |-> r.change, compatible |-> r.compatible] /\ r.compatible = TRUE
      BY <2>2
    <2> QED
      BY <2>1, <2>2, <2>3
  <1> QED
    BY <1>6, <1>8 DEF Recorded

\* The record of a migration is written, to what its call goes on with or ends with.
LEMMA RecordWritten ==
  ASSUME MigrationsInv(migrations, relationships), NEW m \in Migrations, NEW r \in V!MigrationRecord, Gated(r, relationships),
         migrations' = [migrations EXCEPT ![m] = r], relationships' = relationships
  PROVE  /\ MigrationsInv(migrations', relationships')
         /\ \A n \in Migrations : migrations'[n] = IF n = m THEN r ELSE migrations[n]
  BY DEF MigrationsInv

LEMMA AwaitsKeep ==
  ASSUME V!VersionGovernanceAssumption, VersionsInv, NEW m \in Migrations, NEW r \in V!MigrationRecord,
         Gated(r, relationships), r.status \in Pending, migrations[m] # Nothing => migrations[m].status \notin V!Ended,
         NEW others, others \subseteq executions, \A c \in others : c.of # m,
         NEW at, NEW answer, V!Awaits(others, m, r, at, answer), UNCHANGED <<versions, relationships, tally>>
  PROVE  VersionsInv'
  <1>1. PICK ok : ok = answer.ok
    OBVIOUS
  <1>2. PICK c : c = [of |-> m, at |-> at, record |-> r, ok |-> ok]
    OBVIOUS
  <1>3. migrations' = [migrations EXCEPT ![m] = r] /\ executions' = others \cup {c}
    BY <1>1, <1>2 DEF V!Awaits
  <1>4. /\ MigrationsInv(migrations', relationships')
        /\ \A n \in Migrations : migrations'[n] = IF n = m THEN r ELSE migrations[n]
    BY <1>3, RecordWritten DEF VersionsInv
  <1>5. c.of = m /\ c.record = r
    BY <1>2
  <1>6. r # Nothing
    BY DEF V!VersionGovernanceAssumption
  <1>7. CallsInv(executions', migrations')
    BY <1>3, <1>4, <1>5, <1>6 DEF VersionsInv, CallsInv
  <1>8. \A s \in {"certified", "rolled-back", "failed"} : CountOf(s, migrations') = CountOf(s, migrations)
    <2> TAKE s \in {"certified", "rolled-back", "failed"}
    <2>1. r.status # s /\ (migrations[m] # Nothing => migrations[m].status # s)
      BY DEF Pending, V!Ended
    <2> QED
      BY <1>4, <1>6, <2>1, CountStays
  <1>9. Tallied(tally', migrations')
    BY <1>8 DEF Tallied, VersionsInv
  <1> QED
    BY <1>4, <1>7, <1>9 DEF VersionsInv

\* A call that is under way, and what a call ends with.
LEMMA ExecutionIs ==
  ASSUME VersionsInv, NEW c \in executions
  PROVE  /\ c.of \in Migrations /\ migrations[c.of] # Nothing /\ migrations[c.of] = c.record
         /\ c.record \in V!MigrationRecord /\ Gated(c.record, relationships) /\ c.record.status \in Pending
         /\ \A d \in executions \ {c} : d.of # c.of
  BY DEF VersionsInv, MigrationsInv, CallsInv

LEMMA EndsKeep ==
  ASSUME V!VersionGovernanceAssumption, VersionsInv, NEW c \in executions, NEW r \in V!MigrationRecord,
         Gated(r, relationships), NEW count, V!Ends(c, r, count),
         \A all : (/\ \A s \in {"certified", "rolled-back", "failed"} :
                        CountOf(s, all) = CountOf(s, migrations) + (IF r.status = s THEN 1 ELSE 0))
                  => Tallied(count, all)
  PROVE  VersionsInv'
  <1> DEFINE m == c.of
  <1>1. /\ m \in Migrations /\ migrations[m] # Nothing /\ migrations[m].status \in Pending
        /\ \A d \in executions \ {c} : d.of # m
    BY ExecutionIs
  <1>2. /\ executions' = executions \ {c} /\ migrations' = [migrations EXCEPT ![m] = r] /\ tally' = count
        /\ UNCHANGED <<versions, relationships>>
    BY DEF V!Ends
  <1> HIDE DEF m
  <1>3. /\ MigrationsInv(migrations', relationships')
        /\ \A n \in Migrations : migrations'[n] = IF n = m THEN r ELSE migrations[n]
    BY <1>1, <1>2, RecordWritten DEF VersionsInv
  <1>4. r # Nothing
    BY DEF V!VersionGovernanceAssumption
  <1>5. CallsInv(executions', migrations')
    BY <1>1, <1>2, <1>3 DEF VersionsInv, CallsInv
  <1>6. ASSUME NEW s \in {"certified", "rolled-back", "failed"}
        PROVE  CountOf(s, migrations') = CountOf(s, migrations) + (IF r.status = s THEN 1 ELSE 0)
    <2>1. migrations[m] # Nothing => migrations[m].status # s
      BY <1>1 DEF Pending
    <2>2. CASE r.status = s
      BY <1>1, <1>3, <1>4, <2>1, <2>2, CountRises
    <2>3. CASE r.status # s
      <3>1. CountOf(s, migrations') = CountOf(s, migrations)
        BY <1>1, <1>3, <1>4, <2>1, <2>3, CountStays
      <3> QED
        BY <2>3, <3>1, CountIs
    <2> QED
      BY <2>2, <2>3
  <1>7. Tallied(tally', migrations')
    BY <1>2, <1>6
  <1> QED
    BY <1>2, <1>3, <1>5, <1>7 DEF VersionsInv

LEMMA ExecuteKeeps ==
  ASSUME V!VersionGovernanceAssumption, VersionsInv, NEW m \in Migrations, V!Execute(m)
  PROVE  VersionsInv'
  <1>1. PICK r : r = migrations[m]
    OBVIOUS
  <1>2. r # Nothing /\ r \in V!MigrationRecord /\ Gated(r, relationships)
    BY <1>1 DEF V!Execute, VersionsInv, MigrationsInv
  <1>3. r.status = "planned"
    BY <1>1 DEF V!Execute, V!MayStart, V!MigrationTransitions
  <1>4. \A c \in executions : c.of # m
    BY <1>1, <1>3 DEF VersionsInv, CallsInv, Pending
  <1>5. PICK x : x = "validated"
    OBVIOUS
  <1>6. x \in V!MigrationStatuses /\ x # "compatibility-verified"
    BY <1>5 DEF V!MigrationStatuses
  <1>7. PICK validated : validated = V!Stepped(r, x)
    OBVIOUS
  <1>8. /\ validated \in V!MigrationRecord /\ validated.change = r.change /\ Gated(validated, relationships)
    BY <1>2, <1>6, <1>7, SteppedIs
  <1>9. \/ /\ V!Compatible(validated.change)
           /\ \E answer : V!Awaits(executions, m, V!Stepped(validated, "compatibility-verified"), "executing", answer)
        \/ \E answer : V!Awaits(executions, m, V!Stepped(validated, "rollback"), "undoing", answer)
    BY <1>1, <1>5, <1>7 DEF V!Execute
  <1>10. UNCHANGED <<versions, relationships, tally>>
    BY DEF V!Execute
  <1>11. migrations[m] # Nothing => migrations[m].status \notin V!Ended
    BY <1>1, <1>3 DEF V!Ended
  <1>12. CASE /\ V!Compatible(validated.change)
              /\ \E answer : V!Awaits(executions, m, V!Stepped(validated, "compatibility-verified"), "executing", answer)
    <2>1. PICK y, at : y = "compatibility-verified" /\ at = "executing"
      OBVIOUS
    <2>2. PICK answer : V!Awaits(executions, m, V!Stepped(validated, y), at, answer)
      BY <1>12, <2>1
    <2>3. y \in V!MigrationStatuses /\ y \in Pending
      BY <2>1 DEF V!MigrationStatuses, Pending
    <2>4. Recorded(validated.change, relationships)
      BY <1>12, CompatibleIsRecorded DEF VersionsInv
    <2>5. PICK q : q = V!Stepped(validated, y)
      OBVIOUS
    <2>6. q \in V!MigrationRecord /\ q.status = y /\ Gated(q, relationships)
      BY <1>8, <2>3, <2>4, <2>5, SteppedIs
    <2>7. V!Awaits(executions, m, q, at, answer) /\ q.status \in Pending
      BY <2>2, <2>3, <2>5, <2>6
    <2> QED
      BY <1>4, <1>10, <1>11, <2>6, <2>7, AwaitsKeep
  <1>13. CASE \E answer : V!Awaits(executions, m, V!Stepped(validated, "rollback"), "undoing", answer)
    <2>1. PICK y, at : y = "rollback" /\ at = "undoing"
      OBVIOUS
    <2>2. PICK answer : V!Awaits(executions, m, V!Stepped(validated, y), at, answer)
      BY <1>13, <2>1
    <2>3. y \in V!MigrationStatuses /\ y \in Pending /\ y # "compatibility-verified"
      BY <2>1 DEF V!MigrationStatuses, Pending
    <2>4. PICK q : q = V!Stepped(validated, y)
      OBVIOUS
    <2>5. q \in V!MigrationRecord /\ q.status = y /\ Gated(q, relationships)
      BY <1>8, <2>3, <2>4, SteppedIs
    <2>6. V!Awaits(executions, m, q, at, answer) /\ q.status \in Pending
      BY <2>2, <2>3, <2>4, <2>5
    <2> QED
      BY <1>4, <1>10, <1>11, <2>5, <2>6, AwaitsKeep
  <1> QED
    BY <1>9, <1>12, <1>13

\* A call goes on with another await.
LEMMA GoesOn ==
  ASSUME V!VersionGovernanceAssumption, VersionsInv, NEW c \in executions, NEW y \in V!MigrationStatuses, y \in Pending,
         y # "compatibility-verified", NEW at, NEW answer,
         V!Awaits(executions \ {c}, c.of, V!Stepped(c.record, y), at, answer), UNCHANGED <<versions, relationships, tally>>
  PROVE  VersionsInv'
  <1>1. /\ c.of \in Migrations /\ migrations[c.of] = c.record
        /\ c.record \in V!MigrationRecord /\ Gated(c.record, relationships) /\ c.record.status \in Pending
        /\ \A d \in executions \ {c} : d.of # c.of
    BY ExecutionIs
  <1>2. PICK q : q = V!Stepped(c.record, y)
    OBVIOUS
  <1>3. q \in V!MigrationRecord /\ q.status = y /\ Gated(q, relationships)
    BY <1>1, <1>2, SteppedIs
  <1>4. migrations[c.of] # Nothing => migrations[c.of].status \notin V!Ended
    BY <1>1 DEF Pending, V!Ended
  <1>5. PICK others, m : others = executions \ {c} /\ m = c.of
    OBVIOUS
  <1>6. V!Awaits(others, m, q, at, answer) /\ others \subseteq executions /\ \A d \in others : d.of # m
    BY <1>1, <1>2, <1>5
  <1>7. m \in Migrations /\ q.status \in Pending /\ (migrations[m] # Nothing => migrations[m].status \notin V!Ended)
    BY <1>1, <1>3, <1>4, <1>5
  <1> QED
    BY <1>3, <1>6, <1>7, AwaitsKeep

\* A call ends: the counters it raises are those of its status.
LEMMA VerifiedKeeps ==
  ASSUME V!VersionGovernanceAssumption, VersionsInv, NEW c \in executions, V!Verified(c)
  PROVE  VersionsInv'
  <1>1. PICK x, y : x = "verified" /\ y = "certified"
    OBVIOUS
  <1>2. x \in V!MigrationStatuses /\ y \in V!MigrationStatuses /\ x # "compatibility-verified" /\ y # "compatibility-verified"
    BY <1>1 DEF V!MigrationStatuses
  <1>3. PICK p, q : p = V!Stepped(c.record, x) /\ q = V!Stepped(p, y)
    OBVIOUS
  <1>4. p \in V!MigrationRecord /\ Gated(p, relationships)
    BY <1>2, <1>3, ExecutionIs, SteppedIs
  <1>5. q \in V!MigrationRecord /\ q.status = y /\ Gated(q, relationships)
    BY <1>2, <1>3, <1>4, SteppedIs
  <1>6. PICK count : count = [tally EXCEPT !.migrated = @ + 1]
    OBVIOUS
  <1>7. V!Ends(c, q, count)
    BY <1>1, <1>3, <1>6 DEF V!Verified
  <1>8. ASSUME NEW all, \A s \in {"certified", "rolled-back", "failed"} :
                          CountOf(s, all) = CountOf(s, migrations) + (IF q.status = s THEN 1 ELSE 0)
        PROVE  Tallied(count, all)
    <2>1. /\ CountOf("certified", all) = CountOf("certified", migrations) + 1
          /\ CountOf("rolled-back", all) = CountOf("rolled-back", migrations)
          /\ CountOf("failed", all) = CountOf("failed", migrations)
      BY <1>1, <1>5, <1>8, CountIs
    <2>2. Tallied(tally, migrations)
      BY DEF VersionsInv
    <2> QED
      BY <1>6, <2>1, <2>2 DEF Tallied
  <1> QED
    BY <1>5, <1>7, <1>8, EndsKeep

LEMMA RolledBackKeeps ==
  ASSUME V!VersionGovernanceAssumption, VersionsInv, NEW c \in executions, V!RolledBack(c)
  PROVE  VersionsInv'
  <1>1. CASE c.ok
    <2>1. PICK y : y = "rolled-back"
      OBVIOUS
    <2>2. y \in V!MigrationStatuses /\ y # "compatibility-verified"
      BY <2>1 DEF V!MigrationStatuses
    <2>3. PICK q : q = V!Stepped(c.record, y)
      OBVIOUS
    <2>4. q \in V!MigrationRecord /\ q.status = y /\ Gated(q, relationships)
      BY <2>2, <2>3, ExecutionIs, SteppedIs
    <2>5. PICK count : count = [tally EXCEPT !.rolledBack = @ + 1, !.unmigrated = @ + 1]
      OBVIOUS
    <2>6. V!Ends(c, q, count)
      BY <1>1, <2>1, <2>3, <2>5 DEF V!RolledBack
    <2>7. ASSUME NEW all, \A s \in {"certified", "rolled-back", "failed"} :
                            CountOf(s, all) = CountOf(s, migrations) + (IF q.status = s THEN 1 ELSE 0)
          PROVE  Tallied(count, all)
      <3>1. /\ CountOf("certified", all) = CountOf("certified", migrations)
            /\ CountOf("rolled-back", all) = CountOf("rolled-back", migrations) + 1
            /\ CountOf("failed", all) = CountOf("failed", migrations)
        BY <2>1, <2>4, <2>7, CountIs
      <3>2. PICK a, b, d : /\ a = CountOf("certified", migrations) /\ b = CountOf("rolled-back", migrations)
                           /\ d = CountOf("failed", migrations)
        OBVIOUS
      <3>3. b \in Nat /\ d \in Nat
        BY <3>2, CountIs
      <3>4. tally = [migrated |-> a, rolledBack |-> b, notRolledBack |-> d, unmigrated |-> b + d]
        BY <3>2 DEF VersionsInv, Tallied
      <3>5. count = [migrated |-> a, rolledBack |-> b + 1, notRolledBack |-> d, unmigrated |-> (b + d) + 1]
        BY <2>5, <3>4
      <3>6. (b + d) + 1 = (b + 1) + d
        BY <3>3
      <3> QED
        BY <3>1, <3>2, <3>5, <3>6 DEF Tallied
    <2> QED
      BY <2>4, <2>6, <2>7, EndsKeep
  <1>2. CASE ~c.ok
    <2>1. PICK y : y = "failed"
      OBVIOUS
    <2>2. y \in V!MigrationStatuses /\ y # "compatibility-verified"
      BY <2>1 DEF V!MigrationStatuses
    <2>3. PICK q : q = V!Stepped(c.record, y)
      OBVIOUS
    <2>4. q \in V!MigrationRecord /\ q.status = y /\ Gated(q, relationships)
      BY <2>2, <2>3, ExecutionIs, SteppedIs
    <2>5. PICK count : count = [tally EXCEPT !.notRolledBack = @ + 1, !.unmigrated = @ + 1]
      OBVIOUS
    <2>6. V!Ends(c, q, count)
      BY <1>2, <2>1, <2>3, <2>5 DEF V!RolledBack
    <2>7. ASSUME NEW all, \A s \in {"certified", "rolled-back", "failed"} :
                            CountOf(s, all) = CountOf(s, migrations) + (IF q.status = s THEN 1 ELSE 0)
          PROVE  Tallied(count, all)
      <3>1. /\ CountOf("certified", all) = CountOf("certified", migrations)
            /\ CountOf("rolled-back", all) = CountOf("rolled-back", migrations)
            /\ CountOf("failed", all) = CountOf("failed", migrations) + 1
        BY <2>1, <2>4, <2>7, CountIs
      <3>2. PICK a, b, d : /\ a = CountOf("certified", migrations) /\ b = CountOf("rolled-back", migrations)
                           /\ d = CountOf("failed", migrations)
        OBVIOUS
      <3>3. b \in Nat /\ d \in Nat
        BY <3>2, CountIs
      <3>4. tally = [migrated |-> a, rolledBack |-> b, notRolledBack |-> d, unmigrated |-> b + d]
        BY <3>2 DEF VersionsInv, Tallied
      <3>5. count = [migrated |-> a, rolledBack |-> b, notRolledBack |-> d + 1, unmigrated |-> (b + d) + 1]
        BY <2>5, <3>4
      <3>6. (b + d) + 1 = b + (d + 1)
        BY <3>3
      <3> QED
        BY <3>1, <3>2, <3>5, <3>6 DEF Tallied
    <2> QED
      BY <2>4, <2>6, <2>7, EndsKeep
  <1> QED
    BY <1>1, <1>2

LEMMA FailsKeeps ==
  ASSUME V!VersionGovernanceAssumption, VersionsInv, NEW c \in executions, V!Fails(c) \/ V!Executed(c)
  PROVE  VersionsInv'
  <1>1. CASE V!Fails(c)
    <2>1. PICK y, at : y = "rollback" /\ at = "undoing"
      OBVIOUS
    <2>2. PICK answer : V!Awaits(executions \ {c}, c.of, V!Stepped(c.record, y), at, answer)
      BY <1>1, <2>1 DEF V!Fails
    <2>3. UNCHANGED <<versions, relationships, tally>>
      BY <1>1 DEF V!Fails
    <2>4. y \in V!MigrationStatuses /\ y \in Pending /\ y # "compatibility-verified"
      BY <2>1 DEF V!MigrationStatuses, Pending
    <2> QED
      BY <2>2, <2>3, <2>4, GoesOn
  <1>2. CASE V!Executed(c)
    <2>1. PICK y, at : y = "executed" /\ at = "verifying"
      OBVIOUS
    <2>2. PICK answer : V!Awaits(executions \ {c}, c.of, V!Stepped(c.record, y), at, answer)
      BY <1>2, <2>1 DEF V!Executed
    <2>3. UNCHANGED <<versions, relationships, tally>>
      BY <1>2 DEF V!Executed
    <2>4. y \in V!MigrationStatuses /\ y \in Pending /\ y # "compatibility-verified"
      BY <2>1 DEF V!MigrationStatuses, Pending
    <2> QED
      BY <2>2, <2>3, <2>4, GoesOn
  <1> QED
    BY <1>1, <1>2

LEMMA PlanKeeps ==
  ASSUME V!VersionGovernanceAssumption, VersionsInv, NEW m \in Migrations, NEW change \in Changes, V!Plan(m, change)
  PROVE  VersionsInv'
  <1>1. PICK x, st : x = "planned" /\ st = <<x>>
    OBVIOUS
  <1>2. PICK r : r = [change |-> change, status |-> x, steps |-> st]
    OBVIOUS
  <1>3. /\ migrations[m] = Nothing /\ migrations' = [migrations EXCEPT ![m] = r]
        /\ UNCHANGED <<versions, relationships, executions, tally>>
    BY <1>1, <1>2 DEF V!Plan
  <1>4. x \in V!MigrationStatuses /\ x \notin V!Ended /\ x # "compatibility-verified"
    BY <1>1 DEF V!MigrationStatuses, V!Ended
  <1>5. st \in Seq(V!MigrationStatuses) /\ \A k \in DOMAIN st : st[k] = x
    BY <1>1, <1>4
  <1>6. r \in V!MigrationRecord /\ r.status = x /\ r.steps = st
    BY <1>2, <1>4, <1>5 DEF V!MigrationRecord
  <1>7. Gated(r, relationships)
    BY <1>4, <1>5, <1>6 DEF Gated
  <1>8. /\ MigrationsInv(migrations', relationships')
        /\ \A n \in Migrations : migrations'[n] = IF n = m THEN r ELSE migrations[n]
    BY <1>3, <1>6, <1>7, RecordWritten DEF VersionsInv
  <1>9. CallsInv(executions', migrations')
    BY <1>3, <1>8 DEF VersionsInv, CallsInv
  <1>10. r # Nothing
    BY <1>6 DEF V!VersionGovernanceAssumption
  <1>11. \A s \in {"certified", "rolled-back", "failed"} : CountOf(s, migrations') = CountOf(s, migrations)
    <2> TAKE s \in {"certified", "rolled-back", "failed"}
    <2>1. r.status # s /\ (migrations[m] # Nothing => migrations[m].status # s)
      BY <1>3, <1>4, <1>6 DEF V!Ended
    <2> QED
      BY <1>8, <1>10, <2>1, CountStays
  <1>12. Tallied(tally', migrations')
    BY <1>3, <1>11 DEF Tallied, VersionsInv
  <1> QED
    BY <1>3, <1>8, <1>9, <1>12 DEF VersionsInv

LEMMA TransitionKeeps ==
  ASSUME V!VersionGovernanceAssumption, VersionsInv, NEW v \in Artifacts, NEW r \in V!VersionRecord, NEW x \in V!VersionStatuses,
         V!TransitionVersion(v, r, x),
         x \in {"certified", "released", "supported", "deprecated", "retired"} => r.certification = "certified"
  PROVE  VersionsInv'
  <1>1. PICK q : q = [r EXCEPT !.status = x]
    OBVIOUS
  <1>2. q \in V!VersionRecord /\ q.status = x /\ q.certification = r.certification
    BY <1>1 DEF V!VersionRecord
  <1>3. versions' = [versions EXCEPT ![v] = q] /\ UNCHANGED <<relationships, migrations, executions, tally>>
    BY <1>1 DEF V!TransitionVersion
  <1>4. Certified(q)
    BY <1>2 DEF Certified
  <1> QED
    BY <1>2, <1>3, <1>4 DEF VersionsInv, MigrationsInv, CallsInv, Tallied, CountOf, EndedAs

\* What was certified goes on, and what is not certified does not.
LEMMA VersionsMove ==
  ASSUME V!VersionGovernanceAssumption, VersionsInv, NEW v \in Artifacts,
         \/ V!ReleaseVersion(v) \/ V!MarkSupported(v) \/ V!DeprecateVersion(v) \/ V!RetireVersion(v)
         \/ \E outcome \in {"certified", "rejected"} : V!CertifyVersion(v, outcome)
  PROVE  VersionsInv'
  <1>1. PICK r : r = versions[v]
    OBVIOUS
  <1>2. ASSUME NEW q, NEW x, V!TransitionVersion(v, q, x)
        PROVE  r \in V!VersionRecord /\ Certified(r) /\ <<r.status, x>> \in V!VersionTransitions
    BY <1>1, <1>2 DEF V!TransitionVersion, VersionsInv
  <1>3. CASE V!ReleaseVersion(v)
    <2>1. PICK x : x = "released"
      OBVIOUS
    <2>2. V!TransitionVersion(v, r, x)
      BY <1>1, <1>3, <2>1 DEF V!ReleaseVersion
    <2>3. r.certification = "certified"
      BY <1>2, <2>1, <2>2 DEF V!VersionTransitions, Certified
    <2> QED
      BY <1>2, <2>1, <2>2, <2>3, TransitionKeeps DEF V!VersionStatuses
  <1>4. CASE V!MarkSupported(v)
    <2>1. PICK x : x = "supported"
      OBVIOUS
    <2>2. V!TransitionVersion(v, r, x)
      BY <1>1, <1>4, <2>1 DEF V!MarkSupported
    <2>3. r.certification = "certified"
      BY <1>2, <2>1, <2>2 DEF V!VersionTransitions, Certified
    <2> QED
      BY <1>2, <2>1, <2>2, <2>3, TransitionKeeps DEF V!VersionStatuses
  <1>5. CASE V!RetireVersion(v)
    <2>1. PICK x : x = "retired"
      OBVIOUS
    <2>2. V!TransitionVersion(v, r, x)
      BY <1>1, <1>5, <2>1 DEF V!RetireVersion
    <2>3. r.certification = "certified"
      BY <1>2, <2>1, <2>2 DEF V!VersionTransitions, Certified
    <2> QED
      BY <1>2, <2>1, <2>2, <2>3, TransitionKeeps DEF V!VersionStatuses
  <1>6. CASE V!DeprecateVersion(v)
    <2>1. PICK x, b : x = "deprecated" /\ b = TRUE /\ b \in BOOLEAN
      OBVIOUS
    <2>2. PICK q : q = [r EXCEPT !.deprecation = b]
      OBVIOUS
    <2>3. V!TransitionVersion(v, q, x)
      BY <1>1, <1>6, <2>1, <2>2 DEF V!DeprecateVersion
    <2>4. r.certification = "certified"
      BY <1>2, <2>1, <2>3 DEF V!VersionTransitions, Certified
    <2>5. q \in V!VersionRecord /\ q.certification = r.certification
      BY <1>2, <2>1, <2>2, <2>3 DEF V!VersionRecord
    <2> QED
      BY <2>1, <2>3, <2>4, <2>5, TransitionKeeps DEF V!VersionStatuses
  <1>7. ASSUME NEW outcome \in {"certified", "rejected"}, V!CertifyVersion(v, outcome)
        PROVE  VersionsInv'
    <2>1. PICK q : q = [r EXCEPT !.certification = outcome]
      OBVIOUS
    <2>2. V!TransitionVersion(v, q, outcome)
      BY <1>1, <1>7, <2>1 DEF V!CertifyVersion
    <2>3. outcome \in V!VersionStatuses /\ outcome \in {"uncertified", "certified", "rejected"}
      BY DEF V!VersionStatuses
    <2>4. q \in V!VersionRecord /\ q.certification = outcome
      BY <1>2, <2>1, <2>2, <2>3 DEF V!VersionRecord
    <2> QED
      BY <2>2, <2>3, <2>4, TransitionKeeps
  <1> QED
    BY <1>3, <1>4, <1>5, <1>6, <1>7

LEMMA VersionsKeep ==
  ASSUME V!VersionGovernanceAssumption, VersionsInv, V!Next
  PROVE  VersionsInv'
  <1>1. V!NewVersion \in V!VersionRecord /\ Certified(V!NewVersion)
    BY DEF V!NewVersion, V!VersionRecord, V!VersionStatuses, Certified
  <1>2. ASSUME UNCHANGED <<relationships, migrations, executions, tally>>, NEW new, new \subseteq Artifacts,
               versions' = [v \in Artifacts |-> IF v \in new THEN V!NewVersion ELSE versions[v]]
        PROVE  VersionsInv'
    <2>1. \A v \in Artifacts : versions'[v] # Nothing => versions'[v] \in V!VersionRecord /\ Certified(versions'[v])
      BY <1>1, <1>2 DEF VersionsInv
    <2> QED
      BY <1>2, <2>1 DEF VersionsInv, MigrationsInv, CallsInv, Tallied, CountOf, EndedAs
  <1>3. CASE V!SyncVersions
    <2>1. PICK new : new = {v \in V!CurrentVersions : V!Unregistered(v)}
      OBVIOUS
    <2>2. new \subseteq Artifacts
      BY <2>1 DEF V!CurrentVersions
    <2> QED
      BY <1>2, <1>3, <2>1, <2>2 DEF V!SyncVersions
  <1>4. ASSUME NEW v \in Artifacts, V!Register(v)
        PROVE  VersionsInv'
    <2>1. versions' = [u \in Artifacts |-> IF u \in {v} THEN V!NewVersion ELSE versions[u]]
      BY <1>4 DEF V!Register, VersionsInv
    <2> QED
      BY <1>2, <1>4, <2>1 DEF V!Register
  <1>5. ASSUME NEW v \in Artifacts,
               \/ V!ReleaseVersion(v) \/ V!MarkSupported(v) \/ V!DeprecateVersion(v) \/ V!RetireVersion(v)
               \/ \E outcome \in {"certified", "rejected"} : V!CertifyVersion(v, outcome)
        PROVE  VersionsInv'
    BY <1>5, VersionsMove
  <1>6. ASSUME NEW r \in V!CompatibilityRelationship, V!RecordCompatibility(r)
        PROVE  VersionsInv'
    <2>1. /\ relationships' = Append(relationships, r) /\ UNCHANGED <<versions, migrations, executions, tally>>
      BY <1>6 DEF V!RecordCompatibility
    <2>2. /\ relationships' \in Seq(V!CompatibilityRelationship)
          /\ \A k \in DOMAIN relationships : k \in DOMAIN relationships' /\ relationships'[k] = relationships[k]
      BY <2>1 DEF VersionsInv
    <2>3. \A q : Gated(q, relationships) => Gated(q, relationships')
      BY <2>2 DEF Gated
    <2>4. MigrationsInv(migrations', relationships')
      BY <2>1, <2>3 DEF MigrationsInv, VersionsInv
    <2> QED
      BY <2>1, <2>2, <2>4 DEF VersionsInv, CallsInv, Tallied, CountOf, EndedAs
  <1>7. ASSUME NEW m \in Migrations, V!Execute(m)
        PROVE  VersionsInv'
    BY <1>7, ExecuteKeeps
  <1>8. ASSUME NEW m \in Migrations, NEW change \in Changes, V!Plan(m, change)
        PROVE  VersionsInv'
    BY <1>8, PlanKeeps
  <1>9. ASSUME NEW c \in executions, V!Fails(c) \/ V!Executed(c) \/ V!Verified(c) \/ V!RolledBack(c) \/ V!Rejects(c)
        PROVE  VersionsInv'
    <2>1. CASE V!Fails(c) \/ V!Executed(c)
      BY <2>1, FailsKeeps
    <2>2. CASE V!Verified(c)
      BY <2>2, VerifiedKeeps
    <2>3. CASE V!RolledBack(c)
      BY <2>3, RolledBackKeeps
    <2>4. CASE V!Rejects(c)
      BY <2>4 DEF V!Rejects, VersionsInv, MigrationsInv, CallsInv, Tallied, CountOf, EndedAs
    <2> QED
      BY <1>9, <2>1, <2>2, <2>3, <2>4
  <1>10. CASE V!ConfigurationLoads
    BY <1>10 DEF V!ConfigurationLoads, VersionsInv, MigrationsInv, CallsInv, Tallied, CountOf, EndedAs
  <1> QED
    BY <1>3, <1>4, <1>5, <1>6, <1>7, <1>8, <1>9, <1>10 DEF V!Next

LEMMA VersionSizes == \A X : V!Cardinality(X) = Cardinality(X)
  BY Zenon DEF V!Cardinality, Cardinality

LEMMA VersionsTell ==
  ASSUME VersionsInv
  PROVE  V!PipelineOwned /\ V!GatesPassed
  <1>1. \A c \in executions : migrations[c.of] = c.record /\ migrations[c.of].status \notin V!Ended
    BY DEF VersionsInv, CallsInv, Pending, V!Ended
  <1>2. \A c, d \in executions : c.of = d.of => c = d
    BY DEF VersionsInv, CallsInv
  <1>3. ASSUME NEW s
        PROVE  V!Cardinality({m \in Migrations : migrations[m] # Nothing /\ migrations[m].status = s}) = CountOf(s, migrations)
    BY VersionSizes DEF CountOf, EndedAs
  <1>4. tally = [migrated |-> CountOf("certified", migrations), rolledBack |-> CountOf("rolled-back", migrations),
                 notRolledBack |-> CountOf("failed", migrations),
                 unmigrated |-> CountOf("rolled-back", migrations) + CountOf("failed", migrations)]
    BY DEF VersionsInv, Tallied
  <1>5. V!PipelineOwned
    BY <1>1, <1>2, <1>3, <1>4 DEF V!PipelineOwned
  <1>6. V!GatesPassed
    BY DEF V!GatesPassed, VersionsInv, MigrationsInv, Gated, Certified
  <1> QED
    BY <1>5, <1>6

\* No migration is run by two calls or written back by one whose copy is stale, the counters are
\* those of the records, and nothing was executed or released past its gate: for any artifacts,
\* migrations, executors and interleaving of their answers.
THEOREM MigrationsPassGates == ServicesSpec => []MigrationsAreGated
  <1> DEFINE Inv == focus = "versions" => VersionsInv
  <1>1. ServicesInit => Inv
    BY VersionsStart, ServicesAssumption DEF ServicesInit
  <1>2. Inv /\ [ServicesNext]_servicesVars => Inv'
    <2> SUFFICES ASSUME Inv, [ServicesNext]_servicesVars, focus' = "versions" PROVE VersionsInv'
      OBVIOUS
    <2>1. CASE ServicesNext
      <3>1. focus = "versions" /\ V!Next
        BY <2>1 DEF ServicesNext
      <3> QED
        BY <3>1, VersionsKeep, ServicesAssumption
    <2>2. CASE UNCHANGED servicesVars
      BY <2>2 DEF servicesVars, versionVars, VersionsInv, MigrationsInv, CallsInv, Tallied, CountOf, EndedAs
    <2> QED
      BY <2>1, <2>2
  <1>3. Inv => MigrationsAreGated
    BY VersionsTell DEF MigrationsAreGated
  <1> QED
    BY <1>1, <1>2, <1>3, PTL DEF ServicesSpec

-----------------------------------------------------------------------------
(* Certifications.  What stands at a stage went through those before it, and   *)
(* no operation but an evaluation touches what was decided.                    *)

Earned(r, evidence) ==
  /\ r.decision # Nothing =>
       r.decision.evidence \subseteq evidence /\ r.decision.passed = F!Eligible(r.level, r.decision.evidence)
  /\ r.stage \in {"qualified", "certified", "recertified"} => r.decision # Nothing /\ r.decision.passed
Traced(r, stages) ==
  /\ r.stage \in {"production-approved", "recertified"} =>
       r.level \in F!ProductionGrade /\ "production-approved" \in stages
  /\ r.stage \in {"certified", "production-approved", "recertified", "revoked"} => "certified" \in stages
  /\ r.stage = "revoked" <=> r.status = "revoked"
  /\ r.revocations = IF r.stage = "revoked" THEN 1 ELSE 0
  /\ r.stage = "revoked" <=> "revoked" \in stages
Stands(r, evidence, stages) ==
  IF r = Nothing THEN stages = {} ELSE r \in F!CertificationRecord /\ Earned(r, evidence) /\ Traced(r, stages)

CertificationsInv ==
  /\ certificates = [c \in Certifications |-> certificates[c]]
  /\ attached \in [Certifications -> SUBSET Observations]
  /\ lifecycle \in [Certifications -> SUBSET F!Stages]
  /\ \A c \in Certifications : Stands(certificates[c], attached[c], lifecycle[c])

LEMMA CertificationsStart == F!Init => CertificationsInv
  BY DEF F!Init, CertificationsInv, Stands

LEMMA EligibleIs == \A l, e : F!Eligible(l, e) \in BOOLEAN
  BY DEF F!Eligible

LEMMA NothingIs == F!CertificationAssumption => Nothing \notin F!Decisions /\ Nothing \notin F!CertificationRecord
  BY DEF F!CertificationAssumption

\* One certification changes.
LEMMA OneStands ==
  ASSUME CertificationsInv, NEW c \in Certifications, NEW r, NEW e \in SUBSET Observations, NEW l \in SUBSET F!Stages,
         certificates' = [certificates EXCEPT ![c] = r], attached' = [attached EXCEPT ![c] = e],
         lifecycle' = [lifecycle EXCEPT ![c] = l], Stands(r, e, l)
  PROVE  CertificationsInv'
  <1>1. certificates' = [d \in Certifications |-> certificates'[d]] /\ certificates'[c] = r
    BY DEF CertificationsInv
  <1>2. attached' \in [Certifications -> SUBSET Observations] /\ attached'[c] = e
    BY DEF CertificationsInv
  <1>3. lifecycle' \in [Certifications -> SUBSET F!Stages] /\ lifecycle'[c] = l
    BY DEF CertificationsInv
  <1>4. ASSUME NEW d \in Certifications, d # c
        PROVE  certificates'[d] = certificates[d] /\ attached'[d] = attached[d] /\ lifecycle'[d] = lifecycle[d]
    BY <1>4 DEF CertificationsInv
  <1>5. \A d \in Certifications : Stands(certificates'[d], attached'[d], lifecycle'[d])
    BY <1>1, <1>2, <1>3, <1>4 DEF CertificationsInv
  <1> QED
    BY <1>1, <1>2, <1>3, <1>5 DEF CertificationsInv

LEMMA StagesMove ==
  ASSUME CertificationsInv, F!CertificationAssumption, NEW c \in Certifications, NEW stage, F!MayMove(c, stage)
  PROVE  /\ certificates[c] # Nothing /\ certificates[c] \in F!CertificationRecord
         /\ Earned(certificates[c], attached[c]) /\ Traced(certificates[c], lifecycle[c])
         /\ stage \in F!Successors(certificates[c].stage)
  BY DEF F!MayMove, F!Registered, CertificationsInv, Stands

\* A record that changes only in what the operations write.
RecordOf(r, status, stage, again, decision, revocations) ==
  [hardware |-> r.hardware, level |-> r.level, status |-> status, stage |-> stage, expires |-> r.expires,
   recurs |-> r.recurs, due |-> again, decision |-> decision, revocations |-> revocations]

LEMMA RecordIs ==
  ASSUME NEW r \in F!CertificationRecord, NEW status \in F!Statuses, NEW stage \in F!Stages, NEW again \in BOOLEAN,
         NEW decision \in F!Decisions \cup {Nothing}, NEW revocations \in Nat,
         NEW q, q = RecordOf(r, status, stage, again, decision, revocations)
  PROVE  /\ q \in F!CertificationRecord /\ q.level = r.level /\ q.status = status /\ q.stage = stage
         /\ q.decision = decision /\ q.revocations = revocations
  BY DEF RecordOf, F!CertificationRecord

LEMMA StageIs ==
  ASSUME NEW r, NEW status, NEW stage, NEW x, NEW again, NEW decision, NEW revocations,
         NEW p, p = RecordOf(r, status, x, again, decision, revocations), NEW q, q = [p EXCEPT !.stage = stage]
  PROVE  q = RecordOf(r, status, stage, again, decision, revocations)
  BY DEF RecordOf

LEMMA StatusIs ==
  ASSUME NEW r \in F!CertificationRecord, NEW status
  PROVE  [r EXCEPT !.status = status] = RecordOf(r, status, r.stage, r.due, r.decision, r.revocations)
  BY DEF RecordOf, F!CertificationRecord

LEMMA DueIs ==
  ASSUME NEW r \in F!CertificationRecord, NEW status, NEW again
  PROVE  [r EXCEPT !.status = status, !.due = again] =
           RecordOf(r, status, r.stage, again, r.decision, r.revocations)
  <1> PICK p1 : p1 = [r EXCEPT !.status = status]
    OBVIOUS
  <1>1. p1 = RecordOf(r, status, r.stage, r.due, r.decision, r.revocations)
    BY DEF RecordOf, F!CertificationRecord
  <1> PICK p2 : p2 = [p1 EXCEPT !.due = again]
    OBVIOUS
  <1>2. p2 = RecordOf(r, status, r.stage, again, r.decision, r.revocations)
    BY <1>1 DEF RecordOf, F!CertificationRecord
  <1> QED
    BY <1>2

LEMMA DecidedIs ==
  ASSUME NEW r \in F!CertificationRecord, NEW status, NEW decision
  PROVE  [r EXCEPT !.status = status, !.decision = decision] =
           RecordOf(r, status, r.stage, r.due, decision, r.revocations)
  <1> PICK p1 : p1 = [r EXCEPT !.status = status]
    OBVIOUS
  <1>1. p1 = RecordOf(r, status, r.stage, r.due, r.decision, r.revocations)
    BY DEF RecordOf, F!CertificationRecord
  <1> PICK p2 : p2 = [p1 EXCEPT !.decision = decision]
    OBVIOUS
  <1>2. p2 = RecordOf(r, status, r.stage, r.due, decision, r.revocations)
    BY <1>1 DEF RecordOf, F!CertificationRecord
  <1> QED
    BY <1>2

LEMMA RecertifiedIs ==
  ASSUME NEW r \in F!CertificationRecord, NEW status, NEW decision, NEW again
  PROVE  [r EXCEPT !.status = status, !.decision = decision, !.due = again] =
           RecordOf(r, status, r.stage, again, decision, r.revocations)
  <1> PICK p1 : p1 = [r EXCEPT !.status = status]
    OBVIOUS
  <1>1. p1 = RecordOf(r, status, r.stage, r.due, r.decision, r.revocations)
    BY DEF RecordOf, F!CertificationRecord
  <1> PICK p2 : p2 = [p1 EXCEPT !.decision = decision]
    OBVIOUS
  <1>2. p2 = RecordOf(r, status, r.stage, r.due, decision, r.revocations)
    BY <1>1 DEF RecordOf, F!CertificationRecord
  <1> PICK p3 : p3 = [p2 EXCEPT !.due = again]
    OBVIOUS
  <1>3. p3 = RecordOf(r, status, r.stage, again, decision, r.revocations)
    BY <1>2 DEF RecordOf, F!CertificationRecord
  <1> QED
    BY <1>3

LEMMA RevokedIs ==
  ASSUME NEW r \in F!CertificationRecord, NEW status
  PROVE  [r EXCEPT !.status = status, !.revocations = @ + 1] =
           RecordOf(r, status, r.stage, r.due, r.decision, r.revocations + 1)
  <1> PICK p1 : p1 = [r EXCEPT !.status = status]
    OBVIOUS
  <1>1. p1 = RecordOf(r, status, r.stage, r.due, r.decision, r.revocations)
    BY DEF RecordOf, F!CertificationRecord
  <1> PICK p2 : p2 = [p1 EXCEPT !.revocations = r.revocations + 1]
    OBVIOUS
  <1>2. p2 = RecordOf(r, status, r.stage, r.due, r.decision, r.revocations + 1)
    BY <1>1 DEF RecordOf, F!CertificationRecord
  <1>3. p1.revocations = r.revocations
    BY <1>1 DEF RecordOf
  <1> QED
    BY <1>2, <1>3

LEMMA RefusedIs ==
  ASSUME NEW r \in F!CertificationRecord, NEW status, NEW decision
  PROVE  [r EXCEPT !.status = status, !.decision = decision, !.revocations = @ + 1] =
           RecordOf(r, status, r.stage, r.due, decision, r.revocations + 1)
  <1> PICK p1 : p1 = [r EXCEPT !.status = status]
    OBVIOUS
  <1>1. p1 = RecordOf(r, status, r.stage, r.due, r.decision, r.revocations)
    BY DEF RecordOf, F!CertificationRecord
  <1> PICK p2 : p2 = [p1 EXCEPT !.decision = decision]
    OBVIOUS
  <1>2. p2 = RecordOf(r, status, r.stage, r.due, decision, r.revocations)
    BY <1>1 DEF RecordOf, F!CertificationRecord
  <1> PICK p3 : p3 = [p2 EXCEPT !.revocations = r.revocations + 1]
    OBVIOUS
  <1>3. p3 = RecordOf(r, status, r.stage, r.due, decision, r.revocations + 1)
    BY <1>2 DEF RecordOf, F!CertificationRecord
  <1>4. p2.revocations = r.revocations
    BY <1>2 DEF RecordOf
  <1> QED
    BY <1>3, <1>4

Holds(q, level, status, stage, decision, revocations) ==
  /\ q.level = level /\ q.status = status /\ q.stage = stage /\ q.decision = decision /\ q.revocations = revocations

\* A transition of the lifecycle, with whatever the operation writes.
LEMMA MoveKeeps ==
  ASSUME CertificationsInv, F!CertificationAssumption, NEW c \in Certifications,
         NEW r \in F!CertificationRecord, r = certificates[c], NEW stage \in F!Stages, NEW status \in F!Statuses,
         NEW again \in BOOLEAN, NEW decision \in F!Decisions \cup {Nothing}, NEW revocations \in Nat,
         NEW p, p = RecordOf(r, status, r.stage, again, decision, revocations), F!Moved(c, stage, p),
         NEW e \in SUBSET Observations, attached' = [attached EXCEPT ![c] = e],
         \A q, l : Holds(q, r.level, status, stage, decision, revocations) /\ l = lifecycle[c] \cup {stage} =>
                     Earned(q, e) /\ Traced(q, l)
  PROVE  CertificationsInv'
  <1>1. PICK q : q = [p EXCEPT !.stage = stage]
    OBVIOUS
  <1>2. q = RecordOf(r, status, stage, again, decision, revocations)
    BY <1>1, StageIs
  <1>3. PICK l : l = lifecycle[c] \cup {stage}
    OBVIOUS
  <1>4. q \in F!CertificationRecord /\ Holds(q, r.level, status, stage, decision, revocations)
    BY <1>2, RecordIs DEF Holds
  <1>5. q # Nothing
    BY <1>4, NothingIs
  <1>6. Stands(q, e, l)
    BY <1>3, <1>4, <1>5 DEF Stands
  <1>7. certificates' = [certificates EXCEPT ![c] = q] /\ lifecycle' = [lifecycle EXCEPT ![c] = l]
    BY <1>1, <1>3 DEF F!Moved
  <1>8. l \in SUBSET F!Stages
    BY <1>3 DEF CertificationsInv
  <1> QED
    BY <1>6, <1>7, <1>8, OneStands

LEMMA Standing ==
  ASSUME CertificationsInv, F!CertificationAssumption, NEW c \in Certifications, NEW stage, F!MayMove(c, stage)
  PROVE  \E r \in F!CertificationRecord :
           /\ r = certificates[c] /\ r # Nothing /\ Earned(r, attached[c]) /\ Traced(r, lifecycle[c])
           /\ stage \in F!Successors(r.stage) /\ r.level = certificates[c].level
           /\ r.due \in BOOLEAN /\ r.recurs \in BOOLEAN /\ r.decision \in F!Decisions \cup {Nothing} /\ r.revocations \in Nat
           /\ r.stage \in F!Stages
           /\ attached[c] \in SUBSET Observations
           /\ attached' = attached => attached' = [attached EXCEPT ![c] = attached[c]]
  <1> PICK r : r = certificates[c]
    OBVIOUS
  <1>1. r \in F!CertificationRecord /\ r # Nothing /\ Earned(r, attached[c]) /\ Traced(r, lifecycle[c])
        /\ stage \in F!Successors(r.stage)
    BY StagesMove
  <1>2. /\ r.due \in BOOLEAN /\ r.recurs \in BOOLEAN /\ r.decision \in F!Decisions \cup {Nothing} /\ r.revocations \in Nat
        /\ r.stage \in F!Stages
    BY <1>1 DEF F!CertificationRecord
  <1>3. attached[c] \in SUBSET Observations
    BY DEF CertificationsInv
  <1>4. attached' = attached => attached' = [attached EXCEPT ![c] = attached[c]]
    BY DEF CertificationsInv
  <1>5. r.level = certificates[c].level
    OBVIOUS
  <1> QED
    BY <1>1, <1>2, <1>3, <1>4, <1>5

LEMMA StageNames ==
  /\ \A s \in F!Stages : "qualified" \in F!Successors(s) => s = "evaluated"
  /\ \A s \in F!Stages : "evaluated" \in F!Successors(s) => s = "discovered"
  /\ \A s \in F!Stages : "certified" \in F!Successors(s) => s = "qualified"
  /\ \A s \in F!Stages : "production-approved" \in F!Successors(s) => s = "certified"
  /\ \A s \in F!Stages : "recertified" \in F!Successors(s) => s = "production-approved"
  /\ \A s \in F!Stages : "revoked" \in F!Successors(s) => s \in {"certified", "production-approved", "recertified"}
  BY DEF F!Stages, F!Successors

LEMMA Names ==
  /\ {"qualified", "denied", "certified", "production-approved", "recertified", "revoked", "expired"} \subseteq F!Statuses
  /\ {"evaluated", "qualified", "certified", "production-approved", "recertified", "revoked"} \subseteq F!Stages
  BY DEF F!Statuses, F!Stages

LEMMA QualifyKeeps ==
  ASSUME CertificationsInv, F!CertificationAssumption, NEW c \in Certifications, F!Qualify(c)
  PROVE  CertificationsInv'
  <1>1. PICK r \in F!CertificationRecord :
           /\ r = certificates[c] /\ r # Nothing /\ Earned(r, attached[c]) /\ Traced(r, lifecycle[c])
           /\ "qualified" \in F!Successors(r.stage) /\ r.level = certificates[c].level
           /\ r.due \in BOOLEAN /\ r.recurs \in BOOLEAN /\ r.decision \in F!Decisions \cup {Nothing} /\ r.revocations \in Nat
           /\ r.stage \in F!Stages
           /\ attached[c] \in SUBSET Observations
           /\ attached' = attached => attached' = [attached EXCEPT ![c] = attached[c]]
    BY Standing DEF F!Qualify
  <1>2. r.stage = "evaluated" /\ r.decision # Nothing /\ r.decision.passed
    BY <1>1, StageNames DEF F!Qualify
  <1>3. PICK x : x = "qualified"
    OBVIOUS
  <1>4. PICK p : p = [r EXCEPT !.status = x]
    OBVIOUS
  <1>5. p = RecordOf(r, x, r.stage, r.due, r.decision, r.revocations) /\ F!Moved(c, x, p) /\ attached' = attached
    BY <1>1, <1>3, <1>4, StatusIs DEF F!Qualify
  <1>6. ASSUME NEW q, NEW l, Holds(q, r.level, x, x, r.decision, r.revocations), l = lifecycle[c] \cup {x}
        PROVE  Earned(q, attached[c]) /\ Traced(q, l)
    <2>1. Earned(q, attached[c])
      BY <1>1, <1>2, <1>3, <1>6 DEF Earned, Holds
    <2>2. Traced(q, l)
      BY <1>1, <1>2, <1>3, <1>6 DEF Traced, Holds
    <2> QED
      BY <2>1, <2>2
  <1>7. x \in F!Stages /\ x \in F!Statuses
    BY <1>3, Names
  <1>8. attached' = [attached EXCEPT ![c] = attached[c]] /\ attached[c] \in SUBSET Observations
    BY <1>1, <1>5
  <1> QED
    BY <1>1, <1>5, <1>6, <1>7, <1>8, MoveKeeps

LEMMA CertifyKeeps ==
  ASSUME CertificationsInv, F!CertificationAssumption, NEW c \in Certifications, F!Certify(c)
  PROVE  CertificationsInv'
  <1>1. PICK r \in F!CertificationRecord :
           /\ r = certificates[c] /\ r # Nothing /\ Earned(r, attached[c]) /\ Traced(r, lifecycle[c])
           /\ "certified" \in F!Successors(r.stage) /\ r.level = certificates[c].level
           /\ r.due \in BOOLEAN /\ r.recurs \in BOOLEAN /\ r.decision \in F!Decisions \cup {Nothing} /\ r.revocations \in Nat
           /\ r.stage \in F!Stages
           /\ attached[c] \in SUBSET Observations
           /\ attached' = attached => attached' = [attached EXCEPT ![c] = attached[c]]
    BY Standing DEF F!Certify
  <1>2. r.stage = "qualified"
    BY <1>1, StageNames DEF F!Certify
  <1>3. PICK x : x = "certified"
    OBVIOUS
  <1>4. PICK p : p = [r EXCEPT !.status = x, !.due = r.recurs]
    OBVIOUS
  <1>5. p = RecordOf(r, x, r.stage, r.recurs, r.decision, r.revocations) /\ F!Moved(c, x, p) /\ attached' = attached
    BY <1>1, <1>3, <1>4, DueIs DEF F!Certify
  <1>6. ASSUME NEW q, NEW l, Holds(q, r.level, x, x, r.decision, r.revocations), l = lifecycle[c] \cup {x}
        PROVE  Earned(q, attached[c]) /\ Traced(q, l)
    <2>1. Earned(q, attached[c])
      BY <1>1, <1>2, <1>3, <1>6 DEF Earned, Holds
    <2>2. Traced(q, l)
      BY <1>1, <1>2, <1>3, <1>6 DEF Traced, Holds
    <2> QED
      BY <2>1, <2>2
  <1>7. x \in F!Stages /\ x \in F!Statuses
    BY <1>3, Names
  <1>8. attached' = [attached EXCEPT ![c] = attached[c]] /\ attached[c] \in SUBSET Observations
    BY <1>1, <1>5
  <1> QED
    BY <1>1, <1>5, <1>6, <1>7, <1>8, MoveKeeps

LEMMA ApproveProductionKeeps ==
  ASSUME CertificationsInv, F!CertificationAssumption, NEW c \in Certifications, F!ApproveProduction(c)
  PROVE  CertificationsInv'
  <1>1. PICK r \in F!CertificationRecord :
           /\ r = certificates[c] /\ r # Nothing /\ Earned(r, attached[c]) /\ Traced(r, lifecycle[c])
           /\ "production-approved" \in F!Successors(r.stage) /\ r.level = certificates[c].level
           /\ r.due \in BOOLEAN /\ r.recurs \in BOOLEAN /\ r.decision \in F!Decisions \cup {Nothing} /\ r.revocations \in Nat
           /\ r.stage \in F!Stages
           /\ attached[c] \in SUBSET Observations
           /\ attached' = attached => attached' = [attached EXCEPT ![c] = attached[c]]
    BY Standing DEF F!ApproveProduction
  <1>2. r.stage = "certified" /\ r.level \in F!ProductionGrade
    BY <1>1, StageNames DEF F!ApproveProduction
  <1>3. PICK x : x = "production-approved"
    OBVIOUS
  <1>4. PICK p : p = [r EXCEPT !.status = x]
    OBVIOUS
  <1>5. p = RecordOf(r, x, r.stage, r.due, r.decision, r.revocations) /\ F!Moved(c, x, p) /\ attached' = attached
    BY <1>1, <1>3, <1>4, StatusIs DEF F!ApproveProduction
  <1>6. ASSUME NEW q, NEW l, Holds(q, r.level, x, x, r.decision, r.revocations), l = lifecycle[c] \cup {x}
        PROVE  Earned(q, attached[c]) /\ Traced(q, l)
    <2>1. Earned(q, attached[c])
      BY <1>1, <1>2, <1>3, <1>6 DEF Earned, Holds
    <2>2. Traced(q, l)
      BY <1>1, <1>2, <1>3, <1>6 DEF Traced, Holds
    <2> QED
      BY <2>1, <2>2
  <1>7. x \in F!Stages /\ x \in F!Statuses
    BY <1>3, Names
  <1>8. attached' = [attached EXCEPT ![c] = attached[c]] /\ attached[c] \in SUBSET Observations
    BY <1>1, <1>5
  <1> QED
    BY <1>1, <1>5, <1>6, <1>7, <1>8, MoveKeeps

LEMMA RevokeKeeps ==
  ASSUME CertificationsInv, F!CertificationAssumption, NEW c \in Certifications, F!Revoke(c)
  PROVE  CertificationsInv'
  <1>1. PICK r \in F!CertificationRecord :
           /\ r = certificates[c] /\ r # Nothing /\ Earned(r, attached[c]) /\ Traced(r, lifecycle[c])
           /\ "revoked" \in F!Successors(r.stage) /\ r.level = certificates[c].level
           /\ r.due \in BOOLEAN /\ r.recurs \in BOOLEAN /\ r.decision \in F!Decisions \cup {Nothing} /\ r.revocations \in Nat
           /\ r.stage \in F!Stages
           /\ attached[c] \in SUBSET Observations
           /\ attached' = attached => attached' = [attached EXCEPT ![c] = attached[c]]
    BY Standing DEF F!Revoke
  <1>2. r.stage \in {"certified", "production-approved", "recertified"}
    BY <1>1, StageNames DEF F!Revoke
  <1>3. PICK x : x = "revoked"
    OBVIOUS
  <1>4. PICK p : p = [r EXCEPT !.status = x, !.revocations = @ + 1]
    OBVIOUS
  <1>5. p = RecordOf(r, x, r.stage, r.due, r.decision, r.revocations + 1) /\ F!Moved(c, x, p) /\ attached' = attached
    BY <1>1, <1>3, <1>4, RevokedIs DEF F!Revoke
  <1>6. ASSUME NEW q, NEW l, Holds(q, r.level, x, x, r.decision, r.revocations + 1), l = lifecycle[c] \cup {x}
        PROVE  Earned(q, attached[c]) /\ Traced(q, l)
    <2>1. Earned(q, attached[c])
      BY <1>1, <1>2, <1>3, <1>6 DEF Earned, Holds
    <2>2. Traced(q, l)
      BY <1>1, <1>2, <1>3, <1>6 DEF Traced, Holds
    <2> QED
      BY <2>1, <2>2
  <1>7. x \in F!Stages /\ x \in F!Statuses
    BY <1>3, Names
  <1>8. attached' = [attached EXCEPT ![c] = attached[c]] /\ attached[c] \in SUBSET Observations
    BY <1>1, <1>5
  <1>9. r.revocations + 1 \in Nat
    BY <1>1
  <1> QED
    BY <1>1, <1>5, <1>6, <1>7, <1>8, <1>9, MoveKeeps

\* What an evaluation attaches and decides.
LEMMA AttachIs ==
  ASSUME CertificationsInv, NEW c \in Certifications, NEW o \in F!Collections, F!Attach(c, o), NEW r, r = certificates[c],
         NEW d, d = F!Decision(c, o)
  PROVE  \E e \in SUBSET Observations :
           /\ attached[c] \subseteq e /\ attached' = [attached EXCEPT ![c] = e]
           /\ d \in F!Decisions /\ d.evidence = e /\ d.passed = F!Eligible(r.level, e)
  <1>1. PICK e : e = attached[c] \cup o
    OBVIOUS
  <1>2. e \in SUBSET Observations /\ attached[c] \subseteq e
    BY <1>1 DEF CertificationsInv, F!Collections
  <1>3. attached' = [attached EXCEPT ![c] = e]
    BY <1>1 DEF F!Attach
  <1>4. d = [passed |-> F!Eligible(r.level, e), evidence |-> e]
    BY <1>1 DEF F!Decision
  <1>5. PICK b \in BOOLEAN : b = F!Eligible(r.level, e)
    BY EligibleIs
  <1>6. d \in F!Decisions /\ d.evidence = e /\ d.passed = b
    BY <1>2, <1>4, <1>5 DEF F!Decisions
  <1> QED
    BY <1>2, <1>3, <1>5, <1>6

LEMMA EvaluateKeeps ==
  ASSUME CertificationsInv, F!CertificationAssumption, NEW c \in Certifications, NEW o \in F!Collections, F!Evaluate(c, o)
  PROVE  CertificationsInv'
  <1>1. PICK r \in F!CertificationRecord :
           /\ r = certificates[c] /\ r # Nothing /\ Earned(r, attached[c]) /\ Traced(r, lifecycle[c])
           /\ "evaluated" \in F!Successors(r.stage) /\ r.level = certificates[c].level
           /\ r.due \in BOOLEAN /\ r.recurs \in BOOLEAN /\ r.decision \in F!Decisions \cup {Nothing} /\ r.revocations \in Nat
           /\ r.stage \in F!Stages
           /\ attached[c] \in SUBSET Observations
    BY Standing DEF F!Evaluate
  <1>2. r.stage = "discovered"
    BY <1>1, StageNames
  <1>3. PICK d : d = F!Decision(c, o)
    OBVIOUS
  <1>4. PICK e \in SUBSET Observations :
           /\ attached[c] \subseteq e /\ attached' = [attached EXCEPT ![c] = e]
           /\ d \in F!Decisions /\ d.evidence = e /\ d.passed = F!Eligible(r.level, e)
    BY <1>1, <1>3, AttachIs DEF F!Evaluate
  <1>5. PICK x, s : x = "evaluated" /\ s = IF d.passed THEN "qualified" ELSE "denied"
    OBVIOUS
  <1>6. PICK p : p = [r EXCEPT !.status = s, !.decision = d]
    OBVIOUS
  <1>7. p = RecordOf(r, s, r.stage, r.due, d, r.revocations)
    BY <1>6, DecidedIs
  <1>8. F!Moved(c, x, p)
    BY <1>1, <1>3, <1>5, <1>6 DEF F!Evaluate
  <1>9. ASSUME NEW q, NEW l, Holds(q, r.level, s, x, d, r.revocations), l = lifecycle[c] \cup {x}
        PROVE  Earned(q, e) /\ Traced(q, l)
    <2>1. Earned(q, e)
      BY <1>4, <1>5, <1>9 DEF Earned, Holds
    <2>2. s # "revoked"
      BY <1>5
    <2>3. Traced(q, l)
      BY <1>1, <1>2, <1>5, <1>9, <2>2 DEF Traced, Holds
    <2> QED
      BY <2>1, <2>3
  <1>10. x \in F!Stages /\ s \in F!Statuses
    BY <1>5, Names
  <1>11. d \in F!Decisions \cup {Nothing}
    BY <1>4
  <1> QED
    BY <1>1, <1>4, <1>7, <1>8, <1>9, <1>10, <1>11, MoveKeeps

LEMMA RecertifyKeeps ==
  ASSUME CertificationsInv, F!CertificationAssumption, NEW c \in Certifications, NEW o \in F!Collections, F!Recertify(c, o)
  PROVE  CertificationsInv'
  <1>1. PICK r \in F!CertificationRecord :
           /\ r = certificates[c] /\ r # Nothing /\ Earned(r, attached[c]) /\ Traced(r, lifecycle[c])
           /\ "recertified" \in F!Successors(r.stage) /\ r.level = certificates[c].level
           /\ r.due \in BOOLEAN /\ r.recurs \in BOOLEAN /\ r.decision \in F!Decisions \cup {Nothing} /\ r.revocations \in Nat
           /\ r.stage \in F!Stages
           /\ attached[c] \in SUBSET Observations
    BY Standing DEF F!Recertify
  <1>2. r.stage = "production-approved"
    BY <1>1, StageNames
  <1>3. PICK d : d = F!Decision(c, o)
    OBVIOUS
  <1>4. PICK e \in SUBSET Observations :
           /\ attached[c] \subseteq e /\ attached' = [attached EXCEPT ![c] = e]
           /\ d \in F!Decisions /\ d.evidence = e /\ d.passed = F!Eligible(r.level, e)
    BY <1>1, <1>3, AttachIs DEF F!Recertify
  <1>5. d # Nothing /\ d \in F!Decisions \cup {Nothing}
    BY <1>4, NothingIs
  <1>6. CASE d.passed
    <2>1. PICK x : x = "recertified"
      OBVIOUS
    <2>2. PICK p : p = [r EXCEPT !.status = x, !.decision = d, !.due = r.recurs]
      OBVIOUS
    <2>3. p = RecordOf(r, x, r.stage, r.recurs, d, r.revocations)
      BY <2>2, RecertifiedIs
    <2>4. F!Moved(c, x, p)
      BY <1>1, <1>3, <1>6, <2>1, <2>2 DEF F!Recertify
    <2>5. ASSUME NEW q, NEW l, Holds(q, r.level, x, x, d, r.revocations), l = lifecycle[c] \cup {x}
          PROVE  Earned(q, e) /\ Traced(q, l)
      <3>1. Earned(q, e)
        BY <1>4, <1>5, <1>6, <2>1, <2>5 DEF Earned, Holds
      <3>2. Traced(q, l)
        BY <1>1, <1>2, <2>1, <2>5 DEF Traced, Holds
      <3> QED
        BY <3>1, <3>2
    <2>6. x \in F!Stages /\ x \in F!Statuses
      BY <2>1, Names
    <2> QED
      BY <1>1, <1>4, <1>5, <2>3, <2>4, <2>5, <2>6, MoveKeeps
  <1>7. CASE ~d.passed
    <2>1. PICK x : x = "revoked"
      OBVIOUS
    <2>2. PICK p : p = [r EXCEPT !.status = x, !.decision = d, !.revocations = @ + 1]
      OBVIOUS
    <2>3. p = RecordOf(r, x, r.stage, r.due, d, r.revocations + 1)
      BY <2>2, RefusedIs
    <2>4. F!Moved(c, x, p)
      BY <1>1, <1>3, <1>7, <2>1, <2>2 DEF F!Recertify
    <2>5. ASSUME NEW q, NEW l, Holds(q, r.level, x, x, d, r.revocations + 1), l = lifecycle[c] \cup {x}
          PROVE  Earned(q, e) /\ Traced(q, l)
      <3>1. Earned(q, e)
        BY <1>4, <1>5, <2>1, <2>5 DEF Earned, Holds
      <3>2. Traced(q, l)
        BY <1>1, <1>2, <2>1, <2>5 DEF Traced, Holds
      <3> QED
        BY <3>1, <3>2
    <2>6. x \in F!Stages /\ x \in F!Statuses
      BY <2>1, Names
    <2>7. r.revocations + 1 \in Nat
      BY <1>1
    <2> QED
      BY <1>1, <1>4, <1>5, <2>3, <2>4, <2>5, <2>6, <2>7, MoveKeeps
  <1> QED
    BY <1>6, <1>7

\* What changes without a transition.
LEMMA StaysKeeps ==
  ASSUME CertificationsInv, F!CertificationAssumption, NEW c \in Certifications,
         NEW r \in F!CertificationRecord, r = certificates[c], NEW status \in F!Statuses,
         NEW decision \in F!Decisions \cup {Nothing},
         NEW p, p = RecordOf(r, status, r.stage, r.due, decision, r.revocations),
         certificates' = [certificates EXCEPT ![c] = p], lifecycle' = lifecycle,
         NEW e \in SUBSET Observations, attached' = [attached EXCEPT ![c] = e],
         \A q : Holds(q, r.level, status, r.stage, decision, r.revocations) => Earned(q, e) /\ Traced(q, lifecycle[c])
  PROVE  CertificationsInv'
  <1>1. r.due \in BOOLEAN /\ r.revocations \in Nat /\ r.stage \in F!Stages
    BY DEF F!CertificationRecord
  <1>2. p \in F!CertificationRecord /\ Holds(p, r.level, status, r.stage, decision, r.revocations)
    BY <1>1, RecordIs DEF Holds
  <1>3. p # Nothing
    BY <1>2, NothingIs
  <1>4. Stands(p, e, lifecycle[c])
    BY <1>2, <1>3 DEF Stands
  <1>5. lifecycle' = [lifecycle EXCEPT ![c] = lifecycle[c]] /\ lifecycle[c] \in SUBSET F!Stages
    BY DEF CertificationsInv
  <1> QED
    BY <1>4, <1>5, OneStands

LEMMA InterruptedKeeps ==
  ASSUME CertificationsInv, F!CertificationAssumption, NEW c \in Certifications, NEW o \in F!Collections, F!RecertifyInterrupted(c, o)
  PROVE  CertificationsInv'
  <1>1. PICK r \in F!CertificationRecord :
           /\ r = certificates[c] /\ r # Nothing /\ Earned(r, attached[c]) /\ Traced(r, lifecycle[c])
           /\ "recertified" \in F!Successors(r.stage) /\ r.level = certificates[c].level
           /\ r.due \in BOOLEAN /\ r.recurs \in BOOLEAN /\ r.decision \in F!Decisions \cup {Nothing} /\ r.revocations \in Nat
           /\ r.stage \in F!Stages
           /\ attached[c] \in SUBSET Observations
    BY Standing DEF F!RecertifyInterrupted
  <1>2. r.stage = "production-approved"
    BY <1>1, StageNames
  <1>3. PICK d : d = F!Decision(c, o)
    OBVIOUS
  <1>4. PICK e \in SUBSET Observations :
           /\ attached[c] \subseteq e /\ attached' = [attached EXCEPT ![c] = e]
           /\ d \in F!Decisions /\ d.evidence = e /\ d.passed = F!Eligible(r.level, e)
    BY <1>1, <1>3, AttachIs DEF F!RecertifyInterrupted
  <1>5. PICK p : p = [r EXCEPT !.decision = d]
    OBVIOUS
  <1>6. p = RecordOf(r, r.status, r.stage, r.due, d, r.revocations)
    BY <1>5 DEF RecordOf, F!CertificationRecord
  <1>7. certificates' = [certificates EXCEPT ![c] = p] /\ lifecycle' = lifecycle
    BY <1>1, <1>3, <1>5 DEF F!RecertifyInterrupted
  <1>8. ASSUME NEW q, Holds(q, r.level, r.status, r.stage, d, r.revocations)
        PROVE  Earned(q, e) /\ Traced(q, lifecycle[c])
    <2>1. Earned(q, e)
      BY <1>2, <1>4, <1>8 DEF Earned, Holds
    <2>2. Traced(q, lifecycle[c])
      BY <1>1, <1>8 DEF Traced, Holds
    <2> QED
      BY <2>1, <2>2
  <1>9. r.status \in F!Statuses /\ d \in F!Decisions \cup {Nothing}
    BY <1>4 DEF F!CertificationRecord
  <1> QED
    BY <1>1, <1>4, <1>6, <1>7, <1>8, <1>9, StaysKeeps

LEMMA ExpireKeeps ==
  ASSUME CertificationsInv, F!CertificationAssumption, NEW c \in Certifications, F!Expire(c)
  PROVE  CertificationsInv'
  <1>1. PICK r : r = certificates[c] /\ r # Nothing /\ r.stage \in {"certified", "production-approved", "recertified"}
    BY DEF F!Expire, F!Registered
  <1>2. r \in F!CertificationRecord /\ Earned(r, attached[c]) /\ Traced(r, lifecycle[c])
    BY <1>1 DEF CertificationsInv, Stands
  <1>3. PICK x : x = "expired"
    OBVIOUS
  <1>4. PICK p : p = [r EXCEPT !.status = x]
    OBVIOUS
  <1>5. p = RecordOf(r, x, r.stage, r.due, r.decision, r.revocations)
    BY <1>2, <1>4, StatusIs
  <1>6. certificates' = [certificates EXCEPT ![c] = p] /\ lifecycle' = lifecycle /\ attached' = attached
    BY <1>1, <1>3, <1>4 DEF F!Expire
  <1>7. attached' = [attached EXCEPT ![c] = attached[c]] /\ attached[c] \in SUBSET Observations
    BY <1>6 DEF CertificationsInv
  <1>8. ASSUME NEW q, Holds(q, r.level, x, r.stage, r.decision, r.revocations)
        PROVE  Earned(q, attached[c]) /\ Traced(q, lifecycle[c])
    <2>1. Earned(q, attached[c])
      BY <1>2, <1>8 DEF Earned, Holds
    <2>2. Traced(q, lifecycle[c])
      BY <1>1, <1>2, <1>3, <1>8 DEF Traced, Holds
    <2> QED
      BY <2>1, <2>2
  <1>9. x \in F!Statuses /\ r.decision \in F!Decisions \cup {Nothing}
    BY <1>2, <1>3, Names DEF F!CertificationRecord
  <1> QED
    BY <1>1, <1>2, <1>5, <1>6, <1>7, <1>8, <1>9, StaysKeeps

LEMMA UnevaluatedKeeps ==
  ASSUME CertificationsInv, F!CertificationAssumption, NEW c \in Certifications, NEW o \in F!Collections, F!Unevaluated(c, o)
  PROVE  CertificationsInv'
  <1>1. PICK e : e = attached[c] \cup o
    OBVIOUS
  <1>2. e \in SUBSET Observations /\ attached[c] \subseteq e /\ attached' = [attached EXCEPT ![c] = e]
    BY <1>1 DEF F!Unevaluated, F!Attach, CertificationsInv, F!Collections
  <1>3. UNCHANGED <<certificates, lifecycle>>
    BY DEF F!Unevaluated
  <1>4. certificates' = [certificates EXCEPT ![c] = certificates[c]] /\ lifecycle' = [lifecycle EXCEPT ![c] = lifecycle[c]]
        /\ lifecycle[c] \in SUBSET F!Stages
    BY <1>3 DEF CertificationsInv
  <1>5. Stands(certificates[c], attached[c], lifecycle[c])
    BY DEF CertificationsInv
  <1>6. Stands(certificates[c], e, lifecycle[c])
    BY <1>2, <1>5 DEF Stands, Earned
  <1> QED
    BY <1>2, <1>4, <1>6, OneStands

LEMMA StartKeeps ==
  ASSUME CertificationsInv, F!CertificationAssumption, NEW c \in Certifications, NEW h \in Hardware, NEW v \in Levels,
         NEW expires \in BOOLEAN, NEW recurs \in BOOLEAN, F!Start(c, h, v, expires, recurs)
  PROVE  CertificationsInv'
  <1>1. PICK q : q = [hardware |-> h, level |-> v, status |-> "pending", stage |-> "discovered", expires |-> expires,
                      recurs |-> recurs, due |-> FALSE, decision |-> Nothing, revocations |-> 0]
    OBVIOUS
  <1>2. q \in F!CertificationRecord
    BY <1>1 DEF F!CertificationRecord, F!Statuses, F!Stages
  <1>3. q.decision = Nothing /\ q.stage = "discovered" /\ q.status = "pending" /\ q.revocations = 0
    BY <1>1
  <1>4. PICK l : l = lifecycle[c] \cup {"discovered"}
    OBVIOUS
  <1>5. lifecycle[c] = {}
    BY DEF F!Start, CertificationsInv, Stands
  <1>6. Stands(q, attached[c], l)
    <2>1. Earned(q, attached[c])
      BY <1>3 DEF Earned
    <2>2. Traced(q, l)
      BY <1>3, <1>4, <1>5 DEF Traced
    <2> QED
      BY <1>2, <2>1, <2>2, NothingIs DEF Stands
  <1>7. certificates' = [certificates EXCEPT ![c] = q] /\ lifecycle' = [lifecycle EXCEPT ![c] = l] /\ attached' = attached
    BY <1>1, <1>4 DEF F!Start
  <1>8. attached' = [attached EXCEPT ![c] = attached[c]] /\ attached[c] \in SUBSET Observations
    BY <1>7 DEF CertificationsInv
  <1>9. l \in SUBSET F!Stages
    BY <1>4, <1>5 DEF F!Stages
  <1> QED
    BY <1>6, <1>7, <1>8, <1>9, OneStands

LEMMA CertificationsKeep ==
  ASSUME CertificationsInv, F!CertificationAssumption, F!Next
  PROVE  CertificationsInv'
  <1>1. CASE UNCHANGED <<certificates, attached, lifecycle>>
    BY <1>1 DEF CertificationsInv, Stands, Earned, Traced
  <1>2. ASSUME NEW c \in Certifications, NEW h \in Hardware, NEW v \in Levels, NEW expires \in BOOLEAN, NEW recurs \in BOOLEAN,
               F!Start(c, h, v, expires, recurs)
        PROVE  CertificationsInv'
    BY <1>2, StartKeeps
  <1>3. ASSUME NEW c \in Certifications, NEW o \in F!Collections,
               F!Evaluate(c, o) \/ F!Unevaluated(c, o) \/ F!Recertify(c, o) \/ F!RecertifyInterrupted(c, o)
        PROVE  CertificationsInv'
    BY <1>3, EvaluateKeeps, UnevaluatedKeeps, RecertifyKeeps, InterruptedKeeps
  <1>4. ASSUME NEW c \in Certifications,
               F!Qualify(c) \/ F!Certify(c) \/ F!ApproveProduction(c) \/ F!Revoke(c) \/ F!Expire(c)
        PROVE  CertificationsInv'
    BY <1>4, QualifyKeeps, CertifyKeeps, ApproveProductionKeeps, RevokeKeeps, ExpireKeeps
  <1>5. CASE \E h \in Hardware, o \in F!Collections : F!RefreshTrust(h, o)
    BY <1>1, <1>5 DEF F!RefreshTrust
  <1>6. CASE \E l \in Levels : F!RemovePolicy(l) \/ F!RegisterPolicy(l)
    BY <1>1, <1>6 DEF F!RemovePolicy, F!RegisterPolicy
  <1> QED
    BY <1>2, <1>3, <1>4, <1>5, <1>6 DEF F!Next

LEMMA CertificationsTell ==
  ASSUME CertificationsInv
  PROVE  F!StandingIsEarned /\ F!RevokedStays
  <1>1. \A c \in F!Registered : Earned(certificates[c], attached[c]) /\ Traced(certificates[c], lifecycle[c])
    BY DEF CertificationsInv, Stands, F!Registered
  <1>2. F!StandingIsEarned
    BY <1>1 DEF F!StandingIsEarned, Earned, Traced
  <1>3. F!RevokedStays
    BY <1>1 DEF F!RevokedStays, Traced
  <1> QED
    BY <1>2, <1>3

-----------------------------------------------------------------------------
(* Sums over a finite set.  The library folds one by an element of what is     *)
(* left of the set, whichever it is.                                           *)

Some(s) == CHOOSE x \in s : TRUE
Adding(h, f, s) == IF s = {} THEN 0 ELSE h[Some(s)] + f[s \ {Some(s)}]
Layer(S, n) == {s \in SUBSET S : Cardinality(s) <= n}
SumsUpTo(h, S, f, n) == f = [s \in Layer(S, n) |-> Adding(h, f, s)]
Sums(h, S, f) == f = [s \in SUBSET S |-> Adding(h, f, s)]

LEMMA SomeOf ==
  ASSUME NEW S, IsFiniteSet(S), NEW s \in SUBSET S, s # {}
  PROVE  /\ Some(s) \in s /\ Some(s) \notin s \ {Some(s)} /\ s \ {Some(s)} \in SUBSET S
         /\ Cardinality(s) \in Nat \ {0} /\ Cardinality(s \ {Some(s)}) = Cardinality(s) - 1
  <1>1. Some(s) \in s
    BY DEF Some
  <1>2. IsFiniteSet(s)
    BY FS_Subset
  <1>3. Cardinality(s) \in Nat /\ Cardinality(s) # 0
    BY <1>1, <1>2, FS_CardinalityType, FS_EmptySet
  <1>4. Cardinality(s \ {Some(s)}) = Cardinality(s) - 1
    BY <1>1, <1>2, FS_RemoveElement
  <1> QED
    BY <1>1, <1>3, <1>4

LEMMA SizeOf ==
  ASSUME NEW S, IsFiniteSet(S), NEW s \in SUBSET S
  PROVE  Cardinality(s) \in Nat
  BY FS_Subset, FS_CardinalityType

LEMMA SumsExist ==
  ASSUME NEW h, NEW S, IsFiniteSet(S)
  PROVE  \E f : Sums(h, S, f)
  <1>1. Layer(S, 0) = {{}}
    <2>1. ASSUME NEW s \in Layer(S, 0), s # {} PROVE FALSE
      <3>1. s \in SUBSET S /\ Cardinality(s) <= 0
        BY DEF Layer
      <3>2. Cardinality(s) \in Nat \ {0}
        BY <2>1, <3>1, SomeOf
      <3> QED
        BY <3>1, <3>2
    <2>2. {} \in Layer(S, 0)
      BY FS_EmptySet DEF Layer
    <2> QED
      BY <2>1, <2>2
  <1>2. SumsUpTo(h, S, [s \in Layer(S, 0) |-> 0], 0)
    BY <1>1 DEF SumsUpTo, Adding
  <1>3. ASSUME NEW n \in Nat \ {0}, NEW f, SumsUpTo(h, S, f, n - 1)
        PROVE  \E e : SumsUpTo(h, S, e, n)
    <2> DEFINE e == [s \in Layer(S, n) |-> IF s \in Layer(S, n - 1) THEN f[s] ELSE Adding(h, f, s)]
    <2>1. \A s \in Layer(S, n) : e[s] = IF s \in Layer(S, n - 1) THEN f[s] ELSE Adding(h, f, s)
      OBVIOUS
    <2>2. e = [s \in Layer(S, n) |-> e[s]]
      OBVIOUS
    <2> HIDE DEF e
    <2>3. \A s \in Layer(S, n - 1) : f[s] = Adding(h, f, s) /\ s \in Layer(S, n)
      <3>1. \A s \in Layer(S, n - 1) : f[s] = Adding(h, f, s)
        BY <1>3 DEF SumsUpTo
      <3>2. \A s \in Layer(S, n - 1) : s \in Layer(S, n)
        BY SizeOf DEF Layer
      <3> QED
        BY <3>1, <3>2
    <2>4. ASSUME NEW s \in Layer(S, n)
          PROVE  e[s] = Adding(h, e, s)
      <3>1. CASE s = {}
        <4>1. s \in Layer(S, n - 1)
          BY <3>1, FS_EmptySet DEF Layer
        <4> QED
          BY <2>1, <2>3, <3>1, <4>1 DEF Adding
      <3>2. CASE s # {}
        <4>1. s \ {Some(s)} \in Layer(S, n - 1)
          BY <3>2, SomeOf DEF Layer
        <4>2. e[s \ {Some(s)}] = f[s \ {Some(s)}]
          BY <2>1, <2>3, <4>1
        <4>3. e[s] = Adding(h, f, s)
          BY <2>1, <2>3
        <4> QED
          BY <4>2, <4>3 DEF Adding
      <3> QED
        BY <3>1, <3>2
    <2>5. e = [s \in Layer(S, n) |-> Adding(h, e, s)]
      BY <2>2, <2>4, Zenon
    <2> QED
      BY <2>5 DEF SumsUpTo
  <1> DEFINE Wrong == {n \in Nat : ~\E f : SumsUpTo(h, S, f, n)}
  <1>4. Wrong = {}
    <2>1. SUFFICES ASSUME Wrong # {} PROVE FALSE
      OBVIOUS
    <2>2. PICK m \in Wrong : \A n \in Wrong : m <= n
      BY <2>1, Least
    <2>3. m # 0
      BY <1>2, <2>2
    <2>4. m - 1 \in Nat /\ m - 1 \notin Wrong
      BY <2>2, <2>3
    <2> QED
      BY <1>3, <2>2, <2>3, <2>4
  <1>5. Cardinality(S) \in Nat /\ Layer(S, Cardinality(S)) = SUBSET S
    <2>1. Cardinality(S) \in Nat
      BY FS_CardinalityType
    <2>2. \A s \in SUBSET S : Cardinality(s) <= Cardinality(S)
      BY FS_Subset
    <2> QED
      BY <2>1, <2>2 DEF Layer
  <1>6. PICK f : SumsUpTo(h, S, f, Cardinality(S))
    BY <1>4, <1>5
  <1> QED
    BY <1>5, <1>6 DEF SumsUpTo, Sums

LEMMA Grow ==
  ASSUME NEW a \in Int, NEW b \in Int, NEW n \in Nat, a <= b
  PROVE  n * a <= n * b
  OBVIOUS

\* Such a sum is between the size times its least term and the size times its greatest, and none of
\* its terms exceeds it where none is negative.
Spans(h, s, x) ==
  /\ x \in Int
  /\ \E j \in s : Cardinality(s) * h[j] <= x
  /\ \E k \in s : x <= Cardinality(s) * h[k]
  /\ (\A j \in s : h[j] >= 0) => \A j \in s : h[j] <= x

LEMMA SpansOne ==
  ASSUME NEW h, NEW s, NEW x, s = {x}, h[x] \in Int
  PROVE  Spans(h, s, h[x])
  <1>1. Cardinality(s) = 1
    BY FS_Singleton
  <1> QED
    BY <1>1 DEF Spans

LEMMA SpansMore ==
  ASSUME NEW h, NEW s, NEW x, NEW t, x \notin t, s = t \cup {x}, \A j \in s : h[j] \in Int,
         Cardinality(t) \in Nat, Cardinality(s) = Cardinality(t) + 1, NEW y, Spans(h, t, y)
  PROVE  Spans(h, s, h[x] + y)
  <1> PICK n \in Nat : n = Cardinality(t)
    OBVIOUS
  <1> PICK b \in Int : b = h[x]
    OBVIOUS
  <1>1. y \in Int /\ b + y \in Int
    BY DEF Spans
  <1>2. \E j \in s : (n + 1) * h[j] <= b + y
    <2>1. PICK j \in t : n * h[j] <= y
      BY DEF Spans
    <2>2. PICK a \in Int : a = h[j]
      OBVIOUS
    <2>3. CASE a <= b
      <3>1. (n + 1) * a = n * a + a
        BY <2>2
      <3> QED
        BY <1>1, <2>1, <2>2, <2>3, <3>1
    <2>4. CASE b <= a
      <3>1. (n + 1) * b = n * b + b /\ n * b \in Int /\ n * a \in Int
        BY <2>2
      <3>2. n * b <= n * a
        BY <2>2, <2>4, Grow
      <3> QED
        BY <1>1, <2>1, <2>2, <3>1, <3>2
    <2> QED
      BY <2>2, <2>3, <2>4
  <1>3. \E k \in s : b + y <= (n + 1) * h[k]
    <2>1. PICK k \in t : y <= n * h[k]
      BY DEF Spans
    <2>2. PICK a \in Int : a = h[k]
      OBVIOUS
    <2>3. CASE b <= a
      <3>1. (n + 1) * a = n * a + a
        BY <2>2
      <3> QED
        BY <1>1, <2>1, <2>2, <2>3, <3>1
    <2>4. CASE a <= b
      <3>1. (n + 1) * b = n * b + b /\ n * b \in Int /\ n * a \in Int
        BY <2>2
      <3>2. n * a <= n * b
        BY <2>2, <2>4, Grow
      <3> QED
        BY <1>1, <2>1, <2>2, <3>1, <3>2
    <2> QED
      BY <2>2, <2>3, <2>4
  <1>4. ASSUME \A j \in s : h[j] >= 0
        PROVE  \A j \in s : h[j] <= b + y
    <2>1. \A j \in t : h[j] <= y
      BY <1>4 DEF Spans
    <2>2. y >= 0
      <3>1. PICK j \in t : TRUE
        BY DEF Spans
      <3> QED
        BY <1>1, <1>4, <2>1, <3>1
    <2> QED
      BY <1>1, <1>4, <2>1, <2>2
  <1> QED
    BY <1>1, <1>2, <1>3, <1>4 DEF Spans

LEMMA SumsSpan ==
  ASSUME NEW h, NEW S, IsFiniteSet(S), \A j \in S : h[j] \in Int, NEW f, Sums(h, S, f), NEW s \in SUBSET S, s # {}
  PROVE  Spans(h, s, f[s])
  <1> DEFINE Wrong == {n \in Nat : \E r \in SUBSET S : r # {} /\ Cardinality(r) = n /\ ~Spans(h, r, f[r])}
  <1>1. Wrong = {}
    <2>1. SUFFICES ASSUME Wrong # {} PROVE FALSE
      OBVIOUS
    <2>2. PICK m \in Wrong : \A n \in Wrong : m <= n
      BY <2>1, Least
    <2>3. PICK r \in SUBSET S : r # {} /\ Cardinality(r) = m /\ ~Spans(h, r, f[r])
      BY <2>2
    <2>4. PICK x, t : x = Some(r) /\ t = r \ {Some(r)}
      OBVIOUS
    <2>5. /\ x \in r /\ x \notin t /\ r = t \cup {x} /\ t \in SUBSET S /\ m \in Nat \ {0} /\ Cardinality(t) = m - 1
      BY <2>3, <2>4, SomeOf
    <2>6. f[r] = h[x] + f[t]
      BY <2>3, <2>4 DEF Sums, Adding
    <2>7. CASE t = {}
      <3>1. f[t] = 0 /\ r = {x}
        BY <2>5, <2>7 DEF Sums, Adding
      <3>2. f[r] = h[x] /\ h[x] \in Int
        BY <2>5, <2>6, <3>1
      <3> QED
        BY <2>3, <3>1, <3>2, SpansOne
    <2>8. CASE t # {}
      <3>1. m - 1 \notin Wrong /\ m - 1 \in Nat
        BY <2>2, <2>5
      <3>2. Spans(h, t, f[t])
        BY <2>5, <2>8, <3>1
      <3>3. \A j \in r : h[j] \in Int
        OBVIOUS
      <3>4. Cardinality(t) \in Nat /\ Cardinality(r) = Cardinality(t) + 1
        BY <2>3, <2>5
      <3>5. Spans(h, r, h[x] + f[t])
        BY <2>5, <3>2, <3>3, <3>4, SpansMore
      <3> QED
        BY <2>3, <2>6, <3>5
    <2> QED
      BY <2>7, <2>8
  <1>2. Cardinality(s) \in Nat
    BY SizeOf
  <1> QED
    BY <1>1, <1>2

LEMMA TotalSpans ==
  ASSUME NEW h, IsFiniteSet(DOMAIN h), DOMAIN h # {}, \A j \in DOMAIN h : h[j] \in Int
  PROVE  Spans(h, DOMAIN h, H!Total(h))
  <1> DEFINE Solves(f) == f = [s \in SUBSET (DOMAIN h) |-> IF s = {} THEN 0 ELSE h[CHOOSE x \in s : TRUE] + f[s \ {CHOOSE x \in s : TRUE}]]
             iter == CHOOSE f : Solves(f)
  <1>1. H!Total(h) = iter[DOMAIN h]
    BY DEF H!Total, H!FoldFunctionOnSet, H!MapThenFoldSet
  <1>2. \A f : Solves(f) <=> Sums(h, DOMAIN h, f)
    BY DEF Sums, Adding, Some
  <1> HIDE DEF Solves
  <1>3. Solves(iter)
    BY <1>2, SumsExist
  <1> HIDE DEF iter
  <1>4. Sums(h, DOMAIN h, iter)
    BY <1>2, <1>3
  <1> QED
    BY <1>1, <1>4, SumsSpan

-----------------------------------------------------------------------------
(* Health.  A profile's history and the audit trail's entry for it grow        *)
(* together, wherever an assessment or a refresh ends.                         *)

IsObservation(o) ==
  /\ o.of \in Identities /\ o.at \in Nat
  /\ \A part \in DOMAIN o.scores : o.scores[part] \in Int
Weighed == weights \in [H!Parts -> Nat] /\ \E part \in H!Parts : weights[part] > 0

Entries == [at : Nat, overall : Int]
IsProfile(p, trail) ==
  /\ p \in H!HealthProfile /\ p.status = H!StatusFor(p.overall)
  /\ Len(p.history) > 0 /\ p.overall = p.history[Len(p.history)].overall
  /\ trail = [i \in DOMAIN p.history |-> p.history[i].overall]
Filed(ps, trails) ==
  /\ trails \in Seq(Seq(Int)) /\ ps = [k \in Identities |-> ps[k]]
  /\ \A k \in Identities : ps[k] # Nothing => ps[k].id \in 1..Len(trails) /\ IsProfile(ps[k], trails[ps[k].id])
  /\ \A j, k \in Identities : ps[j] # Nothing /\ ps[k] # Nothing /\ ps[j].id = ps[k].id => j = k

HealthInv == Weighed /\ Filed(profiles, assessments)

LEMMA WeightsAre ==
  ASSUME H!HealthAssumption, NEW w \in Weightings \cup {DefaultWeights}
  PROVE  w \in [H!Parts -> Nat] /\ \E part \in H!Parts : w[part] > 0
  BY DEF H!HealthAssumption

LEMMA BatchesAre ==
  ASSUME H!HealthAssumption, NEW b \in Batches
  PROVE  Len(b) \in Nat /\ DOMAIN b = 1..Len(b) /\ \A i \in 1..Len(b) : IsObservation(b[i])
  <1>1. b \in Seq(H!Range(b))
    BY DEF H!HealthAssumption
  <1>2. Len(b) \in Nat /\ DOMAIN b = 1..Len(b)
    BY <1>1, LenProperties
  <1>3. ASSUME NEW i \in 1..Len(b)
        PROVE  IsObservation(b[i])
    <2>1. PICK o : o = b[i]
      OBVIOUS
    <2>2. o \in H!Range(b)
      BY <1>2, <2>1 DEF H!Range
    <2>3. o.of \in Identities /\ o.at \in Nat /\ H!Range(o.scores) \subseteq Int
      BY <2>2 DEF H!HealthAssumption
    <2>4. \A part \in DOMAIN o.scores : o.scores[part] \in Int
      BY <2>3 DEF H!Range
    <2> QED
      BY <2>1, <2>3, <2>4 DEF IsObservation
  <1> QED
    BY <1>2, <1>3

LEMMA HealthStarts ==
  ASSUME H!HealthAssumption, H!Init
  PROVE  HealthInv
  <1>1. weights = DefaultWeights /\ assessments = <<>> /\ profiles = [k \in Identities |-> Nothing]
    BY DEF H!Init
  <1>2. Weighed
    BY <1>1, WeightsAre DEF Weighed
  <1> QED
    BY <1>1, <1>2 DEF HealthInv, Filed

LEMMA PartsFinite == IsFiniteSet(H!Parts) /\ H!Parts # {}
  <1>1. IsFiniteSet({"reliability"})
    BY FS_Singleton
  <1>2. IsFiniteSet({"reliability"} \cup {"stability"})
    BY <1>1, FS_AddElement
  <1>3. IsFiniteSet(({"reliability"} \cup {"stability"}) \cup {"performance"})
    BY <1>2, FS_AddElement
  <1>4. IsFiniteSet((({"reliability"} \cup {"stability"}) \cup {"performance"}) \cup {"availability"})
    BY <1>3, FS_AddElement
  <1>5. H!Parts = (({"reliability"} \cup {"stability"}) \cup {"performance"}) \cup {"availability"}
    BY DEF H!Parts
  <1> QED
    BY <1>4, <1>5

LEMMA Quotient ==
  ASSUME NEW a \in Int, NEW n \in Nat, n > 0
  PROVE  a \div n \in Int /\ n * (a \div n) <= a /\ a < n * (a \div n) + n
  OBVIOUS

LEMMA OverallIs ==
  ASSUME H!HealthAssumption, Weighed, NEW o, IsObservation(o)
  PROVE  H!Overall(o.scores, weights) \in Int
  <1>1. \A part : H!Score(o.scores, part) \in Int
    BY DEF H!Score, IsObservation
  <1>2. PICK h : h = [part \in H!Parts |-> weights[part] * H!Score(o.scores, part)]
    OBVIOUS
  <1>3. DOMAIN h = H!Parts /\ \A part \in H!Parts : h[part] \in Int
    BY <1>1, <1>2 DEF Weighed
  <1>4. H!Total(h) \in Int
    BY <1>3, PartsFinite, TotalSpans DEF Spans
  <1>5. H!Total(weights) \in Int /\ H!Total(weights) > 0
    <2>1. DOMAIN weights = H!Parts /\ \A part \in H!Parts : weights[part] \in Int /\ weights[part] >= 0
      BY DEF Weighed
    <2>2. Spans(weights, H!Parts, H!Total(weights))
      BY <2>1, PartsFinite, TotalSpans
    <2>3. PICK part \in H!Parts : weights[part] > 0
      BY DEF Weighed
    <2>4. weights[part] <= H!Total(weights) /\ H!Total(weights) \in Int
      BY <2>1, <2>2 DEF Spans
    <2> QED
      BY <2>1, <2>3, <2>4
  <1>6. H!Overall(o.scores, weights) = (100 * H!Total(h)) \div H!Total(weights)
    BY <1>2 DEF H!Overall
  <1>7. 100 * H!Total(h) \in Int /\ H!Total(weights) \in Nat
    BY <1>4, <1>5
  <1> QED
    BY <1>5, <1>6, <1>7, Quotient

\* The first and the last observation of a history exist.
LEMMA InOrder ==
  ASSUME NEW h \in Seq(Entries), NEW i \in DOMAIN h, NEW j \in DOMAIN h
  PROVE  /\ H!NoLater(h, i, j) \/ H!NoLater(h, j, i)
         /\ H!NoLater(h, i, j) => h[i].at <= h[j].at
         /\ H!NoLater(h, i, i)
         /\ \A k \in DOMAIN h : H!NoLater(h, i, j) /\ H!NoLater(h, j, k) => H!NoLater(h, i, k)
  <1>1. \A k \in DOMAIN h : h[k] \in Entries /\ k \in Int
    OBVIOUS
  <1>2. \A k \in DOMAIN h : h[k].at \in Nat
    BY <1>1 DEF Entries
  <1> QED
    BY <1>1, <1>2 DEF H!NoLater

LEMMA FirstExists ==
  ASSUME NEW h \in Seq(Entries), Len(h) > 0
  PROVE  \E i \in DOMAIN h : \A j \in DOMAIN h : H!NoLater(h, i, j)
  <1> PICK size \in Nat : size = Len(h) /\ size > 0
    OBVIOUS
  <1>1. DOMAIN h = 1..size
    OBVIOUS
  <1> DEFINE Found(n) == \E i \in 1..n : \A j \in 1..n : H!NoLater(h, i, j)
             Wrong == {n \in 1..size : ~Found(n)}
  <1>2. Found(1)
    <2>1. 1 \in DOMAIN h /\ \A j \in 1..1 : j = 1
      BY <1>1
    <2>2. H!NoLater(h, 1, 1)
      BY <2>1, InOrder
    <2> QED
      BY <2>1, <2>2
  <1>3. ASSUME NEW n \in 1..size, n + 1 \in 1..size, Found(n)
        PROVE  Found(n + 1)
    <2>1. PICK i \in 1..n : \A j \in 1..n : H!NoLater(h, i, j)
      BY <1>3
    <2>2. PICK m : m = n + 1
      OBVIOUS
    <2>3. i \in DOMAIN h /\ m \in DOMAIN h /\ i \in 1..m /\ m \in 1..m
      BY <1>1, <1>3, <2>1, <2>2
    <2>4. \A j \in 1..m : j \in DOMAIN h /\ (j \in 1..n \/ j = m)
      BY <1>1, <1>3, <2>2
    <2>5. CASE H!NoLater(h, i, m)
      <3>1. \A j \in 1..m : H!NoLater(h, i, j)
        BY <2>1, <2>4, <2>5
      <3> QED
        BY <2>2, <2>3, <3>1
    <2>6. CASE H!NoLater(h, m, i)
      <3>1. ASSUME NEW j \in 1..m
            PROVE  H!NoLater(h, m, j)
        <4>1. j \in DOMAIN h /\ (j \in 1..n \/ j = m)
          BY <2>4
        <4>2. CASE j = m
          BY <2>3, <4>2, InOrder
        <4>3. CASE j \in 1..n
          <5>1. H!NoLater(h, i, j)
            BY <2>1, <4>3
          <5> QED
            BY <2>3, <2>6, <4>1, <5>1, InOrder
        <4> QED
          BY <4>1, <4>2, <4>3
      <3> QED
        BY <2>2, <2>3, <3>1
    <2>7. H!NoLater(h, i, m) \/ H!NoLater(h, m, i)
      BY <2>3, InOrder
    <2> QED
      BY <2>5, <2>6, <2>7
  <1> HIDE DEF Found
  <1>4. Wrong = {}
    <2>1. SUFFICES ASSUME Wrong # {} PROVE FALSE
      OBVIOUS
    <2>2. Wrong \in SUBSET Nat
      OBVIOUS
    <2>3. PICK m \in Wrong : \A n \in Wrong : m <= n
      BY <2>1, <2>2, Least
    <2>4. m # 1 /\ m \in 1..size
      BY <1>2, <2>3
    <2>5. PICK n : n = m - 1
      OBVIOUS
    <2>6. n \in 1..size /\ n + 1 \in 1..size /\ n + 1 = m /\ n \notin Wrong
      BY <2>3, <2>4, <2>5
    <2> QED
      BY <1>3, <2>3, <2>6
  <1>5. size \in 1..size
    OBVIOUS
  <1>6. Found(size)
    BY <1>4, <1>5
  <1> QED
    BY <1>1, <1>6 DEF Found

LEMMA LastExists ==
  ASSUME NEW h \in Seq(Entries), Len(h) > 0
  PROVE  \E i \in DOMAIN h : \A j \in DOMAIN h : H!NoLater(h, j, i)
  <1> PICK size \in Nat : size = Len(h) /\ size > 0
    OBVIOUS
  <1>1. DOMAIN h = 1..size
    OBVIOUS
  <1> DEFINE Found(n) == \E i \in 1..n : \A j \in 1..n : H!NoLater(h, j, i)
             Wrong == {n \in 1..size : ~Found(n)}
  <1>2. Found(1)
    <2>1. 1 \in DOMAIN h /\ \A j \in 1..1 : j = 1
      BY <1>1
    <2>2. H!NoLater(h, 1, 1)
      BY <2>1, InOrder
    <2> QED
      BY <2>1, <2>2
  <1>3. ASSUME NEW n \in 1..size, n + 1 \in 1..size, Found(n)
        PROVE  Found(n + 1)
    <2>1. PICK i \in 1..n : \A j \in 1..n : H!NoLater(h, j, i)
      BY <1>3
    <2>2. PICK m : m = n + 1
      OBVIOUS
    <2>3. i \in DOMAIN h /\ m \in DOMAIN h /\ i \in 1..m /\ m \in 1..m
      BY <1>1, <1>3, <2>1, <2>2
    <2>4. \A j \in 1..m : j \in DOMAIN h /\ (j \in 1..n \/ j = m)
      BY <1>1, <1>3, <2>2
    <2>5. CASE H!NoLater(h, m, i)
      <3>1. \A j \in 1..m : H!NoLater(h, j, i)
        BY <2>1, <2>4, <2>5
      <3> QED
        BY <2>2, <2>3, <3>1
    <2>6. CASE H!NoLater(h, i, m)
      <3>1. ASSUME NEW j \in 1..m
            PROVE  H!NoLater(h, j, m)
        <4>1. j \in DOMAIN h /\ (j \in 1..n \/ j = m)
          BY <2>4
        <4>2. CASE j = m
          BY <2>3, <4>2, InOrder
        <4>3. CASE j \in 1..n
          <5>1. H!NoLater(h, j, i)
            BY <2>1, <4>3
          <5> QED
            BY <2>3, <2>6, <4>1, <5>1, InOrder
        <4> QED
          BY <4>1, <4>2, <4>3
      <3> QED
        BY <2>2, <2>3, <3>1
    <2>7. H!NoLater(h, m, i) \/ H!NoLater(h, i, m)
      BY <2>3, InOrder
    <2> QED
      BY <2>5, <2>6, <2>7
  <1> HIDE DEF Found
  <1>4. Wrong = {}
    <2>1. SUFFICES ASSUME Wrong # {} PROVE FALSE
      OBVIOUS
    <2>2. Wrong \in SUBSET Nat
      OBVIOUS
    <2>3. PICK m \in Wrong : \A n \in Wrong : m <= n
      BY <2>1, <2>2, Least
    <2>4. m # 1 /\ m \in 1..size
      BY <1>2, <2>3
    <2>5. PICK n : n = m - 1
      OBVIOUS
    <2>6. n \in 1..size /\ n + 1 \in 1..size /\ n + 1 = m /\ n \notin Wrong
      BY <2>3, <2>4, <2>5
    <2> QED
      BY <1>3, <2>3, <2>6
  <1>5. size \in 1..size
    OBVIOUS
  <1>6. Found(size)
    BY <1>4, <1>5
  <1> QED
    BY <1>1, <1>6 DEF Found

\* A failure is predicted on grounds.
LEMMA ForecastTells ==
  ASSUME NEW p, NEW trail, IsProfile(p, trail), H!ExpectedFailure(p)
  PROVE  /\ p.status # "healthy"
         /\ p.status = "critical" \/ \E e, f \in H!Range(p.history) : e.at <= f.at /\ f.overall < e.overall
  <1>1. PICK h : h = p.history
    OBVIOUS
  <1>2. h \in Seq(Entries) /\ Len(h) > 0 /\ Len(h) \in Nat /\ p.overall \in Int /\ p.status = H!StatusFor(p.overall)
    BY <1>1 DEF IsProfile, H!HealthProfile, Entries
  <1>3. CASE p.status = "critical"
    BY <1>3
  <1>4. CASE H!Trend(p) = "degrading" /\ p.overall <= 6000
    <2>1. p.status # "healthy"
      BY <1>2, <1>4 DEF H!StatusFor
    <2>2. PICK i \in DOMAIN h : H!Earliest(h) = h[i] /\ \A j \in DOMAIN h : H!NoLater(h, i, j)
      BY <1>2, FirstExists DEF H!Earliest
    <2>3. PICK k \in DOMAIN h : H!Latest(h) = h[k] /\ \A j \in DOMAIN h : H!NoLater(h, j, k)
      BY <1>2, LastExists DEF H!Latest
    <2>4. h[i] \in Entries /\ h[k] \in Entries /\ h[i].at <= h[k].at
      BY <1>2, <2>2, <2>3, InOrder
    <2>5. h[i] \in H!Range(h) /\ h[k] \in H!Range(h)
      BY <2>2, <2>3 DEF H!Range
    <2>6. Len(h) >= 2 /\ h[k].overall - h[i].overall <= -200 * (Len(h) - 1)
      BY <1>1, <1>2, <1>4, <2>2, <2>3 DEF H!Trend
    <2>7. h[k].overall \in Int /\ h[i].overall \in Int
      BY <2>4 DEF Entries
    <2>8. h[k].overall < h[i].overall
      BY <1>2, <2>6, <2>7
    <2> QED
      BY <1>1, <2>1, <2>4, <2>5, <2>8
  <1> QED
    BY <1>3, <1>4 DEF H!ExpectedFailure

LEMMA Mean ==
  ASSUME NEW a \in Int, NEW b \in Int, NEW c \in Int, NEW n \in Nat, n > 0, n * a <= c, c <= n * b
  PROVE  a <= c \div n /\ c \div n <= b
  <1> PICK q : q = c \div n
    OBVIOUS
  <1>1. q \in Int /\ n * q <= c /\ c < n * q + n
    BY Quotient
  <1>2. ~(q < a)
    <2> SUFFICES ASSUME q + 1 <= a PROVE FALSE
      BY <1>1
    <2>1. n * (q + 1) <= n * a
      BY <1>1, Grow
    <2> QED
      BY <1>1, <2>1
  <1>3. ~(b < q)
    <2> SUFFICES ASSUME b + 1 <= q PROVE FALSE
      BY <1>1
    <2>1. n * (b + 1) <= n * q
      BY <1>1, Grow
    <2> QED
      BY <1>1, <2>1
  <1> QED
    BY <1>1, <1>2, <1>3

LEMMA HealthTells ==
  ASSUME H!HealthAssumption, HealthInv
  PROVE  H!AuditIsHistory /\ H!ForecastIsGrounded
  <1>1. ASSUME NEW k \in H!Profiled
        PROVE  /\ k \in Identities /\ profiles[k] # Nothing /\ profiles[k].id \in 1..Len(assessments)
               /\ IsProfile(profiles[k], assessments[profiles[k].id])
    BY DEF H!Profiled, HealthInv, Filed
  <1>2. H!AuditIsHistory
    <2>1. ASSUME NEW k \in H!Profiled
          PROVE  LET p == profiles[k] IN
                 /\ p.id \in DOMAIN assessments
                 /\ assessments[p.id] = [i \in DOMAIN p.history |-> p.history[i].overall]
                 /\ p.overall = H!Last(assessments[p.id])
      <3>1. PICK p, t : p = profiles[k] /\ t = assessments[p.id]
        OBVIOUS
      <3>2. IsProfile(p, t) /\ p.id \in 1..Len(assessments)
        BY <1>1, <3>1
      <3>3. p.id \in DOMAIN assessments
        BY <3>2 DEF HealthInv, Filed
      <3>4. p.history \in Seq(Entries)
        BY <3>2 DEF IsProfile, H!HealthProfile, Entries
      <3>5. t = [i \in 1..Len(p.history) |-> p.history[i].overall] /\ Len(p.history) \in Nat
        BY <3>2, <3>4 DEF IsProfile
      <3>6. Len(t) = Len(p.history)
        BY <3>5
      <3>7. p.overall = t[Len(t)]
        BY <3>2, <3>5, <3>6 DEF IsProfile
      <3> QED
        BY <3>1, <3>2, <3>3, <3>7 DEF IsProfile, H!Last
    <2>2. \A j, k \in H!Profiled : profiles[j].id = profiles[k].id => j = k
      BY DEF H!Profiled, HealthInv, Filed
    <2> QED
      BY <2>1, <2>2 DEF H!AuditIsHistory
  <1>3. H!ForecastIsGrounded
    <2>1. \A k \in H!Profiled : H!ExpectedFailure(profiles[k]) =>
            /\ profiles[k].status # "healthy"
            /\ profiles[k].status = "critical" \/ \E e, f \in H!Range(profiles[k].history) : e.at <= f.at /\ f.overall < e.overall
      BY <1>1, ForecastTells
    <2>2. ASSUME H!Profiled # {}
          PROVE  \E j, k \in H!Profiled :
                   profiles[j].overall <= H!Institutional.overall /\ H!Institutional.overall <= profiles[k].overall
      <3>1. PICK h : h = [k \in H!Profiled |-> profiles[k].overall]
        OBVIOUS
      <3>2. DOMAIN h = H!Profiled /\ \A k \in H!Profiled : h[k] \in Int /\ h[k] = profiles[k].overall
        BY <1>1, <3>1 DEF IsProfile, H!HealthProfile
      <3>3. IsFiniteSet(H!Profiled)
        <4>1. IsFiniteSet(Identities)
          BY SMT DEF H!HealthAssumption, H!IsFiniteSet, IsFiniteSet
        <4>2. H!Profiled \in SUBSET Identities
          BY DEF H!Profiled
        <4> QED
          BY <4>1, <4>2, FS_Subset
      <3>4. PICK n \in Nat : n = Cardinality(H!Profiled) /\ n > 0
        BY <2>2, <3>3, FS_CardinalityType, FS_EmptySet
      <3>5. Spans(h, H!Profiled, H!Total(h))
        BY <2>2, <3>2, <3>3, TotalSpans
      <3>6. PICK j \in H!Profiled : n * h[j] <= H!Total(h)
        BY <3>4, <3>5 DEF Spans
      <3>7. PICK k \in H!Profiled : H!Total(h) <= n * h[k]
        BY <3>4, <3>5 DEF Spans
      <3>8. H!Total(h) \in Int
        BY <3>5 DEF Spans
      <3>9. h[j] <= H!Total(h) \div n /\ H!Total(h) \div n <= h[k]
        BY <3>2, <3>4, <3>6, <3>7, <3>8, Mean
      <3>10. H!Cardinality(H!Profiled) = n
        <4>1. \A X : H!Cardinality(X) = Cardinality(X)
          BY Zenon DEF H!Cardinality, Cardinality
        <4> QED
          BY <3>4, <4>1
      <3>11. H!Institutional.overall = H!Total(h) \div n
        BY <3>1, <3>10 DEF H!Institutional
      <3> QED
        BY <3>2, <3>9, <3>11
    <2> QED
      BY <2>1, <2>2 DEF H!ForecastIsGrounded
  <1> QED
    BY <1>2, <1>3

\* A profile that an observation makes, and one that it adds to.
LEMMA MadeIs ==
  ASSUME NEW v \in Int, NEW t \in Nat, NEW n \in Nat, NEW e, e = [at |-> t, overall |-> v],
         NEW q, q = [id |-> n, overall |-> v, status |-> H!StatusFor(v), history |-> <<e>>]
  PROVE  IsProfile(q, <<v>>) /\ q.id = n /\ q.overall = v /\ q \in H!HealthProfile
  <1>1. e \in Entries /\ e.overall = v
    BY DEF Entries
  <1> PICK g : g = <<e>>
    OBVIOUS
  <1>2. g \in Seq(Entries) /\ Len(g) = 1 /\ g[1] = e /\ DOMAIN g = 1..1
    BY <1>1
  <1>3. H!StatusFor(v) \in H!Statuses
    BY DEF H!StatusFor, H!Statuses
  <1>4. q = [id |-> n, overall |-> v, status |-> H!StatusFor(v), history |-> g]
    OBVIOUS
  <1>5. q \in H!HealthProfile /\ q.history = g /\ q.overall = v /\ q.status = H!StatusFor(v) /\ q.id = n
    BY <1>2, <1>3, <1>4 DEF H!HealthProfile, Entries
  <1>6. <<v>> = [i \in DOMAIN g |-> g[i].overall]
    BY <1>1, <1>2
  <1> QED
    BY <1>1, <1>2, <1>5, <1>6 DEF IsProfile

LEMMA AddedIs ==
  ASSUME NEW v \in Int, NEW t \in Nat, NEW p, NEW trail, IsProfile(p, trail), NEW e, e = [at |-> t, overall |-> v],
         NEW q, q = [id |-> p.id, overall |-> v, status |-> H!StatusFor(v), history |-> Append(p.history, e)]
  PROVE  /\ IsProfile(q, Append(trail, v)) /\ q.id = p.id /\ q.overall = v /\ q \in H!HealthProfile
         /\ trail \in Seq(Int) /\ Append(trail, v) \in Seq(Int)
  <1>1. e \in Entries /\ e.overall = v
    BY DEF Entries
  <1> PICK h : h = p.history
    OBVIOUS
  <1>2. h \in Seq(Entries) /\ Len(h) \in Nat /\ p.id \in Nat
    BY DEF IsProfile, H!HealthProfile, Entries
  <1> PICK g : g = Append(h, e)
    OBVIOUS
  <1>3. g \in Seq(Entries) /\ Len(g) = Len(h) + 1 /\ g[Len(h) + 1] = e /\ \A i \in 1..Len(h) : g[i] = h[i]
    BY <1>1, <1>2
  <1>4. H!StatusFor(v) \in H!Statuses
    BY DEF H!StatusFor, H!Statuses
  <1>5. q = [id |-> p.id, overall |-> v, status |-> H!StatusFor(v), history |-> g]
    OBVIOUS
  <1>6. q \in H!HealthProfile /\ q.history = g /\ q.overall = v /\ q.status = H!StatusFor(v) /\ q.id = p.id
    BY <1>2, <1>3, <1>4, <1>5 DEF H!HealthProfile, Entries
  <1>7. trail = [i \in 1..Len(h) |-> h[i].overall]
    BY <1>2 DEF IsProfile
  <1>8. ASSUME NEW i \in 1..Len(h)
        PROVE  h[i] \in Entries /\ h[i].overall \in Int
    <2>1. h[i] \in Entries
      BY <1>2
    <2> QED
      BY <2>1 DEF Entries
  <1>9. trail \in Seq(Int) /\ Len(trail) = Len(h) /\ DOMAIN trail = 1..Len(h)
    BY <1>2, <1>7, <1>8
  <1>10. Append(trail, v) = [i \in DOMAIN g |-> g[i].overall]
    <2>1. PICK a : a = Append(trail, v)
      OBVIOUS
    <2>2. a \in Seq(Int) /\ Len(a) = Len(h) + 1 /\ a[Len(h) + 1] = v /\ \A i \in 1..Len(h) : a[i] = trail[i]
      BY <1>9, <2>1
    <2>3. DOMAIN a = 1..(Len(h) + 1) /\ DOMAIN g = 1..(Len(h) + 1) /\ a = [i \in DOMAIN a |-> a[i]]
      BY <1>3, <2>2
    <2>4. \A i \in 1..(Len(h) + 1) : a[i] = g[i].overall
      <3>1. \A i \in 1..(Len(h) + 1) : i \in 1..Len(h) \/ i = Len(h) + 1
        BY <1>2
      <3> QED
        BY <1>1, <1>3, <1>7, <2>2, <3>1
    <2> QED
      BY <2>1, <2>3, <2>4
  <1>11. Append(trail, v) \in Seq(Int)
    BY <1>9
  <1>12. Len(g) > 0 /\ q.overall = g[Len(g)].overall
    BY <1>1, <1>2, <1>3, <1>6
  <1> QED
    BY <1>6, <1>9, <1>10, <1>11, <1>12 DEF IsProfile

LEMMA AssessedFiles ==
  ASSUME H!HealthAssumption, Weighed, NEW ps, NEW trails, NEW told, NEW thrown, Filed(ps, trails), NEW o, IsObservation(o),
         NEW s, s = H!Midway(ps, trails, told, thrown), NEW q, q = H!Assessed(s, o)
  PROVE  Filed([ps EXCEPT ![o.of] = q], H!Recorded(trails, q))
  <1>1. PICK k \in Identities, t \in Nat, v \in Int : k = o.of /\ t = o.at /\ v = H!Overall(o.scores, weights)
    BY OverallIs DEF IsObservation
  <1>2. PICK e : e = [at |-> t, overall |-> v]
    OBVIOUS
  <1>3. e.overall = v /\ s.profiles = ps /\ s.audit = trails
    BY <1>2 DEF H!Midway
  <1>4. trails \in Seq(Seq(Int)) /\ Len(trails) \in Nat /\ DOMAIN trails = 1..Len(trails)
    BY DEF Filed
  <1>5. PICK us, ws : us = [ps EXCEPT ![k] = q] /\ ws = H!Recorded(trails, q)
    OBVIOUS
  <1>6. us = [j \in Identities |-> us[j]] /\ us[k] = q /\ \A j \in Identities : j # k => us[j] = ps[j]
    BY <1>5 DEF Filed
  <1>7. CASE ps[k] = Nothing
    <2>1. q = [id |-> Len(trails) + 1, overall |-> v, status |-> H!StatusFor(v), history |-> <<e>>]
      BY <1>1, <1>2, <1>3, <1>7 DEF H!Assessed, H!Previous
    <2>2. IsProfile(q, <<v>>) /\ q.id = Len(trails) + 1 /\ q.overall = v
      BY <1>2, <1>4, <2>1, MadeIs
    <2>3. ws = Append(trails, <<v>>)
      BY <1>4, <1>5, <2>2 DEF H!Recorded
    <2> PICK w : w = <<v>>
      OBVIOUS
    <2>4. w = <<v>> /\ w \in Seq(Int)
      BY <1>1
    <2>5. ws \in Seq(Seq(Int)) /\ Len(ws) = Len(trails) + 1 /\ ws[Len(trails) + 1] = w /\ \A i \in 1..Len(trails) : ws[i] = trails[i]
      BY <1>4, <2>3, <2>4
    <2>6. ASSUME NEW j \in Identities, us[j] # Nothing
          PROVE  us[j].id \in 1..Len(ws) /\ IsProfile(us[j], ws[us[j].id]) /\ (us[j].id = Len(trails) + 1 <=> j = k)
      <3>1. CASE j = k
        <4>1. us[j] = q /\ us[j].id = Len(trails) + 1 /\ us[j].id \in 1..Len(ws)
          BY <1>4, <1>6, <2>2, <2>5, <3>1
        <4>2. IsProfile(q, w)
          BY <2>2, <2>4
        <4>3. ws[us[j].id] = w
          BY <2>5, <4>1
        <4> QED
          BY <3>1, <4>1, <4>2, <4>3
      <3>2. CASE j # k
        <4>1. us[j] = ps[j] /\ us[j].id \in 1..Len(trails) /\ IsProfile(us[j], trails[us[j].id])
          BY <1>6, <2>6, <3>2 DEF Filed
        <4>2. us[j].id # Len(trails) + 1 /\ us[j].id \in 1..(Len(trails) + 1)
          BY <1>4, <4>1
        <4> QED
          BY <2>5, <3>2, <4>1, <4>2
      <3> QED
        BY <3>1, <3>2
    <2>7. ASSUME NEW i \in Identities, NEW j \in Identities, us[i] # Nothing, us[j] # Nothing, us[i].id = us[j].id
          PROVE  i = j
      <3>1. CASE i = k \/ j = k
        BY <2>6, <2>7, <3>1
      <3>2. CASE i # k /\ j # k
        BY <1>6, <2>7, <3>2 DEF Filed
      <3> QED
        BY <3>1, <3>2
    <2>8. Filed(us, ws)
      BY <1>6, <2>5, <2>6, <2>7 DEF Filed
    <2> QED
      BY <1>1, <1>5, <2>8
  <1>8. CASE ps[k] # Nothing
    <2>1. PICK p, trail : p = ps[k] /\ trail = trails[p.id]
      OBVIOUS
    <2>2. p.id \in 1..Len(trails) /\ IsProfile(p, trail)
      BY <1>8, <2>1 DEF Filed
    <2>3. q = [id |-> p.id, overall |-> v, status |-> H!StatusFor(v), history |-> Append(p.history, e)]
      BY <1>1, <1>2, <1>3, <1>8, <2>1 DEF H!Assessed, H!Previous
    <2>4. PICK w : w = Append(trail, v)
      OBVIOUS
    <2>5. IsProfile(q, w) /\ q.id = p.id /\ q.overall = v /\ w \in Seq(Int)
      BY <1>1, <1>2, <2>2, <2>3, <2>4, AddedIs
    <2>6. ws = [trails EXCEPT ![p.id] = w]
      <3>1. ~(q.id > Len(trails))
        BY <1>4, <2>2, <2>5
      <3>2. ws = [trails EXCEPT ![q.id] = Append(trails[q.id], q.overall)]
        BY <1>5, <3>1 DEF H!Recorded
      <3>3. Append(trails[q.id], q.overall) = w
        BY <2>1, <2>4, <2>5
      <3> QED
        BY <2>5, <3>2, <3>3
    <2>7. ws \in Seq(Seq(Int)) /\ Len(ws) = Len(trails) /\ ws[p.id] = w /\ \A i \in 1..Len(trails) : i # p.id => ws[i] = trails[i]
      BY <1>4, <2>2, <2>5, <2>6
    <2>8. ASSUME NEW j \in Identities, us[j] # Nothing
          PROVE  us[j].id \in 1..Len(ws) /\ IsProfile(us[j], ws[us[j].id]) /\ us[j].id = ps[j].id /\ ps[j] # Nothing
      <3>1. CASE j = k
        BY <1>6, <1>8, <2>1, <2>2, <2>5, <2>7, <3>1
      <3>2. CASE j # k
        <4>1. us[j] = ps[j] /\ us[j].id \in 1..Len(trails) /\ IsProfile(us[j], trails[us[j].id])
          BY <1>6, <2>8, <3>2 DEF Filed
        <4>2. us[j].id # p.id
          BY <1>8, <2>1, <2>8, <3>2, <4>1 DEF Filed
        <4> QED
          BY <2>7, <2>8, <4>1, <4>2
      <3> QED
        BY <3>1, <3>2
    <2>9. ASSUME NEW i \in Identities, NEW j \in Identities, us[i] # Nothing, us[j] # Nothing, us[i].id = us[j].id
          PROVE  i = j
      BY <2>8, <2>9 DEF Filed
    <2>10. Filed(us, ws)
      BY <1>6, <2>7, <2>8, <2>9 DEF Filed
    <2> QED
      BY <1>1, <1>5, <2>10
  <1> QED
    BY <1>7, <1>8

IsAssessed(s) == \E ps, trails, told, thrown : Filed(ps, trails) /\ s = H!Midway(ps, trails, told, thrown)

LEMMA AssessKeeps ==
  ASSUME H!HealthAssumption, Weighed, NEW s, IsAssessed(s), NEW o, IsObservation(o), NEW deaf
  PROVE  IsAssessed(H!Assess(s, o, deaf))
  <1>1. PICK ps, trails, told, thrown : Filed(ps, trails) /\ s = H!Midway(ps, trails, told, thrown)
    BY DEF IsAssessed
  <1>2. s.profiles = ps /\ s.audit = trails /\ s.heard = told /\ s.thrown = thrown
    BY <1>1 DEF H!Midway
  <1>3. CASE s.thrown
    BY <1>3 DEF H!Assess
  <1>4. CASE ~s.thrown /\ ~H!WellFormed(o)
    <2>1. H!Assess(s, o, deaf) = H!Midway(ps, trails, told, TRUE)
      BY <1>2, <1>4 DEF H!Assess
    <2> QED
      BY <1>1, <2>1 DEF IsAssessed
  <1>5. CASE ~s.thrown /\ H!WellFormed(o)
    <2>1. PICK q, us, ws : q = H!Assessed(s, o) /\ us = [ps EXCEPT ![o.of] = q] /\ ws = H!Recorded(trails, q)
      OBVIOUS
    <2>2. Filed(us, ws)
      BY <1>1, <2>1, AssessedFiles
    <2>3. \E hs, x : H!Assess(s, o, deaf) = H!Midway(us, ws, hs, x)
      BY <1>2, <1>5, <2>1 DEF H!Assess
    <2> QED
      BY <2>2, <2>3 DEF IsAssessed
  <1> QED
    BY <1>3, <1>4, <1>5

Begun == H!Midway(profiles, assessments, heard, FALSE)
Taking(deaf, xs, f, s) == IF s = {} THEN Begun ELSE H!Assess(f[s \ {Max(s)}], xs[Max(s)], deaf)
Takings(deaf, xs, f, n) == f = [s \in SUBSET (1..n) |-> Taking(deaf, xs, f, s)]

LEMMA LatestOf ==
  ASSUME NEW n \in Nat, NEW s \in SUBSET (1..n), n \in s
  PROVE  Max(s) = n
  <1>1. n \in s /\ \A y \in s : n >= y
    OBVIOUS
  <1>2. \A x \in s : (\A y \in s : x >= y) => x = n
    BY <1>1
  <1> QED
    BY <1>1, <1>2 DEF Max

\* A function that folds every part of the positions exists.
LEMMA TakingsExist ==
  ASSUME NEW deaf, NEW xs, NEW size \in Nat
  PROVE  \E f : Takings(deaf, xs, f, size)
  <1> DEFINE Step(f, n) == H!Assess(f, xs[n], deaf)
  <1>1. Takings(deaf, xs, [s \in SUBSET (1..0) |-> Begun], 0)
    <2>1. SUBSET (1..0) = {{}}
      OBVIOUS
    <2> QED
      BY <2>1 DEF Takings, Taking
  <1>2. ASSUME NEW n \in Nat \ {0}, NEW f, Takings(deaf, xs, f, n - 1)
        PROVE  \E e : Takings(deaf, xs, e, n)
    <2> DEFINE e == [s \in SUBSET (1..n) |-> IF n \in s THEN Step(f[s \ {n}], n) ELSE f[s]]
    <2>1. \A s \in SUBSET (1..n) : n \notin s => s \in SUBSET (1..(n - 1))
      OBVIOUS
    <2>2. \A s \in SUBSET (1..(n - 1)) : n \notin s /\ s \in SUBSET (1..n)
      OBVIOUS
    <2>3. \A s \in SUBSET (1..(n - 1)) : f[s] = Taking(deaf, xs, f, s)
      BY <1>2 DEF Takings
    <2>4. \A s \in SUBSET (1..n) : e[s] = IF n \in s THEN Step(f[s \ {n}], n) ELSE f[s]
      OBVIOUS
    <2>5. e = [s \in SUBSET (1..n) |-> e[s]]
      OBVIOUS
    <2> HIDE DEF e
    <2>6. ASSUME NEW s \in SUBSET (1..n)
          PROVE  e[s] = Taking(deaf, xs, e, s)
      <3>1. CASE n \in s
        <4>1. Max(s) = n
          BY <3>1, LatestOf
        <4>2. e[s \ {n}] = f[s \ {n}]
          BY <2>4
        <4>3. e[s] = Step(e[s \ {n}], n)
          BY <2>4, <3>1, <4>2
        <4> QED
          BY <3>1, <4>1, <4>3 DEF Taking
      <3>2. CASE n \notin s
        <4>1. s \ {Max(s)} \in SUBSET (1..n) /\ n \notin s \ {Max(s)}
          BY <3>2
        <4>2. e[s] = f[s] /\ e[s \ {Max(s)}] = f[s \ {Max(s)}]
          BY <2>4, <3>2, <4>1
        <4>3. f[s] = Taking(deaf, xs, f, s)
          BY <2>1, <2>3, <3>2
        <4> QED
          BY <4>2, <4>3 DEF Taking
      <3> QED
        BY <3>1, <3>2
    <2>7. e = [s \in SUBSET (1..n) |-> Taking(deaf, xs, e, s)]
      BY <2>5, <2>6, Zenon
    <2> QED
      BY <2>7 DEF Takings
  <1> DEFINE Wrong == {n \in Nat : ~\E f : Takings(deaf, xs, f, n)}
  <1>3. Wrong = {}
    <2>1. SUFFICES ASSUME Wrong # {} PROVE FALSE
      OBVIOUS
    <2>2. PICK m \in Wrong : \A n \in Wrong : m <= n
      BY <2>1, Least
    <2>3. m # 0
      BY <1>1, <2>2
    <2>4. m - 1 \in Nat /\ m - 1 \notin Wrong
      BY <2>2, <2>3
    <2> QED
      BY <1>2, <2>2, <2>3, <2>4
  <1> QED
    BY <1>3

\* And it passes the elements in the order of the sequence.
Steps(deaf, xs, n, last, g) ==
  g[0] = Begun /\ g[n] = last /\ \A i \in 1..n : g[i] = H!Assess(g[i - 1], xs[i], deaf)

LEMMA TakenInTurn ==
  ASSUME NEW deaf, NEW xs, NEW size \in Nat, NEW f, Takings(deaf, xs, f, size)
  PROVE  \E g : Steps(deaf, xs, size, f[1..size], g)
  <1>1. ASSUME NEW n \in 0..size
        PROVE  f[1..n] = IF n = 0 THEN Begun ELSE H!Assess(f[1..(n - 1)], xs[n], deaf)
    <2>1. 1..n \in SUBSET (1..size)
      OBVIOUS
    <2>2. f[1..n] = Taking(deaf, xs, f, 1..n)
      BY <2>1 DEF Takings
    <2>3. CASE n = 0
      BY <2>2, <2>3 DEF Taking
    <2>4. CASE n # 0
      <3>1. n \in 1..n /\ (1..n) \ {n} = 1..(n - 1)
        BY <2>4
      <3>2. Max(1..n) = n
        BY <3>1, LatestOf
      <3> QED
        BY <2>2, <2>4, <3>1, <3>2 DEF Taking
    <2> QED
      BY <2>3, <2>4
  <1> DEFINE g == [n \in 0..size |-> f[1..n]]
  <1>2. \A n \in 0..size : g[n] = f[1..n]
    OBVIOUS
  <1> HIDE DEF g
  <1>3. ASSUME NEW n \in 1..size
        PROVE  g[n] = H!Assess(g[n - 1], xs[n], deaf)
    <2>1. n \in 0..size /\ n - 1 \in 0..size /\ n # 0
      OBVIOUS
    <2>2. g[n] = f[1..n] /\ g[n - 1] = f[1..(n - 1)]
      BY <1>2, <2>1
    <2> QED
      BY <1>1, <2>1, <2>2
  <1>4. 0 \in 0..size /\ size \in 0..size /\ 1..0 = {}
    OBVIOUS
  <1>5. g[0] = Begun /\ g[size] = f[1..size]
    BY <1>1, <1>2, <1>4
  <1> QED
    BY <1>3, <1>5 DEF Steps

Refreshed(deaf, xs) == H!FoldLeft(LAMBDA t, o : H!Assess(t, o, deaf), Begun, xs)

LEMMA AssessedInTurn ==
  ASSUME NEW deaf, NEW xs, NEW size \in Nat, DOMAIN xs = 1..size
  PROVE  \E g : Steps(deaf, xs, size, Refreshed(deaf, xs), g)
  <1> DEFINE Solves(f) == f = [s \in SUBSET (1..size) |-> IF s = {} THEN Begun
                                                       ELSE H!Assess(f[s \ {Max(s)}], xs[Max(s)], deaf)]
             iter == CHOOSE f : Solves(f)
  <1>1. Refreshed(deaf, xs) = iter[1..size]
    BY DEF Refreshed, H!FoldLeft, H!MapThenFoldSet, H!Max, Max
  <1>2. \A f : Solves(f) <=> Takings(deaf, xs, f, size)
    BY DEF Takings, Taking
  <1> HIDE DEF Solves
  <1>3. Solves(iter)
    BY <1>2, TakingsExist
  <1> HIDE DEF iter
  <1>4. Takings(deaf, xs, iter, size)
    BY <1>2, <1>3
  <1> PICK f : f = iter
    OBVIOUS
  <1>5. \E g : Steps(deaf, xs, size, f[1..size], g)
    <2>1. Takings(deaf, xs, f, size)
      BY <1>4
    <2> QED
      BY <2>1, TakenInTurn
  <1> QED
    BY <1>1, <1>5

LEMMA RefreshKeeps ==
  ASSUME H!HealthAssumption, HealthInv, NEW b \in Batches, NEW deaf, H!Refresh(b, deaf)
  PROVE  HealthInv'
  <1>1. PICK size \in Nat : size = Len(b) /\ DOMAIN b = 1..size /\ \A n \in 1..size : IsObservation(b[n])
    BY BatchesAre
  <1>2. PICK st : /\ st = Refreshed(deaf, b)
                  /\ profiles' = st.profiles /\ assessments' = st.audit /\ weights' = weights
    BY DEF H!Refresh, Begun, Refreshed
  <1>3. PICK g : /\ g[0] = Begun /\ g[size] = st /\ \A n \in 1..size : g[n] = H!Assess(g[n - 1], b[n], deaf)
    BY <1>1, <1>2, AssessedInTurn DEF Steps
  <1>4. Weighed /\ IsAssessed(g[0])
    BY <1>3 DEF HealthInv, IsAssessed, Begun
  <1> DEFINE Wrong == {n \in 0..size : ~IsAssessed(g[n])}
  <1>5. Wrong = {}
    <2> SUFFICES ASSUME Wrong # {} PROVE FALSE
      OBVIOUS
    <2>1. Wrong \in SUBSET Nat
      BY <1>1
    <2>2. PICK n \in Wrong : \A m \in Wrong : n <= m
      BY <2>1, Least
    <2>3. n # 0 /\ n \in 0..size
      BY <1>4, <2>2
    <2>4. n - 1 \in 0..size /\ n \in 1..size /\ n - 1 \notin Wrong
      BY <1>1, <2>2, <2>3
    <2>5. IsAssessed(H!Assess(g[n - 1], b[n], deaf))
      BY <1>1, <1>4, <2>4, AssessKeeps
    <2> QED
      BY <1>3, <2>2, <2>4, <2>5
  <1>6. IsAssessed(st)
    BY <1>1, <1>3, <1>5
  <1>7. Filed(st.profiles, st.audit)
    BY <1>6 DEF IsAssessed, H!Midway
  <1> QED
    BY <1>2, <1>4, <1>7 DEF HealthInv, Weighed

LEMMA HealthKeeps ==
  ASSUME H!HealthAssumption, HealthInv, H!Next
  PROVE  HealthInv'
  <1>1. ASSUME NEW b \in Batches, NEW deaf, H!Refresh(b, deaf)
        PROVE  HealthInv'
    BY <1>1, RefreshKeeps
  <1>2. ASSUME NEW w \in Weightings, H!SetWeights(w)
        PROVE  HealthInv'
    BY <1>2, WeightsAre DEF H!SetWeights, HealthInv, Weighed
  <1>3. ASSUME NEW k \in Identities, H!Withdraw(k)
        PROVE  HealthInv'
    BY <1>3 DEF H!Withdraw, HealthInv, Weighed, Filed
  <1> QED
    BY <1>1, <1>2, <1>3 DEF H!Next

-----------------------------------------------------------------------------
(* What the run checks of certification and health.                            *)

\* What stands is earned by evidence that meets its level and is revoked once and for good; a health
\* profile's history is the audit trail's, and its forecast follows from it: for any levels, evidence,
\* providers, observations, weights and handlers that throw.
THEOREM EvidenceIsSound == ServicesSpec => []EvidenceStands
  <1> DEFINE Inv == /\ focus = "certification" => CertificationsInv
                    /\ focus = "health" => HealthInv
  <1>1. ServicesInit => Inv
    BY CertificationsStart, HealthStarts, ServicesAssumption DEF ServicesInit
  <1>2. Inv /\ [ServicesNext]_servicesVars => Inv'
    <2>1. ASSUME Inv, [ServicesNext]_servicesVars, focus' = "certification"
          PROVE  CertificationsInv'
      <3>1. CASE ServicesNext
        <4>1. focus = "certification" /\ F!Next
          BY <2>1, <3>1 DEF ServicesNext
        <4> QED
          BY <2>1, <4>1, CertificationsKeep, ServicesAssumption
      <3>2. CASE UNCHANGED servicesVars
        BY <2>1, <3>2 DEF servicesVars, certificationVars, CertificationsInv
      <3> QED
        BY <2>1, <3>1, <3>2
    <2>2. ASSUME Inv, [ServicesNext]_servicesVars, focus' = "health"
          PROVE  HealthInv'
      <3>1. CASE ServicesNext
        <4>1. focus = "health" /\ H!Next
          BY <2>2, <3>1 DEF ServicesNext
        <4> QED
          BY <2>2, <4>1, HealthKeeps, ServicesAssumption
      <3>2. CASE UNCHANGED servicesVars
        BY <2>2, <3>2 DEF servicesVars, healthVars, HealthInv, Weighed, Filed
      <3> QED
        BY <2>2, <3>1, <3>2
    <2> QED
      BY <2>1, <2>2
  <1>3. Inv => EvidenceStands
    BY CertificationsTell, HealthTells, ServicesAssumption DEF EvidenceStands
  <1> QED
    BY <1>1, <1>2, <1>3, PTL DEF ServicesSpec
=============================================================================
