-------------------------- MODULE SessionFile_proof --------------------------
(***************************************************************************)
(* Proofs about SessionFile for any number of terminals, rewrites, lines,  *)
(* crashes and faults.  Two inductive invariants carry them.  SInv says    *)
(* who is where: types, the names of the directory, who is past the lock,  *)
(* which write and which task a manager has.  Seen says what the file has: *)
(* a transcript that every manager knows a prefix of, as many lines as     *)
(* the size it expects, while the directory was not left to a race.  The   *)
(* file never has what a manager that replaces it does not know, because   *)
(* a file that has all it knows and the size it expects is its own.        *)
(***************************************************************************)
EXTENDS SessionFile, TLAPS, FiniteSetTheorems, SequenceTheorems, WellFoundedInduction

(***************************************************************************)
(* Transcripts.                                                            *)
(***************************************************************************)
\* The header, then entries out of the first k, each at most once.
Transcript(s, k) ==
    /\ s \in Seq(Line) /\ s # <<>> /\ s[1] \in {Header, Edited}
    /\ \A i \in 2..Len(s) : s[i] \in 1..k
    /\ IsInjective(s)

\* What a size says of the contents: how many lines, and whether edited.
Heavy(n) == n > MaxLines + 1
Count(n) == IF Heavy(n) THEN n - (MaxLines + 2) ELSE n

\* s has the entries of the first n lines of t, in their order.
Embeds(s, t, n) ==
    \E f \in [2..n -> 2..Len(s)] :
        /\ \A i, j \in 2..n : i < j => f[i] < f[j]
        /\ \A i \in 2..n : s[f[i]] = t[i]

\* t continues l, up to an edit of the header.
Continues(l, t) == Len(l) <= Len(t) /\ \A i \in 2..Len(l) : l[i] = t[i]

\* Every set of naturals has a least element: what the inductions below rest on.
LEMMA LeastElement ==
  ASSUME NEW S \in SUBSET Nat, S # {}
  PROVE  \E x \in S : \A y \in S : x <= y
<1>1. IsWellFoundedOn(OpToRel(<, Nat), Nat)
  BY NatLessThanWellFounded, Zenon
<1>2. \E x \in S : \A y \in S : ~(<<y, x>> \in OpToRel(<, Nat))
  BY <1>1, WFMin, Zenon
<1>3. \E x \in S : \A y \in S : ~(y < x)
  BY <1>2 DEF OpToRel
<1>4. \A x, y \in S : ~(y < x) => x <= y
  OBVIOUS
<1> QED BY <1>3, <1>4

\* A transcript has no more lines than there are entries, and the header.
LEMMA TranscriptLen ==
  ASSUME NEW k \in Nat, NEW s, Transcript(s, k)
  PROVE  Len(s) \in Nat /\ 1 <= Len(s) /\ Len(s) <= k + 1 /\ DOMAIN s = 1..Len(s)
<1>1. Len(s) \in Nat /\ 1 <= Len(s) /\ DOMAIN s = 1..Len(s)
  BY DEF Transcript
<1> DEFINE f == [i \in 2..Len(s) |-> s[i]]
<1>2. f \in Injection(2..Len(s), 1..k)
  <2>1. \A i \in 2..Len(s) : f[i] = s[i] /\ f[i] \in 1..k /\ i \in 1..Len(s)
    BY <1>1 DEF Transcript
  <2>2. f \in [2..Len(s) -> 1..k]
    BY <2>1
  <2>3. \A i, j \in 1..Len(s) : s[i] = s[j] => i = j
    BY <1>1 DEF Transcript, IsInjective
  <2>4. \A i, j \in 2..Len(s) : f[i] = f[j] => i = j
    BY <2>1, <2>3
  <2> HIDE DEF f
  <2> QED BY <2>2, <2>4 DEF Injection, IsInjective
<1>3. IsFiniteSet(1..k) /\ Cardinality(1..k) = k
  <2>1. 1 \in Int /\ k \in Int
    OBVIOUS
  <2> QED BY <2>1, FS_Interval
<1>4. Cardinality(2..Len(s)) = Len(s) - 1
  <2>1. 2 \in Int /\ Len(s) \in Int
    BY <1>1
  <2>2. Cardinality(2..Len(s)) = IF 2 > Len(s) THEN 0 ELSE Len(s) - 2 + 1
    BY <2>1, FS_Interval
  <2> QED BY <2>2, <1>1
<1>5. Cardinality(2..Len(s)) <= Cardinality(1..k)
  BY <1>2, <1>3, FS_Injection
<1> QED BY <1>1, <1>3, <1>4, <1>5

\* The size of a transcript tells its lines and its edit.
LEMMA SizeTells ==
  ASSUME NEW k \in 0..MaxLines, MaxLines \in Nat, NEW s, Transcript(s, k)
  PROVE  /\ Size(s) \in Nat
         /\ Count(Size(s)) = Len(s)
         /\ Heavy(Size(s)) <=> s[1] = Edited
<1>1. Len(s) \in Nat /\ 1 <= Len(s) /\ Len(s) <= k + 1 /\ DOMAIN s = 1..Len(s)
  BY TranscriptLen
<1>2. Edited \in ToSet(s) <=> s[1] = Edited
  <2>1. \A i \in 2..Len(s) : s[i] # Edited
    BY DEF Transcript, Edited
  <2>2. \A i \in 1..Len(s) : i = 1 \/ i \in 2..Len(s)
    BY <1>1
  <2> QED BY <1>1, <2>1, <2>2 DEF ToSet
<1>3. CASE s[1] = Edited
  <2>1. Size(s) = Len(s) + (MaxLines + 2)
    BY <1>2, <1>3 DEF Size
  <2>2. Heavy(Size(s)) /\ Size(s) \in Nat
    BY <1>1, <2>1 DEF Heavy
  <2> QED BY <1>1, <1>3, <2>1, <2>2 DEF Count
<1>4. CASE s[1] # Edited
  <2>0. Edited \notin ToSet(s)
    BY <1>2, <1>4
  <2>1. Size(s) = Len(s) + 0
    BY <2>0 DEF Size
  <2>2. ~Heavy(Size(s))
    BY <1>1, <2>1 DEF Heavy
  <2> QED BY <1>1, <1>4, <2>1, <2>2 DEF Count
<1> QED BY <1>3, <1>4

\* One line more.
LEMMA CountNext ==
  ASSUME MaxLines \in Nat, NEW n \in Nat, Count(n) \in 1..MaxLines
  PROVE  Count(n + 1) = Count(n) + 1 /\ (Heavy(n + 1) <=> Heavy(n))
BY DEF Count, Heavy

(***************************************************************************)
(* Embeddings.                                                             *)
(***************************************************************************)
\* What continues l has the entries of l.
LEMMA EmbedsPrefix ==
  ASSUME NEW l, NEW t, Continues(l, t), Len(l) \in Nat
  PROVE  Embeds(l, t, Len(l))
<1> DEFINE f == [i \in 2..Len(l) |-> i]
<1>1. f \in [2..Len(l) -> 2..Len(l)]
  OBVIOUS
<1>2. \A i \in 2..Len(l) : l[f[i]] = t[i]
  BY DEF Continues
<1> QED BY <1>1, <1>2 DEF Embeds

\* Only the entries of the embedded lines matter.
LEMMA EmbedsSame ==
  ASSUME NEW s, NEW t, NEW u, NEW n \in Nat, Embeds(s, t, n),
         \A i \in 2..n : u[i] = t[i]
  PROVE  Embeds(s, u, n)
<1>1. PICK f \in [2..n -> 2..Len(s)] :
        /\ \A i, j \in 2..n : i < j => f[i] < f[j]
        /\ \A i \in 2..n : s[f[i]] = t[i]
  BY DEF Embeds
<1>2. \A i \in 2..n : s[f[i]] = u[i]
  BY <1>1
<1> QED BY <1>1, <1>2 DEF Embeds

\* A file that keeps the lines of s where they are keeps what s has.
LEMMA EmbedsKept ==
  ASSUME NEW s, NEW r, NEW t, NEW n \in Nat, Embeds(s, t, n),
         Len(s) \in Nat, Len(r) \in Nat, Len(s) <= Len(r), \A i \in 2..Len(s) : r[i] = s[i]
  PROVE  Embeds(r, t, n)
<1>1. PICK f \in [2..n -> 2..Len(s)] :
        /\ \A i, j \in 2..n : i < j => f[i] < f[j]
        /\ \A i \in 2..n : s[f[i]] = t[i]
  BY DEF Embeds
<1>2. f \in [2..n -> 2..Len(r)]
  BY <1>1
<1>3. \A i \in 2..n : r[f[i]] = t[i]
  BY <1>1
<1> QED BY <1>1, <1>2, <1>3 DEF Embeds

\* A line that is appended extends the embedding.
LEMMA EmbedsExtend ==
  ASSUME NEW s, NEW r, NEW t, NEW n \in Nat, n >= 1, Embeds(s, t, n),
         Len(s) \in Nat, Len(s) >= 1, Len(r) = Len(s) + 1, \A i \in 2..Len(s) : r[i] = s[i],
         r[Len(s) + 1] = t[n + 1]
  PROVE  Embeds(r, t, n + 1)
<1>1. PICK f \in [2..n -> 2..Len(s)] :
        /\ \A i, j \in 2..n : i < j => f[i] < f[j]
        /\ \A i \in 2..n : s[f[i]] = t[i]
  BY DEF Embeds
<1> DEFINE g == [i \in 2..(n + 1) |-> IF i = n + 1 THEN Len(s) + 1 ELSE f[i]]
<1>2. \A i \in 2..(n + 1) : i = n + 1 \/ i \in 2..n
  OBVIOUS
<1>3. g \in [2..(n + 1) -> 2..Len(r)]
  BY <1>1, <1>2
<1>4. \A i, j \in 2..(n + 1) : i < j => g[i] < g[j]
  BY <1>1, <1>2
<1>5. \A i \in 2..(n + 1) : r[g[i]] = t[i]
  BY <1>1, <1>2
<1> HIDE DEF g
<1> QED BY <1>3, <1>4, <1>5 DEF Embeds

\* An increasing function from an interval to itself moves nothing.
LEMMA IncreasingIsIdentity ==
  ASSUME NEW n \in Nat, NEW f \in [2..n -> 2..n],
         \A i, j \in 2..n : i < j => f[i] < f[j]
  PROVE  \A i \in 2..n : f[i] = i
<1>1. \A i \in 2..n : f[i] >= i
  <2> DEFINE S == {i \in 2..n : f[i] < i}
  <2>1. ASSUME S # {} PROVE FALSE
    <3>1. PICK x \in S : \A y \in S : x <= y
      BY <2>1, LeastElement, S \in SUBSET Nat
    <3>2. x - 1 \in 2..n /\ x - 1 \notin S
      BY <3>1
    <3>3. f[x - 1] >= x - 1 /\ f[x - 1] < f[x]
      BY <3>1, <3>2
    <3> QED BY <3>1, <3>2, <3>3
  <2> QED BY <2>1
<1>2. \A i \in 2..n : f[i] <= i
  <2> DEFINE S == {k \in 0..n : n - k \in 2..n /\ f[n - k] > n - k}
  <2>1. ASSUME S # {} PROVE FALSE
    <3>1. PICK x \in S : \A y \in S : x <= y
      BY <2>1, LeastElement, S \in SUBSET Nat
    <3>2. n - x \in 2..n /\ f[n - x] \in 2..n /\ f[n - x] > n - x
      BY <3>1
    <3>3. x # 0 /\ n - x + 1 \in 2..n
      BY <3>2
    <3>4. f[n - x + 1] > f[n - x]
      BY <3>2, <3>3
    <3>5. x - 1 \in 0..n /\ n - (x - 1) = n - x + 1
      BY <3>1, <3>3
    <3>6. f[n - (x - 1)] > n - (x - 1)
      BY <3>2, <3>3, <3>4, <3>5
    <3>7. x - 1 \in S
      BY <3>3, <3>5, <3>6
    <3>8. x \in Int
      OBVIOUS
    <3> HIDE DEF S
    <3>9. x <= x - 1
      BY <3>1, <3>7
    <3> QED BY <3>8, <3>9
  <2>2. \A i \in 2..n : n - i \in 0..n /\ n - (n - i) = i
    OBVIOUS
  <2>3. \A i \in 2..n : ~(f[n - (n - i)] > n - (n - i))
    <3> TAKE i \in 2..n
    <3>1. n - i \in 0..n /\ n - (n - i) = i
      BY <2>2
    <3> SUFFICES ASSUME f[n - (n - i)] > n - (n - i) PROVE FALSE
      OBVIOUS
    <3>2. n - i \in S
      BY <3>1
    <3> QED BY <2>1, <3>2
  <2> QED BY <2>2, <2>3
<1> QED BY <1>1, <1>2

\* A file as long as what it embeds has nothing else.
LEMMA EmbedsAll ==
  ASSUME NEW s, NEW t, Len(s) \in Nat, Embeds(s, t, Len(s))
  PROVE  \A i \in 2..Len(s) : s[i] = t[i]
<1>1. PICK f \in [2..Len(s) -> 2..Len(s)] :
        /\ \A i, j \in 2..Len(s) : i < j => f[i] < f[j]
        /\ \A i \in 2..Len(s) : s[f[i]] = t[i]
  BY DEF Embeds
<1>2. \A i \in 2..Len(s) : f[i] = i
  BY <1>1, IncreasingIsIdentity
<1> QED BY <1>1, <1>2

\* A file that embeds all of a transcript holds it.
LEMMA EmbedsHolds ==
  ASSUME NEW k \in 0..MaxLines, MaxLines \in Nat, NEW s, NEW t,
         Transcript(s, k), Transcript(t, k),
         Embeds(s, t, Len(t))
  PROVE  Holds(s, t)
<1>1. PICK f \in [2..Len(t) -> 2..Len(s)] :
        /\ \A i, j \in 2..Len(t) : i < j => f[i] < f[j]
        /\ \A i \in 2..Len(t) : s[f[i]] = t[i]
  BY DEF Embeds
<1>2. /\ Len(s) \in Nat /\ DOMAIN s = 1..Len(s)
      /\ Len(t) \in Nat /\ DOMAIN t = 1..Len(t)
  BY TranscriptLen
<1>3. \A i \in 1..Len(t) : t[i] \in Entry => i \in 2..Len(t)
  BY <1>2 DEF Transcript, Header, Edited, Entry
<1>4. ToSet(t) \cap Entry \subseteq ToSet(s)
  BY <1>1, <1>2, <1>3 DEF ToSet
<1>5. ASSUME NEW i \in 2..Len(t), NEW p \in 1..Len(s), s[p] = t[i]
      PROVE  p = f[i]
  <2>1. f[i] \in 2..Len(s) /\ s[f[i]] = s[p]
    BY <1>1, <1>5
  <2>2. f[i] \in 1..Len(s)
    BY <2>1
  <2> QED BY <2>1, <2>2, <1>2 DEF Transcript, IsInjective
<1>6. ASSUME NEW i \in 1..Len(t), NEW j \in 1..Len(t), NEW p \in 1..Len(s), NEW q \in 1..Len(s),
             s[p] = t[i], s[q] = t[j], t[i] \in Entry, t[j] \in Entry
      PROVE  i < j <=> p < q
  <2>1. i \in 2..Len(t) /\ j \in 2..Len(t)
    BY <1>3, <1>6
  <2>2. p = f[i] /\ q = f[j] /\ f[i] \in Nat /\ f[j] \in Nat
    BY <1>1, <1>5, <1>6, <2>1
  <2>3. i < j => f[i] < f[j]
    BY <1>1, <2>1
  <2>4. j < i => f[j] < f[i]
    BY <1>1, <2>1
  <2> QED BY <2>1, <2>2, <2>3, <2>4
<1> QED BY <1>2, <1>4, <1>6 DEF Holds

(***************************************************************************)
(* The directory.                                                          *)
(***************************************************************************)
TaskRec == [st : TaskSteps, live : BOOLEAN, lines : Seq(Line), size : Nat]

\* TypeOK in three parts: the directory, the managers, the rest.
DirTyped ==
    /\ files \in [Ino -> Seq(Line)]
    /\ target \in Ino \cup {None}
    /\ baks \in Seq(Ino)
    /\ scan \in Ino \cup {None}
    /\ writer \in [Manager -> Ino \cup {None}]

MgrTyped ==
    /\ up \in [Manager -> BOOLEAN]
    /\ mem \in [Manager -> Seq(Line)]
    /\ current \in [Manager -> BOOLEAN]
    /\ size \in [Manager -> Nat]
    /\ failed \in [Manager -> BOOLEAN]
    /\ fenced \in [Manager -> BOOLEAN]
    /\ tasks \in [Manager -> [Task -> TaskRec]]
    /\ op \in [Manager -> OpType \cup {None}]

EnvTyped ==
    /\ holder \in Manager \cup {None}
    /\ made \in 0..MaxLines /\ crashes \in 0..MaxCrashes /\ faults \in 0..MaxFaults
    /\ raced \in BOOLEAN

LEMMA TypeParts == TypeOK <=> DirTyped /\ MgrTyped /\ EnvTyped
BY DEF TypeOK, DirTyped, MgrTyped, EnvTyped, TaskRec

\* The inodes that have a name or are open.
Refs == {target} \cup ToSet(baks) \cup {writer[m] : m \in Manager}

\* The names are of different inodes, and every backup is due to a fault.
Names ==
    /\ \A i, j \in 1..Len(baks) : baks[i] = baks[j] => i = j
    /\ target \notin ToSet(baks)
    /\ Len(baks) <= faults

\* What nothing refers to is empty when it is used again.
Garbage == \A i \in Ino : i \notin Refs => files[i] = <<>>

\* s without its line p.
LEMMA RemoveAtIs ==
  ASSUME NEW R, NEW q \in Seq(R), NEW p \in 1..Len(q)
  PROVE  /\ RemoveAt(q, p) \in Seq(R) /\ Len(RemoveAt(q, p)) = Len(q) - 1
         /\ \A j \in 1..(Len(q) - 1) : RemoveAt(q, p)[j] = IF j < p THEN q[j] ELSE q[j + 1]
<1> DEFINE front == SubSeq(q, 1, p - 1)
           back == SubSeq(q, p + 1, Len(q))
<1>0. Len(q) \in Nat /\ p \in Nat /\ \A i \in 1..Len(q) : q[i] \in R
  OBVIOUS
<1>1. /\ front \in Seq(R) /\ Len(front) = p - 1
      /\ \A i \in 1..(p - 1) : front[i] = q[i]
  BY <1>0
<1>2. /\ back \in Seq(R) /\ Len(back) = Len(q) - p
      /\ \A i \in 1..(Len(q) - p) : back[i] = q[i + p]
  BY <1>0
<1> HIDE DEF front, back
<1>3. /\ front \o back \in Seq(R) /\ Len(front \o back) = Len(front) + Len(back)
      /\ \A i \in 1..(Len(front) + Len(back)) :
           (front \o back)[i] = IF i <= Len(front) THEN front[i] ELSE back[i - Len(front)]
  BY <1>1, <1>2, ConcatProperties
<1>4. RemoveAt(q, p) = front \o back
  BY DEF RemoveAt, front, back
<1>5. \A j \in 1..(Len(q) - 1) : (front \o back)[j] = IF j < p THEN q[j] ELSE q[j + 1]
  <2> TAKE j \in 1..(Len(q) - 1)
  <2>1. CASE j < p
    BY <2>1, <1>0, <1>1, <1>2, <1>3
  <2>2. CASE ~(j < p)
    <3>1. (front \o back)[j] = back[j - (p - 1)]
      BY <2>2, <1>0, <1>1, <1>2, <1>3
    <3>2. back[j - (p - 1)] = q[(j - (p - 1)) + p] /\ (j - (p - 1)) + p = j + 1
      BY <2>2, <1>0, <1>2
    <3> QED BY <3>1, <3>2, <2>2
  <2> QED BY <2>1, <2>2
<1>6. Len(front \o back) = Len(q) - 1
  BY <1>0, <1>1, <1>2, <1>3
<1> HIDE DEF RemoveAt
<1> QED BY <1>3, <1>4, <1>5, <1>6

\* The .bak names without e.
LEMMA RemoveFirstIs ==
  ASSUME NEW b \in Seq(Ino), \A i, j \in 1..Len(b) : b[i] = b[j] => i = j, NEW e
  PROVE  LET r == RemoveFirst(b, e)
         IN  /\ r \in Seq(Ino) /\ ToSet(r) = ToSet(b) \ {e}
             /\ \A i, j \in 1..Len(r) : r[i] = r[j] => i = j
             /\ Len(r) = IF e \in ToSet(b) THEN Len(b) - 1 ELSE Len(b)
<1>1. CASE e \notin ToSet(b)
  <2>1. ~\E i \in 1..Len(b) : b[i] = e
    BY <1>1 DEF ToSet
  <2>2. RemoveFirst(b, e) = b
    BY <2>1 DEF RemoveFirst
  <2> QED BY <1>1, <2>2
<1>2. CASE e \in ToSet(b)
  <2>1. PICK p \in 1..Len(b) : b[p] = e
    BY <1>2 DEF ToSet
  <2>2. {i \in 1..Len(b) : b[i] = e} = {p}
    BY <2>1
  <2>3. SelectInSeq(b, LAMBDA v : v = e) = p
    <3>1. Min({p}) = p
      BY DEF Min
    <3> QED BY <2>2, <3>1 DEF SelectInSeq
  <2>4. RemoveFirst(b, e) = RemoveAt(b, p)
    BY <2>1, <2>3 DEF RemoveFirst
  <2> DEFINE r == RemoveFirst(b, e)
             s == RemoveAt(b, p)
  <2>5. /\ r \in Seq(Ino) /\ Len(r) = Len(b) - 1
        /\ \A j \in 1..(Len(b) - 1) : r[j] = IF j < p THEN b[j] ELSE b[j + 1]
    <3>1. /\ s \in Seq(Ino) /\ Len(s) = Len(b) - 1
          /\ \A j \in 1..(Len(b) - 1) : s[j] = IF j < p THEN b[j] ELSE b[j + 1]
      BY <2>1, RemoveAtIs
    <3>2. r = s
      BY <2>4
    <3> HIDE DEF r, s
    <3> QED BY <3>1, <3>2
  <2> HIDE DEF r
  <2>6. \A i, j \in 1..Len(r) : r[i] = r[j] => i = j
    <3> TAKE i, j \in 1..Len(r)
    <3> DEFINE at(k) == IF k < p THEN k ELSE k + 1
    <3>1. at(i) \in 1..Len(b) /\ at(j) \in 1..Len(b) /\ r[i] = b[at(i)] /\ r[j] = b[at(j)]
      BY <2>1, <2>5
    <3>2. at(i) = at(j) => i = j
      BY <2>1, <2>5
    <3> QED BY <3>1, <3>2
  <2>7. ToSet(r) \subseteq ToSet(b) \ {e}
    <3> SUFFICES ASSUME NEW i \in 1..Len(r) PROVE r[i] \in ToSet(b) /\ r[i] # e
      BY <2>5 DEF ToSet
    <3>1. i < p => r[i] = b[i] /\ i \in 1..Len(b) /\ i # p
      BY <2>1, <2>5
    <3>2. ~(i < p) => r[i] = b[i + 1] /\ i + 1 \in 1..Len(b) /\ i + 1 # p
      BY <2>1, <2>5
    <3> QED BY <2>1, <3>1, <3>2 DEF ToSet
  <2>8. ToSet(b) \ {e} \subseteq ToSet(r)
    <3> SUFFICES ASSUME NEW i \in 1..Len(b), b[i] # e PROVE b[i] \in ToSet(r)
      BY DEF ToSet
    <3>1. CASE i < p
      <4>1. r[i] = b[i] /\ i \in 1..Len(r)
        BY <2>1, <2>5, <3>1
      <4> QED BY <2>5, <4>1 DEF ToSet
    <3>2. CASE ~(i < p)
      <4>1. r[i - 1] = b[i] /\ i - 1 \in 1..Len(r)
        BY <2>1, <2>5, <3>2
      <4> QED BY <2>5, <4>1 DEF ToSet
    <3> QED BY <3>1, <3>2
  <2>9. ToSet(r) = ToSet(b) \ {e} /\ Len(r) = IF e \in ToSet(b) THEN Len(b) - 1 ELSE Len(b)
    BY <1>2, <2>5, <2>7, <2>8
  <2> QED BY <2>5, <2>6, <2>9 DEF r
<1> QED BY <1>1, <1>2

\* The .bak names with i at the end.
LEMMA AppendName ==
  ASSUME NEW b \in Seq(Ino), \A i, j \in 1..Len(b) : b[i] = b[j] => i = j,
         NEW e \in Ino, e \notin ToSet(b)
  PROVE  /\ Append(b, e) \in Seq(Ino) /\ ToSet(Append(b, e)) = ToSet(b) \cup {e}
         /\ \A i, j \in 1..Len(Append(b, e)) : Append(b, e)[i] = Append(b, e)[j] => i = j
         /\ Len(Append(b, e)) = Len(b) + 1 /\ Append(b, e)[Len(b) + 1] = e
<1> DEFINE r == Append(b, e)
<1>1. /\ r \in Seq(Ino) /\ Len(r) = Len(b) + 1 /\ r[Len(b) + 1] = e
      /\ \A i \in 1..Len(b) : r[i] = b[i]
  OBVIOUS
<1>2. Len(b) \in Nat /\ \A i \in 1..Len(b) : b[i] # e
  BY DEF ToSet
<1> HIDE DEF r
<1>3. \A i \in 1..Len(r) : i \in 1..Len(b) \/ i = Len(b) + 1
  BY <1>1, <1>2
<1>4. \A i, j \in 1..Len(r) : r[i] = r[j] => i = j
  BY <1>1, <1>2, <1>3
<1>5. ToSet(r) = ToSet(b) \cup {e}
  <2>1. ToSet(r) \subseteq ToSet(b) \cup {e}
    BY <1>1, <1>3 DEF ToSet
  <2>2. ToSet(b) \subseteq ToSet(r)
    <3>1. \A i \in 1..Len(b) : i \in 1..Len(r)
      BY <1>1, <1>2
    <3> QED BY <1>1, <3>1 DEF ToSet
  <2>3. e \in ToSet(r)
    BY <1>1, <1>2 DEF ToSet
  <2> QED BY <2>1, <2>2, <2>3
<1> QED BY <1>1, <1>4, <1>5 DEF r

LEMMA TouchedIs ==
  ASSUME NEW b \in Seq(Ino), \A i, j \in 1..Len(b) : b[i] = b[j] => i = j, NEW e \in Ino
  PROVE  LET r == Touched(b, e)
         IN  /\ r \in Seq(Ino) /\ ToSet(r) = ToSet(b) /\ Len(r) = Len(b)
             /\ \A i, j \in 1..Len(r) : r[i] = r[j] => i = j
<1>1. CASE e \in ToSet(b)
  <2> DEFINE q == RemoveFirst(b, e)
  <2>1. /\ q \in Seq(Ino) /\ ToSet(q) = ToSet(b) \ {e} /\ Len(q) = Len(b) - 1
        /\ \A i, j \in 1..Len(q) : q[i] = q[j] => i = j
    BY <1>1, RemoveFirstIs
  <2>2. Touched(b, e) = Append(q, e)
    BY <1>1 DEF Touched
  <2> HIDE DEF q
  <2>3. /\ Append(q, e) \in Seq(Ino) /\ ToSet(Append(q, e)) = ToSet(q) \cup {e}
        /\ Len(Append(q, e)) = Len(q) + 1
        /\ \A i, j \in 1..Len(Append(q, e)) : Append(q, e)[i] = Append(q, e)[j] => i = j
    BY <2>1, AppendName
  <2>4. ToSet(q) \cup {e} = ToSet(b) /\ Len(q) + 1 = Len(b)
    BY <1>1, <2>1
  <2> QED BY <2>2, <2>3, <2>4
<1>2. CASE e \notin ToSet(b)
  BY <1>2 DEF Touched
<1> QED BY <1>1, <1>2

\* There are inodes enough.
LEMMA FreshIs ==
  ASSUME DirTyped, Names, EnvTyped
  PROVE  Fresh \in Ino /\ Fresh \notin Refs
<1> DEFINE W == {writer[m] : m \in Manager}
           B == ToSet(baks)
<1>1. IsFiniteSet(B) /\ Cardinality(B) <= Len(baks)
  <2>1. Len(baks) \in Nat /\ baks \in Surjection(1..Len(baks), B)
    <3>1. Len(baks) \in Nat /\ DOMAIN baks = 1..Len(baks) /\ baks = [i \in 1..Len(baks) |-> baks[i]]
      BY DEF DirTyped
    <3>2. B = {baks[i] : i \in 1..Len(baks)}
      BY <3>1 DEF ToSet
    <3>3. baks \in [1..Len(baks) -> B]
      BY <3>1, <3>2
    <3> QED BY <3>1, <3>2, <3>3 DEF Surjection
  <2>2. IsFiniteSet(1..Len(baks)) /\ Cardinality(1..Len(baks)) = Len(baks)
    <3>1. 1 \in Int /\ Len(baks) \in Int
      BY <2>1
    <3>2. /\ IsFiniteSet(1..Len(baks))
          /\ Cardinality(1..Len(baks)) = IF 1 > Len(baks) THEN 0 ELSE Len(baks) - 1 + 1
      BY <3>1, FS_Interval
    <3> QED BY <2>1, <3>2
  <2> QED BY <2>1, <2>2, FS_Surjection
<1>2. IsFiniteSet(W) /\ Cardinality(W) <= Cardinality(Manager)
  <2>1. writer \in Surjection(Manager, W)
    BY DEF DirTyped, Surjection
  <2> QED BY <2>1, FileAssumption, FS_Surjection
<1>3. IsFiniteSet({target}) /\ Cardinality({target}) = 1
  BY FS_Singleton
<1>4. /\ Cardinality(B) \in Nat /\ Cardinality(W) \in Nat /\ Cardinality(Manager) \in Nat
      /\ Cardinality(Ino) \in Nat
  BY <1>1, <1>2, FileAssumption, FS_CardinalityType
<1> HIDE DEF W, B
<1>5. /\ IsFiniteSet({target} \cup B) /\ Cardinality({target} \cup B) \in Nat
      /\ Cardinality({target} \cup B) <= 1 + Cardinality(B)
  <2>1. /\ IsFiniteSet({target} \cup B)
        /\ Cardinality({target} \cup B)
             = Cardinality({target}) + Cardinality(B) - Cardinality({target} \cap B)
    BY <1>1, <1>3, FS_Union
  <2>2. Cardinality({target} \cap B) \in Nat
    BY <1>3, FS_Intersection, FS_CardinalityType
  <2> QED BY <1>3, <1>4, <2>1, <2>2, FS_CardinalityType
<1>6. /\ IsFiniteSet({target} \cup B \cup W) /\ Cardinality({target} \cup B \cup W) \in Nat
      /\ Cardinality({target} \cup B \cup W) <= 1 + Cardinality(B) + Cardinality(W)
  <2>1. /\ IsFiniteSet({target} \cup B \cup W)
        /\ Cardinality({target} \cup B \cup W)
             = Cardinality({target} \cup B) + Cardinality(W)
               - Cardinality(({target} \cup B) \cap W)
    BY <1>2, <1>5, FS_Union
  <2>2. Cardinality(({target} \cup B) \cap W) \in Nat
    BY <1>5, FS_Intersection, FS_CardinalityType
  <2> QED BY <1>4, <1>5, <2>1, <2>2, FS_CardinalityType
<1>7. Len(baks) <= MaxFaults /\ Len(baks) \in Nat /\ MaxFaults \in Nat
  BY FileAssumption DEF Names, EnvTyped, DirTyped
<1>8. Cardinality({target} \cup B \cup W) < Cardinality(Ino)
  BY <1>1, <1>2, <1>4, <1>6, <1>7, FileAssumption
<1>9. ~(Ino \subseteq {target} \cup B \cup W)
  <2> SUFFICES ASSUME Ino \subseteq {target} \cup B \cup W PROVE FALSE
    OBVIOUS
  <2>1. Cardinality(Ino) <= Cardinality({target} \cup B \cup W)
    BY <1>6, FS_Subset
  <2> QED BY <1>4, <1>6, <1>8, <2>1
<1>10. \E i \in Ino : i \notin {target} \cup ToSet(baks) \cup {writer[m] : m \in Manager}
  BY <1>9 DEF W, B
<1> QED BY <1>10 DEF Fresh, Refs

\* What a step leaves in the directory.
LEMMA DiskIs ==
  ASSUME NEW f \in [Ino -> Seq(Line)], NEW t \in Ino \cup {None}, NEW b \in Seq(Ino),
         NEW w \in [Manager -> Ino \cup {None}], scan \in Ino \cup {None},
         Disk(f, t, b, w)
  PROVE  /\ DirTyped' /\ Garbage'
         /\ target' = t /\ baks' = b /\ writer' = w
         /\ \A i \in Ino : i = t \/ i \in ToSet(b) => files'[i] = f[i]
         /\ \A i \in Ino : files'[i] \in {f[i], <<>>}
<1>1. DirTyped'
  BY DEF Disk, DirTyped
<1>2. Garbage'
  BY DEF Disk, Garbage, Refs
<1> QED BY <1>1, <1>2 DEF Disk

(***************************************************************************)
(* What the steps do to the state of their manager.                        *)
(***************************************************************************)
\* Nothing of n changes.
Kept(n) ==
    /\ up'[n] = up[n] /\ mem'[n] = mem[n] /\ current'[n] = current[n] /\ size'[n] = size[n]
    /\ failed'[n] = failed[n] /\ writer'[n] = writer[n] /\ fenced'[n] = fenced[n]
    /\ tasks'[n] = tasks[n] /\ op'[n] = op[n]

\* The write of m takes a step.
OpMoves(m, step) ==
    /\ op'[m] # None /\ op'[m].step = step
    /\ op'[m].kind = op[m].kind /\ op'[m].task = op[m].task
    /\ op'[m].lines = op[m].lines /\ op'[m].size = op[m].size

\* A write of m begins.
OpBegins(m, kind, task, lines, sz) ==
    /\ op'[m] # None /\ op'[m].step = "lock"
    /\ op'[m].kind = kind /\ op'[m].task = task
    /\ op'[m].lines = lines /\ op'[m].size = sz

\* The rewrite t of m takes a step, or ends.
TaskMoves(m, t, st) ==
    /\ \A u \in Task \ {t} : tasks'[m][u] = tasks[m][u]
    /\ tasks'[m][t].st = st /\ tasks'[m][t].live = tasks[m][t].live
    /\ tasks'[m][t].lines = tasks[m][t].lines /\ tasks'[m][t].size = tasks[m][t].size

TaskEnds(m, t) ==
    /\ \A u \in Task \ {t} : tasks'[m][u] = tasks[m][u]
    /\ tasks'[m][t] = NoTask

Ends(m, t) == TaskEnds(m, t) /\ fenced'[m] = (fenced[m] /\ ~tasks[m][t].live)

TasksTyped == tasks \in [Manager -> [Task -> TaskRec]]
OpsTyped == op \in [Manager -> OpType \cup {None}]

LEMMA NoTaskTyped == NoTask \in TaskRec
BY DEF NoTask, TaskRec, TaskSteps

LEMMA SizeTyped ==
  ASSUME NEW s \in Seq(Line)
  PROVE  Size(s) \in Nat
BY FileAssumption DEF Size

LEMMA OpTyped ==
  ASSUME NEW kind \in {"append", "rewrite", "publish"}, NEW task \in Task \cup {None},
         NEW lines \in Seq(Line), NEW sz \in Nat
  PROVE  Op(kind, task, lines, sz) \in OpType
BY DEF Op, OpType

\* A task that moves to another step.
LEMMA TaskStep ==
  ASSUME TasksTyped, NEW m \in Manager, NEW t \in Task, NEW st \in TaskSteps,
         tasks' = [tasks EXCEPT ![m][t].st = st]
  PROVE  TasksTyped' /\ TaskMoves(m, t, st)
<1>1. tasks[m][t] \in TaskRec /\ tasks[m] \in [Task -> TaskRec]
  BY DEF TasksTyped
<1> DEFINE new == [tasks[m][t] EXCEPT !.st = st]
<1>2. /\ new \in TaskRec /\ new.st = st /\ new.live = tasks[m][t].live
      /\ new.lines = tasks[m][t].lines /\ new.size = tasks[m][t].size
  BY <1>1 DEF TaskRec
<1>3. tasks' = [tasks EXCEPT ![m] = [tasks[m] EXCEPT ![t] = new]]
  OBVIOUS
<1> HIDE DEF new
<1>4. tasks'[m] = [tasks[m] EXCEPT ![t] = new]
  BY <1>3 DEF TasksTyped
<1>5. tasks'[m][t] = new /\ \A u \in Task \ {t} : tasks'[m][u] = tasks[m][u]
  BY <1>4 DEF TasksTyped
<1>6. TasksTyped'
  <2>1. [tasks[m] EXCEPT ![t] = new] \in [Task -> TaskRec]
    BY <1>1, <1>2
  <2> QED BY <1>3, <2>1 DEF TasksTyped
<1> QED BY <1>2, <1>5, <1>6 DEF TaskMoves

\* A task whose record is replaced.
LEMMA TaskSet ==
  ASSUME TasksTyped, NEW m \in Manager, NEW t \in Task, NEW new \in TaskRec,
         tasks' = [tasks EXCEPT ![m] = [tasks[m] EXCEPT ![t] = new]]
  PROVE  TasksTyped' /\ tasks'[m][t] = new /\ \A u \in Task \ {t} : tasks'[m][u] = tasks[m][u]
<1>1. tasks'[m] = [tasks[m] EXCEPT ![t] = new]
  BY DEF TasksTyped
<1>2. TasksTyped'
  BY DEF TasksTyped
<1> QED BY <1>1, <1>2 DEF TasksTyped

LEMMA ClearStep ==
  ASSUME TasksTyped, NEW m \in Manager, NEW t \in Task, Clear(m, t)
  PROVE  TasksTyped' /\ TaskEnds(m, t)
<1>1. tasks' = [tasks EXCEPT ![m] = [tasks[m] EXCEPT ![t] = NoTask]]
  BY DEF Clear
<1> DEFINE new == NoTask
<1>2. new \in TaskRec /\ tasks' = [tasks EXCEPT ![m] = [tasks[m] EXCEPT ![t] = new]]
  BY <1>1, NoTaskTyped
<1> HIDE DEF new
<1>3. TasksTyped' /\ tasks'[m][t] = new /\ \A u \in Task \ {t} : tasks'[m][u] = tasks[m][u]
  BY <1>2, TaskSet
<1> QED BY <1>3 DEF TaskEnds, new

LEMMA EndStep ==
  ASSUME MgrTyped, NEW m \in Manager, NEW t \in Task, EndTask(m, t)
  PROVE  /\ TasksTyped' /\ TaskEnds(m, t)
         /\ fenced' \in [Manager -> BOOLEAN]
         /\ fenced'[m] = (fenced[m] /\ ~tasks[m][t].live)
<1>1. TasksTyped' /\ TaskEnds(m, t)
  BY ClearStep DEF EndTask, MgrTyped, TasksTyped
<1>2. tasks[m][t].live \in BOOLEAN /\ fenced[m] \in BOOLEAN
  BY DEF MgrTyped, TaskRec
<1>3. fenced' = [fenced EXCEPT ![m] = fenced[m] /\ ~tasks[m][t].live]
  BY DEF EndTask
<1>4. fenced' \in [Manager -> BOOLEAN]
  BY <1>2, <1>3 DEF MgrTyped
<1>5. fenced'[m] = (fenced[m] /\ ~tasks[m][t].live)
  BY <1>3, Zenon DEF MgrTyped
<1> QED BY <1>1, <1>4, <1>5

LEMMA OpStep ==
  ASSUME OpsTyped, NEW m \in Manager, op[m] # None,
         NEW step \in {"lock", "in", "aside", "swapped"}, op' = [op EXCEPT ![m].step = step]
  PROVE  OpsTyped' /\ OpMoves(m, step) /\ op'[m].bak = op[m].bak
<1>1. op[m] \in OpType
  BY DEF OpsTyped
<1> DEFINE new == [op[m] EXCEPT !.step = step]
<1>2. /\ new \in OpType /\ new.step = step /\ new.kind = op[m].kind /\ new.task = op[m].task
      /\ new.lines = op[m].lines /\ new.size = op[m].size /\ new.bak = op[m].bak
  BY <1>1 DEF OpType
<1>3. op' = [op EXCEPT ![m] = new]
  OBVIOUS
<1> HIDE DEF new
<1>4. op'[m] = new /\ OpsTyped'
  BY <1>2, <1>3 DEF OpsTyped
<1> QED BY <1>2, <1>4, NoneIsNoWrite DEF OpMoves

LEMMA OpStart ==
  ASSUME OpsTyped, NEW m \in Manager,
         NEW kind \in {"append", "rewrite", "publish"}, NEW task \in Task \cup {None},
         NEW lines \in Seq(Line), NEW sz \in Nat,
         op' = [op EXCEPT ![m] = Op(kind, task, lines, sz)]
  PROVE  OpsTyped' /\ OpBegins(m, kind, task, lines, sz)
<1> DEFINE new == Op(kind, task, lines, sz)
<1>1. /\ new \in OpType /\ new.step = "lock" /\ new.kind = kind /\ new.task = task
      /\ new.lines = lines /\ new.size = sz
  BY OpTyped DEF Op
<1>2. op' = [op EXCEPT ![m] = new]
  OBVIOUS
<1> HIDE DEF new
<1>3. op'[m] = new /\ OpsTyped'
  BY <1>1, <1>2 DEF OpsTyped
<1> QED BY <1>1, <1>3, NoneIsNoWrite DEF OpBegins

\* A write that throws is latched, at once or by the task that waits for it.
LEMMA ThrowStep ==
  ASSUME MgrTyped, NEW m \in Manager, op[m] # None,
         op[m].kind = "publish" => op[m].task \in Task, Throw(m)
  PROVE  /\ TasksTyped' /\ OpsTyped' /\ op'[m] = None
         /\ failed' \in [Manager -> BOOLEAN] /\ current' \in [Manager -> BOOLEAN]
         /\ op[m].kind = "publish" => /\ failed' = failed /\ current' = current
                                      /\ TaskMoves(m, op[m].task, "reading")
         /\ op[m].kind # "publish" => failed'[m] = TRUE /\ tasks' = tasks
<1>1. op' = [op EXCEPT ![m] = None]
  BY DEF Throw, Fail
<1>2. OpsTyped' /\ op'[m] = None
  BY <1>1 DEF MgrTyped, OpsTyped
<1>3. CASE op[m].kind = "publish"
  <2>1. failed' = failed /\ current' = current
    BY <1>3 DEF Throw
  <2>2. tasks' = [tasks EXCEPT ![m][op[m].task].st = "reading"]
    BY <1>3 DEF Throw
  <2>3. TasksTyped' /\ TaskMoves(m, op[m].task, "reading")
    BY <1>3, <2>2, TaskStep DEF MgrTyped, TasksTyped, TaskSteps
  <2> QED BY <1>2, <1>3, <2>1, <2>3 DEF MgrTyped
<1>4. CASE op[m].kind # "publish"
  <2>1. failed' = [failed EXCEPT ![m] = TRUE] /\ tasks' = tasks
    BY <1>4 DEF Throw, Fail
  <2>2. current' = [current EXCEPT ![m] = current[m] /\ op[m].kind # "append"]
    BY <1>4 DEF Throw
  <2>3. current' \in [Manager -> BOOLEAN]
    BY <2>2 DEF MgrTyped
  <2> QED BY <1>2, <1>4, <2>1, <2>3 DEF MgrTyped, TasksTyped
<1> QED BY <1>3, <1>4

\* A write that landed is recorded, and the task that waited for it ends.
LEMMA DoneStep ==
  ASSUME MgrTyped, NEW m \in Manager, op[m] # None,
         op[m].kind = "publish" => op[m].task \in Task, Done(m)
  PROVE  /\ TasksTyped' /\ OpsTyped' /\ op'[m] = None
         /\ failed' \in [Manager -> BOOLEAN] /\ current' \in [Manager -> BOOLEAN]
         /\ size' \in [Manager -> Nat] /\ fenced' \in [Manager -> BOOLEAN]
         /\ size'[m] = Size(op[m].lines)
         /\ op[m].kind = "publish" => failed' = failed /\ Ends(m, op[m].task)
         /\ op[m].kind # "publish" => failed'[m] = FALSE /\ UNCHANGED <<tasks, fenced>>
<1>1. /\ op' = [op EXCEPT ![m] = None] /\ current' = [current EXCEPT ![m] = TRUE]
      /\ size' = [size EXCEPT ![m] = Size(op[m].lines)]
  BY DEF Done
<1>2. Size(op[m].lines) \in Nat
  BY SizeTyped DEF MgrTyped, OpType
<1>3. /\ OpsTyped' /\ op'[m] = None /\ current' \in [Manager -> BOOLEAN]
      /\ size' \in [Manager -> Nat] /\ size'[m] = Size(op[m].lines)
  BY <1>1, <1>2 DEF MgrTyped, OpsTyped
<1>4. CASE op[m].kind = "publish"
  <2> DEFINE k == op[m].task
  <2>1. k \in Task /\ failed' = failed /\ EndTask(m, k)
    BY <1>4 DEF Done
  <2> HIDE DEF k
  <2>2. TasksTyped' /\ fenced' \in [Manager -> BOOLEAN] /\ Ends(m, k)
    BY <2>1, EndStep DEF Ends
  <2> QED BY <1>3, <1>4, <2>1, <2>2 DEF MgrTyped, k
<1>5. CASE op[m].kind # "publish"
  <2>1. failed' = [failed EXCEPT ![m] = FALSE] /\ UNCHANGED <<tasks, fenced>>
    BY <1>5 DEF Done
  <2> QED BY <1>3, <1>5, <2>1 DEF MgrTyped, TasksTyped
<1> QED BY <1>4, <1>5

\* A synchronous rewrite begins: it supersedes every task.
LEMMA RewriteStep ==
  ASSUME DirTyped, MgrTyped, NEW m \in Manager, NEW lines \in Seq(Line), RewriteSync(m, lines)
  PROVE  /\ TasksTyped' /\ OpsTyped' /\ fenced' \in [Manager -> BOOLEAN]
         /\ OpBegins(m, "rewrite", None, lines, size[m])
         /\ fenced'[m] = FALSE
         /\ \A t \in Task : /\ tasks'[m][t].st = tasks[m][t].st
                            /\ tasks'[m][t].live = FALSE
                            /\ tasks'[m][t].lines = tasks[m][t].lines
                            /\ tasks'[m][t].size = tasks[m][t].size
         /\ Disk(files, target, baks, Closed(m))
<1>1. OpsTyped' /\ OpBegins(m, "rewrite", None, lines, size[m])
  <2>1. size[m] \in Nat /\ op' = [op EXCEPT ![m] = Op("rewrite", None, lines, size[m])]
    BY DEF MgrTyped, RewriteSync
  <2> QED BY <2>1, OpStart DEF MgrTyped, OpsTyped
<1> DEFINE new == [t \in Task |-> [tasks[m][t] EXCEPT !.live = FALSE]]
<1>2. \A t \in Task : /\ new[t] \in TaskRec /\ new[t].st = tasks[m][t].st /\ new[t].live = FALSE
                      /\ new[t].lines = tasks[m][t].lines /\ new[t].size = tasks[m][t].size
  <2> TAKE t \in Task
  <2>1. tasks[m][t] \in TaskRec
    BY DEF MgrTyped
  <2> QED BY <2>1 DEF TaskRec
<1>3. tasks' = [tasks EXCEPT ![m] = new]
  BY DEF RewriteSync
<1>4. new \in [Task -> TaskRec]
  BY <1>2
<1> HIDE DEF new
<1>5. TasksTyped' /\ tasks'[m] = new
  BY <1>3, <1>4 DEF MgrTyped, TasksTyped
<1>6. fenced' \in [Manager -> BOOLEAN] /\ fenced'[m] = FALSE
  BY DEF RewriteSync, MgrTyped
<1>7. Disk(files, target, baks, Closed(m))
  BY DEF RewriteSync
<1> QED BY <1>1, <1>2, <1>5, <1>6, <1>7

\* What a write that throws, or is done, needs of its manager.
WaitsFor(m) == op[m].kind = "publish" => op[m].task \in Task

LEMMA ResumeIs ==
  ASSUME DirTyped, MgrTyped, NEW m \in Manager, Resume(m)
  PROVE  /\ MgrTyped' /\ UNCHANGED <<files, target, baks, scan, writer, failed, fenced, tasks, op>>
         /\ target \in Ino
         /\ up'[m] = TRUE /\ mem'[m] = files[target] /\ size'[m] = Size(files[target])
<1>1. target \in Ino
  BY DEF Resume, DirTyped
<1>2. files[target] \in Seq(Line) /\ Size(files[target]) \in Nat
  BY <1>1, SizeTyped DEF DirTyped
<1>3. /\ up' = [up EXCEPT ![m] = TRUE]
      /\ mem' = [mem EXCEPT ![m] = files[target]]
      /\ size' = [size EXCEPT ![m] = Size(files[target])]
      /\ UNCHANGED <<files, target, baks, scan, writer, failed, fenced, tasks, op>>
  BY DEF Resume, disk
<1>4. current' \in [Manager -> BOOLEAN]
  BY DEF Resume, MgrTyped
<1>5. MgrTyped'
  BY <1>2, <1>3, <1>4 DEF MgrTyped
<1> QED BY <1>1, <1>3, <1>5 DEF MgrTyped

\* The hot path opens what is at the path, or a new file.
AppendsHot(m) ==
    /\ writer[m] # None => UNCHANGED <<files, target, baks, scan, writer>>
    /\ writer[m] = None =>
         LET t == IF target = None THEN Fresh ELSE target
         IN  Disk(files, t, baks, [writer EXCEPT ![m] = t])

LEMMA AppendIs ==
  ASSUME DirTyped, MgrTyped, EnvTyped, NEW m \in Manager, AppendEntry(m)
  PROVE  /\ MgrTyped' /\ made' = made + 1 /\ made' \in Entry
         /\ up[m] /\ op[m] = None
         /\ up' = up /\ size' = size /\ failed' = failed
         /\ mem'[m] = Append(mem[m], made + 1)
         /\ \/ /\ OpBegins(m, "rewrite", None, mem'[m], size[m])
               /\ fenced'[m] = FALSE
               /\ \A t \in Task : /\ tasks'[m][t].st = tasks[m][t].st
                                  /\ tasks'[m][t].live = FALSE
                                  /\ tasks'[m][t].lines = tasks[m][t].lines
                                  /\ tasks'[m][t].size = tasks[m][t].size
               /\ Disk(files, target, baks, Closed(m))
            \/ /\ ~fenced[m] /\ current[m] /\ ~failed[m]
               /\ OpBegins(m, "append", None, <<made + 1>>, size[m])
               /\ fenced' = fenced /\ tasks' = tasks
               /\ AppendsHot(m)
<1>1. made + 1 \in Line /\ made + 1 \in Entry
  BY FileAssumption DEF EnvTyped, AppendEntry, Line, Entry, Edited
<1>2. mem' = [mem EXCEPT ![m] = Append(mem[m], made + 1)]
  BY DEF AppendEntry
<1>3. mem[m] \in Seq(Line) /\ Append(mem[m], made + 1) \in Seq(Line)
  BY <1>1 DEF MgrTyped
<1>4. mem'[m] = Append(mem[m], made + 1) /\ mem' \in [Manager -> Seq(Line)]
  BY <1>2, <1>3 DEF MgrTyped
<1>5. current' = [current EXCEPT ![m] = current[m] /\ ~failed[m]]
  BY DEF AppendEntry
<1>6. /\ current' \in [Manager -> BOOLEAN]
      /\ current'[m] = (current[m] /\ ~failed[m])
  BY <1>5 DEF MgrTyped
<1>7. up' = up /\ size' = size /\ failed' = failed /\ up[m] /\ op[m] = None /\ made' = made + 1
  BY DEF AppendEntry, Free
<1>8. CASE RewriteSync(m, mem'[m])
  <2>1. mem'[m] \in Seq(Line)
    BY <1>3, <1>4
  <2>2. /\ TasksTyped' /\ OpsTyped' /\ fenced' \in [Manager -> BOOLEAN]
        /\ OpBegins(m, "rewrite", None, mem'[m], size[m])
        /\ fenced'[m] = FALSE
        /\ \A t \in Task : /\ tasks'[m][t].st = tasks[m][t].st
                           /\ tasks'[m][t].live = FALSE
                           /\ tasks'[m][t].lines = tasks[m][t].lines
                           /\ tasks'[m][t].size = tasks[m][t].size
        /\ Disk(files, target, baks, Closed(m))
    BY <1>8, <2>1, RewriteStep
  <2>3. MgrTyped'
    BY <1>4, <1>6, <1>7, <2>2 DEF MgrTyped, TasksTyped, OpsTyped
  <2> QED BY <1>1, <1>4, <1>7, <2>2, <2>3
<1>9. CASE ~(fenced[m] \/ ~current'[m]) /\ AppendHot(m, made + 1)
  <2>1. ~fenced[m] /\ current[m] /\ ~failed[m]
    BY <1>6, <1>9 DEF MgrTyped
  <2>2. OpsTyped' /\ OpBegins(m, "append", None, <<made + 1>>, size[m])
    <3>1. <<made + 1>> \in Seq(Line) /\ size[m] \in Nat
      BY <1>1 DEF MgrTyped
    <3>2. op' = [op EXCEPT ![m] = Op("append", None, <<made + 1>>, size[m])]
      BY <1>9 DEF AppendHot
    <3> QED BY <3>1, <3>2, OpStart DEF MgrTyped, OpsTyped
  <2>3. fenced' = fenced /\ tasks' = tasks
    BY <1>9 DEF AppendHot
  <2>4. AppendsHot(m)
    BY <1>9 DEF AppendHot, AppendsHot, disk
  <2>5. MgrTyped'
    BY <1>4, <1>6, <1>7, <2>2, <2>3 DEF MgrTyped, OpsTyped
  <2> QED BY <1>1, <1>4, <1>7, <2>1, <2>2, <2>3, <2>4, <2>5
<1> QED BY <1>8, <1>9 DEF AppendEntry

LEMMA FlushIs ==
  ASSUME DirTyped, MgrTyped, NEW m \in Manager, FlushSync(m)
  PROVE  /\ MgrTyped' /\ up[m] /\ op[m] = None
         /\ UNCHANGED <<up, mem, size, failed>>
         /\ OpBegins(m, "rewrite", None, mem[m], size[m])
         /\ fenced'[m] = FALSE
         /\ \A t \in Task : /\ tasks'[m][t].st = tasks[m][t].st
                            /\ tasks'[m][t].live = FALSE
                            /\ tasks'[m][t].lines = tasks[m][t].lines
                            /\ tasks'[m][t].size = tasks[m][t].size
         /\ Disk(files, target, baks, Closed(m))
<1>1. mem[m] \in Seq(Line)
  BY DEF MgrTyped
<1>2. /\ TasksTyped' /\ OpsTyped' /\ fenced' \in [Manager -> BOOLEAN]
      /\ OpBegins(m, "rewrite", None, mem[m], size[m])
      /\ fenced'[m] = FALSE
      /\ \A t \in Task : /\ tasks'[m][t].st = tasks[m][t].st
                         /\ tasks'[m][t].live = FALSE
                         /\ tasks'[m][t].lines = tasks[m][t].lines
                         /\ tasks'[m][t].size = tasks[m][t].size
      /\ Disk(files, target, baks, Closed(m))
  BY <1>1, RewriteStep DEF FlushSync
<1>3. /\ UNCHANGED <<up, mem, size, failed, current>> /\ up[m] /\ op[m] = None
  BY DEF FlushSync, Free
<1>4. MgrTyped'
  BY <1>2, <1>3 DEF MgrTyped, TasksTyped, OpsTyped
<1> QED BY <1>2, <1>3, <1>4

(***************************************************************************)
(* The steps of the publish region.                                        *)
(***************************************************************************)
LEMMA EnterIs ==
  ASSUME MgrTyped, NEW m \in Manager, EnterRegion(m)
  PROVE  /\ MgrTyped' /\ op[m] # None /\ op[m].step = "lock" /\ OpMoves(m, "in")
         /\ holder' = m
         /\ UNCHANGED <<files, target, baks, scan, writer>>
         /\ UNCHANGED <<up, mem, size, failed, fenced, tasks>>
<1>1. OpsTyped' /\ OpMoves(m, "in")
  BY OpStep DEF EnterRegion, MgrTyped, OpsTyped
<1>2. /\ UNCHANGED <<files, target, baks, scan, writer>>
      /\ UNCHANGED <<up, mem, size, failed, fenced, tasks, current>>
      /\ op[m] # None /\ op[m].step = "lock" /\ holder' = m
  BY DEF EnterRegion, disk, Lock!Enter
<1>3. MgrTyped'
  BY <1>1, <1>2 DEF MgrTyped, OpsTyped
<1> QED BY <1>1, <1>2, <1>3

\* A write that throws.
Throws(m) ==
    /\ op[m] # None /\ op'[m] = None
    /\ op[m].kind = "publish" => failed' = failed /\ TaskMoves(m, op[m].task, "reading")
    /\ op[m].kind # "publish" => failed'[m] = TRUE /\ tasks' = tasks

LEMMA ThrowIs ==
  ASSUME MgrTyped, NEW m \in Manager, op[m] # None, WaitsFor(m), Throw(m),
         UNCHANGED <<up, mem, size, fenced>>
  PROVE  MgrTyped' /\ Throws(m)
<1>1. /\ TasksTyped' /\ OpsTyped' /\ op'[m] = None
      /\ failed' \in [Manager -> BOOLEAN] /\ current' \in [Manager -> BOOLEAN]
      /\ op[m].kind = "publish" => failed' = failed /\ TaskMoves(m, op[m].task, "reading")
      /\ op[m].kind # "publish" => failed'[m] = TRUE /\ tasks' = tasks
  BY ThrowStep DEF WaitsFor
<1>2. MgrTyped'
  BY <1>1 DEF MgrTyped, TasksTyped, OpsTyped
<1> QED BY <1>1, <1>2 DEF Throws

\* A write that is done.
Completes(m) ==
    /\ op[m] # None /\ op'[m] = None /\ size'[m] = Size(op[m].lines)
    /\ op[m].kind = "publish" => failed' = failed /\ Ends(m, op[m].task)
    /\ op[m].kind # "publish" => failed'[m] = FALSE /\ UNCHANGED <<tasks, fenced>>

LEMMA DoneIs ==
  ASSUME MgrTyped, NEW m \in Manager, op[m] # None, WaitsFor(m), Done(m), UNCHANGED <<up, mem>>
  PROVE  MgrTyped' /\ Completes(m)
<1>1. /\ TasksTyped' /\ OpsTyped' /\ op'[m] = None
      /\ failed' \in [Manager -> BOOLEAN] /\ current' \in [Manager -> BOOLEAN]
      /\ size' \in [Manager -> Nat] /\ fenced' \in [Manager -> BOOLEAN]
      /\ size'[m] = Size(op[m].lines)
      /\ op[m].kind = "publish" => failed' = failed /\ Ends(m, op[m].task)
      /\ op[m].kind # "publish" => failed'[m] = FALSE /\ UNCHANGED <<tasks, fenced>>
  BY DoneStep DEF WaitsFor
<1>2. MgrTyped'
  BY <1>1 DEF MgrTyped, TasksTyped, OpsTyped
<1> QED BY <1>1, <1>2 DEF Completes

LEMMA WriteLineIs ==
  ASSUME MgrTyped, NEW m \in Manager, WriteLine(m)
  PROVE  /\ MgrTyped' /\ op[m] # None /\ op[m].kind = "append" /\ op[m].step = "in"
         /\ op'[m] = None /\ size'[m] = size[m] + 1
         /\ UNCHANGED <<up, mem, failed, fenced, tasks>>
<1>1. /\ size' = [size EXCEPT ![m] = size[m] + 1] /\ op' = [op EXCEPT ![m] = None]
      /\ UNCHANGED <<up, mem, failed, fenced, tasks, current>>
      /\ op[m] # None /\ op[m].kind = "append" /\ op[m].step = "in"
  BY DEF WriteLine, At
<1>2. size[m] \in Nat
  BY DEF MgrTyped
<1> QED BY <1>1, <1>2 DEF MgrTyped

LEMMA MoveAsideIs ==
  ASSUME DirTyped, MgrTyped, NEW m \in Manager, MoveAside(m)
  PROVE  /\ MgrTyped' /\ target \in Ino /\ OpMoves(m, "aside") /\ op'[m].bak = target
         /\ op[m] # None /\ op[m].kind \in {"rewrite", "publish"} /\ op[m].step = "in"
         /\ Size(files[target]) = op[m].size
         /\ UNCHANGED <<up, mem, size, failed, fenced, tasks>>
<1>1. /\ op' = [op EXCEPT ![m].step = "aside", ![m].bak = target]
      /\ UNCHANGED <<up, mem, size, failed, fenced, tasks, current>>
      /\ op[m] # None /\ op[m].kind \in {"rewrite", "publish"} /\ op[m].step = "in"
      /\ SizeOf(target) = op[m].size
  BY DEF MoveAside, At
<1>2. op[m] \in OpType /\ op[m].size \in Nat
  BY <1>1 DEF MgrTyped, OpType
<1>3. target \in Ino /\ Size(files[target]) = op[m].size
  BY <1>1, <1>2, FileAssumption DEF SizeOf, DirTyped
<1> DEFINE new == [op[m] EXCEPT !.step = "aside", !.bak = target]
<1>4. /\ new \in OpType /\ new.step = "aside" /\ new.kind = op[m].kind /\ new.task = op[m].task
      /\ new.lines = op[m].lines /\ new.size = op[m].size /\ new.bak = target
  BY <1>2, <1>3 DEF OpType
<1>5. op' = [op EXCEPT ![m] = new]
  BY <1>1, Zenon
<1> HIDE DEF new
<1>6. op'[m] = new /\ OpsTyped'
  BY <1>4, <1>5 DEF MgrTyped, OpsTyped
<1>7. MgrTyped'
  BY <1>1, <1>6 DEF MgrTyped, OpsTyped
<1> QED BY <1>1, <1>3, <1>4, <1>6, <1>7, NoneIsNoWrite DEF OpMoves

LEMMA RenameAgainIs ==
  ASSUME MgrTyped, NEW m \in Manager, RenameAgain(m)
  PROVE  /\ MgrTyped' /\ op[m] # None /\ op[m].kind \in {"rewrite", "publish"}
         /\ op[m].step = "aside" /\ OpMoves(m, "swapped")
         /\ UNCHANGED <<up, mem, size, failed, fenced, tasks>>
<1>1. /\ op' = [op EXCEPT ![m].step = "swapped"]
      /\ UNCHANGED <<up, mem, size, failed, fenced, tasks, current>>
      /\ op[m] # None /\ op[m].kind \in {"rewrite", "publish"} /\ op[m].step = "aside"
  BY DEF RenameAgain, At
<1>2. OpsTyped' /\ OpMoves(m, "swapped")
  BY <1>1, OpStep DEF MgrTyped, OpsTyped
<1>3. MgrTyped'
  BY <1>1, <1>2 DEF MgrTyped, OpsTyped
<1> QED BY <1>1, <1>2, <1>3

(***************************************************************************)
(* The steps of an asynchronous rewrite, and a crash.                      *)
(***************************************************************************)
\* The header of a transcript is edited.
LEMMA EditIs ==
  ASSUME NEW s \in Seq(Line)
  PROVE  LET r == [s EXCEPT ![1] = Edited]
         IN  /\ r \in Seq(Line) /\ Len(r) = Len(s)
             /\ \A i \in 2..Len(s) : r[i] = s[i]
             /\ s # <<>> => r[1] = Edited
<1>1. Edited \in Line
  BY FileAssumption DEF Edited, Line
<1>2. CASE s = <<>>
  <2>1. [s EXCEPT ![1] = Edited] = s
    BY <1>2
  <2> QED BY <1>2, <2>1
<1>3. CASE s # <<>>
  <2>1. 1 \in 1..Len(s)
    BY <1>3
  <2> QED BY <1>1, <2>1, ExceptSeq
<1> QED BY <1>2, <1>3

LEMMA ScheduleIs ==
  ASSUME MgrTyped, NEW m \in Manager, NEW t \in Task, Schedule(m, t)
  PROVE  /\ MgrTyped' /\ up[m] /\ op[m] = None /\ tasks[m][t] = NoTask
         /\ UNCHANGED <<files, target, baks, scan, writer, up, size, failed, fenced, op>>
         /\ \A u \in Task \ {t} : tasks'[m][u] = tasks[m][u]
         /\ tasks'[m][t].st = "queued" /\ tasks'[m][t].live = TRUE
         /\ mem'[m] = mem[m] \/ mem'[m] = [mem[m] EXCEPT ![1] = Edited]
<1> DEFINE new == [NoTask EXCEPT !.st = "queued", !.live = TRUE]
<1>1. new \in TaskRec /\ new.st = "queued" /\ new.live = TRUE
  BY NoTaskTyped DEF TaskRec, TaskSteps
<1>2. tasks' = [tasks EXCEPT ![m] = [tasks[m] EXCEPT ![t] = new]]
  BY DEF Schedule
<1> HIDE DEF new
<1>3. TasksTyped' /\ tasks'[m][t] = new /\ \A u \in Task \ {t} : tasks'[m][u] = tasks[m][u]
  BY <1>1, <1>2, TaskSet DEF MgrTyped, TasksTyped
<1>4. /\ UNCHANGED <<files, target, baks, scan, writer, up, size, failed, fenced, op>>
      /\ up[m] /\ op[m] = None /\ tasks[m][t] = NoTask
  BY DEF Schedule, disk, Free
<1>5. /\ current' \in [Manager -> BOOLEAN] /\ mem' \in [Manager -> Seq(Line)]
      /\ mem'[m] = mem[m] \/ mem'[m] = [mem[m] EXCEPT ![1] = Edited]
  <2>1. CASE UNCHANGED <<mem, current>>
    BY <2>1 DEF MgrTyped
  <2>2. CASE /\ mem' = [mem EXCEPT ![m][1] = Edited]
             /\ \E required \in BOOLEAN : current' = [current EXCEPT ![m] = @ /\ ~required]
    <3>1. mem' = [mem EXCEPT ![m] = [mem[m] EXCEPT ![1] = Edited]]
      BY <2>2
    <3>2. [mem[m] EXCEPT ![1] = Edited] \in Seq(Line)
      <4>1. mem[m] \in Seq(Line)
        BY DEF MgrTyped
      <4> QED BY <4>1, EditIs
    <3>3. current' \in [Manager -> BOOLEAN]
      BY <2>2 DEF MgrTyped
    <3> QED BY <3>1, <3>2, <3>3 DEF MgrTyped
  <2> QED BY <2>1, <2>2 DEF Schedule
<1>6. MgrTyped'
  BY <1>3, <1>4, <1>5 DEF MgrTyped, TasksTyped
<1> QED BY <1>1, <1>3, <1>4, <1>5, <1>6

LEMMA StartIs ==
  ASSUME MgrTyped, NEW m \in Manager, NEW t \in Task, StartTask(m, t)
  PROVE  /\ MgrTyped' /\ up[m] /\ op[m] = None /\ tasks[m][t].st = "queued"
         /\ \A u \in Task \ {t} : tasks[m][u] = NoTask \/ ~tasks[m][u].live
         /\ UNCHANGED <<up, mem, size, failed, op>>
         /\ \/ /\ tasks[m][t].live /\ ~failed[m] /\ fenced'[m] = TRUE
               /\ TaskMoves(m, t, "closing") /\ Disk(files, target, baks, Closed(m))
            \/ /\ ~(tasks[m][t].live /\ ~failed[m]) /\ TaskEnds(m, t)
               /\ UNCHANGED <<files, target, baks, scan, writer, fenced>>
<1>1. /\ UNCHANGED <<up, mem, size, failed, op, current>>
      /\ up[m] /\ op[m] = None /\ tasks[m][t].st = "queued"
      /\ \A u \in Task \ {t} : tasks[m][u] = NoTask \/ ~tasks[m][u].live
  BY DEF StartTask, Free
<1>2. CASE tasks[m][t].live /\ ~failed[m]
  <2>1. /\ tasks' = [tasks EXCEPT ![m][t].st = "closing"]
        /\ fenced' = [fenced EXCEPT ![m] = TRUE]
        /\ Disk(files, target, baks, Closed(m))
    BY <1>2 DEF StartTask
  <2>2. TasksTyped' /\ TaskMoves(m, t, "closing")
    BY <2>1, TaskStep DEF MgrTyped, TasksTyped, TaskSteps
  <2>3. fenced' \in [Manager -> BOOLEAN] /\ fenced'[m] = TRUE
    BY <2>1 DEF MgrTyped
  <2>4. MgrTyped'
    BY <1>1, <2>2, <2>3 DEF MgrTyped, TasksTyped
  <2> QED BY <1>1, <1>2, <2>1, <2>2, <2>3, <2>4
<1>3. CASE ~(tasks[m][t].live /\ ~failed[m])
  <2>1. Clear(m, t) /\ UNCHANGED <<files, target, baks, scan, writer, fenced>>
    BY <1>3 DEF StartTask, disk
  <2>2. TasksTyped' /\ TaskEnds(m, t)
    BY <2>1, ClearStep DEF MgrTyped, TasksTyped
  <2>3. MgrTyped'
    BY <1>1, <2>1, <2>2 DEF MgrTyped, TasksTyped
  <2> QED BY <1>1, <1>3, <2>1, <2>2, <2>3
<1> QED BY <1>2, <1>3

\* A task that is resumed without effect on the transcript's record.
Quiet(m) == /\ up[m] /\ op[m] = None
            /\ UNCHANGED <<files, target, baks, scan, writer, up, mem, failed>>

LEMMA StageIs ==
  ASSUME MgrTyped, NEW m \in Manager, NEW t \in Task, Stage(m, t)
  PROVE  /\ MgrTyped' /\ Quiet(m) /\ tasks[m][t].st = "closing" /\ size' = size /\ op' = op
         /\ \/ /\ tasks[m][t].live /\ fenced' = fenced
               /\ \A u \in Task \ {t} : tasks'[m][u] = tasks[m][u]
               /\ tasks'[m][t].st = "staging" /\ tasks'[m][t].live = TRUE
               /\ tasks'[m][t].lines = mem[m] /\ tasks'[m][t].size = size[m]
            \/ ~tasks[m][t].live /\ Ends(m, t)
<1>1. /\ Quiet(m) /\ UNCHANGED <<up, mem, size, failed, op, current>>
      /\ tasks[m][t].st = "closing"
  BY DEF Stage, Free, Quiet, disk
<1>2. CASE tasks[m][t].live
  <2> DEFINE new == [tasks[m][t] EXCEPT !.st = "staging", !.lines = mem[m], !.size = size[m]]
  <2>1. tasks[m][t] \in TaskRec /\ mem[m] \in Seq(Line) /\ size[m] \in Nat
    BY DEF MgrTyped
  <2>2. /\ new \in TaskRec /\ new.st = "staging" /\ new.live = TRUE /\ new.lines = mem[m]
        /\ new.size = size[m]
    BY <1>2, <2>1 DEF TaskRec, TaskSteps
  <2>3. tasks' = [tasks EXCEPT ![m] = [tasks[m] EXCEPT ![t] = new]] /\ fenced' = fenced
    BY <1>2 DEF Stage
  <2> HIDE DEF new
  <2>4. TasksTyped' /\ tasks'[m][t] = new /\ \A u \in Task \ {t} : tasks'[m][u] = tasks[m][u]
    BY <2>2, <2>3, TaskSet DEF MgrTyped, TasksTyped
  <2>5. MgrTyped'
    BY <1>1, <2>3, <2>4 DEF MgrTyped, TasksTyped
  <2> QED BY <1>1, <1>2, <2>2, <2>3, <2>4, <2>5
<1>3. CASE ~tasks[m][t].live
  <2>1. EndTask(m, t)
    BY <1>3 DEF Stage
  <2>2. TasksTyped' /\ fenced' \in [Manager -> BOOLEAN] /\ Ends(m, t)
    BY <2>1, EndStep DEF Ends
  <2>3. MgrTyped'
    BY <1>1, <2>2 DEF MgrTyped, TasksTyped
  <2> QED BY <1>1, <1>3, <2>2, <2>3
<1> QED BY <1>2, <1>3

LEMMA PublishIs ==
  ASSUME MgrTyped, NEW m \in Manager, NEW t \in Task, Publish(m, t)
  PROVE  /\ MgrTyped' /\ Quiet(m) /\ tasks[m][t].st = "staging" /\ size' = size
         /\ \/ /\ tasks[m][t].live /\ fenced' = fenced /\ tasks' = tasks
               /\ OpBegins(m, "publish", t, tasks[m][t].lines, tasks[m][t].size)
            \/ ~tasks[m][t].live /\ Ends(m, t) /\ op' = op
<1>1. /\ Quiet(m) /\ UNCHANGED <<up, mem, size, failed, current>>
      /\ tasks[m][t].st = "staging"
  BY DEF Publish, Free, Quiet, disk
<1>2. CASE tasks[m][t].live
  <2>1. op' = [op EXCEPT ![m] = Op("publish", t, tasks[m][t].lines, tasks[m][t].size)]
        /\ fenced' = fenced /\ tasks' = tasks
    BY <1>2 DEF Publish
  <2>2. tasks[m][t].lines \in Seq(Line) /\ tasks[m][t].size \in Nat
    BY DEF MgrTyped, TaskRec
  <2>3. OpsTyped' /\ OpBegins(m, "publish", t, tasks[m][t].lines, tasks[m][t].size)
    BY <2>1, <2>2, OpStart DEF MgrTyped, OpsTyped
  <2>4. MgrTyped'
    BY <1>1, <2>1, <2>3 DEF MgrTyped, OpsTyped
  <2> QED BY <1>1, <1>2, <2>1, <2>3, <2>4
<1>3. CASE ~tasks[m][t].live
  <2>1. EndTask(m, t) /\ op' = op
    BY <1>3 DEF Publish
  <2>2. TasksTyped' /\ fenced' \in [Manager -> BOOLEAN] /\ Ends(m, t)
    BY <2>1, EndStep DEF Ends
  <2>3. MgrTyped'
    BY <1>1, <2>1, <2>2 DEF MgrTyped, TasksTyped
  <2> QED BY <1>1, <1>3, <2>1, <2>2, <2>3
<1> QED BY <1>2, <1>3

\* The publish of a task has thrown.
Thrown == {"reading", "same", "other"}

LEMMA ReadBackIs ==
  ASSUME MgrTyped, NEW m \in Manager, NEW t \in Task, ReadBack(m, t)
  PROVE  /\ MgrTyped' /\ up[m] /\ tasks[m][t].st = "reading"
         /\ UNCHANGED <<files, target, baks, scan, writer, up, mem, size, failed, fenced, op>>
         /\ \/ /\ target # None /\ files[target] = tasks[m][t].lines
               /\ TaskMoves(m, t, "same")
            \/ TaskMoves(m, t, "other")
<1>1. /\ UNCHANGED <<files, target, baks, scan, writer, up, mem, size, failed, fenced, op, current>>
      /\ up[m] /\ tasks[m][t].st = "reading"
  BY DEF ReadBack, disk
<1>2. PICK same \in BOOLEAN :
        /\ same => target # None /\ files[target] = tasks[m][t].lines
        /\ tasks' = [tasks EXCEPT ![m][t].st = IF same THEN "same" ELSE "other"]
  BY DEF ReadBack
<1> DEFINE st == IF same THEN "same" ELSE "other"
<1>3. st \in TaskSteps /\ tasks' = [tasks EXCEPT ![m][t].st = st]
  BY <1>2 DEF TaskSteps
<1> HIDE DEF st
<1>4. TasksTyped' /\ TaskMoves(m, t, st)
  BY <1>3, TaskStep DEF MgrTyped, TasksTyped
<1>5. MgrTyped'
  BY <1>1, <1>4 DEF MgrTyped, TasksTyped
<1>6. (st = "same" /\ same) \/ st = "other"
  BY DEF st
<1> QED BY <1>1, <1>2, <1>4, <1>5, <1>6

LEMMA SettleFailedIs ==
  ASSUME MgrTyped, NEW m \in Manager, NEW t \in Task, SettleFailed(m, t)
  PROVE  /\ MgrTyped' /\ up[m] /\ op[m] = None /\ tasks[m][t].st \in {"same", "other"}
         /\ op' = op /\ UNCHANGED <<files, target, baks, scan, writer, up, mem>>
         /\ Ends(m, t) /\ failed'[m] = TRUE
         /\ \/ size' = size
            \/ tasks[m][t].st = "same" /\ size'[m] = Size(tasks[m][t].lines)
<1>1. /\ UNCHANGED <<files, target, baks, scan, writer, up, mem, op, current>>
      /\ up[m] /\ op[m] = None /\ tasks[m][t].st \in {"same", "other"} /\ EndTask(m, t)
      /\ failed' = [failed EXCEPT ![m] = TRUE]
  BY DEF SettleFailed, Free, disk
<1>2. TasksTyped' /\ fenced' \in [Manager -> BOOLEAN] /\ Ends(m, t)
  BY <1>1, EndStep DEF Ends
<1>3. Size(tasks[m][t].lines) \in Nat
  BY SizeTyped DEF MgrTyped, TaskRec
<1>4. /\ size' \in [Manager -> Nat]
      /\ \/ size' = size
         \/ tasks[m][t].st = "same" /\ size'[m] = Size(tasks[m][t].lines)
  BY <1>3 DEF SettleFailed, MgrTyped
<1>5. MgrTyped'
  BY <1>1, <1>2, <1>4 DEF MgrTyped, TasksTyped
<1> QED BY <1>1, <1>2, <1>4, <1>5 DEF MgrTyped

LEMMA CrashIs ==
  ASSUME MgrTyped, NEW m \in Manager, Crash(m)
  PROVE  /\ MgrTyped' /\ up[m]
         /\ up'[m] = FALSE /\ mem'[m] = <<>> /\ op'[m] = None
         /\ \A t \in Task : tasks'[m][t] = NoTask
         /\ Disk(files, target, baks, Closed(m))
<1>1. /\ up' = [up EXCEPT ![m] = FALSE] /\ mem' = [mem EXCEPT ![m] = <<>>]
      /\ current' = [current EXCEPT ![m] = FALSE] /\ size' = [size EXCEPT ![m] = 0]
      /\ failed' = [failed EXCEPT ![m] = FALSE] /\ fenced' = [fenced EXCEPT ![m] = FALSE]
      /\ tasks' = [tasks EXCEPT ![m] = [t \in Task |-> NoTask]]
      /\ op' = [op EXCEPT ![m] = None]
      /\ Disk(files, target, baks, Closed(m)) /\ up[m]
  BY DEF Crash
<1>2. [t \in Task |-> NoTask] \in [Task -> TaskRec]
  BY NoTaskTyped
<1>3. MgrTyped'
  BY <1>1, <1>2 DEF MgrTyped
<1> QED BY <1>1, <1>3 DEF MgrTyped

\* What a manager does.
Acts(m) ==
    \/ Resume(m) \/ AppendEntry(m) \/ FlushSync(m) \/ Region(m) \/ Crash(m)
    \/ \E t \in Task : Schedule(m, t) \/ Resumed(m, t)

LEMMA NextIs ==
  [Next]_vars <=> (\E m \in Manager : Acts(m)) \/ Scan \/ Promote \/ UNCHANGED vars
BY DEF Next, Acts

\* It enters the free region, leaves the region it holds, or leaves the lock.
LEMMA LockUsed ==
  ASSUME NEW m \in Manager, Acts(m)
  PROVE  Lock!Enter(m) \/ Lock!Leave(m) \/ holder' = holder
<1>1. CASE Resume(m) \/ AppendEntry(m) \/ FlushSync(m)
  BY <1>1 DEF Resume, AppendEntry, FlushSync
<1>2. CASE Region(m)
  BY <1>2 DEF Region, EnterRegion, LockTimesOut, WriteLine, WriteLineFails, Conflict, Rename,
     MoveAside, RenameAgain, UnlinkBackup, RollBack, RollBackFails
<1>3. CASE Crash(m)
  BY <1>3 DEF Crash
<1>4. ASSUME NEW t \in Task, Schedule(m, t) \/ Resumed(m, t) PROVE holder' = holder
  BY <1>4 DEF Schedule, Resumed, StartTask, Stage, Publish, ReadBack, SettleFailed
<1> QED BY <1>1, <1>2, <1>3, <1>4 DEF Acts

\* The bounds of the environment.
LEMMA EnvNext ==
  ASSUME EnvTyped, [Next]_vars
  PROVE  EnvTyped' /\ made <= made' /\ faults <= faults' /\ (raced => raced')
<1>0. /\ made \in 0..MaxLines /\ crashes \in 0..MaxCrashes /\ faults \in 0..MaxFaults
      /\ MaxLines \in Nat /\ MaxCrashes \in Nat /\ MaxFaults \in Nat /\ raced \in BOOLEAN
  BY FileAssumption DEF EnvTyped
<1>1. ASSUME NEW m \in Manager, Acts(m)
      PROVE  /\ made' \in 0..MaxLines /\ crashes' \in 0..MaxCrashes /\ faults' \in 0..MaxFaults
             /\ made <= made' /\ faults <= faults' /\ raced' \in BOOLEAN /\ (raced => raced')
  <2>1. CASE Resume(m) \/ FlushSync(m)
    BY <1>0, <2>1 DEF Resume, FlushSync, env
  <2>2. CASE AppendEntry(m)
    BY <1>0, <2>2 DEF AppendEntry
  <2>3. CASE Region(m)
    <3>1. CASE EnterRegion(m) \/ LockTimesOut(m) \/ WriteLine(m) \/ Conflict(m) \/ Rename(m)
               \/ RenameAgain(m) \/ UnlinkBackup(m) \/ RollBack(m)
      BY <1>0, <3>1 DEF EnterRegion, LockTimesOut, WriteLine, Conflict, Rename, RenameAgain,
         UnlinkBackup, RollBack, env
    <3>2. CASE WriteLineFails(m) \/ MoveAside(m)
      BY <1>0, <3>2 DEF WriteLineFails, MoveAside
    <3>3. CASE RollBackFails(m)
      <4>1. raced' = (raced \/ Raced(m)) /\ UNCHANGED <<made, crashes, faults>>
        BY <3>3 DEF RollBackFails, env
      <4>2. Raced(m) \in BOOLEAN
        BY DEF Raced
      <4> QED BY <1>0, <4>1, <4>2
    <3> QED BY <2>3, <3>1, <3>2, <3>3 DEF Region
  <2>4. CASE Crash(m)
    <3>1. /\ raced' = (raced \/ Raced(m)) /\ UNCHANGED <<made, faults>>
          /\ crashes < MaxCrashes /\ crashes' = crashes + 1
      BY <2>4 DEF Crash
    <3>2. Raced(m) \in BOOLEAN
      BY DEF Raced
    <3> QED BY <1>0, <3>1, <3>2
  <2>5. ASSUME NEW t \in Task, Schedule(m, t) \/ Resumed(m, t) PROVE UNCHANGED <<env, raced>>
    BY <2>5 DEF Schedule, Resumed, StartTask, Stage, Publish, ReadBack, SettleFailed
  <2> QED BY <1>0, <1>1, <2>1, <2>2, <2>3, <2>4, <2>5 DEF Acts, env
<1>2. ASSUME NEW m \in Manager, Acts(m) PROVE holder' \in Manager \cup {None}
  BY <1>2, LockUsed DEF EnvTyped, Lock!Enter, Lock!Leave
<1>3. CASE Scan \/ Promote \/ UNCHANGED vars
  <2>1. UNCHANGED <<holder, made, crashes, faults>> /\ raced' \in BOOLEAN /\ (raced => raced')
    BY <1>0, <1>3 DEF Scan, Promote, vars, env
  <2> QED BY <1>0, <2>1 DEF EnvTyped
<1> QED BY <1>1, <1>2, <1>3, NextIs DEF EnvTyped

\* A manager touches no state of another.
LEMMA ActsKeep ==
  ASSUME DirTyped, MgrTyped, NEW m \in Manager, Acts(m), NEW n \in Manager, n # m
  PROVE  Kept(n)
<1> USE DEF DirTyped, MgrTyped
<1>1. ASSUME NEW lines, RewriteSync(m, lines)
      PROVE  op'[n] = op[n] /\ tasks'[n] = tasks[n] /\ fenced'[n] = fenced[n]
             /\ writer'[n] = writer[n]
  BY <1>1 DEF RewriteSync, Disk, Closed
<1>2. CASE Resume(m)
  BY <1>2 DEF Resume, Kept
<1>3. CASE FlushSync(m)
  BY <1>1, <1>3 DEF FlushSync, Kept
<1>4. CASE Crash(m)
  BY <1>4 DEF Crash, Kept, Disk, Closed
<1>5. CASE AppendEntry(m)
  <2>1. ASSUME AppendHot(m, made + 1)
        PROVE  op'[n] = op[n] /\ tasks'[n] = tasks[n] /\ fenced'[n] = fenced[n]
               /\ writer'[n] = writer[n]
    BY <2>1 DEF AppendHot, Disk
  <2>2. op'[n] = op[n] /\ tasks'[n] = tasks[n] /\ fenced'[n] = fenced[n]
        /\ writer'[n] = writer[n]
    BY <1>1, <1>5, <2>1 DEF AppendEntry
  <2>3. mem'[n] = mem[n] /\ current'[n] = current[n] /\ UNCHANGED <<up, size, failed>>
    BY <1>5 DEF AppendEntry
  <2> QED BY <2>2, <2>3 DEF Kept
<1>6. CASE Region(m)
  <2>1. ASSUME Throw(m)
        PROVE  op'[n] = op[n] /\ tasks'[n] = tasks[n] /\ failed'[n] = failed[n]
               /\ current'[n] = current[n]
    BY <2>1 DEF Throw, Fail
  <2>2. ASSUME Done(m)
        PROVE  op'[n] = op[n] /\ tasks'[n] = tasks[n] /\ failed'[n] = failed[n]
               /\ current'[n] = current[n] /\ size'[n] = size[n] /\ fenced'[n] = fenced[n]
    BY <2>2 DEF Done, EndTask, Clear
  <2>3. CASE EnterRegion(m)
    BY <2>3 DEF EnterRegion, Kept
  <2>4. CASE LockTimesOut(m) \/ Conflict(m) \/ RollBackFails(m)
    BY <2>1, <2>4 DEF LockTimesOut, Conflict, RollBackFails, Kept
  <2>5. CASE WriteLine(m)
    BY <2>5 DEF WriteLine, Disk, Kept
  <2>6. CASE WriteLineFails(m)
    BY <2>1, <2>6 DEF WriteLineFails, Disk, Kept
  <2>7. CASE Rename(m) \/ UnlinkBackup(m)
    BY <2>2, <2>7 DEF Rename, UnlinkBackup, Replace, Disk, Kept
  <2>8. CASE MoveAside(m) \/ RenameAgain(m)
    BY <2>8 DEF MoveAside, RenameAgain, Replace, Disk, Kept
  <2>9. CASE RollBack(m)
    BY <2>1, <2>9 DEF RollBack, Disk, Kept
  <2> QED BY <1>6, <2>3, <2>4, <2>5, <2>6, <2>7, <2>8, <2>9 DEF Region
<1>7. ASSUME NEW t \in Task, Schedule(m, t) \/ Publish(m, t)
                             \/ Stage(m, t) \/ ReadBack(m, t) \/ SettleFailed(m, t)
      PROVE  Kept(n)
  <2>1. CASE Schedule(m, t)
    BY <2>1 DEF Schedule, Kept
  <2>2. CASE Publish(m, t) \/ Stage(m, t)
    BY <2>2 DEF Publish, Stage, EndTask, Clear, Kept
  <2>3. CASE ReadBack(m, t) \/ SettleFailed(m, t)
    BY <2>3 DEF ReadBack, SettleFailed, EndTask, Clear, Kept
  <2> QED BY <1>7, <2>1, <2>2, <2>3
<1>8. ASSUME NEW t \in Task, StartTask(m, t) PROVE Kept(n)
  BY <1>8 DEF StartTask, Clear, Disk, Closed, Kept
<1> QED BY <1>2, <1>3, <1>4, <1>5, <1>6, <1>7, <1>8 DEF Acts, Resumed

(***************************************************************************)
(* The directory from step to step.                                        *)
(***************************************************************************)
Directory == DirTyped /\ Names /\ Garbage

LEMMA DirectoryNext ==
  ASSUME Directory, faults <= faults', EnvTyped, EnvTyped',
         NEW f \in [Ino -> Seq(Line)], NEW t \in Ino \cup {None}, NEW b \in Seq(Ino),
         NEW w \in [Manager -> Ino \cup {None}],
         \A i, j \in 1..Len(b) : b[i] = b[j] => i = j, t \notin ToSet(b), Len(b) <= faults',
         Disk(f, t, b, w)
  PROVE  /\ Directory'
         /\ target' = t /\ baks' = b /\ writer' = w
         /\ \A i \in Ino : i = t \/ i \in ToSet(b) => files'[i] = f[i]
<1>1. /\ DirTyped' /\ Garbage' /\ target' = t /\ baks' = b /\ writer' = w
      /\ \A i \in Ino : i = t \/ i \in ToSet(b) => files'[i] = f[i]
  BY DiskIs DEF Directory, DirTyped
<1>2. Names'
  BY <1>1 DEF Names
<1> QED BY <1>1, <1>2 DEF Directory

LEMMA NoneIsNoName ==
  ASSUME DirTyped
  PROVE  None \notin ToSet(baks) /\ None \notin Ino /\ \A i \in ToSet(baks) : i \in Ino
<1>1. DOMAIN baks = 1..Len(baks) /\ \A i \in 1..Len(baks) : baks[i] \in Ino
  BY DEF DirTyped
<1>2. \A i \in ToSet(baks) : i \in Ino
  BY <1>1 DEF ToSet
<1>3. None \notin Ino
  BY FileAssumption
<1> QED BY <1>2, <1>3

\* The names and what they refer to stay.
SameNames ==
    /\ target' = target /\ baks' = baks
    /\ \A i \in Ino : i = target \/ i \in ToSet(baks) => files'[i] = files[i]

LEMMA CloseIs ==
  ASSUME Directory, faults <= faults', EnvTyped, EnvTyped', NEW m \in Manager,
         NEW v \in Ino \cup {None}, Disk(files, target, baks, [writer EXCEPT ![m] = v])
  PROVE  Directory' /\ SameNames /\ writer'[m] = v
<1> DEFINE w == [writer EXCEPT ![m] = v]
<1>1. /\ w \in [Manager -> Ino \cup {None}] /\ w[m] = v
      /\ files \in [Ino -> Seq(Line)] /\ target \in Ino \cup {None} /\ baks \in Seq(Ino)
  BY DEF Directory, DirTyped
<1>2. /\ \A i, j \in 1..Len(baks) : baks[i] = baks[j] => i = j
      /\ target \notin ToSet(baks) /\ Len(baks) <= faults'
  BY <1>1 DEF Directory, Names, EnvTyped
<1>3. Disk(files, target, baks, w)
  OBVIOUS
<1> HIDE DEF w
<1>4. /\ Directory' /\ target' = target /\ baks' = baks /\ writer' = w
      /\ \A i \in Ino : i = target \/ i \in ToSet(baks) => files'[i] = files[i]
  BY <1>1, <1>2, <1>3, DirectoryNext
<1> QED BY <1>1, <1>4 DEF SameNames

\* The file that an append creates is empty.
LEMMA OpenIs ==
  ASSUME Directory, faults <= faults', EnvTyped, EnvTyped', NEW m \in Manager, AppendsHot(m)
  PROVE  /\ Directory' /\ writer'[m] \in Ino
         /\ \/ SameNames
            \/ /\ target = None /\ target' \in Ino /\ files'[target'] = <<>> /\ baks' = baks
               /\ \A i \in ToSet(baks) : files'[i] = files[i] /\ i # target'
<1>1. CASE writer[m] # None
  <2>1. UNCHANGED <<files, target, baks, scan, writer>>
    BY <1>1 DEF AppendsHot
  <2>2. DirTyped' /\ Names' /\ Garbage'
    BY <2>1 DEF Directory, DirTyped, Names, Garbage, Refs, EnvTyped
  <2>3. writer[m] \in Ino
    BY <1>1 DEF Directory, DirTyped
  <2> QED BY <2>1, <2>2, <2>3 DEF Directory, SameNames
<1>2. CASE writer[m] = None /\ target # None
  <2>1. target \in Ino
    BY <1>2 DEF Directory, DirTyped
  <2>2. Disk(files, target, baks, [writer EXCEPT ![m] = target])
    BY <1>2 DEF AppendsHot
  <2> QED BY <2>1, <2>2, CloseIs
<1>3. CASE writer[m] = None /\ target = None
  <2>1. Fresh \in Ino /\ Fresh \notin Refs
    BY FreshIs DEF Directory
  <2>2. files[Fresh] = <<>> /\ Fresh \notin ToSet(baks)
    BY <2>1 DEF Directory, Garbage, Refs
  <2> DEFINE w == [writer EXCEPT ![m] = Fresh]
             f == Fresh
  <2>3. Disk(files, f, baks, w)
    BY <1>3 DEF AppendsHot
  <2>4. w \in [Manager -> Ino \cup {None}] /\ w[m] = f /\ f \in Ino
    BY <2>1 DEF Directory, DirTyped
  <2>5. /\ \A i, j \in 1..Len(baks) : baks[i] = baks[j] => i = j
        /\ Len(baks) <= faults' /\ f \notin ToSet(baks) /\ files[f] = <<>>
        /\ files \in [Ino -> Seq(Line)] /\ baks \in Seq(Ino)
    BY <2>2 DEF Directory, DirTyped, Names, EnvTyped
  <2> HIDE DEF w, f
  <2>6. /\ Directory' /\ target' = f /\ baks' = baks /\ writer' = w
        /\ \A i \in Ino : i = f \/ i \in ToSet(baks) => files'[i] = files[i]
    BY <2>3, <2>4, <2>5, DirectoryNext, SMTT(30)
  <2>7. /\ target' \in Ino /\ files'[target'] = <<>> /\ writer'[m] \in Ino
    BY <2>4, <2>5, <2>6
  <2>8. \A i \in ToSet(baks) : files'[i] = files[i] /\ i # target'
    BY <2>5, <2>6, NoneIsNoName DEF Directory
  <2> QED BY <1>3, <2>6, <2>7, <2>8
<1> QED BY <1>2, <1>1, <1>3

\* The line is written to the file, or to the inode the descriptor has.
LEMMA WrittenIs ==
  ASSUME Directory, faults <= faults', EnvTyped, EnvTyped', NEW m \in Manager,
         WriteLine(m), writer[m] \in Ino, op[m].lines \in Seq(Line)
  PROVE  /\ Directory' /\ target' = target
         /\ target # None => /\ files'[target] = files[target] \o op[m].lines
                             /\ baks' = baks
                             /\ \A i \in ToSet(baks) : files'[i] = files[i]
<1> DEFINE i == IF target = None THEN writer[m] ELSE target
           f == [files EXCEPT ![i] = files[i] \o op[m].lines]
           w == [writer EXCEPT ![m] = i]
           b == Touched(baks, i)
<1>1. Disk(f, target, b, w)
  BY DEF WriteLine
<1>2. i \in Ino
  BY DEF Directory, DirTyped
<1>3. /\ b \in Seq(Ino) /\ ToSet(b) = ToSet(baks) /\ Len(b) = Len(baks)
      /\ \A p, q \in 1..Len(b) : b[p] = b[q] => p = q
  BY <1>2, TouchedIs DEF Directory, DirTyped, Names
<1>4. target # None => b = baks
  BY DEF Touched, Directory, Names
<1>5. f[i] = files[i] \o op[m].lines /\ \A j \in Ino \ {i} : f[j] = files[j]
  BY <1>2 DEF Directory, DirTyped
<1>6. f \in [Ino -> Seq(Line)]
  <2>1. files[i] \o op[m].lines \in Seq(Line)
    BY <1>2 DEF Directory, DirTyped
  <2> QED BY <2>1 DEF Directory, DirTyped
<1>7. w \in [Manager -> Ino \cup {None}]
  BY <1>2 DEF Directory, DirTyped
<1>8. target # None => i = target
  OBVIOUS
<1> HIDE DEF f, w, b, i
<1>9. target \in Ino \cup {None} /\ target \notin ToSet(b) /\ Len(b) <= faults'
  BY <1>3 DEF Directory, DirTyped, Names, EnvTyped
<1>10. /\ Directory' /\ target' = target /\ baks' = b
       /\ \A j \in Ino : j = target \/ j \in ToSet(b) => files'[j] = f[j]
  BY <1>1, <1>3, <1>6, <1>7, <1>9, DirectoryNext
<1>11. \A j \in ToSet(baks) : j \in Ino /\ j # target
  BY NoneIsNoName DEF Directory, Names
<1> QED BY <1>2, <1>3, <1>4, <1>5, <1>8, <1>10, <1>11

\* The staged file takes the path.
LEMMA ReplaceIs ==
  ASSUME Directory, faults <= faults', EnvTyped, EnvTyped', NEW m \in Manager,
         Replace(m, baks), op[m].lines \in Seq(Line)
  PROVE  /\ Directory' /\ target' \in Ino /\ files'[target'] = op[m].lines
         /\ baks' = baks /\ \A i \in ToSet(baks) : files'[i] = files[i] /\ i # target'
<1> DEFINE t == Fresh
           f == [files EXCEPT ![t] = op[m].lines]
<1>1. t \in Ino /\ t \notin Refs
  BY FreshIs DEF Directory
<1>2. t \notin ToSet(baks)
  BY <1>1 DEF Refs
<1>3. Disk(f, t, baks, writer)
  BY DEF Replace
<1> HIDE DEF t
<1>4. f \in [Ino -> Seq(Line)] /\ f[t] = op[m].lines /\ \A i \in Ino \ {t} : f[i] = files[i]
  BY <1>1 DEF Directory, DirTyped
<1>5. /\ \A i, j \in 1..Len(baks) : baks[i] = baks[j] => i = j
      /\ Len(baks) <= faults' /\ baks \in Seq(Ino) /\ writer \in [Manager -> Ino \cup {None}]
  BY DEF Directory, DirTyped, Names, EnvTyped
<1> HIDE DEF f
<1>6. /\ Directory' /\ target' = t /\ baks' = baks
      /\ \A i \in Ino : i = t \/ i \in ToSet(baks) => files'[i] = f[i]
  BY <1>1, <1>2, <1>3, <1>4, <1>5, DirectoryNext
<1>7. \A i \in ToSet(baks) : i \in Ino /\ i # t
  BY <1>2, NoneIsNoName DEF Directory
<1> QED BY <1>1, <1>4, <1>6, <1>7

\* The file is moved to a .bak name.
LEMMA AsideIs ==
  ASSUME Directory, faults <= faults', EnvTyped, EnvTyped', NEW m \in Manager,
         MoveAside(m), target \in Ino
  PROVE  /\ Directory' /\ target' = None /\ baks' = Append(baks, target)
         /\ target \in ToSet(baks') /\ baks'[Len(baks')] = target
         /\ files'[target] = files[target]
<1> DEFINE b == Append(baks, target)
<1>1. Disk(files, None, b, writer) /\ faults' = faults + 1
  BY DEF MoveAside
<1>2. /\ b \in Seq(Ino) /\ ToSet(b) = ToSet(baks) \cup {target}
      /\ \A i, j \in 1..Len(b) : b[i] = b[j] => i = j
      /\ Len(b) = Len(baks) + 1 /\ b[Len(baks) + 1] = target
  BY AppendName DEF Directory, DirTyped, Names
<1>3. /\ files \in [Ino -> Seq(Line)] /\ writer \in [Manager -> Ino \cup {None}]
      /\ None \notin ToSet(b) /\ None \in Ino \cup {None}
  BY <1>2, NoneIsNoName DEF Directory, DirTyped
<1>4. Len(b) <= faults'
  BY <1>1, <1>2 DEF Directory, DirTyped, Names, EnvTyped
<1>5. b = Append(baks, target)
  OBVIOUS
<1> HIDE DEF b
<1>6. /\ Directory' /\ target' = None /\ baks' = b
      /\ \A i \in Ino : i = None \/ i \in ToSet(b) => files'[i] = files[i]
  <2> DEFINE t == None
  <2>1. /\ b \in Seq(Ino) /\ \A i, j \in 1..Len(b) : b[i] = b[j] => i = j
        /\ t \in Ino \cup {None} /\ t \notin ToSet(b) /\ Disk(files, t, b, writer)
    BY <1>1, <1>2, <1>3
  <2> HIDE DEF t
  <2>2. /\ Directory' /\ target' = t /\ baks' = b
        /\ \A i \in Ino : i = t \/ i \in ToSet(b) => files'[i] = files[i]
    BY <2>1, <1>3, <1>4, DirectoryNext
  <2> QED BY <2>2 DEF t
<1> QED BY <1>2, <1>5, <1>6

\* A name goes, or becomes the path.
LEMMA NamedIs ==
  ASSUME Directory, faults <= faults', EnvTyped, EnvTyped',
         NEW t \in Ino \cup {None}, NEW i, t \in {target, i},
         Disk(files, t, RemoveFirst(baks, i), writer)
  PROVE  /\ Directory' /\ target' = t /\ writer' = writer
         /\ ToSet(baks') = ToSet(baks) \ {i}
         /\ \A j \in Ino : j = t \/ j \in ToSet(baks') => files'[j] = files[j]
<1> DEFINE b == RemoveFirst(baks, i)
<1>1. /\ b \in Seq(Ino) /\ ToSet(b) = ToSet(baks) \ {i}
      /\ \A p, q \in 1..Len(b) : b[p] = b[q] => p = q
      /\ Len(b) = IF i \in ToSet(baks) THEN Len(baks) - 1 ELSE Len(baks)
  BY RemoveFirstIs DEF Directory, DirTyped, Names
<1>2. Disk(files, t, b, writer)
  OBVIOUS
<1> HIDE DEF b
<1>3. t \notin ToSet(b) /\ Len(b) <= faults'
  BY <1>1 DEF Directory, DirTyped, Names, EnvTyped
<1>4. files \in [Ino -> Seq(Line)] /\ writer \in [Manager -> Ino \cup {None}]
  BY DEF Directory, DirTyped
<1>5. /\ Directory' /\ target' = t /\ baks' = b /\ writer' = writer
      /\ \A j \in Ino : j = t \/ j \in ToSet(b) => files'[j] = files[j]
  BY <1>1, <1>2, <1>3, <1>4, DirectoryNext
<1> QED BY <1>1, <1>5

\* Nothing happens to it.
LEMMA DirectorySame ==
  ASSUME Directory, faults <= faults', EnvTyped, EnvTyped',
         UNCHANGED <<files, target, baks, scan, writer>>
  PROVE  Directory' /\ SameNames
<1>1. DirTyped' /\ Names' /\ Garbage'
  BY DEF Directory, DirTyped, Names, Garbage, Refs, EnvTyped
<1> QED BY <1>1 DEF Directory, SameNames

(***************************************************************************)
(* Who does what when.                                                     *)
(***************************************************************************)
\* A write past the lock is the holder's.
Past(m) == op[m] # None /\ op[m].step # "lock"
RegionHeld == \A m \in Manager : Past(m) => holder = m

Is(m, kind) == op[m] # None /\ op[m].kind = kind
Newest(m) == mem[m][Len(mem[m])]
Staged == {"staging"} \cup Thrown
Running(k) == k.live /\ k.st \notin {"none", "queued"}

\* A manager that is not up has nothing.
Idle(m) ==
    ~up[m] => /\ op[m] = None /\ writer[m] = None /\ mem[m] = <<>>
              /\ \A t \in Task : tasks[m][t] = NoTask

\* An append writes the newest entry to an open descriptor; no failure is
\* latched and no rewrite has raised the fence.
Appending(m) ==
    Is(m, "append") => /\ op[m].step \in {"lock", "in"} /\ writer[m] \in Ino
                       /\ op[m].lines = <<Newest(m)>> /\ ~failed[m] /\ ~fenced[m]

\* A synchronous rewrite writes the transcript and has superseded every task.
Rewriting(m) ==
    Is(m, "rewrite") => /\ op[m].lines = mem[m] /\ op[m].size = size[m]
                        /\ \A t \in Task : ~tasks[m][t].live

\* The rewrite whose publish blocks its process is waiting for it, and was not
\* superseded.
Publishing(m) ==
    Is(m, "publish") =>
        /\ op[m].task \in Task
        /\ LET k == tasks[m][op[m].task]
           IN  k.live /\ k.st = "staging" /\ k.lines = op[m].lines /\ k.size = op[m].size

\* One task runs at a time, behind the fence.
Fenced(m) ==
    \A t, u \in Task :
        Running(tasks[m][t]) => fenced[m] /\ (Running(tasks[m][u]) => t = u)

\* The transcript continues what was staged; nothing is appended while the
\* staged body is live.
StagedBodies(m) ==
    \A t \in Task :
        tasks[m][t].st \in Staged =>
            /\ Continues(tasks[m][t].lines, mem[m])
            /\ tasks[m][t].live => Len(tasks[m][t].lines) = Len(mem[m])

Structure(m) ==
    /\ Idle(m) /\ Appending(m) /\ Rewriting(m) /\ Publishing(m)
    /\ Fenced(m) /\ StagedBodies(m)

LEMMA ContinuesItself ==
  ASSUME NEW t \in Seq(Line)
  PROVE  Continues(t, t)
BY DEF Continues

LEMMA ContinuesAppend ==
  ASSUME NEW l \in Seq(Line), NEW t \in Seq(Line), Continues(l, t), NEW e
  PROVE  Continues(l, Append(t, e))
<1>1. /\ Len(Append(t, e)) = Len(t) + 1 /\ Len(t) \in Nat /\ Len(l) \in Nat
      /\ \A i \in 1..Len(t) : Append(t, e)[i] = t[i]
  OBVIOUS
<1> QED BY <1>1 DEF Continues

LEMMA ContinuesEdit ==
  ASSUME NEW l \in Seq(Line), NEW t \in Seq(Line), Continues(l, t)
  PROVE  Continues(l, [t EXCEPT ![1] = Edited])
<1> DEFINE r == [t EXCEPT ![1] = Edited]
<1>1. Len(r) = Len(t) /\ \A i \in 2..Len(t) : r[i] = t[i]
  BY EditIs
<1>2. Len(t) \in Nat /\ Len(l) \in Nat
  OBVIOUS
<1> HIDE DEF r
<1>3. Continues(l, r)
  BY <1>1, <1>2 DEF Continues
<1> QED BY <1>3 DEF r

\* What a task that is staged holds.
LEMMA TaskTyped ==
  ASSUME MgrTyped, NEW m \in Manager
  PROVE  /\ mem[m] \in Seq(Line)
         /\ \A t \in Task : /\ tasks[m][t].lines \in Seq(Line)
                            /\ tasks[m][t].live \in BOOLEAN
                            /\ tasks[m][t].size \in Nat
BY DEF MgrTyped, TaskRec

LEMMA KeptStructured ==
  ASSUME NEW m \in Manager, Kept(m), Structure(m)
  PROVE  Structure(m)'
BY DEF Kept, Structure, Idle, Appending, Rewriting, Publishing, Fenced, StagedBodies,
   Is, Newest, Running

LEMMA ThrowStructured ==
  ASSUME NEW m \in Manager, Structure(m), Throws(m), UNCHANGED <<up, mem, fenced>>
  PROVE  Structure(m)'
<1>1. up'[m]
  BY DEF Structure, Idle, Throws
<1>2. CASE op[m].kind = "publish"
  <2>1. /\ op[m].task \in Task
        /\ tasks[m][op[m].task].live /\ tasks[m][op[m].task].st = "staging"
        /\ TaskMoves(m, op[m].task, "reading")
    BY <1>2 DEF Structure, Publishing, Throws, Is
  <2>2. Fenced(m)'
    BY <2>1 DEF Structure, Fenced, Running, TaskMoves
  <2>3. StagedBodies(m)'
    BY <2>1 DEF Structure, StagedBodies, Staged, Thrown, TaskMoves
  <2> QED BY <1>1, <2>2, <2>3 DEF Throws, Structure, Idle, Appending, Rewriting, Publishing, Is
<1>3. CASE op[m].kind # "publish"
  BY <1>1, <1>3 DEF Throws, Structure, Idle, Appending, Rewriting, Publishing, Is, Fenced,
     StagedBodies
<1> QED BY <1>2, <1>3

\* A blocked write goes on.
LEMMA MovesStructured ==
  ASSUME NEW m \in Manager, Structure(m), NEW step, OpMoves(m, step), op[m] # None,
         op[m].kind = "append" => step = "in" /\ writer' = writer,
         UNCHANGED <<up, mem, size, failed, fenced, tasks>>
  PROVE  Structure(m)'
<1>1. up'[m]
  BY DEF Structure, Idle
<1> QED BY <1>1 DEF OpMoves, Structure, Idle, Appending, Rewriting, Publishing, Is, Fenced,
        StagedBodies, Newest

\* A rewrite supersedes every task.
LEMMA RewriteStructured ==
  ASSUME MgrTyped, NEW m \in Manager, Structure(m), up[m], up' = up, size' = size,
         OpBegins(m, "rewrite", None, mem'[m], size[m]),
         \A l \in Seq(Line) : Continues(l, mem[m]) => Continues(l, mem'[m]),
         \A t \in Task : /\ tasks'[m][t].st = tasks[m][t].st
                         /\ tasks'[m][t].live = FALSE
                         /\ tasks'[m][t].lines = tasks[m][t].lines
                         /\ tasks'[m][t].size = tasks[m][t].size
  PROVE  Structure(m)'
<1>1. StagedBodies(m)'
  BY TaskTyped DEF Structure, StagedBodies
<1>2. Fenced(m)'
  BY DEF Fenced, Running
<1>3. Idle(m)' /\ Appending(m)' /\ Rewriting(m)' /\ Publishing(m)'
  BY DEF Idle, Appending, Rewriting, Publishing, OpBegins, Is
<1> QED BY <1>1, <1>2, <1>3 DEF Structure

\* A task ends.
LEMMA EndStructured ==
  ASSUME NEW m \in Manager, NEW t \in Task, Structure(m), up[m], op'[m] = None,
         Ends(m, t), tasks[m][t].st \notin {"none", "queued"}, UNCHANGED <<up, mem>>
  PROVE  Structure(m)'
<1>1. NoTask.st = "none"
  BY DEF NoTask
<1>2. \A u \in Task : u # t => tasks'[m][u] = tasks[m][u]
  BY DEF Ends, TaskEnds
<1>3. tasks'[m][t].st = "none"
  BY <1>1 DEF Ends, TaskEnds
<1>4. Fenced(m)'
  <2> SUFFICES ASSUME NEW a \in Task, NEW b \in Task, Running(tasks'[m][a])
               PROVE  fenced'[m] /\ (Running(tasks'[m][b]) => a = b)
    BY DEF Fenced
  <2>1. a # t /\ Running(tasks[m][a])
    BY <1>2, <1>3 DEF Running
  <2>2. fenced[m] /\ ~Running(tasks[m][t])
    BY <2>1 DEF Structure, Fenced
  <2>3. fenced'[m]
    BY <2>2 DEF Ends, Running
  <2>4. Running(tasks'[m][b]) => Running(tasks[m][b])
    BY <1>2, <1>3 DEF Running
  <2> QED BY <2>1, <2>3, <2>4 DEF Structure, Fenced
<1>5. StagedBodies(m)'
  BY <1>2, <1>3 DEF Structure, StagedBodies, Staged, Thrown
<1> QED BY <1>4, <1>5 DEF Structure, Idle, Appending, Rewriting, Publishing, Is

LEMMA DoneStructured ==
  ASSUME NEW m \in Manager, Structure(m), Completes(m), UNCHANGED <<up, mem>>
  PROVE  Structure(m)'
<1>1. up[m] /\ up'[m]
  BY DEF Structure, Idle, Completes
<1>2. CASE op[m].kind = "publish"
  <2>1. PICK k \in Task : k = op[m].task
    BY <1>2 DEF Structure, Publishing, Completes, Is
  <2>2. tasks[m][k].st = "staging" /\ Ends(m, k) /\ op'[m] = None
    BY <1>2, <2>1 DEF Structure, Publishing, Completes, Is
  <2> QED BY <1>1, <2>2, EndStructured
<1>3. CASE op[m].kind # "publish"
  BY <1>1, <1>3 DEF Completes, Structure, Idle, Appending, Rewriting, Publishing, Is, Fenced,
     StagedBodies
<1> QED BY <1>2, <1>3

LEMMA RegionStructured ==
  ASSUME Directory, MgrTyped, NEW m \in Manager, Structure(m), Region(m)
  PROVE  MgrTyped' /\ Structure(m)'
<1>0. op[m] # None => WaitsFor(m)
  BY DEF Structure, Publishing, Is, WaitsFor
<1>1. CASE EnterRegion(m)
  BY <1>1, EnterIs, MovesStructured
<1>2. ASSUME op[m] # None, Throw(m), UNCHANGED <<up, mem, size, fenced>>
      PROVE  MgrTyped' /\ Structure(m)'
  BY <1>0, <1>2, ThrowIs, ThrowStructured
<1>3. CASE LockTimesOut(m) \/ WriteLineFails(m) \/ Conflict(m) \/ RollBack(m) \/ RollBackFails(m)
  BY <1>2, <1>3, Zenon DEF LockTimesOut, WriteLineFails, Conflict, RollBack, RollBackFails, At
<1>4. CASE WriteLine(m)
  <2>1. MgrTyped' /\ op[m] # None /\ op'[m] = None /\ UNCHANGED <<up, mem, failed, fenced, tasks>>
    BY <1>4, WriteLineIs
  <2> QED BY <2>1 DEF Structure, Idle, Appending, Rewriting, Publishing, Is, Fenced, StagedBodies
<1>5. CASE Rename(m) \/ UnlinkBackup(m)
  <2>1. op[m] # None /\ Done(m) /\ UNCHANGED <<up, mem>>
    BY <1>5 DEF Rename, UnlinkBackup, At
  <2> QED BY <1>0, <2>1, DoneIs, DoneStructured
<1>6. CASE MoveAside(m)
  <2>1. /\ MgrTyped' /\ OpMoves(m, "aside") /\ op[m] # None /\ op[m].kind # "append"
        /\ UNCHANGED <<up, mem, size, failed, fenced, tasks>>
    BY <1>6, MoveAsideIs DEF Directory
  <2> QED BY <2>1, MovesStructured
<1>7. CASE RenameAgain(m)
  <2>1. /\ MgrTyped' /\ OpMoves(m, "swapped") /\ op[m] # None /\ op[m].kind # "append"
        /\ UNCHANGED <<up, mem, size, failed, fenced, tasks>>
    BY <1>7, RenameAgainIs
  <2> QED BY <2>1, MovesStructured
<1> QED BY <1>1, <1>3, <1>4, <1>5, <1>6, <1>7 DEF Region

LEMMA AppendStructured ==
  ASSUME Directory, MgrTyped, EnvTyped, EnvTyped', faults <= faults',
         NEW m \in Manager, Structure(m), AppendEntry(m)
  PROVE  MgrTyped' /\ Structure(m)'
<1>1. /\ MgrTyped' /\ up[m] /\ op[m] = None /\ up' = up /\ size' = size /\ failed' = failed
      /\ mem'[m] = Append(mem[m], made + 1)
  BY AppendIs DEF Directory
<1>2. \A l \in Seq(Line) : Continues(l, mem[m]) => Continues(l, mem'[m])
  BY <1>1, TaskTyped, ContinuesAppend
<1>3. CASE /\ OpBegins(m, "rewrite", None, mem'[m], size[m])
           /\ \A t \in Task : /\ tasks'[m][t].st = tasks[m][t].st
                              /\ tasks'[m][t].live = FALSE
                              /\ tasks'[m][t].lines = tasks[m][t].lines
                              /\ tasks'[m][t].size = tasks[m][t].size
  BY <1>1, <1>2, <1>3, RewriteStructured
<1>4. CASE /\ ~fenced[m] /\ current[m] /\ ~failed[m]
           /\ OpBegins(m, "append", None, <<made + 1>>, size[m])
           /\ fenced' = fenced /\ tasks' = tasks
           /\ AppendsHot(m)
  <2>1. writer'[m] \in Ino
    BY <1>4, OpenIs
  <2>2. Newest(m)' = made + 1
    <3>1. Len(mem'[m]) = Len(mem[m]) + 1 /\ mem'[m][Len(mem[m]) + 1] = made + 1
      BY <1>1, TaskTyped
    <3> QED BY <3>1 DEF Newest
  <2>3. Appending(m)'
    BY <1>1, <1>4, <2>1, <2>2 DEF Appending, OpBegins, Is
  <2>4. \A t \in Task : ~Running(tasks[m][t])
    BY <1>4 DEF Structure, Fenced
  <2>5. StagedBodies(m)'
    <3> SUFFICES ASSUME NEW t \in Task, tasks[m][t].st \in Staged
                 PROVE  /\ Continues(tasks[m][t].lines, mem'[m])
                        /\ ~tasks[m][t].live
      BY <1>4 DEF StagedBodies
    <3>1. Continues(tasks[m][t].lines, mem'[m])
      BY <1>2, TaskTyped DEF Structure, StagedBodies
    <3>2. ~tasks[m][t].live
      BY <2>4 DEF Running, Staged, Thrown
    <3> QED BY <3>1, <3>2
  <2>6. Fenced(m)'
    BY <1>4 DEF Structure, Fenced
  <2>7. Idle(m)' /\ Rewriting(m)' /\ Publishing(m)'
    BY <1>1, <1>4 DEF Idle, Rewriting, Publishing, OpBegins, Is
  <2> QED BY <1>1, <2>3, <2>5, <2>6, <2>7 DEF Structure
<1> QED BY <1>3, <1>4, AppendIs DEF Directory

LEMMA ResumedStructured ==
  ASSUME MgrTyped, NEW m \in Manager, NEW t \in Task, Structure(m), Resumed(m, t)
  PROVE  MgrTyped' /\ Structure(m)'
<1>1. CASE StartTask(m, t)
  <2>1. /\ MgrTyped' /\ up[m] /\ op[m] = None /\ tasks[m][t].st = "queued"
        /\ \A u \in Task \ {t} : tasks[m][u] = NoTask \/ ~tasks[m][u].live
        /\ UNCHANGED <<up, mem, size, failed, op>>
        /\ \/ /\ fenced'[m] = TRUE /\ TaskMoves(m, t, "closing")
           \/ TaskEnds(m, t) /\ fenced' = fenced
    BY <1>1, StartIs
  <2>2. \A u \in Task : u # t => ~Running(tasks[m][u])
    <3>1. NoTask.live = FALSE
      BY DEF NoTask
    <3> QED BY <2>1, <3>1 DEF Running
  <2>3. \A u \in Task : u # t => tasks'[m][u] = tasks[m][u]
    BY <2>1 DEF TaskMoves, TaskEnds
  <2>4. Fenced(m)'
    <3>1. TaskEnds(m, t) => ~Running(tasks'[m][t])
      BY DEF TaskEnds, Running, NoTask
    <3> QED BY <2>1, <2>2, <2>3, <3>1 DEF Fenced
  <2>5. tasks'[m][t].st \notin Staged
    BY <2>1 DEF TaskMoves, TaskEnds, Staged, Thrown, NoTask
  <2>6. StagedBodies(m)'
    BY <2>1, <2>3, <2>5 DEF Structure, StagedBodies
  <2> QED BY <2>1, <2>4, <2>6 DEF Structure, Idle, Appending, Rewriting, Publishing, Is
<1>2. CASE Stage(m, t)
  <2>1. /\ MgrTyped' /\ Quiet(m) /\ tasks[m][t].st = "closing" /\ size' = size /\ op' = op
        /\ \/ /\ tasks[m][t].live /\ fenced' = fenced
              /\ \A u \in Task \ {t} : tasks'[m][u] = tasks[m][u]
              /\ tasks'[m][t].st = "staging" /\ tasks'[m][t].live = TRUE
              /\ tasks'[m][t].lines = mem[m] /\ tasks'[m][t].size = size[m]
           \/ ~tasks[m][t].live /\ Ends(m, t)
    BY <1>2, StageIs
  <2>2. CASE tasks[m][t].live
    <3>1. Fenced(m)'
      BY <2>1, <2>2 DEF Structure, Fenced, Running
    <3>2. StagedBodies(m)'
      <4>1. Continues(mem[m], mem[m])
        BY TaskTyped, ContinuesItself
      <4> QED BY <2>1, <2>2, <4>1 DEF Structure, StagedBodies, Quiet
    <3> QED BY <2>1, <3>1, <3>2 DEF Quiet, Structure, Idle, Appending, Rewriting, Publishing, Is
  <2>3. CASE ~tasks[m][t].live
    BY <2>1, <2>3, EndStructured DEF Quiet
  <2> QED BY <2>2, <2>3
<1>3. CASE Publish(m, t)
  <2>1. /\ MgrTyped' /\ Quiet(m) /\ tasks[m][t].st = "staging" /\ size' = size
        /\ \/ /\ tasks[m][t].live /\ fenced' = fenced /\ tasks' = tasks
              /\ OpBegins(m, "publish", t, tasks[m][t].lines, tasks[m][t].size)
           \/ ~tasks[m][t].live /\ Ends(m, t) /\ op' = op
    BY <1>3, PublishIs
  <2>2. CASE tasks[m][t].live
    <3>1. Publishing(m)' /\ Appending(m)' /\ Rewriting(m)'
      BY <2>1, <2>2 DEF Publishing, Appending, Rewriting, OpBegins, Is
    <3> QED BY <2>1, <2>2, <3>1 DEF Quiet, Structure, Idle, Fenced, StagedBodies
  <2>3. CASE ~tasks[m][t].live
    BY <2>1, <2>3, EndStructured DEF Quiet
  <2> QED BY <2>2, <2>3
<1>4. CASE ReadBack(m, t)
  <2>1. /\ MgrTyped' /\ tasks[m][t].st = "reading"
        /\ UNCHANGED <<writer, up, mem, size, failed, fenced, op>>
    BY <1>4, ReadBackIs
  <2>2. PICK st \in {"same", "other"} : TaskMoves(m, t, st)
    BY <1>4, ReadBackIs
  <2>3. /\ \A u \in Task : u # t => tasks'[m][u] = tasks[m][u]
        /\ tasks'[m][t].st = st /\ tasks'[m][t].live = tasks[m][t].live
        /\ tasks'[m][t].lines = tasks[m][t].lines
    BY <2>2 DEF TaskMoves
  <2>4. StagedBodies(m)'
    BY <2>1, <2>3 DEF Structure, StagedBodies, Staged, Thrown
  <2>5. Fenced(m)'
    BY <2>1, <2>3 DEF Structure, Fenced, Running
  <2>6. Publishing(m)'
    <3>1. Is(m, "publish") => op[m].task # t
      BY <2>1 DEF Structure, Publishing
    <3> QED BY <2>1, <2>3, <3>1 DEF Structure, Publishing, Is
  <2>7. Rewriting(m)'
    BY <2>1, <2>3 DEF Structure, Rewriting, Is
  <2>8. Idle(m)'
    BY <1>4, <2>1, ReadBackIs DEF Idle
  <2>9. Appending(m)'
    BY <2>1 DEF Structure, Appending, Is, Newest
  <2> QED BY <2>1, <2>4, <2>5, <2>6, <2>7, <2>8, <2>9 DEF Structure
<1>5. CASE SettleFailed(m, t)
  <2>1. /\ MgrTyped' /\ up[m] /\ op'[m] = None /\ tasks[m][t].st \in {"same", "other"}
        /\ Ends(m, t) /\ UNCHANGED <<up, mem>>
    BY <1>5, SettleFailedIs
  <2> QED BY <2>1, EndStructured
<1> QED BY <1>1, <1>2, <1>3, <1>4, <1>5 DEF Resumed

LEMMA ScheduleStructured ==
  ASSUME MgrTyped, NEW m \in Manager, NEW t \in Task, Structure(m), Schedule(m, t)
  PROVE  MgrTyped' /\ Structure(m)'
<1>1. /\ MgrTyped' /\ up[m] /\ op[m] = None /\ tasks[m][t] = NoTask
      /\ UNCHANGED <<files, target, baks, scan, writer, up, size, failed, fenced, op>>
      /\ \A u \in Task \ {t} : tasks'[m][u] = tasks[m][u]
      /\ tasks'[m][t].st = "queued" /\ tasks'[m][t].live = TRUE
      /\ mem'[m] = mem[m] \/ mem'[m] = [mem[m] EXCEPT ![1] = Edited]
  BY ScheduleIs
<1>2. \A l \in Seq(Line) : Continues(l, mem[m]) => Continues(l, mem'[m])
  BY <1>1, TaskTyped, ContinuesEdit
<1>3. Len(mem'[m]) = Len(mem[m])
  BY <1>1, TaskTyped, EditIs
<1>4. StagedBodies(m)'
  <2>1. \A u \in Task : u # t => tasks'[m][u] = tasks[m][u]
    BY <1>1
  <2>2. "queued" \notin Staged
    BY DEF Staged, Thrown
  <2> QED BY <1>1, <1>2, <1>3, <2>1, <2>2, TaskTyped DEF Structure, StagedBodies
<1>5. Fenced(m)'
  BY <1>1 DEF Structure, Fenced, Running
<1> QED BY <1>1, <1>4, <1>5 DEF Structure, Idle, Appending, Rewriting, Publishing, Is

LEMMA ActsStructured ==
  ASSUME Directory, MgrTyped, EnvTyped, EnvTyped', faults <= faults',
         NEW m \in Manager, Structure(m), Acts(m)
  PROVE  MgrTyped' /\ Structure(m)'
<1>1. CASE Resume(m)
  <2>1. /\ MgrTyped' /\ UNCHANGED <<writer, failed, fenced, tasks, op>> /\ up'[m] = TRUE
    BY <1>1, ResumeIs DEF Directory
  <2>2. op[m] = None /\ \A t \in Task : tasks[m][t] = NoTask
    BY <1>1 DEF Resume, Structure, Idle
  <2>3. NoTask.st = "none"
    BY DEF NoTask
  <2>4. StagedBodies(m)' /\ Fenced(m)'
    BY <2>1, <2>2, <2>3 DEF StagedBodies, Fenced, Staged, Thrown, Running
  <2> QED BY <2>1, <2>2, <2>4 DEF Structure, Idle, Appending, Rewriting, Publishing, Is
<1>2. CASE AppendEntry(m)
  BY <1>2, AppendStructured
<1>3. CASE FlushSync(m)
  <2>1. /\ MgrTyped' /\ up[m] /\ UNCHANGED <<up, mem, size, failed>>
        /\ OpBegins(m, "rewrite", None, mem[m], size[m])
        /\ \A t \in Task : /\ tasks'[m][t].st = tasks[m][t].st
                           /\ tasks'[m][t].live = FALSE
                           /\ tasks'[m][t].lines = tasks[m][t].lines
                           /\ tasks'[m][t].size = tasks[m][t].size
    BY <1>3, FlushIs DEF Directory
  <2>2. OpBegins(m, "rewrite", None, mem'[m], size[m])
    BY <2>1
  <2> QED BY <2>1, <2>2, RewriteStructured
<1>4. CASE Region(m)
  BY <1>4, RegionStructured
<1>5. CASE Crash(m)
  <2>1. /\ MgrTyped' /\ up'[m] = FALSE /\ mem'[m] = <<>> /\ op'[m] = None
        /\ \A t \in Task : tasks'[m][t] = NoTask
        /\ Disk(files, target, baks, Closed(m))
    BY <1>5, CrashIs
  <2>2. NoTask.st = "none"
    BY DEF NoTask
  <2>3. StagedBodies(m)' /\ Fenced(m)'
    BY <2>1, <2>2 DEF StagedBodies, Fenced, Staged, Thrown, Running
  <2>4. writer'[m] = None
    BY <2>1 DEF Disk, Closed, Directory, DirTyped
  <2> QED BY <2>1, <2>3, <2>4 DEF Structure, Idle, Appending, Rewriting, Publishing, Is
<1> QED BY <1>1, <1>2, <1>3, <1>4, <1>5, ScheduleStructured, ResumedStructured DEF Acts

(***************************************************************************)
(* The structural invariant.                                               *)
(***************************************************************************)
SInv ==
    /\ Directory /\ MgrTyped /\ EnvTyped /\ RegionHeld
    /\ \A m \in Manager : Structure(m)

\* What a write that is past the open carries.
LEMMA OpCarries ==
  ASSUME MgrTyped, NEW m \in Manager, op[m] # None
  PROVE  /\ op[m].lines \in Seq(Line) /\ op[m].size \in Nat
         /\ op[m].bak \in Ino \cup {None}
         /\ op[m].kind \in {"append", "rewrite", "publish"}
BY DEF MgrTyped, OpType

LEMMA ActsDirectory ==
  ASSUME Directory, MgrTyped, EnvTyped, EnvTyped', faults <= faults',
         NEW m \in Manager, Structure(m), Acts(m)
  PROVE  Directory'
<1>1. ASSUME UNCHANGED <<files, target, baks, scan, writer>> PROVE Directory'
  BY <1>1, DirectorySame
<1>2. ASSUME NEW v \in Ino \cup {None}, Disk(files, target, baks, [writer EXCEPT ![m] = v])
      PROVE  Directory'
  BY <1>2, CloseIs
<1>3. Disk(files, target, baks, Closed(m)) => Directory'
  BY <1>2 DEF Closed
<1>4. CASE Resume(m)
  BY <1>1, <1>4 DEF Resume, disk
<1>5. CASE AppendEntry(m)
  BY <1>3, <1>5, AppendIs, OpenIs DEF Directory
<1>6. CASE FlushSync(m) \/ Crash(m)
  BY <1>3, <1>6, FlushIs, CrashIs DEF Directory
<1>7. CASE Region(m)
  <2>1. CASE EnterRegion(m) \/ LockTimesOut(m) \/ Conflict(m) \/ RollBackFails(m)
    BY <1>1, <2>1 DEF EnterRegion, LockTimesOut, Conflict, RollBackFails, disk
  <2>2. CASE WriteLine(m)
    <3>1. op[m].lines \in Seq(Line) /\ writer[m] \in Ino
      BY <2>2, WriteLineIs, OpCarries DEF Structure, Appending, Is
    <3> QED BY <2>2, <3>1, WrittenIs
  <2>3. CASE WriteLineFails(m)
    <3> DEFINE v == IF target = None THEN writer[m] ELSE target
    <3>1. Disk(files, target, baks, [writer EXCEPT ![m] = v])
      BY <2>3 DEF WriteLineFails
    <3>2. v \in Ino \cup {None}
      BY DEF Directory, DirTyped
    <3> QED BY <1>2, <3>1, <3>2
  <2>4. CASE Rename(m) \/ RenameAgain(m)
    <3>1. Replace(m, baks) /\ op[m] # None
      BY <2>4 DEF Rename, RenameAgain, At
    <3> QED BY <3>1, ReplaceIs, OpCarries
  <2>5. CASE MoveAside(m)
    BY <2>5, AsideIs, MoveAsideIs DEF Directory
  <2>6. CASE UnlinkBackup(m)
    <3>1. Disk(files, target, RemoveFirst(baks, op[m].bak), writer)
      BY <2>6 DEF UnlinkBackup
    <3> QED BY <3>1, NamedIs DEF Directory, DirTyped
  <2>7. CASE RollBack(m)
    <3>1. CASE op[m].bak \in ToSet(baks)
      <4>1. Disk(files, op[m].bak, RemoveFirst(baks, op[m].bak), writer)
        BY <2>7, <3>1 DEF RollBack
      <4>2. op[m].bak \in Ino
        BY <3>1, NoneIsNoName DEF Directory
      <4> QED BY <4>1, <4>2, NamedIs
    <3>2. CASE op[m].bak \notin ToSet(baks)
      BY <1>1, <2>7, <3>2 DEF RollBack, disk
    <3> QED BY <3>1, <3>2
  <2> QED BY <1>7, <2>1, <2>2, <2>3, <2>4, <2>5, <2>6, <2>7 DEF Region
<1>8. ASSUME NEW t \in Task, Schedule(m, t) \/ Stage(m, t) \/ Publish(m, t) \/ ReadBack(m, t)
                             \/ SettleFailed(m, t)
      PROVE  Directory'
  BY <1>1, <1>8 DEF Schedule, Stage, Publish, ReadBack, SettleFailed, disk
<1>9. ASSUME NEW t \in Task, StartTask(m, t) PROVE Directory'
  BY <1>1, <1>3, <1>9, StartIs
<1> QED BY <1>4, <1>5, <1>6, <1>7, <1>8, <1>9 DEF Acts, Resumed

\* A scan promotes a backup.
LEMMA PromoteIs ==
  ASSUME Directory, faults <= faults', EnvTyped, EnvTyped', Promote
  PROVE  /\ Directory' /\ target' = scan /\ scan \in Ino /\ writer' = writer
         /\ ToSet(baks') = ToSet(baks) \ {scan}
         /\ \A j \in Ino : j = scan \/ j \in ToSet(baks') => files'[j] = files[j]
<1>1. scan \in Ino /\ Disk(files, scan, RemoveFirst(baks, scan), writer)
  BY DEF Promote, Directory, DirTyped
<1> QED BY <1>1, NamedIs

LEMMA ScanIs ==
  ASSUME Directory, EnvTyped, EnvTyped', Scan
  PROVE  Directory' /\ UNCHANGED <<files, target, baks, writer>>
<1>1. /\ UNCHANGED <<files, target, baks, writer, faults>> /\ baks # <<>>
      /\ scan' = baks[Len(baks)]
  BY DEF Scan, env
<1>2. baks[Len(baks)] \in Ino
  BY <1>1 DEF Directory, DirTyped
<1> QED BY <1>1, <1>2 DEF Directory, DirTyped, Names, Garbage, Refs

\* A write that is past the lock afterwards has just entered, or was past it.
LEMMA PastStep ==
  ASSUME Directory, MgrTyped, EnvTyped, NEW m \in Manager, Structure(m), Acts(m), Past(m)'
  PROVE  EnterRegion(m) \/ (Past(m) /\ holder' = holder)
<1> USE DEF Past
<1>1. ~FlushSync(m)
  BY FlushIs DEF OpBegins, Directory
<1>2. ~AppendEntry(m)
  BY AppendIs DEF OpBegins, Directory
<1>3. ~Crash(m)
  BY CrashIs
<1>4. CASE Resume(m)
  BY <1>4 DEF Resume
<1>5. CASE Region(m)
  <2>1. ~Throw(m) /\ ~Done(m)
    BY DEF Throw, Fail, Done, MgrTyped
  <2>2. CASE MoveAside(m) \/ RenameAgain(m)
    BY <2>2 DEF MoveAside, RenameAgain, At
  <2>3. ~WriteLine(m)
    BY WriteLineIs
  <2>4. ~LockTimesOut(m) /\ ~WriteLineFails(m) /\ ~Conflict(m) /\ ~RollBack(m)
        /\ ~RollBackFails(m)
    BY <2>1, Zenon DEF LockTimesOut, WriteLineFails, Conflict, RollBack, RollBackFails
  <2>5. ~Rename(m) /\ ~UnlinkBackup(m)
    BY <2>1, Zenon DEF Rename, UnlinkBackup
  <2>6. EnterRegion(m) \/ MoveAside(m) \/ RenameAgain(m)
    BY <1>5, <2>3, <2>4, <2>5, Zenon DEF Region
  <2> QED BY <2>2, <2>6
<1>6. ASSUME NEW t \in Task, Schedule(m, t) \/ Stage(m, t) \/ SettleFailed(m, t)
      PROVE  FALSE
  BY <1>6 DEF Schedule, Stage, SettleFailed, Free
<1>7. ASSUME NEW t \in Task, StartTask(m, t) \/ Publish(m, t) PROVE FALSE
  BY <1>7, StartIs, PublishIs DEF Quiet, OpBegins
<1>8. ASSUME NEW t \in Task, ReadBack(m, t) PROVE Past(m) /\ holder' = holder
  BY <1>8 DEF ReadBack
<1> QED BY <1>1, <1>2, <1>3, <1>4, <1>5, <1>6, <1>7, <1>8 DEF Acts, Resumed

LEMMA HeldNext ==
  ASSUME SInv, [Next]_vars
  PROVE  RegionHeld'
<1> SUFFICES ASSUME NEW q \in Manager, Past(q)' PROVE holder' = q
  BY DEF RegionHeld
<1>1. ASSUME NEW m \in Manager, Acts(m) PROVE holder' = q
  <2>1. CASE m = q
    BY <1>1, <2>1, PastStep DEF SInv, RegionHeld, EnterRegion, Lock!Enter
  <2>2. CASE m # q
    <3>1. Past(q)
      BY <1>1, <2>2, ActsKeep DEF SInv, Directory, Kept, Past
    <3>2. holder = q
      BY <3>1 DEF SInv, RegionHeld
    <3> QED BY <1>1, <2>2, <3>2, LockUsed, FileAssumption DEF Lock!Enter, Lock!Leave, Lock!Free
  <2> QED BY <2>1, <2>2
<1>2. CASE Scan \/ Promote \/ UNCHANGED vars
  BY <1>2 DEF Scan, Promote, vars, SInv, RegionHeld, Past
<1> QED BY <1>1, <1>2, NextIs

LEMMA StructureInit == Init => SInv
<1> SUFFICES ASSUME Init PROVE SInv
  OBVIOUS
<1>1. 1 \in Ino /\ \A i \in Ino : i # None
  BY FileAssumption
<1>2. <<Header>> \in Seq(Line) /\ 1 \in Ino
  BY FileAssumption DEF Header, Line, Edited
<1>3. DirTyped
  BY <1>1, <1>2 DEF Init, DirTyped
<1>4. Names
  <2>1. baks = <<>> /\ faults = 0 /\ Len(baks) = 0 /\ ToSet(baks) = {}
    BY DEF Init, ToSet
  <2> QED BY <2>1 DEF Names
<1>5. Garbage
  BY DEF Init, Garbage, Refs
<1>6. MgrTyped
  <2>1. <<>> \in Seq(Line) /\ 0 \in Nat /\ NoTask \in TaskRec
    BY NoTaskTyped
  <2>2. /\ tasks = [m \in Manager |-> [t \in Task |-> NoTask]]
        /\ mem = [m \in Manager |-> <<>>] /\ size = [m \in Manager |-> 0]
        /\ op = [m \in Manager |-> None]
    BY DEF Init
  <2>3. tasks \in [Manager -> [Task -> TaskRec]] /\ mem \in [Manager -> Seq(Line)]
        /\ size \in [Manager -> Nat] /\ op \in [Manager -> OpType \cup {None}]
    BY <2>1, <2>2
  <2> QED BY <2>3 DEF Init, MgrTyped
<1>7. EnvTyped
  <2>1. MaxLines \in Nat /\ MaxCrashes \in Nat /\ MaxFaults \in Nat
    BY FileAssumption
  <2>2. holder = None /\ made = 0 /\ crashes = 0 /\ faults = 0 /\ raced = FALSE
    BY DEF Init, Lock!Init
  <2>3. 0 \in 0..MaxLines /\ 0 \in 0..MaxCrashes /\ 0 \in 0..MaxFaults
    BY <2>1
  <2> QED BY <2>2, <2>3 DEF EnvTyped
<1>8. RegionHeld
  BY DEF Init, RegionHeld, Past
<1>9. ASSUME NEW m \in Manager PROVE Structure(m)
  <2>1. /\ ~up[m] /\ op[m] = None /\ writer[m] = None /\ mem[m] = <<>>
        /\ \A t \in Task : tasks[m][t] = NoTask
    BY DEF Init
  <2>2. NoTask.st = "none"
    BY DEF NoTask
  <2> QED BY <2>1, <2>2 DEF Structure, Idle, Appending, Rewriting, Publishing, Is, Fenced,
          Running, StagedBodies, Staged, Thrown
<1> QED BY <1>3, <1>4, <1>5, <1>6, <1>7, <1>8, <1>9 DEF SInv, Directory

LEMMA StructureNext == SInv /\ [Next]_vars => SInv'
<1> SUFFICES ASSUME SInv, [Next]_vars PROVE SInv'
  OBVIOUS
<1>1. EnvTyped' /\ faults <= faults'
  BY EnvNext DEF SInv
<1>2. RegionHeld'
  BY HeldNext
<1>3. ASSUME NEW m \in Manager, Acts(m)
      PROVE  Directory' /\ MgrTyped' /\ \A n \in Manager : Structure(n)'
  <2>1. Directory' /\ MgrTyped' /\ Structure(m)'
    BY <1>1, <1>3, ActsDirectory, ActsStructured DEF SInv
  <2>2. ASSUME NEW n \in Manager, n # m PROVE Structure(n)'
    <3>1. Kept(n)
      BY <1>3, <2>2, ActsKeep DEF SInv, Directory
    <3> QED BY <3>1, KeptStructured DEF SInv
  <2> QED BY <2>1, <2>2
<1>4. ASSUME UNCHANGED <<up, mem, current, size, failed, writer, fenced, tasks, op>>
      PROVE  MgrTyped' /\ \A n \in Manager : Structure(n)'
  <2>1. MgrTyped'
    BY <1>4 DEF SInv, MgrTyped
  <2>2. ASSUME NEW n \in Manager PROVE Structure(n)'
    <3>1. Kept(n)
      BY <1>4 DEF Kept
    <3> QED BY <3>1, KeptStructured DEF SInv
  <2> QED BY <2>1, <2>2
<1>5. CASE Scan
  <2>1. UNCHANGED <<up, mem, current, size, failed, writer, fenced, tasks, op>>
    BY <1>5 DEF Scan
  <2> QED BY <1>1, <1>2, <1>4, <1>5, <2>1, ScanIs DEF SInv
<1>6. CASE Promote
  <2>1. Directory' /\ UNCHANGED <<up, mem, current, size, failed, writer, fenced, tasks, op>>
    BY <1>1, <1>6, PromoteIs DEF SInv, Promote
  <2> QED BY <1>1, <1>2, <1>4, <2>1 DEF SInv
<1>7. CASE UNCHANGED vars
  <2>1. /\ UNCHANGED <<files, target, baks, scan, writer>>
        /\ UNCHANGED <<up, mem, current, size, failed, writer, fenced, tasks, op>>
    BY <1>7 DEF vars
  <2>2. Directory'
    BY <1>1, <2>1, DirectorySame DEF SInv
  <2> QED BY <1>1, <1>2, <1>4, <2>1, <2>2 DEF SInv
<1> QED BY <1>1, <1>2, <1>3, <1>5, <1>6, <1>7, NextIs DEF SInv

\* TypeOK: the state keeps its types; in particular a write that is refused can
\* only be one of a file that exists, and a new file always finds an inode.
THEOREM TypeCorrect == Spec => []TypeOK
<1>1. SInv => TypeOK
  BY TypeParts DEF SInv, Directory
<1> QED BY <1>1, StructureInit, StructureNext, PTL DEF Spec

\* Every step of the managers is one that RegionLock allows: the lock is taken
\* when it is free, given up by who holds it, and not touched otherwise.
THEOREM LockIsRegionLock == Spec => Lock!Spec
<1>1. Init => Lock!Init
  BY DEF Init
<1>2. [Next]_vars => [Lock!Next]_holder
  <2> SUFFICES ASSUME [Next]_vars PROVE [Lock!Next]_holder
    OBVIOUS
  <2>1. ASSUME NEW m \in Manager, Acts(m) PROVE [Lock!Next]_holder
    BY <2>1, LockUsed DEF Lock!Next
  <2>2. CASE Scan \/ Promote \/ UNCHANGED vars
    BY <2>2 DEF Scan, Promote, vars
  <2> QED BY <2>1, <2>2, NextIs
<1> QED BY <1>1, <1>2, PTL DEF Spec, Lock!Spec

\* What a step may do to the file at the path: nothing, what the manager that holds
\* the lock does past it, a scan's promotion, or the creation of a missing file.
Covered ==
    \/ target' = target /\ (target # None => files'[target] = files[target])
    \/ holder \in Manager /\ Past(holder)
    \/ Promote
    \/ target = None /\ target' \in Ino /\ files'[target'] = <<>>

LEMMA ActsCovered ==
  ASSUME SInv, SInv', faults <= faults', NEW m \in Manager, Acts(m)
  PROVE  Covered
<1>1. ASSUME UNCHANGED <<files, target>> PROVE Covered
  BY <1>1 DEF Covered
<1>2. ASSUME SameNames PROVE Covered
  <2>1. target # None => target \in Ino
    BY DEF SInv, Directory, DirTyped
  <2> QED BY <1>2, <2>1 DEF SameNames, Covered
<1>3. ASSUME Disk(files, target, baks, Closed(m)) PROVE Covered
  <2>1. Disk(files, target, baks, [writer EXCEPT ![m] = None])
    BY <1>3 DEF Closed
  <2>2. SameNames
    BY <2>1, CloseIs DEF SInv
  <2> QED BY <1>2, <2>2
<1>4. CASE Resume(m)
  BY <1>1, <1>4 DEF Resume, disk
<1>5. CASE AppendEntry(m)
  <2>1. Disk(files, target, baks, Closed(m)) \/ AppendsHot(m)
    BY <1>5, AppendIs DEF SInv, Directory
  <2>2. CASE AppendsHot(m)
    <3>1. SameNames \/ (target = None /\ target' \in Ino /\ files'[target'] = <<>>)
      BY <2>2, OpenIs DEF SInv
    <3> QED BY <1>2, <3>1 DEF Covered
  <2> QED BY <1>3, <2>1, <2>2
<1>6. CASE FlushSync(m) \/ Crash(m)
  BY <1>3, <1>6, FlushIs, CrashIs DEF SInv, Directory
<1>7. CASE Region(m)
  <2>1. CASE Past(m)
    BY <2>1 DEF Covered, SInv, RegionHeld
  <2>2. CASE ~Past(m)
    <3>1. EnterRegion(m) \/ LockTimesOut(m)
      BY <1>7, <2>2 DEF Past, Region, WriteLine, WriteLineFails, Conflict, Rename, MoveAside,
         RenameAgain, UnlinkBackup, RollBack, RollBackFails, At
    <3> QED BY <1>1, <3>1 DEF EnterRegion, LockTimesOut, disk
  <2> QED BY <2>1, <2>2
<1>8. ASSUME NEW t \in Task, Schedule(m, t) \/ Stage(m, t) \/ Publish(m, t) \/ ReadBack(m, t)
                             \/ SettleFailed(m, t)
      PROVE  Covered
  BY <1>1, <1>8 DEF Schedule, Stage, Publish, ReadBack, SettleFailed, disk
<1>9. ASSUME NEW t \in Task, StartTask(m, t) PROVE Covered
  BY <1>1, <1>3, <1>9, StartIs DEF SInv
<1> QED BY <1>4, <1>5, <1>6, <1>7, <1>8, <1>9 DEF Acts, Resumed

\* The file at the path is written, moved and replaced only by a manager that holds
\* the lock, and only one does; a scan promotes a backup without it, and an append
\* that finds no file creates an empty one before it takes the lock.
THEOREM FileChangesUnderLock ==
  Spec => [][ \/ target' = target /\ (target # None => files'[target] = files[target])
              \/ holder \in Manager /\ Past(holder)
              \/ Promote
              \/ target = None /\ target' \in Ino /\ files'[target'] = <<>> ]_vars
<1>1. SInv /\ [Next]_vars => [Covered]_vars
  <2> SUFFICES ASSUME SInv, [Next]_vars, ~UNCHANGED vars PROVE Covered
    OBVIOUS
  <2>1. SInv' /\ faults <= faults'
    BY StructureNext, EnvNext DEF SInv
  <2>2. CASE Scan \/ Promote
    BY <2>2 DEF Scan, Covered
  <2> QED BY <2>1, <2>2, ActsCovered, NextIs
<1>2. SInv /\ [Next]_vars
      => [ \/ target' = target /\ (target # None => files'[target] = files[target])
           \/ holder \in Manager /\ Past(holder)
           \/ Promote
           \/ target = None /\ target' \in Ino /\ files'[target'] = <<>> ]_vars
  BY <1>1 DEF Covered
<1> QED BY <1>2, StructureInit, StructureNext, PTL DEF Spec

(***************************************************************************)
(* Superseded rewrites.                                                    *)
(***************************************************************************)
\* What a superseded task that takes a step may not do.
Silent(m, t) ==
    /\ up'[m] /\ ~tasks[m][t].live
    /\ tasks[m][t].st # "none" /\ tasks'[m][t] # tasks[m][t]
    => /\ target' = target /\ files' = files
       /\ current' = current /\ fenced' = fenced
       /\ ~Threw(m, t) =>
             tasks'[m][t] = NoTask /\ size' = size /\ failed' = failed

\* A synchronous rewrite supersedes the other tasks and changes nothing else of them.
LEMMA RewriteSilent ==
  ASSUME MgrTyped, NEW m \in Manager, NEW t \in Task, NEW lines, RewriteSync(m, lines),
         ~tasks[m][t].live
  PROVE  tasks'[m][t] = tasks[m][t]
<1>1. tasks[m][t] \in TaskRec
  BY DEF MgrTyped
<1>2. tasks'[m][t] = [tasks[m][t] EXCEPT !.live = FALSE]
  BY DEF RewriteSync, MgrTyped
<1> QED BY <1>1, <1>2 DEF TaskRec

LEMMA ActsSilently ==
  ASSUME MgrTyped, NEW m \in Manager, Publishing(m), Acts(m), NEW t \in Task
  PROVE  Silent(m, t)
<1>0. tasks \in [Manager -> [Task -> TaskRec]] /\ fenced \in [Manager -> BOOLEAN]
      /\ up \in [Manager -> BOOLEAN]
  BY DEF MgrTyped
<1> SUFFICES ASSUME up'[m], ~tasks[m][t].live, tasks[m][t].st # "none",
                    tasks'[m][t] # tasks[m][t]
             PROVE  /\ target' = target /\ files' = files
                    /\ current' = current /\ fenced' = fenced
                    /\ ~Threw(m, t) =>
                          tasks'[m][t] = NoTask /\ size' = size /\ failed' = failed
  BY DEF Silent
<1>1. ~Resume(m) /\ ~FlushSync(m)
  BY RewriteSilent DEF Resume, FlushSync
<1>2. ~AppendEntry(m)
  BY RewriteSilent DEF AppendEntry, AppendHot
<1>3. ~Crash(m)
  BY <1>0 DEF Crash
<1>4. ~Region(m)
  <2>1. ASSUME op[m] # None, Throw(m) \/ Done(m) PROVE FALSE
    <3>1. CASE op[m].kind = "publish"
      <4>1. op[m].task # t
        BY <2>1, <3>1 DEF Publishing, Is
      <4>2. \/ tasks' = [tasks EXCEPT ![m][op[m].task].st = "reading"]
            \/ tasks' = [tasks EXCEPT ![m][op[m].task] = NoTask]
        BY <2>1, <3>1 DEF Throw, Done, EndTask, Clear
      <4> QED BY <1>0, <4>1, <4>2
    <3>2. CASE op[m].kind # "publish"
      BY <2>1, <3>2 DEF Throw, Done
    <3> QED BY <3>1, <3>2
  <2>2. CASE EnterRegion(m) \/ WriteLine(m) \/ MoveAside(m) \/ RenameAgain(m)
    BY <2>2 DEF EnterRegion, WriteLine, MoveAside, RenameAgain
  <2>3. CASE LockTimesOut(m) \/ WriteLineFails(m) \/ Conflict(m) \/ RollBack(m)
               \/ RollBackFails(m)
    BY <2>1, <2>3, Zenon DEF LockTimesOut, WriteLineFails, Conflict, RollBack, RollBackFails, At
  <2>4. CASE Rename(m) \/ UnlinkBackup(m)
    BY <2>1, <2>4, Zenon DEF Rename, UnlinkBackup, At
  <2> QED BY <2>2, <2>3, <2>4 DEF Region
<1>5. ASSUME NEW u \in Task, u # t, Schedule(m, u) \/ Resumed(m, u) PROVE FALSE
  BY <1>0, <1>5 DEF Schedule, Resumed, StartTask, Stage, Publish, ReadBack, SettleFailed,
     EndTask, Clear
<1>6. ~Schedule(m, t)
  BY DEF Schedule, NoTask
<1>7. ASSUME Clear(m, t) PROVE tasks'[m][t] = NoTask
  BY <1>0, <1>7 DEF Clear
<1>8. ASSUME EndTask(m, t) PROVE fenced' = fenced
  BY <1>0, <1>8 DEF EndTask
<1>9. CASE SettleFailed(m, t)
  BY <1>8, <1>9 DEF SettleFailed, Threw, disk
<1>10. CASE StartTask(m, t)
  BY <1>7, <1>10 DEF StartTask, disk
<1>11. CASE Stage(m, t)
  BY <1>7, <1>8, <1>11 DEF Stage, EndTask, disk
<1>12. CASE Publish(m, t)
  BY <1>7, <1>8, <1>12 DEF Publish, EndTask, disk
<1>13. CASE ReadBack(m, t)
  BY <1>13 DEF ReadBack, Threw, disk
<1> QED BY <1>1, <1>2, <1>3, <1>4, <1>5, <1>6, <1>9, <1>10, <1>11, <1>12, <1>13
    DEF Acts, Resumed

\* SupersededIsSilent: a rewrite whose epoch passed does not touch the file, the
\* durability record nor the fence of its successor; it ends at its next step
\* without a trace, unless its publish had thrown before: then it reads the file
\* back, may record the size of what it read, and latches its failure.
THEOREM SupersededHolds == Spec => SupersededIsSilent
<1>1. SInv /\ [Next]_vars => [\A m \in Manager, t \in Task : Silent(m, t)]_vars
  <2> SUFFICES ASSUME SInv, [Next]_vars, ~UNCHANGED vars, NEW m \in Manager, NEW t \in Task
               PROVE  Silent(m, t)
    OBVIOUS
  <2>1. ASSUME NEW n \in Manager, Acts(n), n # m PROVE Silent(m, t)
    <3>1. Kept(m)
      BY <2>1, ActsKeep DEF SInv, Directory
    <3> QED BY <3>1 DEF Kept, Silent
  <2>2. CASE Acts(m)
    BY <2>2, ActsSilently DEF SInv, Structure
  <2>3. CASE Scan \/ Promote
    BY <2>3 DEF Scan, Promote, Silent
  <2> QED BY <2>1, <2>2, <2>3, NextIs
<1>2. SInv /\ [Next]_vars
      => [\A m \in Manager, t \in Task :
            /\ up'[m] /\ ~tasks[m][t].live
            /\ tasks[m][t].st # "none" /\ tasks'[m][t] # tasks[m][t]
            => /\ target' = target /\ files' = files
               /\ current' = current /\ fenced' = fenced
               /\ ~Threw(m, t) =>
                     tasks'[m][t] = NoTask /\ size' = size /\ failed' = failed]_vars
  BY <1>1 DEF Silent
<1> QED BY <1>2, StructureInit, StructureNext, PTL DEF Spec, SupersededIsSilent

(***************************************************************************)
(* What a recovery would find.                                             *)
(***************************************************************************)
AsideAt(m) == op[m] # None /\ op[m].step = "aside"
SwappedAt(m) == op[m] # None /\ op[m].step = "swapped"

\* While m has moved the file aside, its backup has the size m expects, is the
\* newest backup or was promoted, and the path has nothing else but an empty file.
Backups ==
    \A m \in Manager : AsideAt(m) =>
        /\ op[m].bak \in Ino /\ Size(files[op[m].bak]) = op[m].size
        /\ IF op[m].bak \in ToSet(baks) THEN baks[Len(baks)] = op[m].bak ELSE target = op[m].bak
        /\ target \notin {None, op[m].bak} => files[target] = <<>>

\* After the second rename the file is what m wrote.
Swapped ==
    \A m \in Manager : SwappedAt(m) => target # None /\ files[target] = op[m].lines

\* m does not append to a file that is missing.
Out(m) ==
    up[m] => \/ failed[m] \/ Is(m, "rewrite")
             \/ \E t \in Task : tasks[m][t].live /\ tasks[m][t].st \in Thrown

\* A path that was left without its file has a backup, and everyone who has the
\* session open will replace the file.
Left ==
    target = None /\ (\A m \in Manager : ~AsideAt(m))
      => baks # <<>> /\ \A m \in Manager : Out(m)

Held == Backups /\ Swapped /\ Left

LEMMA OnlyOne ==
  ASSUME RegionHeld, NEW m \in Manager, Past(m), NEW n \in Manager, n # m
  PROVE  ~Past(n)
BY DEF RegionHeld

LEMMA VisibleAside ==
  ASSUME RegionHeld, NEW m \in Manager, AsideAt(m)
  PROVE  Visible = files[op[m].bak]
<1>1. \A n \in Manager : AsideAt(n) => n = m
  BY OnlyOne DEF AsideAt, Past
<1>2. Aside = {m}
  BY <1>1 DEF Aside, AsideAt
<1>3. (CHOOSE n \in Aside : TRUE) = m
  BY <1>2
<1> QED BY <1>2, <1>3 DEF Visible

LEMMA VisibleThere ==
  ASSUME \A m \in Manager : ~AsideAt(m)
  PROVE  /\ target # None => Visible = files[target]
         /\ target = None /\ baks # <<>> => Visible = files[baks[Len(baks)]]
<1>1. Aside = {}
  BY DEF Aside, AsideAt
<1> QED BY <1>1 DEF Visible

\* The same of what a recovery finds after a step.
LEMMA VisibleAsideNext ==
  ASSUME RegionHeld', NEW m \in Manager, AsideAt(m)'
  PROVE  Visible' = files'[op'[m].bak]
<1>1. \A n \in Manager : AsideAt(n)' => n = m
  BY DEF RegionHeld, AsideAt, Past
<1>2. Aside' = {m}
  BY <1>1 DEF Aside, AsideAt
<1>3. (CHOOSE n \in Aside' : TRUE) = m
  BY <1>2
<1> QED BY <1>2, <1>3 DEF Visible

LEMMA VisibleThereNext ==
  ASSUME \A m \in Manager : ~AsideAt(m)'
  PROVE  /\ target' # None => Visible' = files'[target']
         /\ target' = None /\ baks' # <<>> => Visible' = files'[baks'[Len(baks')]]
<1>1. Aside' = {}
  BY DEF Aside, AsideAt
<1> QED BY <1>1 DEF Visible

LEMMA LastName ==
  ASSUME DirTyped, baks # <<>>
  PROVE  baks[Len(baks)] \in ToSet(baks) /\ baks[Len(baks)] \in Ino
<1>1. DOMAIN baks = 1..Len(baks) /\ Len(baks) \in 1..Len(baks) /\ baks[Len(baks)] \in Ino
  BY DEF DirTyped
<1> QED BY <1>1 DEF ToSet

LEMMA KeptOut ==
  ASSUME NEW n \in Manager, Kept(n)
  PROVE  /\ Out(n) => Out(n)'
         /\ AsideAt(n)' = AsideAt(n) /\ SwappedAt(n)' = SwappedAt(n)
         /\ op'[n] = op[n]
BY DEF Kept, Out, Is, AsideAt, SwappedAt

\* A step of m that leaves the names, and does not leave the directory to others.
LEMMA ViewStays ==
  ASSUME SInv, RegionHeld', Held, NEW m \in Manager,
         \A n \in Manager : n # m => Kept(n), SameNames,
         ~AsideAt(m), ~AsideAt(m)', ~SwappedAt(m)',
         target = None /\ (\A n \in Manager : ~AsideAt(n)) => Out(m)'
  PROVE  Held' /\ Visible' = Visible
<1>0. /\ \A n \in Manager : n # m => AsideAt(n)' = AsideAt(n) /\ op'[n] = op[n]
                                     /\ SwappedAt(n)' = SwappedAt(n)
      /\ \A n \in Manager : n # m => (Out(n) => Out(n)')
  BY KeptOut DEF AsideAt, SwappedAt
<1>1. /\ target' = target /\ baks' = baks /\ target \in Ino \cup {None}
      /\ \A i \in Ino : i = target \/ i \in ToSet(baks) => files'[i] = files[i]
  BY DEF SameNames, SInv, Directory, DirTyped
<1>2. Backups'
  <2> SUFFICES ASSUME NEW n \in Manager, AsideAt(n)'
               PROVE  /\ op'[n].bak \in Ino /\ Size(files'[op'[n].bak]) = op'[n].size
                      /\ IF op'[n].bak \in ToSet(baks') THEN baks'[Len(baks')] = op'[n].bak
                         ELSE target' = op'[n].bak
                      /\ target' \notin {None, op'[n].bak} => files'[target'] = <<>>
    BY DEF Backups
  <2>1. n # m /\ AsideAt(n) /\ op'[n] = op[n]
    BY <1>0
  <2>2. /\ op[n].bak \in Ino /\ Size(files[op[n].bak]) = op[n].size
        /\ IF op[n].bak \in ToSet(baks) THEN baks[Len(baks)] = op[n].bak
           ELSE target = op[n].bak
        /\ target \notin {None, op[n].bak} => files[target] = <<>>
    BY <2>1 DEF Held, Backups
  <2>3. files'[op[n].bak] = files[op[n].bak]
    BY <1>1, <2>2
  <2> QED BY <1>1, <2>1, <2>2, <2>3
<1>3. Swapped'
  <2> SUFFICES ASSUME NEW n \in Manager, SwappedAt(n)'
               PROVE  target' # None /\ files'[target'] = op'[n].lines
    BY DEF Swapped
  <2>1. n # m /\ SwappedAt(n) /\ op'[n] = op[n]
    BY <1>0
  <2> QED BY <1>1, <2>1 DEF Held, Swapped
<1>4. Left'
  BY <1>0, <1>1 DEF Held, Left
<1>5. Visible' = Visible
  <2>1. ASSUME NEW n \in Manager, AsideAt(n) PROVE Visible' = Visible
    <3>1. n # m /\ AsideAt(n)' /\ op'[n] = op[n]
      BY <1>0, <2>1
    <3>2. op[n].bak \in Ino /\ (op[n].bak \in ToSet(baks) \/ target = op[n].bak)
      BY <2>1 DEF Held, Backups
    <3>3. Visible = files[op[n].bak]
      BY <2>1, VisibleAside DEF SInv
    <3>4. Visible' = files'[op'[n].bak]
      BY <3>1, VisibleAsideNext
    <3> QED BY <1>1, <3>1, <3>2, <3>3, <3>4
  <2>2. CASE \A n \in Manager : ~AsideAt(n)
    <3>1. \A n \in Manager : ~AsideAt(n)'
      BY <1>0, <2>2
    <3>2. CASE target # None
      <4>1. Visible = files[target]
        BY <2>2, <3>2, VisibleThere
      <4>2. Visible' = files'[target']
        BY <1>1, <3>1, <3>2, VisibleThereNext
      <4> QED BY <1>1, <3>2, <4>1, <4>2
    <3>3. CASE target = None
      <4>0. baks # <<>>
        BY <2>2, <3>3 DEF Held, Left
      <4>1. Visible = files[baks[Len(baks)]]
        BY <2>2, <3>3, <4>0, VisibleThere
      <4>2. Visible' = files'[baks'[Len(baks')]]
        BY <1>1, <3>1, <3>3, <4>0, VisibleThereNext
      <4>3. baks[Len(baks)] \in ToSet(baks) /\ baks[Len(baks)] \in Ino
        BY <4>0, LastName DEF SInv, Directory
      <4> QED BY <1>1, <4>1, <4>2, <4>3
    <3> QED BY <3>2, <3>3
  <2> QED BY <2>1, <2>2
<1> QED BY <1>2, <1>3, <1>4, <1>5 DEF Held

\* A step of m, which has the region, that leaves a file at the path.
LEMMA ViewSet ==
  ASSUME SInv, NEW m \in Manager, Past(m), \A n \in Manager : n # m => Kept(n),
         ~AsideAt(m)', target' # None,
         SwappedAt(m)' => files'[target'] = op'[m].lines
  PROVE  Held' /\ Visible' = files'[target']
<1>1. \A n \in Manager : n # m => ~AsideAt(n)' /\ ~SwappedAt(n)'
  <2> SUFFICES ASSUME NEW n \in Manager, n # m PROVE ~AsideAt(n)' /\ ~SwappedAt(n)'
    OBVIOUS
  <2>1. ~Past(n)
    BY OnlyOne DEF SInv
  <2>2. op'[n] = op[n]
    BY KeptOut
  <2> QED BY <2>1, <2>2 DEF AsideAt, SwappedAt, Past
<1>2. \A n \in Manager : ~AsideAt(n)'
  BY <1>1
<1>3. Visible' = files'[target']
  BY <1>2, VisibleThereNext
<1>4. Backups' /\ Swapped' /\ Left'
  BY <1>1, <1>2 DEF Backups, Swapped, Left
<1> QED BY <1>3, <1>4 DEF Held

\* A step that touches neither the names nor the managers.
LEMMA ViewUntouched ==
  ASSUME Held, UNCHANGED <<files, target, baks, op>>,
         \A m \in Manager : Out(m) => Out(m)'
  PROVE  Held' /\ Visible' = Visible
<1>1. Backups'
  BY DEF Held, Backups, AsideAt, Size
<1>2. Swapped'
  BY DEF Held, Swapped, SwappedAt
<1>3. Left'
  BY DEF Held, Left, AsideAt
<1>4. Visible' = Visible
  BY DEF Visible, Aside
<1> QED BY <1>1, <1>2, <1>3, <1>4 DEF Held

\* Someone who is inside the region is the only one.
LEMMA Alone ==
  ASSUME RegionHeld, NEW m \in Manager, Past(m), ~AsideAt(m)
  PROVE  \A n \in Manager : ~AsideAt(n)
BY OnlyOne DEF AsideAt, Past

\* Nobody appends to a file that is missing, unless someone has moved it aside.
LEMMA AppendsToFile ==
  ASSUME SInv, Held, NEW m \in Manager, up[m], ~failed[m], ~fenced[m],
         ~Is(m, "rewrite"), \A n \in Manager : ~AsideAt(n)
  PROVE  target # None
<1>1. ~Out(m)
  BY DEF Out, SInv, Structure, Fenced, Running, Thrown
<1> QED BY <1>1 DEF Held, Left

LEMMA WriteLineView ==
  ASSUME SInv, SInv', faults <= faults', Held, NEW m \in Manager,
         \A n \in Manager : n # m => Kept(n), WriteLine(m)
  PROVE  Held' /\ Visible' = Visible \o op[m].lines
<1>1. /\ op[m] # None /\ op[m].kind = "append" /\ op[m].step = "in" /\ op'[m] = None
  BY WriteLineIs DEF SInv
<1>2. Past(m) /\ ~AsideAt(m) /\ ~AsideAt(m)' /\ ~SwappedAt(m)'
  BY <1>1 DEF Past, AsideAt, SwappedAt
<1>3. \A n \in Manager : ~AsideAt(n)
  BY <1>2, Alone DEF SInv
<1>4. up[m] /\ ~failed[m] /\ ~fenced[m] /\ ~Is(m, "rewrite") /\ writer[m] \in Ino
  BY <1>1 DEF SInv, Structure, Idle, Appending, Is
<1>5. target # None
  BY <1>3, <1>4, AppendsToFile
<1>6. op[m].lines \in Seq(Line)
  BY <1>1, OpCarries DEF SInv
<1>7. target' = target /\ files'[target] = files[target] \o op[m].lines
  BY <1>4, <1>5, <1>6, WrittenIs DEF SInv
<1>8. Visible = files[target]
  BY <1>3, <1>5, VisibleThere
<1>9. Held' /\ Visible' = files'[target']
  BY <1>2, <1>5, <1>7, ViewSet
<1> QED BY <1>7, <1>8, <1>9

\* The size that m expected was that of what the step replaces.
LEMMA RenameView ==
  ASSUME SInv, SInv', faults <= faults', Held, NEW m \in Manager,
         \A n \in Manager : n # m => Kept(n), Rename(m)
  PROVE  Held' /\ Visible' = op[m].lines /\ Size(Visible) = op[m].size
<1>1. /\ op[m] # None /\ op[m].step = "in" /\ op'[m] = None
      /\ SizeOf(target) = op[m].size /\ Replace(m, baks)
  BY DEF Rename, At, Done, SInv, MgrTyped
<1>2. Past(m) /\ ~AsideAt(m) /\ ~AsideAt(m)' /\ ~SwappedAt(m)'
  BY <1>1 DEF Past, AsideAt, SwappedAt
<1>3. \A n \in Manager : ~AsideAt(n)
  BY <1>2, Alone DEF SInv
<1>4. op[m].lines \in Seq(Line) /\ op[m].size \in Nat
  BY <1>1, OpCarries DEF SInv
<1>5. target # None /\ Size(files[target]) = op[m].size
  BY <1>1, <1>4, FileAssumption DEF SizeOf
<1>6. target' \in Ino /\ files'[target'] = op[m].lines
  BY <1>1, <1>4, ReplaceIs DEF SInv
<1>7. target' # None
  BY <1>6, FileAssumption
<1>8. Visible = files[target]
  BY <1>3, <1>5, VisibleThere
<1>9. Held' /\ Visible' = files'[target']
  BY <1>2, <1>7, ViewSet
<1> QED BY <1>5, <1>6, <1>8, <1>9

LEMMA RenameAgainView ==
  ASSUME SInv, SInv', faults <= faults', Held, NEW m \in Manager,
         \A n \in Manager : n # m => Kept(n), RenameAgain(m)
  PROVE  Held' /\ Visible' = op[m].lines /\ Size(Visible) = op[m].size
<1>1. /\ op[m] # None /\ op[m].step = "aside" /\ OpMoves(m, "swapped")
  BY RenameAgainIs DEF SInv
<1>2. Past(m) /\ AsideAt(m) /\ ~AsideAt(m)' /\ op'[m].lines = op[m].lines
  BY <1>1 DEF Past, AsideAt, OpMoves
<1>3. op[m].lines \in Seq(Line)
  BY <1>1, OpCarries DEF SInv
<1>4. Replace(m, baks)
  BY DEF RenameAgain
<1>5. target' \in Ino /\ files'[target'] = op[m].lines
  BY <1>3, <1>4, ReplaceIs DEF SInv
<1>6. target' # None
  BY <1>5, FileAssumption
<1>7. Visible = files[op[m].bak] /\ Size(files[op[m].bak]) = op[m].size
  BY <1>2, VisibleAside DEF SInv, Held, Backups
<1>8. Held' /\ Visible' = files'[target']
  BY <1>2, <1>5, <1>6, ViewSet
<1> QED BY <1>5, <1>7, <1>8

LEMMA MoveAsideView ==
  ASSUME SInv, SInv', faults <= faults', Held, NEW m \in Manager,
         \A n \in Manager : n # m => Kept(n), MoveAside(m)
  PROVE  Held' /\ Visible' = Visible
<1>1. /\ target \in Ino /\ OpMoves(m, "aside") /\ op'[m].bak = target
      /\ op[m] # None /\ op[m].step = "in" /\ Size(files[target]) = op[m].size
  BY MoveAsideIs DEF SInv, Directory
<1>2. Past(m) /\ ~AsideAt(m) /\ AsideAt(m)' /\ ~SwappedAt(m)' /\ op'[m].size = op[m].size
  BY <1>1 DEF Past, AsideAt, SwappedAt, OpMoves
<1>3. \A n \in Manager : ~AsideAt(n)
  BY <1>2, Alone DEF SInv
<1>4. \A n \in Manager : n # m => ~AsideAt(n)' /\ ~SwappedAt(n)'
  <2> SUFFICES ASSUME NEW n \in Manager, n # m PROVE ~AsideAt(n)' /\ ~SwappedAt(n)'
    OBVIOUS
  <2>1. ~Past(n)
    BY <1>2, OnlyOne DEF SInv
  <2> QED BY <2>1, KeptOut DEF AsideAt, SwappedAt, Past
<1>5. /\ target' = None /\ target \in ToSet(baks') /\ baks'[Len(baks')] = target
      /\ files'[target] = files[target]
  BY <1>1, AsideIs DEF SInv
<1>6. target # None
  BY <1>1, FileAssumption
<1>7. Visible = files[target]
  BY <1>3, <1>6, VisibleThere
<1>8. Visible' = files'[op'[m].bak]
  BY <1>2, VisibleAsideNext DEF SInv
<1>9. Backups'
  BY <1>1, <1>2, <1>4, <1>5 DEF Backups, Size
<1>10. Swapped' /\ Left'
  BY <1>2, <1>4 DEF Swapped, Left
<1> QED BY <1>1, <1>5, <1>7, <1>8, <1>9, <1>10 DEF Held

LEMMA UnlinkView ==
  ASSUME SInv, SInv', faults <= faults', Held, NEW m \in Manager,
         \A n \in Manager : n # m => Kept(n), UnlinkBackup(m)
  PROVE  Held' /\ Visible' = Visible /\ Visible = op[m].lines
<1>1. /\ op[m] # None /\ op[m].step = "swapped" /\ op'[m] = None
      /\ Disk(files, target, RemoveFirst(baks, op[m].bak), writer)
  BY DEF UnlinkBackup, At, Done, SInv, MgrTyped
<1>2. Past(m) /\ ~AsideAt(m) /\ SwappedAt(m) /\ ~AsideAt(m)' /\ ~SwappedAt(m)'
  BY <1>1 DEF Past, AsideAt, SwappedAt
<1>3. target # None /\ files[target] = op[m].lines
  BY <1>2 DEF Held, Swapped
<1>4. \A n \in Manager : ~AsideAt(n)
  BY <1>2, Alone DEF SInv
<1>5. Visible = files[target]
  BY <1>3, <1>4, VisibleThere
<1>6. target \in Ino
  BY <1>3 DEF SInv, Directory, DirTyped
<1>7. target' = target /\ files'[target] = files[target]
  BY <1>1, <1>6, NamedIs DEF SInv
<1>8. Held' /\ Visible' = files'[target']
  BY <1>2, <1>3, <1>7, ViewSet
<1> QED BY <1>3, <1>5, <1>7, <1>8

LEMMA RollBackView ==
  ASSUME SInv, SInv', faults <= faults', Held, NEW m \in Manager,
         \A n \in Manager : n # m => Kept(n), RollBack(m)
  PROVE  Held' /\ Visible' = Visible
<1>1. /\ op[m] # None /\ op[m].step = "aside" /\ op'[m] = None
  BY DEF RollBack, At, Throw, Fail, SInv, MgrTyped
<1>2. Past(m) /\ AsideAt(m) /\ ~AsideAt(m)' /\ ~SwappedAt(m)'
  BY <1>1 DEF Past, AsideAt, SwappedAt
<1>3. /\ op[m].bak \in Ino
      /\ op[m].bak \notin ToSet(baks) => target = op[m].bak
      /\ Visible = files[op[m].bak]
  BY <1>2, VisibleAside DEF SInv, Held, Backups
<1>4. target' = op[m].bak /\ files'[op[m].bak] = files[op[m].bak]
  <2>1. CASE op[m].bak \in ToSet(baks)
    <3>1. Disk(files, op[m].bak, RemoveFirst(baks, op[m].bak), writer)
      BY <2>1 DEF RollBack
    <3> QED BY <1>3, <3>1, NamedIs DEF SInv
  <2>2. CASE op[m].bak \notin ToSet(baks)
    BY <1>3, <2>2 DEF RollBack, disk
  <2> QED BY <2>1, <2>2
<1>5. op[m].bak # None
  BY <1>3, FileAssumption
<1>6. Held' /\ Visible' = files'[target']
  BY <1>2, <1>4, <1>5, ViewSet
<1> QED BY <1>3, <1>4, <1>6

\* A write that throws leaves its manager out.
LEMMA ThrowsOut ==
  ASSUME NEW m \in Manager, Structure(m), Throws(m)
  PROVE  Out(m)' /\ ~AsideAt(m)' /\ ~SwappedAt(m)'
<1>1. CASE op[m].kind = "publish"
  <2>1. op[m].task \in Task /\ tasks[m][op[m].task].live
    BY <1>1 DEF Structure, Publishing, Is, Throws
  <2>2. tasks'[m][op[m].task].live /\ tasks'[m][op[m].task].st \in Thrown
    BY <1>1, <2>1 DEF Throws, TaskMoves, Thrown
  <2> QED BY <2>1, <2>2 DEF Out, Throws, AsideAt, SwappedAt
<1>2. CASE op[m].kind # "publish"
  BY <1>2 DEF Out, Throws, AsideAt, SwappedAt
<1> QED BY <1>1, <1>2

\* m gives the region up between the two renames, and nobody else is there.
LEMMA LeftView ==
  ASSUME SInv, SInv', Held, NEW m \in Manager, \A n \in Manager : n # m => Kept(n),
         AsideAt(m), ~Raced(m), ~AsideAt(m)', ~SwappedAt(m)', SameNames, Out(m)'
  PROVE  Held' /\ Visible' = Visible
<1>1. /\ op[m].bak \in Ino
      /\ IF op[m].bak \in ToSet(baks) THEN baks[Len(baks)] = op[m].bak ELSE target = op[m].bak
      /\ Visible = files[op[m].bak]
  BY VisibleAside DEF SInv, Held, Backups
<1>2. target \in {None, op[m].bak} /\ Others(m) = {}
  BY DEF Raced, AsideAt
<1>3. op[m].bak # None /\ Past(m)
  BY <1>1, FileAssumption DEF AsideAt, Past
<1>4. /\ target' = target /\ baks' = baks
      /\ files'[op[m].bak] = files[op[m].bak]
  BY <1>1 DEF SameNames
<1>5. CASE target = op[m].bak
  <2>1. Held' /\ Visible' = files'[target']
    BY <1>3, <1>4, <1>5, ViewSet
  <2> QED BY <1>1, <1>4, <1>5, <2>1
<1>6. CASE target = None
  <2>1. op[m].bak \in ToSet(baks) /\ baks[Len(baks)] = op[m].bak
    BY <1>1, <1>3, <1>6
  <2>2. baks # <<>>
    BY <2>1 DEF ToSet
  <2>3. \A n \in Manager : n # m => ~AsideAt(n)' /\ ~SwappedAt(n)' /\ ~up'[n]
    <3> SUFFICES ASSUME NEW n \in Manager, n # m
                 PROVE  ~AsideAt(n)' /\ ~SwappedAt(n)' /\ ~up'[n]
      OBVIOUS
    <3>1. ~Past(n)
      BY <1>3, OnlyOne DEF SInv
    <3>2. ~up[n] /\ up'[n] = up[n]
      BY <1>2 DEF Others, Kept
    <3> QED BY <3>1, <3>2, KeptOut DEF AsideAt, SwappedAt, Past
  <2>4. Visible' = files'[baks'[Len(baks')]]
    BY <1>4, <1>6, <2>2, <2>3, VisibleThereNext
  <2>5. \A n \in Manager : Out(n)'
    BY <2>3 DEF Out
  <2>6. Backups' /\ Swapped' /\ Left'
    BY <1>4, <2>2, <2>3, <2>5 DEF Backups, Swapped, Left
  <2> QED BY <1>1, <1>4, <2>1, <2>4, <2>6 DEF Held
<1> QED BY <1>2, <1>5, <1>6

\* An append creates a file that is missing only while someone has moved it aside.
LEMMA OpenView ==
  ASSUME SInv, SInv', Held, NEW m \in Manager, \A n \in Manager : n # m => Kept(n),
         up[m], ~failed[m], ~fenced[m], op[m] = None, ~AsideAt(m)', ~SwappedAt(m)',
         target = None, target' \in Ino, files'[target'] = <<>>, baks' = baks,
         \A i \in ToSet(baks) : files'[i] = files[i] /\ i # target'
  PROVE  Held' /\ Visible' = Visible
<1>1. PICK n \in Manager : AsideAt(n)
  BY AppendsToFile DEF Is
<1>2. n # m /\ Past(n)
  BY <1>1 DEF AsideAt, Past
<1>3. /\ op[n].bak \in Ino /\ Size(files[op[n].bak]) = op[n].size
      /\ IF op[n].bak \in ToSet(baks) THEN baks[Len(baks)] = op[n].bak ELSE target = op[n].bak
      /\ Visible = files[op[n].bak]
  BY <1>1, VisibleAside DEF SInv, Held, Backups
<1>4. op[n].bak \in ToSet(baks) /\ baks[Len(baks)] = op[n].bak
  BY <1>3, FileAssumption
<1>5. op'[n] = op[n] /\ AsideAt(n)'
  BY <1>1, <1>2, KeptOut
<1>6. \A q \in Manager : q # n => ~AsideAt(q)' /\ ~SwappedAt(q)'
  <2> SUFFICES ASSUME NEW q \in Manager, q # n PROVE ~AsideAt(q)' /\ ~SwappedAt(q)'
    OBVIOUS
  <2>1. ~Past(q)
    BY <1>2, OnlyOne DEF SInv
  <2> QED BY <2>1, KeptOut DEF AsideAt, SwappedAt, Past
<1>7. files'[op[n].bak] = files[op[n].bak]
  BY <1>4
<1>8. Visible' = Visible
  BY <1>3, <1>5, <1>7, VisibleAsideNext DEF SInv
<1>9. Backups'
  BY <1>3, <1>4, <1>5, <1>6, <1>7 DEF Backups, Size
<1>10. Swapped' /\ Left'
  BY <1>5, <1>6 DEF Swapped, Left, AsideAt, SwappedAt
<1> QED BY <1>8, <1>9, <1>10 DEF Held

\* A scan that is not too late finds what a recovery would have found.
LEMMA PromoteView ==
  ASSUME SInv, SInv', faults <= faults', Held, Promote, ~raced'
  PROVE  Held' /\ Visible' = Visible
<1>1. /\ target = None /\ scan = baks[Len(baks)]
      /\ UNCHANGED <<up, failed, tasks, op>>
  BY DEF Promote
<1>2. /\ target' = scan /\ scan \in Ino /\ ToSet(baks') = ToSet(baks) \ {scan}
      /\ files'[scan] = files[scan]
  BY PromoteIs DEF SInv
<1>3. scan # None /\ target' # None
  BY <1>2, FileAssumption
<1>4. \A n \in Manager : AsideAt(n)' = AsideAt(n)
  BY <1>1 DEF AsideAt
<1>5. Swapped' /\ Left'
  <2>1. \A n \in Manager : ~SwappedAt(n)
    BY <1>1 DEF Held, Swapped
  <2> QED BY <1>1, <1>3, <2>1 DEF Swapped, SwappedAt, Left
<1>6. ASSUME NEW n \in Manager, AsideAt(n)
      PROVE  op[n].bak = scan /\ Visible = files[scan] /\ Size(files[scan]) = op[n].size
  BY <1>1, <1>6, VisibleAside, FileAssumption DEF SInv, Held, Backups
<1>7. Backups'
  BY <1>1, <1>2, <1>4, <1>6 DEF Backups, Size
<1>8. Visible' = Visible
  <2>1. ASSUME NEW n \in Manager, AsideAt(n) PROVE Visible' = Visible
    <3>1. Visible' = files'[op'[n].bak]
      BY <1>4, <2>1, VisibleAsideNext DEF SInv
    <3> QED BY <1>1, <1>2, <1>6, <2>1, <3>1
  <2>2. CASE \A n \in Manager : ~AsideAt(n)
    <3>1. Visible = files[scan]
      BY <1>1, <2>2, VisibleThere DEF Held, Left
    <3>2. Visible' = files'[target']
      BY <1>3, <1>4, <2>2, VisibleThereNext
    <3> QED BY <1>2, <3>1, <3>2
  <2> QED BY <2>1, <2>2
<1> QED BY <1>5, <1>7, <1>8 DEF Held

\* A step of a manager that is outside the region, or stays where it is.
LEMMA OutsideView ==
  ASSUME SInv, SInv', faults <= faults', Held, NEW m \in Manager,
         \A n \in Manager : n # m => Kept(n), ~AsideAt(m), ~AsideAt(m)', ~SwappedAt(m)',
         \/ UNCHANGED <<files, target, baks>>
         \/ \E v \in Ino \cup {None} : Disk(files, target, baks, [writer EXCEPT ![m] = v]),
         Out(m) => Out(m)'
  PROVE  Held' /\ Visible' = Visible
<1>1. CASE UNCHANGED <<files, target, baks>>
  <2>1. SameNames
    BY <1>1 DEF SameNames
  <2> QED BY <2>1, ViewStays DEF SInv, Held, Left
<1>2. ASSUME NEW v \in Ino \cup {None}, Disk(files, target, baks, [writer EXCEPT ![m] = v])
      PROVE  Held' /\ Visible' = Visible
  <2>1. SameNames
    BY <1>2, CloseIs DEF SInv
  <2> QED BY <2>1, ViewStays DEF SInv, Held, Left
<1> QED BY <1>1, <1>2

LEMMA RewriteView ==
  ASSUME SInv, SInv', faults <= faults', Held, NEW m \in Manager,
         \A n \in Manager : n # m => Kept(n), op[m] = None,
         NEW lines, NEW sz, OpBegins(m, "rewrite", None, lines, sz),
         Disk(files, target, baks, Closed(m))
  PROVE  Held' /\ Visible' = Visible
<1>1. ~AsideAt(m) /\ ~AsideAt(m)' /\ ~SwappedAt(m)' /\ Out(m)'
  BY DEF OpBegins, AsideAt, SwappedAt, Out, Is
<1>2. Disk(files, target, baks, [writer EXCEPT ![m] = None])
  BY DEF Closed
<1> QED BY <1>1, <1>2, OutsideView

LEMMA AppendView ==
  ASSUME SInv, SInv', faults <= faults', Held, NEW m \in Manager,
         \A n \in Manager : n # m => Kept(n), AppendEntry(m)
  PROVE  Held' /\ Visible' = Visible
<1>1. up[m] /\ op[m] = None
  BY AppendIs DEF SInv, Directory
<1>2. CASE /\ OpBegins(m, "rewrite", None, mem'[m], size[m])
           /\ Disk(files, target, baks, Closed(m))
  BY <1>1, <1>2, RewriteView
<1>3. CASE /\ ~fenced[m] /\ ~failed[m]
           /\ OpBegins(m, "append", None, <<made + 1>>, size[m])
           /\ AppendsHot(m)
  <2>1. ~AsideAt(m) /\ ~AsideAt(m)' /\ ~SwappedAt(m)'
    BY <1>1, <1>3 DEF OpBegins, AsideAt, SwappedAt
  <2>2. CASE SameNames
    <3>1. target = None /\ (\A n \in Manager : ~AsideAt(n)) => FALSE
      BY <1>1, <1>3, AppendsToFile DEF Is
    <3> QED BY <2>1, <2>2, <3>1, ViewStays DEF SInv
  <2>3. CASE /\ target = None /\ target' \in Ino /\ files'[target'] = <<>> /\ baks' = baks
             /\ \A i \in ToSet(baks) : files'[i] = files[i] /\ i # target'
    BY <1>1, <1>3, <2>1, <2>3, OpenView
  <2> QED BY <1>3, <2>2, <2>3, OpenIs DEF SInv
<1> QED BY <1>2, <1>3, AppendIs DEF SInv, Directory

\* A write that throws without having touched the names.
LEMMA ThrowView ==
  ASSUME SInv, SInv', faults <= faults', Held, NEW m \in Manager,
         \A n \in Manager : n # m => Kept(n), Throws(m), ~AsideAt(m),
         \/ UNCHANGED <<files, target, baks>>
         \/ \E v \in Ino \cup {None} : Disk(files, target, baks, [writer EXCEPT ![m] = v])
  PROVE  Held' /\ Visible' = Visible
<1>1. Structure(m)
  BY DEF SInv
<1> QED BY <1>1, ThrowsOut, OutsideView

\* What a throwing step of the region does to its manager.
LEMMA RegionThrows ==
  ASSUME SInv, NEW m \in Manager,
         LockTimesOut(m) \/ WriteLineFails(m) \/ Conflict(m) \/ RollBack(m) \/ RollBackFails(m)
  PROVE  /\ Throws(m) /\ UNCHANGED <<up, mem, size, fenced>>
         /\ RollBack(m) \/ RollBackFails(m) <=> AsideAt(m)
<1>1. op[m] # None /\ Throw(m) /\ UNCHANGED <<up, mem, size, fenced>>
  BY DEF LockTimesOut, WriteLineFails, Conflict, RollBack, RollBackFails, At
<1>2. WaitsFor(m)
  BY <1>1 DEF SInv, Structure, Publishing, Is, WaitsFor
<1>3. Throws(m)
  BY <1>1, <1>2, ThrowIs DEF SInv
<1>4. RollBack(m) \/ RollBackFails(m) => AsideAt(m)
  BY DEF RollBack, RollBackFails, At, AsideAt
<1>5. LockTimesOut(m) \/ WriteLineFails(m) \/ Conflict(m) => ~AsideAt(m)
  BY DEF LockTimesOut, WriteLineFails, Conflict, At, AsideAt
<1>6. RollBack(m) \/ RollBackFails(m) <=> AsideAt(m)
  BY <1>4, <1>5
<1> QED BY <1>1, <1>3, <1>6

LEMMA RegionView ==
  ASSUME SInv, SInv', faults <= faults', Held, NEW m \in Manager,
         \A n \in Manager : n # m => Kept(n), Region(m), ~raced',
         ~WriteLine(m), ~Rename(m), ~RenameAgain(m)
  PROVE  Held' /\ Visible' = Visible
<1>1. CASE EnterRegion(m)
  <2>1. /\ op[m] # None /\ op[m].step = "lock" /\ OpMoves(m, "in")
        /\ UNCHANGED <<files, target, baks, up, failed, tasks>>
    BY <1>1, EnterIs DEF SInv
  <2>2. ~AsideAt(m) /\ ~AsideAt(m)' /\ ~SwappedAt(m)' /\ (Out(m) => Out(m)')
    BY <2>1 DEF OpMoves, AsideAt, SwappedAt, Out, Is
  <2> QED BY <2>1, <2>2, OutsideView
<1>2. CASE LockTimesOut(m) \/ Conflict(m)
  <2>1. Throws(m) /\ ~AsideAt(m)
    BY <1>2, RegionThrows DEF LockTimesOut, Conflict, At, AsideAt
  <2>2. UNCHANGED <<files, target, baks>>
    BY <1>2 DEF LockTimesOut, Conflict, disk
  <2> QED BY <2>1, <2>2, ThrowView
<1>3. CASE WriteLineFails(m)
  <2> DEFINE v == IF target = None THEN writer[m] ELSE target
  <2>1. Throws(m) /\ ~AsideAt(m)
    BY <1>3, RegionThrows DEF WriteLineFails, At, AsideAt
  <2>2. v \in Ino \cup {None} /\ Disk(files, target, baks, [writer EXCEPT ![m] = v])
    BY <1>3 DEF WriteLineFails, SInv, Directory, DirTyped
  <2> QED BY <2>1, <2>2, ThrowView
<1>4. CASE MoveAside(m)
  BY <1>4, MoveAsideView
<1>5. CASE UnlinkBackup(m)
  BY <1>5, UnlinkView
<1>6. CASE RollBack(m)
  BY <1>6, RollBackView
<1>7. CASE RollBackFails(m)
  <2>1. Throws(m) /\ AsideAt(m)
    BY <1>7, RegionThrows
  <2>2. ~Raced(m) /\ UNCHANGED <<files, target, baks>>
    BY <1>7 DEF RollBackFails, disk
  <2>3. SameNames
    BY <2>2 DEF SameNames
  <2>4. Out(m)' /\ ~AsideAt(m)' /\ ~SwappedAt(m)'
    BY <2>1, ThrowsOut DEF SInv
  <2> QED BY <2>1, <2>2, <2>3, <2>4, LeftView
<1> QED BY <1>1, <1>2, <1>3, <1>4, <1>5, <1>6, <1>7 DEF Region

LEMMA CrashView ==
  ASSUME SInv, SInv', faults <= faults', Held, NEW m \in Manager,
         \A n \in Manager : n # m => Kept(n), Crash(m), ~raced'
  PROVE  Held' /\ Visible' = Visible
<1>1. /\ up'[m] = FALSE /\ op'[m] = None
      /\ Disk(files, target, baks, [writer EXCEPT ![m] = None])
  BY CrashIs DEF SInv, Closed
<1>2. ~Raced(m)
  BY DEF Crash
<1>3. ~AsideAt(m)' /\ ~SwappedAt(m)' /\ Out(m)'
  BY <1>1 DEF AsideAt, SwappedAt, Out
<1>4. CASE AsideAt(m)
  <2>1. SameNames
    BY <1>1, CloseIs DEF SInv
  <2> QED BY <1>2, <1>3, <1>4, <2>1, LeftView
<1>5. CASE ~AsideAt(m)
  BY <1>1, <1>3, <1>5, OutsideView
<1> QED BY <1>4, <1>5

\* The rewrites and the resumption: the writer is closed, if at all.
LEMMA TaskView ==
  ASSUME SInv, SInv', faults <= faults', Held, NEW m \in Manager, NEW t \in Task,
         \A n \in Manager : n # m => Kept(n), Schedule(m, t) \/ Resumed(m, t)
  PROVE  Held' /\ Visible' = Visible
<1>0. ASSUME op[m] = None, op'[m] = None \/ (op'[m].step = "lock"),
             \/ UNCHANGED <<files, target, baks>>
             \/ Disk(files, target, baks, Closed(m)),
             up'[m] = up[m], failed[m] => failed'[m],
             failed'[m] \/ \A u \in Task : tasks[m][u].st \in Thrown => tasks'[m][u] = tasks[m][u]
      PROVE  Held' /\ Visible' = Visible
  <2>1. ~AsideAt(m) /\ ~AsideAt(m)' /\ ~SwappedAt(m)' /\ (Out(m) => Out(m)')
    BY <1>0 DEF AsideAt, SwappedAt, Out, Is
  <2>2. \/ UNCHANGED <<files, target, baks>>
        \/ \E v \in Ino \cup {None} : Disk(files, target, baks, [writer EXCEPT ![m] = v])
    BY <1>0 DEF Closed
  <2> QED BY <2>1, <2>2, OutsideView
<1>7. MgrTyped
  BY DEF SInv
<1>1. CASE Schedule(m, t)
  <2>1. /\ op[m] = None /\ tasks[m][t] = NoTask
        /\ UNCHANGED <<files, target, baks, up, failed, op>>
        /\ \A u \in Task \ {t} : tasks'[m][u] = tasks[m][u]
    <3>1. /\ MgrTyped' /\ up[m] /\ op[m] = None /\ tasks[m][t] = NoTask
          /\ UNCHANGED <<files, target, baks, scan, writer, up, size, failed, fenced, op>>
          /\ \A u \in Task \ {t} : tasks'[m][u] = tasks[m][u]
          /\ tasks'[m][t].st = "queued" /\ tasks'[m][t].live = TRUE
          /\ mem'[m] = mem[m] \/ mem'[m] = [mem[m] EXCEPT ![1] = Edited]
      BY <1>1, <1>7, ScheduleIs
    <3> QED BY <3>1
  <2>2. \A u \in Task : tasks[m][u].st \in Thrown => tasks'[m][u] = tasks[m][u]
    BY <2>1 DEF NoTask, Thrown
  <2> QED BY <1>0, <2>1, <2>2
<1>2. CASE StartTask(m, t)
  <2>1. /\ op[m] = None /\ tasks[m][t].st = "queued"
        /\ UNCHANGED <<up, failed, op>>
        /\ \A u \in Task \ {t} : tasks'[m][u] = tasks[m][u]
        /\ UNCHANGED <<files, target, baks>> \/ Disk(files, target, baks, Closed(m))
    <3>1. TaskMoves(m, t, "closing") \/ TaskEnds(m, t)
            => \A u \in Task \ {t} : tasks'[m][u] = tasks[m][u]
      BY DEF TaskMoves, TaskEnds
    <3> QED BY <1>2, <1>7, <3>1, StartIs
  <2>2. \A u \in Task : tasks[m][u].st \in Thrown => tasks'[m][u] = tasks[m][u]
    BY <2>1 DEF Thrown
  <2>3. up'[m] = up[m] /\ (failed[m] => failed'[m]) /\ op'[m] = None
    BY <2>1
  <2> QED BY <1>0, <2>1, <2>2, <2>3
<1>3. CASE Stage(m, t)
  <2>1. /\ op[m] = None /\ tasks[m][t].st = "closing"
        /\ UNCHANGED <<files, target, baks, up, failed, op>>
        /\ \A u \in Task \ {t} : tasks'[m][u] = tasks[m][u]
    <3>1. TaskEnds(m, t) => \A u \in Task \ {t} : tasks'[m][u] = tasks[m][u]
      BY DEF TaskEnds
    <3> QED BY <1>3, <1>7, <3>1, StageIs DEF Ends, Quiet
  <2> QED BY <1>0, <2>1 DEF Thrown
<1>4. CASE Publish(m, t)
  <2>1. /\ op[m] = None /\ tasks[m][t].st = "staging"
        /\ UNCHANGED <<files, target, baks, up, failed>>
        /\ \A u \in Task \ {t} : tasks'[m][u] = tasks[m][u]
        /\ op'[m] = None \/ op'[m].step = "lock"
    <3>1. TaskEnds(m, t) => \A u \in Task \ {t} : tasks'[m][u] = tasks[m][u]
      BY DEF TaskEnds
    <3> QED BY <1>4, <1>7, <3>1, PublishIs DEF Ends, Quiet, OpBegins
  <2> QED BY <1>0, <2>1 DEF Thrown
<1>5. CASE ReadBack(m, t)
  <2>1. UNCHANGED <<files, target, baks, up, failed, op>>
    BY <1>5, <1>7, ReadBackIs
  <2>2. PICK st \in {"same", "other"} : TaskMoves(m, t, st)
    BY <1>5, <1>7, ReadBackIs
  <2>3. Out(m) => Out(m)'
    <3>1. \A u \in Task : tasks[m][u].live /\ tasks[m][u].st \in Thrown
                           => tasks'[m][u].live /\ tasks'[m][u].st \in Thrown
      BY <2>2 DEF TaskMoves, Thrown
    <3> QED BY <2>1, <3>1 DEF Out, Is
  <2>4. \A n \in Manager : Out(n) => Out(n)'
    BY <2>3, KeptOut
  <2> QED BY <2>1, <2>4, ViewUntouched
<1>6. CASE SettleFailed(m, t)
  <2>1. /\ op[m] = None /\ failed'[m]
        /\ UNCHANGED <<files, target, baks, up, op>>
    BY <1>6, <1>7, SettleFailedIs
  <2> QED BY <1>0, <2>1
<1> QED BY <1>1, <1>2, <1>3, <1>4, <1>5, <1>6 DEF Resumed

\* What a step of a manager does to what a recovery would find.
Wrote(m) == WriteLine(m) /\ Visible' = Visible \o op[m].lines
Replaced(m) ==
    /\ Rename(m) \/ RenameAgain(m)
    /\ Visible' = op[m].lines /\ Size(Visible) = op[m].size

LEMMA ActsView ==
  ASSUME SInv, SInv', faults <= faults', Held, ~raced', NEW m \in Manager, Acts(m),
         \A n \in Manager : n # m => Kept(n)
  PROVE  /\ Held'
         /\ WriteLine(m) => Wrote(m)
         /\ Rename(m) \/ RenameAgain(m) => Replaced(m)
         /\ Wrote(m) \/ Replaced(m) \/ Visible' = Visible
<1>0. /\ WriteLine(m) => Wrote(m) /\ Held'
      /\ Rename(m) \/ RenameAgain(m) => Replaced(m) /\ Held'
  BY WriteLineView, RenameView, RenameAgainView DEF Wrote, Replaced
<1>1. CASE Resume(m)
  <2>1. /\ UNCHANGED <<files, target, baks, failed, tasks, op>> /\ op[m] = None /\ target # None
    BY <1>1 DEF Resume, disk, SInv, Structure, Idle
  <2>2. SameNames /\ ~AsideAt(m) /\ ~AsideAt(m)' /\ ~SwappedAt(m)'
    BY <2>1 DEF SameNames, AsideAt, SwappedAt
  <2>3. Held' /\ Visible' = Visible
    BY <2>1, <2>2, ViewStays DEF SInv
  <2> QED BY <1>0, <2>3
<1>2. CASE AppendEntry(m)
  BY <1>0, <1>2, AppendView
<1>3. CASE FlushSync(m)
  <2>1. /\ op[m] = None /\ OpBegins(m, "rewrite", None, mem[m], size[m])
        /\ Disk(files, target, baks, Closed(m))
    BY <1>3, FlushIs DEF SInv, Directory
  <2> QED BY <1>0, <2>1, RewriteView
<1>4. CASE Region(m)
  BY <1>0, <1>4, RegionView
<1>5. CASE Crash(m)
  BY <1>0, <1>5, CrashView
<1>6. ASSUME NEW t \in Task, Schedule(m, t) \/ Resumed(m, t)
      PROVE  Held' /\ Visible' = Visible
  BY <1>6, TaskView
<1> QED BY <1>0, <1>1, <1>2, <1>3, <1>4, <1>5, <1>6 DEF Acts

(***************************************************************************)
(* Transcripts that grow.                                                  *)
(***************************************************************************)
LEMMA TranscriptGrows ==
  ASSUME NEW k \in Nat, NEW l \in Nat, k <= l, NEW s, Transcript(s, k)
  PROVE  Transcript(s, l)
BY DEF Transcript

LEMMA TranscriptAppend ==
  ASSUME NEW k \in Nat, NEW s, Transcript(s, k), NEW e \in 1..k, e \in Line, e \notin ToSet(s)
  PROVE  /\ Transcript(Append(s, e), k) /\ Continues(s, Append(s, e))
         /\ Len(Append(s, e)) = Len(s) + 1 /\ Append(s, e)[Len(s) + 1] = e
         /\ Append(s, e)[1] = s[1]
         /\ \A x \in ToSet(Append(s, e)) : x \in ToSet(s) \/ x = e
<1>1. Len(s) \in Nat /\ 1 <= Len(s) /\ DOMAIN s = 1..Len(s) /\ s \in Seq(Line)
  BY TranscriptLen DEF Transcript
<1> DEFINE r == Append(s, e)
<1>2. /\ r \in Seq(Line) /\ Len(r) = Len(s) + 1 /\ DOMAIN r = 1..(Len(s) + 1)
      /\ \A i \in 1..Len(s) : r[i] = s[i]
      /\ r[Len(s) + 1] = e
  BY <1>1
<1> HIDE DEF r
<1>3. \A i \in 1..(Len(s) + 1) : i = Len(s) + 1 \/ i \in 1..Len(s)
  BY <1>1
<1>4. \A i \in 1..Len(s) : s[i] # e
  BY <1>1 DEF ToSet
<1>5. IsInjective(r)
  <2> SUFFICES ASSUME NEW i \in 1..(Len(s) + 1), NEW j \in 1..(Len(s) + 1), r[i] = r[j]
               PROVE  i = j
    BY <1>2 DEF IsInjective
  <2>1. CASE i \in 1..Len(s) /\ j \in 1..Len(s)
    BY <1>1, <1>2, <2>1 DEF Transcript, IsInjective
  <2> QED BY <1>2, <1>3, <1>4, <2>1
<1>6. \A i \in 2..Len(r) : r[i] \in 1..k
  <2> TAKE i \in 2..Len(r)
  <2>1. i = Len(s) + 1 \/ i \in 2..Len(s)
    BY <1>1, <1>2
  <2> QED BY <1>1, <1>2, <2>1 DEF Transcript
<1>7. r # <<>> /\ r[1] = s[1]
  BY <1>1, <1>2
<1>8. Transcript(r, k)
  BY <1>2, <1>5, <1>6, <1>7 DEF Transcript
<1>9. Continues(s, r)
  BY <1>1, <1>2 DEF Continues
<1>10. \A x \in ToSet(r) : x \in ToSet(s) \/ x = e
  BY <1>1, <1>2, <1>3 DEF ToSet
<1> QED BY <1>2, <1>7, <1>8, <1>9, <1>10 DEF r

LEMMA TranscriptEdit ==
  ASSUME NEW k \in 0..MaxLines, NEW s, Transcript(s, k)
  PROVE  LET r == [s EXCEPT ![1] = Edited]
         IN  /\ Transcript(r, k) /\ Len(r) = Len(s) /\ Continues(s, r) /\ r[1] = Edited
             /\ \A x \in ToSet(r) : x \in ToSet(s) \/ x = Edited
<1>0. k \in Nat /\ MaxLines \in Nat
  BY FileAssumption
<1>1. Len(s) \in Nat /\ 1 <= Len(s) /\ DOMAIN s = 1..Len(s) /\ s \in Seq(Line)
  BY <1>0, TranscriptLen DEF Transcript
<1> DEFINE r == [s EXCEPT ![1] = Edited]
<1>2. /\ r \in Seq(Line) /\ Len(r) = Len(s) /\ r[1] = Edited
      /\ \A i \in 2..Len(s) : r[i] = s[i]
  BY <1>1, EditIs
<1> HIDE DEF r
<1>3. DOMAIN r = 1..Len(s) /\ \A i \in 1..Len(s) : i = 1 \/ i \in 2..Len(s)
  BY <1>1, <1>2
<1>4. \A i \in 2..Len(s) : s[i] # Edited /\ s[i] \in 1..k
  BY <1>0 DEF Transcript, Edited
<1>5. \A i, j \in 1..Len(s) : s[i] = s[j] => i = j
  BY <1>1 DEF Transcript, IsInjective
<1>6. IsInjective(r)
  <2> SUFFICES ASSUME NEW i \in 1..Len(s), NEW j \in 1..Len(s), r[i] = r[j]
               PROVE  i = j
    BY <1>3 DEF IsInjective
  <2>1. CASE i = 1 \/ j = 1
    BY <1>2, <1>3, <1>4, <2>1
  <2>2. CASE i \in 2..Len(s) /\ j \in 2..Len(s)
    BY <1>2, <1>5, <2>2
  <2> QED BY <1>3, <2>1, <2>2
<1>7. Transcript(r, k)
  BY <1>1, <1>2, <1>4, <1>6 DEF Transcript
<1>8. Continues(s, r)
  BY <1>1, <1>2 DEF Continues
<1>9. \A x \in ToSet(r) : x \in ToSet(s) \/ x = Edited
  BY <1>1, <1>2, <1>3 DEF ToSet
<1> QED BY <1>2, <1>7, <1>8, <1>9 DEF r

\* What continues a file has all that it embeds.
LEMMA EmbedsGrows ==
  ASSUME NEW k \in Nat, NEW s, NEW r, Transcript(s, k), Transcript(r, k), Continues(s, r),
         NEW t, NEW u, Continues(t, u), NEW n \in Nat, n <= Len(t), Len(t) \in Nat,
         Embeds(s, t, n)
  PROVE  Embeds(r, u, n)
<1>1. Len(s) \in Nat /\ Len(r) \in Nat
  BY TranscriptLen
<1>2. Len(s) <= Len(r) /\ \A i \in 2..Len(s) : r[i] = s[i]
  BY DEF Continues
<1>3. Embeds(r, t, n)
  BY <1>1, <1>2, EmbedsKept
<1>4. \A i \in 2..n : u[i] = t[i]
  BY DEF Continues
<1> QED BY <1>3, <1>4, EmbedsSame

(***************************************************************************)
(* What a manager knows of the file.                                       *)
(***************************************************************************)
\* The size it expects counts the lines of the transcript that the file has, in
\* their order, and tells an edit only when there was one.
Knows(m) ==
    up[m] => /\ Transcript(mem[m], made)
             /\ Count(size[m]) \in 1..Len(mem[m])
             /\ Embeds(Visible, mem[m], Count(size[m]))
             /\ Heavy(size[m]) => mem[m][1] = Edited

\* Outside a write that may change it, the file has all of the transcript.
Calm(m) ==
    up[m] /\ ~failed[m] /\ (op[m] = None \/ Is(m, "publish"))
      => Count(size[m]) = Len(mem[m])

\* The entry that is being appended is not in the file and in no other transcript.
Writing(m) ==
    Is(m, "append") =>
        /\ Count(size[m]) = Len(mem[m]) - 1 /\ Newest(m) \notin ToSet(Visible)
        /\ \A n \in Manager \ {m} : Newest(m) \notin ToSet(mem[n])

\* An edit that the expected size does not tell is the business of a rewrite.
WillEdit(m, t) ==
    /\ tasks[m][t].live
    /\ \/ tasks[m][t].st \in {"queued", "closing"}
       \/ tasks[m][t].st \in Staged /\ tasks[m][t].lines[1] = Edited
EditOwed(m) ==
    up[m] /\ ~failed[m] /\ ~Is(m, "rewrite") /\ mem[m][1] = Edited /\ ~Heavy(size[m])
      => \E t \in Task : WillEdit(m, t)

\* A body that was staged without an edit is of a transcript that had none.
Unedited(m) ==
    \A t \in Task :
        ~failed[m] /\ tasks[m][t].live /\ tasks[m][t].st \in Staged
                   /\ tasks[m][t].lines[1] # Edited
          => ~Heavy(size[m])

\* The same for the body and the size that a task has taken, and for the body when
\* the task found it at the path.
TaskKnows(m, t) ==
    /\ tasks[m][t].st \in Staged =>
         /\ Transcript(tasks[m][t].lines, made)
         /\ tasks[m][t].lines[1] = Edited => mem[m][1] = Edited
    /\ tasks[m][t].st = "staging" =>
         /\ Count(tasks[m][t].size) \in 1..Len(tasks[m][t].lines)
         /\ Embeds(Visible, mem[m], Count(tasks[m][t].size))
    /\ tasks[m][t].st = "same" => Embeds(Visible, mem[m], Len(tasks[m][t].lines))

Knowledge(m) ==
    /\ Knows(m) /\ Calm(m) /\ Writing(m) /\ EditOwed(m) /\ Unedited(m)
    /\ \A t \in Task : TaskKnows(m, t)

\* From step to step the file and the transcript of m only grow.
Onward(m) ==
    /\ Transcript(Visible, made) /\ Transcript(Visible', made') /\ Continues(Visible, Visible')
    /\ made \in 0..MaxLines /\ made' \in 0..MaxLines /\ made <= made'
    /\ Continues(mem[m], mem'[m]) /\ (mem[m][1] = Edited => mem'[m][1] = Edited)

LEMMA EmbedsOnward ==
  ASSUME NEW m \in Manager, Onward(m), NEW n \in Nat, n <= Len(mem[m]), Len(mem[m]) \in Nat,
         Embeds(Visible, mem[m], n)
  PROVE  Embeds(Visible, mem[m], n)'
<1> DEFINE s == Visible
           r == Visible'
           t == mem[m]
           u == mem'[m]
           l == made'
<1>1. made \in Nat /\ l \in Nat /\ made <= l
  BY FileAssumption DEF Onward
<1>2. Transcript(s, made) /\ Transcript(r, l) /\ Continues(s, r) /\ Continues(t, u)
  BY DEF Onward
<1>3. Transcript(s, l)
  BY <1>1, <1>2, TranscriptGrows
<1>4. Embeds(s, t, n) /\ n <= Len(t) /\ Len(t) \in Nat
  OBVIOUS
<1> HIDE DEF s, r, t, u, l
<1>5. Embeds(r, u, n)
  BY <1>1, <1>2, <1>3, <1>4, EmbedsGrows
<1> QED BY <1>5 DEF r, u, Embeds

LEMMA KnowsOnward ==
  ASSUME MgrTyped, NEW m \in Manager, Onward(m), Knows(m), up[m],
         size'[m] = size[m], Transcript(mem'[m], made')
  PROVE  Knows(m)'
<1>1. /\ Count(size[m]) \in 1..Len(mem[m]) /\ Embeds(Visible, mem[m], Count(size[m]))
      /\ Len(mem[m]) \in Nat /\ Len(mem'[m]) \in Nat /\ Len(mem[m]) <= Len(mem'[m])
  BY DEF Knows, MgrTyped, Onward, Continues, Transcript
<1>2. Count(size[m]) \in Nat /\ Count(size[m]) <= Len(mem[m])
  BY <1>1
<1>3. Embeds(Visible', mem'[m], Count(size[m]))
  BY <1>1, <1>2, EmbedsOnward DEF Embeds
<1>4. Count(size'[m]) \in 1..Len(mem'[m])
  BY <1>1
<1> QED BY <1>3, <1>4 DEF Knows, Onward

LEMMA TaskOnward ==
  ASSUME MgrTyped, NEW m \in Manager, NEW t \in Task, Onward(m), StagedBodies(m), TaskKnows(m, t),
         tasks'[m][t].lines = tasks[m][t].lines, tasks'[m][t].size = tasks[m][t].size,
         tasks'[m][t].st \in {tasks[m][t].st, "reading", "other"},
         tasks'[m][t].st \in Staged => tasks[m][t].st \in Staged
  PROVE  TaskKnows(m, t)'
<1> DEFINE k == tasks[m][t]
<1>0. k.lines \in Seq(Line) /\ k.size \in Nat /\ Len(k.lines) \in Nat /\ Len(mem[m]) \in Nat
  BY TaskTyped
<1>1. made \in Nat /\ made' \in Nat /\ made <= made'
  BY FileAssumption DEF Onward
<1>2. k.st \in Staged => /\ Transcript(k.lines, made') /\ Len(k.lines) <= Len(mem[m])
                         /\ k.lines[1] = Edited => mem'[m][1] = Edited
  BY <1>1, TranscriptGrows DEF TaskKnows, StagedBodies, Continues, Onward
<1>3. k.st = "staging" => /\ Count(k.size) \in 1..Len(k.lines)
                          /\ Embeds(Visible', mem'[m], Count(k.size))
  <2> SUFFICES ASSUME k.st = "staging"
               PROVE  /\ Count(k.size) \in 1..Len(k.lines)
                      /\ Embeds(Visible', mem'[m], Count(k.size))
    OBVIOUS
  <2>1. Count(k.size) \in 1..Len(k.lines) /\ Embeds(Visible, mem[m], Count(k.size))
    BY DEF TaskKnows
  <2>2. Count(k.size) \in Nat /\ Count(k.size) <= Len(mem[m])
    BY <1>0, <1>2, <2>1 DEF Staged, Thrown
  <2> QED BY <1>0, <2>1, <2>2, EmbedsOnward DEF Embeds
<1>4. k.st = "same" => Embeds(Visible', mem'[m], Len(k.lines))
  <2> SUFFICES ASSUME k.st = "same" PROVE Embeds(Visible', mem'[m], Len(k.lines))
    OBVIOUS
  <2>1. Embeds(Visible, mem[m], Len(k.lines)) /\ Len(k.lines) <= Len(mem[m])
    BY <1>2 DEF TaskKnows, Staged, Thrown
  <2> QED BY <1>0, <2>1, EmbedsOnward DEF Embeds
<1> QED BY <1>2, <1>3, <1>4 DEF TaskKnows, Staged, Thrown

\* The file, and what every terminal knows of it.
Seen ==
    /\ Held /\ Transcript(Visible, made)
    /\ \A m \in Manager : Knowledge(m)

\* The file goes on: it keeps its lines, and gets none but those of m.
Grown(m) ==
    /\ Transcript(Visible', made') /\ Continues(Visible, Visible')
    /\ \A x \in 1..made : x \in ToSet(Visible') => x \in ToSet(Visible) \/ x \in ToSet(mem[m])

LEMMA MadeIs ==
  ASSUME SInv
  PROVE  made \in 0..MaxLines /\ made \in Nat /\ MaxLines \in Nat
BY FileAssumption DEF SInv, EnvTyped

\* The newest entry of a transcript with entries.
LEMMA NewestIs ==
  ASSUME SInv, NEW m \in Manager, up[m], Transcript(mem[m], made), Len(mem[m]) >= 2
  PROVE  /\ Newest(m) \in 1..made /\ Newest(m) \in ToSet(mem[m]) /\ Newest(m) \in Line
         /\ Newest(m) = mem[m][Len(mem[m])]
<1>1. Len(mem[m]) \in 2..Len(mem[m]) /\ DOMAIN mem[m] = 1..Len(mem[m])
  BY MadeIs, TranscriptLen
<1>2. Newest(m) \in 1..made /\ Newest(m) \in ToSet(mem[m])
  BY <1>1 DEF Newest, Transcript, ToSet
<1> QED BY <1>2, MadeIs DEF Line, Edited, Newest

LEMMA UpWhileWriting ==
  ASSUME SInv, NEW m \in Manager, op[m] # None
  PROVE  up[m]
BY DEF SInv, Structure, Idle

\* What an append is about to write.
LEMMA WritingIs ==
  ASSUME SInv, NEW m \in Manager, Knowledge(m), Is(m, "append")
  PROVE  /\ up[m] /\ Transcript(mem[m], made) /\ Len(mem[m]) \in Nat /\ Len(mem[m]) >= 2
         /\ Count(size[m]) = Len(mem[m]) - 1 /\ op[m].lines = <<Newest(m)>>
         /\ Newest(m) \in 1..made /\ Newest(m) \in ToSet(mem[m]) /\ Newest(m) \in Line
         /\ Newest(m) = mem[m][Len(mem[m])]
<1>1. up[m]
  BY UpWhileWriting DEF Is
<1>2. Transcript(mem[m], made) /\ Count(size[m]) \in 1..Len(mem[m])
  BY <1>1 DEF Knowledge, Knows
<1>3. Count(size[m]) = Len(mem[m]) - 1 /\ op[m].lines = <<Newest(m)>>
  BY DEF Knowledge, Writing, SInv, Structure, Appending
<1>4. Len(mem[m]) \in Nat
  BY <1>2, MadeIs, TranscriptLen
<1>5. Len(mem[m]) >= 2
  BY <1>2, <1>3, <1>4
<1> QED BY <1>1, <1>2, <1>3, <1>4, <1>5, NewestIs

\* An append goes to the end of the file.
LEMMA WroteGrows ==
  ASSUME SInv, Seen, NEW m \in Manager, Wrote(m), made' = made
  PROVE  /\ Grown(m) /\ Visible' = Append(Visible, Newest(m))
         /\ Newest(m) \notin ToSet(Visible) /\ Len(Visible) \in Nat
<1>1. Is(m, "append")
  BY WriteLineIs DEF Wrote, SInv, Is
<1>2. /\ op[m].lines = <<Newest(m)>> /\ Newest(m) \in 1..made /\ Newest(m) \in ToSet(mem[m])
      /\ Newest(m) \in Line
  BY <1>1, WritingIs DEF Seen
<1>3. Newest(m) \notin ToSet(Visible)
  BY <1>1 DEF Seen, Knowledge, Writing
<1>4. Transcript(Visible, made) /\ Visible \in Seq(Line)
  BY DEF Seen, Transcript
<1> DEFINE s == Visible
           r == Visible'
           e == Newest(m)
<1>5. r = s \o <<e>>
  BY <1>2 DEF Wrote
<1>6. e \in Line /\ s \in Seq(Line) /\ e \in 1..made /\ e \notin ToSet(s) /\ Transcript(s, made)
  BY <1>2, <1>3, <1>4
<1> HIDE DEF s, r, e
<1>7. r = Append(s, e)
  BY <1>5, <1>6
<1>8. /\ Transcript(Append(s, e), made) /\ Continues(s, Append(s, e))
      /\ \A x \in ToSet(Append(s, e)) : x \in ToSet(s) \/ x = e
  BY <1>6, MadeIs, TranscriptAppend
<1>9. Grown(m)
  BY <1>2, <1>7, <1>8 DEF Grown, s, r, e
<1>10. Len(s) \in Nat
  BY <1>6
<1> QED BY <1>3, <1>7, <1>9, <1>10 DEF s, r, e

\* What a replacing write carries.
LEMMA CarriedIs ==
  ASSUME SInv, NEW m \in Manager, Knowledge(m), op[m] # None, op[m].kind # "append"
  PROVE  /\ Transcript(op[m].lines, made) /\ Continues(op[m].lines, mem[m])
         /\ Len(op[m].lines) \in Nat /\ Transcript(mem[m], made)
         /\ Count(op[m].size) \in 1..Len(op[m].lines)
         /\ Embeds(Visible, mem[m], Count(op[m].size))
<1>1. Transcript(mem[m], made)
  BY UpWhileWriting DEF Knowledge, Knows
<1>2. CASE op[m].kind = "rewrite"
  <2>1. op[m].lines = mem[m] /\ op[m].size = size[m]
    BY <1>2 DEF SInv, Structure, Rewriting, Is
  <2>2. Count(size[m]) \in 1..Len(mem[m]) /\ Embeds(Visible, mem[m], Count(size[m]))
    BY UpWhileWriting DEF Knowledge, Knows
  <2>3. mem[m] \in Seq(Line)
    BY <1>1 DEF Transcript
  <2>4. Continues(mem[m], mem[m]) /\ Len(mem[m]) \in Nat
    BY <2>3, ContinuesItself
  <2> QED BY <1>1, <2>1, <2>2, <2>4
<1>3. CASE op[m].kind = "publish"
  <2> DEFINE k == tasks[m][op[m].task]
  <2>1. op[m].task \in Task /\ k.st = "staging" /\ k.lines = op[m].lines /\ k.size = op[m].size
    BY <1>3 DEF SInv, Structure, Publishing, Is
  <2>2. /\ Transcript(k.lines, made) /\ Count(k.size) \in 1..Len(k.lines)
        /\ Embeds(Visible, mem[m], Count(k.size))
    BY <2>1 DEF Knowledge, TaskKnows, Staged, Thrown
  <2>3. Continues(k.lines, mem[m])
    BY <2>1 DEF SInv, Structure, StagedBodies, Staged, Thrown
  <2>4. Len(k.lines) \in Nat
    BY <2>2, MadeIs, TranscriptLen
  <2> QED BY <1>1, <2>1, <2>2, <2>3, <2>4
<1> QED BY <1>2, <1>3, OpCarries DEF SInv

\* A file of the expected size has nothing that the transcript does not have.
LEMMA ReplacedGrows ==
  ASSUME SInv, Seen, NEW m \in Manager, Replaced(m), made' = made
  PROVE  Grown(m)
<1>1. op[m] # None /\ op[m].kind # "append"
  BY DEF Replaced, Rename, RenameAgain, At
<1> DEFINE s == Visible
           l == op[m].lines
           t == mem[m]
<1>2. /\ Transcript(l, made) /\ Continues(l, t) /\ Len(l) \in Nat /\ Transcript(t, made)
      /\ Count(op[m].size) \in 1..Len(l) /\ Embeds(s, t, Count(op[m].size))
  BY <1>1, CarriedIs DEF Seen
<1>3. Transcript(s, made)
  BY DEF Seen
<1>4. Count(op[m].size) = Len(s)
  BY <1>3, MadeIs, SizeTells DEF Replaced
<1>5. Visible' = l
  BY DEF Replaced
<1> HIDE DEF s, l, t
<1>6. Len(s) \in Nat /\ Len(s) <= Len(l) /\ Len(l) <= Len(t)
  BY <1>2, <1>3, <1>4, MadeIs, TranscriptLen DEF Continues
<1>7. \A i \in 2..Len(s) : s[i] = t[i]
  BY <1>2, <1>4, <1>6, EmbedsAll
<1>8. Continues(s, l)
  BY <1>2, <1>6, <1>7 DEF Continues
<1>9. \A x \in 1..made : x \in ToSet(l) => x \in ToSet(t)
  <2> SUFFICES ASSUME NEW x \in 1..made, x \in ToSet(l) PROVE x \in ToSet(t)
    OBVIOUS
  <2>1. DOMAIN l = 1..Len(l) /\ DOMAIN t = 1..Len(t) /\ Len(t) \in Nat
    BY <1>2, MadeIs, TranscriptLen
  <2>2. PICK i \in 1..Len(l) : l[i] = x
    BY <2>1 DEF ToSet
  <2>3. i # 1
    BY <1>2, <2>2, MadeIs DEF Transcript, Header, Edited
  <2>4. t[i] = x /\ i \in 1..Len(t)
    BY <1>2, <1>6, <2>1, <2>2, <2>3 DEF Continues
  <2> QED BY <2>1, <2>4 DEF ToSet
<1> QED BY <1>2, <1>5, <1>8, <1>9 DEF Grown, s, l, t

\* A step in which m and the file go on.
Goes(m) ==
    /\ SInv /\ SInv' /\ Seen /\ Grown(m) /\ made <= made'
    /\ \A n \in Manager : n # m => Kept(n)

LEMMA GoesMade ==
  ASSUME NEW m \in Manager, Goes(m)
  PROVE  /\ made \in 0..MaxLines /\ made' \in 0..MaxLines /\ made <= made'
         /\ made \in Nat /\ made' \in Nat /\ MaxLines \in Nat
         /\ Transcript(Visible, made) /\ Transcript(Visible', made')
         /\ Continues(Visible, Visible')
         /\ MgrTyped /\ MgrTyped' /\ \A n \in Manager : Knowledge(n) /\ Structure(n)
BY FileAssumption DEF Goes, SInv, EnvTyped, Seen, Grown

LEMMA OthersOnward ==
  ASSUME NEW m \in Manager, Goes(m), NEW n \in Manager, mem'[n] = mem[n]
  PROVE  Onward(n)
<1>1. mem[n] \in Seq(Line)
  BY GoesMade, TaskTyped
<1>2. Continues(mem[n], mem'[n])
  BY <1>1, ContinuesItself
<1> QED BY <1>2, GoesMade DEF Onward

\* Who neither reads nor writes still knows what it knew.
LEMMA SteadyKnows ==
  ASSUME NEW m \in Manager, Goes(m), NEW n \in Manager,
         mem'[n] = mem[n], size'[n] = size[n], up'[n] = up[n]
  PROVE  Onward(n) /\ Knows(n)' /\ (up[n] => Transcript(mem'[n], made'))
<1>1. Onward(n) /\ Knows(n) /\ MgrTyped
  BY OthersOnward, GoesMade DEF Knowledge
<1>2. CASE ~up[n]
  BY <1>1, <1>2 DEF Knows
<1>3. CASE up[n]
  <2>1. Transcript(mem[n], made)
    BY <1>1, <1>3 DEF Knows
  <2>2. Transcript(mem'[n], made')
    BY <2>1, GoesMade, TranscriptGrows
  <2> QED BY <1>1, <1>3, <2>2, KnowsOnward
<1> QED BY <1>1, <1>2, <1>3

\* What the others know stays true.
LEMMA OthersKnow ==
  ASSUME NEW m \in Manager, Goes(m),
         \A x \in 1..made : x \in ToSet(mem'[m]) => x \in ToSet(mem[m]) \/ x \in ToSet(Visible),
         NEW n \in Manager, n # m
  PROVE  Knowledge(n)'
<1>1. Kept(n) /\ Knowledge(n) /\ Structure(n) /\ MgrTyped
  BY GoesMade DEF Goes
<1>2. /\ up'[n] = up[n] /\ mem'[n] = mem[n] /\ size'[n] = size[n] /\ failed'[n] = failed[n]
      /\ tasks'[n] = tasks[n] /\ op'[n] = op[n]
  BY <1>1 DEF Kept
<1>3. Onward(n) /\ Knows(n)'
  BY <1>2, SteadyKnows
<1>4. Calm(n)' /\ EditOwed(n)' /\ Unedited(n)'
  BY <1>1, <1>2 DEF Knowledge, Calm, EditOwed, Unedited, WillEdit, Is
<1>5. ASSUME NEW t \in Task PROVE TaskKnows(n, t)'
  <2>1. StagedBodies(n) /\ TaskKnows(n, t)
    BY <1>1 DEF Structure, Knowledge
  <2> QED BY <1>1, <1>2, <1>3, <2>1, TaskOnward
<1>6. Writing(n)'
  <2> SUFFICES ASSUME Is(n, "append")
               PROVE  /\ Count(size[n]) = Len(mem[n]) - 1 /\ Newest(n) \notin ToSet(Visible')
                      /\ \A q \in Manager \ {n} : Newest(n) \notin ToSet(mem'[q])
    BY <1>2 DEF Writing, Is, Newest
  <2>1. Count(size[n]) = Len(mem[n]) - 1 /\ Newest(n) \in 1..made
    BY <1>1, WritingIs DEF Goes
  <2>2. /\ Newest(n) \notin ToSet(Visible)
        /\ \A q \in Manager \ {n} : Newest(n) \notin ToSet(mem[q])
    BY <1>1 DEF Knowledge, Writing
  <2>3. Newest(n) \notin ToSet(Visible') /\ Newest(n) \notin ToSet(mem'[m])
    BY <2>1, <2>2 DEF Goes, Grown
  <2>4. \A q \in Manager : q # m => mem'[q] = mem[q]
    BY DEF Goes, Kept
  <2> QED BY <2>1, <2>2, <2>3, <2>4
<1> QED BY <1>3, <1>4, <1>5, <1>6 DEF Knowledge

\* A step of nobody.
LEMMA StillKnow ==
  ASSUME NEW m \in Manager, Knowledge(m),
         UNCHANGED <<up, mem, size, failed, tasks, op, made>>, Visible' = Visible
  PROVE  Knowledge(m)'
<1>1. Knows(m)' /\ Calm(m)' /\ Unedited(m)'
  BY DEF Knowledge, Knows, Calm, Unedited, Is, Embeds, Transcript
<1>2. Writing(m)' /\ EditOwed(m)'
  BY DEF Knowledge, Writing, EditOwed, WillEdit, Is, Newest
<1>3. \A t \in Task : TaskKnows(m, t)'
  BY DEF Knowledge, TaskKnows, Embeds, Transcript
<1> QED BY <1>1, <1>2, <1>3 DEF Knowledge

\* Staged bodies keep what they know when the transcript stays or grows.
LEMMA TasksKnow ==
  ASSUME NEW m \in Manager, MgrTyped, Onward(m), StagedBodies(m), \A t \in Task : TaskKnows(m, t),
         NEW t \in Task,
         \/ /\ tasks'[m][t].st = tasks[m][t].st \/ tasks'[m][t].st \notin Staged
            /\ tasks'[m][t].lines = tasks[m][t].lines /\ tasks'[m][t].size = tasks[m][t].size
         \/ tasks'[m][t] = tasks[m][t]
         \/ tasks'[m][t] = NoTask
  PROVE  TaskKnows(m, t)'
<1>1. CASE tasks'[m][t].st \in Staged
  <2>1. /\ tasks'[m][t].st = tasks[m][t].st
        /\ tasks'[m][t].lines = tasks[m][t].lines /\ tasks'[m][t].size = tasks[m][t].size
    BY <1>1 DEF NoTask, Staged, Thrown
  <2> QED BY <1>1, <2>1, TaskOnward
<1>2. CASE tasks'[m][t].st \notin Staged
  BY <1>2 DEF TaskKnows, Staged, Thrown
<1> QED BY <1>1, <1>2

\* A write that is not an append is not writing an entry.
LEMMA NotWriting ==
  ASSUME NEW m \in Manager, op'[m] = None \/ op'[m].kind # "append"
  PROVE  Writing(m)'
BY DEF Writing, Is

\* What m has heard of: its own entries, those in the file, and new ones.
Heard(m) ==
    \A x \in 1..made : x \in ToSet(mem'[m]) => x \in ToSet(mem[m]) \/ x \in ToSet(Visible)

LEMMA ThrowKnows ==
  ASSUME NEW m \in Manager, Goes(m), Throws(m), UNCHANGED <<up, mem, size, fenced>>
  PROVE  Knowledge(m)'
<1>1. MgrTyped /\ Knowledge(m) /\ Structure(m)
  BY GoesMade
<1>2. Onward(m) /\ Knows(m)'
  BY SteadyKnows
<1>3. Writing(m)'
  BY NotWriting DEF Throws
<1>4. CASE op[m].kind = "publish"
  <2> DEFINE k == op[m].task
  <2>1. /\ k \in Task /\ tasks[m][k].st = "staging"
        /\ op[m] # None /\ op'[m] = None /\ failed' = failed /\ TaskMoves(m, k, "reading")
    BY <1>1, <1>4 DEF Structure, Publishing, Is, Throws
  <2>2. \A t \in Task : /\ tasks'[m][t].live = tasks[m][t].live
                        /\ tasks'[m][t].lines = tasks[m][t].lines
                        /\ tasks'[m][t].size = tasks[m][t].size
                        /\ t # k => tasks'[m][t] = tasks[m][t]
                        /\ tasks'[m][t].st \in {tasks[m][t].st, "reading"}
                        /\ tasks'[m][t].st \in Staged <=> tasks[m][t].st \in Staged
                        /\ tasks'[m][t].st \in {"queued", "closing"}
                             <=> tasks[m][t].st \in {"queued", "closing"}
    BY <2>1 DEF TaskMoves, Staged, Thrown
  <2> HIDE DEF k
  <2>3. Calm(m)'
    BY <1>1, <1>4, <2>1 DEF Knowledge, Calm, Is
  <2>4. \A t \in Task : WillEdit(m, t) => WillEdit(m, t)'
    BY <2>2 DEF WillEdit
  <2>5. EditOwed(m)'
    BY <1>1, <1>4, <2>1, <2>4 DEF Knowledge, EditOwed, Is
  <2>6. Unedited(m)'
    BY <1>1, <2>1, <2>2 DEF Knowledge, Unedited
  <2>7. ASSUME NEW t \in Task PROVE TaskKnows(m, t)'
    <3>1. StagedBodies(m) /\ TaskKnows(m, t)
      BY <1>1 DEF Structure, Knowledge
    <3> QED BY <1>1, <1>2, <2>2, <3>1, TaskOnward
  <2> QED BY <1>2, <1>3, <2>3, <2>5, <2>6, <2>7 DEF Knowledge
<1>5. CASE op[m].kind # "publish"
  <2>1. failed'[m] = TRUE /\ tasks' = tasks
    BY <1>5 DEF Throws
  <2>2. Calm(m)' /\ EditOwed(m)' /\ Unedited(m)'
    BY <2>1 DEF Calm, EditOwed, Unedited
  <2>3. \A t \in Task : TaskKnows(m, t)'
    BY <1>1, <1>2, <2>1, TasksKnow DEF Structure, Knowledge
  <2> QED BY <1>2, <1>3, <2>2, <2>3 DEF Knowledge
<1> QED BY <1>4, <1>5

\* A write takes a step inside the region.
LEMMA MovesKnow ==
  ASSUME NEW m \in Manager, Goes(m), op[m] # None, NEW step, OpMoves(m, step),
         UNCHANGED <<up, mem, size, failed, fenced, tasks>>,
         op[m].kind = "append" => Visible' = Visible
  PROVE  Knowledge(m)'
<1>1. MgrTyped /\ Knowledge(m) /\ Structure(m)
  BY GoesMade
<1>2. Onward(m) /\ Knows(m)'
  BY SteadyKnows
<1>3. op'[m] # None /\ op'[m].kind = op[m].kind
  BY DEF OpMoves
<1>4. Writing(m)'
  BY <1>1, <1>3 DEF Knowledge, Writing, Is, Newest
<1>5. Calm(m)' /\ EditOwed(m)' /\ Unedited(m)'
  BY <1>1, <1>3 DEF Knowledge, Calm, EditOwed, Unedited, WillEdit, Is
<1>6. \A t \in Task : TaskKnows(m, t)'
  BY <1>1, <1>2, TasksKnow DEF Structure, Knowledge
<1> QED BY <1>2, <1>4, <1>5, <1>6 DEF Knowledge

\* A write that replaced the file is done.
LEMMA DoneKnows ==
  ASSUME NEW m \in Manager, Goes(m), Completes(m), UNCHANGED <<up, mem>>,
         op[m].kind # "append", Visible' = op[m].lines
  PROVE  Knowledge(m)'
<1>1. MgrTyped /\ Knowledge(m) /\ Structure(m) /\ op[m] # None
  BY GoesMade DEF Completes
<1>2. Onward(m)
  BY OthersOnward
<1>3. Writing(m)'
  BY NotWriting DEF Completes
<1>4. CASE op[m].kind = "publish"
  <2>0. PICK k \in Task : op[m].task = k
    BY <1>1, <1>4 DEF Structure, Publishing, Is
  <2> DEFINE l == tasks[m][k].lines
             u == mem[m]
  <2>1. /\ tasks[m][k].st = "staging" /\ tasks[m][k].live /\ op[m].lines = l
        /\ op'[m] = None /\ failed' = failed /\ size'[m] = Size(l) /\ TaskEnds(m, k)
        /\ Visible' = l
    BY <1>1, <1>4, <2>0 DEF Structure, Publishing, Is, Completes, Ends
  <2>2. /\ Transcript(l, made) /\ (l[1] = Edited => u[1] = Edited)
        /\ Continues(l, u) /\ Len(l) = Len(u)
    BY <1>1, <2>1 DEF Knowledge, TaskKnows, Structure, StagedBodies, Staged, Thrown
  <2>3. mem'[m] = u
    OBVIOUS
  <2>4. l[1] # Edited /\ ~failed[m] => ~Heavy(size[m])
    BY <1>1, <2>1 DEF Knowledge, Unedited, Staged, Thrown
  <2>5. \A v \in Task : WillEdit(m, v) /\ l[1] # Edited => v # k
    BY <2>1 DEF WillEdit
  <2>6. u[1] = Edited <=> mem[m][1] = Edited
    OBVIOUS
  <2> HIDE DEF l, u
  <2>7. Count(Size(l)) = Len(l) /\ (Heavy(Size(l)) <=> l[1] = Edited)
    BY <2>2, GoesMade, SizeTells
  <2>8. Len(l) \in Nat /\ 1 <= Len(l)
    BY <2>2, GoesMade, TranscriptLen
  <2>9. Embeds(l, u, Len(l))
    BY <2>2, <2>8, EmbedsPrefix
  <2>10. Knows(m)'
    <3>1. up[m] /\ Transcript(mem'[m], made')
      <4>1. up[m] /\ Transcript(mem[m], made)
        BY <1>1, UpWhileWriting DEF Goes, Knowledge, Knows
      <4> QED BY <4>1, GoesMade, TranscriptGrows
    <3>2. Count(size'[m]) \in 1..Len(mem'[m]) /\ Embeds(Visible', mem'[m], Count(size'[m]))
      BY <2>1, <2>2, <2>3, <2>7, <2>8, <2>9
    <3>3. Heavy(size'[m]) => mem'[m][1] = Edited
      BY <2>1, <2>2, <2>3, <2>7
    <3> QED BY <3>1, <3>2, <3>3 DEF Knows, Embeds, Count, Heavy
  <2>11. Calm(m)'
    BY <2>1, <2>2, <2>3, <2>7 DEF Calm
  <2>12. tasks'[m][k].live = FALSE /\ \A v \in Task \ {k} : tasks'[m][v] = tasks[m][v]
    BY <2>1 DEF TaskEnds, NoTask
  <2>13. EditOwed(m)'
    <3> SUFFICES ASSUME up[m], ~failed[m], mem[m][1] = Edited, ~Heavy(size'[m])
                 PROVE  \E v \in Task : WillEdit(m, v)'
      BY <2>1 DEF EditOwed
    <3>1. l[1] # Edited
      BY <2>1, <2>7
    <3>2. PICK v \in Task : WillEdit(m, v)
      BY <1>1, <1>4, <2>4, <3>1 DEF Knowledge, EditOwed, Is
    <3>3. v # k
      BY <2>5, <3>1, <3>2
    <3>4. WillEdit(m, v)'
      BY <2>12, <3>2, <3>3 DEF WillEdit
    <3> QED BY <3>4
  <2>14. Unedited(m)'
    <3> SUFFICES ASSUME NEW v \in Task, tasks'[m][v].live, tasks'[m][v].st \in Staged
                 PROVE  FALSE
      BY DEF Unedited
    <3>1. v # k /\ tasks[m][v].live /\ tasks[m][v].st \in Staged
      BY <2>12
    <3>2. Running(tasks[m][k]) /\ Running(tasks[m][v])
      BY <2>1, <3>1 DEF Running, Staged, Thrown
    <3> QED BY <1>1, <3>1, <3>2 DEF Structure, Fenced
  <2>15. \A v \in Task : tasks'[m][v] = tasks[m][v] \/ tasks'[m][v] = NoTask
    BY <2>1 DEF TaskEnds
  <2>16. \A v \in Task : TaskKnows(m, v)'
    BY <1>1, <1>2, <2>15, TasksKnow DEF Structure, Knowledge
  <2> QED BY <1>3, <2>10, <2>11, <2>13, <2>14, <2>16 DEF Knowledge
<1>5. CASE op[m].kind = "rewrite"
  <2>1. /\ op[m].lines = mem[m] /\ \A t \in Task : ~tasks[m][t].live
        /\ op'[m] = None /\ failed'[m] = FALSE /\ tasks' = tasks /\ size'[m] = Size(mem[m])
    BY <1>1, <1>5 DEF Structure, Rewriting, Is, Completes
  <2> DEFINE u == mem[m]
             l == made'
  <2>2. up[m] /\ Transcript(u, made)
    BY <1>1, UpWhileWriting DEF Goes, Knowledge, Knows
  <2>3. Transcript(u, l) /\ l \in 0..MaxLines /\ u \in Seq(Line) /\ MaxLines \in Nat /\ l \in Nat
    BY <2>2, GoesMade, TranscriptGrows DEF Transcript
  <2>4. mem'[m] = u /\ Visible' = u /\ size'[m] = Size(u)
    BY <2>1
  <2> HIDE DEF u, l
  <2>5. Count(Size(u)) = Len(u) /\ (Heavy(Size(u)) <=> u[1] = Edited)
    BY <2>3, SizeTells
  <2>6. Len(u) \in Nat /\ 1 <= Len(u)
    BY <2>3, TranscriptLen
  <2>7. Embeds(u, u, Len(u))
    BY <2>3, <2>6, ContinuesItself, EmbedsPrefix
  <2>8. Knows(m)'
    <3>1. Transcript(mem'[m], made')
      BY <2>3, <2>4 DEF l
    <3>2. Count(size'[m]) \in 1..Len(mem'[m]) /\ Embeds(Visible', mem'[m], Count(size'[m]))
      BY <2>4, <2>5, <2>6, <2>7
    <3>3. Heavy(size'[m]) => mem'[m][1] = Edited
      BY <2>4, <2>5
    <3> QED BY <3>1, <3>2, <3>3 DEF Knows, Embeds, Count, Heavy
  <2>9. Calm(m)' /\ EditOwed(m)'
    BY <2>4, <2>5 DEF Calm, EditOwed
  <2>10. Unedited(m)'
    BY <2>1 DEF Unedited
  <2>11. \A t \in Task : TaskKnows(m, t)'
    BY <1>1, <1>2, <2>1, TasksKnow DEF Structure, Knowledge
  <2> QED BY <1>3, <2>8, <2>9, <2>10, <2>11 DEF Knowledge
<1> QED BY <1>1, <1>4, <1>5, OpCarries

\* A file at the path that is not empty is the one a recovery would have found.
LEMMA ReadsVisible ==
  ASSUME SInv, Held, target # None, files[target] # <<>>
  PROVE  Visible = files[target]
<1>1. ASSUME NEW m \in Manager, AsideAt(m) PROVE Visible = files[target]
  <2>1. target = op[m].bak
    BY <1>1 DEF Held, Backups
  <2> QED BY <1>1, <2>1, VisibleAside DEF SInv
<1> QED BY <1>1, VisibleThere

LEMMA NoTasksKnow ==
  ASSUME NEW m \in Manager, \A t \in Task : tasks'[m][t] = NoTask
  PROVE  Unedited(m)' /\ \A t \in Task : TaskKnows(m, t)'
<1>1. NoTask.st \notin Staged /\ NoTask.st = "none"
  BY DEF NoTask, Staged, Thrown
<1> QED BY <1>1 DEF Unedited, TaskKnows, Staged, Thrown

LEMMA ResumeKnows ==
  ASSUME NEW m \in Manager, Goes(m), Resume(m), Visible' = Visible, made' = made
  PROVE  Knowledge(m)' /\ Heard(m)
<1>1. /\ target # None /\ files[target] # <<>>
      /\ up'[m] = TRUE /\ mem'[m] = files[target] /\ size'[m] = Size(files[target])
      /\ tasks' = tasks /\ op' = op /\ failed' = failed
  BY GoesMade, ResumeIs DEF Resume, Goes, SInv, Directory
<1>2. mem'[m] = Visible /\ size'[m] = Size(Visible)
  BY <1>1, ReadsVisible DEF Goes, Seen
<1>3. op[m] = None /\ \A t \in Task : tasks[m][t] = NoTask
  BY GoesMade DEF Resume, Structure, Idle
<1> DEFINE s == Visible
<1>4. Transcript(s, made) /\ s \in Seq(Line)
  BY GoesMade DEF Transcript
<1> HIDE DEF s
<1>5. Count(Size(s)) = Len(s) /\ (Heavy(Size(s)) <=> s[1] = Edited)
  BY <1>4, GoesMade, SizeTells
<1>6. Len(s) \in Nat /\ 1 <= Len(s)
  BY <1>4, GoesMade, TranscriptLen
<1>7. Embeds(s, s, Len(s))
  BY <1>4, <1>6, ContinuesItself, EmbedsPrefix
<1>8. mem'[m] = s /\ Visible' = s /\ size'[m] = Size(s)
  BY <1>2 DEF s
<1>9. Knows(m)'
  <2>1. Transcript(mem'[m], made')
    BY <1>4, <1>8
  <2>2. Count(size'[m]) \in 1..Len(mem'[m]) /\ Embeds(Visible', mem'[m], Count(size'[m]))
    BY <1>5, <1>6, <1>7, <1>8
  <2>3. Heavy(size'[m]) => mem'[m][1] = Edited
    BY <1>5, <1>8
  <2> QED BY <2>1, <2>2, <2>3 DEF Knows
<1>10. Calm(m)' /\ EditOwed(m)'
  BY <1>5, <1>8 DEF Calm, EditOwed
<1>11. Writing(m)'
  BY <1>1, <1>3, NotWriting
<1>12. Unedited(m)' /\ \A t \in Task : TaskKnows(m, t)'
  BY <1>1, <1>3, NoTasksKnow
<1>13. Heard(m)
  BY <1>2 DEF Heard
<1> QED BY <1>9, <1>10, <1>11, <1>12, <1>13 DEF Knowledge

LEMMA CrashKnows ==
  ASSUME NEW m \in Manager, Goes(m), Crash(m)
  PROVE  Knowledge(m)' /\ Heard(m)
<1>1. /\ up'[m] = FALSE /\ mem'[m] = <<>> /\ op'[m] = None
      /\ \A t \in Task : tasks'[m][t] = NoTask
  BY GoesMade, CrashIs
<1>2. Knows(m)' /\ Calm(m)' /\ EditOwed(m)'
  BY <1>1 DEF Knows, Calm, EditOwed
<1>3. Writing(m)'
  BY <1>1, NotWriting
<1>4. Unedited(m)' /\ \A t \in Task : TaskKnows(m, t)'
  BY <1>1, NoTasksKnow
<1>5. Heard(m)
  BY <1>1 DEF Heard, ToSet
<1> QED BY <1>2, <1>3, <1>4, <1>5 DEF Knowledge

LEMMA WriteLineKnows ==
  ASSUME NEW m \in Manager, Goes(m), WriteLine(m), made' = made,
         Visible' = Append(Visible, Newest(m))
  PROVE  Knowledge(m)'
<1>1. MgrTyped /\ Knowledge(m) /\ Structure(m)
  BY GoesMade
<1>2. /\ Is(m, "append") /\ op'[m] = None /\ size'[m] = size[m] + 1
      /\ UNCHANGED <<up, mem, failed, fenced, tasks>>
  BY <1>1, WriteLineIs DEF Is
<1>3. Onward(m)
  BY <1>2, OthersOnward
<1>4. Writing(m)'
  BY <1>2, NotWriting
<1>5. /\ up[m] /\ Transcript(mem[m], made) /\ Len(mem[m]) \in Nat /\ Len(mem[m]) >= 2
      /\ Count(size[m]) = Len(mem[m]) - 1 /\ Newest(m) = mem[m][Len(mem[m])]
      /\ Newest(m) \in Line
  BY <1>1, <1>2, WritingIs DEF Goes
<1>6. Count(size[m] + 1) = Len(mem[m]) /\ (Heavy(size[m] + 1) <=> Heavy(size[m]))
  <2>1. Len(mem[m]) <= made + 1
    BY <1>5, GoesMade, TranscriptLen
  <2>2. Count(size[m]) \in 1..MaxLines
    BY <1>5, <2>1, GoesMade
  <2>3. size[m] \in Nat
    BY <1>1 DEF MgrTyped
  <2>4. Count(size[m] + 1) = Count(size[m]) + 1 /\ (Heavy(size[m] + 1) <=> Heavy(size[m]))
    BY <2>2, <2>3, GoesMade, CountNext
  <2> QED BY <1>5, <2>4
<1>7. Embeds(Visible', mem[m], Len(mem[m]))
  <2> DEFINE s == Visible
             r == Visible'
             t == mem[m]
             n == Len(mem[m]) - 1
             e == Newest(m)
  <2>1. Transcript(s, made) /\ s \in Seq(Line) /\ r = Append(s, e) /\ e \in Line
        /\ Embeds(s, t, n) /\ n \in Nat /\ n >= 1 /\ e = t[n + 1] /\ n + 1 = Len(mem[m])
    BY <1>1, <1>5, GoesMade DEF Knowledge, Knows, Transcript
  <2> HIDE DEF s, r, t, n, e
  <2>2. Len(s) \in Nat /\ Len(s) >= 1
    BY <2>1, GoesMade, TranscriptLen
  <2>3. /\ Len(r) = Len(s) + 1 /\ \A i \in 2..Len(s) : r[i] = s[i]
        /\ r[Len(s) + 1] = t[n + 1]
    BY <2>1, <2>2
  <2>4. Embeds(r, t, n + 1)
    BY <2>1, <2>2, <2>3, EmbedsExtend
  <2>5. Embeds(r, t, Len(mem[m]))
    BY <2>1, <2>4
  <2> QED BY <2>5 DEF r, t
<1>8. Knows(m)'
  <2>1. Embeds(Visible', mem'[m], Count(size'[m]))
    BY <1>2, <1>6, <1>7
  <2>2. Count(size'[m]) \in 1..Len(mem'[m])
    BY <1>2, <1>5, <1>6
  <2>3. Heavy(size'[m]) => mem'[m][1] = Edited
    BY <1>1, <1>2, <1>5, <1>6 DEF Knowledge, Knows
  <2> QED BY <1>2, <1>5, <2>1, <2>2, <2>3 DEF Knows
<1>9. Calm(m)'
  BY <1>2, <1>6 DEF Calm
<1>10. EditOwed(m)' /\ Unedited(m)'
  BY <1>1, <1>2, <1>6 DEF Knowledge, EditOwed, Unedited, WillEdit, Is
<1>11. \A t \in Task : TaskKnows(m, t)'
  BY <1>1, <1>2, <1>3, TasksKnow DEF Structure, Knowledge
<1> QED BY <1>4, <1>8, <1>9, <1>10, <1>11 DEF Knowledge

\* An entry is new to every transcript.
LEMMA NotYet ==
  ASSUME NEW k \in 0..MaxLines, NEW s, Transcript(s, k)
  PROVE  k + 1 \in Entry => k + 1 \notin ToSet(s)
<1>1. k \in Nat /\ MaxLines \in Nat
  BY FileAssumption
<1>2. DOMAIN s = 1..Len(s) /\ Len(s) \in Nat
  BY <1>1, TranscriptLen
<1>3. \A i \in 1..Len(s) : i = 1 \/ i \in 2..Len(s)
  BY <1>2
<1>4. \A i \in 1..Len(s) : k + 1 \in Entry => s[i] # k + 1
  BY <1>1, <1>3 DEF Transcript, Entry, Header, Edited
<1> QED BY <1>2, <1>4 DEF ToSet

\* A synchronous rewrite begins.
LEMMA RewritesKnow ==
  ASSUME NEW m \in Manager, Goes(m), Onward(m), Knows(m)',
         NEW lines, NEW sz, OpBegins(m, "rewrite", None, lines, sz),
         \A t \in Task : /\ tasks'[m][t].st = tasks[m][t].st /\ tasks'[m][t].live = FALSE
                         /\ tasks'[m][t].lines = tasks[m][t].lines
                         /\ tasks'[m][t].size = tasks[m][t].size
  PROVE  Knowledge(m)'
<1>1. op'[m] # None /\ op'[m].kind = "rewrite"
  BY DEF OpBegins
<1>2. Writing(m)' /\ Calm(m)' /\ EditOwed(m)'
  BY <1>1 DEF Writing, Calm, EditOwed, Is
<1>3. Unedited(m)'
  BY DEF Unedited
<1>4. \A t \in Task : TaskKnows(m, t)'
  BY GoesMade, TasksKnow DEF Structure, Knowledge
<1> QED BY <1>2, <1>3, <1>4 DEF Knowledge

LEMMA FlushKnows ==
  ASSUME NEW m \in Manager, Goes(m), FlushSync(m)
  PROVE  Knowledge(m)'
<1>1. /\ UNCHANGED <<up, mem, size, failed>>
      /\ OpBegins(m, "rewrite", None, mem[m], size[m])
      /\ \A t \in Task : /\ tasks'[m][t].st = tasks[m][t].st
                         /\ tasks'[m][t].live = FALSE
                         /\ tasks'[m][t].lines = tasks[m][t].lines
                         /\ tasks'[m][t].size = tasks[m][t].size
  BY GoesMade, FlushIs DEF Goes, SInv, Directory
<1>2. Onward(m) /\ Knows(m)'
  BY <1>1, SteadyKnows
<1> QED BY <1>1, <1>2, RewritesKnow

LEMMA AppendKnows ==
  ASSUME NEW m \in Manager, Goes(m), AppendEntry(m), Visible' = Visible
  PROVE  Knowledge(m)' /\ Heard(m)
<1>0. MgrTyped /\ Knowledge(m) /\ Structure(m) /\ DirTyped /\ EnvTyped
  BY GoesMade DEF Goes, SInv, Directory
<1>1. /\ made' = made + 1 /\ made' \in Entry /\ up[m] /\ op[m] = None
      /\ up' = up /\ size' = size /\ failed' = failed
      /\ mem'[m] = Append(mem[m], made + 1)
  BY <1>0, AppendIs
<1> DEFINE s == mem[m]
           e == made + 1
           l == made'
<1>2. Transcript(s, made) /\ Transcript(s, l) /\ e \notin ToSet(s)
  <2>1. Transcript(s, made)
    BY <1>0, <1>1 DEF Knowledge, Knows
  <2> QED BY <1>1, <2>1, GoesMade, NotYet, TranscriptGrows
<1>3. e \in 1..l /\ e \in Line /\ l \in Nat /\ l \in 0..MaxLines
  BY <1>1, GoesMade DEF Entry, Line, Edited
<1>4. mem'[m] = Append(s, e)
  BY <1>1
<1> HIDE DEF s, e, l
<1>5. /\ Transcript(Append(s, e), l) /\ Continues(s, Append(s, e))
      /\ Len(Append(s, e)) = Len(s) + 1 /\ Append(s, e)[Len(s) + 1] = e
      /\ Append(s, e)[1] = s[1]
      /\ \A x \in ToSet(Append(s, e)) : x \in ToSet(s) \/ x = e
  BY <1>2, <1>3, TranscriptAppend
<1>6. /\ Transcript(mem'[m], made') /\ Continues(mem[m], mem'[m])
      /\ Len(mem'[m]) = Len(mem[m]) + 1 /\ mem'[m][Len(mem'[m])] = made + 1
      /\ mem'[m][1] = mem[m][1]
      /\ \A x \in ToSet(mem'[m]) : x \in ToSet(mem[m]) \/ x = made + 1
  BY <1>4, <1>5 DEF s, e, l
<1>7. Onward(m)
  BY <1>6, GoesMade DEF Onward
<1>8. Knows(m)'
  BY <1>0, <1>1, <1>6, <1>7, KnowsOnward DEF Knowledge
<1>9. Heard(m)
  <2>1. \A x \in 1..made : x # made + 1
    BY GoesMade
  <2> QED BY <1>6, <2>1 DEF Heard
<1>10. CASE /\ OpBegins(m, "rewrite", None, mem'[m], size[m])
            /\ \A t \in Task : /\ tasks'[m][t].st = tasks[m][t].st
                               /\ tasks'[m][t].live = FALSE
                               /\ tasks'[m][t].lines = tasks[m][t].lines
                               /\ tasks'[m][t].size = tasks[m][t].size
  <2>1. Knowledge(m)'
    BY <1>7, <1>8, <1>10, RewritesKnow
  <2> QED BY <1>9, <2>1
<1>11. CASE /\ ~failed[m] /\ OpBegins(m, "append", None, <<made + 1>>, size[m])
            /\ fenced' = fenced /\ tasks' = tasks
  <2>1. op'[m] # None /\ op'[m].kind = "append" /\ ~Is(m, "rewrite")
    BY <1>1, <1>11 DEF OpBegins, Is
  <2>2. Newest(m)' = made + 1
    BY <1>6 DEF Newest
  <2>3. Count(size'[m]) = Len(mem'[m]) - 1
    <3>1. Count(size[m]) = Len(mem[m])
      BY <1>0, <1>1, <1>11 DEF Knowledge, Calm
    <3>2. Len(mem[m]) \in Nat
      BY <1>0, TaskTyped
    <3> QED BY <1>1, <1>6, <3>1, <3>2
  <2>4. made + 1 \in Entry
    BY <1>1
  <2>5. made + 1 \notin ToSet(Visible')
    BY <2>4, GoesMade, NotYet
  <2>6. ASSUME NEW n \in Manager, n # m PROVE made + 1 \notin ToSet(mem'[n])
    <3>1. mem'[n] = mem[n]
      BY <2>6 DEF Goes, Kept
    <3>2. CASE up[n]
      BY <2>4, <3>1, <3>2, GoesMade, NotYet DEF Knowledge, Knows
    <3>3. CASE ~up[n]
      <4>1. mem[n] = <<>>
        BY <3>3, GoesMade DEF Structure, Idle
      <4> QED BY <3>1, <4>1 DEF ToSet
    <3> QED BY <3>2, <3>3
  <2>7. Writing(m)'
    BY <2>2, <2>3, <2>5, <2>6 DEF Writing
  <2>8. Calm(m)'
    BY <2>1 DEF Calm, Is
  <2>9. EditOwed(m)' /\ Unedited(m)'
    BY <1>0, <1>1, <1>6, <1>11, <2>1 DEF Knowledge, EditOwed, Unedited, WillEdit, Is
  <2>10. \A t \in Task : TaskKnows(m, t)'
    BY <1>0, <1>7, <1>11, TasksKnow DEF Structure, Knowledge
  <2> QED BY <1>8, <1>9, <2>7, <2>8, <2>9, <2>10 DEF Knowledge
<1> QED BY <1>0, <1>10, <1>11, AppendIs

LEMMA ScheduleKnows ==
  ASSUME NEW m \in Manager, Goes(m), NEW t \in Task, Schedule(m, t)
  PROVE  Knowledge(m)' /\ Heard(m)
<1>0. MgrTyped /\ Knowledge(m) /\ Structure(m)
  BY GoesMade
<1>1. /\ MgrTyped' /\ up[m] /\ op[m] = None /\ tasks[m][t] = NoTask
      /\ UNCHANGED <<files, target, baks, scan, writer, up, size, failed, fenced, op>>
      /\ \A u \in Task \ {t} : tasks'[m][u] = tasks[m][u]
      /\ tasks'[m][t].st = "queued" /\ tasks'[m][t].live = TRUE
      /\ mem'[m] = mem[m] \/ mem'[m] = [mem[m] EXCEPT ![1] = Edited]
  BY <1>0, ScheduleIs
<1>2. Transcript(mem[m], made)
  BY <1>0, <1>1 DEF Knowledge, Knows
<1>3. /\ Transcript(mem'[m], made) /\ Continues(mem[m], mem'[m]) /\ Len(mem'[m]) = Len(mem[m])
      /\ (mem[m][1] = Edited => mem'[m][1] = Edited)
      /\ \A x \in ToSet(mem'[m]) : x \in ToSet(mem[m]) \/ x = Edited
  <2>1. CASE mem'[m] = mem[m]
    <3>1. mem[m] \in Seq(Line)
      BY <1>0, TaskTyped
    <3> QED BY <1>2, <2>1, <3>1, ContinuesItself
  <2>2. CASE mem'[m] = [mem[m] EXCEPT ![1] = Edited]
    <3> DEFINE s == mem[m]
               r == [s EXCEPT ![1] = Edited]
    <3>1. mem'[m] = r /\ Transcript(s, made)
      BY <1>2, <2>2
    <3>2. /\ Transcript(r, made) /\ Len(r) = Len(s) /\ Continues(s, r) /\ r[1] = Edited
          /\ \A x \in ToSet(r) : x \in ToSet(s) \/ x = Edited
      BY <3>1, GoesMade, TranscriptEdit
    <3> HIDE DEF r
    <3> QED BY <3>1, <3>2
  <2> QED BY <1>1, <2>1, <2>2
<1>4. Transcript(mem'[m], made')
  BY <1>3, GoesMade, TranscriptGrows
<1>5. Onward(m)
  BY <1>3, GoesMade DEF Onward
<1>6. Knows(m)'
  BY <1>0, <1>1, <1>4, <1>5, KnowsOnward DEF Knowledge
<1>7. Calm(m)'
  BY <1>0, <1>1, <1>3 DEF Knowledge, Calm
<1>8. Writing(m)'
  BY <1>1, NotWriting
<1>9. EditOwed(m)'
  <2>1. WillEdit(m, t)'
    BY <1>1 DEF WillEdit
  <2> QED BY <2>1 DEF EditOwed
<1>10. "queued" \notin Staged /\ tasks'[m][t].st \notin Staged
  BY <1>1 DEF Staged, Thrown
<1>11. Unedited(m)'
  BY <1>0, <1>1, <1>10 DEF Knowledge, Unedited
<1>12. ASSUME NEW u \in Task PROVE TaskKnows(m, u)'
  <2>1. CASE u = t
    BY <1>1, <2>1 DEF TaskKnows, Staged, Thrown
  <2>2. CASE u # t
    BY <1>0, <1>1, <1>5, <2>2, TasksKnow DEF Structure, Knowledge
  <2> QED BY <2>1, <2>2
<1>13. Heard(m)
  <2>1. \A x \in 1..made : x # Edited
    BY GoesMade DEF Edited
  <2> QED BY <1>3, <2>1 DEF Heard
<1> QED BY <1>6, <1>7, <1>8, <1>9, <1>11, <1>12, <1>13 DEF Knowledge

\* A rewrite that ends without a record: it was superseded, or a failure is latched.
LEMMA EndKnows ==
  ASSUME NEW m \in Manager, Goes(m), NEW t \in Task, TaskEnds(m, t), op[m] = None,
         UNCHANGED <<up, mem, size, op>>,
         failed'[m] \/ (failed' = failed /\ (failed[m] \/ ~tasks[m][t].live))
  PROVE  Knowledge(m)'
<1>1. MgrTyped /\ Knowledge(m) /\ Structure(m)
  BY GoesMade
<1>2. Onward(m) /\ Knows(m)'
  BY SteadyKnows
<1>3. Writing(m)'
  BY NotWriting
<1>4. \A u \in Task : tasks'[m][u] = tasks[m][u] \/ tasks'[m][u] = NoTask
  BY DEF TaskEnds
<1>5. NoTask.live = FALSE
  BY DEF NoTask
<1>6. \A u \in Task : TaskKnows(m, u)'
  BY <1>1, <1>2, <1>4, TasksKnow DEF Structure, Knowledge
<1>7. Calm(m)' /\ Unedited(m)'
  BY <1>1, <1>4, <1>5 DEF Knowledge, Calm, Unedited, Is
<1>8. EditOwed(m)'
  <2>1. CASE failed'[m]
    BY <2>1 DEF EditOwed
  <2>2. CASE failed' = failed /\ ~tasks[m][t].live
    <3>1. \A u \in Task : WillEdit(m, u) => WillEdit(m, u)'
      BY <2>2 DEF WillEdit, TaskEnds
    <3> QED BY <1>1, <2>2, <3>1 DEF Knowledge, EditOwed, Is
  <2>3. CASE failed' = failed /\ failed[m]
    BY <2>3 DEF EditOwed
  <2> QED BY <2>1, <2>2, <2>3
<1> QED BY <1>2, <1>3, <1>6, <1>7, <1>8 DEF Knowledge

LEMMA StartKnows ==
  ASSUME NEW m \in Manager, Goes(m), NEW t \in Task, StartTask(m, t)
  PROVE  Knowledge(m)'
<1>1. MgrTyped /\ Knowledge(m) /\ Structure(m)
  BY GoesMade
<1>2. /\ op[m] = None /\ tasks[m][t].st = "queued"
      /\ UNCHANGED <<up, mem, size, failed, op>>
      /\ \/ tasks[m][t].live /\ ~failed[m] /\ TaskMoves(m, t, "closing")
         \/ ~(tasks[m][t].live /\ ~failed[m]) /\ TaskEnds(m, t)
  BY <1>1, StartIs
<1>3. CASE ~(tasks[m][t].live /\ ~failed[m]) /\ TaskEnds(m, t)
  BY <1>2, <1>3, EndKnows
<1>4. CASE TaskMoves(m, t, "closing")
  <2>1. Onward(m) /\ Knows(m)'
    BY <1>2, SteadyKnows
  <2>2. Writing(m)'
    BY <1>2, NotWriting
  <2>3. \A u \in Task : /\ tasks'[m][u].live = tasks[m][u].live
                        /\ tasks'[m][u].lines = tasks[m][u].lines
                        /\ tasks'[m][u].size = tasks[m][u].size
                        /\ u # t => tasks'[m][u] = tasks[m][u]
    BY <1>4 DEF TaskMoves
  <2>4. tasks'[m][t].st = "closing" /\ tasks'[m][t].st \notin Staged
    BY <1>4 DEF TaskMoves, Staged, Thrown
  <2>5. Calm(m)' /\ Unedited(m)'
    BY <1>1, <1>2, <2>3, <2>4 DEF Knowledge, Calm, Unedited, Is
  <2>6. \A u \in Task : WillEdit(m, u) => WillEdit(m, u)'
    BY <1>2, <2>3, <2>4 DEF WillEdit, Staged, Thrown
  <2>7. EditOwed(m)'
    BY <1>1, <1>2, <2>6 DEF Knowledge, EditOwed, Is
  <2>8. \A u \in Task : TaskKnows(m, u)'
    BY <1>1, <2>1, <2>3, <2>4, TasksKnow DEF Structure, Knowledge
  <2> QED BY <2>1, <2>2, <2>5, <2>7, <2>8 DEF Knowledge
<1> QED BY <1>2, <1>3, <1>4

LEMMA StageKnows ==
  ASSUME NEW m \in Manager, Goes(m), NEW t \in Task, Stage(m, t)
  PROVE  Knowledge(m)'
<1>1. MgrTyped /\ Knowledge(m) /\ Structure(m)
  BY GoesMade
<1>2. /\ MgrTyped' /\ Quiet(m) /\ tasks[m][t].st = "closing" /\ size' = size /\ op' = op
      /\ \/ /\ tasks[m][t].live /\ fenced' = fenced
            /\ \A u \in Task \ {t} : tasks'[m][u] = tasks[m][u]
            /\ tasks'[m][t].st = "staging" /\ tasks'[m][t].live = TRUE
            /\ tasks'[m][t].lines = mem[m] /\ tasks'[m][t].size = size[m]
         \/ ~tasks[m][t].live /\ Ends(m, t)
  BY <1>1, StageIs
<1>3. up[m] /\ op[m] = None /\ UNCHANGED <<up, mem, failed, size, op>>
  BY <1>2 DEF Quiet
<1>4. CASE ~tasks[m][t].live /\ Ends(m, t)
  BY <1>3, <1>4, EndKnows DEF Ends
<1>5. CASE /\ \A u \in Task \ {t} : tasks'[m][u] = tasks[m][u]
           /\ tasks'[m][t].st = "staging" /\ tasks'[m][t].live = TRUE
           /\ tasks'[m][t].lines = mem[m] /\ tasks'[m][t].size = size[m]
  <2>1. Onward(m) /\ Knows(m)'
    BY <1>3, SteadyKnows
  <2>2. Writing(m)'
    BY <1>3, NotWriting
  <2>3. Calm(m)'
    BY <1>1, <1>3 DEF Knowledge, Calm, Is
  <2>4. tasks'[m][t].lines[1] = mem[m][1]
    BY <1>5
  <2>5. Unedited(m)'
    <3>1. Heavy(size[m]) => mem[m][1] = Edited
      BY <1>1, <1>3 DEF Knowledge, Knows
    <3>2. ASSUME NEW u \in Task, ~failed'[m], tasks'[m][u].live, tasks'[m][u].st \in Staged,
                 tasks'[m][u].lines[1] # Edited
          PROVE  ~Heavy(size'[m])
      <4>1. CASE u = t
        BY <1>3, <2>4, <3>1, <3>2, <4>1
      <4>2. CASE u # t
        BY <1>1, <1>3, <1>5, <3>2, <4>2 DEF Knowledge, Unedited
      <4> QED BY <4>1, <4>2
    <3> QED BY <3>2 DEF Unedited
  <2>6. EditOwed(m)'
    <3>1. mem[m][1] = Edited => WillEdit(m, t)'
      BY <1>5, <2>4 DEF WillEdit, Staged, Thrown
    <3> QED BY <1>3, <3>1 DEF EditOwed
  <2>7. ASSUME NEW u \in Task PROVE TaskKnows(m, u)'
    <3>1. CASE u = t
      <4>1. /\ Transcript(mem'[m], made') /\ Count(size'[m]) \in 1..Len(mem'[m])
            /\ Embeds(Visible', mem'[m], Count(size'[m]))
        BY <1>3, <2>1 DEF Knows
      <4>2. tasks'[m][t].lines = mem'[m] /\ tasks'[m][t].size = size'[m]
        BY <1>3, <1>5
      <4> QED BY <1>5, <3>1, <4>1, <4>2 DEF TaskKnows, Staged, Thrown
    <3>2. CASE u # t
      BY <1>1, <1>5, <2>1, <3>2, TasksKnow DEF Structure, Knowledge
    <3> QED BY <3>1, <3>2
  <2> QED BY <2>1, <2>2, <2>3, <2>5, <2>6, <2>7 DEF Knowledge
<1> QED BY <1>2, <1>4, <1>5

LEMMA PublishKnows ==
  ASSUME NEW m \in Manager, Goes(m), NEW t \in Task, Publish(m, t)
  PROVE  Knowledge(m)'
<1>1. MgrTyped /\ Knowledge(m) /\ Structure(m)
  BY GoesMade
<1>2. /\ MgrTyped' /\ Quiet(m) /\ tasks[m][t].st = "staging" /\ size' = size
      /\ \/ /\ tasks[m][t].live /\ fenced' = fenced /\ tasks' = tasks
            /\ OpBegins(m, "publish", t, tasks[m][t].lines, tasks[m][t].size)
         \/ ~tasks[m][t].live /\ Ends(m, t) /\ op' = op
  BY <1>1, PublishIs
<1>3. up[m] /\ op[m] = None /\ UNCHANGED <<up, mem, failed, size>>
  BY <1>2 DEF Quiet
<1>4. CASE ~tasks[m][t].live /\ Ends(m, t) /\ op' = op
  BY <1>3, <1>4, EndKnows DEF Ends
<1>5. CASE /\ tasks' = tasks
           /\ OpBegins(m, "publish", t, tasks[m][t].lines, tasks[m][t].size)
  <2>1. Onward(m) /\ Knows(m)'
    BY <1>3, SteadyKnows
  <2>2. op'[m].kind = "publish"
    BY <1>5 DEF OpBegins
  <2>3. Writing(m)'
    BY <2>2, NotWriting
  <2>4. Calm(m)' /\ EditOwed(m)' /\ Unedited(m)'
    BY <1>1, <1>3, <1>5 DEF Knowledge, Calm, EditOwed, Unedited, WillEdit, Is
  <2>5. \A u \in Task : TaskKnows(m, u)'
    BY <1>1, <1>5, <2>1, TasksKnow DEF Structure, Knowledge
  <2> QED BY <2>1, <2>3, <2>4, <2>5 DEF Knowledge
<1> QED BY <1>2, <1>4, <1>5

\* A rewrite that threw has found its body at the path, or something else.
LEMMA ReadBackKnows ==
  ASSUME NEW m \in Manager, Goes(m), NEW t \in Task, ReadBack(m, t), Visible' = Visible
  PROVE  Knowledge(m)'
<1>1. MgrTyped /\ Knowledge(m) /\ Structure(m)
  BY GoesMade
<1>2. /\ tasks[m][t].st = "reading" /\ UNCHANGED <<up, mem, size, failed, op>>
  BY <1>1, ReadBackIs
<1>3. PICK st \in {"same", "other"} :
        /\ TaskMoves(m, t, st)
        /\ st = "same" => target # None /\ files[target] = tasks[m][t].lines
  BY <1>1, ReadBackIs
<1>4. \A u \in Task : /\ tasks'[m][u].live = tasks[m][u].live
                      /\ tasks'[m][u].lines = tasks[m][u].lines
                      /\ tasks'[m][u].size = tasks[m][u].size
                      /\ u # t => tasks'[m][u] = tasks[m][u]
                      /\ tasks'[m][u].st \in Staged <=> tasks[m][u].st \in Staged
                      /\ tasks'[m][u].st \in {"queued", "closing"}
                           <=> tasks[m][u].st \in {"queued", "closing"}
  BY <1>2, <1>3 DEF TaskMoves, Staged, Thrown
<1>5. tasks'[m][t].st = st
  BY <1>3 DEF TaskMoves
<1>6. Onward(m) /\ Knows(m)'
  BY <1>2, SteadyKnows
<1>7. Writing(m)' /\ Calm(m)'
  <2>1. \A n \in Manager \ {m} : mem'[n] = mem[n]
    BY DEF Goes, Kept
  <2> QED BY <1>1, <1>2, <2>1 DEF Knowledge, Writing, Calm, Is, Newest
<1>8. \A u \in Task : WillEdit(m, u) => WillEdit(m, u)'
  BY <1>4 DEF WillEdit
<1>9. EditOwed(m)'
  BY <1>1, <1>2, <1>8 DEF Knowledge, EditOwed, Is
<1>10. Unedited(m)'
  BY <1>1, <1>2, <1>4 DEF Knowledge, Unedited
<1>11. ASSUME NEW u \in Task, u # t \/ st = "other" PROVE TaskKnows(m, u)'
  <2>1. StagedBodies(m) /\ TaskKnows(m, u)
    BY <1>1 DEF Structure, Knowledge
  <2>2. tasks'[m][u].st \in {tasks[m][u].st, "reading", "other"}
    BY <1>4, <1>5, <1>11
  <2> QED BY <1>1, <1>4, <1>6, <2>1, <2>2, TaskOnward
<1>12. CASE st = "same"
  <2> DEFINE l == tasks[m][t].lines
             s == Visible
             u == mem[m]
  <2>1. Transcript(l, made) /\ (l[1] = Edited => u[1] = Edited) /\ Continues(l, u)
    BY <1>1, <1>2 DEF Knowledge, TaskKnows, Structure, StagedBodies, Staged, Thrown
  <2>2. l # <<>>
    BY <2>1 DEF Transcript
  <2>3. s = l
    BY <1>3, <1>12, <2>2, ReadsVisible DEF Goes, Seen
  <2>4. mem'[m] = u /\ Visible' = s /\ tasks'[m][t].lines = l
    BY <1>2, <1>4
  <2> HIDE DEF l, u, s
  <2>5. Transcript(l, made') /\ Len(l) \in Nat
    BY <2>1, GoesMade, TranscriptGrows, TranscriptLen
  <2>6. Embeds(s, u, Len(l))
    BY <2>1, <2>3, <2>5, EmbedsPrefix
  <2>7. TaskKnows(m, t)'
    BY <1>5, <1>12, <2>1, <2>4, <2>5, <2>6 DEF TaskKnows, Embeds
  <2> QED BY <1>6, <1>7, <1>9, <1>10, <1>11, <2>7 DEF Knowledge
<1>13. CASE st = "other"
  BY <1>6, <1>7, <1>9, <1>10, <1>11, <1>13 DEF Knowledge
<1> QED BY <1>12, <1>13

\* One that threw records the size of what it wrote only if it has found that.
LEMMA SettleFailedKnows ==
  ASSUME NEW m \in Manager, Goes(m), NEW t \in Task, SettleFailed(m, t)
  PROVE  Knowledge(m)'
<1>1. MgrTyped /\ Knowledge(m) /\ Structure(m)
  BY GoesMade
<1>2. /\ MgrTyped' /\ up[m] /\ op[m] = None /\ op' = op /\ UNCHANGED <<up, mem>>
      /\ TaskEnds(m, t) /\ failed'[m] = TRUE
      /\ size' = size \/ (tasks[m][t].st = "same" /\ size'[m] = Size(tasks[m][t].lines))
  BY <1>1, SettleFailedIs DEF Ends
<1>3. CASE size' = size
  BY <1>2, <1>3, EndKnows
<1>4. CASE tasks[m][t].st = "same" /\ size'[m] = Size(tasks[m][t].lines)
  <2> DEFINE l == tasks[m][t].lines
             u == mem[m]
  <2>1. /\ Transcript(l, made) /\ (l[1] = Edited => u[1] = Edited) /\ Continues(l, u)
        /\ Embeds(Visible, mem[m], Len(l))
    BY <1>1, <1>4 DEF Knowledge, TaskKnows, Structure, StagedBodies, Staged, Thrown
  <2>2. size'[m] = Size(l) /\ u \in Seq(Line) /\ mem'[m] = u /\ mem[m] = u
    BY <1>1, <1>2, <1>4, TaskTyped
  <2>3. Onward(m)
    BY <1>2, OthersOnward
  <2> HIDE DEF l, u
  <2>4. Count(Size(l)) = Len(l) /\ (Heavy(Size(l)) <=> l[1] = Edited)
    BY <2>1, GoesMade, SizeTells
  <2>5. Len(l) \in Nat /\ 1 <= Len(l) /\ Len(l) <= Len(u) /\ Len(u) \in Nat
    BY <2>1, <2>2, GoesMade, TranscriptLen DEF Continues
  <2>6. Embeds(Visible', mem'[m], Len(l))
    BY <2>1, <2>2, <2>3, <2>5, EmbedsOnward DEF Embeds
  <2>7. Transcript(mem'[m], made')
    BY <1>1, <1>2, GoesMade, TranscriptGrows DEF Knowledge, Knows
  <2>8. Knows(m)'
    <3>1. Count(size'[m]) \in 1..Len(mem'[m]) /\ Embeds(Visible', mem'[m], Count(size'[m]))
      BY <2>2, <2>4, <2>5, <2>6
    <3>2. Heavy(size'[m]) => mem'[m][1] = Edited
      BY <2>1, <2>2, <2>4
    <3> QED BY <2>7, <3>1, <3>2 DEF Knows
  <2>9. Writing(m)'
    BY <1>2, NotWriting
  <2>10. Calm(m)' /\ EditOwed(m)' /\ Unedited(m)'
    BY <1>2 DEF Calm, EditOwed, Unedited
  <2>11. \A v \in Task : tasks'[m][v] = tasks[m][v] \/ tasks'[m][v] = NoTask
    BY <1>2 DEF TaskEnds
  <2>12. \A v \in Task : TaskKnows(m, v)'
    BY <1>1, <2>3, <2>11, TasksKnow DEF Structure, Knowledge
  <2> QED BY <2>8, <2>9, <2>10, <2>12 DEF Knowledge
<1> QED BY <1>2, <1>3, <1>4

(***************************************************************************)
(* The invariant of the contents.                                          *)
(***************************************************************************)
\* The steps of the region: what is written and what is left to be done.
LEMMA RegionKnows ==
  ASSUME NEW m \in Manager, Goes(m), faults <= faults', Region(m),
         WriteLine(m) => Visible' = Append(Visible, Newest(m)),
         Rename(m) => Visible' = op[m].lines,
         UnlinkBackup(m) => Visible' = op[m].lines,
         WriteLine(m) \/ Rename(m) \/ RenameAgain(m) \/ Visible' = Visible
  PROVE  Knowledge(m)' /\ mem' = mem /\ made' = made
<1>1. MgrTyped /\ Knowledge(m) /\ Structure(m)
  BY GoesMade
<1>2. mem' = mem /\ made' = made
  BY DEF Region, EnterRegion, LockTimesOut, WriteLine, WriteLineFails, Conflict, Rename,
     MoveAside, RenameAgain, UnlinkBackup, RollBack, RollBackFails, env
<1>3. DirTyped
  BY DEF Goes, SInv, Directory
<1>4. CASE EnterRegion(m)
  <2>1. /\ op[m] # None /\ OpMoves(m, "in")
        /\ UNCHANGED <<up, mem, size, failed, fenced, tasks>>
    BY <1>1, <1>4, EnterIs
  <2>2. Visible' = Visible
    <3>1. op[m].step = "lock"
      BY <1>4 DEF EnterRegion
    <3> QED BY <3>1 DEF WriteLine, Rename, RenameAgain, At
  <2> QED BY <1>2, <2>1, <2>2, MovesKnow
<1>5. CASE LockTimesOut(m) \/ WriteLineFails(m) \/ Conflict(m) \/ RollBack(m) \/ RollBackFails(m)
  <2>1. Throws(m) /\ UNCHANGED <<up, mem, size, fenced>>
    BY <1>5, RegionThrows DEF Goes
  <2> QED BY <1>2, <2>1, ThrowKnows
<1>6. CASE WriteLine(m)
  BY <1>2, <1>6, WriteLineKnows
<1>7. CASE Rename(m) \/ UnlinkBackup(m)
  <2>1. /\ op[m] # None /\ op[m].kind # "append" /\ Done(m) /\ UNCHANGED <<up, mem>>
    BY <1>7 DEF Rename, UnlinkBackup, At
  <2>2. WaitsFor(m)
    BY <1>1, <2>1 DEF Structure, Publishing, Is, WaitsFor
  <2>3. Completes(m)
    BY <1>1, <2>1, <2>2, DoneIs
  <2> QED BY <1>2, <1>7, <2>1, <2>3, DoneKnows
<1>8. CASE MoveAside(m)
  <2>1. /\ op[m] # None /\ op[m].kind # "append" /\ OpMoves(m, "aside")
        /\ UNCHANGED <<up, mem, size, failed, fenced, tasks>>
    BY <1>1, <1>3, <1>8, MoveAsideIs
  <2> QED BY <1>2, <2>1, MovesKnow
<1>9. CASE RenameAgain(m)
  <2>1. /\ op[m] # None /\ op[m].kind # "append" /\ OpMoves(m, "swapped")
        /\ UNCHANGED <<up, mem, size, failed, fenced, tasks>>
    BY <1>1, <1>9, RenameAgainIs
  <2> QED BY <1>2, <2>1, MovesKnow
<1> QED BY <1>4, <1>5, <1>6, <1>7, <1>8, <1>9 DEF Region

LEMMA ActsKnow ==
  ASSUME NEW m \in Manager, Goes(m), faults <= faults', Acts(m),
         WriteLine(m) => Visible' = Append(Visible, Newest(m)),
         Rename(m) => Visible' = op[m].lines,
         UnlinkBackup(m) => Visible' = op[m].lines,
         Region(m) \/ Visible' = Visible,
         WriteLine(m) \/ Rename(m) \/ RenameAgain(m) \/ Visible' = Visible
  PROVE  Knowledge(m)' /\ Heard(m)
<1>1. mem' = mem => Heard(m)
  BY DEF Heard
<1>2. CASE Region(m)
  BY <1>1, <1>2, RegionKnows
<1>3. CASE Resume(m)
  <2>1. made' = made
    BY <1>3 DEF Resume, env
  <2> QED BY <1>2, <1>3, <2>1, ResumeKnows
<1>4. CASE AppendEntry(m)
  BY <1>2, <1>4, AppendKnows
<1>5. CASE FlushSync(m)
  <2>1. mem' = mem
    BY <1>5 DEF FlushSync
  <2> QED BY <1>1, <1>5, <2>1, FlushKnows
<1>6. CASE Crash(m)
  BY <1>6, CrashKnows
<1>7. ASSUME NEW t \in Task, Schedule(m, t) PROVE Knowledge(m)' /\ Heard(m)
  BY <1>7, ScheduleKnows
<1>8. ASSUME NEW t \in Task, Resumed(m, t), ~Region(m) PROVE Knowledge(m)' /\ Heard(m)
  <2>1. mem' = mem
    BY <1>8 DEF Resumed, StartTask, Stage, Publish, ReadBack, SettleFailed
  <2>2. Knowledge(m)'
    BY <1>8, StartKnows, StageKnows, PublishKnows, ReadBackKnows, SettleFailedKnows DEF Resumed
  <2> QED BY <1>1, <2>1, <2>2
<1> QED BY <1>2, <1>3, <1>4, <1>5, <1>6, <1>7, <1>8 DEF Acts

\* What a recovery would find goes on, by entries of the one that acts.
LEMMA ActsGoes ==
  ASSUME SInv, SInv', made <= made', faults <= faults', Seen, ~raced', NEW m \in Manager, Acts(m)
  PROVE  /\ Goes(m) /\ Held'
         /\ WriteLine(m) => Visible' = Append(Visible, Newest(m))
         /\ Rename(m) \/ UnlinkBackup(m) => Visible' = op[m].lines
         /\ WriteLine(m) \/ Rename(m) \/ RenameAgain(m) \/ Visible' = Visible
<1>1. \A n \in Manager : n # m => Kept(n)
  BY ActsKeep DEF SInv, Directory
<1>2. /\ Held' /\ (WriteLine(m) => Wrote(m)) /\ (Rename(m) \/ RenameAgain(m) => Replaced(m))
      /\ Wrote(m) \/ Replaced(m) \/ Visible' = Visible
  BY <1>1, ActsView DEF Seen
<1>3. Wrote(m) => made' = made /\ WriteLine(m)
  BY DEF Wrote, WriteLine, env
<1>4. Replaced(m) => made' = made /\ (Rename(m) \/ RenameAgain(m))
  BY DEF Replaced, Rename, RenameAgain, env
<1>5. Grown(m)
  <2>1. CASE Visible' = Visible
    <3>1. made \in Nat /\ made' \in Nat
      BY FileAssumption DEF SInv, EnvTyped
    <3>2. Transcript(Visible', made')
      BY <2>1, <3>1, TranscriptGrows DEF Seen
    <3>3. Continues(Visible, Visible')
      <4>1. Visible \in Seq(Line)
        BY DEF Seen, Transcript
      <4> QED BY <2>1, <4>1, ContinuesItself
    <3> QED BY <2>1, <3>2, <3>3 DEF Grown
  <2>2. CASE Wrote(m)
    BY <1>3, <2>2, WroteGrows
  <2>3. CASE Replaced(m)
    BY <1>4, <2>3, ReplacedGrows
  <2> QED BY <1>2, <2>1, <2>2, <2>3
<1>6. Goes(m)
  BY <1>1, <1>5 DEF Goes
<1>7. WriteLine(m) => Visible' = Append(Visible, Newest(m))
  BY <1>2, <1>3, WroteGrows
<1>8. Rename(m) => Visible' = op[m].lines
  BY <1>2 DEF Replaced
<1>9. UnlinkBackup(m) => Visible' = op[m].lines
  BY <1>1, UnlinkView DEF Seen
<1> QED BY <1>2, <1>3, <1>4, <1>6, <1>7, <1>8, <1>9

LEMMA ActsSeen ==
  ASSUME SInv, SInv', made <= made', faults <= faults', Seen, ~raced', NEW m \in Manager, Acts(m)
  PROVE  Seen' /\ Continues(Visible, Visible')
<1>1. /\ Goes(m) /\ Held'
      /\ WriteLine(m) => Visible' = Append(Visible, Newest(m))
      /\ Rename(m) \/ UnlinkBackup(m) => Visible' = op[m].lines
      /\ WriteLine(m) \/ Rename(m) \/ RenameAgain(m) \/ Visible' = Visible
  BY ActsGoes
<1>2. Region(m) \/ Visible' = Visible
  BY <1>1 DEF Region
<1>3. Knowledge(m)' /\ Heard(m)
  BY <1>1, <1>2, ActsKnow
<1>4. \A n \in Manager : n # m => Knowledge(n)'
  BY <1>1, <1>3, OthersKnow DEF Heard
<1>5. Transcript(Visible', made') /\ Continues(Visible, Visible')
  BY <1>1 DEF Goes, Grown
<1> QED BY <1>1, <1>3, <1>4, <1>5 DEF Seen

LEMMA SeenNext ==
  ASSUME SInv, SInv', Seen, [Next]_vars, ~raced'
  PROVE  Seen' /\ Continues(Visible, Visible')
<1>1. made <= made' /\ faults <= faults'
  BY EnvNext DEF SInv
<1>2. ASSUME NEW m \in Manager, Acts(m) PROVE Seen' /\ Continues(Visible, Visible')
  BY <1>1, <1>2, ActsSeen
<1>3. ASSUME UNCHANGED <<up, mem, size, failed, tasks, op, made>>, Held', Visible' = Visible
      PROVE  Seen' /\ Continues(Visible, Visible')
  <2>1. \A m \in Manager : Knowledge(m)'
    BY <1>3, StillKnow DEF Seen
  <2>2. Transcript(Visible', made')
    BY <1>3 DEF Seen, Transcript
  <2>3. Visible \in Seq(Line)
    BY DEF Seen, Transcript
  <2> QED BY <1>3, <2>1, <2>2, <2>3, ContinuesItself DEF Seen
<1>4. CASE Scan \/ UNCHANGED vars
  <2>1. /\ UNCHANGED <<files, target, baks, up, failed, tasks, op>>
        /\ UNCHANGED <<mem, size, made>>
    BY <1>4 DEF Scan, vars, env
  <2>2. \A m \in Manager : Out(m) => Out(m)'
    BY <2>1 DEF Out, Is
  <2>3. Held' /\ Visible' = Visible
    BY <2>1, <2>2, ViewUntouched DEF Seen
  <2> QED BY <1>3, <2>1, <2>3
<1>5. CASE Promote
  <2>1. UNCHANGED <<up, mem, size, failed, tasks, op, made>>
    BY <1>5 DEF Promote, env
  <2>2. Held' /\ Visible' = Visible
    BY <1>1, <1>5, PromoteView DEF Seen
  <2> QED BY <1>3, <2>1, <2>2
<1> QED BY <1>2, <1>4, <1>5, NextIs

LEMMA SeenInit == Init => Seen
<1> SUFFICES ASSUME Init PROVE Seen
  OBVIOUS
<1>1. 1 \in Ino /\ 1 # None /\ MaxLines \in Nat
  BY FileAssumption
<1>2. /\ \A m \in Manager : op[m] = None /\ ~up[m] /\ \A t \in Task : tasks[m][t] = NoTask
      /\ target = 1 /\ files[1] = <<Header>> /\ made = 0
  BY <1>1 DEF Init
<1>3. \A m \in Manager : ~AsideAt(m) /\ ~SwappedAt(m)
  BY <1>2 DEF AsideAt, SwappedAt
<1>4. Visible = <<Header>>
  BY <1>1, <1>2, <1>3, VisibleThere
<1>5. Transcript(<<Header>>, 0)
  BY <1>1 DEF Transcript, Header, Line, Edited, IsInjective
<1>6. Held
  BY <1>1, <1>2, <1>3 DEF Held, Backups, Swapped, Left
<1>7. NoTask.live = FALSE /\ NoTask.st \notin Staged
  BY DEF NoTask, Staged, Thrown
<1>8. ASSUME NEW m \in Manager PROVE Knowledge(m)
  BY <1>2, <1>7 DEF Knowledge, Knows, Calm, Writing, EditOwed, Unedited, TaskKnows, Is, Staged, Thrown
<1> QED BY <1>2, <1>4, <1>5, <1>6, <1>8 DEF Seen

\* As long as the directory was not left to a race.
CInv == SInv /\ (~raced => Seen)

LEMMA CInvInit == Init => CInv
BY StructureInit, SeenInit DEF CInv

LEMMA CInvNext == CInv /\ [Next]_vars => CInv'
<1> SUFFICES ASSUME CInv, [Next]_vars PROVE CInv'
  OBVIOUS
<1>1. SInv' /\ (~raced' => ~raced)
  BY StructureNext, EnvNext DEF CInv, SInv
<1>2. ~raced' => Seen'
  BY <1>1, SeenNext DEF CInv
<1> QED BY <1>1, <1>2 DEF CInv

LEMMA Contents == Spec => []CInv
BY CInvInit, CInvNext, PTL DEF Spec

\* DurableInOrder: whatever rewrites were queued, superseded, refused or rolled
\* back, and whoever died, the file has the whole transcript of every terminal
\* that is at rest, once and in its order, as long as no backup was left to a race
\* (raced).
THEOREM DurableHolds == Spec => []DurableInOrder
<1>1. CInv => DurableInOrder
  <2> SUFFICES ASSUME SInv, Seen, NEW m \in Manager, AtRest(m)
               PROVE  Holds(Visible, mem[m])
    BY DEF CInv, DurableInOrder
  <2>1. up[m] /\ ~failed[m] /\ op[m] = None
    BY DEF AtRest, Free
  <2>2. Transcript(mem[m], made) /\ Embeds(Visible, mem[m], Count(size[m]))
    BY <2>1 DEF Seen, Knowledge, Knows
  <2>3. Count(size[m]) = Len(mem[m])
    BY <2>1 DEF Seen, Knowledge, Calm
  <2>4. Transcript(Visible, made)
    BY DEF Seen
  <2> QED BY <2>2, <2>3, <2>4, MadeIs, EmbedsHolds
<1> QED BY <1>1, Contents, PTL

\* SizeIsOwn: the size a terminal expects at the path is that of its own
\* transcript, but for an edit whose rewrite has not ended and as long as no backup
\* was left to a race.
THEOREM SizeIsOwnHolds == Spec => []SizeIsOwn
<1>1. CInv => SizeIsOwn
  <2> SUFFICES ASSUME SInv, Seen, NEW m \in Manager, AtRest(m),
                      \A t \in Task : tasks[m][t] = NoTask
               PROVE  size[m] = Size(mem[m])
    BY DEF CInv, SizeIsOwn
  <2>1. up[m] /\ ~failed[m] /\ op[m] = None
    BY DEF AtRest, Free
  <2>2. Transcript(mem[m], made) /\ (Heavy(size[m]) => mem[m][1] = Edited)
    BY <2>1 DEF Seen, Knowledge, Knows
  <2>3. Count(size[m]) = Len(mem[m])
    BY <2>1 DEF Seen, Knowledge, Calm
  <2>4. ~(\E t \in Task : WillEdit(m, t))
    BY DEF WillEdit, NoTask
  <2>5. mem[m][1] = Edited => Heavy(size[m])
    BY <2>1, <2>4 DEF Seen, Knowledge, EditOwed, Is
  <2>6. /\ Size(mem[m]) \in Nat /\ Count(Size(mem[m])) = Len(mem[m])
        /\ Heavy(Size(mem[m])) <=> mem[m][1] = Edited
    BY <2>2, MadeIs, SizeTells
  <2>7. size[m] \in Nat
    BY DEF SInv, MgrTyped
  <2> QED BY <2>2, <2>3, <2>5, <2>6, <2>7, MadeIs DEF Count, Heavy
<1> QED BY <1>1, Contents, PTL

\* NothingRemoved: no step, of a terminal that does not know a line, of a rename
\* that is refused, of a crash between two renames, takes a line away from what a
\* recovery would find, unless it leaves a backup to a race.
THEOREM NothingRemovedHolds == Spec => NothingRemoved
<1>1. CInv /\ CInv' /\ [Next]_vars
        => [~raced' => ToSet(Visible) \cap Entry \subseteq ToSet(Visible')]_vars
  <2> SUFFICES ASSUME CInv, CInv', [Next]_vars, ~raced', NEW x \in ToSet(Visible), x \in Entry
               PROVE  x \in ToSet(Visible')
    OBVIOUS
  <2>1. SInv /\ SInv' /\ Seen /\ Seen'
    BY EnvNext DEF CInv, SInv
  <2>2. Continues(Visible, Visible')
    BY <2>1, SeenNext
  <2> DEFINE s == Visible
             r == Visible'
             k == made
             l == made'
  <2>3. Transcript(s, k) /\ Transcript(r, l) /\ Continues(s, r) /\ k \in Nat /\ l \in Nat
    <3>1. made \in Nat /\ made' \in Nat
      BY <2>1, FileAssumption DEF SInv, EnvTyped
    <3> QED BY <2>1, <2>2, <3>1 DEF Seen
  <2>4. x \in ToSet(s) /\ x \in Entry
    OBVIOUS
  <2> HIDE DEF s, r, k, l
  <2>5. DOMAIN s = 1..Len(s) /\ DOMAIN r = 1..Len(r) /\ Len(s) \in Nat /\ Len(r) \in Nat
    BY <2>3, TranscriptLen
  <2>6. PICK i \in 1..Len(s) : s[i] = x
    BY <2>4, <2>5 DEF ToSet
  <2>7. i # 1
    BY <2>3, <2>4, <2>6, FileAssumption DEF Transcript, Entry, Header, Edited
  <2>8. i \in 1..Len(r) /\ r[i] = x
    BY <2>3, <2>5, <2>6, <2>7 DEF Continues
  <2>9. x \in ToSet(r)
    BY <2>5, <2>8 DEF ToSet
  <2> QED BY <2>9 DEF r
<1> QED BY <1>1, Contents, PTL DEF Spec, NothingRemoved
=============================================================================
