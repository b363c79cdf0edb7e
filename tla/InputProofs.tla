---------------------------- MODULE InputProofs ----------------------------
(***************************************************************************)
(* Proofs about what the server makes of its input, for streams and files  *)
(* of any length: the framing of a stream (FramingSound) and the accounts  *)
(* of a file (LoginsSound).                                                *)
(***************************************************************************)
EXTENDS MCConnection, WellFoundedInduction, FiniteSetTheorems,
        SequenceTheorems, TLAPS

-----------------------------------------------------------------------------
(* Induction over the naturals, without an operator parameter: a set of    *)
(* counterexamples has a least one.                                        *)

LEMMA LeastNat ==
    ASSUME NEW T \in SUBSET Nat, T # {}
    PROVE  \E x \in T : \A y \in T : x <= y
<1> DEFINE R == OpToRel(<, Nat)
<1>1. IsWellFoundedOn(R, Nat)
  BY NatLessThanWellFounded
<1>2. \A y, x \in Nat : y < x => <<y, x>> \in R
  BY DEF OpToRel
<1> HIDE DEF R
<1>3. T \subseteq Nat
  OBVIOUS
<1>4. PICK x \in T : \A y \in T : <<y, x>> \notin R
  BY <1>1, <1>3, WFMin
<1>5. \A y \in T : ~(y < x)
  BY <1>2, <1>3, <1>4
<1> QED  BY <1>3, <1>4, <1>5

\* A set that holds n0 and the successor of what it holds below n is all up to n.
LEMMA UpTo ==
    ASSUME NEW n \in Nat, NEW G, 0 \in G,
           \A k \in 0 .. n - 1 : k \in G => k + 1 \in G
    PROVE  0 .. n \subseteq G
<1> DEFINE T == {k \in 0 .. n : k \notin G}
<1>1. SUFFICES ASSUME T # {} PROVE FALSE
  OBVIOUS
<1>2. PICK k \in T : \A j \in T : k <= j
  <2>1. T \in SUBSET Nat
    OBVIOUS
  <2> HIDE DEF T
  <2> QED  BY <1>1, <2>1, LeastNat
<1>3. k \in 0 .. n /\ k # 0
  OBVIOUS
<1>4. k - 1 \in 0 .. n - 1 /\ k - 1 \notin T
  BY <1>2, <1>3
<1> QED  BY <1>3, <1>4

\* The operators of the community modules that pick from a set of numbers.
LEMMA MinNat ==
    ASSUME NEW S \in SUBSET Nat, S # {}
    PROVE  Min(S) \in S /\ \A i \in S : Min(S) <= i
<1>1. \E x \in S : \A y \in S : x <= y
  BY LeastNat
<1> QED  BY <1>1 DEF Min

LEMMA MaxUpTo ==
    ASSUME NEW m \in Nat, NEW s \in SUBSET (1 .. m), s # {}
    PROVE  Max(s) \in s /\ \A i \in s : i <= Max(s)
<1> DEFINE T == {k \in Nat : \A i \in s : i <= k}
<1>1. PICK k \in T : \A j \in T : k <= j
  <2>1. T \in SUBSET Nat /\ m \in T
    OBVIOUS
  <2> HIDE DEF T
  <2> QED  BY <2>1, LeastNat
<1>2. k \in s
  <2>1. SUFFICES ASSUME k \notin s PROVE FALSE
    OBVIOUS
  <2>2. \A i \in s : i \in 1 .. m /\ i <= k - 1
    BY <1>1, <2>1
  <2>3. k - 1 \in Nat
    <3>1. PICK i \in s : TRUE
      OBVIOUS
    <3>2. k \in Nat /\ i \in 1 .. m /\ i <= k - 1
      BY <1>1, <2>2
    <3> QED  BY <3>2
  <2>4. k - 1 \in T
    BY <2>2, <2>3
  <2>5. k \in Nat /\ ~(k <= k - 1)
    OBVIOUS
  <2> QED  BY <1>1, <2>4, <2>5
<1>3. \A i \in s : k >= i
  BY <1>1
<1> QED  BY <1>2, <1>3 DEF Max

\* A fold of a sequence is a function on the sets of its indices: from the base,
\* one step for each index, the greatest last.
FoldsBy(g, m, base, step) ==
    \A s \in SUBSET (1 .. m) :
        g[s] = IF s = {} THEN base ELSE step[<<g[s \ {Max(s)}], Max(s)>>]

\* There is such a function, if the step is one.
LEMMA FoldExists ==
    ASSUME NEW D, NEW base \in D, NEW n \in Nat, NEW step \in [D \X (1 .. n) -> D]
    PROVE  \E g \in [SUBSET (1 .. n) -> D] : FoldsBy(g, n, base, step)
<1> DEFINE Folds(m, g) == FoldsBy(g, m, base, step)
           G == {m \in 0 .. n : \E g \in [SUBSET (1 .. m) -> D] : Folds(m, g)}
<1>1. 0 \in G
  <2> DEFINE g == [s \in SUBSET (1 .. 0) |-> base]
  <2>1. \A s \in SUBSET (1 .. 0) : s = {}
    OBVIOUS
  <2>2. g \in [SUBSET (1 .. 0) -> D] /\ Folds(0, g)
    BY <2>1 DEF FoldsBy
  <2>3. 0 \in 0 .. n
    OBVIOUS
  <2> HIDE DEF g, Folds
  <2> QED  BY <2>2, <2>3
<1>2. ASSUME NEW m \in 0 .. n - 1, m \in G  PROVE m + 1 \in G
  <2>1. PICK g \in [SUBSET (1 .. m) -> D] : Folds(m, g)
    BY <1>2
  <2> DEFINE k == m + 1
             h == [s \in SUBSET (1 .. k) |->
                      IF k \in s THEN step[<<g[s \ {k}], k>>] ELSE g[s]]
  <2>2. \A s \in SUBSET (1 .. k) :
            s \ {k} \in SUBSET (1 .. m) /\ (k \notin s => s \in SUBSET (1 .. m))
    OBVIOUS
  <2>3. k \in 1 .. n
    OBVIOUS
  <2>4. h \in [SUBSET (1 .. k) -> D]
    <3> HIDE DEF k, Folds
    <3> QED  BY <2>1, <2>2, <2>3
  <2>5. ASSUME NEW s \in SUBSET (1 .. k), s # {}
        PROVE  h[s] = step[<<h[s \ {Max(s)}], Max(s)>>]
    <3>1. Max(s) \in s /\ \A i \in s : i <= Max(s)
      <4>1. k \in Nat
        OBVIOUS
      <4> HIDE DEF k
      <4> QED  BY <4>1, <2>5, MaxUpTo
    <3>2. CASE k \in s
      <4>1. Max(s) = k
        <5>1. Max(s) \in 1 .. k
          BY <3>1
        <5>2. k <= Max(s)
          BY <3>1, <3>2
        <5> QED  BY <5>1, <5>2
      <4>2. s \ {k} \in SUBSET (1 .. k) /\ k \notin s \ {k}
        OBVIOUS
      <4> HIDE DEF k
      <4> QED  BY <3>2, <4>1, <4>2
    <3>3. CASE k \notin s
      <4>1. s \in SUBSET (1 .. m) /\ s \ {Max(s)} \in SUBSET (1 .. k)
        BY <2>2, <3>3
      <4> HIDE DEF k
      <4> QED  BY <2>1, <2>5, <3>3, <4>1 DEF FoldsBy
    <3> QED  BY <3>2, <3>3
  <2>6. Folds(k, h)
    <3>1. {} \in SUBSET (1 .. k) /\ {} \in SUBSET (1 .. m) /\ k \notin {}
      OBVIOUS
    <3>2. h[{}] = base
      <4> HIDE DEF k
      <4> QED  BY <2>1, <3>1 DEF FoldsBy
    <3> HIDE DEF k, h
    <3> QED  BY <2>5, <3>2 DEF FoldsBy
  <2>7. k \in 0 .. n
    OBVIOUS
  <2> HIDE DEF k, h, Folds
  <2>8. k \in G
    BY <2>4, <2>6, <2>7
  <2> QED  BY <2>8 DEF k
<1>3. n \in G
  <2> HIDE DEF G
  <2>1. 0 .. n \subseteq G
    BY <1>1, <1>2, UpTo
  <2> QED  BY <2>1
<1> QED  BY <1>3

\* The fold takes the indices in order.
LEMMA Segments ==
    ASSUME NEW n \in Nat, NEW k \in 1 .. n
    PROVE  /\ 1 .. k \in SUBSET (1 .. n)
           /\ 1 .. k # {}
           /\ Max(1 .. k) = k
           /\ (1 .. k) \ {k} = 1 .. k - 1
<1>1. k \in Nat /\ 1 .. k \in SUBSET (1 .. k) /\ 1 .. k # {} /\ k \in 1 .. k
  OBVIOUS
<1>2. Max(1 .. k) \in 1 .. k /\ \A i \in 1 .. k : i <= Max(1 .. k)
  BY <1>1, MaxUpTo
<1>3. Max(1 .. k) = k
  BY <1>1, <1>2
<1>4. 1 .. k \in SUBSET (1 .. n) /\ (1 .. k) \ {k} = 1 .. k - 1
  OBVIOUS
<1> QED  BY <1>1, <1>3, <1>4

-----------------------------------------------------------------------------
(* Files of accounts.                                                      *)

\* AuthLoad without the operators it is folded with.
LEMMA AuthLoadUnfolds ==
    ASSUME NEW file
    PROVE  AuthLoad(file) =
             (CHOOSE g : g = [s \in SUBSET DOMAIN file |->
                 IF s = {} THEN <<>>
                 ELSE IF Loadable(file[Max(s)])
                      THEN PutFirst(g[s \ {Max(s)}], file[Max(s)])
                      ELSE g[s \ {Max(s)}]])[DOMAIN file]
BY Zenon DEF AuthLoad, FoldLeft, MapThenFoldSet

\* What is loaded of the first k lines, for every k.
LEMMA AuthLoadSteps ==
    ASSUME NEW Rows, NEW file \in Seq(Rows)
    PROVE  \E dbs :
             /\ dbs[0] = <<>>
             /\ \A k \in 1 .. Len(file) :
                  dbs[k] = IF Loadable(file[k])
                           THEN PutFirst(dbs[k - 1], file[k]) ELSE dbs[k - 1]
             /\ AuthLoad(file) = dbs[Len(file)]
<1> DEFINE n == Len(file)
           D == Seq(Rows)
           Step(db, i) == IF Loadable(file[i]) THEN PutFirst(db, file[i]) ELSE db
           step == [p \in D \X (1 .. n) |-> Step(p[1], p[2])]
           Iterates(g) == g = [s \in SUBSET (1 .. n) |->
                              IF s = {} THEN <<>>
                              ELSE Step(g[s \ {Max(s)}], Max(s))]
<1>1. n \in Nat /\ DOMAIN file = 1 .. n /\ <<>> \in D
  OBVIOUS
<1>2. \A db \in D, i \in 1 .. n : Step(db, i) \in D
  BY DEF PutFirst
<1>3. AuthLoad(file) = (CHOOSE g : Iterates(g))[1 .. n]
  <2> HIDE DEF n
  <2> QED  BY <1>1, AuthLoadUnfolds
<1> HIDE DEF D, n, Step
<1>4. \E g : Iterates(g)
  <2>1. step \in [D \X (1 .. n) -> D]
    BY <1>2
  <2>2. PICK g \in [SUBSET (1 .. n) -> D] : FoldsBy(g, n, <<>>, step)
    <3> HIDE DEF step
    <3> QED  BY <1>1, <2>1, FoldExists
  <2>3. ASSUME NEW s \in SUBSET (1 .. n), s # {}
        PROVE  g[s] = Step(g[s \ {Max(s)}], Max(s))
    <3>1. Max(s) \in 1 .. n
      BY <1>1, <2>3, MaxUpTo
    <3>2. g[s \ {Max(s)}] \in D
      BY <2>2
    <3> QED  BY <2>2, <2>3, <3>1, <3>2 DEF FoldsBy
  <2>4. g[{}] = <<>>
    BY <2>2 DEF FoldsBy
  <2> HIDE DEF step
  <2>5. g = [s \in SUBSET (1 .. n) |-> g[s]]
    BY <2>2
  <2>6. Iterates(g)
    BY <2>3, <2>4, <2>5
  <2> QED  BY <2>6
<1> DEFINE c == CHOOSE g : Iterates(g)
           dbs == [k \in 0 .. n |-> c[1 .. k]]
<1>5. Iterates(c)
  <2> HIDE DEF Iterates
  <2> QED  BY <1>4
<1> HIDE DEF c
<1>6. c[{}] = <<>> /\ \A s \in SUBSET (1 .. n) : s # {} =>
                          c[s] = Step(c[s \ {Max(s)}], Max(s))
  BY <1>5
<1>7. \A k \in 1 .. n : c[1 .. k] = Step(c[1 .. k - 1], k)
  BY <1>1, <1>6, Segments
<1>8. dbs[0] = <<>> /\ dbs[n] = c[1 .. n]
  BY <1>1, <1>6
<1>9. \A k \in 1 .. n : dbs[k] = Step(dbs[k - 1], k)
  BY <1>1, <1>7
<1> HIDE DEF dbs
<1> QED  BY <1>3, <1>8, <1>9 DEF Step, c, n

\* Where the entry of a name is that a lookup finds.
FirstOf(db, name, u) ==
    /\ u \in 1 .. Len(db) /\ db[u].name = name
    /\ \A i \in 1 .. u - 1 : db[i].name # name

LEMMA LookupFinds ==
    ASSUME NEW Rows, NEW db \in Seq(Rows), NEW name
    PROVE  \/ AuthLookup(db, name) = 0 /\ \A i \in 1 .. Len(db) : db[i].name # name
           \/ FirstOf(db, name, AuthLookup(db, name))
<1> DEFINE I == {i \in 1 .. Len(db) : db[i].name = name}
<1>1. AuthLookup(db, name) = IF I # {} THEN Min(I) ELSE 0
  BY DEF AuthLookup, SelectInSeq
<1>2. I \in SUBSET Nat /\ I \subseteq 1 .. Len(db) /\ Len(db) \in Nat
  OBVIOUS
<1>3. CASE I # {}
  <2>1. Min(I) \in I /\ \A i \in I : Min(I) <= i
    <3> HIDE DEF I
    <3> QED  BY <1>2, <1>3, MinNat
  <2> DEFINE u == Min(I)
  <2>2. u \in 1 .. Len(db) /\ db[u].name = name
    BY <2>1
  <2>3. \A i \in 1 .. u - 1 : i \in 1 .. Len(db) /\ ~(u <= i)
    BY <1>2, <2>2
  <2>4. \A i \in 1 .. u - 1 : db[i].name # name
    BY <2>1, <2>3
  <2> HIDE DEF u
  <2>5. FirstOf(db, name, u)
    BY <2>2, <2>4 DEF FirstOf
  <2> QED  BY <1>1, <1>3, <2>5 DEF u
<1>4. CASE I = {}
  BY <1>1, <1>4
<1> QED  BY <1>3, <1>4

\* The line of the name that counts among the first k.
LastOf(file, k, name, i) ==
    /\ i \in 1 .. k /\ Loadable(file[i]) /\ file[i].name = name
    /\ \A j \in i + 1 .. k : ~(Loadable(file[j]) /\ file[j].name = name)

\* What is loaded of the first k lines: of each name, the first entry is the last
\* line that can be loaded.
LoadedFrom(db, file, k) ==
    \A name :
        \/ /\ \A i \in 1 .. Len(db) : db[i].name # name
           /\ \A j \in 1 .. k : ~(Loadable(file[j]) /\ file[j].name = name)
        \/ \E u, i : /\ FirstOf(db, name, u) /\ LastOf(file, k, name, i)
                     /\ db[u] = file[i]

\* One line more.
LEMMA LoadedStep ==
    ASSUME NEW Rows, NEW file \in Seq(Rows), NEW k \in 1 .. Len(file),
           NEW db \in Seq(Rows), LoadedFrom(db, file, k - 1),
           NEW after, after = IF Loadable(file[k])
                              THEN PutFirst(db, file[k]) ELSE db
    PROVE  after \in Seq(Rows) /\ LoadedFrom(after, file, k)
<1> DEFINE line == file[k]
<1>1. line \in Rows /\ k \in Nat \ {0}
  OBVIOUS
<1>2. CASE ~Loadable(line)
  <2>1. after = db
    BY <1>2
  <2>2. \A j \in 1 .. k : j \in 1 .. k - 1 \/ j = k
    BY <1>1
  <2>3. ASSUME NEW name, NEW i, LastOf(file, k - 1, name, i)
        PROVE  LastOf(file, k, name, i)
    <3>1. i \in 1 .. k /\ \A j \in i + 1 .. k : j \in i + 1 .. k - 1 \/ j = k
      BY <1>1, <2>3 DEF LastOf
    <3> QED  BY <1>2, <2>3, <3>1 DEF LastOf
  <2>4. ASSUME NEW name, \A j \in 1 .. k - 1 :
                             ~(Loadable(file[j]) /\ file[j].name = name)
        PROVE  \A j \in 1 .. k : ~(Loadable(file[j]) /\ file[j].name = name)
    BY <1>2, <2>2, <2>4
  <2> HIDE DEF line
  <2>5. LoadedFrom(db, file, k)
    <3>1. ASSUME NEW name
          PROVE
          \/ /\ \A i \in 1 .. Len(db) : db[i].name # name
             /\ \A j \in 1 .. k : ~(Loadable(file[j]) /\ file[j].name = name)
          \/ \E u, i : /\ FirstOf(db, name, u) /\ LastOf(file, k, name, i)
                       /\ db[u] = file[i]
      <4>1. \/ /\ \A i \in 1 .. Len(db) : db[i].name # name
               /\ \A j \in 1 .. k - 1 : ~(Loadable(file[j]) /\ file[j].name = name)
            \/ \E u, i : /\ FirstOf(db, name, u) /\ LastOf(file, k - 1, name, i)
                         /\ db[u] = file[i]
        BY DEF LoadedFrom
      <4> QED  BY ONLY <2>3, <2>4, <4>1, Zenon
    <3> QED  BY <3>1 DEF LoadedFrom
  <2> QED  BY <2>1, <2>5
<1>3. CASE Loadable(line)
  <2>1. /\ after \in Seq(Rows) /\ Len(after) = Len(db) + 1 /\ after[1] = line
        /\ \A i \in 1 .. Len(db) : after[i + 1] = db[i]
    BY <1>1, <1>3 DEF PutFirst
  <2>2. Len(db) \in Nat
    OBVIOUS
  <2>3. ASSUME NEW name
        PROVE
        \/ /\ \A i \in 1 .. Len(after) : after[i].name # name
           /\ \A j \in 1 .. k : ~(Loadable(file[j]) /\ file[j].name = name)
        \/ \E u, i : /\ FirstOf(after, name, u) /\ LastOf(file, k, name, i)
                     /\ after[u] = file[i]
    <3>1. CASE line.name = name
      <4>1. FirstOf(after, name, 1)
        BY <2>1, <2>2, <3>1 DEF FirstOf
      <4>2. LastOf(file, k, name, k)
        BY <1>1, <1>3, <3>1 DEF LastOf
      <4> QED  BY <2>1, <4>1, <4>2
    <3>2. CASE line.name # name
      <4>1. \A i \in 1 .. Len(after) :
                i = 1 \/ (i - 1 \in 1 .. Len(db) /\ after[i] = db[i - 1])
        <5>1. ASSUME NEW i \in 1 .. Len(after), i # 1
              PROVE  i - 1 \in 1 .. Len(db) /\ after[i] = db[i - 1]
          <6>1. i - 1 \in 1 .. Len(db) /\ (i - 1) + 1 = i
            BY <2>1, <2>2, <5>1
          <6> QED  BY <2>1, <6>1
        <5> QED  BY <5>1
      <4>2. CASE /\ \A i \in 1 .. Len(db) : db[i].name # name
                 /\ \A j \in 1 .. k - 1 :
                      ~(Loadable(file[j]) /\ file[j].name = name)
        <5>1. \A j \in 1 .. k : j \in 1 .. k - 1 \/ j = k
          BY <1>1
        <5>2. \A i \in 1 .. Len(after) : after[i].name # name
          BY <2>1, <3>2, <4>1, <4>2
        <5> HIDE DEF line
        <5> QED  BY <3>2, <4>2, <5>1, <5>2 DEF line
      <4>3. ASSUME NEW u, NEW i, FirstOf(db, name, u),
                   LastOf(file, k - 1, name, i), db[u] = file[i]
            PROVE  /\ FirstOf(after, name, u + 1) /\ LastOf(file, k, name, i)
                   /\ after[u + 1] = file[i]
        <5>1. u \in 1 .. Len(db) /\ u + 1 \in 1 .. Len(after)
          BY <2>1, <2>2, <4>3 DEF FirstOf
        <5>2. \A j \in 1 .. (u + 1) - 1 : j = 1 \/ j - 1 \in 1 .. u - 1
          BY <2>2, <5>1
        <5>3. FirstOf(after, name, u + 1)
          <6>1. \A j \in 1 .. (u + 1) - 1 : j \in 1 .. Len(after)
            BY <2>1, <2>2, <5>1
          <6> QED  BY <2>1, <3>2, <4>1, <4>3, <5>1, <5>2, <6>1 DEF FirstOf
        <5>4. i \in 1 .. k /\ \A j \in i + 1 .. k : j \in i + 1 .. k - 1 \/ j = k
          BY <1>1, <4>3 DEF LastOf
        <5>5. LastOf(file, k, name, i)
          BY <3>2, <4>3, <5>4 DEF LastOf
        <5> QED  BY <2>1, <4>3, <5>1, <5>3, <5>5
      <4>4. \/ /\ \A i \in 1 .. Len(db) : db[i].name # name
               /\ \A j \in 1 .. k - 1 : ~(Loadable(file[j]) /\ file[j].name = name)
            \/ \E u, i : /\ FirstOf(db, name, u) /\ LastOf(file, k - 1, name, i)
                         /\ db[u] = file[i]
        BY DEF LoadedFrom
      <4> HIDE DEF line
      <4> QED  BY ONLY <4>2, <4>3, <4>4, Zenon
    <3> QED  BY <3>1, <3>2
  <2> HIDE DEF line
  <2> QED  BY <2>1, <2>3 DEF LoadedFrom
<1> QED  BY <1>2, <1>3


LEMMA LoadedWhole ==
    ASSUME NEW Rows, NEW file \in Seq(Rows)
    PROVE  /\ AuthLoad(file) \in Seq(Rows)
           /\ LoadedFrom(AuthLoad(file), file, Len(file))
<1> DEFINE n == Len(file)
<1>1. n \in Nat
  OBVIOUS
<1>2. PICK dbs :
         /\ dbs[0] = <<>>
         /\ \A k \in 1 .. n :
              dbs[k] = IF Loadable(file[k])
                       THEN PutFirst(dbs[k - 1], file[k]) ELSE dbs[k - 1]
         /\ AuthLoad(file) = dbs[n]
  BY AuthLoadSteps
<1> DEFINE G == {k \in 0 .. n : dbs[k] \in Seq(Rows) /\ LoadedFrom(dbs[k], file, k)}
<1>3. 0 \in G
  <2>1. <<>> \in Seq(Rows) /\ LoadedFrom(<<>>, file, 0)
    BY DEF LoadedFrom
  <2>2. dbs[0] \in Seq(Rows) /\ LoadedFrom(dbs[0], file, 0)
    <3>1. dbs[0] = <<>>
      BY <1>2
    <3> QED  BY <2>1, <3>1
  <2>3. 0 \in 0 .. n
    BY <1>1
  <2> QED  BY <2>2, <2>3
<1>4. ASSUME NEW k \in 0 .. n - 1, k \in G  PROVE k + 1 \in G
  <2>1. k + 1 \in 1 .. n /\ (k + 1) - 1 = k
    BY <1>1
  <2>2. dbs[k + 1] = IF Loadable(file[k + 1])
                     THEN PutFirst(dbs[k], file[k + 1]) ELSE dbs[k]
    BY <1>2, <2>1
  <2>3. LoadedFrom(dbs[k], file, (k + 1) - 1) /\ dbs[k] \in Seq(Rows)
    BY <1>4, <2>1
  <2>4. dbs[k + 1] \in Seq(Rows) /\ LoadedFrom(dbs[k + 1], file, k + 1)
    <3> DEFINE l == k + 1
               after == dbs[k + 1]
               before == dbs[k]
    <3>1. /\ l \in 1 .. Len(file) /\ before \in Seq(Rows)
          /\ LoadedFrom(before, file, l - 1)
          /\ after = IF Loadable(file[l])
                     THEN PutFirst(before, file[l]) ELSE before
      BY <2>1, <2>2, <2>3
    <3> HIDE DEF l, after, before
    <3>2. after \in Seq(Rows) /\ LoadedFrom(after, file, l)
      BY <3>1, LoadedStep
    <3> QED  BY <3>2 DEF after, l
  <2> QED  BY <2>1, <2>4
<1>5. n \in G
  <2> HIDE DEF G, n
  <2>1. 0 .. n \subseteq G
    BY <1>1, <1>3, <1>4, UpTo
  <2> QED  BY <1>1, <2>1
<1> QED  BY <1>2, <1>5

\* One file, one name.
LEMMA LoginIsSound ==
    ASSUME NEW Rows, NEW file \in Seq(Rows), NEW name
    PROVE  LoginReply(AuthLoad(file), name) = "balance" <=> LetIn(file, name)
<1> DEFINE db == AuthLoad(file)
           user == AuthLookup(db, name)
           n == Len(file)
<1>1. /\ db \in Seq(Rows) /\ LoadedFrom(db, file, n)
      /\ n \in Nat /\ DOMAIN file = 1 .. n
  BY LoadedWhole
<1>2. \/ user = 0 /\ \A i \in 1 .. Len(db) : db[i].name # name
      \/ FirstOf(db, name, user)
  BY <1>1, LookupFinds
<1>3. LoginReply(db, name) = "balance" <=>
          name \in ValidNames /\ user # 0 /\ ~(db[user].balance <= 0)
  BY DEF LoginReply
<1> HIDE DEF db, user
<1>4. CASE /\ \A i \in 1 .. Len(db) : db[i].name # name
           /\ \A j \in 1 .. n : ~(Loadable(file[j]) /\ file[j].name = name)
  <2>1. user = 0
    BY <1>2, <1>4 DEF FirstOf
  <2>2. ~LetIn(file, name)
    BY <1>1, <1>4 DEF LetIn
  <2> QED  BY <1>3, <2>1, <2>2 DEF db
<1>5. ASSUME NEW u, NEW i, FirstOf(db, name, u), LastOf(file, n, name, i),
             db[u] = file[i]
      PROVE  LoginReply(db, name) = "balance" <=> LetIn(file, name)
  <2>1. user = u /\ u # 0
    <3>1. Len(db) \in Nat /\ u \in 1 .. Len(db) /\ db[u].name = name
      BY <1>1, <1>5 DEF FirstOf
    <3>2. FirstOf(db, name, user)
      BY <1>2, <3>1
    <3> QED  BY <1>5, <3>1, <3>2 DEF FirstOf
  <2>2. /\ Loadable(file[i]) /\ file[i].name = name /\ i \in 1 .. n
        /\ \A j \in i + 1 .. n : ~(Loadable(file[j]) /\ file[j].name = name)
    BY <1>5 DEF LastOf
  <2>3. name \in ValidNames /\ file[i].balance \in Int
    BY <2>2 DEF Loadable
  <2>4. LetIn(file, name) <=> file[i].balance > 0
    <3>1. ASSUME NEW j \in 1 .. n, Loadable(file[j]), file[j].name = name,
                 \A k \in j + 1 .. n : ~(Loadable(file[k]) /\ file[k].name = name)
          PROVE  j = i
      BY <1>1, <2>2, <3>1
    <3> QED  BY <1>1, <2>2, <3>1 DEF LetIn
  <2> QED  BY <1>3, <1>5, <2>1, <2>3, <2>4
<1>6. \/ /\ \A i \in 1 .. Len(db) : db[i].name # name
         /\ \A j \in 1 .. n : ~(Loadable(file[j]) /\ file[j].name = name)
      \/ \E u, i : /\ FirstOf(db, name, u) /\ LastOf(file, n, name, i)
                   /\ db[u] = file[i]
  BY <1>1 DEF LoadedFrom
<1> QED  BY <1>4, <1>5, <1>6 DEF db

\* A login succeeds exactly if the last line that can be loaded for the name has
\* a positive balance, whatever lines surround it (auth.c, auth_load).
THEOREM LoginsTheorem == Spec => []LoginsSound
<1>1. \A file \in Files : file \in Seq(FileLines)
  BY DEF Files
<1>2. LoginsSound
  BY <1>1, LoginIsSound DEF LoginsSound
<1> QED  BY <1>2, PTL

-----------------------------------------------------------------------------
(* Sequences.                                                              *)

\* What is appended to a sequence does not change its parts.
LEMMA SameSubSeq ==
    ASSUME NEW C, NEW x \in Seq(C), NEW y \in Seq(C),
           NEW i \in 1 .. Len(x), NEW j \in i .. Len(x), Len(x) <= Len(y),
           \A k \in 1 .. Len(x) : y[k] = x[k]
    PROVE  SubSeq(y, i, j) = SubSeq(x, i, j)
<1>1. /\ \A k \in i .. j : x[k] \in C /\ y[k] \in C
      /\ \A k \in 1 .. j - i + 1 : y[i + k - 1] = x[i + k - 1]
  <2>1. Len(x) \in Nat /\ Len(y) \in Nat
    OBVIOUS
  <2>2. \A k \in i .. j : k \in 1 .. Len(x) /\ k \in 1 .. Len(y)
    BY <2>1
  <2>3. \A k \in 1 .. j - i + 1 : i + k - 1 \in 1 .. Len(x)
    BY <2>1
  <2> QED  BY <2>2, <2>3
<1>2. /\ SubSeq(x, i, j) \in Seq(C) /\ SubSeq(y, i, j) \in Seq(C)
      /\ Len(SubSeq(x, i, j)) = IF i <= j THEN j - i + 1 ELSE 0
      /\ Len(SubSeq(y, i, j)) = IF i <= j THEN j - i + 1 ELSE 0
      /\ \A k \in 1 .. j - i + 1 : SubSeq(x, i, j)[k] = x[i + k - 1]
      /\ \A k \in 1 .. j - i + 1 : SubSeq(y, i, j)[k] = y[i + k - 1]
  BY <1>1, SubSeqProperties
<1>3. i <= j /\ j - i + 1 \in Nat
  OBVIOUS
<1> DEFINE s == SubSeq(x, i, j)
           t == SubSeq(y, i, j)
<1>4. /\ s \in Seq(C) /\ t \in Seq(C) /\ Len(s) = Len(t)
      /\ \A k \in 1 .. Len(t) : t[k] = s[k]
  BY <1>1, <1>2, <1>3
<1> HIDE DEF s, t
<1>5. t = s
  BY <1>4, SeqEqual
<1> QED  BY <1>5 DEF s, t

\* A name for \o that hides how the provers read it.
Join(front, back) == front \o back

LEMMA JoinGroups ==
    ASSUME NEW D, NEW p, NEW q, NEW r, p \in Seq(D), q \in Seq(D), r \in Seq(D)
    PROVE  Join(Join(p, q), r) = Join(p, Join(q, r))
<1>1. (p \o q) \o r = p \o (q \o r)
  BY ConcatAssociative, SMT
<1> QED  BY <1>1 DEF Join

LEMMA ConcatAppend ==
    ASSUME NEW D, NEW s \in Seq(D), NEW t \in Seq(D), NEW d \in D
    PROVE  s \o Append(t, d) = Append(s \o t, d)
<1>1. <<d>> \in Seq(D)
  OBVIOUS
<1>2. Append(t, d) = t \o <<d>>
  BY AppendIsConcat
<1>3. s \o (t \o <<d>>) = (s \o t) \o <<d>>
  BY <1>1, ConcatAssociative
<1>4. (s \o t) \o <<d>> = Append(s \o t, d)
  <2>1. s \o t \in Seq(D)
    BY ConcatProperties
  <2> QED  BY <2>1, AppendIsConcat
<1> QED  BY <1>2, <1>3, <1>4

-----------------------------------------------------------------------------
(* Where the newlines of a buffer are: the only list of them in order.     *)

\* e lists the numbers in S in increasing order.
Enumerates(e, S) ==
    /\ e \in [1 .. Cardinality(S) -> S]
    /\ \A j, k \in DOMAIN e : j < k => e[j] < e[k]

NewlinesIn(x) == {i \in DOMAIN x : x[i] = Newline}

\* A finite set of numbers can be listed in order, and in one way only.
LEMMA EnumerationExists ==
    ASSUME NEW n \in Nat, NEW S \in SUBSET (1 .. n)
    PROVE  \E e : Enumerates(e, S)
<1> DEFINE G == {m \in 0 .. n : \A U \in SUBSET (1 .. m) : \E e : Enumerates(e, U)}
<1>1. 0 \in G
  <2>1. Enumerates(<<>>, {})
    BY FS_EmptySet DEF Enumerates
  <2>2. \A U \in SUBSET (1 .. 0) : U = {}
    OBVIOUS
  <2>3. \A U \in SUBSET (1 .. 0) : \E e : Enumerates(e, U)
    BY <2>1, <2>2
  <2>4. 0 \in 0 .. n
    OBVIOUS
  <2> QED  BY <2>3, <2>4
<1>2. ASSUME NEW m \in 0 .. n - 1, m \in G  PROVE m + 1 \in G
  <2>1. ASSUME NEW U \in SUBSET (1 .. m + 1)  PROVE \E e : Enumerates(e, U)
    <3> DEFINE V == U \ {m + 1}
    <3>1. V \in SUBSET (1 .. m)
      OBVIOUS
    <3>2. PICK e : Enumerates(e, V)
      BY <1>2, <3>1
    <3>3. CASE m + 1 \notin U
      <4>1. V = U
        BY <3>3
      <4> QED  BY <3>2, <4>1
    <3>4. CASE m + 1 \in U
      <4> DEFINE c == Cardinality(V)
                 f == [k \in 1 .. c + 1 |-> IF k = c + 1 THEN m + 1 ELSE e[k]]
      <4>1. IsFiniteSet(V) /\ c \in Nat
        <5>1. IsFiniteSet(1 .. m)
          BY FS_Interval
        <5> QED  BY <3>1, <5>1, FS_Subset, FS_CardinalityType
      <4>2. U = V \cup {m + 1} /\ Cardinality(U) = c + 1
        <5>1. U = V \cup {m + 1} /\ m + 1 \notin V
          BY <3>4
        <5> HIDE DEF V
        <5> QED  BY <4>1, <5>1, FS_AddElement
      <4>3. /\ e \in [1 .. c -> V]
            /\ \A j, k \in 1 .. c : j < k => e[j] < e[k]
        BY <3>2 DEF Enumerates
      <4> HIDE DEF c, V
      <4>4. f \in [1 .. c + 1 -> U]
        BY <4>1, <4>2, <4>3
      <4>5. ASSUME NEW j \in 1 .. c + 1, NEW k \in 1 .. c + 1, j < k
            PROVE  f[j] < f[k]
        <5>1. j \in 1 .. c /\ f[j] = e[j]
          BY <4>1, <4>5
        <5>2. e[j] \in 1 .. m
          BY <3>1, <4>3, <5>1
        <5>3. CASE k = c + 1
          BY <5>1, <5>2, <5>3
        <5>4. CASE k # c + 1
          BY <4>1, <4>3, <4>5, <5>1, <5>4
        <5> QED  BY <5>3, <5>4
      <4> HIDE DEF f
      <4>6. Enumerates(f, U)
        BY <4>2, <4>4, <4>5 DEF Enumerates
      <4> QED  BY <4>6
    <3> QED  BY <3>3, <3>4
  <2> QED  BY <2>1
<1>3. 0 .. n \subseteq G
  <2> HIDE DEF G
  <2> QED  BY <1>1, <1>2, UpTo
<1> QED  BY <1>3

\* Whatever lists S lists all of it.
LEMMA EnumerationOnto ==
    ASSUME NEW n \in Nat, NEW S \in SUBSET (1 .. n), NEW g, Enumerates(g, S)
    PROVE  LET c == Cardinality(S) IN
           /\ c \in Nat
           /\ g \in [1 .. c -> S]
           /\ \A j, k \in 1 .. c : j < k => g[j] < g[k]
           /\ \A s \in S : \E j \in 1 .. c : g[j] = s
<1> DEFINE c == Cardinality(S)
<1>1. IsFiniteSet(S) /\ c \in Nat
  <2>1. IsFiniteSet(1 .. n)
    BY FS_Interval
  <2> QED  BY <2>1, FS_Subset, FS_CardinalityType
<1> HIDE DEF c
<1>2. g \in [1 .. c -> S] /\ \A j, k \in 1 .. c : j < k => g[j] < g[k]
  BY DEF Enumerates, c
<1>3. ASSUME NEW j \in 1 .. c, NEW k \in 1 .. c, g[j] = g[k]  PROVE j = k
  <2>1. g[j] \in Int
    <3>1. S \subseteq Int /\ g[j] \in S
      BY <1>2
    <3> QED  BY <3>1
  <2>2. ~(j < k) /\ ~(k < j)
    BY <1>2, <1>3, <2>1
  <2> QED  BY <2>2
<1>4. g \in Injection(1 .. c, S)
  BY <1>2, <1>3 DEF Injection, IsInjective
<1>5. IsFiniteSet(1 .. c) /\ Cardinality(1 .. c) = c
  BY <1>1, FS_Interval
<1>6. g \in Surjection(1 .. c, S)
  BY <1>1, <1>4, <1>5, FS_Injection DEF c
<1> QED  BY <1>1, <1>2, <1>6 DEF Surjection, c

LEMMA EnumerationUnique ==
    ASSUME NEW n \in Nat, NEW S \in SUBSET (1 .. n),
           NEW e, Enumerates(e, S), NEW f, Enumerates(f, S)
    PROVE  e = f
<1> DEFINE c == Cardinality(S)
<1>1. c \in Nat
  BY EnumerationOnto
<1>2. ASSUME NEW g, Enumerates(g, S)
      PROVE  /\ g \in [1 .. c -> S]
             /\ \A j, k \in 1 .. c : j < k => g[j] < g[k]
             /\ \A s \in S : \E j \in 1 .. c : g[j] = s
  BY <1>2, EnumerationOnto
<1> HIDE DEF c
<1> DEFINE T == {k \in 1 .. c : e[k] # f[k]}
<1>3. SUFFICES ASSUME e # f  PROVE FALSE
  OBVIOUS
<1>4. T # {}
  <2>1. e \in [1 .. c -> S]
    BY <1>2
  <2>2. f \in [1 .. c -> S]
    BY <1>2
  <2>3. ASSUME T = {}  PROVE \A k \in 1 .. c : e[k] = f[k]
    BY <2>3
  <2>4. e = [k \in 1 .. c |-> e[k]]
    BY <2>1
  <2>5. f = [k \in 1 .. c |-> f[k]]
    BY <2>2
  <2> HIDE DEF T
  <2> QED  BY <1>3, <2>3, <2>4, <2>5
<1>5. PICK k \in T : \A j \in T : k <= j
  <2>1. T \in SUBSET Nat
    OBVIOUS
  <2> HIDE DEF T
  <2> QED  BY <1>4, <2>1, LeastNat
<1>6. ASSUME NEW g, NEW h, Enumerates(g, S), Enumerates(h, S), g[k] < h[k],
             \A j \in 1 .. k - 1 : g[j] = h[j]
      PROVE  FALSE
  <2>1. k \in 1 .. c /\ g[k] \in S
    BY <1>2, <1>6
  <2>2. PICK j \in 1 .. c : h[j] = g[k]
    BY <1>2, <1>6, <2>1
  <2>3. g[j] \in Int /\ h[j] \in Int /\ g[k] \in Int /\ h[k] \in Int
    <3>1. S \subseteq Int
      OBVIOUS
    <3> QED  BY <1>2, <1>6, <2>1, <3>1
  <2>4. CASE j < k
    <3>1. g[j] = h[j]
      BY <1>6, <2>1, <2>4
    <3>2. g[j] < g[k]
      BY <1>2, <1>6, <2>1, <2>4
    <3> QED  BY <2>2, <2>3, <3>1, <3>2
  <2>5. CASE ~(j < k)
    <3>1. j = k \/ h[k] < h[j]
      BY <1>2, <1>6, <2>1, <2>5
    <3> QED  BY <1>6, <2>2, <2>3, <3>1
  <2> QED  BY <2>4, <2>5
<1>7. k \in 1 .. c /\ e[k] # f[k]
  OBVIOUS
<1>8. \A j \in 1 .. k - 1 : e[j] = f[j]
  <2>1. \A j \in 1 .. k - 1 : j \in 1 .. c /\ ~(k <= j)
    BY <1>1, <1>7
  <2> QED  BY <1>5, <2>1
<1>9. e[k] \in Int /\ f[k] \in Int
  <2>1. S \subseteq Int
    OBVIOUS
  <2> QED  BY <1>2, <1>7, <2>1
<1>10. e[k] < f[k] \/ f[k] < e[k]
  BY <1>7, <1>9
<1> HIDE DEF T
<1> QED  BY <1>6, <1>8, <1>10

LEMMA NewlinesSound ==
    ASSUME NEW C, NEW x \in Seq(C)
    PROVE  /\ Enumerates(Newlines(x), NewlinesIn(x))
           /\ \A e : Enumerates(e, NewlinesIn(x)) => Newlines(x) = e
<1> DEFINE at == NewlinesIn(x)
           stops == Newlines(x)
<1>1. Len(x) \in Nat /\ at \in SUBSET (1 .. Len(x))
  BY DEF NewlinesIn
<1>2. stops = CHOOSE e \in [1 .. Cardinality(at) -> at] :
                 \A j, k \in DOMAIN e : j < k => e[j] < e[k]
  BY DEF Newlines, NewlinesIn
<1> HIDE DEF stops
<1>3. PICK e : Enumerates(e, at)
  BY <1>1, EnumerationExists
<1> HIDE DEF at
<1>4. \E f \in [1 .. Cardinality(at) -> at] :
          \A j, k \in DOMAIN f : j < k => f[j] < f[k]
  BY <1>3 DEF Enumerates
<1>5. Enumerates(stops, at)
  BY <1>2, <1>4 DEF Enumerates
<1>6. \A f : Enumerates(f, at) => stops = f
  BY <1>1, <1>5, EnumerationUnique
<1> QED  BY <1>5, <1>6 DEF stops, at

LEMMA NewlinesTyped ==
    ASSUME NEW C, NEW x \in Seq(C)
    PROVE  /\ Newlines(x) \in Seq(1 .. Len(x))
           /\ Len(Newlines(x)) = Cardinality(NewlinesIn(x))
           /\ \A j, k \in 1 .. Len(Newlines(x)) :
                  j < k => Newlines(x)[j] < Newlines(x)[k]
           /\ \A i \in 1 .. Len(x) : x[i] = Newline =>
                  \E j \in 1 .. Len(Newlines(x)) : Newlines(x)[j] = i
<1> DEFINE at == NewlinesIn(x)
           stops == Newlines(x)
           c == Cardinality(at)
<1>1. Len(x) \in Nat /\ at \in SUBSET (1 .. Len(x))
  BY DEF NewlinesIn
<1>2. IsFiniteSet(at) /\ c \in Nat
  <2>1. IsFiniteSet(1 .. Len(x))
    BY <1>1, FS_Interval
  <2> HIDE DEF at
  <2> QED  BY <1>1, <2>1, FS_Subset, FS_CardinalityType
<1>3. /\ stops \in [1 .. c -> at]
      /\ \A j, k \in 1 .. c : j < k => stops[j] < stops[k]
      /\ \A i \in at : \E j \in 1 .. c : stops[j] = i
  <2>1. Enumerates(stops, at)
    BY NewlinesSound
  <2> HIDE DEF stops, at
  <2> QED  BY <1>1, <2>1, EnumerationOnto
<1> HIDE DEF c, stops
<1>4. stops \in [1 .. c -> 1 .. Len(x)]
  BY <1>1, <1>3
<1>5. stops \in Seq(1 .. Len(x)) /\ Len(stops) = c
  BY <1>2, <1>4
<1>6. \A i \in 1 .. Len(x) : x[i] = Newline => i \in at
  BY DEF NewlinesIn
<1> HIDE DEF at
<1> QED  BY <1>3, <1>5, <1>6 DEF c, stops, at

\* One character more adds itself to the list if it is a newline.
LEMMA NewlinesAppend ==
    ASSUME NEW C, NEW x \in Seq(C), NEW ch \in C
    PROVE  Newlines(Append(x, ch)) =
             IF ch = Newline THEN Append(Newlines(x), Len(x) + 1) ELSE Newlines(x)
<1> DEFINE y == Append(x, ch)
           n == Len(x)
           stops == Newlines(x)
           c == Len(stops)
<1>1. /\ y \in Seq(C) /\ Len(y) = n + 1 /\ y[n + 1] = ch /\ n \in Nat
      /\ \A i \in 1 .. n : y[i] = x[i]
  OBVIOUS
<1>2. /\ stops \in Seq(1 .. n) /\ c \in Nat /\ c = Cardinality(NewlinesIn(x))
      /\ \A j, k \in 1 .. c : j < k => stops[j] < stops[k]
      /\ \A j \in 1 .. c : stops[j] \in NewlinesIn(x)
  <2>1. /\ stops \in Seq(1 .. n) /\ c = Cardinality(NewlinesIn(x))
        /\ \A j, k \in 1 .. c : j < k => stops[j] < stops[k]
    BY NewlinesTyped
  <2>2. stops \in [1 .. Cardinality(NewlinesIn(x)) -> NewlinesIn(x)]
    BY NewlinesSound DEF Enumerates
  <2> HIDE DEF stops
  <2> QED  BY <2>1, <2>2
<1>3. NewlinesIn(y) = IF ch = Newline THEN NewlinesIn(x) \cup {n + 1}
                      ELSE NewlinesIn(x)
  <2>1. DOMAIN y = 1 .. n + 1 /\ DOMAIN x = 1 .. n
    BY <1>1
  <2>2. \A i : i \in 1 .. n + 1 <=> i \in 1 .. n \/ i = n + 1
    BY <1>1
  <2> HIDE DEF y, n
  <2> QED  BY <1>1, <2>1, <2>2 DEF NewlinesIn
<1>4. \A e : Enumerates(e, NewlinesIn(y)) => Newlines(y) = e
  BY <1>1, NewlinesSound
<1> HIDE DEF y, stops
<1>5. CASE ch # Newline
  <2>1. Enumerates(stops, NewlinesIn(x))
    BY NewlinesSound DEF stops
  <2> QED  BY <1>3, <1>4, <1>5, <2>1 DEF y, stops
<1>6. CASE ch = Newline
  <2> DEFINE e == Append(stops, n + 1)
  <2>1. n + 1 \notin NewlinesIn(x) /\ NewlinesIn(x) \subseteq 1 .. n
    BY <1>1 DEF NewlinesIn
  <2>2. Cardinality(NewlinesIn(y)) = c + 1
    <3>1. IsFiniteSet(1 .. n)
      BY <1>1, FS_Interval
    <3>2. IsFiniteSet(NewlinesIn(x))
      BY <2>1, <3>1, FS_Subset
    <3>3. Cardinality(NewlinesIn(x) \cup {n + 1}) = Cardinality(NewlinesIn(x)) + 1
      BY <2>1, <3>2, FS_AddElement
    <3>4. /\ c = Cardinality(NewlinesIn(x))
          /\ NewlinesIn(y) = NewlinesIn(x) \cup {n + 1}
      BY <1>2, <1>3, <1>6
    <3> HIDE DEF c
    <3> QED  BY <3>3, <3>4
  <2>3. /\ DOMAIN e = 1 .. c + 1 /\ e[c + 1] = n + 1
        /\ e = [j \in 1 .. c + 1 |-> e[j]]
        /\ \A j \in 1 .. c : e[j] = stops[j] /\ stops[j] \in 1 .. n
    <3>1. stops \in Seq(Nat) /\ n + 1 \in Nat
      BY <1>1, <1>2
    <3>2. /\ e \in Seq(Nat) /\ Len(e) = c + 1 /\ e[c + 1] = n + 1
          /\ \A j \in 1 .. c : e[j] = stops[j]
      BY <3>1, AppendProperties
    <3>3. \A j \in 1 .. c : stops[j] \in 1 .. n
      BY <1>2
    <3> HIDE DEF e
    <3> QED  BY <3>2, <3>3
  <2> HIDE DEF e, c
  <2>4. \A j \in 1 .. c + 1 : j \in 1 .. c \/ j = c + 1
    BY <1>2
  <2>5. e \in [1 .. c + 1 -> NewlinesIn(y)]
    BY <1>2, <1>3, <1>6, <2>3, <2>4
  <2>6. ASSUME NEW j \in 1 .. c + 1, NEW k \in 1 .. c + 1, j < k
        PROVE  e[j] < e[k]
    <3>1. j \in 1 .. c
      BY <1>2, <2>6
    <3>2. e[j] = stops[j] /\ stops[j] \in 1 .. n
      BY <2>3, <3>1
    <3>3. CASE k = c + 1
      BY <1>1, <2>3, <3>2, <3>3
    <3>4. CASE k \in 1 .. c
      <4>1. e[k] = stops[k] /\ stops[j] < stops[k]
        BY <1>2, <2>3, <2>6, <3>1, <3>4
      <4> QED  BY <3>2, <4>1
    <3> QED  BY <2>4, <3>3, <3>4
  <2>7. Enumerates(e, NewlinesIn(y))
    BY <2>2, <2>3, <2>5, <2>6 DEF Enumerates
  <2> QED  BY <1>4, <1>6, <2>7 DEF e, y, stops
<1> QED  BY <1>5, <1>6

-----------------------------------------------------------------------------
(* How a buffer is cut.                                                    *)

\* What process_buffered_lines finds in a buffer: its lines and what is left.
LinesOf(x) ==
    [k \in DOMAIN Newlines(x) |->
        SubSeq(x, LineStart(Newlines(x), k), Newlines(x)[k])]
RestOf(x) == SubSeq(x, LineStart(Newlines(x), Len(Newlines(x)) + 1), Len(x))

LEMMA CutUnfolds ==
    ASSUME NEW x
    PROVE  ProcessBufferedLines(x) =
             IF BufferFull(RestOf(x))
             THEN [lines |-> Append(LinesOf(x), RestOf(x)), rest |-> <<>>]
             ELSE [lines |-> LinesOf(x), rest |-> RestOf(x)]
BY DEF ProcessBufferedLines, LinesOf, RestOf

LEMMA LinesTyped ==
    ASSUME NEW C, NEW x \in Seq(C)
    PROVE  LET stops == Newlines(x)
               c    == Len(stops) IN
           /\ stops \in Seq(1 .. Len(x)) /\ c \in Nat
           /\ \A k \in 1 .. c : LineStart(stops, k) \in 1 .. stops[k]
           /\ LineStart(stops, c + 1) \in 1 .. Len(x) + 1
           /\ LinesOf(x) \in Seq(Seq(C)) /\ Len(LinesOf(x)) = c
           /\ RestOf(x) \in Seq(C)
           /\ Len(RestOf(x)) = Len(x) + 1 - LineStart(stops, c + 1)
<1> DEFINE stops == Newlines(x)
           c == Len(stops)
           n == Len(x)
<1>1. /\ stops \in Seq(1 .. n) /\ c \in Nat /\ n \in Nat
      /\ \A j, k \in 1 .. c : j < k => stops[j] < stops[k]
  BY NewlinesTyped
<1> HIDE DEF stops
<1>2. \A k \in 1 .. c : stops[k] \in 1 .. n
  BY <1>1
<1>3. ASSUME NEW k \in 1 .. c  PROVE LineStart(stops, k) \in 1 .. stops[k]
  <2>1. CASE k = 1
    BY <1>1, <1>2, <2>1 DEF LineStart
  <2>2. CASE k # 1
    <3>1. k - 1 \in 1 .. c /\ k - 1 < k
      BY <1>1, <2>2
    <3>2. stops[k - 1] < stops[k] /\ stops[k - 1] \in 1 .. n /\ stops[k] \in 1 .. n
      BY <1>1, <1>2, <3>1
    <3> QED  BY <2>2, <3>2 DEF LineStart
  <2> QED  BY <2>1, <2>2
<1>4. LineStart(stops, c + 1) \in 1 .. n + 1
  <2>1. CASE c = 0
    BY <1>1, <2>1 DEF LineStart
  <2>2. CASE c # 0
    <3>1. c \in 1 .. c /\ (c + 1) - 1 = c /\ c + 1 # 1
      BY <1>1, <2>2
    <3>2. stops[c] \in 1 .. n
      BY <1>2, <3>1
    <3>3. LineStart(stops, c + 1) = stops[c] + 1
      BY <3>1 DEF LineStart
    <3> HIDE DEF c
    <3> QED  BY <1>1, <3>2, <3>3
  <2> QED  BY <2>1, <2>2
<1>5. LinesOf(x) \in Seq(Seq(C)) /\ Len(LinesOf(x)) = c
  <2>1. ASSUME NEW k \in 1 .. c
        PROVE  SubSeq(x, LineStart(stops, k), stops[k]) \in Seq(C)
    <3>1. stops[k] \in 1 .. n /\ LineStart(stops, k) \in 1 .. stops[k]
      BY <1>2, <1>3
    <3>2. \A i \in LineStart(stops, k) .. stops[k] : x[i] \in C
      BY <1>1, <3>1
    <3> QED  BY <3>1, <3>2, SubSeqProperties
  <2>2. LinesOf(x) = [k \in 1 .. c |-> SubSeq(x, LineStart(stops, k), stops[k])]
    BY <1>1 DEF LinesOf, stops
  <2> QED  BY <1>1, <2>1, <2>2
<1>6. /\ RestOf(x) \in Seq(C)
      /\ Len(RestOf(x)) = n + 1 - LineStart(stops, c + 1)
  <2> DEFINE first == LineStart(stops, c + 1)
  <2>1. RestOf(x) = SubSeq(x, first, n)
    BY DEF RestOf, stops
  <2>2. first \in 1 .. n + 1
    BY <1>4
  <2> HIDE DEF first
  <2>3. \A i \in first .. n : x[i] \in C
    BY <1>1, <2>2
  <2>4. /\ SubSeq(x, first, n) \in Seq(C)
        /\ Len(SubSeq(x, first, n)) = IF first <= n THEN n - first + 1 ELSE 0
    BY <1>1, <2>2, <2>3, SubSeqProperties
  <2>5. Len(RestOf(x)) = n + 1 - first
    BY <1>1, <2>1, <2>2, <2>4
  <2> QED  BY <2>1, <2>4, <2>5 DEF first
<1> QED  BY <1>1, <1>3, <1>4, <1>5, <1>6 DEF stops

\* One character more ends a line or is left with the rest.
LEMMA CutAppend ==
    ASSUME NEW C, NEW x \in Seq(C), NEW ch \in C
    PROVE  /\ LinesOf(Append(x, ch)) =
                 IF ch = Newline THEN Append(LinesOf(x), Append(RestOf(x), ch))
                 ELSE LinesOf(x)
           /\ RestOf(Append(x, ch)) =
                 IF ch = Newline THEN <<>> ELSE Append(RestOf(x), ch)
<1> DEFINE y == Append(x, ch)
           n == Len(x)
           stops == Newlines(x)
           after == Newlines(y)
           c == Len(stops)
           first == LineStart(stops, c + 1)
<1>1. /\ y \in Seq(C) /\ Len(y) = n + 1 /\ y[n + 1] = ch /\ n \in Nat
      /\ \A i \in 1 .. n : y[i] = x[i] /\ x[i] \in C
  BY AppendProperties
<1>2. /\ stops \in Seq(1 .. n) /\ c \in Nat /\ first \in 1 .. n + 1
      /\ \A k \in 1 .. c : LineStart(stops, k) \in 1 .. stops[k]
      /\ LinesOf(x) \in Seq(Seq(C)) /\ Len(LinesOf(x)) = c
      /\ RestOf(x) \in Seq(C) /\ Len(RestOf(x)) = n + 1 - first
  BY LinesTyped
<1>3. after = IF ch = Newline THEN Append(stops, n + 1) ELSE stops
  BY NewlinesAppend
<1>4. /\ LinesOf(x) = [k \in 1 .. c |-> SubSeq(x, LineStart(stops, k), stops[k])]
      /\ LinesOf(y) = [k \in DOMAIN after |->
                          SubSeq(y, LineStart(after, k), after[k])]
      /\ RestOf(x) = SubSeq(x, first, n)
      /\ RestOf(y) = SubSeq(y, LineStart(after, Len(after) + 1), n + 1)
  BY <1>1, <1>2 DEF LinesOf, RestOf
<1>5. \A k \in 1 .. c : stops[k] \in 1 .. n
  BY <1>2
<1> HIDE DEF y, stops, after, first
\* The lines there were are still there.
<1>6. ASSUME NEW k \in 1 .. c
      PROVE  SubSeq(y, LineStart(stops, k), stops[k]) =
                 SubSeq(x, LineStart(stops, k), stops[k])
  <2> DEFINE i == LineStart(stops, k)
             j == stops[k]
  <2>1. i \in 1 .. n /\ j \in i .. n
    BY <1>1, <1>2, <1>5
  <2>2. Len(x) <= Len(y) /\ \A l \in 1 .. Len(x) : y[l] = x[l]
    BY <1>1
  <2> HIDE DEF i, j
  <2>3. SubSeq(y, i, j) = SubSeq(x, i, j)
    BY <1>1, <2>1, <2>2, SameSubSeq
  <2> QED  BY <2>3 DEF i, j
\* The rest, with the character.
<1>7. SubSeq(y, first, n + 1) = Append(RestOf(x), ch)
  <2>1. first \in 1 .. Len(y) /\ n + 1 \in first .. Len(y)
    BY <1>1, <1>2
  <2>2. SubSeq(y, first, n + 1) = SubSeq(y, first, (n + 1) - 1) \o <<y[n + 1]>>
    BY <1>1, <2>1, SubSeqRecursiveSecond
  <2>3. SubSeq(y, first, n) = SubSeq(x, first, n)
    <3>1. CASE first = n + 1
      BY <1>1, <3>1, SubSeqEmpty
    <3>2. CASE first # n + 1
      <4>1. first \in 1 .. n /\ n \in first .. n
        BY <1>1, <1>2, <3>2
      <4> QED  BY <1>1, <4>1, SameSubSeq
    <3> QED  BY <3>1, <3>2
  <2>4. (n + 1) - 1 = n
    BY <1>1
  <2>5. SubSeq(y, first, n + 1) = RestOf(x) \o <<ch>>
    BY <1>1, <1>4, <2>2, <2>3, <2>4
  <2> QED  BY <1>2, <2>5, AppendIsConcat
<1>8. CASE ch # Newline
  <2>1. after = stops /\ DOMAIN stops = 1 .. c
    BY <1>2, <1>3, <1>8
  <2>2. LinesOf(y) = LinesOf(x)
    BY <1>4, <1>6, <2>1
  <2>3. RestOf(y) = Append(RestOf(x), ch)
    BY <1>4, <1>7, <2>1 DEF first
  <2> QED  BY <1>8, <2>2, <2>3 DEF y
<1>9. CASE ch = Newline
  <2>1. after = Append(stops, n + 1)
    BY <1>3, <1>9
  <2>2. /\ after \in Seq(1 .. n + 1) /\ Len(after) = c + 1 /\ after[c + 1] = n + 1
        /\ \A k \in 1 .. c : after[k] = stops[k]
        /\ DOMAIN after = 1 .. c + 1
    <3>1. stops \in Seq(1 .. n + 1) /\ n + 1 \in 1 .. n + 1
      BY <1>1, <1>2, SeqMonotonic
    <3> QED  BY <2>1, <3>1, AppendProperties, LenProperties
  <2>3. \A k \in 1 .. c + 1 : LineStart(after, k) = LineStart(stops, k)
    <3>1. ASSUME NEW k \in 1 .. c + 1, k # 1  PROVE after[k - 1] = stops[k - 1]
      <4>1. k - 1 \in 1 .. c
        BY <1>2, <3>1
      <4> QED  BY <2>2, <4>1
    <3> QED  BY <3>1 DEF LineStart
  <2>4. LinesOf(y) = [k \in 1 .. c + 1 |->
                         IF k = c + 1 THEN Append(RestOf(x), ch) ELSE LinesOf(x)[k]]
    <3>1. LinesOf(y) = [k \in 1 .. c + 1 |->
                           SubSeq(y, LineStart(after, k), after[k])]
      BY <1>4, <2>2
    <3>2. SubSeq(y, LineStart(after, c + 1), after[c + 1]) = Append(RestOf(x), ch)
      <4>1. c + 1 \in 1 .. c + 1
        BY <1>2
      <4> QED  BY <1>7, <2>2, <2>3, <4>1 DEF first
    <3>3. ASSUME NEW k \in 1 .. c + 1, k # c + 1
          PROVE  SubSeq(y, LineStart(after, k), after[k]) = LinesOf(x)[k]
      <4>1. k \in 1 .. c
        BY <1>2, <3>3
      <4> QED  BY <1>4, <1>6, <2>2, <2>3, <4>1
    <3> HIDE DEF c
    <3> QED  BY <3>1, <3>2, <3>3
  <2>5. LinesOf(y) = Append(LinesOf(x), Append(RestOf(x), ch))
    <3> DEFINE line == Append(RestOf(x), ch)
               s    == Append(LinesOf(x), line)
               t    == LinesOf(y)
    <3>1. line \in Seq(C)
      BY <1>2, AppendProperties
    <3> HIDE DEF line
    <3>2. /\ s \in Seq(Seq(C)) /\ Len(s) = c + 1 /\ s[c + 1] = line
          /\ \A k \in 1 .. c : s[k] = LinesOf(x)[k]
      BY <1>2, <3>1, AppendProperties
    <3>3. t \in Seq(Seq(C)) /\ Len(t) = c + 1
      BY <1>1, <2>2, LinesTyped DEF after
    <3>4. ASSUME NEW k \in 1 .. c + 1  PROVE t[k] = s[k]
      <4>1. CASE k = c + 1
        BY <2>4, <3>2, <4>1 DEF line
      <4>2. CASE k # c + 1
        <5>1. k \in 1 .. c
          BY <1>2, <4>2
        <5> QED  BY <2>4, <3>2, <4>2, <5>1
      <4> QED  BY <4>1, <4>2
    <3> HIDE DEF s, t
    <3>5. t = s
      BY <3>2, <3>3, <3>4, SeqEqual
    <3> QED  BY <3>5 DEF s, t, line
  <2>6. RestOf(y) = <<>>
    <3>1. LineStart(after, (c + 1) + 1) = after[c + 1] + 1
      BY <1>2 DEF LineStart
    <3>2. RestOf(y) = SubSeq(y, n + 2, n + 1)
      <4>1. (n + 1) + 1 = n + 2
        BY <1>1
      <4> HIDE DEF n, c
      <4> QED  BY <1>4, <2>2, <3>1, <4>1
    <3> QED  BY <1>1, <3>2, SubSeqEmpty
  <2> QED  BY <1>9, <2>5, <2>6 DEF y
<1> QED  BY <1>8, <1>9

-----------------------------------------------------------------------------
(* The reference, one character at a time.                                 *)

AddCharacter(so, character) ==
    LET piece == Append(so.piece, character) IN
    IF character = Newline \/ Len(piece) = BufferSize
    THEN [done |-> Append(so.done, piece), piece |-> <<>>]
    ELSE [done |-> so.done, piece |-> piece]

NoPiece == [done |-> <<>>, piece |-> <<>>]

PieceStates(C) ==
    [done  : Seq(Seq(C)),
     piece : {b \in Seq(C) : /\ Len(b) < BufferSize
                             /\ \A i \in 1 .. Len(b) : b[i] # Newline}]

\* What the reference makes of the first k characters, for every k.
CutsStream(st, stream) ==
    /\ st[0] = NoPiece
    /\ \A k \in 1 .. Len(stream) : st[k] = AddCharacter(st[k - 1], stream[k])

LEMMA AddTyped ==
    ASSUME NEW C, NEW so \in PieceStates(C), NEW ch \in C
    PROVE  AddCharacter(so, ch) \in PieceStates(C)
<1> DEFINE piece == Append(so.piece, ch)
<1>1. /\ so.done \in Seq(Seq(C)) /\ so.piece \in Seq(C)
      /\ Len(so.piece) < BufferSize
      /\ \A i \in 1 .. Len(so.piece) : so.piece[i] # Newline
  BY DEF PieceStates
<1>2. /\ piece \in Seq(C) /\ Len(piece) = Len(so.piece) + 1
      /\ \A i \in 1 .. Len(so.piece) : piece[i] = so.piece[i]
      /\ piece[Len(so.piece) + 1] = ch
  BY <1>1, AppendProperties
<1> HIDE DEF piece
<1>3. CASE ch = Newline \/ Len(piece) = BufferSize
  <2>1. AddCharacter(so, ch) = [done |-> Append(so.done, piece), piece |-> <<>>]
    BY <1>3 DEF AddCharacter, piece
  <2>2. Append(so.done, piece) \in Seq(Seq(C))
    BY <1>1, <1>2, AppendProperties
  <2>3. <<>> \in Seq(C) /\ Len(<<>>) = 0
    BY EmptySeq
  <2> QED  BY <2>1, <2>2, <2>3, BufferAssumption DEF PieceStates
<1>4. CASE ~(ch = Newline \/ Len(piece) = BufferSize)
  <2>1. AddCharacter(so, ch) = [done |-> so.done, piece |-> piece]
    BY <1>4 DEF AddCharacter, piece
  <2>2. Len(piece) < BufferSize
    BY <1>1, <1>2, <1>4, BufferAssumption
  <2>3. \A i \in 1 .. Len(piece) : piece[i] # Newline
    BY <1>1, <1>2, <1>4
  <2> QED  BY <1>1, <1>2, <2>1, <2>2, <2>3 DEF PieceStates
<1> QED  BY <1>3, <1>4

LEMMA NoPieceTyped ==
    ASSUME NEW C
    PROVE  NoPiece \in PieceStates(C)
<1>1. <<>> \in Seq(C) /\ Len(<<>>) = 0 /\ <<>> \in Seq(Seq(C))
  BY EmptySeq
<1> QED  BY <1>1, BufferAssumption DEF NoPiece, PieceStates

LEMMA StatesTyped ==
    ASSUME NEW C, NEW stream \in Seq(C), NEW st, CutsStream(st, stream)
    PROVE  \A k \in 0 .. Len(stream) : st[k] \in PieceStates(C)
<1> DEFINE n == Len(stream)
           G == {k \in 0 .. n : st[k] \in PieceStates(C)}
<1>1. n \in Nat /\ \A k \in 1 .. n : stream[k] \in C
  OBVIOUS
<1> HIDE DEF n
<1>2. 0 \in G
  BY <1>1, NoPieceTyped DEF CutsStream
<1>3. ASSUME NEW k \in 0 .. n - 1, k \in G  PROVE k + 1 \in G
  <2>1. k + 1 \in 1 .. n /\ (k + 1) - 1 = k
    BY <1>1
  <2>2. st[k + 1] = AddCharacter(st[k], stream[k + 1])
    BY <2>1 DEF CutsStream, n
  <2>3. st[k + 1] \in PieceStates(C)
    BY <1>1, <1>3, <2>1, <2>2, AddTyped
  <2> QED  BY <1>1, <2>1, <2>3
<1>4. 0 .. n \subseteq G
  <2> HIDE DEF G
  <2> QED  BY <1>1, <1>2, <1>3, UpTo
<1> QED  BY <1>4 DEF n

\* Pieces without the operators it is folded with.
LEMMA PiecesUnfolds ==
    ASSUME NEW stream
    PROVE  Pieces(stream) =
             (CHOOSE g : g = [s \in SUBSET DOMAIN stream |->
                 IF s = {} THEN NoPiece
                 ELSE AddCharacter(g[s \ {Max(s)}], stream[Max(s)])])[DOMAIN stream]
BY Zenon DEF Pieces, FoldLeft, MapThenFoldSet, NoPiece, AddCharacter

LEMMA PiecesSteps ==
    ASSUME NEW C, NEW stream \in Seq(C)
    PROVE  \E st : CutsStream(st, stream) /\ Pieces(stream) = st[Len(stream)]
<1> DEFINE n == Len(stream)
           D == PieceStates(C)
           Step(so, i) == AddCharacter(so, stream[i])
           step == [p \in D \X (1 .. n) |-> Step(p[1], p[2])]
           Iterates(g) == g = [s \in SUBSET (1 .. n) |->
                              IF s = {} THEN NoPiece
                              ELSE Step(g[s \ {Max(s)}], Max(s))]
<1>1. n \in Nat /\ DOMAIN stream = 1 .. n /\ NoPiece \in D
  BY NoPieceTyped
<1>2. \A so \in D, i \in 1 .. n : Step(so, i) \in D
  BY AddTyped
<1>3. Pieces(stream) = (CHOOSE g : Iterates(g))[1 .. n]
  <2> HIDE DEF n
  <2> QED  BY <1>1, PiecesUnfolds
<1> HIDE DEF D, n, Step
<1>4. \E g : Iterates(g)
  <2>1. step \in [D \X (1 .. n) -> D]
    BY <1>2
  <2>2. PICK g \in [SUBSET (1 .. n) -> D] : FoldsBy(g, n, NoPiece, step)
    <3> HIDE DEF step
    <3> QED  BY <1>1, <2>1, FoldExists
  <2>3. ASSUME NEW s \in SUBSET (1 .. n), s # {}
        PROVE  g[s] = Step(g[s \ {Max(s)}], Max(s))
    <3>1. Max(s) \in 1 .. n
      BY <1>1, <2>3, MaxUpTo
    <3>2. g[s \ {Max(s)}] \in D
      BY <2>2
    <3> QED  BY <2>2, <2>3, <3>1, <3>2 DEF FoldsBy
  <2>4. g[{}] = NoPiece
    BY <2>2 DEF FoldsBy
  <2> HIDE DEF step
  <2>5. g = [s \in SUBSET (1 .. n) |-> g[s]]
    BY <2>2
  <2>6. Iterates(g)
    BY <2>3, <2>4, <2>5
  <2> QED  BY <2>6
<1> DEFINE c == CHOOSE g : Iterates(g)
           st == [k \in 0 .. n |-> c[1 .. k]]
<1>5. Iterates(c)
  <2> HIDE DEF Iterates
  <2> QED  BY <1>4
<1> HIDE DEF c
<1>6. c[{}] = NoPiece /\ \A s \in SUBSET (1 .. n) : s # {} =>
                          c[s] = Step(c[s \ {Max(s)}], Max(s))
  BY <1>5
<1>7. \A k \in 1 .. n : c[1 .. k] = Step(c[1 .. k - 1], k)
  BY <1>1, <1>6, Segments
<1>8. st[0] = NoPiece /\ st[n] = c[1 .. n]
  BY <1>1, <1>6
<1>9. \A k \in 1 .. n : st[k] = Step(st[k - 1], k)
  BY <1>1, <1>7
<1> HIDE DEF st
<1>10. CutsStream(st, stream)
  BY <1>8, <1>9 DEF CutsStream, Step, n
<1> QED  BY <1>3, <1>8, <1>10 DEF c, n

-----------------------------------------------------------------------------
(* A buffer is cut as the reference cuts it.                               *)

\* Lines and a rest that leaves room for the next read.
LEMMA CutTyped ==
    ASSUME NEW C, NEW x \in Seq(C), Len(x) <= BufferSize
    PROVE  LET cut == ProcessBufferedLines(x) IN
           /\ cut = [lines |-> cut.lines, rest |-> cut.rest]
           /\ cut.lines \in Seq(Seq(C)) /\ cut.rest \in Seq(C)
           /\ Len(cut.rest) < BufferSize
<1> DEFINE cut == ProcessBufferedLines(x)
<1>1. /\ LinesOf(x) \in Seq(Seq(C)) /\ RestOf(x) \in Seq(C)
      /\ Len(RestOf(x)) <= Len(x) /\ Len(RestOf(x)) \in Nat /\ Len(x) \in Nat
  <2>1. LET first == LineStart(Newlines(x), Len(Newlines(x)) + 1) IN
        /\ LinesOf(x) \in Seq(Seq(C)) /\ RestOf(x) \in Seq(C)
        /\ first \in 1 .. Len(x) + 1 /\ Len(RestOf(x)) = Len(x) + 1 - first
    BY LinesTyped
  <2> QED  BY <2>1
<1>2. CASE BufferFull(RestOf(x))
  <2>1. cut = [lines |-> Append(LinesOf(x), RestOf(x)), rest |-> <<>>]
    BY <1>2, CutUnfolds
  <2>2. Append(LinesOf(x), RestOf(x)) \in Seq(Seq(C))
    BY <1>1, AppendProperties
  <2>3. <<>> \in Seq(C) /\ Len(<<>>) = 0
    BY EmptySeq
  <2> QED  BY <2>1, <2>2, <2>3, BufferAssumption
<1>3. CASE ~BufferFull(RestOf(x))
  <2>1. cut = [lines |-> LinesOf(x), rest |-> RestOf(x)]
    BY <1>3, CutUnfolds
  <2>2. Len(RestOf(x)) < BufferSize
    BY <1>1, <1>3, BufferAssumption DEF BufferFull
  <2> QED  BY <1>1, <2>1, <2>2
<1> QED  BY <1>2, <1>3

\* A buffer that is not full is cut where its newlines are.
LEMMA CutPlain ==
    ASSUME NEW C, NEW x \in Seq(C), Len(x) < BufferSize
    PROVE  ProcessBufferedLines(x) = [lines |-> LinesOf(x), rest |-> RestOf(x)]
<1>1. LET first == LineStart(Newlines(x), Len(Newlines(x)) + 1) IN
      /\ RestOf(x) \in Seq(C)
      /\ first \in 1 .. Len(x) + 1 /\ Len(RestOf(x)) = Len(x) + 1 - first
  BY LinesTyped
<1>2. Len(RestOf(x)) < BufferSize
  BY <1>1, BufferAssumption
<1>3. ~BufferFull(RestOf(x))
  BY <1>2, BufferAssumption DEF BufferFull
<1> QED  BY <1>3, CutUnfolds

\* A piece that waits for its end is a rest.
LEMMA CutPiece ==
    ASSUME NEW C, NEW x \in Seq(C), Len(x) < BufferSize,
           \A i \in 1 .. Len(x) : x[i] # Newline
    PROVE  ProcessBufferedLines(x) = [lines |-> <<>>, rest |-> x]
<1>1. NewlinesIn(x) = {}
  BY DEF NewlinesIn
<1>2. Newlines(x) = <<>>
  <2>1. Enumerates(<<>>, {})
    BY FS_EmptySet DEF Enumerates
  <2> QED  BY <1>1, <2>1, NewlinesSound
<1>3. LinesOf(x) = <<>>
  BY <1>2 DEF LinesOf
<1>4. RestOf(x) = x
  <2>1. LineStart(<<>>, Len(<<>>) + 1) = 1
    BY DEF LineStart
  <2> QED  BY <1>2, <2>1, SubSeqFull DEF RestOf
<1> QED  BY <1>3, <1>4, CutPlain

\* One character more in the buffer is one step of the reference.
LEMMA CutStep ==
    ASSUME NEW C, NEW x \in Seq(C), Len(x) < BufferSize, NEW ch \in C,
           NEW done \in Seq(Seq(C))
    PROVE  LET cut   == ProcessBufferedLines(x)
               after == ProcessBufferedLines(Append(x, ch))
           IN  AddCharacter([done |-> done \o cut.lines, piece |-> cut.rest], ch) =
                   [done |-> done \o after.lines, piece |-> after.rest]
<1> DEFINE y == Append(x, ch)
           lines == LinesOf(x)
           rest  == RestOf(x)
           piece == Append(rest, ch)
           so    == [done |-> done \o lines, piece |-> rest]
           after == ProcessBufferedLines(y)
           Agree == AddCharacter(so, ch) =
                        [done |-> done \o after.lines, piece |-> after.rest]
<1>1. ProcessBufferedLines(x) = [lines |-> lines, rest |-> rest]
  BY CutPlain
<1>2. /\ LinesOf(y) = IF ch = Newline THEN Append(lines, piece) ELSE lines
      /\ RestOf(y) = IF ch = Newline THEN <<>> ELSE piece
  BY CutAppend
<1>3. lines \in Seq(Seq(C)) /\ rest \in Seq(C)
  BY LinesTyped
<1>4. piece \in Seq(C)
  BY <1>3, AppendProperties
<1>5. ProcessBufferedLines(y) =
          IF BufferFull(RestOf(y))
          THEN [lines |-> Append(LinesOf(y), RestOf(y)), rest |-> <<>>]
          ELSE [lines |-> LinesOf(y), rest |-> RestOf(y)]
  BY CutUnfolds
<1> HIDE DEF y, lines, rest
<1>6. done \o Append(lines, piece) = Append(done \o lines, piece)
  <2> HIDE DEF piece
  <2> QED  BY <1>3, <1>4, ConcatAppend
<1>7. ASSUME ch = Newline  PROVE Agree
  <2>1. ~BufferFull(<<>>)
    BY EmptySeq, BufferAssumption DEF BufferFull
  <2>2. ProcessBufferedLines(y) = [lines |-> Append(lines, piece), rest |-> <<>>]
    BY <1>2, <1>5, <1>7, <2>1
  <2>3. AddCharacter(so, ch) =
            [done |-> Append(done \o lines, piece), piece |-> <<>>]
    BY <1>7 DEF AddCharacter
  <2>4. after.lines = Append(lines, piece) /\ after.rest = <<>>
    BY <2>2
  <2>5. done \o after.lines = Append(done \o lines, piece)
    BY ONLY <1>6, <2>4, Zenon
  <2> HIDE DEF piece, so, after
  <2> QED  BY <2>4, <2>5, <2>3
<1>8. ASSUME ch # Newline, BufferFull(piece)  PROVE Agree
  <2>1. ProcessBufferedLines(y) = [lines |-> Append(lines, piece), rest |-> <<>>]
    BY <1>2, <1>5, <1>8
  <2>2. AddCharacter(so, ch) =
            [done |-> Append(done \o lines, piece), piece |-> <<>>]
    BY <1>8 DEF AddCharacter, BufferFull
  <2>4. after.lines = Append(lines, piece) /\ after.rest = <<>>
    BY <2>1
  <2>5. done \o after.lines = Append(done \o lines, piece)
    BY ONLY <1>6, <2>4, Zenon
  <2> HIDE DEF piece, so, after
  <2> QED  BY <2>4, <2>5, <2>2
<1>9. ASSUME ch # Newline, ~BufferFull(piece)  PROVE Agree
  <2>1. ProcessBufferedLines(y) = [lines |-> lines, rest |-> piece]
    BY <1>2, <1>5, <1>9
  <2>2. AddCharacter(so, ch) = [done |-> done \o lines, piece |-> piece]
    BY <1>9 DEF AddCharacter, BufferFull
  <2> HIDE DEF piece, so
  <2> QED  BY <2>1, <2>2
<1>10. Agree
  <2> HIDE DEF Agree, piece
  <2> QED  BY <1>7, <1>8, <1>9
<1> HIDE DEF piece
<1> QED  BY <1>1, <1>10 DEF y

\* What a read adds to a buffer is cut as the reference cuts it.
LEMMA CutRead ==
    ASSUME NEW C, NEW stream \in Seq(C), NEW st, CutsStream(st, stream),
           NEW p \in 0 .. Len(stream), NEW count \in Nat,
           p + count <= Len(stream), Len(st[p].piece) + count <= BufferSize
    PROVE  LET cut == ProcessBufferedLines(st[p].piece \o
                                           SubSeq(stream, p + 1, p + count))
           IN  st[p + count] = [done  |-> st[p].done \o cut.lines,
                                piece |-> cut.rest]
<1> DEFINE n == Len(stream)
           b == st[p].piece
           done == st[p].done
           x(k) == b \o SubSeq(stream, p + 1, p + k)
           cut(k) == ProcessBufferedLines(x(k))
           Cut(k) == st[p + k] =
                         [done |-> done \o cut(k).lines, piece |-> cut(k).rest]
           G == {k \in 0 .. count : Cut(k)}
<1>1. /\ st[p] = [done |-> done, piece |-> b]
      /\ done \in Seq(Seq(C)) /\ b \in Seq(C)
      /\ Len(b) < BufferSize /\ \A i \in 1 .. Len(b) : b[i] # Newline
  <2>1. st[p] \in PieceStates(C)
    BY StatesTyped
  <2> QED  BY <2>1 DEF PieceStates
<1>2. n \in Nat /\ p \in 0 .. n /\ p + count <= n /\ Len(b) \in Nat
      /\ \A k \in 1 .. n : stream[k] \in C
  BY <1>1
<1>3. ASSUME NEW k \in 0 .. count
      PROVE  x(k) \in Seq(C) /\ Len(x(k)) = Len(b) + k
  <2> DEFINE read == SubSeq(stream, p + 1, p + k)
  <2>1. \A i \in p + 1 .. p + k : stream[i] \in C
    BY <1>2
  <2>2. read \in Seq(C) /\ Len(read) = k
    <3>1. read \in Seq(C)
      BY <1>2, <2>1, SubSeqProperties
    <3>2. Len(read) = IF p + 1 <= p + k THEN (p + k) - (p + 1) + 1 ELSE 0
      BY <1>2, <2>1, SubSeqProperties
    <3> QED  BY <3>1, <3>2, <1>2
  <2> HIDE DEF read
  <2>3. b \o read \in Seq(C) /\ Len(b \o read) = Len(b) + Len(read)
    BY <1>1, <2>2, ConcatProperties
  <2> QED  BY <2>2, <2>3 DEF read
<1>4. 0 \in G
  <2>1. x(0) = b
    <3>1. SubSeq(stream, p + 1, p + 0) = <<>>
      BY <1>2, SubSeqEmpty
    <3> QED  BY <1>1, <3>1, ConcatEmptySeq
  <2>2. cut(0) = [lines |-> <<>>, rest |-> b]
    BY <1>1, <2>1, CutPiece
  <2>3. done \o <<>> = done
    BY <1>1, ConcatEmptySeq
  <2>4. p + 0 = p /\ 0 \in 0 .. count
    BY <1>2
  <2> HIDE DEF cut
  <2>5. done \o cut(0).lines = done /\ cut(0).rest = b
    <3>1. cut(0).lines = <<>> /\ cut(0).rest = b
      BY <2>2
    <3> QED  BY ONLY <2>3, <3>1, Zenon
  <2>6. st[p + 0] = [done |-> done, piece |-> b]
    BY <1>1, <2>4
  <2> HIDE DEF done, b
  <2>7. Cut(0)
    BY <2>5, <2>6
  <2> HIDE DEF Cut
  <2> QED  BY <2>4, <2>7
<1>5. ASSUME NEW k \in 0 .. count - 1, k \in G  PROVE k + 1 \in G
  <2> DEFINE ch == stream[p + k + 1]
  <2>1. /\ k \in 0 .. count /\ k + 1 \in 0 .. count
        /\ p + k + 1 \in 1 .. n /\ (p + k + 1) - 1 = p + k
        /\ p + (k + 1) = p + k + 1
        /\ p + 1 \in 1 .. n /\ p + k + 1 \in p + 1 .. n
    BY <1>2
  <2>2. x(k + 1) = Append(x(k), ch)
    <3> DEFINE read == SubSeq(stream, p + 1, p + k)
    <3>1. SubSeq(stream, p + 1, p + (k + 1)) = read \o <<ch>>
      BY <2>1, SubSeqRecursiveSecond
    <3>2. read \in Seq(C)
      <4>1. \A i \in p + 1 .. p + k : stream[i] \in C
        BY <1>2, <2>1
      <4> QED  BY <1>2, <2>1, <4>1, SubSeqProperties
    <3>3. ch \in C
      BY <1>2, <2>1
    <3> HIDE DEF read, ch, b
    <3>4. read \o <<ch>> = Append(read, ch)
      BY <3>2, <3>3, AppendIsConcat
    <3>5. b \o Append(read, ch) = Append(b \o read, ch)
      BY <1>1, <3>2, <3>3, ConcatAppend
    <3> QED  BY <3>1, <3>4, <3>5 DEF read, ch
  <2>3. x(k) \in Seq(C) /\ Len(x(k)) < BufferSize
    <3>1. x(k) \in Seq(C) /\ Len(x(k)) = Len(b) + k
      BY <1>3, <2>1
    <3> HIDE DEF x, b
    <3>2. Len(b) + count <= BufferSize
      BY DEF b
    <3> QED  BY <1>2, <3>1, <3>2, BufferAssumption
  <2>4. st[p + k + 1] = AddCharacter(st[p + k], ch)
    BY <2>1 DEF CutsStream
  <2>5. Cut(k)
    BY <1>5
  <2>6. ch \in C
    BY <1>2, <2>1
  <2> HIDE DEF x, ch
  <2>7. AddCharacter([done |-> done \o cut(k).lines, piece |-> cut(k).rest], ch) =
            [done |-> done \o cut(k + 1).lines, piece |-> cut(k + 1).rest]
    BY <1>1, <2>2, <2>3, <2>6, CutStep
  <2> HIDE DEF cut
  <2> QED  BY <2>1, <2>4, <2>5, <2>7
<1>6. count \in G
  <2> HIDE DEF G
  <2>1. 0 .. count \subseteq G
    BY <1>4, <1>5, UpTo
  <2> QED  BY <2>1
<1> HIDE DEF x
<1> QED  BY <1>6 DEF x

-----------------------------------------------------------------------------
(* The rounds of reading.                                                  *)

\* One round of read_client_requests, and what it works on.
ReadMore(so) ==
    LET count == Min({Room(so.buffer), Len(so.unread)})
        cut == ProcessBufferedLines(so.buffer \o SubSeq(so.unread, 1, count))
    IN  IF so.unread = <<>> THEN so
        ELSE [buffer    |-> cut.rest,
              submitted |-> so.submitted \o cut.lines,
              unread    |-> SubSeq(so.unread, count + 1, Len(so.unread))]

ReadStates(C) ==
    [buffer : {b \in Seq(C) : Len(b) < BufferSize},
     submitted : Seq(Seq(C)), unread : Seq(C)]

NothingRead(start, fifo) ==
    [buffer |-> start, submitted |-> <<>>, unread |-> fifo]

\* A round reads something, and no more than fits and there is.
LEMMA ReadCount ==
    ASSUME NEW C, NEW b \in Seq(C), Len(b) < BufferSize,
           NEW unread \in Seq(C), unread # <<>>
    PROVE  LET count == Min({Room(b), Len(unread)}) IN
           count \in 1 .. Len(unread) /\ Len(b) + count <= BufferSize
<1> DEFINE S == {Room(b), Len(unread)}
<1>1. Room(b) \in Nat \ {0} /\ Len(unread) \in Nat \ {0} /\ Len(b) \in Nat
  BY BufferAssumption, EmptySeq DEF Room
<1>2. Min(S) \in S /\ \A i \in S : Min(S) <= i
  <2>1. S \in SUBSET Nat /\ S # {}
    BY <1>1
  <2> HIDE DEF S
  <2> QED  BY <2>1, MinNat
<1> DEFINE count == Min(S)
<1>3. (count = Room(b) \/ count = Len(unread))
      /\ count <= Room(b) /\ count <= Len(unread)
  BY <1>2
<1> HIDE DEF count
<1>4. count \in 1 .. Len(unread) /\ Len(b) + count <= BufferSize
  BY <1>1, <1>3, BufferAssumption DEF Room
<1> QED  BY <1>4 DEF count

LEMMA ReadMoreTyped ==
    ASSUME NEW C, NEW so \in ReadStates(C)
    PROVE  ReadMore(so) \in ReadStates(C)
<1>1. /\ so.buffer \in Seq(C) /\ Len(so.buffer) < BufferSize
      /\ so.submitted \in Seq(Seq(C)) /\ so.unread \in Seq(C)
  BY DEF ReadStates
<1>2. CASE so.unread = <<>>
  BY <1>2 DEF ReadMore
<1>3. CASE so.unread # <<>>
  <2> DEFINE count == Min({Room(so.buffer), Len(so.unread)})
             read == SubSeq(so.unread, 1, count)
             rest == SubSeq(so.unread, count + 1, Len(so.unread))
             cut == ProcessBufferedLines(so.buffer \o read)
  <2>1. /\ count \in 1 .. Len(so.unread)
        /\ Len(so.buffer) + count <= BufferSize
    BY <1>1, <1>3, ReadCount
  <2>2. ReadMore(so) = [buffer    |-> cut.rest,
                        submitted |-> so.submitted \o cut.lines,
                        unread    |-> rest]
    BY <1>3 DEF ReadMore
  <2> HIDE DEF count
  <2>3. Len(so.unread) \in Nat /\ \A i \in 1 .. Len(so.unread) : so.unread[i] \in C
    BY <1>1
  <2>4. read \in Seq(C) /\ Len(read) = count
    <3>1. \A i \in 1 .. count : so.unread[i] \in C
      BY <2>1, <2>3
    <3>2. read \in Seq(C) /\ Len(read) = IF 1 <= count THEN count - 1 + 1 ELSE 0
      BY <2>1, <3>1, SubSeqProperties
    <3> QED  BY <2>1, <3>2
  <2>5. rest \in Seq(C)
    <3>1. \A i \in count + 1 .. Len(so.unread) : so.unread[i] \in C
      BY <2>1, <2>3
    <3> QED  BY <2>1, <2>3, <3>1, SubSeqProperties
  <2> HIDE DEF read, rest
  <2>6. /\ so.buffer \o read \in Seq(C)
        /\ Len(so.buffer \o read) = Len(so.buffer) + Len(read)
    BY <1>1, <2>4, ConcatProperties
  <2>7. Len(so.buffer \o read) <= BufferSize
    BY <2>1, <2>4, <2>6
  <2>8. /\ cut.lines \in Seq(Seq(C)) /\ cut.rest \in Seq(C)
        /\ Len(cut.rest) < BufferSize
    BY <2>6, <2>7, CutTyped
  <2> HIDE DEF cut
  <2>9. so.submitted \o cut.lines \in Seq(Seq(C))
    BY <1>1, <2>8, ConcatProperties
  <2> QED  BY <2>2, <2>5, <2>8, <2>9 DEF ReadStates
<1> QED  BY <1>2, <1>3

\* ReadUntilEmpty without the operators it is folded with.
LEMMA ReadsUnfold ==
    ASSUME NEW start, NEW fifo
    PROVE  ReadUntilEmpty(start, fifo) =
             (CHOOSE g : g = [s \in SUBSET DOMAIN fifo |->
                 IF s = {} THEN NothingRead(start, fifo)
                 ELSE ReadMore(g[s \ {Max(s)}])])[DOMAIN fifo]
<1>1. DOMAIN [i \in DOMAIN fifo |-> i] = DOMAIN fifo
  OBVIOUS
<1> QED  BY <1>1, Zenon DEF ReadUntilEmpty, FoldLeft, MapThenFoldSet, NothingRead,
                           ReadMore

LEMMA ReadSteps ==
    ASSUME NEW C, NEW start \in Seq(C), Len(start) < BufferSize, NEW fifo \in Seq(C)
    PROVE  \E rd : /\ rd[0] = NothingRead(start, fifo)
                   /\ \A k \in 1 .. Len(fifo) : rd[k] = ReadMore(rd[k - 1])
                   /\ ReadUntilEmpty(start, fifo) = rd[Len(fifo)]
<1> DEFINE n == Len(fifo)
           D == ReadStates(C)
           base == NothingRead(start, fifo)
           step == [p \in D \X (1 .. n) |-> ReadMore(p[1])]
           Iterates(g) == g = [s \in SUBSET (1 .. n) |->
                              IF s = {} THEN base ELSE ReadMore(g[s \ {Max(s)}])]
<1>1. n \in Nat /\ DOMAIN fifo = 1 .. n /\ base \in D
  <2>1. <<>> \in Seq(Seq(C))
    BY EmptySeq
  <2> QED  BY <2>1 DEF NothingRead, ReadStates
<1>2. \A so \in D : ReadMore(so) \in D
  BY ReadMoreTyped
<1>3. ReadUntilEmpty(start, fifo) = (CHOOSE g : Iterates(g))[1 .. n]
  <2> HIDE DEF n
  <2> QED  BY <1>1, ReadsUnfold
<1> HIDE DEF D, n, base
<1>4. \E g : Iterates(g)
  <2>1. step \in [D \X (1 .. n) -> D]
    BY <1>2
  <2>2. PICK g \in [SUBSET (1 .. n) -> D] : FoldsBy(g, n, base, step)
    <3> HIDE DEF step
    <3> QED  BY <1>1, <2>1, FoldExists
  <2>3. ASSUME NEW s \in SUBSET (1 .. n), s # {}
        PROVE  g[s] = ReadMore(g[s \ {Max(s)}])
    <3>1. Max(s) \in 1 .. n
      BY <1>1, <2>3, MaxUpTo
    <3>2. g[s \ {Max(s)}] \in D
      BY <2>2
    <3> QED  BY <2>2, <2>3, <3>1, <3>2 DEF FoldsBy
  <2>4. g[{}] = base
    BY <2>2 DEF FoldsBy
  <2> HIDE DEF step
  <2>5. g = [s \in SUBSET (1 .. n) |-> g[s]]
    BY <2>2
  <2>6. Iterates(g)
    BY <2>3, <2>4, <2>5
  <2> QED  BY <2>6
<1> DEFINE c == CHOOSE g : Iterates(g)
           rd == [k \in 0 .. n |-> c[1 .. k]]
<1>5. Iterates(c)
  <2> HIDE DEF Iterates
  <2> QED  BY <1>4
<1> HIDE DEF c
<1>6. c[{}] = base /\ \A s \in SUBSET (1 .. n) : s # {} =>
                          c[s] = ReadMore(c[s \ {Max(s)}])
  BY <1>5
<1>7. ASSUME NEW k \in 1 .. n  PROVE c[1 .. k] = ReadMore(c[1 .. k - 1])
  <2>1. /\ 1 .. k \in SUBSET (1 .. n) /\ 1 .. k # {}
        /\ Max(1 .. k) = k /\ (1 .. k) \ {k} = 1 .. k - 1
    BY <1>1, Segments
  <2> QED  BY <1>6, <2>1
<1>8. rd[0] = base /\ rd[n] = c[1 .. n]
  BY <1>1, <1>6
<1>9. \A k \in 1 .. n : rd[k] = ReadMore(rd[k - 1])
  BY <1>1, <1>7
<1> HIDE DEF rd
<1> QED  BY <1>3, <1>8, <1>9 DEF c, n, base

\* A FIFO that holds part of a stream, read from the piece that waits.
ReadUpTo(so, stream, st, a, p, b) ==
    /\ so = [buffer    |-> st[p].piece,
             submitted |-> so.submitted,
             unread    |-> SubSeq(stream, p + 1, b)]
    /\ st[a].done \o so.submitted = st[p].done

\* A round takes the reading further, as long as something is left in the FIFO.
LEMMA ReadRound ==
    ASSUME NEW C, NEW stream \in Seq(C), NEW st, CutsStream(st, stream),
           NEW a \in 0 .. Len(stream), NEW b \in a .. Len(stream),
           NEW p \in a .. b, p # b,
           NEW so, so.submitted \in Seq(Seq(C)), ReadUpTo(so, stream, st, a, p, b)
    PROVE  \E q \in p + 1 .. b :
             /\ ReadMore(so).submitted \in Seq(Seq(C))
             /\ ReadUpTo(ReadMore(so), stream, st, a, q, b)
<1> DEFINE n == Len(stream)
           piece == st[p].piece
           unread == SubSeq(stream, p + 1, b)
           count == Min({Room(piece), Len(unread)})
           q == p + count
           read == SubSeq(stream, p + 1, q)
           cut == ProcessBufferedLines(piece \o read)
           submitted == so.submitted \o cut.lines
<1>1. n \in Nat /\ a \in 0 .. n /\ b \in a .. n /\ p \in a .. b - 1 /\ p \in 0 .. n
      /\ p + 1 \in 1 .. n /\ b \in 1 .. n
  OBVIOUS
<1>2. \A i \in 1 .. n : stream[i] \in C
  OBVIOUS
<1> HIDE DEF n
<1>3. unread \in Seq(C) /\ Len(unread) = b - p /\ unread # <<>>
  <2>1. \A i \in p + 1 .. b : stream[i] \in C
    BY <1>1, <1>2
  <2>2. unread \in Seq(C) /\ Len(unread) = IF p + 1 <= b THEN b - (p + 1) + 1 ELSE 0
    BY <1>1, <2>1, SubSeqProperties
  <2>3. Len(unread) = b - p /\ b - p # 0
    BY <1>1, <2>2
  <2>4. Len(<<>>) = 0
    BY EmptySeq
  <2> HIDE DEF unread
  <2> QED  BY <2>2, <2>3, <2>4
<1>4. piece \in Seq(C) /\ Len(piece) < BufferSize /\ Len(piece) \in Nat
  <2>1. st[p] \in PieceStates(C)
    BY <1>1, StatesTyped DEF n
  <2> QED  BY <2>1 DEF PieceStates
<1>5. count \in 1 .. b - p /\ Len(piece) + count <= BufferSize
  <2> HIDE DEF unread, piece
  <2> QED  BY <1>3, <1>4, ReadCount
<1>6. SubSeq(unread, 1, count) = read
  <2>1. 1 \in 1 .. b - (p + 1) + 1 /\ count \in 1 .. b - (p + 1) + 1
    BY <1>1, <1>5
  <2>2. (p + 1) + 1 - 1 = p + 1 /\ (p + 1) + count - 1 = q
    BY <1>1, <1>5
  <2> HIDE DEF count
  <2>3. SubSeq(SubSeq(stream, p + 1, b), 1, count) =
            SubSeq(stream, (p + 1) + 1 - 1, (p + 1) + count - 1)
    BY <1>1, <2>1, SubSeqOfSubSeq DEF n
  <2> QED  BY <2>2, <2>3
<1>7. SubSeq(unread, count + 1, Len(unread)) = SubSeq(stream, q + 1, b)
  <2> HIDE DEF count
  <2>1. CASE count = b - p
    <3>1. SubSeq(unread, count + 1, Len(unread)) = <<>>
      BY <1>1, <1>3, <1>5, <2>1, SubSeqEmpty
    <3>2. SubSeq(stream, q + 1, b) = <<>>
      BY <1>1, <2>1, SubSeqEmpty
    <3> QED  BY <3>1, <3>2
  <2>2. CASE count # b - p
    <3>1. /\ count + 1 \in 1 .. b - (p + 1) + 1 /\ b - p \in 1 .. b - (p + 1) + 1
          /\ (p + 1) + (count + 1) - 1 = q + 1 /\ (p + 1) + (b - p) - 1 = b
      BY <1>1, <1>5, <2>2
    <3> DEFINE m == count + 1
               l == b - p
    <3>2. m \in 1 .. b - (p + 1) + 1 /\ l \in 1 .. b - (p + 1) + 1
      BY <3>1
    <3> HIDE DEF m, l
    <3>3. SubSeq(SubSeq(stream, p + 1, b), m, l) =
              SubSeq(stream, (p + 1) + m - 1, (p + 1) + l - 1)
      BY <1>1, <3>2, SubSeqOfSubSeq DEF n
    <3> QED  BY <1>3, <3>1, <3>3 DEF m, l
  <2> QED  BY <2>1, <2>2
<1>8. /\ so.buffer = piece /\ so.unread = unread
      /\ st[a].done \o so.submitted = st[p].done
  BY DEF ReadUpTo
<1>9. ReadMore(so) = [buffer |-> cut.rest, submitted |-> submitted,
                      unread |-> SubSeq(stream, q + 1, b)]
  <2>1. ReadMore(so) =
          LET k == Min({Room(so.buffer), Len(so.unread)})
              c == ProcessBufferedLines(so.buffer \o SubSeq(so.unread, 1, k))
          IN  IF so.unread = <<>> THEN so
              ELSE [buffer    |-> c.rest,
                    submitted |-> so.submitted \o c.lines,
                    unread    |-> SubSeq(so.unread, k + 1, Len(so.unread))]
    BY Zenon DEF ReadMore
  <2> HIDE DEF unread, piece
  <2>2. ReadMore(so) =
          LET c == ProcessBufferedLines(piece \o SubSeq(unread, 1, count))
          IN  [buffer    |-> c.rest,
               submitted |-> so.submitted \o c.lines,
               unread    |-> SubSeq(unread, count + 1, Len(unread))]
    BY ONLY <1>3, <1>8, <2>1, Zenon
  <2> HIDE DEF count
  <2> QED  BY ONLY <1>6, <1>7, <2>2, Zenon
<1>10. st[q] = [done |-> st[p].done \o cut.lines, piece |-> cut.rest]
  <2>1. count \in Nat /\ p + count <= n /\ Len(piece) + count <= BufferSize
    <3> HIDE DEF count
    <3> QED  BY <1>1, <1>5
  <2> HIDE DEF count
  <2> QED  BY <1>1, <2>1, CutRead DEF n
<1>11. cut.lines \in Seq(Seq(C))
  <2>1. \A i \in p + 1 .. q : stream[i] \in C
    <3> HIDE DEF count
    <3> QED  BY <1>1, <1>2, <1>5
  <2>2. read \in Seq(C) /\ Len(read) = IF p + 1 <= q THEN q - (p + 1) + 1 ELSE 0
    <3> HIDE DEF count
    <3> QED  BY <1>1, <1>5, <2>1, SubSeqProperties
  <2> HIDE DEF piece, count
  <2>3. Len(read) = count
    BY <1>1, <1>5, <2>2
  <2> HIDE DEF read
  <2>4. piece \o read \in Seq(C) /\ Len(piece \o read) = Len(piece) + Len(read)
    BY <1>4, <2>2, ConcatProperties
  <2>5. Len(piece \o read) <= BufferSize
    BY <1>5, <2>3, <2>4
  <2> QED  BY <2>4, <2>5, CutTyped
<1>12. st[a].done \in Seq(Seq(C))
  <2>1. st[a] \in PieceStates(C)
    BY <1>1, StatesTyped DEF n
  <2> QED  BY <2>1 DEF PieceStates
<1> HIDE DEF cut
<1>13. /\ submitted \in Seq(Seq(C))
       /\ st[a].done \o submitted = st[p].done \o cut.lines
  <2>1. so.submitted \in Seq(Seq(C)) /\ submitted = so.submitted \o cut.lines
    OBVIOUS
  <2>2. submitted \in Seq(Seq(C))
    BY <1>11, <2>1, ConcatProperties
  <2> HIDE DEF submitted
  <2>3. st[p].done \o cut.lines = st[a].done \o submitted
    <3> DEFINE D    == Seq(C)
               p0   == st[a].done
               q0   == so.submitted
               r0   == cut.lines
               all  == st[p].done
               back == submitted
    <3>1. p0 \in Seq(D) /\ q0 \in Seq(D) /\ r0 \in Seq(D)
      BY <1>11, <1>12, <2>1
    <3>2. Join(p0, q0) = all /\ back = Join(q0, r0)
      BY <1>8, <2>1 DEF Join
    <3> HIDE DEF D, p0, q0, r0, all, back
    <3>3. Join(Join(p0, q0), r0) = Join(p0, Join(q0, r0))
      BY <3>1, JoinGroups
    <3>4. Join(all, r0) = Join(p0, back)
      BY ONLY <3>2, <3>3
    <3> QED  BY <3>4 DEF all, r0, p0, back, Join
  <2> QED  BY <2>2, <2>3
<1>14. q \in p + 1 .. b
  <2> HIDE DEF count
  <2> QED  BY <1>1, <1>5
<1> HIDE DEF q, submitted
<1>15. /\ ReadUpTo(ReadMore(so), stream, st, a, q, b)
       /\ ReadMore(so).submitted = submitted
  <2>1. ReadMore(so).submitted = submitted
    BY <1>9
  <2>2. st[q].done = st[p].done \o cut.lines /\ st[q].piece = cut.rest
    <3> DEFINE done == st[p].done \o cut.lines
    <3>1. st[q] = [done |-> done, piece |-> cut.rest]
      BY <1>10
    <3> HIDE DEF done
    <3>2. st[q].done = done /\ st[q].piece = cut.rest
      BY <3>1
    <3> QED  BY <3>2 DEF done
  <2>3. st[a].done \o ReadMore(so).submitted = st[q].done
    BY ONLY <1>13, <2>1, <2>2, Zenon
  <2> QED  BY <1>9, <2>1, <2>2, <2>3 DEF ReadUpTo
<1> QED  BY <1>13, <1>14, <1>15

\* Reading what follows the first a characters of a stream, up to the b-th.
ReadsPart(C, stream, st, a, b) ==
    LET so == ReadUntilEmpty(st[a].piece, SubSeq(stream, a + 1, b)) IN
    /\ so.submitted \in Seq(Seq(C)) /\ so.unread = <<>>
    /\ so.buffer = st[b].piece
    /\ st[a].done \o so.submitted = st[b].done

\* A FIFO is read to its end, and submitted are the pieces it completes.
LEMMA ReadsWhole ==
    ASSUME NEW C, NEW stream \in Seq(C), NEW st, CutsStream(st, stream),
           NEW a \in 0 .. Len(stream), NEW b \in a .. Len(stream)
    PROVE  ReadsPart(C, stream, st, a, b)
<1> DEFINE fifo == SubSeq(stream, a + 1, b)
           n == Len(stream)
           size == b - a
<1>1. n \in Nat /\ a \in 0 .. n /\ b \in a .. n /\ size \in Nat
  OBVIOUS
<1> HIDE DEF n
<1>2. fifo \in Seq(C) /\ Len(fifo) = size
  <2>1. \A i \in a + 1 .. b : stream[i] \in C
    BY <1>1 DEF n
  <2>2. fifo \in Seq(C) /\ Len(fifo) = IF a + 1 <= b THEN b - (a + 1) + 1 ELSE 0
    BY <1>1, <2>1, SubSeqProperties
  <2>3. Len(fifo) = size
    BY <1>1, <2>2
  <2> QED  BY <2>2, <2>3
<1>3. /\ st[a] = [done |-> st[a].done, piece |-> st[a].piece]
      /\ st[a].done \in Seq(Seq(C)) /\ st[a].piece \in Seq(C)
      /\ Len(st[a].piece) < BufferSize
  <2>1. st[a] \in PieceStates(C)
    BY <1>1, StatesTyped DEF n
  <2> QED  BY <2>1 DEF PieceStates
<1> DEFINE start == st[a].piece
<1>4. PICK rd : /\ rd[0] = NothingRead(start, fifo)
                /\ \A k \in 1 .. size : rd[k] = ReadMore(rd[k - 1])
                /\ ReadUntilEmpty(start, fifo) = rd[size]
  <2> HIDE DEF start, fifo, size
  <2>1. start \in Seq(C) /\ Len(start) < BufferSize
    BY <1>3 DEF start
  <2>2. \E rd : /\ rd[0] = NothingRead(start, fifo)
                /\ \A k \in 1 .. Len(fifo) : rd[k] = ReadMore(rd[k - 1])
                /\ ReadUntilEmpty(start, fifo) = rd[Len(fifo)]
    BY <1>2, <2>1, ReadSteps
  <2> QED  BY <1>2, <2>2
\* After k rounds at least k characters have been read, or all.
<1> DEFINE Read(k, p) == /\ rd[k].submitted \in Seq(Seq(C))
                         /\ ReadUpTo(rd[k], stream, st, a, p, b)
           G == {k \in 0 .. size : \E p \in a + k .. b : Read(k, p)}
<1>5. 0 \in G
  <2>1. rd[0] = [buffer |-> start, submitted |-> <<>>, unread |-> fifo]
    BY <1>4 DEF NothingRead
  <2>2. st[a].done \o <<>> = st[a].done /\ <<>> \in Seq(Seq(C))
    BY <1>3, ConcatEmptySeq, EmptySeq
  <2> HIDE DEF start, fifo
  <2>3. rd[0].submitted = <<>>
    BY <2>1
  <2>4. st[a].done \o rd[0].submitted = st[a].done
    BY ONLY <2>2, <2>3, Zenon
  <2>5. Read(0, a)
    BY <2>1, <2>2, <2>3, <2>4 DEF ReadUpTo, start, fifo
  <2>6. a \in a + 0 .. b /\ 0 \in 0 .. size
    BY <1>1
  <2> HIDE DEF Read, size
  <2> QED  BY <2>5, <2>6
<1>6. ASSUME NEW k \in 0 .. size - 1, k \in G  PROVE k + 1 \in G
  <2>1. PICK p \in a + k .. b : Read(k, p)
    BY <1>6
  <2>2. k + 1 \in 1 .. size /\ (k + 1) - 1 = k /\ k + 1 \in 0 .. size
        /\ p \in a .. b /\ a + (k + 1) <= b
    BY <1>1
  <2>3. rd[k + 1] = ReadMore(rd[k])
    BY <1>4, <2>2
  <2>4. CASE p = b
    <3>1. rd[k].unread = SubSeq(stream, b + 1, b)
      BY <2>1, <2>4 DEF ReadUpTo
    <3>2. rd[k].unread = <<>>
      BY <1>1, <3>1, SubSeqEmpty
    <3>3. rd[k + 1] = rd[k]
      BY <2>3, <3>2 DEF ReadMore
    <3>4. Read(k + 1, b)
      BY <2>1, <2>4, <3>3
    <3>5. b \in a + (k + 1) .. b
      BY <1>1, <2>2
    <3> HIDE DEF Read, size
    <3> QED  BY <2>2, <3>4, <3>5
  <2>5. CASE p # b
    <3> DEFINE so == rd[k]
    <3>1. so.submitted \in Seq(Seq(C)) /\ ReadUpTo(so, stream, st, a, p, b)
      BY <2>1
    <3> HIDE DEF so
    <3>2. PICK q \in p + 1 .. b :
             /\ ReadMore(so).submitted \in Seq(Seq(C))
             /\ ReadUpTo(ReadMore(so), stream, st, a, q, b)
      BY <1>1, <2>2, <2>5, <3>1, ReadRound DEF n
    <3>3. Read(k + 1, q)
      BY <2>3, <3>2 DEF so
    <3>4. q \in a + (k + 1) .. b
      BY <1>1, <2>2
    <3> HIDE DEF Read, size
    <3> QED  BY <2>2, <3>3, <3>4
  <2> QED  BY <2>4, <2>5
<1>7. size \in G
  <2> HIDE DEF G, size
  <2>1. 0 .. size \subseteq G
    BY <1>1, <1>5, <1>6, UpTo
  <2> QED  BY <1>1, <2>1
<1>8. PICK p \in a + size .. b : Read(size, p)
  BY <1>7
<1>9. p = b
  BY <1>1
<1>10. SubSeq(stream, b + 1, b) = <<>>
  BY <1>1, SubSeqEmpty
<1> DEFINE so == rd[size]
<1>11. /\ so.submitted \in Seq(Seq(C)) /\ ReadUpTo(so, stream, st, a, b, b)
  BY <1>8, <1>9
<1>12. ReadUntilEmpty(start, fifo) = so
  BY <1>4
<1> HIDE DEF so
<1>13. /\ so.unread = <<>> /\ so.buffer = st[b].piece
       /\ st[a].done \o so.submitted = st[b].done
  BY <1>10, <1>11 DEF ReadUpTo
<1> QED  BY ONLY <1>11, <1>12, <1>13, Zenon DEF ReadsPart, start, fifo

\* One stream, that arrives in two parts.
LEMMA StreamIsCut ==
    ASSUME NEW C, NEW stream \in Seq(C), NEW arrived \in 0 .. Len(stream)
    PROVE  CutsInto(stream, arrived)
<1> DEFINE n == Len(stream)
           first == ReadUntilEmpty(<<>>, SubSeq(stream, 1, arrived))
           later == ReadUntilEmpty(first.buffer, SubSeq(stream, arrived + 1, n))
           pieces == Pieces(stream)
<1>1. PICK st : CutsStream(st, stream) /\ pieces = st[n]
  BY PiecesSteps
<1>2. n \in Nat /\ arrived \in 0 .. n /\ arrived \in 0 .. Len(stream)
      /\ 0 \in 0 .. Len(stream) /\ n \in arrived .. Len(stream)
  OBVIOUS
<1>3. \A a \in 0 .. Len(stream) : \A b \in a .. Len(stream) :
           ReadsPart(C, stream, st, a, b)
  BY <1>1, ReadsWhole
<1>4. ReadsPart(C, stream, st, 0, arrived) /\ ReadsPart(C, stream, st, arrived, n)
  BY <1>2, <1>3
<1>5. st[0].piece = <<>> /\ st[0].done = <<>>
  BY <1>1 DEF CutsStream, NoPiece
<1>6. /\ first.submitted \in Seq(Seq(C)) /\ first.unread = <<>>
      /\ first.buffer = st[arrived].piece
      /\ st[0].done \o first.submitted = st[arrived].done
  <2> DEFINE so == ReadUntilEmpty(st[0].piece, SubSeq(stream, 0 + 1, arrived))
  <2>1. /\ so.submitted \in Seq(Seq(C)) /\ so.unread = <<>>
        /\ so.buffer = st[arrived].piece
        /\ st[0].done \o so.submitted = st[arrived].done
    BY ONLY <1>4, Zenon DEF ReadsPart
  <2>2. so = first
    BY <1>5
  <2> HIDE DEF so, first
  <2> QED  BY ONLY <2>1, <2>2, Zenon
<1>7. first.submitted = st[arrived].done
  <2>1. <<>> \o first.submitted = first.submitted
    BY <1>6, ConcatEmptySeq
  <2> QED  BY ONLY <1>5, <1>6, <2>1, Zenon
<1>8. /\ later.unread = <<>>
      /\ later.buffer = st[n].piece
      /\ st[arrived].done \o later.submitted = st[n].done
  <2> DEFINE so == ReadUntilEmpty(st[arrived].piece, SubSeq(stream, arrived + 1, n))
  <2>1. /\ so.unread = <<>> /\ so.buffer = st[n].piece
        /\ st[arrived].done \o so.submitted = st[n].done
    BY ONLY <1>4, Zenon DEF ReadsPart
  <2> HIDE DEF first
  <2>2. so = later
    BY <1>6
  <2> HIDE DEF so, later
  <2> QED  BY ONLY <2>1, <2>2, Zenon
<1>9. \A k \in 0 .. Len(stream) :
          /\ st[k].piece \in Seq(C) /\ Len(st[k].piece) < BufferSize
          /\ Len(st[k].piece) \in Nat
  <2>1. \A k \in 0 .. Len(stream) : st[k] \in PieceStates(C)
    BY <1>1, StatesTyped
  <2> QED  BY <2>1 DEF PieceStates
<1> HIDE DEF first, later
<1>10. Room(first.buffer) > 0 /\ Room(later.buffer) > 0
  <2>1. /\ Len(first.buffer) \in Nat /\ Len(first.buffer) < BufferSize
        /\ Len(later.buffer) \in Nat /\ Len(later.buffer) < BufferSize
    BY <1>2, <1>6, <1>8, <1>9
  <2> QED  BY <2>1, BufferAssumption DEF Room
<1>11. /\ first.submitted \o later.submitted = pieces.done
      /\ later.buffer = pieces.piece
  BY ONLY <1>1, <1>7, <1>8, Zenon
<1> QED  BY ONLY <1>6, <1>8, <1>10, <1>11, Zenon DEF CutsInto, first, later, pieces, n

\* Every stream, of any length, is cut into its lines, or into full buffers where
\* a line is too long, wherever the FIFO runs empty between two reads
\* (server_main.c, process_buffered_lines).
THEOREM FramingTheorem == Spec => []FramingSound
<1>1. \A stream \in Streams : stream \in Seq({Letter, Newline})
  BY DEF Streams
<1>2. FramingSound
  BY <1>1, StreamIsCut DEF FramingSound
<1> QED  BY <1>2, PTL
=============================================================================
