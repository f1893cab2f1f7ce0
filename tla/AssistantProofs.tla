---------------------------- MODULE AssistantProofs ----------------------------
(***************************************************************************)
(* Proofs about the assistant, for every layout, branch, permission and    *)
(* bound: first the edits of termite.yml as functions of its lines and the *)
(* calls of the model, then the types of Assistant and its four            *)
(* invariants.                                                             *)
(***************************************************************************)
EXTENDS Assistant, LlmCall, SequenceTheorems, FiniteSetTheorems, WellFoundedInduction, TLAPS

\* The order of the numbers, as a relation.
Less == OpToRel(<, Nat)

\* A nonempty set of numbers has a least one.
LEMMA LeastIs ==
  ASSUME NEW S \in SUBSET Nat, S # {}
  PROVE  \E x \in S : \A y \in S : x <= y
<1>1. IsWellFoundedOn(Less, Nat)
  BY NatLessThanWellFounded DEF Less
<1>2. S \subseteq Nat
  OBVIOUS
<1>3. \E x \in S : \A y \in S : ~(<<y, x>> \in Less)
  BY <1>1, <1>2, WFMin
<1>4. PICK x \in S : \A y \in S : ~(<<y, x>> \in Less)
  BY <1>3
<1>5. ASSUME NEW y \in S PROVE x <= y
  <2>1. ~(<<y, x>> \in {p \in Nat \X Nat : p[1] < p[2]})
    BY <1>4 DEF Less, OpToRel
  <2> QED
    BY <2>1
<1> QED
  BY <1>5

\* A nonempty set of positions in a file has a first one.
LEMMA MinIs ==
  ASSUME NEW n \in Nat, NEW S \in SUBSET (1..n), S # {}
  PROVE  Min(S) \in S /\ \A y \in S : Min(S) <= y
<1>1. S \in SUBSET Nat
  OBVIOUS
<1> QED
  BY <1>1, LeastIs DEF Min

\* A nonempty set of positions in a file has a last one.
LEMMA MaxIs ==
  ASSUME NEW n \in Nat, NEW S \in SUBSET (1..n), S # {}
  PROVE  Max(S) \in S /\ \A y \in S : Max(S) >= y
<1>1. \A x \in S : n - x \in Nat
  OBVIOUS
<1>2. {n - x : x \in S} \in SUBSET Nat /\ {n - x : x \in S} # {}
  BY <1>1
<1>3. \E d \in {n - x : x \in S} : \A c \in {n - x : x \in S} : d <= c
  BY <1>2, LeastIs
<1>4. PICK m \in S : \A y \in S : n - m <= n - y
  BY <1>3
<1>5. \A y \in S : m >= y
  BY <1>4
<1> QED
  BY <1>5 DEF Max

-----------------------------------------------------------------------------
\* A line of a file whose sections and branches the code recognises.
Style(B) == {Blank, Item, Odd} \cup ({"name"} \X B \X {"plain", "quoted"})
                              \cup ({"key"} \X STRING \X {"bare"})

\* Such a file has no other lines.
LEMMA StyleIs ==
  ASSUME NEW B, NEW lines \in Seq(Line(B)), Recognised(lines)
  PROVE  lines \in Seq(Style(B))
<1>1. Len(lines) \in Nat /\ DOMAIN lines = 1..Len(lines)
  OBVIOUS
<1>2. ASSUME NEW i \in 1..Len(lines) PROVE lines[i] \in Style(B)
  <2>1. lines[i] \in Line(B)
    BY <1>1
  <2>2. CASE lines[i] \in {Blank, Item, Odd}
    BY <2>2 DEF Style
  <2>3. CASE lines[i] \in {"name"} \X B \X Spellings
    <3>1. i \in At(lines, "name")
      BY <1>1, <2>3 DEF At
    <3>2. lines[i][3] \in {"plain", "quoted"}
      BY <3>1 DEF Recognised
    <3> QED
      BY <2>3, <3>2 DEF Style
  <2>4. CASE lines[i] \in {"key"} \X STRING \X Forms
    <3>1. i \in At(lines, "key")
      BY <1>1, <2>4 DEF At
    <3>2. lines[i][3] = "bare"
      BY <3>1 DEF Recognised
    <3> QED
      BY <2>4, <3>2 DEF Style
  <2> QED
    BY <2>1, <2>2, <2>3, <2>4 DEF Line
<1> QED
  BY <1>1, <1>2, SeqDef

\* What WithoutBranch does to the lines from `start` up to `end`.
Cuts(lines, left, b, start, end) ==
    /\ start \in 1..Len(lines) /\ end \in (start + 1)..(Len(lines) + 1)
    /\ lines[start] = Name(b) /\ \A i \in 1..Len(lines) : lines[i] = Name(b) => start <= i
    /\ \A i \in (start + 1)..(end - 1) : lines[i][1] \notin {"name", "key"}
    /\ end <= Len(lines) => lines[end][1] \in {"name", "key"}
    /\ Len(left) = Len(lines) - (end - start)
    /\ \A i \in 1..Len(left) : left[i] = IF i < start THEN lines[i] ELSE lines[i + (end - start)]

\* What a line is can be told from its first part.
LEMMA NameOf ==
  ASSUME NEW B, NEW line \in Style(B)
  PROVE  /\ line[1] = "name" => line[2] \in B /\ line[3] \in {"plain", "quoted"}
         /\ (line[1] = "key") <=> (line = Key(line[2]))
         /\ line[1] = "key" => line[3] = "bare"
         /\ \A b : Name(b)[1] = "name" /\ Name(b)[2] = b
         /\ \A k : Key(k)[1] = "key" /\ Key(k)[2] = k
         /\ line = Blank => line[1] \notin {"name", "key"}
         /\ line = Item => line[1] \notin {"name", "key"}
         /\ line = Odd => line[1] \notin {"name", "key"}
BY DEF Style, Name, Key, Blank, Item, Odd

\* remove_branch_from_config cuts from the branch's first line to the next one that
\* begins something.
LEMMA RemovalCuts ==
  ASSUME NEW B, NEW lines \in Seq(Style(B)), NEW b, Found(lines, b)
  PROVE  /\ WithoutBranch(lines, b) \in Seq(Style(B))
         /\ \E start, end \in Nat : Cuts(lines, WithoutBranch(lines, b), b, start, end)
<1> DEFINE n == Len(lines)
           S == {i \in DOMAIN lines : lines[i] = Name(b)}
           s == Min(S)
           N == {i \in Begins(lines) : i > s}
           e == IF N = {} THEN n + 1 ELSE Min(N)
           left == SubSeq(lines, 1, s - 1) \o SubSeq(lines, e, n)
<1>1. n \in Nat /\ DOMAIN lines = 1..n /\ \A i \in 1..n : lines[i] \in Style(B)
  OBVIOUS
<1>2. S \in SUBSET (1..n) /\ S # {}
  BY <1>1 DEF Found
<1>3. s \in S /\ \A i \in S : s <= i
  BY <1>1, <1>2, MinIs
<1>4. s \in 1..n /\ lines[s] = Name(b) /\ \A i \in 1..n : lines[i] = Name(b) => s <= i
  BY <1>1, <1>2, <1>3
<1> HIDE DEF S, s
<1>5. Begins(lines) \in SUBSET (1..n)
      /\ \A i \in 1..n : i \in Begins(lines) <=> lines[i][1] \in {"name", "key"}
  <2>1. /\ \A i \in 1..n : lines[i][1] = "name" => lines[i][3] \in {"plain", "quoted"}
        /\ \A i \in 1..n : lines[i][1] = "key" => lines[i][3] = "bare"
    BY <1>1, NameOf
  <2> QED
    BY <1>1, <2>1 DEF Begins, At
<1>51. N \in SUBSET (1..n)
  BY <1>5
<1>6. N # {} => Min(N) \in N /\ \A i \in N : Min(N) <= i
  BY <1>1, <1>51, MinIs
<1>7. /\ e \in (s + 1)..(n + 1)
      /\ \A i \in (s + 1)..(e - 1) : lines[i][1] \notin {"name", "key"}
      /\ e <= n => lines[e][1] \in {"name", "key"}
  <2>1. \A i \in 1..n : i \in N <=> lines[i][1] \in {"name", "key"} /\ i > s
    BY <1>5
  <2>2. CASE N = {}
    <3>1. e = n + 1
      BY <2>2
    <3> QED
      BY <1>1, <1>4, <2>1, <2>2, <3>1
  <2>3. CASE N # {}
    <3>1. e \in N /\ \A i \in N : e <= i
      BY <1>6, <2>3
    <3>2. e \in 1..n
      BY <1>51, <3>1
    <3> HIDE DEF e, N
    <3> QED
      BY <1>1, <1>4, <2>1, <3>1, <3>2
  <2> QED
    BY <2>2, <2>3
<1> HIDE DEF N, e
<1> DEFINE u == SubSeq(lines, 1, s - 1)
           v == SubSeq(lines, e, n)
<1>8. /\ u \in Seq(Style(B)) /\ Len(u) = s - 1
      /\ \A i \in 1..(s - 1) : u[i] = lines[i]
  BY <1>1, <1>4, SubSeqProperties
<1>9. /\ v \in Seq(Style(B)) /\ Len(v) = n + 1 - e
      /\ \A i \in 1..(n + 1 - e) : v[i] = lines[e + i - 1]
  BY <1>1, <1>4, <1>7, SubSeqProperties
<1>10. u \o v = WithoutBranch(lines, b)
  BY DEF WithoutBranch, S, s, N, e
<1> HIDE DEF u, v, n
<1>11. /\ u \o v \in Seq(Style(B)) /\ Len(u \o v) = Len(u) + Len(v)
       /\ \A i \in 1..(Len(u) + Len(v)) : (u \o v)[i] = IF i <= Len(u) THEN u[i] ELSE v[i - Len(u)]
  BY <1>8, <1>9, ConcatProperties
<1>12. /\ Len(u \o v) = n - (e - s)
       /\ \A i \in 1..Len(u \o v) : (u \o v)[i] = IF i < s THEN lines[i] ELSE lines[i + (e - s)]
  <2>1. Len(u \o v) = n - (e - s) /\ Len(u) + Len(v) = n - (e - s)
    BY <1>1, <1>4, <1>7, <1>8, <1>9, <1>11
  <2>2. ASSUME NEW i \in 1..(n - (e - s)), i < s
        PROVE  (u \o v)[i] = lines[i]
    BY <1>1, <1>4, <1>7, <1>8, <1>11, <2>1, <2>2
  <2>3. ASSUME NEW i \in 1..(n - (e - s)), ~(i < s)
        PROVE  (u \o v)[i] = lines[i + (e - s)]
    <3>1. i - Len(u) \in 1..(n + 1 - e) /\ ~(i <= Len(u)) /\ e + (i - Len(u)) - 1 = i + (e - s)
      BY <1>1, <1>4, <1>7, <1>8, <2>3
    <3> QED
      BY <1>9, <1>11, <2>1, <3>1
  <2> QED
    BY <2>1, <2>2, <2>3
<1>13. Cuts(lines, u \o v, b, s, e) /\ s \in Nat /\ e \in Nat
  BY <1>1, <1>4, <1>7, <1>12 DEF Cuts, n
<1> QED
  BY <1>10, <1>11, <1>13

\* The elements of two sequences, one after the other.
LEMMA Joined ==
  ASSUME NEW S, NEW u \in Seq(S), NEW v \in Seq(S)
  PROVE  /\ u \o v \in Seq(S)
         /\ Len(u \o v) = Len(u) + Len(v)
         /\ \A i \in 1..Len(u) : (u \o v)[i] = u[i]
         /\ \A j \in 1..Len(v) : (u \o v)[Len(u) + j] = v[j]
<1>1. Len(u) \in Nat /\ Len(v) \in Nat
  OBVIOUS
<1>2. \A j \in 1..Len(v) : Len(u) + j \in 1..(Len(u) + Len(v)) /\ ~(Len(u) + j <= Len(u))
                            /\ Len(u) + j - Len(u) = j
  BY <1>1
<1> QED
  BY <1>1, <1>2, ConcatProperties

\* t is s with three elements more, the first of them at p.
Grown(S, s, p, x, y, z, t) ==
    /\ t \in Seq(S) /\ Len(t) = Len(s) + 3
    /\ \A i \in 1..(p - 1) : t[i] = s[i]
    /\ t[p] = x /\ t[p + 1] = y /\ t[p + 2] = z
    /\ \A i \in (p + 3)..Len(t) : t[i] = s[i - 3]

\* Three elements put before the one at p.
LEMMA Inserted ==
  ASSUME NEW S, NEW s \in Seq(S), NEW p \in 1..Len(s), NEW x \in S, NEW y \in S, NEW z \in S
  PROVE  Grown(S, s, p, x, y, z, SubSeq(s, 1, p - 1) \o <<x, y>> \o <<z>> \o SubSeq(s, p, Len(s)))
<1> DEFINE n == Len(s)
           t == SubSeq(s, 1, p - 1) \o <<x, y>> \o <<z>> \o SubSeq(s, p, Len(s))
           u == SubSeq(s, 1, p - 1)
           v == SubSeq(s, p, n)
           c == u \o <<x, y>>
           d == c \o <<z>>
<1>1. n \in Nat /\ \A i \in 1..n : s[i] \in S
  OBVIOUS
<1>2. \A f, g \in Seq(S) : /\ f \o g \in Seq(S) /\ Len(f \o g) = Len(f) + Len(g)
                            /\ \A i \in 1..Len(f) : (f \o g)[i] = f[i]
                            /\ \A j \in 1..Len(g) : (f \o g)[Len(f) + j] = g[j]
  BY Joined
<1>3. u \in Seq(S) /\ Len(u) = p - 1 /\ \A i \in 1..(p - 1) : u[i] = s[i]
  BY <1>1, SubSeqProperties
<1>4. v \in Seq(S) /\ Len(v) = n + 1 - p /\ \A j \in 1..(n + 1 - p) : v[j] = s[p + j - 1]
  BY <1>1, SubSeqProperties
<1>5. <<x, y>> \in Seq(S) /\ Len(<<x, y>>) = 2 /\ <<x, y>>[1] = x /\ <<x, y>>[2] = y
  OBVIOUS
<1>6. <<z>> \in Seq(S) /\ Len(<<z>>) = 1 /\ <<z>>[1] = z
  OBVIOUS
<1>7. t = d \o v
  OBVIOUS
<1> HIDE DEF u, v, t
<1>8. /\ c \in Seq(S) /\ Len(c) = p + 1
      /\ \A i \in 1..(p - 1) : c[i] = s[i]
      /\ c[p] = x /\ c[p + 1] = y
  <2> DEFINE a == <<x, y>>
  <2>1. a \in Seq(S) /\ Len(a) = 2 /\ a[1] = x /\ a[2] = y
    BY <1>5
  <2> HIDE DEF a
  <2>2. /\ u \o a \in Seq(S) /\ Len(u \o a) = Len(u) + Len(a)
        /\ \A i \in 1..Len(u) : (u \o a)[i] = u[i]
        /\ \A j \in 1..Len(a) : (u \o a)[Len(u) + j] = a[j]
    <3>1. u \in Seq(S) /\ a \in Seq(S)
      BY <1>3, <2>1
    <3> QED
      BY <3>1, Joined
  <2>3. c = u \o a
    BY DEF a
  <2>4. Len(u) = p - 1 /\ Len(u) + 1 = p /\ Len(u) + 2 = p + 1 /\ Len(u) + Len(a) = p + 1
    BY <1>1, <1>3, <2>1
  <2>5. (u \o a)[Len(u) + 1] = x /\ (u \o a)[Len(u) + 2] = y
    BY <2>1, <2>2
  <2> HIDE DEF c
  <2> QED
    BY <1>3, <2>2, <2>3, <2>4, <2>5
<1> HIDE DEF c
<1>9. /\ d \in Seq(S) /\ Len(d) = p + 2
      /\ \A i \in 1..(p - 1) : d[i] = s[i]
      /\ d[p] = x /\ d[p + 1] = y /\ d[p + 2] = z
  <2> DEFINE b == <<z>>
  <2>1. b \in Seq(S) /\ Len(b) = 1 /\ b[1] = z
    BY <1>6
  <2> HIDE DEF b
  <2>2. /\ c \o b \in Seq(S) /\ Len(c \o b) = Len(c) + Len(b)
        /\ \A i \in 1..Len(c) : (c \o b)[i] = c[i]
        /\ \A j \in 1..Len(b) : (c \o b)[Len(c) + j] = b[j]
    <3>1. c \in Seq(S) /\ b \in Seq(S)
      BY <1>8, <2>1
    <3> QED
      BY <3>1, Joined
  <2>3. d = c \o b
    BY DEF b
  <2>4. Len(c) + Len(b) = p + 2 /\ Len(c) + 1 = p + 2 /\ {p, p + 1} \subseteq 1..Len(c)
    BY <1>1, <1>8, <2>1
  <2>5. (c \o b)[Len(c) + 1] = z
    BY <2>1, <2>2
  <2>6. \A i \in 1..(p - 1) : i \in 1..Len(c)
    BY <1>1, <1>8
  <2> HIDE DEF d
  <2> QED
    BY <1>8, <2>2, <2>3, <2>4, <2>5, <2>6
<1> HIDE DEF d
<1>10. /\ t \in Seq(S) /\ Len(t) = n + 3
       /\ \A i \in 1..(p + 2) : t[i] = d[i]
       /\ \A j \in 1..(n + 1 - p) : t[p + 2 + j] = v[j]
  <2>1. /\ d \o v \in Seq(S) /\ Len(d \o v) = Len(d) + Len(v)
        /\ \A i \in 1..Len(d) : (d \o v)[i] = d[i]
        /\ \A j \in 1..Len(v) : (d \o v)[Len(d) + j] = v[j]
    <3>1. d \in Seq(S) /\ v \in Seq(S)
      BY <1>4, <1>9
    <3> QED
      BY <3>1, Joined
  <2>2. Len(d) = p + 2 /\ Len(v) = n + 1 - p /\ Len(d) + Len(v) = n + 3
    BY <1>1, <1>4, <1>9
  <2> QED
    BY <1>7, <2>1, <2>2
<1>11. ASSUME NEW i \in (p + 3)..(n + 3) PROVE t[i] = s[i - 3]
  <2>1. i - (p + 2) \in 1..(n + 1 - p) /\ p + 2 + (i - (p + 2)) = i /\ p + (i - (p + 2)) - 1 = i - 3
    BY <1>1
  <2>2. t[p + 2 + (i - (p + 2))] = s[p + (i - (p + 2)) - 1]
    BY <1>4, <1>10, <2>1
  <2> QED
    BY <2>1, <2>2
<1>12. p - 1 \in Nat /\ (\A i \in 1..(p - 1) : i \in 1..(p + 2)) /\ {p, p + 1, p + 2} \subseteq 1..(p + 2)
  BY <1>1
<1>13. Grown(S, s, p, x, y, z, t)
  BY <1>9, <1>10, <1>11, <1>12 DEF Grown
<1> QED
  BY <1>13 DEF t

\* Three elements put at the end.
LEMMA Added ==
  ASSUME NEW S, NEW s \in Seq(S), NEW x \in S, NEW y \in S, NEW z \in S
  PROVE  Grown(S, s, Len(s) + 1, x, y, z, s \o <<x>> \o <<y, z>>)
<1> DEFINE t == s \o <<x>> \o <<y, z>>
           a == <<x>>
           b == <<y, z>>
           c == s \o a
<1>1. Len(s) \in Nat
  OBVIOUS
<1>2. \A f, g \in Seq(S) : /\ f \o g \in Seq(S) /\ Len(f \o g) = Len(f) + Len(g)
                            /\ \A i \in 1..Len(f) : (f \o g)[i] = f[i]
                            /\ \A j \in 1..Len(g) : (f \o g)[Len(f) + j] = g[j]
  BY Joined
<1>3. a \in Seq(S) /\ Len(a) = 1 /\ a[1] = x
  OBVIOUS
<1>4. b \in Seq(S) /\ Len(b) = 2 /\ b[1] = y /\ b[2] = z
  OBVIOUS
<1>5. t = c \o b
  OBVIOUS
<1> HIDE DEF a, b, t
<1>6. /\ s \o a \in Seq(S) /\ Len(s \o a) = Len(s) + Len(a)
      /\ \A i \in 1..Len(s) : (s \o a)[i] = s[i]
      /\ \A j \in 1..Len(a) : (s \o a)[Len(s) + j] = a[j]
  <2>1. a \in Seq(S)
    BY <1>3
  <2> QED
    BY <2>1, Joined
<1>7. /\ c \in Seq(S) /\ Len(c) = Len(s) + 1
      /\ \A i \in 1..Len(s) : c[i] = s[i]
      /\ c[Len(s) + 1] = x
  BY <1>1, <1>3, <1>6
<1> HIDE DEF c
<1>8. /\ c \o b \in Seq(S) /\ Len(c \o b) = Len(c) + Len(b)
      /\ \A i \in 1..Len(c) : (c \o b)[i] = c[i]
      /\ \A j \in 1..Len(b) : (c \o b)[Len(c) + j] = b[j]
  <2>1. b \in Seq(S) /\ c \in Seq(S)
    BY <1>4, <1>7
  <2> QED
    BY <2>1, Joined
<1>9. Grown(S, s, Len(s) + 1, x, y, z, t)
  BY <1>1, <1>4, <1>5, <1>7, <1>8 DEF Grown
<1> QED
  BY <1>9 DEF t

\* What WithBranch does at line `at`: three lines, of which `new` is the branch's.
Puts(lines, more, b, rest, at, new) ==
    /\ at \in 1..(Len(lines) + 1) /\ new \in {at, at + 1}
    /\ Len(more) = Len(lines) + 3
    /\ \A i \in 1..(at - 1) : more[i] = lines[i]
    /\ \A i \in (at + 3)..Len(more) : more[i] = lines[i - 3]
    /\ more[new] = Name(b)
    /\ \A i \in at..(at + 2) : i # new => /\ more[i] \in {Blank, rest}
                                           /\ more[i][1] \notin {"name", "key"}

\* add_or_replace_branch_in_config puts three lines before the first marker, or at
\* the end.
LEMMA InsertionPuts ==
  ASSUME NEW B, NEW lines \in Seq(Style(B)), NEW b \in B, NEW rest \in Rests
  PROVE  /\ WithBranch(lines, b, rest) \in Seq(Style(B))
         /\ Markers(lines) # {} => Puts(lines, WithBranch(lines, b, rest), b, rest, Min(Markers(lines)), Min(Markers(lines)))
         /\ Markers(lines) = {} => Puts(lines, WithBranch(lines, b, rest), b, rest, Len(lines) + 1, Len(lines) + 2)
<1> DEFINE n == Len(lines)
<1>1. n \in Nat /\ DOMAIN lines = 1..n /\ \A i \in 1..n : lines[i] \in Style(B)
  OBVIOUS
<1>2. Name(b) \in Style(B) /\ rest \in Style(B) /\ Blank \in Style(B)
  BY DEF Style, Name, Rests
<1>3. rest[1] \notin {"name", "key"} /\ Blank[1] \notin {"name", "key"}
  BY DEF Rests, Item, Odd, Blank
<1>4. CASE Markers(lines) # {}
  <2> DEFINE p == Min(Markers(lines))
             more == WithBranch(lines, b, rest)
  <2>1. Markers(lines) \in SUBSET (1..n)
    BY <1>1 DEF Markers
  <2>2. p \in 1..n
    BY <1>1, <1>4, <2>1, MinIs
  <2>3. more = SubSeq(lines, 1, p - 1) \o <<Name(b), rest>> \o <<Blank>> \o SubSeq(lines, p, Len(lines))
    BY <1>4 DEF WithBranch, Block
  <2> HIDE DEF p, more
  <2>4. /\ more \in Seq(Style(B)) /\ Len(more) = n + 3
        /\ \A i \in 1..(p - 1) : more[i] = lines[i]
        /\ more[p] = Name(b) /\ more[p + 1] = rest /\ more[p + 2] = Blank
        /\ \A i \in (p + 3)..Len(more) : more[i] = lines[i - 3]
    <3>1. Grown(Style(B), lines, p, Name(b), rest, Blank, more)
      BY <1>2, <2>2, <2>3, Inserted
    <3> QED
      BY <3>1 DEF Grown
  <2>5. Puts(lines, more, b, rest, p, p)
    <3>1. \A i \in p..(p + 2) : i # p => i = p + 1 \/ i = p + 2
      BY <2>2
    <3>2. \A i \in p..(p + 2) : i # p => more[i] \in {Blank, rest} /\ more[i][1] \notin {"name", "key"}
      BY <1>3, <2>4, <3>1
    <3>3. p \in 1..(Len(lines) + 1) /\ p \in {p, p + 1}
      BY <1>1, <2>2
    <3> QED
      BY <2>4, <3>2, <3>3 DEF Puts
  <2> QED
    BY <1>4, <2>4, <2>5 DEF p, more
<1>5. CASE Markers(lines) = {}
  <2> DEFINE more == WithBranch(lines, b, rest)
  <2>1. more = lines \o <<Blank>> \o <<Name(b), rest>>
    BY <1>5 DEF WithBranch, Block
  <2> HIDE DEF more
  <2>2. /\ more \in Seq(Style(B)) /\ Len(more) = n + 3
        /\ \A i \in 1..n : more[i] = lines[i]
        /\ more[n + 1] = Blank /\ more[n + 2] = Name(b) /\ more[n + 3] = rest
    <3>1. Grown(Style(B), lines, n + 1, Blank, Name(b), rest, more)
      BY <1>2, <2>1, Added
    <3> QED
      BY <1>1, <3>1 DEF Grown
  <2>3. Puts(lines, more, b, rest, n + 1, n + 2)
    BY <1>1, <1>3, <2>2 DEF Puts
  <2> QED
    BY <1>5, <2>2, <2>3 DEF more
<1> QED
  BY <1>4, <1>5

-----------------------------------------------------------------------------
\* Line i stands in the section `branches`.
InBranches(lines, i) ==
    \E k \in 1..Len(lines) :
      /\ k <= i /\ lines[k] = Key("branches")
      /\ \A j \in 1..Len(lines) : k < j /\ j <= i => lines[j][1] # "key"

\* The section of a line is the one of the last key above it.
LEMMA SectionIs ==
  ASSUME NEW B, NEW lines \in Seq(Style(B)), NEW i \in 1..Len(lines)
  PROVE  Section(lines, i) = "branches" <=> InBranches(lines, i)
<1> DEFINE n == Len(lines)
           above == {k \in At(lines, "key") : k <= i}
<1>1. n \in Nat /\ DOMAIN lines = 1..n /\ \A j \in 1..n : lines[j] \in Style(B)
  OBVIOUS
<1>2. above \in SUBSET (1..n) /\ \A k \in 1..n : k \in above <=> lines[k][1] = "key" /\ k <= i
  BY <1>1 DEF At
<1>3. \A k \in 1..n : lines[k] = Key("branches") <=> lines[k][1] = "key" /\ lines[k][2] = "branches"
  BY <1>1, NameOf
<1>4. CASE above = {}
  <2>1. Section(lines, i) = "none"
    BY <1>4 DEF Section
  <2>2. ~InBranches(lines, i)
    BY <1>2, <1>3, <1>4 DEF InBranches
  <2> QED
    BY <2>1, <2>2
<1>5. CASE above # {}
  <2> DEFINE m == Max(above)
  <2>1. m \in above /\ \A k \in above : m >= k
    BY <1>1, <1>2, <1>5, MaxIs
  <2>2. Section(lines, i) = lines[m][2]
    BY <1>5 DEF Section
  <2> HIDE DEF m, above
  <2>3. m \in 1..n /\ m <= i /\ lines[m][1] = "key"
    BY <1>2, <2>1
  <2>4. \A j \in 1..n : m < j /\ j <= i => lines[j][1] # "key"
    BY <1>1, <1>2, <2>1, <2>3
  <2>5. ASSUME lines[m][2] = "branches" PROVE InBranches(lines, i)
    BY <1>3, <2>3, <2>4, <2>5 DEF InBranches
  <2>6. ASSUME InBranches(lines, i) PROVE lines[m][2] = "branches"
    <3>1. PICK k \in 1..n : /\ k <= i /\ lines[k] = Key("branches")
                            /\ \A j \in 1..n : k < j /\ j <= i => lines[j][1] # "key"
      BY <2>6 DEF InBranches
    <3>2. lines[k][1] = "key" /\ lines[k][2] = "branches"
      BY <1>3, <3>1
    <3>3. k = m
      BY <1>1, <2>3, <2>4, <3>1, <3>2
    <3> QED
      BY <3>2, <3>3
  <2> QED
    BY <2>2, <2>5, <2>6
<1> QED
  BY <1>4, <1>5

\* Parses, by lines.
Readable(lines) ==
    /\ \A i \in 1..Len(lines) : lines[i] # Odd
    /\ "repo" \in Keys(lines)
    /\ \A i, j \in 1..Len(lines) : lines[i][1] = "key" /\ lines[i] = lines[j] => i = j
    /\ \A i \in 1..Len(lines) : lines[i][1] = "name" => InBranches(lines, i)

\* The two say the same of such a file.
LEMMA ParsesIs ==
  ASSUME NEW B, NEW lines \in Seq(Style(B))
  PROVE  Parses(lines) <=> Readable(lines)
<1>1. Len(lines) \in Nat /\ DOMAIN lines = 1..Len(lines) /\ \A i \in 1..Len(lines) : lines[i] \in Style(B)
  OBVIOUS
<1>2. \A kind : \A i : i \in At(lines, kind) <=> i \in 1..Len(lines) /\ lines[i][1] = kind
  BY <1>1 DEF At
<1>3. \A i \in 1..Len(lines) : Section(lines, i) = "branches" <=> InBranches(lines, i)
  BY SectionIs
<1>4. \A i \in At(lines, "name") : lines[i][3] # "flush"
  BY <1>1, <1>2, NameOf
<1>5. \A i \in At(lines, "key") : lines[i] # <<"key", "branches", "value">>
  BY <1>1, <1>2, NameOf
<1>6. \A i, j \in At(lines, "key") : lines[i] = lines[j] <=> lines[i][2] = lines[j][2]
  <2>1. \A i \in At(lines, "key") : lines[i] = Key(lines[i][2])
    BY <1>1, <1>2, NameOf
  <2> QED
    BY <2>1
<1>7. \A i, j \in 1..Len(lines) : lines[i][1] = "key" /\ lines[i] = lines[j] => lines[j][1] = "key"
  OBVIOUS
<1>8. (\A i, j \in At(lines, "key") : lines[i][2] = lines[j][2] => i = j)
        <=> \A i, j \in 1..Len(lines) : lines[i][1] = "key" /\ lines[i] = lines[j] => i = j
  BY <1>2, <1>6, <1>7
<1>9. (\A i \in At(lines, "name") : Section(lines, i) = "branches")
        <=> \A i \in 1..Len(lines) : lines[i][1] = "name" => InBranches(lines, i)
  BY <1>2, <1>3
<1> QED
  BY <1>1, <1>4, <1>5, <1>8, <1>9 DEF Parses, Readable

-----------------------------------------------------------------------------
\* What is listed has a line, and what has a line is listed.
LEMMA ListedByLine ==
  ASSUME NEW B, NEW lines \in Seq(Style(B))
  PROVE  /\ \A x : x \in Names(lines) <=> \E i \in 1..Len(lines) : lines[i][1] = "name" /\ lines[i][2] = x
         /\ \A x : x \in Keys(lines) <=> \E i \in 1..Len(lines) : lines[i] = Key(x)
<1>1. Len(lines) \in Nat /\ DOMAIN lines = 1..Len(lines) /\ \A i \in 1..Len(lines) : lines[i] \in Style(B)
  OBVIOUS
<1>2. \A i \in 1..Len(lines) : \A x : lines[i] = Key(x) <=> lines[i][1] = "key" /\ lines[i][2] = x
  BY <1>1, NameOf
<1>3. \A x : x \in Names(lines) <=> \E i \in 1..Len(lines) : lines[i][1] = "name" /\ lines[i][2] = x
  BY <1>1 DEF Names, At
<1>4. \A x : x \in Keys(lines) <=> \E i \in 1..Len(lines) : lines[i][1] = "key" /\ lines[i][2] = x
  BY <1>1 DEF Keys, At
<1> QED
  BY <1>2, <1>3, <1>4

\* Where the lines that are left come from, and where the others go.
Moved(lines, left, s, e) ==
    /\ \A i \in 1..Len(left) : \E j \in 1..Len(lines) :
         left[i] = lines[j] /\ ((j = i /\ j < s) \/ (j = i + (e - s) /\ e <= j))
    /\ \A j \in 1..Len(lines) : j < s \/ e <= j => \E i \in 1..Len(left) :
         left[i] = lines[j] /\ ((j = i /\ j < s) \/ (j = i + (e - s) /\ e <= j))

\* A removal moves the lines so.
LEMMA CutMaps ==
  ASSUME NEW B, NEW lines \in Seq(Style(B)), NEW left \in Seq(Style(B)), NEW b, NEW s, NEW e,
         Cuts(lines, left, b, s, e)
  PROVE  Moved(lines, left, s, e)
<1>1. /\ Len(lines) \in Nat /\ s \in 1..Len(lines) /\ e \in (s + 1)..(Len(lines) + 1)
      /\ Len(left) = Len(lines) - (e - s)
      /\ \A i \in 1..Len(left) : left[i] = IF i < s THEN lines[i] ELSE lines[i + (e - s)]
  <2>1. Len(lines) \in Nat
    OBVIOUS
  <2> QED
    BY <2>1, Zenon DEF Cuts
<1>2. ASSUME NEW i \in 1..Len(left)
      PROVE  \E j \in 1..Len(lines) :
               left[i] = lines[j] /\ ((j = i /\ j < s) \/ (j = i + (e - s) /\ e <= j))
  <2>1. CASE i < s
    BY <1>1, <2>1
  <2>2. CASE ~(i < s)
    <3>1. i + (e - s) \in 1..Len(lines) /\ e <= i + (e - s)
      BY <1>1, <2>2
    <3> QED
      BY <1>1, <2>2, <3>1
  <2> QED
    BY <2>1, <2>2
<1>3. ASSUME NEW j \in 1..Len(lines), j < s \/ e <= j
      PROVE  \E i \in 1..Len(left) :
               left[i] = lines[j] /\ ((j = i /\ j < s) \/ (j = i + (e - s) /\ e <= j))
  <2>1. CASE j < s
    <3>1. j \in 1..Len(left)
      BY <1>1, <2>1
    <3> QED
      BY <1>1, <2>1, <3>1
  <2>2. CASE e <= j
    <3>1. j - (e - s) \in 1..Len(left) /\ ~(j - (e - s) < s) /\ j = j - (e - s) + (e - s)
      BY <1>1, <2>2
    <3> QED
      BY <1>1, <2>2, <3>1
  <2> QED
    BY <1>3, <2>1, <2>2
<1> QED
  BY <1>2, <1>3 DEF Moved

\* Nothing but lines of the branch's block is cut.
LEMMA CutKeepsOthers ==
  ASSUME NEW B, NEW lines \in Seq(Style(B)), NEW left \in Seq(Style(B)), NEW b, NEW s, NEW e,
         Cuts(lines, left, b, s, e)
  PROVE  /\ Keys(left) = Keys(lines)
         /\ Names(left) \ {b} = Names(lines) \ {b}
<1>0. Moved(lines, left, s, e)
  BY CutMaps
<1>1. /\ Len(lines) \in Nat /\ s \in 1..Len(lines) /\ e \in (s + 1)..(Len(lines) + 1)
      /\ lines[s] = Name(b) /\ \A i \in (s + 1)..(e - 1) : lines[i][1] \notin {"name", "key"}
  BY DEF Cuts
<1>2. ASSUME NEW x PROVE x \in Keys(left) <=> x \in Keys(lines)
  <2>1. \A j \in 1..Len(lines) : lines[j] = Key(x) => j < s \/ e <= j
    BY <1>1, NameOf DEF Name, Key
  <2>2. (\E i \in 1..Len(left) : left[i] = Key(x)) <=> \E j \in 1..Len(lines) : lines[j] = Key(x)
    BY <1>0, <2>1 DEF Moved
  <2> QED
    BY <2>2, ListedByLine
<1>3. ASSUME NEW x, x # b PROVE x \in Names(left) <=> x \in Names(lines)
  <2>1. \A j \in 1..Len(lines) : lines[j][1] = "name" /\ lines[j][2] = x => j < s \/ e <= j
    BY <1>1, <1>3 DEF Name
  <2> DEFINE Is(line) == line[1] = "name" /\ line[2] = x
  <2>2. /\ x \in Names(left) <=> \E i \in 1..Len(left) : Is(left[i])
        /\ x \in Names(lines) <=> \E j \in 1..Len(lines) : Is(lines[j])
    BY ListedByLine
  <2>3. \A j \in 1..Len(lines) : Is(lines[j]) => j < s \/ e <= j
    BY <2>1
  <2> HIDE DEF Is
  <2> QED
    BY <1>0, <2>2, <2>3 DEF Moved
<1> QED
  BY <1>2, <1>3

\* A branch that is listed once has one line.
LEMMA ListedOnceIs ==
  ASSUME NEW B, NEW lines \in Seq(Style(B)), ListedOnce(lines),
         NEW i \in 1..Len(lines), NEW j \in 1..Len(lines), NEW b,
         lines[i][1] = "name", lines[j][1] = "name", lines[i][2] = b, lines[j][2] = b
  PROVE  i = j
<1> DEFINE f == [k \in At(lines, "name") |-> lines[k][2]]
<1>1. Len(lines) \in Nat /\ DOMAIN lines = 1..Len(lines)
  OBVIOUS
<1>2. At(lines, "name") \subseteq 1..Len(lines)
  BY <1>1 DEF At
<1>3. IsFiniteSet(At(lines, "name"))
  <2>1. IsFiniteSet(1..Len(lines))
    BY <1>1, FS_Interval
  <2> QED
    BY <1>2, <2>1, FS_Subset
<1>4. f \in Surjection(At(lines, "name"), Names(lines))
  BY DEF Surjection, Names
<1>5. f \in Injection(At(lines, "name"), Names(lines))
  BY <1>3, <1>4, FS_SurjSameCardinalityImpliesInj DEF ListedOnce
<1>6. i \in At(lines, "name") /\ j \in At(lines, "name")
  BY <1>1 DEF At
<1>7. f[i] = b /\ f[j] = b
  BY <1>6
<1> QED
  BY <1>5, <1>6, <1>7 DEF Injection, IsInjective

\* A branch that is listed once is gone.
LEMMA CutRemoves ==
  ASSUME NEW B, NEW lines \in Seq(Style(B)), NEW left \in Seq(Style(B)), NEW b, NEW s, NEW e,
         Cuts(lines, left, b, s, e), ListedOnce(lines)
  PROVE  b \notin Names(left)
<1>1. /\ Len(lines) \in Nat /\ s \in 1..Len(lines) /\ e \in (s + 1)..(Len(lines) + 1)
      /\ lines[s] = Name(b)
  BY DEF Cuts
<1>2. SUFFICES ASSUME NEW i \in 1..Len(left), left[i][1] = "name", left[i][2] = b PROVE FALSE
  BY ListedByLine
<1>3. PICK j \in 1..Len(lines) : lines[j][1] = "name" /\ lines[j][2] = b /\ (j < s \/ e <= j)
  <2>1. Moved(lines, left, s, e)
    BY CutMaps
  <2> QED
    BY <1>2, <2>1 DEF Moved
<1>4. lines[s][1] = "name" /\ lines[s][2] = b
  BY <1>1 DEF Name
<1>5. j = s
  BY <1>1, <1>3, <1>4, ListedOnceIs, Zenon
<1> QED
  BY <1>1, <1>3, <1>5

\* What is left can be read: no section has lost its key.
LEMMA CutReads ==
  ASSUME NEW B, NEW lines \in Seq(Style(B)), NEW left \in Seq(Style(B)), NEW b, NEW s, NEW e,
         Cuts(lines, left, b, s, e), Readable(lines)
  PROVE  Readable(left)
<1>1. /\ Len(lines) \in Nat /\ Len(left) \in Nat /\ s \in 1..Len(lines) /\ e \in (s + 1)..(Len(lines) + 1)
      /\ lines[s] = Name(b) /\ \A i \in s..(e - 1) : lines[i][1] # "key"
  <2>1. /\ s \in 1..Len(lines) /\ e \in (s + 1)..(Len(lines) + 1) /\ lines[s] = Name(b)
        /\ \A i \in (s + 1)..(e - 1) : lines[i][1] \notin {"name", "key"}
    BY Zenon DEF Cuts
  <2>2. Len(lines) \in Nat /\ Len(left) \in Nat
    OBVIOUS
  <2>3. \A i \in s..(e - 1) : i = s \/ i \in (s + 1)..(e - 1)
    BY <2>1, <2>2
  <2>4. lines[s][1] # "key"
    BY <2>1 DEF Name
  <2>5. \A i \in s..(e - 1) : lines[i][1] # "key"
    BY <2>1, <2>3, <2>4, Zenon
  <2> QED
    BY <2>1, <2>2, <2>5
<1>2. Moved(lines, left, s, e)
  BY CutMaps
<1>3. ASSUME NEW i \in 1..Len(left), NEW j \in 1..Len(lines), left[i] = lines[j],
             (j = i /\ j < s) \/ (j = i + (e - s) /\ e <= j), InBranches(lines, j)
      PROVE  InBranches(left, i)
  <2>1. PICK k \in 1..Len(lines) : /\ k <= j /\ lines[k] = Key("branches")
                                   /\ \A h \in 1..Len(lines) : k < h /\ h <= j => lines[h][1] # "key"
    BY <1>3 DEF InBranches
  <2>2. k < s \/ e <= k
    <3>1. lines[k][1] = "key"
      BY <2>1 DEF Key
    <3>2. k \notin s..(e - 1)
      BY <1>1, <3>1
    <3> QED
      BY <1>1, <3>2
  <2>3. PICK m \in 1..Len(left) : left[m] = lines[k] /\ ((k = m /\ k < s) \/ (k = m + (e - s) /\ e <= k))
    BY <1>2, <2>2 DEF Moved
  <2>4. m <= i
    BY <1>1, <1>3, <2>1, <2>3
  <2>5. ASSUME NEW h \in 1..Len(left), m < h, h <= i PROVE left[h][1] # "key"
    <3>1. PICK g \in 1..Len(lines) : left[h] = lines[g] /\ ((g = h /\ g < s) \/ (g = h + (e - s) /\ e <= g))
      BY <1>2 DEF Moved
    <3>2. k < g /\ g <= j
      BY <1>1, <1>3, <2>3, <2>5, <3>1
    <3> QED
      BY <2>1, <3>1, <3>2
  <2> QED
    BY <2>1, <2>3, <2>4, <2>5 DEF InBranches
<1>4. ASSUME NEW i \in 1..Len(left), left[i][1] = "name" PROVE InBranches(left, i)
  <2>1. PICK j \in 1..Len(lines) : left[i] = lines[j] /\ ((j = i /\ j < s) \/ (j = i + (e - s) /\ e <= j))
    BY <1>2 DEF Moved
  <2>2. InBranches(lines, j)
    BY <1>4, <2>1 DEF Readable
  <2> QED
    BY <1>3, <2>1, <2>2
<1>5. ASSUME NEW i \in 1..Len(left), NEW j \in 1..Len(left), left[i][1] = "key", left[i] = left[j]
      PROVE  i = j
  <2>1. PICK g \in 1..Len(lines) : left[i] = lines[g] /\ ((g = i /\ g < s) \/ (g = i + (e - s) /\ e <= g))
    BY <1>2 DEF Moved
  <2>2. PICK h \in 1..Len(lines) : left[j] = lines[h] /\ ((h = j /\ h < s) \/ (h = j + (e - s) /\ e <= h))
    BY <1>2 DEF Moved
  <2>3. g = h
    BY <1>5, <2>1, <2>2 DEF Readable
  <2> QED
    BY <1>1, <2>1, <2>2, <2>3
<1>6. "repo" \in Keys(left)
  BY CutKeepsOthers DEF Readable
<1>7. \A i \in 1..Len(left) : left[i] # Odd
  BY <1>2 DEF Moved, Readable
<1> QED
  BY <1>4, <1>5, <1>6, <1>7 DEF Readable

-----------------------------------------------------------------------------
\* Where the lines come from when three are put among them, and where they go.
Shifted(lines, more, p) ==
    /\ \A i \in 1..Len(more) : i \in p..(p + 2) \/ \E j \in 1..Len(lines) :
         more[i] = lines[j] /\ ((j = i /\ j < p) \/ (i = j + 3 /\ p <= j))
    /\ \A j \in 1..Len(lines) : \E i \in 1..Len(more) :
         more[i] = lines[j] /\ ((j = i /\ j < p) \/ (i = j + 3 /\ p <= j))

\* An addition moves the lines so.
LEMMA PutMaps ==
  ASSUME NEW B, NEW lines \in Seq(Style(B)), NEW more \in Seq(Style(B)), NEW b, NEW rest, NEW p, NEW q,
         Puts(lines, more, b, rest, p, q)
  PROVE  Shifted(lines, more, p)
<1>1. /\ Len(lines) \in Nat /\ p \in 1..(Len(lines) + 1) /\ Len(more) = Len(lines) + 3
      /\ \A i \in 1..(p - 1) : more[i] = lines[i]
      /\ \A i \in (p + 3)..Len(more) : more[i] = lines[i - 3]
  BY DEF Puts
<1>2. ASSUME NEW i \in 1..Len(more), i \notin p..(p + 2)
      PROVE  \E j \in 1..Len(lines) : more[i] = lines[j] /\ ((j = i /\ j < p) \/ (i = j + 3 /\ p <= j))
  <2>1. CASE i < p
    BY <1>1, <2>1
  <2>2. CASE i >= p + 3
    <3>1. i - 3 \in 1..Len(lines) /\ p <= i - 3 /\ i = i - 3 + 3 /\ more[i] = lines[i - 3]
      BY <1>1, <2>2
    <3> QED
      BY <3>1
  <2> QED
    BY <1>1, <1>2, <2>1, <2>2
<1>3. ASSUME NEW j \in 1..Len(lines)
      PROVE  \E i \in 1..Len(more) : more[i] = lines[j] /\ ((j = i /\ j < p) \/ (i = j + 3 /\ p <= j))
  <2>1. CASE j < p
    BY <1>1, <2>1
  <2>2. CASE p <= j
    <3>1. j + 3 \in (p + 3)..Len(more) /\ j + 3 \in 1..Len(more) /\ j + 3 - 3 = j
      BY <1>1, <2>2
    <3> QED
      BY <1>1, <2>2, <3>1
  <2> QED
    BY <1>1, <2>1, <2>2
<1> QED
  BY <1>2, <1>3 DEF Shifted

\* The branch joins those that are listed.
LEMMA PutAdds ==
  ASSUME NEW B, NEW lines \in Seq(Style(B)), NEW more \in Seq(Style(B)), NEW b, NEW rest, NEW p, NEW q,
         Puts(lines, more, b, rest, p, q)
  PROVE  /\ Keys(more) = Keys(lines)
         /\ Names(more) = Names(lines) \cup {b}
<1>1. Shifted(lines, more, p)
  BY PutMaps
<1>2. /\ Len(lines) \in Nat /\ p \in 1..(Len(lines) + 1) /\ Len(more) = Len(lines) + 3
      /\ q \in {p, p + 1} /\ more[q] = Name(b)
      /\ \A i \in p..(p + 2) : i # q => more[i][1] \notin {"name", "key"}
  BY DEF Puts
<1>3. ASSUME NEW x PROVE x \in Keys(more) <=> x \in Keys(lines)
  <2>1. \A i \in p..(p + 2) : more[i] # Key(x)
    BY <1>2 DEF Name, Key
  <2>2. (\E i \in 1..Len(more) : more[i] = Key(x)) <=> \E j \in 1..Len(lines) : lines[j] = Key(x)
    BY <1>1, <2>1 DEF Shifted
  <2> QED
    BY <2>2, ListedByLine
<1>4. ASSUME NEW x, x # b PROVE x \in Names(more) <=> x \in Names(lines)
  <2>1. \A i \in p..(p + 2) : ~(more[i][1] = "name" /\ more[i][2] = x)
    BY <1>2, <1>4 DEF Name
  <2>2. (\E i \in 1..Len(more) : more[i][1] = "name" /\ more[i][2] = x)
          <=> \E j \in 1..Len(lines) : lines[j][1] = "name" /\ lines[j][2] = x
    BY <1>1, <2>1 DEF Shifted
  <2> QED
    BY <2>2, ListedByLine
<1>5. b \in Names(more)
  <2>1. q \in 1..Len(more)
    BY <1>2
  <2> QED
    BY <1>2, <2>1, ListedByLine DEF Name
<1> QED
  BY <1>3, <1>4, <1>5

\* Line p follows lines of the section `branches`.
Room(lines, p) ==
    \E k \in 1..Len(lines) :
      /\ k < p /\ lines[k] = Key("branches")
      /\ \A j \in 1..Len(lines) : k < j /\ j < p => lines[j][1] # "key"

\* A block that is put there can be read, and so can the rest.
LEMMA PutReads ==
  ASSUME NEW B, NEW lines \in Seq(Style(B)), NEW more \in Seq(Style(B)), NEW b, NEW rest, NEW p, NEW q,
         Puts(lines, more, b, rest, p, q), Readable(lines), Room(lines, p), rest # Odd
  PROVE  Readable(more)
<1>1. Shifted(lines, more, p)
  BY PutMaps
<1>2. /\ Len(lines) \in Nat /\ p \in 1..(Len(lines) + 1) /\ Len(more) = Len(lines) + 3
      /\ q \in {p, p + 1} /\ more[q] = Name(b)
      /\ \A i \in p..(p + 2) : more[i][1] # "key"
      /\ \A i \in p..(p + 2) : i # q => more[i][1] # "name"
  BY DEF Puts, Name
<1>3. ASSUME NEW i \in 1..Len(more), NEW j \in 1..Len(lines), more[i] = lines[j],
             (j = i /\ j < p) \/ (i = j + 3 /\ p <= j), InBranches(lines, j)
      PROVE  InBranches(more, i)
  <2>1. PICK k \in 1..Len(lines) : /\ k <= j /\ lines[k] = Key("branches")
                                   /\ \A h \in 1..Len(lines) : k < h /\ h <= j => lines[h][1] # "key"
    BY <1>3 DEF InBranches
  <2>2. PICK m \in 1..Len(more) : more[m] = lines[k] /\ ((k = m /\ k < p) \/ (m = k + 3 /\ p <= k))
    BY <1>1 DEF Shifted
  <2>3. m <= i
    BY <1>2, <1>3, <2>1, <2>2
  <2>4. ASSUME NEW h \in 1..Len(more), m < h, h <= i PROVE more[h][1] # "key"
    <3>1. CASE h \in p..(p + 2)
      BY <1>2, <3>1
    <3>2. CASE h \notin p..(p + 2)
      <4>1. PICK g \in 1..Len(lines) : more[h] = lines[g] /\ ((g = h /\ g < p) \/ (h = g + 3 /\ p <= g))
        BY <1>1, <3>2 DEF Shifted
      <4>2. k < g /\ g <= j
        BY <1>2, <1>3, <2>2, <2>4, <4>1
      <4> QED
        BY <2>1, <4>1, <4>2
    <3> QED
      BY <3>1, <3>2
  <2> QED
    BY <2>1, <2>2, <2>3, <2>4 DEF InBranches
<1>4. InBranches(more, q)
  <2>1. PICK k \in 1..Len(lines) : /\ k < p /\ lines[k] = Key("branches")
                                   /\ \A j \in 1..Len(lines) : k < j /\ j < p => lines[j][1] # "key"
    BY DEF Room
  <2>2. k \in 1..Len(more) /\ more[k] = Key("branches") /\ k <= q
    <3>1. k \in 1..(p - 1)
      BY <1>2, <2>1
    <3>2. more[k] = lines[k]
      BY <3>1 DEF Puts
    <3> QED
      BY <1>2, <2>1, <3>1, <3>2
  <2>3. ASSUME NEW h \in 1..Len(more), k < h, h <= q PROVE more[h][1] # "key"
    <3>1. CASE h < p
      <4>1. h \in 1..Len(lines) /\ h \in 1..(p - 1)
        BY <1>2, <3>1
      <4>2. more[h] = lines[h]
        BY <4>1 DEF Puts
      <4> QED
        BY <2>1, <2>3, <3>1, <4>1, <4>2
    <3>2. CASE ~(h < p)
      <4>1. h \in p..(p + 2)
        BY <1>2, <2>3, <3>2
      <4> QED
        BY <1>2, <4>1
    <3> QED
      BY <3>1, <3>2
  <2> QED
    BY <2>2, <2>3 DEF InBranches
<1>5. ASSUME NEW i \in 1..Len(more), more[i][1] = "name" PROVE InBranches(more, i)
  <2>1. CASE i \in p..(p + 2)
    BY <1>2, <1>4, <1>5, <2>1
  <2>2. CASE i \notin p..(p + 2)
    <3>1. PICK j \in 1..Len(lines) : more[i] = lines[j] /\ ((j = i /\ j < p) \/ (i = j + 3 /\ p <= j))
      BY <1>1, <2>2 DEF Shifted
    <3>2. InBranches(lines, j)
      BY <1>5, <3>1 DEF Readable
    <3> QED
      BY <1>3, <3>1, <3>2
  <2> QED
    BY <2>1, <2>2
<1>6. ASSUME NEW i \in 1..Len(more), NEW j \in 1..Len(more), more[i][1] = "key", more[i] = more[j]
      PROVE  i = j
  <2>1. i \notin p..(p + 2) /\ j \notin p..(p + 2)
    BY <1>2, <1>6
  <2>2. PICK g \in 1..Len(lines) : more[i] = lines[g] /\ ((g = i /\ g < p) \/ (i = g + 3 /\ p <= g))
    BY <1>1, <2>1 DEF Shifted
  <2>3. PICK h \in 1..Len(lines) : more[j] = lines[h] /\ ((h = j /\ h < p) \/ (j = h + 3 /\ p <= h))
    BY <1>1, <2>1 DEF Shifted
  <2>4. g = h
    BY <1>6, <2>2, <2>3 DEF Readable
  <2> QED
    BY <1>2, <2>2, <2>3, <2>4
<1>7. "repo" \in Keys(more)
  BY PutAdds DEF Readable
<1>8. ASSUME NEW i \in 1..Len(more) PROVE more[i] # Odd
  <2>1. CASE i \in p..(p + 2)
    <3>1. CASE i = q
      BY <1>2, <3>1 DEF Name, Odd
    <3>2. CASE i # q
      <4>1. more[i] \in {Blank, rest}
        BY <2>1, <3>2 DEF Puts
      <4>2. Blank # Odd
        BY DEF Blank, Odd
      <4> QED
        BY <4>1, <4>2
    <3> QED
      BY <3>1, <3>2
  <2>2. CASE i \notin p..(p + 2)
    BY <1>1, <2>2 DEF Shifted, Readable
  <2> QED
    BY <2>1, <2>2
<1> QED
  BY <1>5, <1>6, <1>7, <1>8 DEF Readable

\* The place of the marker is the line above the only key `daemon`.
LEMMA MarkerIs ==
  ASSUME NEW B, NEW lines \in Seq(Style(B)), Readable(lines)
  PROVE  /\ \A m : m \in Markers(lines) <=> /\ m \in 2..(Len(lines) - 1) /\ lines[m] = Blank
                                            /\ lines[m + 1] = Key("daemon")
         /\ \A m \in Markers(lines) : Min(Markers(lines)) = m
<1>1. Len(lines) \in Nat
  OBVIOUS
<1>2. \A m : m \in Markers(lines) <=> /\ m \in 2..(Len(lines) - 1) /\ lines[m] = Blank
                                     /\ lines[m + 1] = Key("daemon")
  <2>1. DOMAIN lines = 1..Len(lines) /\ \A i \in 1..Len(lines) : lines[i] \in Style(B)
    OBVIOUS
  <2>2. \A i \in 1..Len(lines) : i \in At(lines, "key") /\ lines[i][2] = "daemon" <=> lines[i] = Key("daemon")
    BY <2>1, NameOf DEF At
  <2>3. \A m \in 2..(Len(lines) - 1) : m + 1 \in 1..Len(lines)
    BY <1>1
  <2> QED
    BY <2>2, <2>3 DEF Markers
<1>3. Markers(lines) \in SUBSET (1..Len(lines))
  BY <1>1, <1>2
<1>4. ASSUME NEW m \in Markers(lines) PROVE Min(Markers(lines)) = m
  <2> DEFINE f == Min(Markers(lines))
  <2>1. f \in Markers(lines)
    BY <1>1, <1>3, MinIs
  <2> HIDE DEF f
  <2>2. f + 1 \in 1..Len(lines) /\ m + 1 \in 1..Len(lines) /\ lines[f + 1] = lines[m + 1]
    BY <1>1, <1>2, <2>1
  <2>3. lines[f + 1][1] = "key"
    BY <1>2, <2>1 DEF Key
  <2>4. f + 1 = m + 1
    BY <2>2, <2>3 DEF Readable
  <2>5. f = m
    BY <1>1, <1>3, <2>1, <2>4
  <2> QED
    BY <2>5 DEF f
<1> QED
  BY <1>2, <1>4

\* Where WithBranch puts the block.
Spot(lines) == IF Markers(lines) # {} THEN Min(Markers(lines)) ELSE Len(lines) + 1

\* A section that goes on to a line which is no key goes on to the next line.
LEMMA RoomAfter ==
  ASSUME NEW lines, Len(lines) \in Nat, NEW i \in 1..Len(lines), InBranches(lines, i)
  PROVE  Room(lines, i + 1)
BY DEF InBranches, Room

\* All branches are below the one key `branches`, with no other key between.
LEMMA OneList ==
  ASSUME NEW B, NEW lines \in Seq(Style(B)), Readable(lines),
         NEW k \in 1..Len(lines), lines[k] = Key("branches"),
         NEW i \in 1..Len(lines), lines[i][1] = "name"
  PROVE  k < i /\ \A j \in 1..Len(lines) : k < j /\ j <= i => lines[j][1] # "key"
<1>1. Len(lines) \in Nat
  OBVIOUS
<1>2. PICK h \in 1..Len(lines) : /\ h <= i /\ lines[h] = Key("branches")
                                 /\ \A j \in 1..Len(lines) : h < j /\ j <= i => lines[j][1] # "key"
  BY DEF Readable, InBranches
<1>3. lines[k][1] = "key"
  BY DEF Key
<1>4. h = k
  BY <1>2, <1>3 DEF Readable
<1>5. i # k
  BY <1>3
<1> QED
  BY <1>1, <1>2, <1>4, <1>5

\* A removal from a layout that AddIsSafe allows leaves room for the block.
LEMMA CutLeavesRoom ==
  ASSUME NEW B, NEW lines \in Seq(Style(B)), NEW left \in Seq(Style(B)), NEW b, NEW s, NEW e,
         Cuts(lines, left, b, s, e), Readable(lines), AddIsSafe(lines, b)
  PROVE  Room(left, Spot(left))
<1>1. /\ Len(lines) \in Nat /\ s \in 1..Len(lines) /\ e \in (s + 1)..(Len(lines) + 1)
      /\ lines[s] = Name(b) /\ \A i \in 1..Len(lines) : lines[i] = Name(b) => s <= i
      /\ \A i \in (s + 1)..(e - 1) : lines[i][1] \notin {"name", "key"}
      /\ e <= Len(lines) => lines[e][1] \in {"name", "key"}
      /\ Len(left) = Len(lines) - (e - s)
  BY DEF Cuts
<1>2. Moved(lines, left, s, e)
  BY CutMaps
<1>3. Readable(left)
  BY CutReads
<1>4. \A i \in At(lines, "name") : i \in 1..Len(lines) /\ lines[i][1] = "name"
  BY DEF At
<1>5. s \in At(lines, "name") /\ lines[s][1] = "name"
  BY <1>1 DEF At, Name
\* The key `branches` is above the cut, and a line that follows the branches
\* in `lines` does so in what is left.
<1>6. ASSUME NEW k \in 1..Len(lines), lines[k] = Key("branches"), NEW p \in 1..(Len(left) + 1),
             NEW j \in 1..(Len(lines) + 1), j = p + (e - s), e <= j,
             \A h \in 1..Len(lines) : k < h /\ h < j => lines[h][1] # "key"
      PROVE  Room(left, p)
  <2>1. k < s
    BY <1>1, <1>5, <1>6, OneList
  <2>2. k \in 1..Len(left) /\ left[k] = Key("branches") /\ k < p
    BY <1>1, <1>6, <2>1 DEF Cuts
  <2>3. ASSUME NEW h \in 1..Len(left), k < h, h < p PROVE left[h][1] # "key"
    <3>1. PICK g \in 1..Len(lines) : left[h] = lines[g] /\ ((g = h /\ g < s) \/ (g = h + (e - s) /\ e <= g))
      BY <1>2 DEF Moved
    <3>2. k < g /\ g < j
      BY <1>1, <1>6, <2>3, <3>1
    <3> QED
      BY <1>6, <3>1, <3>2
  <2> QED
    BY <2>2, <2>3 DEF Room
<1>7. CASE Markers(lines) # {} /\ Section(lines, Min(Markers(lines))) = "branches" /\ ~IsLast(lines, b)
  <2> DEFINE m == Min(Markers(lines))
             p == m - (e - s)
  <2>1. m \in 2..(Len(lines) - 1) /\ lines[m] = Blank /\ lines[m + 1] = Key("daemon")
    BY <1>7, MarkerIs
  <2>2. InBranches(lines, m)
    BY <1>1, <1>7, <2>1, SectionIs
  <2> HIDE DEF m
  <2>3. PICK k \in 1..Len(lines) : /\ k <= m /\ lines[k] = Key("branches")
                                   /\ \A j \in 1..Len(lines) : k < j /\ j <= m => lines[j][1] # "key"
    BY <2>2 DEF InBranches
  <2>4. PICK j \in 1..Len(lines) : lines[j][1] = "name" /\ s < j
    <3>1. PICK j \in At(lines, "name") : ~(j <= s)
      BY <1>1, <1>5, <1>7 DEF IsLast
    <3>2. j \in 1..Len(lines) /\ lines[j][1] = "name"
      BY <1>4, <3>1
    <3>3. s < j
      BY <1>1, <3>1, <3>2
    <3> QED
      BY <3>2, <3>3
  <2>5. k < s /\ k < j /\ \A h \in 1..Len(lines) : k < h /\ h <= j => lines[h][1] # "key"
    BY <1>5, <2>3, <2>4, <1>1, OneList
  <2>6. j < m
    <3>1. lines[m + 1][1] = "key" /\ m + 1 \in 1..Len(lines) /\ k < m + 1
      BY <1>1, <2>1, <2>3 DEF Key
    <3>2. ~(m + 1 <= j)
      BY <2>5, <3>1
    <3>3. j # m
      BY <2>1, <2>4 DEF Blank
    <3> QED
      BY <1>1, <2>1, <3>2, <3>3
  <2>7. e <= m
    <3>1. j \notin (s + 1)..(e - 1)
      BY <1>1, <2>4
    <3> QED
      BY <1>1, <2>1, <2>4, <2>6, <3>1
  <2>8. p \in 2..(Len(left) - 1) /\ ~(p < s) /\ ~(p + 1 < s) /\ p + (e - s) = m /\ p + 1 + (e - s) = m + 1
    BY <1>1, <2>1, <2>5, <2>7
  <2>9. left[p] = Blank /\ left[p + 1] = Key("daemon")
    <3>0. Len(left) \in Nat /\ p \in 2..(Len(left) - 1)
      BY <2>8
    <3>1. p \in 1..Len(left) /\ p + 1 \in 1..Len(left)
      BY <3>0
    <3>2. left[p] = lines[p + (e - s)] /\ left[p + 1] = lines[p + 1 + (e - s)]
      BY <2>8, <3>1 DEF Cuts
    <3> QED
      BY <2>1, <2>8, <3>2
  <2> HIDE DEF p
  <2>10. Spot(left) = p
    BY <1>3, <2>8, <2>9, MarkerIs DEF Spot
  <2>11. Room(left, p)
    <3>1. p \in 1..(Len(left) + 1) /\ m \in 1..(Len(lines) + 1) /\ m = p + (e - s)
      BY <1>1, <2>1, <2>8
    <3>2. \A h \in 1..Len(lines) : k < h /\ h < m => lines[h][1] # "key"
      BY <1>1, <2>1, <2>3
    <3> QED
      BY <1>6, <2>3, <2>7, <3>1, <3>2
  <2> QED
    BY <2>10, <2>11
<1>8. CASE Markers(lines) = {} /\ Section(lines, Len(lines)) = "branches"
  <2>1. InBranches(lines, Len(lines))
    BY <1>1, <1>8, SectionIs
  <2>2. PICK k \in 1..Len(lines) : /\ lines[k] = Key("branches")
                                   /\ \A j \in 1..Len(lines) : k < j => lines[j][1] # "key"
    BY <1>1, <2>1 DEF InBranches
  <2>3. k < s
    BY <1>1, <1>5, <2>2, OneList
  <2>4. ASSUME NEW m \in Markers(left) PROVE FALSE
    <3>1. m \in 2..(Len(left) - 1) /\ left[m] = Blank /\ left[m + 1] = Key("daemon")
      BY <1>3, MarkerIs
    <3>2. m + 1 \in 1..Len(left) /\ m \in 1..Len(left)
      <4>1. Len(left) \in Nat
        OBVIOUS
      <4> QED
        BY <3>1, <4>1
    <3>3. PICK g \in 1..Len(lines) : /\ left[m + 1] = lines[g]
                                     /\ (g = m + 1 /\ g < s) \/ (g = m + 1 + (e - s) /\ e <= g)
      BY <1>2, <3>2 DEF Moved
    <3>4. lines[g][1] = "key"
      BY <3>1, <3>3 DEF Key
    <3>5. ~(k < g)
      BY <2>2, <3>4
    <3>6. g = m + 1 /\ m < s
      BY <1>1, <2>3, <3>1, <3>3, <3>5
    <3>7. lines[m] = Blank
      BY <3>1, <3>2, <3>6 DEF Cuts
    <3>8. m \in 2..(Len(lines) - 1)
      BY <1>1, <3>1, <3>3, <3>6
    <3> QED
      BY <1>8, <3>1, <3>3, <3>6, <3>7, <3>8, MarkerIs
  <2>5. Spot(left) = Len(left) + 1
    BY <2>4 DEF Spot
  <2>6. Room(left, Len(left) + 1)
    <3>1. Len(left) + 1 \in 1..(Len(left) + 1) /\ Len(lines) + 1 \in 1..(Len(lines) + 1)
          /\ Len(lines) + 1 = Len(left) + 1 + (e - s) /\ e <= Len(lines) + 1
      <4>1. Len(left) \in Nat /\ Len(lines) \in Nat /\ Len(left) = Len(lines) - (e - s)
        BY <1>1
      <4>2. s \in Nat /\ e \in Nat /\ e <= Len(lines) + 1
        BY <1>1
      <4> QED
        BY <4>1, <4>2
    <3>2. \A h \in 1..Len(lines) : k < h /\ h < Len(lines) + 1 => lines[h][1] # "key"
      BY <2>2
    <3> QED
      BY <1>6, <2>2, <3>1, <3>2
  <2> QED
    BY <2>5, <2>6
<1> QED
  BY <1>7, <1>8 DEF AddIsSafe

-----------------------------------------------------------------------------
(***************************************************************************)
(* What the edits do to a file whose sections and branches the code        *)
(* recognises, for any branches and layouts.                               *)
(***************************************************************************)
\* An addition lists the branch and keeps everything else.
LEMMA AdditionKeeps ==
  ASSUME NEW B, NEW lines \in Seq(Style(B)), NEW b \in B, NEW rest \in Rests
  PROVE  /\ WithBranch(lines, b, rest) \in Seq(Style(B))
         /\ Keys(WithBranch(lines, b, rest)) = Keys(lines)
         /\ Names(WithBranch(lines, b, rest)) = Names(lines) \cup {b}
         /\ Parses(lines) /\ Room(lines, Spot(lines)) /\ rest = Item => Parses(WithBranch(lines, b, rest))
<1> DEFINE more == WithBranch(lines, b, rest)
<1>1. more \in Seq(Style(B))
  BY InsertionPuts
<1>2. PICK q : Puts(lines, more, b, rest, Spot(lines), q)
  BY InsertionPuts DEF Spot
<1> HIDE DEF more
<1>3. Keys(more) = Keys(lines) /\ Names(more) = Names(lines) \cup {b}
  BY <1>1, <1>2, PutAdds
<1>4. ASSUME Parses(lines), Room(lines, Spot(lines)), rest = Item PROVE Parses(more)
  <2>1. rest # Odd
    BY <1>4 DEF Item, Odd
  <2>2. Readable(lines)
    BY <1>4, ParsesIs
  <2>3. Readable(more)
    BY <1>1, <1>2, <1>4, <2>1, <2>2, PutReads
  <2> QED
    BY <1>1, <2>3, ParsesIs
<1> QED
  BY <1>1, <1>3, <1>4 DEF more

\* A removal keeps everything but the branch.
LEMMA RemovalKeeps ==
  ASSUME NEW B, NEW lines \in Seq(Style(B)), NEW b, Found(lines, b)
  PROVE  /\ WithoutBranch(lines, b) \in Seq(Style(B))
         /\ Keys(WithoutBranch(lines, b)) = Keys(lines)
         /\ Names(WithoutBranch(lines, b)) \ {b} = Names(lines) \ {b}
         /\ ListedOnce(lines) => b \notin Names(WithoutBranch(lines, b))
         /\ Parses(lines) => Parses(WithoutBranch(lines, b))
         /\ Parses(lines) /\ AddIsSafe(lines, b) =>
              Room(WithoutBranch(lines, b), Spot(WithoutBranch(lines, b)))
<1> DEFINE left == WithoutBranch(lines, b)
<1>1. left \in Seq(Style(B))
  BY RemovalCuts
<1>2. PICK s, e \in Nat : Cuts(lines, left, b, s, e)
  BY RemovalCuts
<1> HIDE DEF left
<1>3. Keys(left) = Keys(lines) /\ Names(left) \ {b} = Names(lines) \ {b}
  BY <1>1, <1>2, CutKeepsOthers
<1>4. ListedOnce(lines) => b \notin Names(left)
  BY <1>1, <1>2, CutRemoves
<1>5. Parses(lines) => Parses(left)
  BY <1>1, <1>2, CutReads, ParsesIs
<1>6. Parses(lines) /\ AddIsSafe(lines, b) => Room(left, Spot(left))
  BY <1>1, <1>2, CutLeavesRoom, ParsesIs
<1> QED
  BY <1>1, <1>3, <1>4, <1>5, <1>6 DEF left

\* Without a removal the layout has room as it is.
LEMMA SafeHasRoom ==
  ASSUME NEW B, NEW lines \in Seq(Style(B)), NEW b, Parses(lines), AddIsSafe(lines, b)
  PROVE  Room(lines, Spot(lines))
<1>1. Len(lines) \in Nat /\ Readable(lines)
  BY ParsesIs
<1>2. Len(lines) \in 1..Len(lines)
  BY <1>1, ListedByLine DEF Readable
<1>3. CASE Markers(lines) # {}
  <2> DEFINE m == Min(Markers(lines))
  <2>1. m \in 2..(Len(lines) - 1) /\ lines[m] = Blank
    BY <1>1, <1>3, MarkerIs
  <2>2. Section(lines, m) = "branches"
    BY <1>3 DEF AddIsSafe
  <2> HIDE DEF m
  <2>3. InBranches(lines, m)
    BY <1>1, <2>1, <2>2, SectionIs
  <2>4. PICK k \in 1..Len(lines) : /\ k <= m /\ lines[k] = Key("branches")
                                   /\ \A j \in 1..Len(lines) : k < j /\ j <= m => lines[j][1] # "key"
    BY <2>3 DEF InBranches
  <2>5. k # m
    BY <2>1, <2>4 DEF Blank, Key
  <2>6. k < m /\ \A j \in 1..Len(lines) : k < j /\ j < m => lines[j][1] # "key"
    BY <1>1, <2>1, <2>4, <2>5
  <2>7. Room(lines, m)
    BY <2>4, <2>6 DEF Room
  <2> QED
    BY <1>3, <2>7 DEF Spot, m
<1>4. CASE Markers(lines) = {}
  <2>1. InBranches(lines, Len(lines))
    BY <1>1, <1>2, <1>4, SectionIs DEF AddIsSafe
  <2> QED
    BY <1>1, <1>2, <1>4, <2>1, RoomAfter DEF Spot
<1> QED
  BY <1>3, <1>4

\* The replaced or added branch is listed and everything else stays, whatever
\* its note is; AddIsSafe and a note that YAML can read are enough for the
\* program to read the file (AddSafeExactly).
LEMMA ReplacementKeeps ==
  ASSUME NEW B, NEW lines \in Seq(Style(B)), NEW b \in B, NEW rest \in Rests
  PROVE  /\ Keys(Replaced(lines, b, rest)) = Keys(lines)
         /\ Names(Replaced(lines, b, rest)) = Names(lines) \cup {b}
         /\ Parses(lines) /\ AddIsSafe(lines, b) /\ rest = Item => Parses(Replaced(lines, b, rest))
<1> DEFINE left == Cut(lines, b)
<1>1. /\ left \in Seq(Style(B)) /\ Keys(left) = Keys(lines)
      /\ Names(left) \ {b} = Names(lines) \ {b}
      /\ Parses(lines) => Parses(left)
      /\ Parses(lines) /\ AddIsSafe(lines, b) => Room(left, Spot(left))
  BY RemovalKeeps, SafeHasRoom DEF Cut
<1> HIDE DEF left
<1>2. /\ Keys(WithBranch(left, b, rest)) = Keys(left)
      /\ Names(WithBranch(left, b, rest)) = Names(left) \cup {b}
      /\ Parses(left) /\ Room(left, Spot(left)) /\ rest = Item => Parses(WithBranch(left, b, rest))
  <2>1. left \in Seq(Style(B))
    BY <1>1
  <2> QED
    BY <2>1, AdditionKeeps
<1>3. Replaced(lines, b, rest) = WithBranch(left, b, rest)
  BY DEF Replaced, left
<1> QED
  BY <1>1, <1>2, <1>3

\* A cut of lines of any kind is made of them.
LEMMA CutTypes ==
  ASSUME NEW S, NEW lines \in Seq(S), NEW b
  PROVE  Cut(lines, b) \in Seq(S)
<1>1. Len(lines) \in Nat /\ DOMAIN lines = 1..Len(lines)
  OBVIOUS
<1>2. CASE Found(lines, b)
  <2> DEFINE T == {i \in DOMAIN lines : lines[i] = Name(b)}
             s == Min(T)
             N == {i \in Begins(lines) : i > s}
             e == IF N = {} THEN Len(lines) + 1 ELSE Min(N)
  <2>1. T \in SUBSET (1..Len(lines)) /\ T # {}
    BY <1>1, <1>2 DEF Found
  <2>2. s \in 1..Len(lines)
    BY <1>1, <2>1, MinIs
  <2>3. N \in SUBSET (1..Len(lines))
    BY <1>1 DEF Begins, At
  <2>4. N # {} => Min(N) \in N
    BY <1>1, <2>3, MinIs
  <2>5. e \in 1..(Len(lines) + 1)
    BY <1>1, <2>3, <2>4
  <2>6. Cut(lines, b) = SubSeq(lines, 1, s - 1) \o SubSeq(lines, e, Len(lines))
    BY <1>2 DEF Cut, WithoutBranch
  <2> HIDE DEF T, s, N, e
  <2>7. SubSeq(lines, 1, s - 1) \in Seq(S)
    BY <1>1, <2>2, SubSeqProperties
  <2>8. SubSeq(lines, e, Len(lines)) \in Seq(S)
    BY <1>1, <2>5, SubSeqProperties
  <2> QED
    BY <2>6, <2>7, <2>8, ConcatProperties
<1>3. CASE ~Found(lines, b)
  BY <1>3 DEF Cut
<1> QED
  BY <1>2, <1>3

\* And so is what an addition makes of lines of any kind, with its own.
LEMMA PutTypes ==
  ASSUME NEW S, NEW lines \in Seq(S), NEW b, Name(b) \in S, Blank \in S, NEW rest \in S
  PROVE  WithBranch(lines, b, rest) \in Seq(S)
<1>1. Len(lines) \in Nat
  OBVIOUS
<1>2. Block(b, rest) \in Seq(S) /\ <<Blank>> \in Seq(S)
  BY DEF Block
<1>3. CASE Markers(lines) # {}
  <2> DEFINE p == Min(Markers(lines))
  <2>1. Markers(lines) \in SUBSET (1..Len(lines))
    BY <1>1 DEF Markers
  <2>2. p \in 1..Len(lines)
    BY <1>1, <1>3, <2>1, MinIs
  <2>3. WithBranch(lines, b, rest) =
          SubSeq(lines, 1, p - 1) \o Block(b, rest) \o <<Blank>> \o SubSeq(lines, p, Len(lines))
    BY <1>3 DEF WithBranch
  <2> HIDE DEF p
  <2>4. SubSeq(lines, 1, p - 1) \in Seq(S) /\ SubSeq(lines, p, Len(lines)) \in Seq(S)
    BY <1>1, <2>2, SubSeqProperties
  <2> QED
    BY <1>2, <2>3, <2>4, ConcatProperties
<1>4. CASE Markers(lines) = {}
  <2>1. WithBranch(lines, b, rest) = lines \o <<Blank>> \o Block(b, rest)
    BY <1>4 DEF WithBranch
  <2> QED
    BY <1>2, <2>1, ConcatProperties
<1> QED
  BY <1>3, <1>4

(***************************************************************************)
(* The model's answers.                                                    *)
(***************************************************************************)
\* The call that begins with request i ends with request k.
Ends(answers, r, i, k) ==
    /\ k \in i..(i + r)
    /\ \A j \in i..(k - 1) : answers[j] = "retryable"
    /\ k < i + r => answers[k] # "retryable"

\* A call ends with the first answer that is no retryable error, or gives up
\* after the retries.
LEMMA ChatEnds ==
  ASSUME NEW r \in Nat, NEW i \in Nat, NEW answers
  PROVE  Ends(answers, r, i, CallChat(answers, r, i))
<1> DEFINE S == {k \in i..(i + r) : answers[k] # "retryable"}
           k == CallChat(answers, r, i)
<1>1. CASE S = {}
  <2>1. k = i + r
    BY <1>1 DEF CallChat
  <2> QED
    BY <1>1, <2>1 DEF Ends
<1>2. CASE S # {}
  <2>1. S \in SUBSET Nat
    OBVIOUS
  <2>2. PICK x \in S : \A y \in S : x <= y
    BY <1>2, <2>1, LeastIs
  <2>3. x \in i..(i + r) /\ answers[x] # "retryable" /\ \A j \in i..(x - 1) : ~(answers[j] # "retryable")
    BY <2>2
  <2>4. k = CHOOSE z \in i..(i + r) : answers[z] # "retryable" /\ \A j \in i..(z - 1) : ~(answers[j] # "retryable")
    BY <1>2 DEF CallChat
  <2>5. k \in i..(i + r) /\ answers[k] # "retryable" /\ \A j \in i..(k - 1) : ~(answers[j] # "retryable")
    BY <2>3, <2>4
  <2> QED
    BY <2>5 DEF Ends
<1> QED
  BY <1>1, <1>2

\* With r retries a question takes at most 2 * (r + 1) requests; but for one
\* answer in prose only retryable errors come before the last, and it succeeds
\* exactly when the last brought the JSON (call_json_with_repair).
THEOREM CallsAreBounded ==
  ASSUME NEW r \in Nat, NEW answers \in [1..(2 * (r + 1)) -> Answers]
  PROVE  LET call == JsonWithRepair(answers, r)
         IN  /\ call.requests \in 1..(2 * (r + 1))
             /\ \A i, j \in 1..(call.requests - 1) :
                  answers[i] # "retryable" /\ answers[j] # "retryable" => i = j /\ answers[i] = "prose"
             /\ call.ok <=> answers[call.requests] = "json"
<1> DEFINE n == 2 * (r + 1)
           first == CallChat(answers, r, 1)
           next == first + 1
           second == CallChat(answers, r, next)
           end == IF answers[first] = "prose" THEN second ELSE first
<1>1. n \in Nat /\ 1 + r <= n
  OBVIOUS
<1>2. first \in 1..(1 + r) /\ \A j \in 1..(first - 1) : answers[j] = "retryable"
  <2>1. Ends(answers, r, 1, first)
    BY ChatEnds
  <2> QED
    BY <2>1 DEF Ends
<1> HIDE DEF first
<1>3. next \in Nat /\ next + r <= n /\ next = first + 1
  BY <1>2
<1> HIDE DEF n, next
<1>4. second \in next..(next + r) /\ \A j \in next..(second - 1) : answers[j] = "retryable"
  <2>1. Ends(answers, r, next, second)
    BY <1>3, ChatEnds
  <2> HIDE DEF second
  <2> QED
    BY <2>1 DEF Ends
<1>5. JsonWithRepair(answers, r) = [requests |-> end, ok |-> answers[end] = "json"]
  BY DEF JsonWithRepair, first, next
<1> HIDE DEF second
<1>6. /\ end \in 1..n
      /\ \A i \in 1..(end - 1) : answers[i] # "retryable" => i = first /\ answers[i] = "prose"
  <2>1. CASE answers[first] = "prose"
    <3>1. end = second
      BY <2>1
    <3>2. \A i \in 1..(second - 1) : i \in 1..(first - 1) \/ i = first \/ i \in next..(second - 1)
      BY <1>2, <1>3, <1>4
    <3>3. second \in 1..n
      BY <1>1, <1>2, <1>3, <1>4
    <3> QED
      BY <1>2, <1>4, <2>1, <3>1, <3>2, <3>3
  <2>2. CASE answers[first] # "prose"
    <3>1. end = first
      BY <2>2
    <3> QED
      BY <1>1, <1>2, <3>1
  <2> QED
    BY <2>1, <2>2
<1> HIDE DEF end
<1> DEFINE call == JsonWithRepair(answers, r)
<1>7. call.requests = end /\ (call.ok <=> answers[end] = "json")
  <2>1. [requests |-> end, ok |-> answers[end] = "json"].requests = end
    BY Zenon
  <2>2. [requests |-> end, ok |-> answers[end] = "json"].ok <=> answers[end] = "json"
    BY Zenon
  <2> QED
    BY <1>5, <2>1, <2>2, Zenon
<1> HIDE DEF call
<1>8. /\ call.requests \in 1..n
      /\ \A i, j \in 1..(call.requests - 1) :
           answers[i] # "retryable" /\ answers[j] # "retryable" => i = j /\ answers[i] = "prose"
      /\ call.ok <=> answers[call.requests] = "json"
  BY <1>6, <1>7
<1> QED
  BY <1>8 DEF call, n

\* A stream that breaks off gives what one that is complete gives: the deltas
\* before its end, and no error (call_chat_streaming).
THEOREM CutIsTakenForDone ==
  ASSUME NEW events \in Seq({"delta", "other"}), NEW end \in {"done", "cut"}
  PROVE  Streamed(Append(events, end)) =
           [ok |-> TRUE, deltas |-> {i \in DOMAIN events : events[i] = "delta"}]
<1> DEFINE n == Len(events)
           all == Append(events, end)
           ends == {i \in DOMAIN all : all[i] \in {"bad", "done", "cut"}}
<1>1. n \in Nat /\ DOMAIN events = 1..n /\ \A i \in 1..n : events[i] \in {"delta", "other"}
  OBVIOUS
<1>2. DOMAIN all = 1..(n + 1) /\ all[n + 1] = end /\ \A i \in 1..n : all[i] = events[i]
  BY <1>1
<1> HIDE DEF all, n
<1>3. ends = {n + 1}
  BY <1>1, <1>2
<1>4. (CHOOSE i \in ends : \A j \in ends : i <= j) = n + 1
  BY <1>1, <1>3
<1>5. {i \in 1..((n + 1) - 1) : all[i] = "delta"} = {i \in 1..n : events[i] = "delta"}
  BY <1>1, <1>2
<1> HIDE DEF ends
<1>6. Streamed(all) = [ok |-> all[n + 1] # "bad", deltas |-> {i \in 1..((n + 1) - 1) : all[i] = "delta"}]
  BY <1>4 DEF Streamed, ends
<1> QED
  BY <1>1, <1>2, <1>5, <1>6 DEF all

(***************************************************************************)
(* What is said.                                                           *)
(***************************************************************************)
\* The conversation `g` is `h` with the message m, with what it had to drop.
Pushed(h, m, g) ==
    /\ g \in Seq(Message) /\ Len(g) <= MaxHistory
    /\ \A i \in 1..Len(g) :
         \/ i = Len(g) /\ g[i] = m
         \/ \E j \in 1..Len(h) : g[i] = h[j] /\ Len(g) - i = Len(h) - j + 1

\* push_history adds one message at the end and drops at most the oldest.
LEMMA TrimmedPushes ==
  ASSUME NEW h \in Seq(Message), Len(h) <= MaxHistory, NEW m \in Message
  PROVE  Pushed(h, m, Trimmed(Append(h, m)))
<1> DEFINE n == Len(h)
           w == Append(h, m)
<1>1. n \in Nat /\ MaxHistory \in Nat
  BY BoundsAreNumbers
<1>2. /\ w \in Seq(Message) /\ Len(w) = n + 1 /\ w[n + 1] = m
      /\ \A i \in 1..n : w[i] = h[i]
  BY AppendProperties
<1> HIDE DEF w
<1>3. CASE n + 1 <= MaxHistory
  <2>1. Trimmed(w) = w
    BY <1>1, <1>2, <1>3 DEF Trimmed
  <2>2. \A i \in 1..Len(w) : i = n + 1 \/ (i \in 1..n /\ Len(w) - i = n - i + 1)
    BY <1>1, <1>2
  <2> QED
    BY <1>1, <1>2, <1>3, <2>1, <2>2 DEF Pushed, w
<1>4. CASE n + 1 > MaxHistory
  <2>1. Trimmed(w) = Tail(w) /\ n = MaxHistory
    BY <1>1, <1>2, <1>4 DEF Trimmed
  <2>2. w # <<>>
    BY <1>1, <1>2
  <2>3. /\ Tail(w) \in Seq(Message) /\ Len(Tail(w)) = n
        /\ \A i \in 1..n : Tail(w)[i] = w[i + 1]
    BY <1>1, <1>2, <2>2, HeadTailProperties
  <2>4. \A i \in 1..n : (i = n /\ w[i + 1] = m) \/ (i + 1 \in 1..n /\ w[i + 1] = h[i + 1] /\ n - i = n - (i + 1) + 1)
    BY <1>1, <1>2
  <2> HIDE DEF n
  <2> QED
    BY <2>1, <2>3, <2>4 DEF Pushed, w, n
<1> QED
  BY <1>1, <1>3, <1>4

\* What the conversation and the ages may be.
Talks(h, since) ==
    h \in Seq(Message) /\ Len(h) <= MaxHistory /\ since \in [ask : 0..Recent, choice : 0..Recent]

\* One message more makes the others older.
LEMMA PushedAges ==
  ASSUME NEW h, NEW since, Talks(h, since), NEW m \in Message, NEW g, Pushed(h, m, g),
         NEW later \in [ask : 0..Recent, choice : 0..Recent],
         later.ask = IF m = <<"assistant", "ask">> THEN 0 ELSE OneMore(since.ask),
         later.choice = IF m = <<"user", "choice">> THEN 0 ELSE OneMore(since.choice)
  PROVE  Talks(g, later) /\ (Aged(h, since) => Aged(g, later))
<1>1. g \in Seq(Message) /\ Len(g) \in Nat /\ Len(g) <= MaxHistory /\ DOMAIN g = 1..Len(g)
  BY DEF Pushed
<1>2. h \in Seq(Message) /\ Len(h) \in Nat /\ DOMAIN h = 1..Len(h)
  BY DEF Talks
<1>3. Recent \in Nat /\ since.ask \in 0..Recent /\ since.choice \in 0..Recent
  BY BoundsAreNumbers DEF Talks
<1>4. /\ OneMore(since.ask) \in Nat /\ OneMore(since.ask) <= since.ask + 1
      /\ OneMore(since.choice) \in Nat /\ OneMore(since.choice) <= since.choice + 1
  BY <1>3 DEF OneMore
<1>5. ASSUME Aged(h, since), NEW i \in 1..Len(g), g[i] = <<"assistant", "ask">>
      PROVE  later.ask <= Len(g) - i
  <2>1. CASE i = Len(g) /\ g[i] = m
    <3>1. later.ask = 0
      BY <1>5, <2>1
    <3>2. Len(g) - i = 0
      BY <1>1, <2>1
    <3> QED
      BY <3>1, <3>2
  <2>2. ASSUME NEW j \in 1..Len(h), g[i] = h[j], Len(g) - i = Len(h) - j + 1
        PROVE  later.ask <= Len(g) - i
    <3>1. since.ask <= Len(h) - j
      BY <1>2, <1>5, <2>2 DEF Aged
    <3>2. later.ask <= since.ask + 1
      BY <1>3, <1>4
    <3>3. since.ask \in Nat /\ later.ask \in Nat
      BY <1>3
    <3> QED
      BY <1>1, <1>2, <2>2, <3>1, <3>2, <3>3
  <2> QED
    BY <2>1, <2>2 DEF Pushed
<1>6. ASSUME Aged(h, since), NEW i \in 1..Len(g), g[i] = <<"user", "choice">>
      PROVE  later.choice <= Len(g) - i
  <2>1. CASE i = Len(g) /\ g[i] = m
    <3>1. later.choice = 0
      BY <1>6, <2>1
    <3>2. Len(g) - i = 0
      BY <1>1, <2>1
    <3> QED
      BY <3>1, <3>2
  <2>2. ASSUME NEW j \in 1..Len(h), g[i] = h[j], Len(g) - i = Len(h) - j + 1
        PROVE  later.choice <= Len(g) - i
    <3>1. since.choice <= Len(h) - j
      BY <1>2, <1>6, <2>2 DEF Aged
    <3>2. later.choice <= since.choice + 1
      BY <1>3, <1>4
    <3>3. since.choice \in Nat /\ later.choice \in Nat
      BY <1>3
    <3> QED
      BY <1>1, <1>2, <2>2, <3>1, <3>2, <3>3
  <2> QED
    BY <2>1, <2>2 DEF Pushed
<1>7. Aged(h, since) => Aged(g, later)
  BY <1>1, <1>5, <1>6 DEF Aged
<1> QED
  BY <1>1, <1>7 DEF Talks

\* What is said and answered is remembered, and what was said before is older.
LEMMA PushKeeps ==
  ASSUME NEW said \in {"choice", "other"}, NEW answered \in {"ask", "other"},
         Talks(history, age), Push(said, answered)
  PROVE  Talks(history', age') /\ (Aged(history, age) => Aged(history', age'))
<1> DEFINE m == <<"user", said>>
           g == Trimmed(Append(history, m))
           mid == IF said = "choice" THEN [Older(age) EXCEPT !.choice = 0] ELSE Older(age)
           m2 == <<"assistant", answered>>
           g2 == Trimmed(Append(g, m2))
           end == IF answered = "ask" THEN [Older(mid) EXCEPT !.ask = 0] ELSE Older(mid)
<1>1. history' = g2 /\ age' = end
  BY DEF Push
<1>2. m \in Message /\ m2 \in Message
  BY DEF Message
<1>3. \A n \in 0..Recent : OneMore(n) \in 0..Recent /\ 0 \in 0..Recent
  BY BoundsAreNumbers DEF OneMore
<1>4. \A since \in [ask : 0..Recent, choice : 0..Recent] :
        /\ Older(since) \in [ask : 0..Recent, choice : 0..Recent]
        /\ Older(since).ask = OneMore(since.ask) /\ Older(since).choice = OneMore(since.choice)
  BY <1>3 DEF Older
<1>5. 0 \in 0..Recent
  BY BoundsAreNumbers
<1>6. /\ mid \in [ask : 0..Recent, choice : 0..Recent]
      /\ mid.ask = OneMore(age.ask)
      /\ mid.choice = IF m = <<"user", "choice">> THEN 0 ELSE OneMore(age.choice)
  BY <1>4, <1>5 DEF Talks
<1>7. m # <<"assistant", "ask">> /\ m2 # <<"user", "choice">>
  OBVIOUS
<1> HIDE DEF mid
<1>8. /\ end \in [ask : 0..Recent, choice : 0..Recent]
      /\ end.choice = OneMore(mid.choice)
      /\ end.ask = IF m2 = <<"assistant", "ask">> THEN 0 ELSE OneMore(mid.ask)
  BY <1>4, <1>5, <1>6
<1>9. Pushed(history, m, g)
  BY <1>2, TrimmedPushes DEF Talks
<1> HIDE DEF m, m2, end
<1>10. Talks(g, mid) /\ (Aged(history, age) => Aged(g, mid))
  BY <1>2, <1>6, <1>7, <1>9, PushedAges
<1>11. Pushed(g, m2, g2)
  BY <1>2, <1>10, TrimmedPushes DEF Talks
<1> HIDE DEF g, g2
<1>12. Talks(g2, end) /\ (Aged(g, mid) => Aged(g2, end))
  BY <1>2, <1>7, <1>8, <1>10, <1>11, PushedAges
<1> QED
  BY <1>1, <1>10, <1>12

\* The conversation goes on by a pair of messages, stays, or is forgotten.
Talked ==
    \/ UNCHANGED talk
    \/ Forget
    \/ \E said \in {"choice", "other"}, answered \in {"ask", "other"} : Push(said, answered)

\* However the conversation goes on, it is one, and its ages are right.
LEMMA TalkedKeeps ==
  ASSUME Talks(history, age), Talked
  PROVE  Talks(history', age') /\ (Aged(history, age) => Aged(history', age'))
<1>1. CASE UNCHANGED talk
  BY <1>1 DEF talk, Talks, Aged
<1>2. CASE Forget
  <2>1. Talks(<<>>, [ask |-> Recent, choice |-> Recent])
    BY BoundsAreNumbers DEF Talks
  <2>2. Aged(<<>>, age')
    BY DEF Aged
  <2> QED
    BY <1>2, <2>1, <2>2 DEF Forget
<1>3. CASE \E said \in {"choice", "other"}, answered \in {"ask", "other"} : Push(said, answered)
  BY <1>3, PushKeeps
<1> QED
  BY <1>1, <1>2, <1>3 DEF Talked

\* An answer leaves the file and the tasks alone.
Answered ==
    /\ Talked /\ pc' \in {"off", "idle"}
    /\ UNCHANGED <<files, tasks>>

\* The three ways in which a line of the user is answered at once.
LEMMA AnswersAtOnce ==
  ASSUME NEW kind, Reply(kind) \/ Ran \/ Handled(kind)
  PROVE  Answered
<1>1. Said(kind) \in {"choice", "other"}
  BY DEF Said
<1>2. CASE Reply(kind)
  BY <1>1, <1>2 DEF Reply, Answered, Talked
<1>3. CASE Ran
  BY <1>3 DEF Ran, Answered, Talked
<1>4. CASE Handled(kind)
  BY <1>1, <1>4 DEF Handled, Answered, Talked
<1> QED
  BY <1>2, <1>3, <1>4

\* An edit begins of a file that can be read, a removal of a branch in it.
EditBegins ==
    /\ Parses(config.lines)
    /\ \E kind \in {"remove", "add"}, b \in Branches \cup Names(config.lines), rest \in Rests :
         BeginEdit(kind, b, rest) /\ (kind = "remove" => b \in Names(config.lines))
                                  /\ (kind = "add" => b \in Branches)

\* A line of the user is answered, or begins an edit or a task.
LEMMA SayDoes ==
  ASSUME Say
  PROVE  /\ pc = "idle" /\ UNCHANGED <<head, input, task, reports, saves>>
         /\ Answered \/ EditBegins \/ BeginTask
<1>1. pc = "idle" /\ UNCHANGED <<head, input, task, reports, saves>>
  BY DEF Say
<1>2. PICK kind \in Kinds :
        IF ~Parses(config.lines) THEN pc' = "off" /\ Forget /\ UNCHANGED <<files, tasks>>
        ELSE IF Local(kind) THEN ~ConfirmedSync(kind) /\ LocalAction(kind)
        ELSE IF kind = "pause" THEN Ran
        ELSE BeginTask
  BY DEF Say
<1>3. CASE ~Parses(config.lines)
  BY <1>1, <1>2, <1>3 DEF Answered, Talked
<1>4. CASE Parses(config.lines) /\ Local(kind)
  <2>1. LocalAction(kind)
    BY <1>2, <1>4
  <2>2. CASE Handled(kind) \/ Reply(kind)
    BY <1>1, <2>2, AnswersAtOnce
  <2>3. CASE kind = "remove" /\ \E b \in Names(config.lines) : BeginEdit(kind, b, Item)
    BY <1>1, <1>4, <2>3 DEF EditBegins, Rests
  <2>4. CASE kind = "add" /\ \E b \in Branches, rest \in Rests : BeginEdit(kind, b, rest)
    BY <1>1, <1>4, <2>4 DEF EditBegins
  <2> QED
    BY <2>1, <2>2, <2>3, <2>4 DEF LocalAction
<1>5. CASE Parses(config.lines) /\ ~Local(kind) /\ kind = "pause"
  BY <1>1, <1>2, <1>5, AnswersAtOnce
<1>6. CASE Parses(config.lines) /\ ~Local(kind) /\ kind # "pause"
  BY <1>1, <1>2, <1>6
<1> QED
  BY <1>3, <1>4, <1>5, <1>6

\* A sync is over.
LEMMA SyncedDoes ==
  ASSUME Synced
  PROVE  pc = "syncing" /\ Answered /\ input' = None /\ UNCHANGED <<head, task, reports, saves>>
<1>1. Ran \/ Handled(input)
  BY DEF Synced
<1>2. Answered
  BY <1>1, AnswersAtOnce
<1> QED
  BY <1>2 DEF Synced

\* The branches that a file lists are branches.
LEMMA NamesAreBranches ==
  ASSUME NEW lines \in File
  PROVE  Names(lines) \subseteq Branches
<1>1. ASSUME NEW i \in DOMAIN lines, lines[i][1] = "name" PROVE lines[i][2] \in Branches
  <2>1. lines[i] \in Line(Branches)
    BY DEF File
  <2> QED
    BY <1>1, <2>1 DEF Line, Blank, Item, Odd
<1> QED
  BY <1>1 DEF Names, At

(***************************************************************************)
(* Types.                                                                  *)
(***************************************************************************)
\* An empty file, the saved layouts and the texts of the edits are files.
LEMMA FilesAre ==
  /\ <<>> \in File /\ Layouts \subseteq File
  /\ \A lines \in File, b \in Branches, rest \in Rests :
       /\ Found(lines, b) => WithoutBranch(lines, b) \in File
       /\ WithBranch(lines, b, rest) \in File
<1>1. <<>> \in File /\ Layouts \subseteq File
  BY LayoutsParse DEF File
<1>2. ASSUME NEW lines \in File, NEW b \in Branches, Found(lines, b)
      PROVE  WithoutBranch(lines, b) \in File
  <2>1. Cut(lines, b) \in File
    BY CutTypes DEF File
  <2> QED
    BY <1>2, <2>1 DEF Cut
<1>3. ASSUME NEW lines \in File, NEW b \in Branches, NEW rest \in Rests
      PROVE  WithBranch(lines, b, rest) \in File
  <2>1. Name(b) \in Line(Branches) /\ Blank \in Line(Branches) /\ rest \in Line(Branches)
    BY DEF Line, Name, Spellings, Rests
  <2> QED
    BY <2>1, PutTypes DEF File
<1> QED
  BY <1>1, <1>2, <1>3

\* A task begins as one, and stays one.
LEMMA TasksAre ==
  /\ \A cfg \in Settings : NewTask(cfg) \in Task
  /\ \A t \in Task : Next1(t) \in Task /\ t.want \in Wish \cup {None}
  /\ \A t \in Task, w \in Wish : [t EXCEPT !.want = w] \in Task
  /\ \A t \in Task, a \in TaskActions :
       [t EXCEPT !.yes[a] = @ + 1] \in Task /\ [t EXCEPT !.done[a] = @ + 1] \in Task
  /\ \A t \in Task, n \in Nat : [t EXCEPT !.tests = n] \in Task
  /\ \A t \in Task, seen \in SUBSET {"me", "other"} :
       [t EXCEPT !.queried = TRUE, !.seen = @ \cup seen] \in Task
<1>1. \A cfg \in Settings : NewTask(cfg) \in Task
  BY DEF NewTask, Task
<1>2. \A t \in Task : Next1(t) \in Task /\ t.want \in Wish \cup {None}
  <2>1. ASSUME NEW t \in Task PROVE t.step + 1 \in Nat /\ None \in Wish \cup {None} /\ t.want \in Wish \cup {None}
    BY DEF Task
  <2>2. ASSUME NEW t \in Task, NEW n \in Nat, NEW w \in Wish \cup {None}
        PROVE  [t EXCEPT !.step = n, !.want = w] \in Task
    BY DEF Task
  <2> QED
    BY <2>1, <2>2 DEF Next1
<1>3. \A t \in Task, w \in Wish : [t EXCEPT !.want = w] \in Task
  BY DEF Task
<1>4. \A t \in Task, a \in TaskActions : [t EXCEPT !.yes[a] = @ + 1] \in Task
  BY DEF Task
<1>5. \A t \in Task, a \in TaskActions : [t EXCEPT !.done[a] = @ + 1] \in Task
  BY DEF Task
<1>6. \A t \in Task, n \in Nat : [t EXCEPT !.tests = n] \in Task
  BY DEF Task
<1>7. \A t \in Task, seen \in SUBSET {"me", "other"} :
        [t EXCEPT !.queried = TRUE, !.seen = @ \cup seen] \in Task
  BY DEF Task
<1> QED
  BY <1>1, <1>2, <1>3, <1>4, <1>5, <1>6, <1>7

\* The first state is one of these.
LEMMA InitTypes == Init => TypeOK
<1> SUFFICES ASSUME Init PROVE TypeOK
  OBVIOUS
<1>1. config \in [lines : File, set : Settings]
  BY FilesAre DEF Init
<1>2. Talks(history, age)
  BY BoundsAreNumbers DEF Init, Talks
<1> QED
  BY <1>1, <1>2, BoundsAreNumbers DEF Init, TypeOK, Talks, Editing, Working

\* What an answer does to the variables.
LEMMA AnsweredTypes ==
  ASSUME TypeOK, Answered, pc \in {"idle", "syncing"}, UNCHANGED <<head, task, reports, saves>>,
         input' \in {input, None}
  PROVE  TypeOK'
<1>1. Talks(history, age) => Talks(history', age')
  BY TalkedKeeps DEF Answered
<1> QED
  BY <1>1 DEF TypeOK, Answered, files, Talks, Editing, Working

\* Every step keeps the types.
LEMMA NextTypes == TypeOK /\ [Next]_vars => TypeOK'
<1> SUFFICES ASSUME TypeOK, [Next]_vars PROVE TypeOK'
  OBVIOUS
<1> USE BoundsAreNumbers
<1>a. Talks(history, age)
  BY DEF TypeOK, Talks
<1>1. CASE Start
  BY <1>1 DEF Start, TypeOK, talk, files, Editing, Working
<1>2. CASE Leave
  BY <1>2 DEF Leave, Forget, TypeOK, files, Editing, Working
<1>3. CASE Clear
  BY <1>3 DEF Clear, Forget, TypeOK, files, Editing, Working
<1>4. CASE Say
  <2>1. CASE Answered
    BY <1>4, <2>1, SayDoes, AnsweredTypes
  <2>2. CASE BeginTask
    BY <1>4, <2>2, SayDoes DEF BeginTask, TypeOK, talk, files, Editing, Working
  <2>3. CASE EditBegins
    <3>1. PICK kind \in {"remove", "add"}, b \in Branches \cup Names(config.lines),
               rest \in Rests : BeginEdit(kind, b, rest)
      BY <2>3 DEF EditBegins
    <3>2. config.lines \in File /\ b \in Branches
      BY <3>1, NamesAreBranches DEF TypeOK
    <3>3. edit' \in Edit /\ edited' \in Edited
      BY <3>1, <3>2, FilesAre DEF BeginEdit, Edit, Edited
    <3> QED
      BY <1>4, <3>1, <3>3, SayDoes DEF BeginEdit, TypeOK, talk, Editing, Working
  <2> QED
    BY <1>4, <2>1, <2>2, <2>3, SayDoes
<1>5. CASE SayForSync
  BY <1>5 DEF SayForSync, TypeOK, talk, files, Editing, Working
<1>6. CASE SyncCommand
  BY <1>6 DEF SyncCommand, TypeOK, talk, files, Editing, Working
<1>7. CASE TaskCommand
  BY <1>7 DEF TaskCommand, BeginTask, TypeOK, talk, files, Editing, Working
<1>8. CASE Synced
  BY <1>8, SyncedDoes, AnsweredTypes
<1>9. CASE ReadForRemoval
  <2>1. edit \in Edit /\ edit.branch \in Branches /\ config.lines \in File
    BY <1>9 DEF ReadForRemoval, TypeOK, Editing, Edit
  <2>2. edit' \in Edit
    BY <1>9, <2>1, FilesAre DEF ReadForRemoval, Edit
  <2> QED
    BY <1>9, <2>2 DEF ReadForRemoval, TypeOK, talk, Editing, Working
<1>10. CASE ReadForInsertion
  <2>1. edit \in Edit /\ edit.branch \in Branches /\ edit.rest \in Rests /\ config.lines \in File
    BY <1>10 DEF ReadForInsertion, TypeOK, Editing, Edit
  <2>2. edit' \in Edit
    BY <1>10, <2>1, FilesAre DEF ReadForInsertion, Edit
  <2> QED
    BY <1>10, <2>2 DEF ReadForInsertion, TypeOK, talk, Editing, Working
<1>11. CASE Empty
  <2>1. config' \in [lines : File, set : Settings]
    BY <1>11, FilesAre DEF Empty, TypeOK
  <2> QED
    BY <1>11, <2>1 DEF Empty, TypeOK, talk, Editing, Working
<1>12. CASE Fill
  <2>1. edit \in Edit
    BY <1>12 DEF Fill, TypeOK, Editing
  <2>2. config' \in [lines : File, set : Settings]
    BY <1>12, <2>1 DEF Fill, TypeOK, Edit
  <2> QED
    BY <1>12, <2>2 DEF Fill, TypeOK, talk, Editing, Working
<1>13. CASE Told
  <2>1. Talks(history', age')
    BY <1>13, <1>a, PushKeeps DEF Told
  <2> QED
    BY <1>13, <2>1 DEF Told, TypeOK, Talks, Editing, Working
<1>14. CASE ReadForTask
  BY <1>14, TasksAre DEF ReadForTask, TypeOK, talk, files, Editing, Working
<1>15. CASE Plan
  <2>1. task \in Task /\ task' \in Task /\ pc' \in {"plan", "approve", "act", "save"}
        /\ (pc' \in {"approve", "act"} => task'.want \in Wish)
    <3>1. task \in Task
      BY <1>15 DEF Plan, TypeOK, Working
    <3>2. CASE pc' = "save" /\ UNCHANGED task
      BY <3>1, <3>2
    <3>3. ASSUME NEW step \in {"inspect", "read", "tests", "linear"}, Choose(step)
          PROVE  task' \in Task /\ pc' \in {"plan", "approve", "act", "save"}
                 /\ (pc' \in {"approve", "act"} => task'.want \in Wish)
      <4>1. CASE pc' = "plan" /\ task' = Next1(task)
        BY <3>1, <4>1, TasksAre
      <4>2. ASSUME NEW action \in TaskActions, CheckPermission(action),
                   task' = [task EXCEPT !.want = [step |-> step, action |-> action]]
            PROVE  task' \in Task /\ pc' \in {"plan", "approve", "act", "save"}
                   /\ (pc' \in {"approve", "act"} => task'.want \in Wish)
        <5>1. [step |-> step, action |-> action] \in Wish
          BY DEF Wish
        <5>2. task' \in Task /\ task'.want \in Wish
          BY <3>1, <4>2, <5>1, TasksAre DEF Task
        <5> QED
          BY <4>2, <5>2 DEF CheckPermission
      <4> QED
        BY <3>3, <4>1, <4>2 DEF Choose, TaskActions
    <3> QED
      BY <1>15, <3>1, <3>2, <3>3 DEF Plan
  <2> QED
    BY <1>15, <2>1 DEF Plan, TypeOK, talk, files, Editing, Working
<1>16. CASE Approve
  <2>1. task \in Task /\ task.want \in Wish /\ task.want.action \in TaskActions
    BY <1>16 DEF Approve, TypeOK, Working, Wish
  <2>2. task' \in Task /\ task'.want = task.want
    <3>1. [task EXCEPT !.yes[task.want.action] = @ + 1] \in Task
      BY <2>1, TasksAre
    <3>2. [task EXCEPT !.yes[task.want.action] = @ + 1].want = task.want
      BY <2>1 DEF Task
    <3> QED
      BY <1>16, <2>1, <3>1, <3>2 DEF Approve
  <2> QED
    BY <1>16, <2>1, <2>2 DEF Approve, TypeOK, talk, files, Editing, Working
<1>17. CASE Act
  <2>1. task \in Task /\ task.want \in Wish /\ task.want.action \in TaskActions
    BY <1>17 DEF Act, TypeOK, Working, Wish
  <2> DEFINE did == Next1([task EXCEPT !.done[task.want.action] = @ + 1])
  <2>2. did \in Task
    BY <2>1, TasksAre
  <2>3. task.cfg.tests[head] \in Nat
    BY <2>1, SettingsAreConfigured DEF Task, Configured, TypeOK
  <2> HIDE DEF did
  <2>4. pc' \in {"save", "plan"}
        /\ \/ task' = did \/ task' = [did EXCEPT !.tests = task.cfg.tests[head]]
           \/ \E answer \in LinearAnswers :
                task' = [did EXCEPT !.queried = TRUE, !.seen = @ \cup answer.assignees]
    BY <1>17 DEF Act, did
  <2>5. task' \in Task
    <3>1. [did EXCEPT !.tests = task.cfg.tests[head]] \in Task
      BY <2>2, <2>3, TasksAre
    <3>2. ASSUME NEW answer \in LinearAnswers
          PROVE  [did EXCEPT !.queried = TRUE, !.seen = @ \cup answer.assignees] \in Task
      <4>1. answer.assignees \in SUBSET {"me", "other"}
        BY DEF LinearAnswers
      <4> QED
        BY <2>2, <4>1, TasksAre
    <3> QED
      BY <2>2, <2>4, <3>1, <3>2
  <2> QED
    BY <1>17, <2>4, <2>5 DEF Act, TypeOK, talk, files, Editing, Working
<1>18. ASSUME NEW from \in Working, NEW to \in Working \cup {"idle"}, NEW report \in ReportFile,
              ReportStep(from, to, report), to \notin {"approve", "act"}
       PROVE  TypeOK'
  <2>1. tasks \in 1..MaxTasks /\ task \in Task
    BY <1>18 DEF ReportStep, TypeOK, Working
  <2>2. /\ reports' \in [1..MaxTasks -> ReportFile \cup {None}]
        /\ pc' # "idle" => reports'[tasks] \in ReportFile
    BY <1>18, <2>1 DEF ReportStep, TypeOK
  <2> QED
    BY <1>18, <2>1, <2>2 DEF ReportStep, TypeOK, talk, files, Editing, Working
<1>19. {Report(FALSE, FALSE, FALSE), Report(FALSE, TRUE, FALSE), Report(FALSE, TRUE, TRUE)} \subseteq ReportFile
  BY DEF Report, ReportFile
<1>20. CASE Save
  <2>1. ReportStep("save", "text", Report(FALSE, FALSE, FALSE))
    BY <1>20 DEF Save
  <2> QED
    BY <1>18, <1>19, <2>1 DEF Working, Report
<1>21. CASE WriteText
  <2>1. ReportStep("text", "sync", Report(FALSE, TRUE, FALSE))
    BY <1>21 DEF WriteText
  <2> QED
    BY <1>18, <1>19, <2>1 DEF Working, Report
<1>22. CASE Sync
  <2>1. ReportStep("sync", "rename", Report(FALSE, TRUE, TRUE))
    BY <1>22 DEF Sync
  <2> QED
    BY <1>18, <1>19, <2>1 DEF Working, Report
<1>23. CASE Rename
  <2>1. ReportStep("rename", "idle", [reports[tasks] EXCEPT !.listed = TRUE])
    BY <1>23 DEF Rename
  <2>2. reports[tasks] \in ReportFile
    BY <1>23 DEF Rename, TypeOK
  <2>3. [reports[tasks] EXCEPT !.listed = TRUE] \in ReportFile
    BY <2>2 DEF ReportFile
  <2> QED
    BY <1>18, <2>1, <2>3 DEF Working
<1>24. CASE NoReport
  BY <1>24 DEF NoReport, TypeOK, talk, files, Editing, Working
<1>25. CASE PersonSaves
  <2>1. config' \in [lines : File, set : Settings]
    BY <1>25, FilesAre DEF PersonSaves
  <2>2. edited' \in Edited \cup {None} /\ (edited \in Edited => edited' \in Edited)
    BY <1>25, NoneAssumption DEF PersonSaves, TypeOK, Edited
  <2> QED
    BY <1>25, <2>1, <2>2 DEF PersonSaves, TypeOK, talk, Editing, Working
<1>26. CASE PersonChecksOut
  BY <1>26 DEF PersonChecksOut, TypeOK, talk, files, Editing, Working
<1>27. CASE Killed
  BY <1>27 DEF Killed, Gone, Forget, TypeOK, Editing, Working
<1>28. CASE PowerLost
  <2>1. PICK left \in [1..MaxTasks -> UNION {AfterPowerLoss(reports[t]) : t \in 1..MaxTasks}] :
          reports' = left /\ \A t \in 1..MaxTasks : left[t] \in AfterPowerLoss(reports[t])
    BY <1>28 DEF PowerLost
  <2>2. \A report \in ReportFile \cup {None} : AfterPowerLoss(report) \subseteq ReportFile \cup {None}
    <3>1. ASSUME NEW report \in ReportFile, NEW w \in BOOLEAN, NEW l \in BOOLEAN
          PROVE  [report EXCEPT !.whole = w, !.listed = l] \in ReportFile
      BY DEF ReportFile
    <3>2. \A report \in ReportFile : report.whole \in BOOLEAN /\ report.synced \in BOOLEAN /\ report.listed \in BOOLEAN
      BY DEF ReportFile
    <3>3. ASSUME NEW report \in ReportFile, report # None, NEW after \in AfterPowerLoss(report)
          PROVE  after \in ReportFile
      <4>1. {report.whole, report.whole /\ report.synced} \subseteq BOOLEAN /\ {report.listed, FALSE} \subseteq BOOLEAN
        BY <3>2
      <4>2. PICK kept \in {report.whole, report.whole /\ report.synced} \X {report.listed, FALSE} :
              after = [report EXCEPT !.whole = kept[1], !.listed = kept[2]]
        BY <3>3 DEF AfterPowerLoss
      <4>3. kept[1] \in BOOLEAN /\ kept[2] \in BOOLEAN
        BY <4>1
      <4> QED
        BY <3>1, <4>2, <4>3
    <3>4. AfterPowerLoss(None) = {None}
      BY DEF AfterPowerLoss
    <3> QED
      BY <3>3, <3>4
  <2>3. \A t \in 1..MaxTasks : reports[t] \in ReportFile \cup {None}
    BY DEF TypeOK
  <2>4. left \in [1..MaxTasks -> ReportFile \cup {None}]
    BY <2>1, <2>2, <2>3
  <2> QED
    BY <1>28, <2>1, <2>4 DEF PowerLost, Gone, Forget, TypeOK, Editing, Working
<1>29. CASE UNCHANGED vars
  BY <1>29 DEF vars, TypeOK
<1> QED
  BY <1>1, <1>2, <1>3, <1>4, <1>5, <1>6, <1>7, <1>8, <1>9, <1>10, <1>11, <1>12, <1>13, <1>14, <1>15,
     <1>16, <1>17, <1>20, <1>21, <1>22, <1>23, <1>24, <1>25, <1>26, <1>27, <1>28, <1>29 DEF Next

\* Every variable of the assistant holds what it is said to hold, and what a
\* step works on is there: the task, its wish, the edit and the report.
THEOREM AssistantTypes == Spec => []TypeOK
<1> QED
  BY InitTypes, NextTypes, PTL DEF Spec

(***************************************************************************)
(* A sync is asked for.                                                    *)
(***************************************************************************)
\* No step leaves the conversation but in one of these three ways.
LEMMA NextTalks == [Next]_vars => Talked
<1> SUFFICES ASSUME [Next]_vars PROVE Talked
  OBVIOUS
<1>1. CASE Say
  BY <1>1, SayDoes DEF Answered, EditBegins, BeginEdit, BeginTask, Talked
<1>2. CASE Synced
  BY <1>2, SyncedDoes DEF Answered
<1>3. CASE Told
  BY <1>3 DEF Told, Talked
<1>4. CASE Leave \/ Clear \/ Killed \/ PowerLost
  BY <1>4 DEF Leave, Clear, Killed, PowerLost, Gone, Talked
<1>5. CASE UNCHANGED vars
  BY <1>5 DEF vars, talk, Talked
<1>6. CASE Start \/ SayForSync \/ SyncCommand \/ TaskCommand
  BY <1>6 DEF Start, SayForSync, SyncCommand, TaskCommand, BeginTask, Talked
<1>7. CASE ReadForRemoval \/ ReadForInsertion \/ Empty \/ Fill \/ ReadForTask \/ Plan \/ Approve \/ Act
  BY <1>7 DEF ReadForRemoval, ReadForInsertion, Empty, Fill, ReadForTask, Plan, Approve, Act, Talked
<1>8. CASE Save \/ WriteText \/ Sync \/ Rename \/ NoReport
  BY <1>8 DEF Save, WriteText, Sync, Rename, NoReport, ReportStep, Talked
<1>9. CASE PersonSaves \/ PersonChecksOut
  BY <1>9 DEF PersonSaves, PersonChecksOut, Talked
<1> QED
  BY <1>1, <1>2, <1>3, <1>4, <1>5, <1>6, <1>7, <1>8, <1>9 DEF Next

\* No other step than these two begins a sync.
LEMMA SyncBegins ==
  ASSUME [Next]_vars, pc' = "syncing"
  PROVE  SayForSync \/ SyncCommand \/ (pc = "syncing" /\ UNCHANGED <<input, talk>>)
<1>1. CASE Say
  BY <1>1, SayDoes DEF Answered, EditBegins, BeginEdit, BeginTask
<1>2. CASE Synced
  BY <1>2, SyncedDoes DEF Answered
<1>3. CASE Told \/ Leave \/ Killed \/ PowerLost \/ Start \/ TaskCommand
  BY <1>3 DEF Told, Leave, Killed, PowerLost, Start, TaskCommand, BeginTask
<1>4. CASE Clear
  BY <1>4 DEF Clear
<1>5. CASE UNCHANGED vars
  BY <1>5 DEF vars, talk
<1>6. CASE ReadForRemoval \/ ReadForInsertion \/ Empty \/ Fill \/ ReadForTask \/ Approve \/ Act
  BY <1>6 DEF ReadForRemoval, ReadForInsertion, Empty, Fill, ReadForTask, Approve, Act
<1>7. CASE Plan
  BY <1>7 DEF Plan, Choose, CheckPermission
<1>8. CASE Save \/ WriteText \/ Sync \/ Rename \/ NoReport
  BY <1>8 DEF Save, WriteText, Sync, Rename, NoReport, ReportStep
<1>9. CASE PersonSaves \/ PersonChecksOut
  BY <1>9 DEF PersonSaves, PersonChecksOut
<1> QED
  BY <1>1, <1>2, <1>3, <1>4, <1>5, <1>6, <1>7, <1>8, <1>9 DEF Next

\* The messages a confirmation is looked for in are recent.
LEMMA LastAreRecent ==
  ASSUME Talks(history, age), Aged(history, age)
  PROVE  /\ <<"assistant", "ask">> \in LastMessages => age.ask < Recent
         /\ <<"user", "choice">> \in LastMessages => age.choice < Recent
<1>1. /\ Len(history) \in Nat /\ DOMAIN history = 1..Len(history)
      /\ Recent \in Nat /\ age.ask \in Nat /\ age.choice \in Nat
  BY BoundsAreNumbers DEF Talks
<1>2. ASSUME NEW m \in LastMessages
      PROVE  \E i \in DOMAIN history : history[i] = m /\ i \in Int /\ Len(history) - i < Recent
  BY <1>1 DEF LastMessages
<1>3. ASSUME <<"assistant", "ask">> \in LastMessages PROVE age.ask < Recent
  <2>1. PICK i \in DOMAIN history : history[i] = <<"assistant", "ask">> /\ i \in Int /\ Len(history) - i < Recent
    BY <1>2, <1>3
  <2>2. age.ask <= Len(history) - i
    BY <2>1 DEF Aged
  <2> QED
    BY <1>1, <2>1, <2>2
<1>4. ASSUME <<"user", "choice">> \in LastMessages PROVE age.choice < Recent
  <2>1. PICK i \in DOMAIN history : history[i] = <<"user", "choice">> /\ i \in Int /\ Len(history) - i < Recent
    BY <1>2, <1>4
  <2>2. age.choice <= Len(history) - i
    BY <2>1 DEF Aged
  <2> QED
    BY <1>1, <2>1, <2>2
<1> QED
  BY <1>3, <1>4

\* The ages are right from the start.
LEMMA InitSync == Init => SyncInv
BY DEF Init, SyncInv, SyncIsAsked, Aged

\* Every step keeps them right, and a sync begins with a recent word.
LEMMA NextSync == TypeOK /\ SyncInv /\ [Next]_vars => SyncInv'
<1> SUFFICES ASSUME TypeOK, SyncInv, [Next]_vars PROVE SyncInv'
  OBVIOUS
<1>1. Talks(history, age) /\ Aged(history, age)
  BY DEF TypeOK, Talks, SyncInv
<1>2. Aged(history', age')
  BY <1>1, NextTalks, TalkedKeeps
<1>3. ASSUME pc' = "syncing"
      PROVE  \/ input' \in {"/sync", "direct"}
             \/ input' = "choice" /\ age'.ask < Recent
             \/ input' = "now" /\ age'.choice < Recent
  <2>1. CASE SayForSync
    BY <1>1, <2>1, LastAreRecent DEF SayForSync, ConfirmedSync, talk
  <2>2. CASE SyncCommand
    BY <2>2 DEF SyncCommand
  <2>3. CASE pc = "syncing" /\ UNCHANGED <<input, talk>>
    BY <2>3 DEF SyncInv, SyncIsAsked, talk
  <2> QED
    BY <1>3, <2>1, <2>2, <2>3, SyncBegins
<1> QED
  BY <1>2, <1>3 DEF SyncInv, SyncIsAsked

\* The assistant syncs because the user asks for it in so many words, or by a
\* word that shortly follows the question or the choice it answers, however
\* long the conversation is, however little of it is kept, and whatever was
\* cleared, killed or lost before (wants_confirmed_sync, push_history).
THEOREM SyncsAreAsked == Spec => []SyncIsAsked
<1>1. SyncInv => SyncIsAsked
  BY DEF SyncInv
<1> QED
  BY <1>1, InitTypes, NextTypes, InitSync, NextSync, PTL DEF Spec

(***************************************************************************)
(* The reports that are listed are whole.                                  *)
(***************************************************************************)
\* There are none at first.
LEMMA InitReports == Init => ReportsInv
BY DEF Init, ReportsInv, Listed

\* A step that leaves the reports alone begins a task with a new number, if any.
LEMMA ReportsStay ==
  ASSUME TypeOK, ReportsInv, UNCHANGED reports, pc' # "rename",
         \/ tasks' = tasks + 1
         \/ tasks' = tasks /\ (pc' \in {"task", "plan", "approve", "act"} =>
                                 pc \in {"task", "plan", "approve", "act"})
  PROVE  ReportsInv'
<1>1. tasks \in Nat
  BY BoundsAreNumbers DEF TypeOK
<1>2. ASSUME NEW t \in 1..MaxTasks, Listed(reports[t])
      PROVE  /\ reports[t].whole /\ reports[t].synced /\ t <= tasks'
             /\ t = tasks' => pc' \notin {"task", "plan", "approve", "act"}
  BY <1>1, <1>2 DEF ReportsInv
<1> QED
  BY <1>2 DEF ReportsInv, Listed

\* Every step of the assistant, of the person and of the machine keeps them.
LEMMA NextReports == TypeOK /\ ReportsInv /\ [Next]_vars => ReportsInv'
<1> SUFFICES ASSUME TypeOK, ReportsInv, [Next]_vars PROVE ReportsInv'
  OBVIOUS
<1>1. CASE Say
  BY <1>1, SayDoes, ReportsStay DEF Answered, EditBegins, BeginEdit, BeginTask
<1>2. CASE Synced
  BY <1>2, SyncedDoes, ReportsStay DEF Answered
<1>3. CASE Start \/ Leave \/ Clear \/ SayForSync \/ SyncCommand \/ Told \/ Killed
  BY <1>3, ReportsStay DEF Start, Leave, Clear, SayForSync, SyncCommand, Told, Killed
<1>4. CASE TaskCommand
  BY <1>4, ReportsStay DEF TaskCommand, BeginTask
<1>5. CASE ReadForRemoval \/ ReadForInsertion \/ Empty \/ Fill \/ ReadForTask \/ Approve \/ Act
  BY <1>5, ReportsStay DEF ReadForRemoval, ReadForInsertion, Empty, Fill, ReadForTask, Approve, Act
<1>6. CASE Plan
  BY <1>6, ReportsStay DEF Plan, Choose, CheckPermission
<1>7. CASE NoReport
  BY <1>7, ReportsStay DEF NoReport
<1>8. ASSUME NEW from \in {"save", "text", "sync", "rename"}, NEW to \in {"text", "sync", "rename", "idle"},
             NEW report \in ReportFile, ReportStep(from, to, report),
             to = "rename" => report = [listed |-> FALSE, whole |-> TRUE, synced |-> TRUE],
             report.listed => report.whole /\ report.synced
      PROVE  ReportsInv'
  <2>1. CASE pc' = "idle" /\ UNCHANGED reports
    BY <1>8, <2>1, ReportsStay DEF ReportStep
  <2>2. CASE pc' = to /\ reports' = [reports EXCEPT ![tasks] = report]
    <3>1. tasks \in 1..MaxTasks /\ tasks' = tasks
      BY <1>8 DEF ReportStep, TypeOK, Working
    <3>2. reports'[tasks] = report /\ \A t \in 1..MaxTasks \ {tasks} : reports'[t] = reports[t]
      BY <2>2, <3>1 DEF TypeOK
    <3>3. ASSUME NEW t \in 1..MaxTasks, Listed(reports'[t])
          PROVE  /\ reports'[t].whole /\ reports'[t].synced /\ t <= tasks'
                 /\ t = tasks' => pc' \notin {"task", "plan", "approve", "act"}
      <4>1. CASE t = tasks
        BY <1>8, <2>2, <3>1, <3>2, <3>3, <4>1 DEF Listed
      <4>2. CASE t # tasks
        BY <3>1, <3>2, <3>3, <4>2 DEF ReportsInv
      <4> QED
        BY <4>1, <4>2
    <3>4. pc' = "rename" => reports'[tasks'] = [listed |-> FALSE, whole |-> TRUE, synced |-> TRUE]
      BY <1>8, <2>2, <3>1, <3>2
    <3> QED
      BY <3>3, <3>4 DEF ReportsInv, Listed, Report
  <2> QED
    BY <1>8, <2>1, <2>2 DEF ReportStep
<1>9. CASE Save
  BY <1>8, <1>9 DEF Save, Report, ReportFile
<1>10. CASE WriteText
  BY <1>8, <1>10 DEF WriteText, Report, ReportFile
<1>11. CASE Sync
  BY <1>8, <1>11 DEF Sync, Report, ReportFile
<1>12. CASE Rename
  <2>1. reports[tasks] = [listed |-> FALSE, whole |-> TRUE, synced |-> TRUE]
    BY <1>12 DEF Rename, ReportsInv, Report
  <2>2. reports[tasks] \in ReportFile /\ reports[tasks].whole /\ reports[tasks].synced
    BY <2>1 DEF ReportFile
  <2> DEFINE report == [reports[tasks] EXCEPT !.listed = TRUE]
  <2>3. report \in ReportFile /\ report.whole /\ report.synced
    BY <2>2 DEF ReportFile
  <2>4. ReportStep("rename", "idle", report)
    BY <1>12 DEF Rename
  <2> HIDE DEF report
  <2> QED
    BY <1>8, <2>3, <2>4
<1>13. CASE PersonSaves \/ PersonChecksOut
  BY <1>13, ReportsStay DEF PersonSaves, PersonChecksOut, ReportsInv, Listed, files
<1>14. CASE PowerLost
  <2>1. PICK left \in [1..MaxTasks -> UNION {AfterPowerLoss(reports[t]) : t \in 1..MaxTasks}] :
          reports' = left /\ \A t \in 1..MaxTasks : left[t] \in AfterPowerLoss(reports[t])
    BY <1>14 DEF PowerLost
  <2>2. ASSUME NEW t \in 1..MaxTasks, Listed(left[t])
        PROVE  left[t].whole /\ left[t].synced /\ Listed(reports[t])
    <3>1. reports[t] # None /\ reports[t] \in ReportFile
      BY <2>1, <2>2 DEF TypeOK, AfterPowerLoss, Listed
    <3>2. PICK kept \in {reports[t].whole, reports[t].whole /\ reports[t].synced} \X {reports[t].listed, FALSE} :
            left[t] = [reports[t] EXCEPT !.whole = kept[1], !.listed = kept[2]]
      BY <2>1, <3>1 DEF AfterPowerLoss
    <3>3. left[t].listed = kept[2] /\ left[t].whole = kept[1] /\ left[t].synced = reports[t].synced
      BY <3>1, <3>2 DEF ReportFile
    <3>4. Listed(reports[t])
      BY <2>2, <3>1, <3>3 DEF Listed, ReportFile
    <3>5. reports[t].whole /\ reports[t].synced
      BY <3>4 DEF ReportsInv
    <3> QED
      BY <3>1, <3>3, <3>4, <3>5 DEF ReportFile
  <2>3. tasks' = tasks /\ pc' = "off"
    BY <1>14 DEF PowerLost
  <2> QED
    BY <2>1, <2>2, <2>3 DEF ReportsInv, Listed
<1>15. CASE UNCHANGED vars
  BY <1>15 DEF vars, ReportsInv, Listed
<1> QED
  BY <1>1, <1>2, <1>3, <1>4, <1>5, <1>6, <1>7, <1>9, <1>10, <1>11, <1>12, <1>13, <1>14, <1>15 DEF Next

\* A report that /reports lists is whole and is that of a task that is over,
\* for any number of tasks and wherever the saving, the window or the machine
\* stopped: only a text that was synced is renamed (TaskReportStore::save).
THEOREM ListedReportsAreWhole == Spec => []ReportsAreWhole
<1>1. ReportsInv => ReportsAreWhole
  BY DEF ReportsInv, ReportsAreWhole, Listed
<1> QED
  BY <1>1, InitTypes, NextTypes, InitReports, NextReports, PTL DEF Spec

(***************************************************************************)
(* An edit keeps the others.                                               *)
(***************************************************************************)
\* No edit is under way at first.
LEMMA InitEdit == Init => EditInv
BY DEF Init, EditInv, Editing

\* A step that leaves the edit alone, or ends it.
LEMMA EditStays ==
  ASSUME EditInv, pc' \notin Editing \/ (pc' = pc /\ UNCHANGED <<config, edit, edited>>)
  PROVE  EditInv'
<1>1. CASE pc' \notin Editing
  BY <1>1 DEF EditInv, Editing
<1>2. CASE pc' = pc /\ UNCHANGED <<config, edit, edited>>
  BY <1>2 DEF EditInv, Editing
<1> QED
  BY <1>1, <1>2

\* Every step of the edit has the text that the edit is said to make.
LEMMA NextEdit == TypeOK /\ EditInv /\ [Next]_vars => EditInv'
<1> SUFFICES ASSUME TypeOK, EditInv, [Next]_vars PROVE EditInv'
  OBVIOUS
<1>1. CASE Say
  <2>1. CASE EditBegins
    <3>1. PICK kind \in {"remove", "add"}, b \in Branches \cup Names(config.lines), rest \in Rests :
            BeginEdit(kind, b, rest) /\ (kind = "remove" => b \in Names(config.lines))
      BY <2>1 DEF EditBegins
    <3>2. /\ pc' = "reading" /\ config' = config
          /\ edit' = [do |-> kind, branch |-> b, rest |-> rest, lines |-> <<>>]
          /\ edited' = [do |-> kind, branch |-> b, before |-> config.lines, foreign |-> FALSE]
      BY <3>1 DEF BeginEdit
    <3> QED
      BY <2>1, <3>1, <3>2 DEF EditBegins, EditInv, Editing
  <2>2. CASE Answered \/ BeginTask
    BY <2>2, EditStays DEF Answered, BeginTask, Editing
  <2> QED
    BY <1>1, <2>1, <2>2, SayDoes
<1>2. CASE Synced
  BY <1>2, SyncedDoes, EditStays DEF Answered, Editing
<1>3. CASE Start \/ Leave \/ Clear \/ SayForSync \/ SyncCommand \/ TaskCommand \/ Told \/ Killed \/ PowerLost
  BY <1>3, EditStays DEF Start, Leave, Clear, SayForSync, SyncCommand, TaskCommand, BeginTask, Told,
                         Killed, PowerLost, Editing
<1>4. CASE ReadForTask \/ Plan \/ Approve \/ Act
  BY <1>4, EditStays DEF ReadForTask, Plan, Choose, CheckPermission, Approve, Act, Editing
<1>5. CASE Save \/ WriteText \/ Sync \/ Rename \/ NoReport
  BY <1>5, EditStays DEF Save, WriteText, Sync, Rename, NoReport, ReportStep, Editing
<1>6. CASE PersonChecksOut
  BY <1>6, EditStays DEF PersonChecksOut, files
<1>7. CASE UNCHANGED vars
  BY <1>7, EditStays DEF vars
<1>8. ASSUME pc \in Editing
      PROVE  edit \in Edit /\ edited \in Edited /\ edited # None
  BY <1>8, NoneAssumption DEF TypeOK
<1>9. CASE PersonSaves
  <2>1. CASE pc \in Editing
    <3>1. edited' = [edited EXCEPT !.foreign = TRUE] /\ pc' = pc /\ edit' = edit
      BY <1>8, <1>9, <2>1 DEF PersonSaves
    <3>2. /\ edited'.foreign = TRUE /\ edited'.do = edited.do /\ edited'.branch = edited.branch
          /\ edited'.before = edited.before
      BY <1>8, <2>1, <3>1 DEF Edited
    <3> QED
      BY <2>1, <3>1, <3>2 DEF EditInv
  <2>2. CASE pc \notin Editing
    BY <1>9, <2>2, EditStays DEF PersonSaves
  <2> QED
    BY <2>1, <2>2
<1>10. CASE ReadForRemoval
  <2>1. pc = "reading" /\ edit \in Edit /\ edited \in Edited /\ UNCHANGED <<config, edited>>
    BY <1>8, <1>10 DEF ReadForRemoval, Editing
  <2>2. /\ Parses(edited.before) /\ edit.branch = edited.branch /\ edit.do = edited.do
        /\ edited.do = "remove" => edited.branch \in Names(edited.before)
        /\ ~edited.foreign => config.lines = edited.before
    BY <2>1 DEF EditInv, Editing
  <2>3. CASE Found(config.lines, edit.branch)
    <3>1. pc' = "emptying" /\ edit' = [edit EXCEPT !.lines = WithoutBranch(config.lines, edit.branch)]
      BY <1>10, <2>3 DEF ReadForRemoval
    <3>2. /\ edit'.branch = edit.branch /\ edit'.do = edit.do
          /\ edit'.lines = WithoutBranch(config.lines, edit.branch) /\ edit.do # "insert"
      BY <2>1, <2>2, <3>1 DEF Edit, Edited
    <3>3. ~edited.foreign => /\ edit'.lines = Cut(edited.before, edited.branch)
                             /\ config'.lines = edited.before
      BY <2>1, <2>2, <2>3, <3>2 DEF Cut
    <3> QED
      BY <2>1, <2>2, <3>1, <3>2, <3>3 DEF EditInv
  <2>4. CASE ~Found(config.lines, edit.branch)
    <3>1. pc' = (IF edit.do = "remove" THEN "told" ELSE "inserting") /\ edit' = edit
      BY <1>10, <2>4 DEF ReadForRemoval
    <3>2. ~edited.foreign => config.lines = Cut(edited.before, edited.branch)
      BY <2>2, <2>4 DEF Cut
    <3>3. edit.do \in {"remove", "add"}
      BY <2>1, <2>2 DEF Edited
    <3> QED
      BY <2>1, <2>2, <3>1, <3>2, <3>3 DEF EditInv
  <2> QED
    BY <2>3, <2>4
<1>11. CASE ReadForInsertion
  <2>1. /\ pc = "inserting" /\ pc' = "emptying" /\ edit \in Edit /\ UNCHANGED <<config, edited>>
        /\ edit' = [edit EXCEPT !.lines = WithBranch(config.lines, edit.branch, edit.rest), !.do = "insert"]
    BY <1>8, <1>11 DEF ReadForInsertion, Editing
  <2>2. /\ Parses(edited.before) /\ edit.branch = edited.branch /\ edited.do = "add"
        /\ ~edited.foreign => config.lines = Cut(edited.before, edited.branch)
    BY <2>1 DEF EditInv, Editing
  <2>3. /\ edit'.branch = edit.branch /\ edit'.do = "insert" /\ edit'.rest = edit.rest
        /\ edit'.lines = WithBranch(config.lines, edit.branch, edit.rest)
    BY <2>1 DEF Edit
  <2>4. ~edited.foreign => /\ edit'.lines = Replaced(edited.before, edited.branch, edit'.rest)
                           /\ config'.lines = Cut(edited.before, edited.branch)
    BY <2>1, <2>2, <2>3 DEF Replaced
  <2> QED
    BY <2>1, <2>2, <2>3, <2>4 DEF EditInv
<1>12. CASE Empty
  <2>1. pc = "emptying" /\ pc' = "filling" /\ UNCHANGED <<edit, edited>>
    BY <1>12 DEF Empty
  <2> QED
    BY <2>1 DEF EditInv, Editing
<1>13. CASE Fill
  <2>1. /\ pc = "filling" /\ UNCHANGED <<edit, edited>>
        /\ pc' = IF edit.do = "add" THEN "inserting" ELSE "told"
        /\ config' = [config EXCEPT !.lines = edit.lines]
    BY <1>13 DEF Fill
  <2>2. config'.lines = edit.lines
    BY <2>1 DEF TypeOK
  <2>3. edit \in Edit /\ edited \in Edited
    BY <1>8, <2>1 DEF Editing
  <2>4. edit.do \in {"remove", "add", "insert"}
    BY <2>3 DEF Edit
  <2> QED
    BY <2>1, <2>2, <2>4 DEF EditInv, Editing
<1> QED
  BY <1>1, <1>2, <1>3, <1>4, <1>5, <1>6, <1>7, <1>9, <1>10, <1>11, <1>12, <1>13 DEF Next

\* What the file has in common with the one the edit began with.
LEMMA EditKeeps == TypeOK /\ EditInv => EditsKeepOthers
<1> SUFFICES ASSUME TypeOK, EditInv, pc \in Editing, ~edited.foreign, Recognised(edited.before)
             PROVE  LET before == edited.before
                        now    == config.lines
                        b      == edited.branch
                    IN  /\ pc # "filling" =>
                             /\ Keys(now) = Keys(before)
                             /\ Names(now) \ {b} = Names(before) \ {b}
                        /\ pc = "told" /\ edited.do = "add" => b \in Names(now)
                        /\ pc = "told" /\ edited.do = "remove" =>
                             /\ Parses(now)
                             /\ Found(before, b) /\ ListedOnce(before) => b \notin Names(now)
  BY DEF EditsKeepOthers
<1> DEFINE before == edited.before
           now    == config.lines
           b      == edited.branch
           rest   == edit.rest
<1>1. /\ edited.do \in {"remove", "add"} /\ b \in Branches /\ before \in Seq(Style(Branches))
      /\ rest \in Rests /\ pc \in Editing
  <2>1. edited \in Edited /\ edit \in Edit
    BY DEF TypeOK
  <2> QED
    BY <2>1, StyleIs DEF Edited, Edit, File
<1>2. /\ Parses(before)
      /\ pc \in {"reading", "emptying", "inserting"} => now \in {before, Cut(before, b)}
      /\ pc = "told" => now = IF edited.do = "add" THEN Replaced(before, b, rest) ELSE Cut(before, b)
  BY DEF EditInv, Editing
<1> HIDE DEF before, now, b, rest
<1>3. /\ Keys(Cut(before, b)) = Keys(before)
      /\ Names(Cut(before, b)) \ {b} = Names(before) \ {b}
      /\ Parses(Cut(before, b))
      /\ Found(before, b) /\ ListedOnce(before) => b \notin Names(Cut(before, b))
  BY <1>1, <1>2, RemovalKeeps DEF Cut
<1>4. /\ Keys(Replaced(before, b, rest)) = Keys(before)
      /\ Names(Replaced(before, b, rest)) = Names(before) \cup {b}
  BY <1>1, ReplacementKeeps
<1>5. CASE pc \in {"reading", "emptying", "inserting"}
  BY <1>2, <1>3, <1>5 DEF before, now, b
<1>6. CASE pc = "told"
  <2>1. CASE edited.do = "add"
    BY <1>2, <1>4, <1>6, <2>1 DEF before, now, b
  <2>2. CASE edited.do = "remove"
    BY <1>2, <1>3, <1>6, <2>2 DEF before, now, b
  <2> QED
    BY <1>1, <2>1, <2>2
<1>7. CASE pc = "filling"
  BY <1>7
<1> QED
  BY <1>1, <1>5, <1>6, <1>7 DEF Editing

\* In whatever file whose sections and branches the code recognises, an edit
\* that no other save came between keeps every other branch and every section
\* at each of its steps, the writing itself excepted, and a removal leaves a
\* file that can be read (remove_branch_from_config,
\* add_or_replace_branch_in_config).
THEOREM EditsKeepTheOthers == Spec => []EditsKeepOthers
<1> QED
  BY InitTypes, NextTypes, InitEdit, NextEdit, EditKeeps, PTL DEF Spec

(***************************************************************************)
(* A task does what was granted.                                           *)
(***************************************************************************)
\* What of Granted is about one action of a task.
May(t, a) ==
    /\ Authorize(t.cfg, a) = "deny" => t.done[a] = 0
    /\ Authorize(t.cfg, a) = "ask" => t.done[a] <= t.yes[a]
    /\ Authorize(t.cfg, a) = "allow" => t.yes[a] = 0

\* An action is denied, asked for or allowed.
LEMMA ModesAre ==
  ASSUME NEW t \in Task, NEW a \in TaskActions
  PROVE  /\ Authorize(t.cfg, a) \in {"deny", "ask", "allow"}
         /\ t.done[a] \in Nat /\ t.yes[a] \in Nat
<1>1. t.cfg \in Configured
  BY SettingsAreConfigured DEF Task
<1> QED
  BY <1>1 DEF Authorize, Configured, Modes, Task

\* Granted, by actions.
GrantedTo(t) ==
    /\ \A a \in TaskActions : May(t, a)
    /\ t.done["linear_read"] <= 1
    /\ t.seen \subseteq {"me"}

\* It is the same.
LEMMA GrantedIs ==
  ASSUME task \in Task, task # None
  PROVE  Granted <=> GrantedTo(task)
<1>1. ASSUME NEW a \in TaskActions
      PROVE  (CASE Authorize(task.cfg, a) = "deny" -> task.done[a] = 0
                [] Authorize(task.cfg, a) = "ask"  -> task.done[a] <= task.yes[a]
                [] OTHER -> task.yes[a] = 0) <=> May(task, a)
  BY ModesAre DEF May
<1> QED
  BY <1>1 DEF Granted, GrantedTo

\* GrantedInv of a task that is at step p.
GrantedAt(p, t) ==
    /\ GrantedTo(t)
    /\ ~t.queried => t.done["linear_read"] = 0
    /\ p \in {"approve", "act"} =>
         /\ (t.want.action = "linear_read") <=> (t.want.step = "linear")
         /\ t.want.step = "linear" => ~t.queried
    /\ p = "approve" => Authorize(t.cfg, t.want.action) = "ask"
    /\ p = "act" => \/ Authorize(t.cfg, t.want.action) = "allow"
                    \/ /\ Authorize(t.cfg, t.want.action) = "ask"
                       /\ t.done[t.want.action] < t.yes[t.want.action]

\* A task begins without a deed.
LEMMA NewIsGranted ==
  ASSUME NEW cfg \in Settings
  PROVE  GrantedAt("plan", NewTask(cfg))
BY DEF NewTask, GrantedAt, GrantedTo, May, TaskActions

\* A choice of the model goes on to what its permission says.
LEMMA ChoiceIsGranted ==
  ASSUME NEW t \in Task, GrantedAt("plan", t), NEW step \in {"inspect", "read", "tests", "linear"},
         NEW action \in TaskActions, (action = "linear_read") <=> (step = "linear"),
         step = "linear" => ~t.queried,
         NEW to \in {"save", "approve", "act"},
         to = "approve" => Authorize(t.cfg, action) = "ask",
         to = "act" => Authorize(t.cfg, action) = "allow"
  PROVE  GrantedAt(to, [t EXCEPT !.want = [step |-> step, action |-> action]])
<1> DEFINE new == [t EXCEPT !.want = [step |-> step, action |-> action]]
<1>1. /\ new.cfg = t.cfg /\ new.done = t.done /\ new.yes = t.yes /\ new.seen = t.seen
      /\ new.queried = t.queried /\ new.want.step = step /\ new.want.action = action
  BY DEF Task
<1> HIDE DEF new
<1>2. GrantedTo(new)
  BY <1>1 DEF GrantedAt, GrantedTo, May
<1>3. GrantedAt(to, new)
  BY <1>1, <1>2 DEF GrantedAt
<1> QED
  BY <1>3 DEF new

\* A yes is one more than what was done.
LEMMA YesIsGranted ==
  ASSUME NEW t \in Task, GrantedAt("approve", t), t.want \in Wish
  PROVE  GrantedAt("act", [t EXCEPT !.yes[t.want.action] = @ + 1])
<1> DEFINE a == t.want.action
           new == [t EXCEPT !.yes[a] = @ + 1]
<1>1. a \in TaskActions
  BY DEF Wish
<1>2. /\ new.cfg = t.cfg /\ new.done = t.done /\ new.seen = t.seen
      /\ new.queried = t.queried /\ new.want = t.want
      /\ new.yes[a] = t.yes[a] + 1 /\ \A c \in TaskActions \ {a} : new.yes[c] = t.yes[c]
  BY <1>1 DEF Task
<1>3. Authorize(t.cfg, a) = "ask" /\ GrantedTo(t)
  BY DEF GrantedAt
<1> HIDE DEF new, a
<1>4. ASSUME NEW c \in TaskActions PROVE May(new, c)
  <2>1. May(t, c) /\ t.done[c] \in Nat /\ t.yes[c] \in Nat
    BY <1>3, ModesAre DEF GrantedTo
  <2>2. CASE c = a
    BY <1>2, <1>3, <2>1, <2>2 DEF May
  <2>3. CASE c # a
    BY <1>2, <2>1, <2>3 DEF May
  <2> QED
    BY <2>2, <2>3
<1>5. t.done[a] <= t.yes[a] /\ t.done[a] \in Nat /\ t.yes[a] \in Nat
  BY <1>1, <1>3, ModesAre DEF GrantedTo, May
<1>6. t.done[a] < t.yes[a] + 1
  BY <1>5
<1>7. GrantedTo(new)
  BY <1>2, <1>3, <1>4 DEF GrantedTo
<1>8. new.want.action = a
  BY <1>2 DEF a
<1>9. GrantedAt("act", new)
  BY <1>2, <1>3, <1>6, <1>7, <1>8 DEF GrantedAt
<1> QED
  BY <1>9 DEF new, a

\* What the permission or the yes was for is done; Linear is not read after it
\* has answered.
LEMMA DeedIsGranted ==
  ASSUME NEW t \in Task, GrantedAt("act", t), t.want \in Wish,
         NEW done \in Task, done.cfg = t.cfg, done.yes = t.yes,
         done.done = [t.done EXCEPT ![t.want.action] = @ + 1],
         done.seen \subseteq {"me"},
         NEW to \in {"plan", "save"},
         to = "plan" => (~done.queried => ~t.queried /\ t.want.step # "linear")
  PROVE  GrantedTo(done) /\ (to = "plan" => GrantedAt(to, done))
<1> DEFINE a == t.want.action
<1>1. a \in TaskActions /\ "linear_read" \in TaskActions /\ GrantedTo(t)
  BY DEF Wish, GrantedAt, TaskActions
<1>2. /\ (a = "linear_read") <=> (t.want.step = "linear")
      /\ t.want.step = "linear" => ~t.queried
      /\ ~t.queried => t.done["linear_read"] = 0
      /\ \/ Authorize(t.cfg, a) = "allow"
         \/ Authorize(t.cfg, a) = "ask" /\ t.done[a] < t.yes[a]
  BY DEF GrantedAt
<1>3. /\ \A c \in TaskActions : t.done[c] \in Nat /\ t.yes[c] \in Nat
      /\ done.done[a] = t.done[a] + 1 /\ \A c \in TaskActions \ {a} : done.done[c] = t.done[c]
  BY <1>1, ModesAre DEF Task
<1> HIDE DEF a
<1>4. ASSUME NEW c \in TaskActions PROVE May(done, c)
  <2>1. May(t, c)
    BY <1>1 DEF GrantedTo
  <2>2. CASE c = a
    BY <1>2, <1>3, <2>1, <2>2 DEF May
  <2>3. CASE c # a
    BY <1>3, <2>1, <2>3 DEF May
  <2> QED
    BY <2>2, <2>3
<1>5. done.done["linear_read"] <= 1
  <2>1. CASE a = "linear_read"
    BY <1>2, <1>3, <2>1
  <2>2. CASE a # "linear_read"
    BY <1>1, <1>3, <2>2 DEF GrantedTo
  <2> QED
    BY <2>1, <2>2
<1>6. GrantedTo(done)
  BY <1>4, <1>5 DEF GrantedTo
<1>7. ASSUME to = "plan", ~done.queried PROVE done.done["linear_read"] = 0
  BY <1>1, <1>2, <1>3, <1>7
<1> QED
  BY <1>6, <1>7 DEF GrantedAt

\* The steps at which the model chooses, the user is asked, and the task acts.
Deciding == {"plan", "approve", "act"}

\* GrantedInv, by the step that the task is at.
GrantedByStep ==
    /\ task # None => GrantedTo(task)
    /\ pc \in Deciding => GrantedAt(pc, task)

\* It is the same.
LEMMA GrantedInvIs == TypeOK => (GrantedInv <=> GrantedByStep)
<1> SUFFICES ASSUME TypeOK PROVE GrantedInv <=> GrantedByStep
  OBVIOUS
<1>1. CASE task = None
  <2>1. pc \notin Deciding
    BY <1>1, NoneAssumption DEF TypeOK, Working, Deciding
  <2> QED
    BY <1>1, <2>1 DEF GrantedInv, Granted, GrantedByStep, Deciding
<1>2. CASE task # None
  <2>1. task \in Task
    BY <1>2 DEF TypeOK
  <2>2. Granted <=> GrantedTo(task)
    BY <1>2, <2>1, GrantedIs
  <2> QED
    BY <1>2, <2>2 DEF GrantedInv, GrantedAt, GrantedByStep, Deciding
<1> QED
  BY <1>1, <1>2

\* There is no task at first.
LEMMA InitGranted == Init => GrantedInv
BY DEF Init, GrantedInv, Granted

\* All but four steps leave a task as it is, or end it.
LEMMA TaskStays ==
  ASSUME [Next]_vars, ~ReadForTask, ~Plan, ~Approve, ~Act
  PROVE  /\ task' \in {task, None}
         /\ pc' \in Deciding => pc' = pc /\ task' = task
<1>1. CASE Say
  BY <1>1, SayDoes DEF Answered, EditBegins, BeginEdit, BeginTask, Deciding
<1>2. CASE Synced
  BY <1>2, SyncedDoes DEF Answered, Deciding
<1>3. CASE Start \/ Leave \/ Clear \/ SayForSync \/ SyncCommand \/ TaskCommand \/ Told \/ Killed \/ PowerLost
  BY <1>3 DEF Start, Leave, Clear, SayForSync, SyncCommand, TaskCommand, BeginTask, Told, Killed,
              PowerLost, Gone, Deciding
<1>4. CASE ReadForRemoval \/ ReadForInsertion \/ Empty \/ Fill
  BY <1>4 DEF ReadForRemoval, ReadForInsertion, Empty, Fill, Deciding
<1>5. CASE Save \/ WriteText \/ Sync \/ Rename \/ NoReport
  BY <1>5 DEF Save, WriteText, Sync, Rename, NoReport, ReportStep, Deciding
<1>6. CASE PersonSaves \/ PersonChecksOut
  BY <1>6 DEF PersonSaves, PersonChecksOut
<1>7. CASE UNCHANGED vars
  BY <1>7 DEF vars
<1> QED
  BY <1>1, <1>2, <1>3, <1>4, <1>5, <1>6, <1>7 DEF Next

\* Every step of a task keeps what it did within what was granted.
LEMMA NextGranted == TypeOK /\ GrantedByStep /\ [Next]_vars => GrantedByStep'
<1> SUFFICES ASSUME TypeOK, GrantedByStep, [Next]_vars PROVE GrantedByStep'
  OBVIOUS
<1>1. TypeOK'
  BY NextTypes
<1>2. /\ task # None => GrantedTo(task)
      /\ pc \in Deciding => GrantedAt(pc, task)
  BY DEF GrantedByStep
<1>3. (task' # None => GrantedTo(task')) /\ (pc' \in Deciding => GrantedAt(pc', task')) => GrantedByStep'
  BY DEF GrantedByStep
<1>4. ASSUME pc \in Deciding PROVE task \in Task
  BY <1>4 DEF TypeOK, Working, Deciding
<1>5. CASE ReadForTask
  <2>1. CASE pc' = "plan" /\ task' = NewTask(config.set)
    <3>1. config.set \in Settings
      BY DEF TypeOK
    <3>2. GrantedAt("plan", task')
      BY <2>1, <3>1, NewIsGranted
    <3> QED
      BY <1>3, <2>1, <3>2 DEF GrantedAt
  <2>2. CASE pc' = "idle" /\ task' = None
    BY <1>3, <2>2 DEF Deciding
  <2> QED
    BY <1>5, <2>1, <2>2 DEF ReadForTask
<1>6. CASE Plan
  <2>1. task \in Task /\ GrantedAt("plan", task)
    BY <1>2, <1>4, <1>6 DEF Plan, Deciding
  <2>2. CASE pc' = "save" /\ UNCHANGED task
    BY <1>2, <1>3, <2>2 DEF Deciding
  <2>3. ASSUME NEW step \in {"inspect", "read", "tests", "linear"}, Choose(step)
        PROVE  GrantedByStep'
    <3>1. CASE pc' = "plan" /\ task' = Next1(task)
      <4>1. /\ task'.cfg = task.cfg /\ task'.done = task.done /\ task'.yes = task.yes
            /\ task'.seen = task.seen /\ task'.queried = task.queried
        BY <2>1, <3>1 DEF Next1, Task
      <4>2. GrantedAt("plan", task')
        BY <2>1, <4>1 DEF GrantedAt, GrantedTo, May
      <4> QED
        BY <1>3, <3>1, <4>2 DEF GrantedAt
    <3>2. ASSUME NEW action \in TaskActions, CheckPermission(action),
                 (action = "linear_read") <=> (step = "linear"), step = "linear" => ~task.queried,
                 task' = [task EXCEPT !.want = [step |-> step, action |-> action]]
          PROVE  GrantedByStep'
      <4>1. Authorize(task.cfg, action) \in {"deny", "ask", "allow"}
        BY <2>1, ModesAre
      <4>2. /\ pc' \in {"save", "approve", "act"}
            /\ pc' = "approve" => Authorize(task.cfg, action) = "ask"
            /\ pc' = "act" => Authorize(task.cfg, action) = "allow"
        BY <3>2, <4>1 DEF CheckPermission
      <4>3. GrantedAt(pc', task')
        BY <2>1, <2>3, <3>2, <4>2, ChoiceIsGranted
      <4> QED
        BY <1>3, <4>3 DEF GrantedAt
    <3> QED
      BY <2>3, <3>1, <3>2 DEF Choose, TaskActions
  <2> QED
    BY <1>6, <2>2, <2>3 DEF Plan
<1>7. CASE Approve
  <2>1. task \in Task /\ task.want \in Wish /\ GrantedAt("approve", task)
    BY <1>2, <1>4, <1>7 DEF Approve, Deciding, TypeOK
  <2>2. CASE pc' = "act" /\ task' = [task EXCEPT !.yes[task.want.action] = @ + 1]
    <3>1. GrantedAt("act", task')
      BY <2>1, <2>2, YesIsGranted
    <3> QED
      BY <1>3, <2>2, <3>1 DEF GrantedAt
  <2>3. CASE pc' = "save" /\ UNCHANGED task
    BY <1>2, <1>3, <2>3 DEF Deciding
  <2> QED
    BY <1>7, <2>2, <2>3 DEF Approve
<1>8. CASE Act
  <2>1. task \in Task /\ task.want \in Wish /\ GrantedAt("act", task)
    BY <1>2, <1>4, <1>8 DEF Act, Deciding, TypeOK
  <2> DEFINE did == Next1([task EXCEPT !.done[task.want.action] = @ + 1])
  <2>2. did \in Task
    BY <2>1, TasksAre DEF Wish
  <2>3. /\ did.cfg = task.cfg /\ did.yes = task.yes /\ did.seen = task.seen
        /\ did.done = [task.done EXCEPT ![task.want.action] = @ + 1]
        /\ did.queried = task.queried /\ task.queried \in BOOLEAN
    BY <2>1 DEF Next1, Task, Wish
  <2>4. task.seen \subseteq {"me"}
    BY <2>1 DEF GrantedAt, GrantedTo
  <2>5. task' \in Task
    BY <1>1, <1>8 DEF Act, TypeOK, Working
  <2>6. CASE pc' = "save" /\ task' = did
    <3>1. GrantedTo(task')
      BY <2>1, <2>2, <2>3, <2>4, <2>6, DeedIsGranted
    <3> QED
      BY <1>3, <2>6, <3>1 DEF Deciding
  <2>7. ASSUME pc' = "plan", GrantedTo(task') /\ GrantedAt("plan", task') PROVE GrantedByStep'
    BY <1>3, <2>7
  <2>8. CASE pc' = "plan" /\ task.want.step \in {"inspect", "read", "tests"}
             /\ task' \in {did, [did EXCEPT !.tests = task.cfg.tests[head]]}
    <3>1. /\ task'.cfg = did.cfg /\ task'.yes = did.yes /\ task'.seen = did.seen
          /\ task'.done = did.done /\ task'.queried = did.queried
      BY <2>2, <2>8 DEF Task
    <3> HIDE DEF did
    <3>2. GrantedTo(task') /\ GrantedAt("plan", task')
      BY <2>1, <2>3, <2>4, <2>5, <2>8, <3>1, DeedIsGranted
    <3> QED
      BY <2>7, <2>8, <3>2
  <2>9. ASSUME pc' = "plan", NEW answer \in LinearAnswers, FetchLinear(answer),
               task' = [did EXCEPT !.queried = TRUE, !.seen = @ \cup answer.assignees]
        PROVE  GrantedByStep'
    <3>1. /\ task'.cfg = did.cfg /\ task'.yes = did.yes /\ task'.done = did.done
          /\ task'.queried = TRUE /\ task'.seen = did.seen \cup answer.assignees
      BY <2>2, <2>9 DEF Task
    <3>2. answer.assignees \subseteq {"me"}
      BY <2>9 DEF FetchLinear
    <3> HIDE DEF did
    <3>3. GrantedTo(task') /\ GrantedAt("plan", task')
      BY <2>1, <2>3, <2>4, <2>5, <3>1, <3>2, DeedIsGranted
    <3> QED
      BY <2>7, <2>9, <3>3
  <2> QED
    BY <1>8, <2>6, <2>8, <2>9 DEF Act
<1>9. CASE ~ReadForTask /\ ~Plan /\ ~Approve /\ ~Act
  BY <1>2, <1>3, <1>9, TaskStays
<1> QED
  BY <1>5, <1>6, <1>7, <1>8, <1>9

\* What a task does was allowed by the configuration it began with, for any
\* permissions, number of steps and answers: nothing that is denied, an action
\* to be asked for no more often than it was said yes to, and Linear once, of
\* which the model sees nothing but the user's own (LocalTaskRunner).
THEOREM TasksDoWhatWasGranted == Spec => []Granted
<1>1. GrantedInv => Granted
  BY DEF GrantedInv
<1> QED
  BY <1>1, InitTypes, NextTypes, InitGranted, NextGranted, GrantedInvIs, PTL DEF Spec
================================================================================
